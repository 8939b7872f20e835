------------------------------ MODULE Opening ------------------------------
(***************************************************************************)
(* SessionStore over OrtRuntime: the load that SessionStore::acquire runs  *)
(* outside its mutex (src/session_store.cpp:54-58) is load_session         *)
(* (src/session.cpp), which goes through init_ort, the runtime's mutex and *)
(* the making of the ONNX Runtime session.  SessionStore takes for granted *)
(* that a load ends; here that is a consequence of what the loads of other *)
(* models, and configure_runtime, do meanwhile.  configure_cache, which    *)
(* changes nothing that the runtime sees, is left to Embedder.             *)
(***************************************************************************)
EXTENDS SessionStore

CONSTANTS NoThread, Sizes, NoPool  \* as in OrtRuntime

ASSUME OpeningAssumption == NoThread \notin Threads /\ Sizes \subseteq Int /\ NoPool \notin Int

VARIABLES once, api, mutex, started, threads, pool, pc, result  \* as in OrtRuntime

Runtime == INSTANCE OrtRuntime

runtimeVars == <<once, api, mutex, started, threads, pool, pc, result>>
openingVars == <<vars, runtimeVars>>

OpeningInit == Init /\ Runtime!Init

\* The open is served by a session or a load that is there.
Shares(t) == (\E k \in Keys : LiveHit(t, k) \/ Join(t, k)) /\ UNCHANGED runtimeVars

\* It leads the load of its model, and enters load_session.
Leads(t) == (\E k \in Keys : Lead(t, k)) /\ Runtime!Load(t)

\* Inside load_session.
InLoad(t) == Runtime!Proceed(t) /\ pc'[t] # "idle" /\ UNCHANGED vars

GetsMutex(t) == Runtime!Lock(t) /\ UNCHANGED vars

\* load_session returns its status to acquire(), or throws through it.
LoadReturns(t) ==
  /\ Runtime!Proceed(t) /\ pc'[t] = "idle"
  /\ \/ result'[t] = "session" /\ LoadSucceeds(t)
     \/ result'[t] = "status" /\ LoadFails(t)
     \/ result'[t] = "throw" /\ LoadThrows(t)

\* The rest of acquire().
AfterLoading(t) == (Publish(t) \/ Get(t) \/ Return(t)) /\ UNCHANGED runtimeVars

Releases == (\E l \in Loads : Release(l)) /\ UNCHANGED runtimeVars

\* A thread that is in no open configures the runtime, whatever the others are in.
ConfiguresRuntime(t) ==
  Idle(t) /\ (\E n \in Sizes : Runtime!ConfigureRuntime(t, n)) /\ UNCHANGED vars

Goes(t) == InLoad(t) \/ LoadReturns(t) \/ AfterLoading(t)

OpeningNext ==
  \/ \E t \in Threads : Shares(t) \/ Leads(t) \/ Goes(t) \/ GetsMutex(t) \/ ConfiguresRuntime(t)
  \/ Releases

\* Threads run, and the runtime's mutex, taken again and again, is had in the end.
OpeningFairness ==
  \A t \in Threads : WF_openingVars(Goes(t)) /\ SF_openingVars(GetsMutex(t))

OpeningSpec == OpeningInit /\ [][OpeningNext]_openingVars /\ OpeningFairness

-----------------------------------------------------------------------------
(* Refinement                                                              *)

\* What SessionStore assumes of load_session, that it ends, holds of this one: the
\* composition is a SessionStore with its fairness, though its loads wait for each other
\* at call_once and at the runtime's mutex.
ImplementsSessionStore == Spec

\* Nobody has a model open before the process's pool is fixed
\* (include/cyborgdb_embed/embed.hpp:185-186): the size that configure_runtime accepts
\* no longer changes under any handle.
HandlesFixPool == [][(\E l \in Loads : handles[l] > 0) => threads' = threads]_openingVars
=============================================================================
