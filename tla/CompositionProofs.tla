------------------------- MODULE CompositionProofs -------------------------
(***************************************************************************)
(* Proofs about the two compositions on SessionStore, for any threads,     *)
(* models, objects, opens and pool sizes.                                  *)
(*                                                                         *)
(* Opening: it takes the steps of a SessionStore and those of an           *)
(* OrtRuntime and no others, so that what is proved of each holds of both  *)
(* together; and what only the two together promise.                       *)
(*                                                                         *)
(* Embedder: what its objects promise, and that SessionStore, whose own    *)
(* theorems take over here, sees nothing but opens and releases.           *)
(*                                                                         *)
(* The two speak of one store, so that the end has both: the objects over  *)
(* the store over the runtime.                                             *)
(***************************************************************************)
EXTENDS Opening, Embedder, SessionStoreProofs

-----------------------------------------------------------------------------
(***************************************************************************)
(* Opening: the store over the runtime                                     *)
(***************************************************************************)

\* OrtRuntime with its theorems, on the same variables as Runtime.
R == INSTANCE OrtRuntimeProofs

-----------------------------------------------------------------------------
(* The steps of the store                                                  *)

LEMMA OpeningStoreStep == [OpeningNext]_openingVars => [Next]_vars
<1> SUFFICES ASSUME [OpeningNext]_openingVars PROVE Next \/ UNCHANGED vars
  OBVIOUS
<1>1. ASSUME NEW t \in Threads, Shares(t) \/ Leads(t) PROVE Next
  BY <1>1 DEF Shares, Leads, Next, Acquire
<1>2. ASSUME NEW t \in Threads, LoadReturns(t) \/ AfterLoading(t) PROVE Next
  BY <1>2 DEF LoadReturns, AfterLoading, Next, Proceed, LoadEnds
<1>3. ASSUME NEW t \in Threads, InLoad(t) \/ GetsMutex(t) \/ ConfiguresRuntime(t)
      PROVE  UNCHANGED vars
  BY <1>3 DEF InLoad, GetsMutex, ConfiguresRuntime
<1>4. CASE Releases
  BY <1>4 DEF Releases, Next
<1>5. CASE UNCHANGED openingVars
  BY <1>5 DEF openingVars
<1> QED
  BY <1>1, <1>2, <1>3, <1>4, <1>5 DEF OpeningNext, Goes

\* Whatever the loads and configurations of other threads do to the runtime meanwhile, to
\* the store they are loads that end, or do not yet: the composition implements the
\* safety of SessionStore (src/session_store.cpp:54-58).
THEOREM OpeningStoreSteps == OpeningSpec => StoreSteps
<1>1. OpeningInit => Init
  BY DEF OpeningInit
<1> QED
  BY <1>1, OpeningStoreStep, PTL DEF OpeningSpec, StoreSteps

\* So under loads that wait for each other too, a model is built once at a time and has
\* one session at most.
THEOREM OpeningStoreSafe == OpeningSpec => []StoreSafety
  BY OpeningStoreSteps, StoreIsSafe, PTL

\* And the composition keeps the promise of ModelSharing, two refinements up.
THEOREM OpeningShares == OpeningSpec => SharingSafety
  BY OpeningStoreSteps, StepsShare, PTL

-----------------------------------------------------------------------------
(* The steps of the runtime                                                *)

LEMMA ActionsSame ==
  ASSUME NEW t \in Threads
  PROVE  /\ Runtime!Load(t) <=> R!Load(t)
         /\ Runtime!Lock(t) <=> R!Lock(t)
         /\ Runtime!Proceed(t) <=> R!Proceed(t)
         /\ \A n : Runtime!ConfigureRuntime(t, n) <=> R!ConfigureRuntime(t, n)
<1> USE DEF Runtime!At, R!At, Runtime!Goto, R!Goto, Runtime!End, R!End
<1>1. Runtime!Load(t) <=> R!Load(t)
  BY DEF Runtime!Load, R!Load
<1>2. Runtime!Lock(t) <=> R!Lock(t)
  BY DEF Runtime!Lock, R!Lock
<1>3. Runtime!Ensure(t) <=> R!Ensure(t)
  BY DEF Runtime!Ensure, R!Ensure
<1>4. Runtime!InitOrt(t) <=> R!InitOrt(t)
  BY DEF Runtime!InitOrt, R!InitOrt, Runtime!CallOnce, R!CallOnce
<1>5. Runtime!GetApi(t) <=> R!GetApi(t)
  BY DEF Runtime!GetApi, R!GetApi
<1>6. Runtime!LoadTokenizer(t) <=> R!LoadTokenizer(t)
  BY DEF Runtime!LoadTokenizer, R!LoadTokenizer
<1>7. Runtime!Construct(t) <=> R!Construct(t)
  BY DEF Runtime!Construct, R!Construct
<1>8. Runtime!Unlock(t) <=> R!Unlock(t)
  BY DEF Runtime!Unlock, R!Unlock
<1>9. Runtime!MakeSession(t) <=> R!MakeSession(t)
  BY DEF Runtime!MakeSession, R!MakeSession, Runtime!Results, R!Results
<1>10. \A n : Runtime!ConfigureRuntime(t, n) <=> R!ConfigureRuntime(t, n)
  BY DEF Runtime!ConfigureRuntime, R!ConfigureRuntime, Runtime!MayConfigure, R!MayConfigure,
         Runtime!Accepts, R!Accepts
<1> QED
  BY <1>1, <1>2, <1>3, <1>4, <1>5, <1>6, <1>7, <1>8, <1>9, <1>10
     DEF Runtime!Proceed, R!Proceed

RuntimeSteps == Runtime!Init /\ [][Runtime!Next]_runtimeVars

LEMMA OpeningRuntimeStep ==
  [OpeningNext]_openingVars => [Runtime!Next]_runtimeVars /\ [R!Next]_(R!vars)
<1> SUFFICES ASSUME [OpeningNext]_openingVars
             PROVE  /\ Runtime!Next \/ UNCHANGED runtimeVars
                    /\ R!Next \/ UNCHANGED R!vars
  OBVIOUS
<1>1. ASSUME NEW t \in Threads,
             Leads(t) \/ InLoad(t) \/ LoadReturns(t) \/ GetsMutex(t) \/ ConfiguresRuntime(t)
      PROVE  Runtime!Next /\ R!Next
  BY <1>1, ActionsSame
     DEF Leads, InLoad, LoadReturns, GetsMutex, ConfiguresRuntime, Runtime!Next, R!Next
<1>2. ASSUME NEW t \in Threads, Shares(t) \/ AfterLoading(t) PROVE UNCHANGED runtimeVars
  BY <1>2 DEF Shares, AfterLoading
<1>3. ASSUME Releases \/ UNCHANGED openingVars PROVE UNCHANGED runtimeVars
  BY <1>3 DEF Releases, openingVars, runtimeVars
<1>4. UNCHANGED runtimeVars => UNCHANGED R!vars
  BY DEF runtimeVars, R!vars
<1> QED
  BY <1>1, <1>2, <1>3, <1>4 DEF OpeningNext, Goes

LEMMA OpeningRuntimeInit == OpeningInit => Runtime!Init /\ R!Init
  BY DEF OpeningInit, Runtime!Init, R!Init

\* The opens of a store come to the runtime as loads on threads, as OrtRuntime has them.
THEOREM OpeningRuntimeSteps == OpeningSpec => RuntimeSteps
  BY OpeningRuntimeInit, OpeningRuntimeStep, PTL DEF OpeningSpec, RuntimeSteps

-----------------------------------------------------------------------------
(* The invariant of the two together                                       *)

\* A thread is inside load_session exactly while its open builds the session.
CoupledInv == \A t \in Threads : pc[t] # "idle" <=> call[t].pc = "loading"

\* A session was made over a pool that is fixed.
ValueInv == (\E l \in Loads : promise[l] = "value") => started

StoreHalf == TypeOK /\ StoreInv /\ UnsetInv
RuntimeHalf == R!RuntimeInv /\ R!OnceInv
OpeningInv == StoreHalf /\ RuntimeHalf /\ CoupledInv /\ ValueInv

LEMMA OpeningInitInv == OpeningInit => OpeningInv
<1> SUFFICES ASSUME OpeningInit PROVE OpeningInv
  OBVIOUS
<1>1. Init /\ R!Init
  BY OpeningRuntimeInit DEF OpeningInit
<1>2. StoreHalf
  BY <1>1, InitType, InitInv DEF StoreHalf, UnsetInv, Init
<1>3. RuntimeHalf
  BY <1>1, OpeningAssumption, R!InitRuntime
     DEF RuntimeHalf, R!RuntimeAssumption, R!Init, R!OnceInv
<1>4. CoupledInv /\ ValueInv
  BY <1>1 DEF CoupledInv, ValueInv, Init, NoCall, R!Init
<1> QED
  BY <1>2, <1>3, <1>4 DEF OpeningInv

LEMMA NextHalves ==
  OpeningInv /\ [OpeningNext]_openingVars => StoreHalf' /\ RuntimeHalf'
<1> SUFFICES ASSUME OpeningInv, [OpeningNext]_openingVars PROVE StoreHalf' /\ RuntimeHalf'
  OBVIOUS
<1>1. StoreHalf'
  BY OpeningStoreStep, NextType, NextInv, NextUnset DEF OpeningInv, StoreHalf
<1>2. RuntimeHalf'
  BY OpeningAssumption, OpeningRuntimeStep, R!NextRuntime, R!NextOnce
     DEF OpeningInv, RuntimeHalf, R!RuntimeAssumption, R!RuntimeInv
<1> QED
  BY <1>1, <1>2

\* A step of the store that is not about a load leaves every load where it is.
LEMMA LoadsStay ==
  ASSUME TypeOK, NEW t \in Threads,
         (\E k \in Keys : LiveHit(t, k) \/ Join(t, k)) \/ Publish(t) \/ Get(t) \/ Return(t)
  PROVE  /\ \A u \in Threads : call'[u].pc = "loading" <=> call[u].pc = "loading"
         /\ UNCHANGED promise
BY DEF LiveHit, Join, Publish, Get, Return, TypeOK, Idle, NoCall

LEMMA NextCoupled == OpeningInv /\ [OpeningNext]_openingVars => CoupledInv'
<1> SUFFICES ASSUME OpeningInv, [OpeningNext]_openingVars PROVE CoupledInv'
  OBVIOUS
<1>0. TypeOK /\ pc \in [Threads -> R!PCs]
  BY DEF OpeningInv, StoreHalf, RuntimeHalf, R!RuntimeInv, R!TypeOK
<1>1. ASSUME NEW t \in Threads, Shares(t) \/ AfterLoading(t) PROVE CoupledInv'
  BY <1>0, <1>1, LoadsStay DEF Shares, AfterLoading, runtimeVars, OpeningInv, CoupledInv
<1>2. ASSUME NEW t \in Threads, Leads(t) PROVE CoupledInv'
  BY <1>0, <1>2 DEF Leads, Lead, Runtime!Load, Runtime!Goto, TypeOK, OpeningInv, CoupledInv
\* Inside load_session a thread moves itself.
<1>3. ASSUME NEW t \in Threads, R!Proceed(t) \/ R!Lock(t)
      PROVE  pc[t] # "idle" /\ \A u \in Threads : u # t => pc'[u] = pc[u]
  BY <1>0, <1>3 DEF R!Proceed, R!Ensure, R!InitOrt, R!CallOnce, R!GetApi, R!LoadTokenizer,
                    R!Construct, R!Unlock, R!MakeSession, R!Lock, R!At, R!Goto, R!End
<1>4. ASSUME NEW t \in Threads, InLoad(t) PROVE CoupledInv'
  BY <1>3, <1>4, ActionsSame DEF InLoad, vars, OpeningInv, CoupledInv
<1>5. ASSUME NEW t \in Threads, GetsMutex(t) PROVE CoupledInv'
  <2>1. pc'[t] # "idle"
    BY <1>0, <1>5 DEF GetsMutex, Runtime!Lock, Runtime!Goto
  <2> QED
    BY <1>3, <1>5, <2>1, ActionsSame DEF GetsMutex, vars, OpeningInv, CoupledInv
<1>6. ASSUME NEW t \in Threads, LoadReturns(t) PROVE CoupledInv'
  <2>1. /\ call'[t].pc # "loading"
        /\ \A u \in Threads : u # t => call'[u] = call[u]
    BY <1>0, <1>6 DEF LoadReturns, LoadSucceeds, LoadFails, LoadThrows, EndLoad, Publishing,
                      NoCall, TypeOK
  <2> QED
    BY <1>3, <1>6, <2>1, ActionsSame DEF LoadReturns, OpeningInv, CoupledInv
<1>7. ASSUME NEW t \in Threads, ConfiguresRuntime(t) PROVE CoupledInv'
  BY <1>7 DEF ConfiguresRuntime, Runtime!ConfigureRuntime, vars, OpeningInv, CoupledInv
<1>8. CASE Releases \/ UNCHANGED openingVars
  BY <1>8 DEF Releases, Release, openingVars, vars, runtimeVars, OpeningInv, CoupledInv
<1> QED
  BY <1>1, <1>2, <1>4, <1>5, <1>6, <1>7, <1>8 DEF OpeningNext, Goes

\* A load ends in what its promise says afterwards.
LEMMA EndSetsPromise ==
  ASSUME TypeOK, StoreInv,
         NEW t \in Threads, NEW outcome, NEW state, NEW next, EndLoad(t, outcome, state, next)
  PROVE  promise'[call[t].load] = state
<1>1. call[t].load \in 1..loaded /\ loaded \in 0..MaxOpens /\ MaxOpens \in Nat
  BY StoreAssumption DEF EndLoad, StoreInv, CallInv, Idle, TypeOK
<1>2. call[t].load \in Loads
  BY <1>1 DEF Loads
<1> QED
  BY <1>2 DEF EndLoad, TypeOK

\* `started` stays set, and a load that makes a session finds it set.
LEMMA NextValue == OpeningInv /\ [OpeningNext]_openingVars => ValueInv'
<1> SUFFICES ASSUME OpeningInv, [OpeningNext]_openingVars PROVE ValueInv'
  OBVIOUS
<1>0. TypeOK /\ StoreInv /\ R!TypeOK /\ R!LockInv
  BY DEF OpeningInv, StoreHalf, RuntimeHalf, R!RuntimeInv
<1>1. started => started'
  BY OpeningRuntimeStep
     DEF R!Next, R!vars, R!Proceed, R!Load, R!Ensure, R!InitOrt, R!GetApi, R!LoadTokenizer,
         R!Construct, R!Unlock, R!MakeSession, R!Lock, R!ConfigureRuntime
<1>2. ASSUME NEW t \in Threads, LoadReturns(t), LoadSucceeds(t) PROVE started'
  <2>1. CASE result'[t] = "session"
    <3>1. R!Proceed(t) /\ pc'[t] = "idle"
      BY <1>2, ActionsSame DEF LoadReturns
    <3>2. R!MakeSession(t)
      BY <1>0, <2>1, <3>1
         DEF R!Proceed, R!Ensure, R!InitOrt, R!CallOnce, R!GetApi, R!LoadTokenizer,
             R!Construct, R!Unlock, R!At, R!Goto, R!End, R!TypeOK
    <3>3. started
      BY <1>0, <3>2 DEF R!MakeSession, R!At, R!LockInv
    <3> QED
      BY <1>1, <3>3
  <2>2. CASE result'[t] # "session"
    <3>1. promise'[call[t].load] = "value"
      BY <1>0, <1>2, EndSetsPromise DEF LoadSucceeds
    <3>2. LoadFails(t) \/ LoadThrows(t)
      BY <1>2, <2>2 DEF LoadReturns
    <3>3. promise'[call[t].load] \in {"null", "broken"}
      BY <1>0, <3>2, EndSetsPromise DEF LoadFails, LoadThrows
    <3> QED
      BY <3>1, <3>3
  <2> QED
    BY <2>1, <2>2
<1>3. ASSUME NEW l \in Loads, promise'[l] = "value", promise[l] # "value" PROVE started'
  <2>1. PICK t \in Threads : LoadReturns(t)
    <3>1. [Next]_vars
      BY OpeningStoreStep
    <3> QED
      BY <1>0, <1>3, <3>1, LoadsStay
         DEF OpeningNext, Goes, Shares, Leads, Lead, InLoad, AfterLoading, GetsMutex,
             ConfiguresRuntime, Releases, Release, openingVars, vars, TypeOK
  <2>2. LoadSucceeds(t)
    BY <1>0, <1>3, <2>1 DEF LoadReturns, LoadFails, LoadThrows, EndLoad, TypeOK
  <2> QED
    BY <1>2, <2>1, <2>2
<1> QED
  BY <1>1, <1>3 DEF OpeningInv, ValueInv

\* The invariant holds in every state of the two together.
THEOREM OpeningInvariant == OpeningSpec => []OpeningInv
<1>1. OpeningInv /\ [OpeningNext]_openingVars => OpeningInv'
  BY NextHalves, NextCoupled, NextValue DEF OpeningInv
<1> QED
  BY <1>1, OpeningInitInv, PTL DEF OpeningSpec

-----------------------------------------------------------------------------
(* What the two together promise                                           *)

LEMMA HandleOnFixedPool ==
  ASSUME OpeningInv, NEW l \in Loads, handles[l] > 0
  PROVE  started /\ pool = threads
<1>1. promise[l] = "value"
  BY DEF OpeningInv, StoreHalf, StoreInv, OwnerInv, Alive
<1>2. started
  BY <1>1 DEF OpeningInv, ValueInv
<1> QED
  BY <1>2 DEF OpeningInv, RuntimeHalf, R!RuntimeInv, R!LockInv, R!PoolAsConfigured

\* Every open model runs on a pool of the size that configure_runtime last accepted
\* (include/cyborgdb_embed/embed.hpp:185-186).
HandlesOnTheirPool == \A l \in Loads : handles[l] > 0 => started /\ pool = threads

THEOREM HandlesOnTheirPoolCorrect == OpeningSpec => []HandlesOnTheirPool
<1>1. OpeningInv => HandlesOnTheirPool
  BY HandleOnFixedPool DEF HandlesOnTheirPool
<1> QED
  BY <1>1, OpeningInvariant, PTL

\* And no configuration takes it from under them.
THEOREM HandlesFixPoolCorrect == OpeningSpec => HandlesFixPool
<1>1. ASSUME OpeningInv, [OpeningNext]_openingVars, NEW l \in Loads, handles[l] > 0
      PROVE  threads' = threads
  <2>1. started
    BY <1>1, HandleOnFixedPool
  <2>2. [R!Next]_(R!vars)
    BY <1>1, OpeningRuntimeStep
  <2>3. ASSUME NEW t \in Threads, NEW n \in Sizes, R!ConfigureRuntime(t, n)
        PROVE  threads' = threads
    BY <2>1, <2>3 DEF R!ConfigureRuntime, R!Accepts
  <2> QED
    BY <2>2, <2>3
       DEF R!Next, R!vars, R!Proceed, R!Load, R!Ensure, R!InitOrt, R!GetApi, R!LoadTokenizer,
           R!Construct, R!Unlock, R!MakeSession, R!Lock
<1>2. OpeningInv /\ [OpeningNext]_openingVars =>
        [(\E l \in Loads : handles[l] > 0) => threads' = threads]_openingVars
  BY <1>1
<1> QED
  BY <1>2, OpeningInvariant, PTL DEF OpeningSpec, HandlesFixPool

-----------------------------------------------------------------------------
(* Nobody is stuck                                                         *)

\* An open under way that no other keeps from its next step.
OpenFree(t) ==
  \/ call[t].pc \in {"publishing", "returning"}
  \/ call[t].pc = "waiting" /\ promise[call[t].load] # "unset"
  \/ call[t].pc = "loading" /\ R!Free(t)

\* While an open is under way some open can go on: the threads never all wait for each
\* other, some for the future of a load (src/session_store.cpp:77) and that load, of
\* this model or another, for call_once (src/ort_api.cpp) or the runtime's mutex
\* (src/session_ort.cpp).
OpensGoOn == (\E t \in Threads : ~Idle(t)) => \E t \in Threads : OpenFree(t)

LEMMA InvGoesOn == OpeningInv => OpensGoOn
<1> SUFFICES ASSUME OpeningInv, NEW t \in Threads, ~Idle(t) PROVE \E u \in Threads : OpenFree(u)
  BY DEF OpensGoOn
<1>1. ASSUME NEW u \in Threads, call[u].pc = "loading" PROVE \E v \in Threads : OpenFree(v)
  <2>1. pc[u] # "idle"
    BY <1>1 DEF OpeningInv, CoupledInv
  <2>2. PICK v \in Threads : R!Free(v)
    BY <2>1, OpeningAssumption, R!InvStandstill
       DEF OpeningInv, RuntimeHalf, R!RuntimeAssumption, R!NoStandstill
  <2>3. call[v].pc = "loading"
    BY <2>2 DEF R!Free, OpeningInv, CoupledInv
  <2> QED
    BY <2>2, <2>3 DEF OpenFree
<1>2. ASSUME call[t].pc = "waiting", promise[call[t].load] = "unset"
      PROVE  \E u \in Threads : call[u].pc = "loading"
  <2>1. call[t].load \in 1..loaded /\ loaded \in 0..MaxOpens /\ MaxOpens \in Nat
    BY StoreAssumption DEF OpeningInv, StoreHalf, StoreInv, CallInv, TypeOK
  <2>2. call[t].load \in Loads
    BY <2>1 DEF Loads
  <2> QED
    BY <1>2, <2>2 DEF OpeningInv, StoreHalf, UnsetInv
<1>3. call[t].pc \in PCs
  BY DEF OpeningInv, StoreHalf, TypeOK
<1> QED
  BY <1>1, <1>2, <1>3 DEF PCs, Idle, OpenFree

\* No behaviour of the opens brings them to wait for each other.
THEOREM OpensGoOnCorrect == OpeningSpec => []OpensGoOn
  BY InvGoesOn, OpeningInvariant, PTL

-----------------------------------------------------------------------------
(***************************************************************************)
(* Embedder: objects over the store                                        *)
(***************************************************************************)

-----------------------------------------------------------------------------
(* Steps                                                                   *)

USE StoreAssumption, EmbedderAssumption

\* What is given up is the session of an Impl that an object points to.
LEMMA FreedHeld ==
  ASSUME EmbedderTypeOK, ImplInv, NEW new, NEW n \in Frees(new)
  PROVE  n \in Opens /\ held[n] \in Loads
<1>1. n \in Opens /\ \E o \in Objects : impl[o] = n
  BY DEF Frees
<1>2. n # 0 /\ held[n] \in Ref
  BY <1>1 DEF Opens, EmbedderTypeOK
<1> QED
  BY <1>1, <1>2 DEF ImplInv, Loads, Ref

\* Every step of the objects is a step of the store, or leaves it alone.
LEMMA StoreStep ==
  ASSUME EmbedderTypeOK, ImplInv, [EmbedderNext]_embedderVars
  PROVE  [Next]_vars
<1>1. ASSUME NEW t \in Threads, NEW k \in Keys, NEW o \in Objects,
             OpenLive(t, k, o) \/ OpenWaits(t, k, o)
      PROVE  Next
  BY <1>1 DEF OpenLive, OpenWaits, Next, Acquire
<1>2. ASSUME NEW t \in Threads, OpenProceeds(t) \/ OpenThrows(t) \/ Acquired(t)
      PROVE  Next
  BY <1>2 DEF OpenProceeds, OpenThrows, Acquired, Next, Proceed, LoadEnds
<1>3. ASSUME NEW new, Point(new) PROVE Next \/ UNCHANGED vars
  BY <1>3, FreedHeld DEF Point, Next
<1>4. ASSUME NEW t \in Threads, MakeImplThrows(t) PROVE Next
  <2>1. opening[t].open \in Opens
    BY <1>4 DEF MakeImplThrows, HasSession, Opening, EmbedderTypeOK, OpenCalls
  <2>2. held[opening[t].open] \in Loads
    BY <1>4, <2>1 DEF MakeImplThrows, HasSession, EmbedderTypeOK, Ref, Loads
  <2> QED
    BY <1>4, <2>2 DEF MakeImplThrows, Next
<1>5. CASE ConfigureCache
  BY <1>5 DEF ConfigureCache, Next
<1>6. CASE UNCHANGED embedderVars
  BY <1>6 DEF embedderVars, vars
<1> QED
  BY <1>1, <1>2, <1>3, <1>4, <1>5, <1>6
     DEF EmbedderNext, OpenNext, Assign, Copy, Move, Destroy

-----------------------------------------------------------------------------
(* Types                                                                   *)

LEMMA EmbedderInitType == EmbedderInit => EmbedderTypeOK
  BY DEF EmbedderInit, EmbedderTypeOK, Ref

\* The number of the open that an acquire() starts.
LEMMA OpenNumber ==
  ASSUME TypeOK, NEW t \in Threads, NEW k \in Keys,
         LiveHit(t, k) \/ Join(t, k) \/ Lead(t, k)
  PROVE  /\ shared' + loaded' = shared + loaded + 1
         /\ shared' + loaded' \in Opens
         /\ shared + loaded \in Nat
  BY DEF LiveHit, Join, Lead, Bounded, TypeOK, Opens

LEMMA PointType ==
  ASSUME EmbedderTypeOK, NEW new \in [Objects -> 0..MaxOpens], Point(new)
  PROVE  impl' \in [Objects -> 0..MaxOpens] /\ held' \in [Opens -> Ref]
  BY DEF Point, EmbedderTypeOK, Ref

LEMMA EmbedderNextType ==
  TypeOK /\ EmbedderTypeOK /\ [EmbedderNext]_embedderVars => EmbedderTypeOK'
<1> SUFFICES ASSUME TypeOK, EmbedderTypeOK, [EmbedderNext]_embedderVars
             PROVE  EmbedderTypeOK'
  OBVIOUS
<1>1. ASSUME NEW t \in Threads, NEW k \in Keys, NEW o \in Objects,
             OpenLive(t, k, o) \/ OpenWaits(t, k, o)
      PROVE  EmbedderTypeOK'
  <2>1. shared' + loaded' \in Opens
    BY <1>1, OpenNumber DEF OpenLive, OpenWaits
  <2>2. opening' \in [Threads -> OpenCalls \cup {NotOpening}]
    BY <1>1, <2>1 DEF OpenLive, OpenWaits, Open, EmbedderTypeOK, OpenCalls
  <2>3. held' \in [Opens -> Ref]
    BY <1>1, <2>1 DEF OpenLive, OpenWaits, EmbedderTypeOK, TypeOK
  <2> QED
    BY <1>1, <2>2, <2>3 DEF OpenLive, OpenWaits, EmbedderTypeOK
<1>2. ASSUME NEW t \in Threads, OpenProceeds(t) \/ OpenThrows(t) \/ Acquired(t)
      PROVE  EmbedderTypeOK'
  <2>1. call[t].load \in Ref
    BY DEF TypeOK
  <2> QED
    BY <1>2, <2>1 DEF OpenProceeds, OpenThrows, Acquired, EmbedderTypeOK
<1>3. ASSUME NEW t \in Threads, Assign(t) PROVE EmbedderTypeOK'
  <2>1. [impl EXCEPT ![opening[t].out] = opening[t].open] \in [Objects -> 0..MaxOpens]
    BY <1>3 DEF Assign, HasSession, Opening, EmbedderTypeOK, OpenCalls, Opens
  <2> QED
    BY <1>3, <2>1, PointType DEF Assign, EmbedderTypeOK
<1>4. ASSUME NEW t \in Threads, MakeImplThrows(t) PROVE EmbedderTypeOK'
  <2>0. held' = [held EXCEPT ![opening[t].open] = 0] /\ 0 \in Ref
    BY <1>4 DEF MakeImplThrows, Ref
  <2>1. held' \in [Opens -> Ref]
    BY <2>0 DEF EmbedderTypeOK
  <2>2. opening' \in [Threads -> OpenCalls \cup {NotOpening}]
    BY <1>4 DEF MakeImplThrows, EmbedderTypeOK
  <2> QED
    BY <1>4, <2>1, <2>2 DEF MakeImplThrows, EmbedderTypeOK
<1>5. ASSUME NEW o \in Objects, NEW p \in Objects, Copy(o, p) \/ Move(o, p) \/ Destroy(o)
      PROVE  EmbedderTypeOK'
  <2>1. /\ [impl EXCEPT ![p] = impl[o]] \in [Objects -> 0..MaxOpens]
        /\ [impl EXCEPT ![p] = impl[o], ![o] = 0] \in [Objects -> 0..MaxOpens]
        /\ [impl EXCEPT ![o] = 0] \in [Objects -> 0..MaxOpens]
    BY DEF EmbedderTypeOK
  <2> QED
    BY <1>5, <2>1, PointType DEF Copy, Move, Destroy, EmbedderTypeOK
<1>6. CASE ConfigureCache \/ UNCHANGED embedderVars
  BY <1>6 DEF ConfigureCache, embedderVars, EmbedderTypeOK
<1> QED
  BY <1>1, <1>2, <1>3, <1>4, <1>5, <1>6 DEF EmbedderNext, OpenNext

-----------------------------------------------------------------------------
(* Counting the opens that hold a session                                  *)

LEMMA HeldByFinite == \A l : IsFiniteSet(HeldBy(l)) /\ Cardinality(HeldBy(l)) \in Nat
<1>1. IsFiniteSet(Opens)
  BY FS_Interval DEF Opens
<1> QED
  BY <1>1, FS_Subset, FS_CardinalityType DEF HeldBy

\* Open n gets session l.
LEMMA CountGain ==
  ASSUME TypeOK, EmbedderTypeOK, CountInv, NEW n \in Opens, NEW l \in Loads, held[n] = 0,
         held' = [held EXCEPT ![n] = l], handles' = [handles EXCEPT ![l] = @ + 1]
  PROVE  CountInv'
<1> SUFFICES ASSUME NEW m \in Loads PROVE handles'[m] = Cardinality(HeldBy(m)')
  BY DEF CountInv
<1>1. CASE m = l
  <2>1. HeldBy(m)' = HeldBy(m) \cup {n} /\ n \notin HeldBy(m)
    BY <1>1 DEF HeldBy, EmbedderTypeOK, Loads
  <2>2. Cardinality(HeldBy(m)') = Cardinality(HeldBy(m)) + 1
    BY <2>1, HeldByFinite, FS_AddElement
  <2> QED
    BY <1>1, <2>2 DEF CountInv, TypeOK
<1>2. CASE m # l
  <2>1. HeldBy(m)' = HeldBy(m)
    BY <1>2 DEF HeldBy, EmbedderTypeOK, Loads
  <2> QED
    BY <1>2, <2>1 DEF CountInv, TypeOK
<1> QED
  BY <1>1, <1>2

\* Open n's session is released.
LEMMA CountLoss ==
  ASSUME TypeOK, EmbedderTypeOK, CountInv, NEW n \in Opens, held[n] \in Loads,
         held' = [held EXCEPT ![n] = 0], Release(held[n])
  PROVE  CountInv'
<1> DEFINE l == held[n]
<1>0. handles' = [handles EXCEPT ![l] = @ - 1]
  BY DEF Release
<1> SUFFICES ASSUME NEW m \in Loads PROVE handles'[m] = Cardinality(HeldBy(m)')
  BY DEF CountInv
<1>1. CASE m = l
  <2>1. HeldBy(m)' = HeldBy(m) \ {n} /\ n \in HeldBy(m)
    BY <1>1 DEF HeldBy, EmbedderTypeOK, Loads
  <2>2. Cardinality(HeldBy(m)') = Cardinality(HeldBy(m)) - 1
    BY <2>1, HeldByFinite, FS_RemoveElement
  <2> QED
    BY <1>0, <1>1, <2>2 DEF CountInv, TypeOK
<1>2. CASE m # l
  <2>1. HeldBy(m)' = HeldBy(m)
    BY <1>2 DEF HeldBy, EmbedderTypeOK, Loads
  <2> QED
    BY <1>0, <1>2, <2>1 DEF CountInv, TypeOK
<1> QED
  BY <1>1, <1>2

\* A session that an open holds is that of a load that succeeded.
LEMMA HeldIsLoaded ==
  ASSUME TypeOK, StoreInv, EmbedderTypeOK, CountInv, NEW n \in Opens, held[n] # 0
  PROVE  /\ held[n] \in Loads
         /\ held[n] <= loaded
         /\ handles[held[n]] > 0
<1>1. held[n] \in Loads
  BY DEF EmbedderTypeOK, Ref, Loads
<1>2. HeldBy(held[n]) # {}
  BY DEF HeldBy
<1>3. handles[held[n]] > 0
  BY <1>1, <1>2, HeldByFinite, FS_EmptySet DEF CountInv
<1> QED
  BY <1>1, <1>3 DEF StoreInv, LoadInv, TypeOK, Loads

-----------------------------------------------------------------------------
(* The invariant, action by action                                         *)

LEMMA EmbedderInitInv == EmbedderInit => EmbedderInv
<1> SUFFICES ASSUME EmbedderInit PROVE EmbedderInv
  OBVIOUS
<1>1. NumberInv /\ OpenInv /\ ImplInv
  BY DEF EmbedderInit, Init, NumberInv, OpenInv, ImplInv, Opening, HasSession, Idle, NoCall
<1>2. ASSUME NEW l \in Loads PROVE handles[l] = Cardinality(HeldBy(l))
  <2>1. HeldBy(l) = {}
    BY DEF EmbedderInit, HeldBy, Loads
  <2> QED
    BY <2>1, FS_EmptySet DEF EmbedderInit, Init
<1> QED
  BY <1>1, <1>2 DEF EmbedderInv, CountInv

\* A load keeps its model once it has started.
LEMMA ModelKept ==
  ASSUME TypeOK, [Next]_vars, NEW l \in Loads, l <= loaded
  PROVE  model'[l] = model[l]
<1>1. ASSUME NEW t \in Threads, NEW k \in Keys, Lead(t, k) PROVE model'[l] = model[l]
  BY <1>1 DEF Lead, TypeOK, Loads
<1> QED
  BY <1>1 DEF Next, Acquire, Proceed, LiveHit, Join, LoadEnds, LoadSucceeds, LoadFails,
              LoadThrows, EndLoad, Publish, Get, Return, Release, Configure, vars

\* A new open: it takes the next number, and its `out` is no other open's.
LEMMA OpenStarts ==
  ASSUME TypeOK, EmbedderTypeOK, EmbedderInv,
         NEW t \in Threads, NEW k \in Keys, NEW o \in Objects,
         ~Opening(t), ~Busy(o), opening' = Open(t, k, o), UNCHANGED impl,
         shared' + loaded' = shared + loaded + 1, shared' + loaded' \in Opens,
         \A n \in Opens : n # shared' + loaded' => held'[n] = held[n]
  PROVE  /\ NumberInv'
         /\ opening'[t] = [open |-> shared' + loaded', out |-> o, key |-> k]
         /\ \A u \in Threads : u # t =>
              opening'[u] = opening[u] /\ opening'[u].open # shared' + loaded'
         /\ held[shared' + loaded'] = 0
<1> DEFINE m == shared' + loaded'
<1>1. opening'[t] = [open |-> m, out |-> o, key |-> k]
  BY DEF Open, EmbedderTypeOK
<1>2. \A u \in Threads : u # t => opening'[u] = opening[u]
  BY DEF Open, EmbedderTypeOK
<1>3. shared + loaded \in Nat /\ m = shared + loaded + 1
  BY DEF TypeOK
<1>4. \A u \in Threads : opening[u].open <= shared + loaded
  BY <1>3 DEF EmbedderInv, NumberInv, Opening, NotOpening
<1>5. \A p \in Objects : impl[p] <= shared + loaded /\ impl[p] \in Int
  BY DEF EmbedderInv, NumberInv, EmbedderTypeOK
<1>6. \A u \in Threads : opening[u].open \in Int /\ opening[u].out # o
  BY DEF EmbedderTypeOK, OpenCalls, NotOpening, Busy, Opens
<1>7. \A n \in Opens : n > m => held'[n] = 0
  BY <1>3 DEF EmbedderInv, NumberInv, Opens
<1>8. held[m] = 0
  BY <1>3 DEF EmbedderInv, NumberInv, Opens
<1>9. ASSUME NEW u \in Threads, Opening(u)'
      PROVE  /\ opening'[u].open <= m
             /\ \A p \in Objects : impl'[p] # opening'[u].open
             /\ \A w \in Threads : w # u =>
                  opening'[w].open # opening'[u].open /\ opening'[w].out # opening'[u].out
  <2>1. CASE u = t
    BY <2>1, <1>1, <1>2, <1>3, <1>4, <1>5, <1>6
  <2>2. CASE u # t
    BY <2>2, <1>1, <1>2, <1>3, <1>4, <1>5, <1>6, <1>9 DEF EmbedderInv, NumberInv, Opening
  <2> QED
    BY <2>1, <2>2
<1>10. NumberInv'
  BY <1>3, <1>5, <1>7, <1>9 DEF NumberInv
<1> QED
  BY <1>1, <1>2, <1>3, <1>4, <1>6, <1>8, <1>10

LEMMA OpenLiveInv ==
  ASSUME TypeOK, StoreInv, EmbedderTypeOK, EmbedderInv,
         NEW t \in Threads, NEW k \in Keys, NEW o \in Objects, OpenLive(t, k, o)
  PROVE  EmbedderInv'
<1> DEFINE s == entries[k].session
           m == shared' + loaded'
<1>1. /\ LiveHit(t, k) /\ ~Opening(t) /\ ~Busy(o) /\ opening' = Open(t, k, o)
      /\ held' = [held EXCEPT ![m] = s] /\ UNCHANGED impl
  BY DEF OpenLive
<1>2. m = shared + loaded + 1 /\ m \in Opens
  BY <1>1, OpenNumber
<1>3. /\ s \in Loads /\ s <= loaded /\ model[s] = k
      /\ handles' = [handles EXCEPT ![s] = @ + 1]
      /\ UNCHANGED <<model, call>> /\ Idle(t)
  BY <1>1, LiveSession DEF LiveHit
<1> HIDE DEF m, s
<1>4. held'[m] = s /\ \A n \in Opens : n # m => held'[n] = held[n]
  BY <1>1, <1>2 DEF EmbedderTypeOK
<1>5. /\ NumberInv'
      /\ opening'[t] = [open |-> m, out |-> o, key |-> k]
      /\ \A u \in Threads : u # t => opening'[u] = opening[u] /\ opening'[u].open # m
      /\ held[m] = 0
  BY <1>1, <1>2, <1>4, OpenStarts DEF m
<1>6. ASSUME NEW u \in Threads
      PROVE  /\ ~Idle(u)' => /\ Opening(u)' /\ held'[opening'[u].open] = 0
                             /\ model'[call'[u].load] = opening'[u].key
             /\ HasSession(u)' => model'[held'[opening'[u].open]] = opening'[u].key
  <2>1. CASE u = t
    BY <2>1, <1>3, <1>4, <1>5 DEF Idle
  <2>2. CASE u # t
    <3>1. opening[u] = opening'[u] /\ (Opening(u) => opening[u].open \in Opens)
      BY <2>2, <1>5 DEF EmbedderTypeOK, Opening, OpenCalls
    <3>2. Opening(u) => held'[opening[u].open] = held[opening[u].open]
      BY <2>2, <3>1, <1>4, <1>5
    <3> QED
      BY <3>1, <3>2, <1>3 DEF EmbedderInv, OpenInv, Idle, Opening, HasSession
  <2> QED
    BY <2>1, <2>2
<1>7. OpenInv'
  BY <1>6 DEF OpenInv
<1>8. ASSUME NEW n \in Opens, held'[n] # 0 PROVE Owned(n)'
  <2>1. CASE n = m
    BY <2>1, <1>5 DEF Owned
  <2>2. CASE n # m
    <3>1. Owned(n)
      BY <2>2, <1>4, <1>8 DEF EmbedderInv, ImplInv
    <3>2. opening[t].open = 0
      BY <1>1 DEF Opening, NotOpening
    <3> QED
      BY <3>1, <3>2, <1>1, <1>5 DEF Owned, Opens
  <2> QED
    BY <2>1, <2>2
<1>9. \A p \in Objects : impl'[p] # 0 => held'[impl'[p]] # 0
  <2> SUFFICES ASSUME NEW p \in Objects, impl[p] # 0 PROVE held'[impl[p]] # 0
    BY <1>1
  <2>1. impl[p] \in Opens /\ held[impl[p]] # 0
    BY DEF EmbedderTypeOK, Opens, EmbedderInv, ImplInv
  <2> QED
    BY <2>1, <1>4, <1>5
<1>10. CountInv'
  BY <1>1, <1>2, <1>3, <1>5, CountGain DEF EmbedderInv
<1> QED
  BY <1>5, <1>7, <1>8, <1>9, <1>10 DEF EmbedderInv, ImplInv

LEMMA OpenWaitsInv ==
  ASSUME TypeOK, StoreInv, EmbedderTypeOK, EmbedderInv,
         NEW t \in Threads, NEW k \in Keys, NEW o \in Objects, OpenWaits(t, k, o)
  PROVE  EmbedderInv'
<1> DEFINE m == shared' + loaded'
<1>1. /\ Join(t, k) \/ Lead(t, k)
      /\ ~Opening(t) /\ ~Busy(o) /\ opening' = Open(t, k, o)
      /\ UNCHANGED <<impl, held>>
  BY DEF OpenWaits
<1>2. m = shared + loaded + 1 /\ m \in Opens
  BY <1>1, OpenNumber
<1> HIDE DEF m
<1>3. /\ NumberInv'
      /\ opening'[t] = [open |-> m, out |-> o, key |-> k]
      /\ \A u \in Threads : u # t => opening'[u] = opening[u] /\ opening'[u].open # m
      /\ held[m] = 0
  BY <1>1, <1>2, OpenStarts DEF m
<1>4. /\ UNCHANGED handles
      /\ \A u \in Threads : u # t => call'[u] = call[u]
      /\ call'[t].load \in Loads /\ model'[call'[t].load] = k
  <2>1. CASE Join(t, k)
    <3>1. entries[k].pending \in 1..loaded /\ model[entries[k].pending] = k
      BY <2>1 DEF Join, StoreInv, EntryInv
    <3> QED
      BY <2>1, <3>1 DEF Join, TypeOK, Loads
  <2>2. CASE Lead(t, k)
    <3>1. loaded' \in Loads
      BY <2>2 DEF Lead, Bounded, TypeOK, Loads
    <3> QED
      BY <2>2, <3>1 DEF Lead, TypeOK
  <2> QED
    BY <2>1, <2>2, <1>1
<1>5. \A l \in Loads : l <= loaded => model'[l] = model[l]
  BY <1>1, ModelKept DEF Next, Acquire
<1>6. ASSUME NEW u \in Threads
      PROVE  /\ ~Idle(u)' => /\ Opening(u)' /\ held'[opening'[u].open] = 0
                             /\ model'[call'[u].load] = opening'[u].key
             /\ HasSession(u)' => model'[held'[opening'[u].open]] = opening'[u].key
  <2>1. CASE u = t
    <3>1. opening'[t] # NotOpening
      BY <1>2, <1>3 DEF NotOpening, Opens
    <3> QED
      BY <2>1, <3>1, <1>1, <1>3, <1>4 DEF Opening, HasSession
  <2>2. CASE u # t
    <3>1. opening[u] = opening'[u] /\ call'[u] = call[u] /\ held' = held
      BY <2>2, <1>1, <1>3, <1>4
    <3>2. ~Idle(u) => call[u].load \in Loads /\ call[u].load <= loaded
      BY DEF StoreInv, CallInv, TypeOK, Loads
    <3>3. HasSession(u) => held[opening[u].open] \in Loads /\ held[opening[u].open] <= loaded
      BY HeldIsLoaded DEF HasSession, Opening, EmbedderTypeOK, OpenCalls, EmbedderInv
    <3> QED
      BY <3>1, <3>2, <3>3, <1>5 DEF EmbedderInv, OpenInv, Idle, Opening, HasSession
  <2> QED
    BY <2>1, <2>2
<1>7. OpenInv'
  BY <1>6 DEF OpenInv
<1>8. ImplInv'
  <2>1. opening[t].open = 0
    BY <1>1 DEF Opening, NotOpening
  <2> QED
    BY <2>1, <1>1, <1>3 DEF EmbedderInv, ImplInv, Owned, Opens
<1>9. CountInv'
  BY <1>1, <1>4 DEF EmbedderInv, CountInv, HeldBy
<1> QED
  BY <1>3, <1>7, <1>8, <1>9 DEF EmbedderInv

LEMMA OpenProceedsInv ==
  ASSUME TypeOK, StoreInv, EmbedderTypeOK, EmbedderInv, NEW t \in Threads, OpenProceeds(t)
  PROVE  EmbedderInv'
<1>1. UNCHANGED <<impl, held, opening, shared, loaded, model, handles>>
  BY DEF OpenProceeds, LoadSucceeds, LoadFails, EndLoad, Publish, Get
<1>2. ASSUME NEW u \in Threads
      PROVE  ~Idle(u)' => ~Idle(u) /\ call'[u].load = call[u].load
  BY DEF OpenProceeds, LoadSucceeds, LoadFails, EndLoad, Publishing, Publish, Get, Idle, TypeOK
<1>3. NumberInv' /\ ImplInv' /\ CountInv'
  BY <1>1 DEF EmbedderInv, NumberInv, ImplInv, CountInv, HeldBy, Owned, Opening
<1>4. OpenInv'
  BY <1>1, <1>2 DEF EmbedderInv, OpenInv, Opening, HasSession, Idle
<1> QED
  BY <1>3, <1>4 DEF EmbedderInv

\* An open that ends without a session: it had none.
LEMMA OpenFails ==
  ASSUME TypeOK, EmbedderTypeOK, EmbedderInv, NEW t \in Threads, ~Idle(t),
         opening' = [opening EXCEPT ![t] = NotOpening], Idle(t)',
         \A u \in Threads : u # t => call'[u] = call[u],
         UNCHANGED <<impl, held, shared, loaded, model, handles>>
  PROVE  EmbedderInv'
<1>1. opening'[t] = NotOpening /\ \A u \in Threads : u # t => opening'[u] = opening[u]
  BY DEF EmbedderTypeOK
<1>2. Opening(t) /\ held[opening[t].open] = 0
  BY DEF EmbedderInv, OpenInv
<1>3. NumberInv'
  <2> SUFFICES ASSUME NEW u \in Threads, Opening(u)'
               PROVE  /\ opening'[u].open <= shared + loaded
                      /\ \A o \in Objects : impl[o] # opening'[u].open
                      /\ \A w \in Threads : w # u =>
                           opening'[w].open # opening'[u].open /\ opening'[w].out # opening'[u].out
    BY DEF EmbedderInv, NumberInv
  <2>1. u # t /\ opening'[u] = opening[u] /\ Opening(u)
    BY <1>1 DEF Opening
  <2>2. opening[u].open \in Opens /\ opening[u].out \in Objects
    BY <2>1 DEF EmbedderTypeOK, Opening, OpenCalls
  <2> QED
    BY <1>1, <2>1, <2>2 DEF EmbedderInv, NumberInv, NotOpening, Opens
<1>4. OpenInv'
  BY <1>1 DEF EmbedderInv, OpenInv, Opening, HasSession, Idle
<1>5. ImplInv'
  BY <1>1, <1>2 DEF EmbedderInv, ImplInv, Owned
<1>6. CountInv'
  BY DEF EmbedderInv, CountInv, HeldBy
<1> QED
  BY <1>3, <1>4, <1>5, <1>6 DEF EmbedderInv

LEMMA OpenThrowsInv ==
  ASSUME TypeOK, EmbedderTypeOK, EmbedderInv, NEW t \in Threads, OpenThrows(t)
  PROVE  EmbedderInv'
  BY OpenFails DEF OpenThrows, LoadThrows, EndLoad, NoCall, Idle, TypeOK

LEMMA AcquiredInv ==
  ASSUME TypeOK, StoreInv, EmbedderTypeOK, EmbedderInv, NEW t \in Threads, Acquired(t)
  PROVE  EmbedderInv'
<1> DEFINE l == call[t].load
           n == opening[t].open
<1>1. /\ UNCHANGED <<impl, shared, loaded, model>> /\ call[t].pc = "returning"
      /\ Idle(t)' /\ \A u \in Threads : u # t => call'[u] = call[u]
  BY DEF Acquired, Return, NoCall, Idle, TypeOK
<1>2. ~Idle(t)
  BY <1>1 DEF Idle
<1>3. CASE promise[l] # "value"
  BY <1>1, <1>2, <1>3, OpenFails DEF Acquired, Return
<1>4. CASE promise[l] = "value"
  <2>1. /\ held' = [held EXCEPT ![n] = l] /\ handles' = [handles EXCEPT ![l] = @ + 1]
        /\ UNCHANGED opening
    BY <1>4 DEF Acquired, Return
  <2>2. Opening(t) /\ held[n] = 0 /\ model[l] = opening[t].key
    BY <1>2 DEF EmbedderInv, OpenInv
  <2>3. n \in Opens /\ n <= shared + loaded
    BY <2>2 DEF EmbedderTypeOK, Opening, OpenCalls, EmbedderInv, NumberInv
  <2>4. l \in Loads
    BY <1>2 DEF StoreInv, CallInv, TypeOK, Loads
  <2>5. held'[n] = l /\ \A m \in Opens : m # n => held'[m] = held[m]
    BY <2>1, <2>3 DEF EmbedderTypeOK
  <2>6. NumberInv'
    <3>1. \A m \in Opens : m > shared + loaded => held'[m] = 0
      BY <2>3, <2>5 DEF EmbedderInv, NumberInv, Opens, TypeOK
    <3> QED
      BY <3>1, <1>1, <2>1 DEF EmbedderInv, NumberInv, Opening
  <2>7. OpenInv'
    <3> SUFFICES ASSUME NEW u \in Threads
                 PROVE  /\ ~Idle(u)' => /\ Opening(u) /\ held'[opening[u].open] = 0
                                        /\ model[call'[u].load] = opening[u].key
                        /\ Opening(u) /\ held'[opening[u].open] # 0 =>
                             model[held'[opening[u].open]] = opening[u].key
      BY <1>1, <2>1 DEF OpenInv, Opening, HasSession
    <3>1. CASE u = t
      BY <3>1, <1>1, <2>2, <2>5
    <3>2. CASE u # t
      <4>1. Opening(u) => opening[u].open # n /\ opening[u].open \in Opens
        BY <3>2, <2>2 DEF EmbedderInv, NumberInv, EmbedderTypeOK, Opening, OpenCalls
      <4> QED
        BY <3>2, <4>1, <1>1, <2>5 DEF EmbedderInv, OpenInv, Opening, HasSession, Idle
    <3> QED
      BY <3>1, <3>2
  <2>8. ImplInv'
    <3>1. \A o \in Objects : impl[o] # n /\ (impl[o] # 0 => impl[o] \in Opens)
      BY <2>2 DEF EmbedderInv, NumberInv, EmbedderTypeOK, Opens
    <3>2. \A m \in Opens : held'[m] # 0 => Owned(m)
      BY <2>5 DEF EmbedderInv, ImplInv, Owned
    <3> QED
      BY <3>1, <3>2, <1>1, <2>1, <2>5 DEF EmbedderInv, ImplInv, Owned
  <2>9. CountInv'
    BY <2>1, <2>2, <2>3, <2>4, CountGain DEF EmbedderInv
  <2> QED
    BY <2>6, <2>7, <2>8, <2>9 DEF EmbedderInv
<1> QED
  BY <1>3, <1>4

\* Objects made to point elsewhere: at most Impl f is given up, and no Impl that an open
\* under way owns is lost.
LEMMA PointInv ==
  ASSUME TypeOK, EmbedderTypeOK, EmbedderInv,
         NEW new \in [Objects -> 0..MaxOpens], Point(new), NEW f, Frees(new) \subseteq {f},
         \A o \in Objects : new[o] # 0 => held[new[o]] # 0,
         \A t \in Threads : \/ opening'[t] = opening[t]
                            \/ opening'[t] = NotOpening /\ \E o \in Objects : new[o] = opening[t].open
  PROVE  /\ ImplInv' /\ CountInv'
         /\ UNCHANGED <<shared, loaded, model, call>>
         /\ impl' = new
         /\ \A n \in Opens : held'[n] = held[n] \/ held'[n] = 0
<1>1. impl' = new /\ UNCHANGED <<shared, loaded, model, call>>
  BY DEF Point, Release, vars
<1>2. CASE Frees(new) = {}
  <2>1. UNCHANGED <<held, handles>>
    BY <1>2 DEF Point, vars
  <2>2. ASSUME NEW n \in Opens, held[n] # 0 PROVE Owned(n)'
    <3>1. Owned(n)
      BY <2>2 DEF EmbedderInv, ImplInv
    <3>2. CASE \E o \in Objects : impl[o] = n
      BY <3>2, <1>1, <1>2 DEF Frees, Owned
    <3>3. CASE \E t \in Threads : opening[t].open = n
      BY <3>3, <1>1 DEF Owned
    <3> QED
      BY <3>1, <3>2, <3>3 DEF Owned
  <2> QED
    BY <1>1, <2>1, <2>2 DEF EmbedderInv, ImplInv, CountInv, HeldBy
<1>3. CASE Frees(new) # {}
  <2>1. f \in Frees(new) /\ Release(held[f]) /\ held' = [held EXCEPT ![f] = 0]
    BY <1>3 DEF Point
  <2>2. f \in Opens /\ held[f] \in Loads
    BY <2>1, FreedHeld DEF EmbedderInv
  <2>3. CountInv'
    BY <2>1, <2>2, CountLoss DEF EmbedderInv
  <2>4. held'[f] = 0 /\ \A n \in Opens : n # f => held'[n] = held[n]
    BY <2>1, <2>2 DEF EmbedderTypeOK
  <2>5. ASSUME NEW n \in Opens, held'[n] # 0 PROVE Owned(n)'
    <3>1. Owned(n) /\ n \notin Frees(new)
      BY <2>4, <2>5 DEF EmbedderInv, ImplInv
    <3>2. CASE \E o \in Objects : impl[o] = n
      BY <3>1, <3>2, <1>1 DEF Frees, Owned
    <3>3. CASE \E t \in Threads : opening[t].open = n
      BY <3>3, <1>1 DEF Owned
    <3> QED
      BY <3>1, <3>2, <3>3 DEF Owned
  <2>6. \A o \in Objects : impl'[o] # 0 => held'[impl'[o]] # 0
    <3> SUFFICES ASSUME NEW o \in Objects, new[o] # 0 PROVE held'[new[o]] # 0
      BY <1>1
    <3>1. new[o] \in Opens /\ new[o] # f
      BY <2>1 DEF Frees, Opens
    <3> QED
      BY <3>1, <2>4
  <2> QED
    BY <1>1, <2>3, <2>4, <2>5, <2>6 DEF ImplInv
<1> QED
  BY <1>2, <1>3

LEMMA AssignInv ==
  ASSUME TypeOK, StoreInv, EmbedderTypeOK, EmbedderInv, NEW t \in Threads, Assign(t)
  PROVE  EmbedderInv'
<1> DEFINE n == opening[t].open
           o == opening[t].out
           new == [impl EXCEPT ![o] = n]
<1>1. /\ Opening(t) /\ held[n] # 0 /\ Point(new)
      /\ opening' = [opening EXCEPT ![t] = NotOpening]
  BY DEF Assign, HasSession
<1>2. n \in Opens /\ n <= shared + loaded /\ o \in Objects
  BY <1>1 DEF EmbedderTypeOK, Opening, OpenCalls, EmbedderInv, NumberInv
<1>3. /\ new \in [Objects -> 0..MaxOpens] /\ new[o] = n
      /\ \A p \in Objects : p # o => new[p] = impl[p]
  BY <1>2 DEF EmbedderTypeOK, Opens
<1>4. opening'[t] = NotOpening /\ \A u \in Threads : u # t => opening'[u] = opening[u]
  BY <1>1 DEF EmbedderTypeOK
<1> HIDE DEF new
<1>5. Frees(new) \subseteq {impl[o]}
  BY <1>3 DEF Frees
<1>6. \A p \in Objects : new[p] # 0 => held[new[p]] # 0
  BY <1>1, <1>3 DEF EmbedderInv, ImplInv
<1>0. \A u \in Threads : \/ opening'[u] = opening[u]
                         \/ opening'[u] = NotOpening /\ \E p \in Objects : new[p] = opening[u].open
  <2>1. \E p \in Objects : new[p] = opening[t].open
    BY <1>2, <1>3
  <2>2. ASSUME NEW u \in Threads
        PROVE  \/ opening'[u] = opening[u]
               \/ opening'[u] = NotOpening /\ \E p \in Objects : new[p] = opening[u].open
    BY <2>1, <1>4
  <2> QED
    BY <2>2
<1>7. /\ ImplInv' /\ CountInv'
      /\ UNCHANGED <<shared, loaded, model, call>> /\ impl' = new
      /\ \A m \in Opens : held'[m] = held[m] \/ held'[m] = 0
  BY <1>0, <1>1, <1>3, <1>5, <1>6, PointInv
<1>8. ASSUME NEW u \in Threads, Opening(u)'
      PROVE  u # t /\ Opening(u) /\ opening'[u] = opening[u] /\ opening[u].open \in Opens
             /\ opening[u].out \in Objects
  BY <1>4, <1>8 DEF Opening, EmbedderTypeOK, OpenCalls
<1>9. NumberInv'
  <2>1. ASSUME NEW u \in Threads, Opening(u)'
        PROVE  /\ opening'[u].open <= shared' + loaded'
               /\ \A p \in Objects : impl'[p] # opening'[u].open
               /\ \A w \in Threads : w # u =>
                    opening'[w].open # opening'[u].open /\ opening'[w].out # opening'[u].out
    BY <1>1, <1>3, <1>4, <1>7, <1>8, <2>1 DEF EmbedderInv, NumberInv, NotOpening, Opens
  <2>2. \A p \in Objects : impl'[p] <= shared' + loaded'
    BY <1>2, <1>3, <1>7 DEF EmbedderInv, NumberInv
  <2> QED
    BY <2>1, <2>2, <1>7 DEF EmbedderInv, NumberInv
<1>10. OpenInv'
  <2> SUFFICES ASSUME NEW u \in Threads
               PROVE  /\ ~Idle(u)' => /\ Opening(u)' /\ held'[opening'[u].open] = 0
                                      /\ model'[call'[u].load] = opening'[u].key
                      /\ HasSession(u)' => model'[held'[opening'[u].open]] = opening'[u].key
    BY DEF OpenInv
  <2>1. CASE u = t
    BY <2>1, <1>1, <1>4, <1>7 DEF EmbedderInv, OpenInv, Idle, HasSession, Opening
  <2>2. CASE u # t
    BY <2>2, <1>4, <1>7, <1>8 DEF EmbedderInv, OpenInv, Idle, HasSession, Opening,
                                 EmbedderTypeOK, OpenCalls
  <2> QED
    BY <2>1, <2>2
<1> QED
  BY <1>7, <1>9, <1>10 DEF EmbedderInv

\* Copies, moves and destruction spread what the objects have, and open nothing.
LEMMA SpreadInv ==
  ASSUME TypeOK, StoreInv, EmbedderTypeOK, EmbedderInv, UNCHANGED opening,
         NEW new \in [Objects -> 0..MaxOpens], Point(new), NEW f, Frees(new) \subseteq {f},
         \A o \in Objects : new[o] = 0 \/ \E p \in Objects : new[o] = impl[p]
  PROVE  EmbedderInv'
<1>1. \A o \in Objects : new[o] # 0 => held[new[o]] # 0
  BY DEF EmbedderInv, ImplInv
<1>2. /\ ImplInv' /\ CountInv'
      /\ UNCHANGED <<shared, loaded, model, call>> /\ impl' = new
      /\ \A m \in Opens : held'[m] = held[m] \/ held'[m] = 0
  <2>1. \A t \in Threads : \/ opening'[t] = opening[t]
                           \/ opening'[t] = NotOpening /\ \E o \in Objects : new[o] = opening[t].open
    <3>1. ASSUME NEW t \in Threads PROVE opening'[t] = opening[t]
      OBVIOUS
    <3> QED
      BY <3>1
  <2> QED
    BY <1>1, <2>1, PointInv
<1>3. ASSUME NEW t \in Threads, Opening(t)
      PROVE  opening[t].open \in Opens
  BY <1>3 DEF Opening, EmbedderTypeOK, OpenCalls
<1>4. NumberInv'
  <2>1. \A t \in Threads : Opening(t) =>
          /\ opening[t].open <= shared + loaded
          /\ \A o \in Objects : impl'[o] # opening[t].open
    BY <1>2, <1>3 DEF EmbedderInv, NumberInv, Opens
  <2>2. \A o \in Objects : impl'[o] <= shared + loaded
    BY <1>2 DEF EmbedderInv, NumberInv, TypeOK
  <2> QED
    BY <1>2, <2>1, <2>2 DEF EmbedderInv, NumberInv, Opening
<1>5. OpenInv'
  BY <1>2, <1>3 DEF EmbedderInv, OpenInv, Idle, HasSession, Opening
<1> QED
  BY <1>2, <1>4, <1>5 DEF EmbedderInv

LEMMA ObjectsInv ==
  ASSUME TypeOK, StoreInv, EmbedderTypeOK, EmbedderInv, NEW o \in Objects, NEW p \in Objects,
         Copy(o, p) \/ Move(o, p) \/ Destroy(o)
  PROVE  EmbedderInv'
<1>1. CASE Copy(o, p)
  <2> DEFINE new == [impl EXCEPT ![p] = impl[o]]
  <2>1. /\ new \in [Objects -> 0..MaxOpens] /\ Frees(new) \subseteq {impl[p]}
        /\ \A q \in Objects : \E r \in Objects : new[q] = impl[r]
    BY DEF Frees, EmbedderTypeOK
  <2> QED
    BY <1>1, <2>1, SpreadInv DEF Copy
<1>2. CASE Move(o, p)
  <2> DEFINE new == [impl EXCEPT ![p] = impl[o], ![o] = 0]
  <2>1. /\ new \in [Objects -> 0..MaxOpens] /\ Frees(new) \subseteq {impl[p]}
        /\ \A q \in Objects : new[q] = 0 \/ \E r \in Objects : new[q] = impl[r]
    BY <1>2 DEF Move, Frees, EmbedderTypeOK
  <2> QED
    BY <1>2, <2>1, SpreadInv DEF Move
<1>3. CASE Destroy(o)
  <2> DEFINE new == [impl EXCEPT ![o] = 0]
  <2>1. /\ new \in [Objects -> 0..MaxOpens] /\ Frees(new) \subseteq {impl[o]}
        /\ \A q \in Objects : new[q] = 0 \/ \E r \in Objects : new[q] = impl[r]
    BY DEF Frees, EmbedderTypeOK
  <2> QED
    BY <1>3, <2>1, SpreadInv DEF Destroy
<1> QED
  BY <1>1, <1>2, <1>3

LEMMA MakeImplThrowsInv ==
  ASSUME TypeOK, StoreInv, EmbedderTypeOK, EmbedderInv, NEW t \in Threads, MakeImplThrows(t)
  PROVE  EmbedderInv'
<1> DEFINE n == opening[t].open
<1>1. /\ Opening(t) /\ held[n] # 0 /\ Release(held[n])
      /\ held' = [held EXCEPT ![n] = 0]
      /\ opening' = [opening EXCEPT ![t] = NotOpening] /\ UNCHANGED impl
  BY DEF MakeImplThrows, HasSession
<1>2. n \in Opens /\ held[n] \in Loads
  BY <1>1 DEF Opening, EmbedderTypeOK, OpenCalls, Ref, Loads
<1>3. CountInv'
  BY <1>1, <1>2, CountLoss DEF EmbedderInv
<1>4. UNCHANGED <<shared, loaded, model, call>>
  BY <1>1 DEF Release
<1>5. held'[n] = 0 /\ \A m \in Opens : m # n => held'[m] = held[m]
  BY <1>1, <1>2 DEF EmbedderTypeOK
<1>6. opening'[t] = NotOpening /\ \A u \in Threads : u # t => opening'[u] = opening[u]
  BY <1>1 DEF EmbedderTypeOK
<1>7. ASSUME NEW u \in Threads, Opening(u)'
      PROVE  u # t /\ Opening(u) /\ opening'[u] = opening[u] /\ opening[u].open \in Opens
             /\ opening[u].out \in Objects /\ opening[u].open # n
  <2>1. u # t /\ opening'[u] = opening[u] /\ Opening(u)
    BY <1>6, <1>7 DEF Opening
  <2> QED
    BY <2>1, <1>1 DEF Opening, EmbedderTypeOK, OpenCalls, EmbedderInv, NumberInv
<1>8. NumberInv'
  <2>1. ASSUME NEW u \in Threads, Opening(u)'
        PROVE  /\ opening'[u].open <= shared + loaded
               /\ \A p \in Objects : impl[p] # opening'[u].open
               /\ \A w \in Threads : w # u =>
                    opening'[w].open # opening'[u].open /\ opening'[w].out # opening'[u].out
    BY <1>6, <1>7, <2>1 DEF EmbedderInv, NumberInv, NotOpening, Opens
  <2>2. \A m \in Opens : m > shared + loaded => held'[m] = 0
    BY <1>5 DEF EmbedderInv, NumberInv
  <2> QED
    BY <1>1, <1>4, <2>1, <2>2 DEF EmbedderInv, NumberInv
<1>9. OpenInv'
  <2> SUFFICES ASSUME NEW u \in Threads
               PROVE  /\ ~Idle(u) => /\ Opening(u)' /\ held'[opening'[u].open] = 0
                                     /\ model[call[u].load] = opening'[u].key
                      /\ HasSession(u)' => model[held'[opening'[u].open]] = opening'[u].key
    BY <1>4 DEF OpenInv, Idle
  <2>1. CASE u = t
    BY <2>1, <1>1, <1>6 DEF EmbedderInv, OpenInv, HasSession, Opening
  <2>2. CASE u # t
    BY <2>2, <1>5, <1>6, <1>7 DEF EmbedderInv, OpenInv, HasSession, Opening
  <2> QED
    BY <2>1, <2>2
<1>10. ImplInv'
  <2>1. \A o \in Objects : impl[o] # n /\ (impl[o] # 0 => impl[o] \in Opens)
    BY <1>1 DEF EmbedderInv, NumberInv, EmbedderTypeOK, Opens
  <2>2. \A m \in Opens : held'[m] # 0 => Owned(m)'
    BY <1>1, <1>5, <1>6 DEF EmbedderInv, ImplInv, Owned
  <2> QED
    BY <1>1, <1>5, <2>1, <2>2 DEF EmbedderInv, ImplInv
<1> QED
  BY <1>3, <1>8, <1>9, <1>10 DEF EmbedderInv

LEMMA EmbedderNextInv ==
  TypeOK /\ StoreInv /\ EmbedderTypeOK /\ EmbedderInv /\ [EmbedderNext]_embedderVars
    => EmbedderInv'
<1> SUFFICES ASSUME TypeOK, StoreInv, EmbedderTypeOK, EmbedderInv, [EmbedderNext]_embedderVars
             PROVE  EmbedderInv'
  OBVIOUS
<1>1. ASSUME ConfigureCache \/ UNCHANGED embedderVars PROVE EmbedderInv'
  <2>1. UNCHANGED <<impl, held, opening, shared, loaded, model, handles, call>>
    BY <1>1 DEF ConfigureCache, Configure, embedderVars
  <2> QED
    BY <2>1 DEF EmbedderInv, NumberInv, OpenInv, ImplInv, CountInv, HeldBy, Owned, Opening,
                HasSession, Idle
<1>2. ASSUME NEW o \in Objects, Destroy(o) PROVE EmbedderInv'
  BY <1>2, ObjectsInv
<1> QED
  BY <1>1, <1>2, OpenLiveInv, OpenWaitsInv, OpenProceedsInv, OpenThrowsInv, AcquiredInv,
     AssignInv, MakeImplThrowsInv, ObjectsInv DEF EmbedderNext, OpenNext

-----------------------------------------------------------------------------
(* Theorems                                                                *)

\* All that holds of the objects and of the store under them.
AllInv == TypeOK /\ StoreInv /\ EmbedderTypeOK /\ EmbedderInv

\* The objects and the store keep the invariant, for any program that opens,
\* copies, moves and destroys them.
THEOREM EmbedderInvariantCorrect == EmbedderSpec => []AllInv
<1>1. EmbedderInit => AllInv
  BY InitType, InitInv, EmbedderInitType, EmbedderInitInv DEF EmbedderInit, AllInv
<1>2. AllInv /\ [EmbedderNext]_embedderVars => AllInv'
  <2> SUFFICES ASSUME AllInv, [EmbedderNext]_embedderVars PROVE AllInv'
    OBVIOUS
  <2>1. [Next]_vars
    BY StoreStep DEF AllInv, EmbedderInv
  <2> QED
    BY <2>1, NextType, NextInv, EmbedderNextType, EmbedderNextInv DEF AllInv
<1> QED
  BY <1>1, <1>2, PTL DEF EmbedderSpec

\* To the store, objects are opens and releases: what is proved of SessionStore under any
\* callers holds under these.
THEOREM StoreImplemented == EmbedderSpec => ImplementsStore
<1>1. EmbedderInit => Init
  BY DEF EmbedderInit
<1>2. AllInv /\ [EmbedderNext]_embedderVars => [Next]_vars
  BY StoreStep DEF AllInv, EmbedderInv
<1> QED
  BY <1>1, <1>2, EmbedderInvariantCorrect, PTL DEF EmbedderSpec, ImplementsStore

\* So a model is built once at a time, has one session at most, and loaded_models() is
\* exact where no open is under way, whatever a program does with its objects.
THEOREM StoreSafeUnderObjects == EmbedderSpec => []StoreSafety
  BY StoreImplemented, StoreIsSafe, PTL DEF ImplementsStore, StoreSteps

\* And so the objects keep what the library promises of weights (session_store.hpp:14-20),
\* two refinements up: ModelSharing knows of no store, and SessionStore of no object.
THEOREM ObjectsShare == EmbedderSpec => SharingSafety
  BY StoreImplemented, StepsShare, PTL DEF ImplementsStore, StoreSteps

\* What ModelSharing calls a model in use is one that an Impl holds which an object, or an
\* open about to return, owns.
InUseByObjects ==
  \A k \in Keys :
    InUse(k) <=> \E n \in Opens : held[n] # 0 /\ model[held[n]] = k /\ Owned(n)

\* The weights that stay are the ones some object of the program still needs
\* (embed.hpp:134-135).
THEOREM InUseByObjectsCorrect == EmbedderSpec => []InUseByObjects
<1>1. ASSUME AllInv, NEW k \in Keys
      PROVE  InUse(k) <=> \E n \in Opens : held[n] # 0 /\ model[held[n]] = k /\ Owned(n)
  <2>1. ASSUME NEW l \in Loads, model[l] = k, handles[l] > 0
        PROVE  \E n \in Opens : held[n] # 0 /\ model[held[n]] = k /\ Owned(n)
    <3>1. PICK n \in Opens : held[n] = l
      <4>1. Cardinality(HeldBy(l)) # 0
        BY <1>1, <2>1 DEF AllInv, EmbedderInv, CountInv
      <4>2. HeldBy(l) # {}
        BY <4>1, FS_EmptySet
      <4> QED
        BY <4>2 DEF HeldBy
    <3> QED
      BY <1>1, <2>1, <3>1 DEF AllInv, EmbedderInv, ImplInv, Loads
  <2>2. ASSUME NEW n \in Opens, held[n] # 0, model[held[n]] = k PROVE InUse(k)
    BY <1>1, <2>2, HeldIsLoaded DEF AllInv, EmbedderInv, InUse
  <2> QED
    BY <2>1, <2>2 DEF InUse
<1>2. AllInv => InUseByObjects
  BY <1>1 DEF InUseByObjects
<1> QED
  BY <1>2, EmbedderInvariantCorrect, PTL

\* loaded_models() counts the outstanding opens, whatever is done with the objects
\* (include/cyborgdb_embed/embed.hpp:219-220).
THEOREM HandlesAreOpensCorrect == EmbedderSpec => []HandlesAreOpens
<1>1. AllInv => HandlesAreOpens
  <2> SUFFICES ASSUME AllInv, NEW l \in Loads
               PROVE  handles[l] = Cardinality({n \in Opens : held[n] = l /\ Owned(n)})
    BY DEF HandlesAreOpens
  <2>1. HeldBy(l) = {n \in Opens : held[n] = l /\ Owned(n)}
    BY DEF HeldBy, AllInv, EmbedderInv, ImplInv, Loads
  <2> QED
    BY <2>1 DEF AllInv, EmbedderInv, CountInv
<1> QED
  BY <1>1, EmbedderInvariantCorrect, PTL

\* An object that has a session has a live one (embed.hpp:134-135).
THEOREM ValidIsLiveCorrect == EmbedderSpec => []ValidIsLive
<1>1. AllInv => ValidIsLive
  <2> SUFFICES ASSUME AllInv, NEW o \in Objects, impl[o] # 0
               PROVE  held[impl[o]] # 0 /\ Alive(held[impl[o]])
    BY DEF ValidIsLive
  <2>1. impl[o] \in Opens /\ held[impl[o]] # 0
    BY DEF AllInv, EmbedderTypeOK, EmbedderInv, ImplInv, Opens
  <2> QED
    BY <2>1, HeldIsLoaded DEF AllInv, EmbedderInv, Alive
<1> QED
  BY <1>1, EmbedderInvariantCorrect, PTL

\* An open leaves `out` alone until it succeeds, and gives it the model asked for.
THEOREM OpenSetsOutCorrect == EmbedderSpec => OpenSetsOut
<1> DEFINE A(t) == LET o == opening[t].out
                       n == opening[t].open
                   IN  impl'[o] = impl[o] \/ (impl'[o] = n /\ model[held[n]] = opening[t].key)
<1>1. ASSUME AllInv, [EmbedderNext]_embedderVars, NEW t \in Threads, Opening(t) PROVE A(t)
  <2> DEFINE o == opening[t].out
  <2>1. o \in Objects /\ Busy(o)
    BY <1>1 DEF AllInv, EmbedderTypeOK, Opening, OpenCalls, Busy
  <2>2. ASSUME NEW u \in Threads, Assign(u) PROVE A(t)
    <3>1. impl' = [impl EXCEPT ![opening[u].out] = opening[u].open]
      BY <2>2 DEF Assign, Point
    <3>2. CASE u = t
      <4>1. impl'[o] = opening[t].open
        BY <3>1, <3>2, <2>1, <1>1 DEF AllInv, EmbedderTypeOK
      <4>2. HasSession(t)
        BY <2>2, <3>2 DEF Assign
      <4>3. model[held[opening[t].open]] = opening[t].key
        BY <4>2, <1>1 DEF AllInv, EmbedderInv, OpenInv
      <4> QED
        BY <4>1, <4>3
    <3>3. CASE u # t
      BY <3>1, <3>3, <2>1, <1>1 DEF AllInv, EmbedderInv, NumberInv, EmbedderTypeOK
    <3> QED
      BY <3>2, <3>3
  <2>3. ASSUME NEW p \in Objects, NEW q \in Objects, Copy(p, q) \/ Move(p, q) \/ Destroy(p)
        PROVE  impl'[o] = impl[o]
    <3>1. PICK new : /\ impl' = new
                     /\ \/ new = [impl EXCEPT ![q] = impl[p]] /\ ~Busy(q)
                        \/ new = [impl EXCEPT ![q] = impl[p], ![p] = 0] /\ ~Busy(q) /\ ~Busy(p)
                        \/ new = [impl EXCEPT ![p] = 0] /\ ~Busy(p)
      BY <2>3 DEF Copy, Move, Destroy, Point
    <3>2. impl \in [Objects -> 0..MaxOpens]
      BY <1>1 DEF AllInv, EmbedderTypeOK
    <3>3. (~Busy(p) => o # p) /\ (~Busy(q) => o # q)
      BY <2>1
    <3> QED
      BY <3>1, <3>2, <3>3, <2>1
  <2>4. CASE UNCHANGED impl
    BY <2>4
  <2> QED
    BY <1>1, <2>1, <2>2, <2>3, <2>4
       DEF EmbedderNext, OpenNext, OpenLive, OpenWaits, OpenProceeds, OpenThrows, Acquired,
           MakeImplThrows, ConfigureCache, embedderVars
<1>2. AllInv /\ [EmbedderNext]_embedderVars =>
        [\A t \in Threads : Opening(t) => A(t)]_embedderVars
  BY <1>1
<1> QED
  BY <1>2, EmbedderInvariantCorrect, PTL DEF EmbedderSpec, OpenSetsOut

\* A model that an object holds is not loaded again.
THEOREM HeldIsNotReloadedCorrect == EmbedderSpec => HeldIsNotReloaded
<1>1. ASSUME AllInv, [EmbedderNext]_embedderVars, NEW o \in Objects,
             impl[o] # 0, loaded' # loaded
      PROVE  model'[loaded'] # model[held[impl[o]]]
  <2> DEFINE l == held[impl[o]]
  <2>1. impl[o] \in Opens /\ held[impl[o]] # 0
    BY <1>1 DEF AllInv, EmbedderTypeOK, EmbedderInv, ImplInv, Opens
  <2>2. l \in Loads /\ l <= loaded /\ handles[l] > 0
    BY <1>1, <2>1, HeldIsLoaded DEF AllInv, EmbedderInv
  <2>3. Alive(l) /\ promise[l] = "value" /\ InEntry(l) /\ l # 0
    BY <1>1, <2>2 DEF Alive, AllInv, StoreInv, OwnerInv, Loads
  <2>4. PICK t \in Threads, k \in Keys : Lead(t, k)
    <3>1. [Next]_vars
      BY <1>1, StoreStep DEF AllInv, EmbedderInv
    <3> QED
      BY <1>1, <3>1 DEF Next, Acquire, Proceed, LiveHit, Join, LoadEnds, LoadSucceeds, LoadFails,
                        LoadThrows, EndLoad, Publish, Get, Return, Release, Configure, vars
  <2>5. loaded' \in Loads /\ model'[loaded'] = k
    BY <1>1, <2>4 DEF Lead, Bounded, AllInv, TypeOK, Loads
  <2>6. model[l] # k
    BY <2>3, <2>4 DEF Lead, MustLoad, Live, InEntry
  <2> QED
    BY <2>5, <2>6
<1>2. AllInv /\ [EmbedderNext]_embedderVars =>
        [\A o \in Objects : impl[o] # 0 /\ loaded' # loaded =>
            model'[loaded'] # model[held[impl[o]]]]_embedderVars
  BY <1>1
<1> QED
  BY <1>2, EmbedderInvariantCorrect, PTL DEF EmbedderSpec, HeldIsNotReloaded

-----------------------------------------------------------------------------
(* Objects over the store over the runtime                                 *)

\* Every object that holds a model runs it on a pool that is fixed, of the size that
\* configure_runtime last accepted (include/cyborgdb_embed/embed.hpp:185-186).
ObjectsOnTheirPool == \A o \in Objects : impl[o] # 0 => started /\ pool = threads

\* The steps of both modules at once: what the program does with its objects is what the
\* store sees, and the loads of the store are those that the runtime sees.
THEOREM ObjectsOnTheirPoolCorrect == EmbedderSpec /\ OpeningSpec => []ObjectsOnTheirPool
<1>1. AllInv /\ OpeningInv => ObjectsOnTheirPool
  <2> SUFFICES ASSUME AllInv, OpeningInv, NEW o \in Objects, impl[o] # 0
               PROVE  started /\ pool = threads
    BY DEF ObjectsOnTheirPool
  <2>1. impl[o] \in Opens /\ held[impl[o]] # 0
    BY DEF AllInv, EmbedderTypeOK, EmbedderInv, ImplInv, Opens
  <2>2. held[impl[o]] \in Loads /\ handles[held[impl[o]]] > 0
    BY <2>1, HeldIsLoaded DEF AllInv, EmbedderInv
  <2> QED
    BY <2>2, HandleOnFixedPool
<1> QED
  BY <1>1, EmbedderInvariantCorrect, OpeningInvariant, PTL
=============================================================================
