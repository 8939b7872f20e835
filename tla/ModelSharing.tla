---------------------------- MODULE ModelSharing ----------------------------
(***************************************************************************)
(* What the library promises about the weights of a model, with no mutex,  *)
(* future, weak pointer or thread in sight: at any time a model is absent, *)
(* being loaded by exactly one load, or live; only an absent model starts  *)
(* loading; a handle is given out only for a live model; and the weights   *)
(* are gone once the last handle is.  SessionStore is shown to implement   *)
(* this specification.                                                     *)
(*                                                                         *)
(* Source of the promise: session_store.hpp:14-20, embed.hpp:211-214.      *)
(***************************************************************************)

CONSTANT Keys

VARIABLES
  phase,   \* phase[k]: where the weights of k are in their life cycle
  inUse    \* inUse[k]: some handle onto k is outstanding

vars == <<phase, inUse>>

Init ==
  /\ phase = [k \in Keys |-> "absent"]
  /\ inUse = [k \in Keys |-> FALSE]

\* An open finds no session and no load in flight, and begins the only load.
StartLoad(k) ==
  /\ phase[k] = "absent"
  /\ phase' = [phase EXCEPT ![k] = "loading"]
  /\ UNCHANGED inUse

\* The load produced a session, or nothing at all.
FinishLoad(k) ==
  /\ phase[k] = "loading"
  /\ phase' \in {[phase EXCEPT ![k] = p] : p \in {"live", "absent"}}
  /\ UNCHANGED inUse

\* An open returns a handle onto the live session.
Give(k) ==
  /\ phase[k] = "live"
  /\ inUse' = [inUse EXCEPT ![k] = TRUE]
  /\ UNCHANGED phase

\* A handle goes away.  Other handles, or opens about to return one, may keep
\* the session; if none do, the weights go with the handle.
Drop(k) ==
  /\ inUse[k]
  /\ inUse' \in {[inUse EXCEPT ![k] = b] : b \in BOOLEAN}
  /\ \/ UNCHANGED phase
     \/ /\ ~inUse'[k]
        /\ phase' = [phase EXCEPT ![k] = "absent"]

Next == \E k \in Keys : StartLoad(k) \/ FinishLoad(k) \/ Give(k) \/ Drop(k)

\* A load ends, and a session nobody holds is on its way to somebody.
Fairness == \A k \in Keys : WF_vars(FinishLoad(k)) /\ WF_vars(~inUse[k] /\ Give(k))

Spec == Init /\ [][Next]_vars /\ Fairness
=============================================================================
