-------------------------- MODULE OrtRuntimeProofs --------------------------
(***************************************************************************)
(* Proofs about OrtRuntime, for any number of threads and any sizes.       *)
(***************************************************************************)
EXTENDS OrtRuntime, TLAPS

\* What every step preserves.
RuntimeInv == TypeOK /\ LockInv /\ NoOrtBeforeApi /\ PoolAsConfigured /\ SessionFixesPool

LEMMA InitRuntime == Init => RuntimeInv
<1> SUFFICES ASSUME Init PROVE RuntimeInv
  OBVIOUS
<1>1. TypeOK
  <2>1. pc \in [Threads -> PCs]
    BY DEF Init, PCs
  <2>2. result \in [Threads -> Results]
    BY DEF Init, Results
  <2>3. once \in {"fresh", "running", "done"} /\ api \in BOOLEAN /\ started \in BOOLEAN
    BY Zenon DEF Init
  <2> QED
    BY <2>1, <2>2, <2>3 DEF Init, TypeOK
<1>2. LockInv
  BY RuntimeAssumption DEF Init, LockInv
<1>3. NoOrtBeforeApi /\ PoolAsConfigured /\ SessionFixesPool
  BY DEF Init, NoOrtBeforeApi, PoolAsConfigured, SessionFixesPool
<1> QED
  BY <1>1, <1>2, <1>3 DEF RuntimeInv

LEMMA NextType == TypeOK /\ [Next]_vars => TypeOK'
<1> SUFFICES ASSUME TypeOK, [Next]_vars PROVE TypeOK'
  OBVIOUS
<1> USE RuntimeAssumption DEF TypeOK, PCs, Results, At, Goto, End
<1>1. ASSUME NEW t \in Threads, Load(t) PROVE TypeOK'
  BY <1>1 DEF Load
<1>2. ASSUME NEW t \in Threads, Ensure(t) PROVE TypeOK'
  BY <1>2 DEF Ensure
<1>3. ASSUME NEW t \in Threads, InitOrt(t) PROVE TypeOK'
  BY <1>3 DEF InitOrt, CallOnce
<1>4. ASSUME NEW t \in Threads, GetApi(t) PROVE TypeOK'
  BY <1>4 DEF GetApi
<1>5. ASSUME NEW t \in Threads, LoadTokenizer(t) PROVE TypeOK'
  BY <1>5 DEF LoadTokenizer
<1>6. ASSUME NEW t \in Threads, Lock(t) PROVE TypeOK'
  BY <1>6 DEF Lock
<1>7. ASSUME NEW t \in Threads, Construct(t) PROVE TypeOK'
  BY <1>7 DEF Construct
<1>8. ASSUME NEW t \in Threads, Unlock(t) PROVE TypeOK'
  BY <1>8 DEF Unlock
<1>9. ASSUME NEW t \in Threads, MakeSession(t) PROVE TypeOK'
  BY <1>9 DEF MakeSession
<1>10. ASSUME NEW t \in Threads, NEW n \in Sizes, ConfigureRuntime(t, n) PROVE TypeOK'
  BY <1>10 DEF ConfigureRuntime, Accepts
<1>11. CASE UNCHANGED vars
  BY <1>11 DEF vars
<1> QED
  BY <1>1, <1>2, <1>3, <1>4, <1>5, <1>6, <1>7, <1>8, <1>9, <1>10, <1>11 DEF Next, Proceed

\* Construct makes the pool with the mutex held, and no configuration gets in until
\* Unlock has set `started`: that is why the size it was made with stays the one in
\* force.
LEMMA NextRuntime == RuntimeInv /\ [Next]_vars => RuntimeInv'
<1> SUFFICES ASSUME RuntimeInv, [Next]_vars PROVE RuntimeInv'
  OBVIOUS
<1>0. TypeOK'
  BY NextType DEF RuntimeInv
<1> DEFINE Rest == LockInv /\ NoOrtBeforeApi /\ PoolAsConfigured /\ SessionFixesPool
<1> USE RuntimeAssumption DEF RuntimeInv, TypeOK, LockInv, NoOrtBeforeApi, PoolAsConfigured,
    SessionFixesPool, At, Goto, End
<1>1. ASSUME NEW t \in Threads, Load(t) PROVE Rest'
  BY <1>1 DEF Load
<1>2. ASSUME NEW t \in Threads, Ensure(t) PROVE Rest'
  BY <1>2 DEF Ensure
<1>3. ASSUME NEW t \in Threads, InitOrt(t) PROVE Rest'
  BY <1>3 DEF InitOrt, CallOnce
<1>4. ASSUME NEW t \in Threads, GetApi(t) PROVE Rest'
  BY <1>4 DEF GetApi
<1>5. ASSUME NEW t \in Threads, LoadTokenizer(t) PROVE Rest'
  BY <1>5 DEF LoadTokenizer
<1>6. ASSUME NEW t \in Threads, Lock(t) PROVE Rest'
  BY <1>6 DEF Lock
<1>7. ASSUME NEW t \in Threads, Construct(t) PROVE Rest'
  BY <1>7 DEF Construct
<1>8. ASSUME NEW t \in Threads, Unlock(t) PROVE Rest'
  BY <1>8 DEF Unlock
<1>9. ASSUME NEW t \in Threads, MakeSession(t) PROVE Rest'
  BY <1>9 DEF MakeSession
<1>10. ASSUME NEW t \in Threads, NEW n \in Sizes, ConfigureRuntime(t, n) PROVE Rest'
  BY <1>10 DEF ConfigureRuntime, MayConfigure, Accepts
<1>11. CASE UNCHANGED vars
  BY <1>11 DEF vars
<1> QED
  BY <1>0, <1>1, <1>2, <1>3, <1>4, <1>5, <1>6, <1>7, <1>8, <1>9, <1>10, <1>11 DEF Next, Proceed
-----------------------------------------------------------------------------
(* Theorems                                                                *)

\* The invariant holds in every reachable state.
THEOREM RuntimeCorrect == Spec => []RuntimeInv
  BY InitRuntime, NextRuntime, PTL DEF Spec

\* Types hold; in particular the pool is never asked for less than one thread
\* (configure_runtime, src/session_ort.cpp:184).
THEOREM TypeCorrect == Spec => []TypeOK
<1>1. RuntimeInv => TypeOK
  BY DEF RuntimeInv
<1> QED
  BY <1>1, RuntimeCorrect, PTL

\* Nothing of ONNX Runtime is touched before init_ort has the function table
\* (src/session.cpp:46-50), for any number of threads racing to it.
THEOREM ApiCorrect == Spec => []NoOrtBeforeApi
<1>1. RuntimeInv => NoOrtBeforeApi
  BY DEF RuntimeInv
<1> QED
  BY <1>1, RuntimeCorrect, PTL

\* The pool has the size configure_runtime accepted last (src/session_ort.cpp:36-45,
\* 187-195).
THEOREM PoolCorrect == Spec => []PoolAsConfigured
<1>1. RuntimeInv => PoolAsConfigured
  BY DEF RuntimeInv
<1> QED
  BY <1>1, RuntimeCorrect, PTL

\* A session is made only over a pool that is fixed (make_ort_session).
THEOREM SessionCorrect == Spec => []SessionFixesPool
<1>1. RuntimeInv => SessionFixesPool
  BY DEF RuntimeInv
<1> QED
  BY <1>1, RuntimeCorrect, PTL

\* The loads and configurations of any number of threads amount to one setting that
\* is fixed when the pool is made (include/cyborgdb_embed/embed.hpp:185-188).
THEOREM ImplementsSetting == Spec => ImplementsRuntimeSetting
<1>1. Init => Setting!Init
  BY DEF Init, Setting!Init
<1>2. RuntimeInv /\ [Next]_vars => [Setting!Next]_<<threads, pool # NoPool>>
  <2> SUFFICES ASSUME RuntimeInv, [Next]_vars
               PROVE  [Setting!Next]_<<threads, pool # NoPool>>
    OBVIOUS
  <2>1. ASSUME NEW t \in Threads, NEW n \in Sizes, ConfigureRuntime(t, n)
        PROVE  [Setting!Next]_<<threads, pool # NoPool>>
    <3>1. CASE pool = NoPool
      BY <2>1, <3>1 DEF ConfigureRuntime, Setting!Next, Setting!Configure
    <3>2. CASE pool # NoPool
      <4>1. started
        BY <2>1, <3>2, RuntimeAssumption DEF ConfigureRuntime, MayConfigure, RuntimeInv, LockInv
      <4>2. UNCHANGED <<threads, pool>>
        BY <2>1, <4>1 DEF ConfigureRuntime, Accepts
      <4> QED
        BY <4>2
    <3> QED
      BY <3>1, <3>2
  <2>2. ASSUME NEW t \in Threads, Construct(t)
        PROVE  [Setting!Next]_<<threads, pool # NoPool>>
    <3>1. threads' = threads
      BY <2>2 DEF Construct
    <3>2. pool' # NoPool \/ pool' = pool
      BY <2>2, RuntimeAssumption DEF Construct, RuntimeInv, TypeOK
    <3> QED
      BY <3>1, <3>2 DEF Setting!Next, Setting!MakePool
  <2>3. ASSUME NEW t \in Threads,
               \/ Load(t) \/ Ensure(t) \/ InitOrt(t) \/ GetApi(t) \/ LoadTokenizer(t)
               \/ Lock(t) \/ Unlock(t) \/ MakeSession(t)
        PROVE  UNCHANGED <<threads, pool>>
    BY <2>3 DEF Load, Ensure, InitOrt, GetApi, LoadTokenizer, Lock, Unlock, MakeSession
  <2>4. CASE UNCHANGED vars
    BY <2>4 DEF vars
  <2> QED
    BY <2>1, <2>2, <2>3, <2>4 DEF Next, Proceed
<1> QED
  BY <1>1, <1>2, RuntimeCorrect, PTL DEF Spec, ImplementsRuntimeSetting, Setting!Spec

-----------------------------------------------------------------------------
(* Nobody is stuck                                                         *)

\* A thread inside load_session that no other keeps from its next step: nobody else is
\* in the lambda of call_once, or holds the mutex, where it has to get by.
Free(t) ==
  \/ pc[t] \in PCs \ {"idle", "init_ort", "environment"}
  \/ pc[t] = "init_ort" /\ once # "running"
  \/ pc[t] = "environment" /\ mutex = NoThread

\* While a load is under way some load can go on: the threads never all wait for each
\* other at call_once (src/ort_api.cpp) and at the mutex (src/session_ort.cpp).
NoStandstill == (\E t \in Threads : pc[t] # "idle") => \E t \in Threads : Free(t)

\* The flag says "running" only while somebody is running the lambda.
OnceInv == once = "running" => \E t \in Threads : pc[t] = "get_api"

LEMMA NextOnce == TypeOK /\ OnceInv /\ [Next]_vars => OnceInv'
<1> SUFFICES ASSUME TypeOK, OnceInv, [Next]_vars PROVE OnceInv'
  OBVIOUS
<1>1. ASSUME NEW t \in Threads, InitOrt(t) PROVE OnceInv'
  BY <1>1 DEF InitOrt, CallOnce, OnceInv, TypeOK, At, Goto, End
<1>2. ASSUME NEW t \in Threads, GetApi(t) PROVE OnceInv'
  BY <1>2 DEF GetApi, OnceInv
<1>3. ASSUME NEW t \in Threads,
             \/ Load(t) \/ Ensure(t) \/ LoadTokenizer(t) \/ Lock(t) \/ Construct(t)
             \/ Unlock(t) \/ MakeSession(t) \/ \E n \in Sizes : ConfigureRuntime(t, n)
      PROVE  OnceInv'
  <2>1. UNCHANGED once /\ \A u \in Threads : pc[u] = "get_api" => pc'[u] = "get_api"
    BY <1>3 DEF Load, Ensure, LoadTokenizer, Lock, Construct, Unlock, MakeSession,
                ConfigureRuntime, TypeOK, At, Goto, End
  <2> QED
    BY <2>1 DEF OnceInv
<1>4. CASE UNCHANGED vars
  BY <1>4 DEF vars, OnceInv
<1> QED
  BY <1>1, <1>2, <1>3, <1>4 DEF Next, Proceed

LEMMA InvStandstill == RuntimeInv /\ OnceInv => NoStandstill
<1> SUFFICES ASSUME RuntimeInv, OnceInv, NEW t \in Threads, pc[t] # "idle"
             PROVE  \E u \in Threads : Free(u)
  BY DEF NoStandstill
<1>1. pc[t] \in PCs
  BY DEF RuntimeInv, TypeOK
<1>2. CASE pc[t] = "init_ort" /\ once = "running"
  BY <1>2 DEF OnceInv, Free, PCs
<1>3. CASE pc[t] = "environment" /\ mutex # NoThread
  <2>1. mutex \in Threads /\ pc[mutex] \in {"construct", "started"}
    BY <1>3 DEF RuntimeInv, TypeOK, LockInv
  <2> QED
    BY <2>1 DEF Free, PCs
<1> QED
  BY <1>1, <1>2, <1>3 DEF Free

\* No behaviour of the loads brings them to wait for each other.
THEOREM StandstillCorrect == Spec => []NoStandstill
<1>1. Init => OnceInv
  BY DEF Init, OnceInv
<1>2. TypeOK /\ OnceInv /\ [Next]_vars => OnceInv'
  BY NextOnce
<1>3. RuntimeInv /\ OnceInv => NoStandstill
  BY InvStandstill
<1> QED
  BY <1>1, <1>2, <1>3, TypeCorrect, RuntimeCorrect, PTL DEF Spec
=============================================================================
