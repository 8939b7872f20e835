----------------------------- MODULE OrtRuntime -----------------------------
(***************************************************************************)
(* The part of ONNX Runtime the process has one of, as loads on several    *)
(* threads come to it: load_session (src/session.cpp), init_ort            *)
(* (src/ort_api.cpp), environment, configure_runtime and make_ort_session  *)
(* (src/session_ort.cpp).  SessionStore runs one load per model at a time, *)
(* so the threads here load different models, or the same one again.       *)
(***************************************************************************)
EXTENDS Integers

CONSTANTS
  Threads,   \* threads that load models and configure the runtime
  NoThread,  \* nobody
  Sizes,     \* pool sizes configure_runtime is asked for
  NoPool     \* the environment is not constructed yet

ASSUME RuntimeAssumption ==
  /\ NoThread \notin Threads
  /\ Sizes \subseteq Int
  /\ NoPool \notin Int

VARIABLES
  once,     \* g_once: "fresh", "running" or "done"
  api,      \* is g_api set, and the C++ wrapper's table with it?
  mutex,    \* Runtime::mutex: the thread that holds it
  started,  \* Runtime::started
  threads,  \* Runtime::threads
  pool,     \* the size of the pool that `env` was constructed with
  pc,       \* pc[t]: where t's load_session is
  result    \* result[t]: how t's last load_session ended

vars == <<once, api, mutex, started, threads, pool, pc, result>>

PCs == {"idle", "files", "init_ort", "get_api", "tokenizer", "environment", "construct",
        "started", "session"}
Results == {"none", "session", "status", "throw"}

TypeOK ==
  /\ once \in {"fresh", "running", "done"}
  /\ api \in BOOLEAN
  /\ mutex \in Threads \cup {NoThread}
  /\ started \in BOOLEAN
  /\ threads \in Int /\ threads >= 1
  /\ pool \in Int \cup {NoPool}
  /\ pc \in [Threads -> PCs]
  /\ result \in [Threads -> Results]

Init ==
  /\ once = "fresh" /\ api = FALSE
  /\ mutex = NoThread /\ started = FALSE /\ threads = 1 /\ pool = NoPool
  /\ pc = [t \in Threads |-> "idle"]
  /\ result = [t \in Threads |-> "none"]

At(t, label) == pc[t] = label
Goto(t, label) == pc' = [pc EXCEPT ![t] = label]

\* load_session returns, or an exception leaves it.
End(t, r) == Goto(t, "idle") /\ result' = [result EXCEPT ![t] = r]

-----------------------------------------------------------------------------
(* load_session                                                            *)

Load(t) ==
  /\ At(t, "idle") /\ Goto(t, "files")
  /\ UNCHANGED <<once, api, mutex, started, threads, pool, result>>

\* The precision, the provider and the pins are checked, and both files ensured
\* (ModelCache says how); fs::exists and the allocations may throw.
Ensure(t) ==
  /\ At(t, "files")
  /\ \/ Goto(t, "init_ort") /\ UNCHANGED result
     \/ \E r \in {"status", "throw"} : End(t, r)
  /\ UNCHANGED <<once, api, mutex, started, threads, pool>>

-----------------------------------------------------------------------------
(* init_ort                                                                *)

\* Mutant: a flag set on entry, in place of std::call_once.
MutCallOnce(t) ==
  \/ once = "fresh" /\ once' = "running" /\ Goto(t, "get_api") /\ UNCHANGED result
  \/ once \in {"running", "done"} /\ UNCHANGED once /\ Goto(t, "tokenizer") /\ UNCHANGED result

\* std::call_once: the first thread runs the lambda, the others wait for its end and
\* see what it did.
CallOnce(t) ==
  \/ once = "fresh" /\ once' = "running" /\ Goto(t, "get_api") /\ UNCHANGED result
  \/ /\ once = "done" /\ UNCHANGED once
     /\ IF api THEN Goto(t, "tokenizer") /\ UNCHANGED result ELSE End(t, "status")

InitOrt(t) ==
  /\ At(t, "init_ort") /\ CallOnce(t)
  /\ UNCHANGED <<api, mutex, started, threads, pool>>

\* Mutant: the call is not done where there is no function table.
MutGetApi(t) ==
  /\ At(t, "get_api")
  /\ \/ once' = "done" /\ api' = TRUE /\ Goto(t, "tokenizer") /\ UNCHANGED result
     \/ UNCHANGED <<once, api>> /\ End(t, "status")
  /\ UNCHANGED <<mutex, started, threads, pool>>

\* The runtime linked in may not offer the API version this was built against.
GetApi(t) ==
  /\ At(t, "get_api")
  /\ once' = "done"
  /\ \/ api' = TRUE /\ Goto(t, "tokenizer") /\ UNCHANGED result
     \/ UNCHANGED api /\ End(t, "status")
  /\ UNCHANGED <<mutex, started, threads, pool>>

-----------------------------------------------------------------------------
(* make_ort_session and environment                                        *)

LoadTokenizer(t) ==
  /\ At(t, "tokenizer")
  /\ \/ Goto(t, "environment") /\ UNCHANGED result
     \/ \E r \in {"status", "throw"} : End(t, r)
  /\ UNCHANGED <<once, api, mutex, started, threads, pool>>

Lock(t) ==
  /\ At(t, "environment") /\ mutex = NoThread
  /\ mutex' = t /\ Goto(t, "construct")
  /\ UNCHANGED <<once, api, started, threads, pool, result>>

\* Mutant: a lock that only the way out at the end gives back.
MutConstruct(t) ==
  /\ At(t, "construct")
  /\ \/ /\ pool' = IF pool = NoPool THEN threads ELSE pool
        /\ Goto(t, "started")
        /\ UNCHANGED result
     \/ /\ pool = NoPool
        /\ \E r \in {"status", "throw"} : End(t, r)
        /\ UNCHANGED pool
  /\ UNCHANGED <<once, api, mutex, started, threads>>

\* The static local is constructed, unless it already is.  A constructor that throws
\* leaves it for the next thread to try; the guard releases the mutex, and
\* make_ort_session turns an Ort::Exception into a status.
Construct(t) ==
  /\ At(t, "construct")
  /\ \/ /\ pool' = IF pool = NoPool THEN threads ELSE pool
        /\ Goto(t, "started")
        /\ UNCHANGED <<mutex, result>>
     \/ /\ pool = NoPool
        /\ \E r \in {"status", "throw"} : End(t, r)
        /\ mutex' = NoThread
        /\ UNCHANGED pool
  /\ UNCHANGED <<once, api, started, threads>>

\* Mutant: `started` is never set.
MutUnlock(t) ==
  /\ At(t, "started") /\ mutex' = NoThread /\ Goto(t, "session")
  /\ UNCHANGED <<once, api, started, threads, pool, result>>

Unlock(t) ==
  /\ At(t, "started")
  /\ started' = TRUE /\ mutex' = NoThread
  /\ Goto(t, "session")
  /\ UNCHANGED <<once, api, threads, pool, result>>

\* The graph is loaded and its inputs and outputs are looked at.
MakeSession(t) ==
  /\ At(t, "session")
  /\ \E r \in Results \ {"none"} : End(t, r)
  /\ UNCHANGED <<once, api, mutex, started, threads, pool>>

-----------------------------------------------------------------------------
(* configure_runtime                                                       *)

\* Mutant: the size is checked and set without the mutex.
MutMayConfigure(t) == At(t, "idle")

\* A thread configures between its loads, and once it gets the mutex.
MayConfigure(t) == At(t, "idle") /\ mutex = NoThread

\* The calls that return no error.
Accepts(n) == n >= 1 /\ (started => n = threads)

ConfigureRuntime(t, n) ==
  /\ MayConfigure(t) /\ Accepts(n)
  /\ threads' = n
  /\ UNCHANGED <<once, api, mutex, started, pool, pc, result>>

-----------------------------------------------------------------------------
Proceed(t) ==
  \/ Ensure(t) \/ InitOrt(t) \/ GetApi(t) \/ LoadTokenizer(t)
  \/ Construct(t) \/ Unlock(t) \/ MakeSession(t)

Next ==
  \E t \in Threads :
    Load(t) \/ Proceed(t) \/ Lock(t) \/ \E n \in Sizes : ConfigureRuntime(t, n)

\* Threads run, and a mutex that others take again and again is had in the end.
Fairness == \A t \in Threads : WF_vars(Proceed(t)) /\ SF_vars(Lock(t))

Spec == Init /\ [][Next]_vars /\ Fairness

-----------------------------------------------------------------------------
(* Safety                                                                  *)

\* No thread comes to an ONNX Runtime type, and no environment exists, before the
\* function table is there (src/session.cpp:46-47), though another thread may be the
\* one that is fetching it.
NoOrtBeforeApi ==
  /\ \A t \in Threads :
       pc[t] \in {"tokenizer", "environment", "construct", "started", "session"} => api
  /\ pool # NoPool => api

\* The pool has the size that configure_runtime last accepted, before, during and
\* after its construction.
PoolAsConfigured == pool # NoPool => pool = threads

\* Whoever got a session got it from a runtime whose pool is fixed.
SessionFixesPool == (\E t \in Threads : result[t] = "session") => started

\* The lock discipline behind them.
LockInv ==
  /\ \A t \in Threads : mutex = t <=> pc[t] \in {"construct", "started"}
  /\ started => pool # NoPool
  /\ pool # NoPool /\ ~started => \E t \in Threads : pc[t] = "started"
  /\ \A t \in Threads : pc[t] = "started" => pool # NoPool
  /\ \A t \in Threads : pc[t] = "session" => started
  /\ api => once = "done"

\* Over it, configure_runtime and the loads are one setting, fixed when the pool is
\* made.
Setting == INSTANCE RuntimeSetting WITH size <- threads, fixed <- pool # NoPool
ImplementsRuntimeSetting == Setting!Spec

-----------------------------------------------------------------------------
(* Liveness                                                                *)

\* Nobody waits for ever for the function table or for the mutex.
EveryLoadEnds == \A t \in Threads : pc[t] # "idle" ~> pc[t] = "idle"

=============================================================================
