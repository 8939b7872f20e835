---------------------------- MODULE SessionStore ----------------------------
(***************************************************************************)
(* detail::SessionStore (src/session_store.{hpp,cpp}): the process-wide    *)
(* map that hands out shared sessions.  Every open of a model ends in      *)
(* acquire(), called by any number of threads at once.                     *)
(*                                                                         *)
(* A load is named by the value loaded_ takes when it starts; the name     *)
(* stands for the load's promise, for the shared state of its futures and  *)
(* for the session it produces.  0 is an empty weak_ptr or an invalid      *)
(* future.  Each section under mutex_ is one step.  Reference counts are   *)
(* not stored: who owns a session is read off the threads' locals, the     *)
(* shared states and the outstanding handles, as in C++.                   *)
(***************************************************************************)
EXTENDS Integers, FiniteSets

CONSTANTS
  Threads,       \* callers of open()
  Keys,          \* (model, provider, precision) triples
  NoKey,         \* the key of a load that has not started
  LoadOutcomes,  \* how load_session may end
  MaxOpens,      \* bound on the opens that reach the store
  MaxConfigs     \* bound on the calls of configure()

ASSUME StoreAssumption ==
  /\ MaxOpens \in Nat
  /\ MaxConfigs \in Nat
  /\ NoKey \notin Keys
  /\ LoadOutcomes \subseteq {"session", "error", "throw"}

VARIABLES
  entries,   \* entries_: key -> [session: weak_ptr, pending: shared_future]
  shared,    \* shared_
  loaded,    \* loaded_
  config,    \* config_, as the number of configure() calls so far
  model,     \* model[l]: the key load l is for
  cfg,       \* cfg[l]: the configuration load l runs under
  promise,   \* promise[l]: state of the shared state of load l's future
  handles,   \* handles[l]: successful opens of session l still outstanding
  call       \* call[t]: the acquire() thread t is in

vars == <<entries, shared, loaded, config, model, cfg, promise, handles, call>>

Loads == 1..MaxOpens
Ref == 0..MaxOpens

\* An erased entry and one that is empty on both sides are found alike.
NoEntry == [session |-> 0, pending |-> 0]
NoCall == [pc |-> "idle", load |-> 0]

PCs == {"idle", "loading", "publishing", "waiting", "returning"}

TypeOK ==
  /\ entries \in [Keys -> [session : Ref, pending : Ref]]
  /\ shared \in 0..MaxOpens
  /\ loaded \in 0..MaxOpens
  /\ config \in 0..MaxConfigs
  /\ model \in [Loads -> Keys \cup {NoKey}]
  /\ cfg \in [Loads -> 0..MaxConfigs]
  /\ promise \in [Loads -> {"none", "unset", "value", "null", "broken"}]
  /\ handles \in [Loads -> Nat]
  /\ call \in [Threads -> [pc : PCs, load : Ref]]

Init ==
  /\ entries = [k \in Keys |-> NoEntry]
  /\ shared = 0
  /\ loaded = 0
  /\ config = 0
  /\ model = [l \in Loads |-> NoKey]
  /\ cfg = [l \in Loads |-> 0]
  /\ promise = [l \in Loads |-> "none"]
  /\ handles = [l \in Loads |-> 0]
  /\ call = [t \in Threads |-> NoCall]

-----------------------------------------------------------------------------
(* Ownership of a session: std::shared_ptr and std::shared_future.         *)

InCall(t, l) == call[t].pc # "idle" /\ call[t].load = l

\* A local of t, `session` or `out`, owns session l.
HoldsLocally(t, l) ==
  InCall(t, l) /\ promise[l] = "value" /\ call[t].pc \in {"publishing", "returning"}

\* The value set in a promise lives while any future of it does: the one in
\* the entry, or the `pending` (and the loader's `promise`) of a call.
HeldByFuture(l) ==
  /\ promise[l] = "value"
  /\ \/ entries[model[l]].pending = l
     \/ \E t \in Threads : InCall(t, l)

Alive(l) ==
  \/ handles[l] > 0
  \/ \E t \in Threads : HoldsLocally(t, l)
  \/ HeldByFuture(l)

\* shared_ptr::use_count()
UseCount(l) ==
  handles[l] + Cardinality({t \in Threads : HoldsLocally(t, l)})
             + (IF HeldByFuture(l) THEN 1 ELSE 0)

\* weak_ptr::lock() on the entry of k yields a session.
Live(k) == entries[k].session # 0 /\ Alive(entries[k].session)

-----------------------------------------------------------------------------
(* acquire(), first section under mutex_                                   *)

\* Every open adds one to shared_ or loaded_, so this bounds the opens.
Bounded == shared + loaded < MaxOpens

Idle(t) == call[t].pc = "idle"

\* The weak entry locks: the open is served without leaving the section.
LiveHit(t, k) ==
  /\ Bounded /\ Idle(t) /\ Live(k)
  /\ shared' = shared + 1
  /\ handles' = [handles EXCEPT ![entries[k].session] = @ + 1]
  /\ UNCHANGED <<entries, loaded, config, model, cfg, promise, call>>

\* No session, but a future left by a load: wait on it.
Join(t, k) ==
  /\ Bounded /\ Idle(t) /\ ~Live(k) /\ entries[k].pending # 0
  /\ shared' = shared + 1
  /\ call' = [call EXCEPT ![t] = [pc |-> "waiting", load |-> entries[k].pending]]
  /\ UNCHANGED <<entries, loaded, config, model, cfg, promise, handles>>

\* Mutant: the open looks at the weak entry only.
MutIgnoresPending(k) == ~Live(k)

\* Neither: this open builds the session.
MustLoad(k) == ~Live(k) /\ entries[k].pending = 0

Lead(t, k) ==
  /\ Bounded /\ Idle(t) /\ MustLoad(k)
  /\ loaded' = loaded + 1
  /\ model' = [model EXCEPT ![loaded'] = k]
  /\ cfg' = [cfg EXCEPT ![loaded'] = config]
  /\ promise' = [promise EXCEPT ![loaded'] = "unset"]
  /\ entries' = [entries EXCEPT ![k] = [session |-> 0, pending |-> loaded']]
  /\ call' = [call EXCEPT ![t] = [pc |-> "loading", load |-> loaded']]
  /\ UNCHANGED <<shared, config, handles>>

-----------------------------------------------------------------------------
(* acquire(), outside mutex_: load_session and promise->set_value.         *)

EndLoad(t, outcome, state, next) ==
  /\ call[t].pc = "loading"
  /\ outcome \in LoadOutcomes
  /\ promise' = [promise EXCEPT ![call[t].load] = state]
  /\ call' = [call EXCEPT ![t] = next]
  /\ UNCHANGED <<entries, shared, loaded, config, model, cfg, handles>>

\* The call of t, holding the status of its load.
Publishing(t) == [pc |-> "publishing", load |-> call[t].load]

LoadSucceeds(t) == EndLoad(t, "session", "value", Publishing(t))

LoadFails(t) == EndLoad(t, "error", "null", Publishing(t))

\* load_session throws (resolve.cpp:220 takes the throwing fs::exists, and any
\* allocation may fail).  Unwinding acquire destroys the only promise, which
\* stores broken_promise; nothing on this path touches the entry.
LoadThrows(t) == EndLoad(t, "throw", "broken", NoCall)

-----------------------------------------------------------------------------
(* acquire(), second section under mutex_, and the return.                 *)

\* Mutants of AfterLoad: the weak reference is not stored; the future stays in
\* the entry; a failure stays in the entry.
MutForgetsSession(e, l) == NoEntry

MutKeepsFuture(e, l) ==
  IF promise[l] = "null" THEN NoEntry ELSE [session |-> l, pending |-> l]

MutKeepsFailure(e, l) ==
  IF promise[l] = "null" THEN e ELSE [session |-> l, pending |-> 0]

\* The entry e of the key, once load l has been published into it.
AfterLoad(e, l) ==
  IF e = NoEntry THEN e
  ELSE IF promise[l] = "null" THEN NoEntry
  ELSE [session |-> l, pending |-> 0]

Publish(t) ==
  LET l == call[t].load IN
  /\ call[t].pc = "publishing"
  /\ entries' = [entries EXCEPT ![model[l]] = AfterLoad(@, l)]
  /\ call' = [call EXCEPT ![t].pc = "returning"]
  /\ UNCHANGED <<shared, loaded, config, model, cfg, promise, handles>>

\* pending.get() unblocks once the shared state is ready.
Get(t) ==
  /\ call[t].pc = "waiting"
  /\ promise[call[t].load] # "unset"
  /\ call' = [call EXCEPT ![t].pc = "returning"]
  /\ UNCHANGED <<entries, shared, loaded, config, model, cfg, promise, handles>>

\* The call ends: with a handle, with ModelLoadFailed, or with the exception
\* that a broken promise throws out of get().
Return(t) ==
  LET l == call[t].load IN
  /\ call[t].pc = "returning"
  /\ handles' = IF promise[l] = "value" THEN [handles EXCEPT ![l] = @ + 1] ELSE handles
  /\ call' = [call EXCEPT ![t] = NoCall]
  /\ UNCHANGED <<entries, shared, loaded, config, model, cfg, promise>>

-----------------------------------------------------------------------------
(* What callers do besides opening: the last copy of an Embedder goes away, *)
(* and configure_cache().                                                   *)

\* Mutant: the session goes with a moved-from handle too.
MutReleasesTwice(l) ==
  /\ handles[l] > 0
  /\ handles' = [handles EXCEPT ![l] = @ - 2]
  /\ UNCHANGED <<entries, shared, loaded, config, model, cfg, promise, call>>

Release(l) ==
  /\ handles[l] > 0
  /\ handles' = [handles EXCEPT ![l] = @ - 1]
  /\ UNCHANGED <<entries, shared, loaded, config, model, cfg, promise, call>>

Configure ==
  /\ config < MaxConfigs
  /\ config' = config + 1
  /\ UNCHANGED <<entries, shared, loaded, model, cfg, promise, handles, call>>

-----------------------------------------------------------------------------
LoadEnds(t) == LoadSucceeds(t) \/ LoadFails(t) \/ LoadThrows(t)

Acquire(t) == \E k \in Keys : LiveHit(t, k) \/ Join(t, k) \/ Lead(t, k)

\* What a thread inside acquire() does next, whatever its callers do.
Proceed(t) == LoadEnds(t) \/ Publish(t) \/ Get(t) \/ Return(t)

Next ==
  \/ \E t \in Threads : Acquire(t) \/ Proceed(t)
  \/ \E l \in Loads : Release(l)
  \/ Configure

\* A thread inside acquire() is scheduled, and load_session ends: every wait in
\* it has a timeout (resolve.cpp:105-108) and its retries are counted
\* (resolve.cpp:145).  Nobody has to open, release or configure anything.
Fairness == \A t \in Threads : WF_vars(Proceed(t))

Spec == Init /\ [][Next]_vars /\ Fairness

-----------------------------------------------------------------------------
(* Safety                                                                  *)

Leading(t) == call[t].pc \in {"loading", "publishing"}

\* Two opens of one model never build it at the same time, however their
\* lookups, failures and retries interleave (session_store.hpp:30).
SingleFlight ==
  \A t1, t2 \in Threads :
    /\ Leading(t1) /\ Leading(t2)
    /\ model[call[t1].load] = model[call[t2].load]
    => t1 = t2

\* The weights of a model are in memory once: no interleaving of an expiring
\* weak entry with opens and releases leaves two sessions of one key alive
\* (session_store.hpp:16-23).
OneLiveSessionPerKey ==
  \A l1, l2 \in Loads :
    Alive(l1) /\ Alive(l2) /\ model[l1] = model[l2] => l1 = l2

\* loaded(): the listed keys, and the references beside its own local lock.
Listed == {k \in Keys : Live(k)}

ListedHandles(k) == UseCount(entries[k].session)

Settled(k) == \A t \in Threads : Idle(t) \/ model[call[t].load] # k

\* Once no open of a model is under way, loaded_models() lists it exactly when a
\* handle onto it is outstanding, and counts the outstanding handles exactly:
\* nothing keeps the weights beyond use, and no session in use is forgotten.
SettledListingExact ==
  \A k \in Keys : Settled(k) =>
    /\ k \in Listed => /\ ListedHandles(k) = handles[entries[k].session]
                       /\ ListedHandles(k) > 0
    /\ \A l \in Loads : model[l] = k /\ handles[l] > 0
                       => k \in Listed /\ entries[k].session = l

\* A future in an entry always has a thread on its way to fulfil it and to clear
\* it, unless the load threw: a load that fails never condemns later opens of the model.
PendingHasLoader ==
  \A k \in Keys : entries[k].pending # 0 /\ promise[entries[k].pending] # "broken" =>
    \E t \in Threads : Leading(t) /\ call[t].load = entries[k].pending

-----------------------------------------------------------------------------
(* Why the safety properties hold: what every step maintains.              *)

InEntry(l) == entries[model[l]].session = l \/ entries[model[l]].pending = l

\* Loads are numbered as they start, and a load that has not is blank.
LoadInv ==
  \A l \in Loads :
    IF l <= loaded THEN model[l] \in Keys /\ promise[l] # "none"
    ELSE promise[l] = "none" /\ handles[l] = 0

\* Between its two sections a leader's future is what its key's entry holds.
LeaderInv ==
  \A t \in Threads : Leading(t) =>
    /\ call[t].load \in 1..loaded
    /\ entries[model[call[t].load]] = [session |-> 0, pending |-> call[t].load]
    /\ promise[call[t].load] \in IF call[t].pc = "loading" THEN {"unset"} ELSE {"value", "null"}

\* A load has one leader, and the other calls know a load that has started.
CallInv ==
  \A t \in Threads :
    /\ Leading(t) => \A u \in Threads : Leading(u) /\ call[u].load = call[t].load => u = t
    /\ ~Idle(t) => call[t].load \in 1..loaded
    /\ call[t].pc = "returning" => promise[call[t].load] # "unset"

\* An entry holds a session or a future, of a load of its key; the future is the
\* leader's, unless the leader threw.
EntryInv ==
  \A k \in Keys : LET e == entries[k] IN
    /\ e.session # 0 => /\ e.session \in 1..loaded /\ model[e.session] = k
                        /\ e.pending = 0 /\ promise[e.session] = "value"
    /\ e.pending # 0 => /\ e.pending \in 1..loaded /\ model[e.pending] = k
                        /\ \/ promise[e.pending] = "broken"
                           \/ \E t \in Threads : Leading(t) /\ call[t].load = e.pending

\* No session is alive that its key's entry does not lead to.
OwnerInv == \A l \in Loads : Alive(l) => promise[l] = "value" /\ InEntry(l)

\* The invariant that every step preserves: who may be loading, what an entry may
\* point at, and that a session in use is always reachable from its entry.
StoreInv == LoadInv /\ LeaderInv /\ CallInv /\ EntryInv /\ OwnerInv

-----------------------------------------------------------------------------
(* Liveness                                                                *)

\* Every acquire() returns: no waiter is left on a future nobody fulfils.
EveryOpenReturns == \A t \in Threads : ~Idle(t) ~> Idle(t)

-----------------------------------------------------------------------------
(* Refinement of ModelSharing                                              *)

InUse(k) == \E l \in Loads : model[l] = k /\ handles[l] > 0

PhaseOf(k) ==
  IF \E l \in Loads : model[l] = k /\ Alive(l) THEN "live"
  ELSE IF \E l \in Loads : model[l] = k /\ promise[l] = "unset" THEN "loading"
  ELSE "absent"

Sharing == INSTANCE ModelSharing WITH
  phase <- [k \in Keys |-> PhaseOf(k)],
  inUse <- [k \in Keys |-> InUse(k)]

\* The mutex, the weak entries and the futures together implement the promise of
\* ModelSharing: one load at a time, handles only onto a live session, and the
\* weights gone with the last handle.
ImplementsModelSharing == Sharing!Spec

\* The same without fairness: every step is a step of ModelSharing or stutters.
SharingSafety == Sharing!Init /\ [][Sharing!Next]_(Sharing!vars)

-----------------------------------------------------------------------------
(* Statements of the comments that the code does not keep.                 *)

\* "A failure leaves nothing behind, so the next caller retries rather than
\* inheriting a stale error" (session_store.cpp:64): nor does a load that ends by an
\* exception, whose future would throw in whoever joins it.
FailedLoadIsForgotten ==
  \A l \in Loads : promise[l] = "broken" => entries[model[l]].pending # l
=============================================================================
