------------------------ MODULE SessionStoreProofs ------------------------
(***************************************************************************)
(* Proofs about SessionStore, for every number of threads, models and      *)
(* opens and every way load_session may end.                               *)
(***************************************************************************)
EXTENDS SessionStore, FiniteSetTheorems, TLAPS

-----------------------------------------------------------------------------
(* Types                                                                   *)

LEMMA InitType == Init => TypeOK
  BY StoreAssumption DEF Init, TypeOK, NoEntry, NoCall, Loads, Ref, PCs

LEMMA NextType == TypeOK /\ [Next]_vars => TypeOK'
<1> SUFFICES ASSUME TypeOK, [Next]_vars PROVE TypeOK'
  OBVIOUS
<1> USE StoreAssumption DEF Loads, Ref, PCs
<1>1. ASSUME NEW t \in Threads, NEW k \in Keys, LiveHit(t, k) PROVE TypeOK'
  BY <1>1 DEF LiveHit, Bounded, Live, TypeOK
<1>2. ASSUME NEW t \in Threads, NEW k \in Keys, Join(t, k) PROVE TypeOK'
  BY <1>2 DEF Join, Bounded, TypeOK
<1>3. ASSUME NEW t \in Threads, NEW k \in Keys, Lead(t, k) PROVE TypeOK'
  <2>1. loaded' \in Loads /\ loaded' \in 0..MaxOpens
    BY <1>3 DEF Lead, Bounded, TypeOK
  <2>2. model' \in [Loads -> Keys \cup {NoKey}] /\ cfg' \in [Loads -> 0..MaxConfigs]
    BY <1>3, <2>1 DEF Lead, TypeOK
  <2>3. promise' \in [Loads -> {"none", "unset", "value", "null", "broken"}]
    BY <1>3, <2>1 DEF Lead, TypeOK
  <2>4. entries' \in [Keys -> [session : Ref, pending : Ref]]
    BY <1>3, <2>1 DEF Lead, TypeOK
  <2>5. call' \in [Threads -> [pc : PCs, load : Ref]]
    BY <1>3, <2>1 DEF Lead, TypeOK, PCs
  <2> QED
    BY <1>3, <2>1, <2>2, <2>3, <2>4, <2>5 DEF Lead, TypeOK
<1>4. ASSUME NEW t \in Threads, LoadEnds(t) PROVE TypeOK'
  <2>1. promise' \in [Loads -> {"none", "unset", "value", "null", "broken"}]
    BY <1>4 DEF LoadEnds, LoadSucceeds, LoadFails, LoadThrows, EndLoad, TypeOK
  <2>2. call[t].load \in Ref
    BY DEF TypeOK
  <2>3. Publishing(t) \in [pc : PCs, load : Ref] /\ NoCall \in [pc : PCs, load : Ref]
    BY <2>2 DEF Publishing, NoCall
  <2>4. call' \in [Threads -> [pc : PCs, load : Ref]]
    BY <1>4, <2>3 DEF LoadEnds, LoadSucceeds, LoadFails, LoadThrows, EndLoad, TypeOK
  <2> QED
    BY <1>4, <2>1, <2>4 DEF LoadEnds, LoadSucceeds, LoadFails, LoadThrows, EndLoad, TypeOK
<1>5. ASSUME NEW t \in Threads, Publish(t) PROVE TypeOK'
  <2> DEFINE l == call[t].load
  <2>1. ASSUME NEW k \in Keys PROVE AfterLoad(entries[k], l) \in [session : Ref, pending : Ref]
    BY DEF AfterLoad, NoEntry, TypeOK
  <2>2. entries' \in [Keys -> [session : Ref, pending : Ref]]
    BY <1>5, <2>1 DEF Publish, TypeOK
  <2>3. call' \in [Threads -> [pc : PCs, load : Ref]]
    BY <1>5 DEF Publish, TypeOK
  <2> QED
    BY <1>5, <2>2, <2>3 DEF Publish, TypeOK
<1>6. ASSUME NEW t \in Threads, Get(t) PROVE TypeOK'
  BY <1>6 DEF Get, TypeOK
<1>7. ASSUME NEW t \in Threads, Return(t) PROVE TypeOK'
  <2>1. handles' \in [Loads -> Nat]
    <3> DEFINE l == call[t].load
    <3>1. CASE l \in Loads
      BY <1>7, <3>1 DEF Return, TypeOK
    <3>2. CASE l \notin Loads
      BY <1>7, <3>2 DEF Return, TypeOK
    <3> QED
      BY <3>1, <3>2
  <2>2. call' \in [Threads -> [pc : PCs, load : Ref]]
    BY <1>7 DEF Return, NoCall, TypeOK
  <2> QED
    BY <1>7, <2>1, <2>2 DEF Return, TypeOK
<1>8. ASSUME NEW l \in Loads, Release(l) PROVE TypeOK'
  <2>1. handles' \in [Loads -> Nat]
    BY <1>8 DEF Release, TypeOK
  <2> QED
    BY <1>8, <2>1 DEF Release, TypeOK
<1>9. CASE Configure
  BY <1>9 DEF Configure, TypeOK
<1>10. CASE UNCHANGED vars
  BY <1>10 DEF vars, TypeOK
<1> QED
  BY <1>1, <1>2, <1>3, <1>4, <1>5, <1>6, <1>7, <1>8, <1>9, <1>10
     DEF Next, Acquire, Proceed

-----------------------------------------------------------------------------
(* The invariant, action by action                                         *)

LEMMA InitInv == Init => StoreInv
<1> SUFFICES ASSUME Init PROVE StoreInv
  OBVIOUS
<1>1. LoadInv
  BY StoreAssumption DEF Init, LoadInv, Loads
<1>2. LeaderInv /\ CallInv
  BY DEF Init, LeaderInv, CallInv, Leading, Idle, NoCall
<1>3. EntryInv
  BY DEF Init, EntryInv, NoEntry
<1>4. OwnerInv
  BY DEF Init, OwnerInv, Alive, HoldsLocally, HeldByFuture, Loads
<1> QED
  BY <1>1, <1>2, <1>3, <1>4 DEF StoreInv

\* A live entry: its session is a load that succeeded.
LEMMA LiveSession ==
  ASSUME TypeOK, StoreInv, NEW k \in Keys, Live(k)
  PROVE  /\ entries[k].session \in Loads
         /\ entries[k].session <= loaded
         /\ promise[entries[k].session] = "value"
         /\ model[entries[k].session] = k
         /\ entries[k].pending = 0
  BY StoreAssumption DEF Live, TypeOK, StoreInv, EntryInv, Loads, Ref

LEMMA LiveHitInv ==
  ASSUME TypeOK, StoreInv, NEW t \in Threads, NEW k \in Keys, LiveHit(t, k)
  PROVE  StoreInv'
<1> DEFINE s == entries[k].session
<1>1. /\ UNCHANGED <<entries, loaded, model, promise, call>>
      /\ handles' = [handles EXCEPT ![s] = @ + 1]
      /\ Live(k)
  BY DEF LiveHit
<1>2. s \in Loads /\ s <= loaded /\ promise[s] = "value" /\ model[s] = k
  BY <1>1, LiveSession
<1>3. LoadInv'
  BY <1>1, <1>2 DEF StoreInv, LoadInv, TypeOK, Loads
<1>4. LeaderInv' /\ CallInv' /\ EntryInv'
  BY <1>1 DEF StoreInv, LeaderInv, CallInv, EntryInv, Leading, Idle
<1>5. ASSUME NEW l \in Loads, Alive(l)' PROVE Alive(l)
  BY <1>1, <1>2, <1>5 DEF Live, Alive, HoldsLocally, HeldByFuture, InCall, TypeOK
<1>6. OwnerInv'
  BY <1>1, <1>5 DEF StoreInv, OwnerInv, InEntry
<1> QED
  BY <1>3, <1>4, <1>6 DEF StoreInv

LEMMA JoinInv ==
  ASSUME TypeOK, StoreInv, NEW t \in Threads, NEW k \in Keys, Join(t, k)
  PROVE  StoreInv'
<1> DEFINE p == entries[k].pending
<1>1. /\ UNCHANGED <<entries, loaded, model, promise, handles>>
      /\ call' = [call EXCEPT ![t] = [pc |-> "waiting", load |-> p]]
      /\ call[t].pc = "idle" /\ p # 0
  BY DEF Join, Idle
<1>2. p \in Loads /\ p \in 1..loaded /\ model[p] = k
  BY <1>1, StoreAssumption DEF StoreInv, EntryInv, TypeOK, Loads, Ref
<1>3. ASSUME NEW u \in Threads
      PROVE  /\ Leading(u)' <=> Leading(u)
             /\ u # t => call'[u] = call[u]
             /\ u = t => call'[u].pc = "waiting" /\ call'[u].load = p
  BY <1>1 DEF Leading, TypeOK
<1>4. LoadInv'
  BY <1>1 DEF StoreInv, LoadInv
<1>5. LeaderInv'
  BY <1>1, <1>3 DEF StoreInv, LeaderInv, Leading
<1>6. CallInv'
  BY <1>1, <1>2, <1>3 DEF StoreInv, CallInv, Leading, Idle
<1>7. EntryInv'
  BY <1>1, <1>3 DEF StoreInv, EntryInv, Leading
<1>8. ASSUME NEW l \in Loads, Alive(l)' PROVE Alive(l)
  BY <1>1, <1>2, <1>3, <1>8 DEF Alive, HoldsLocally, HeldByFuture, InCall
<1>9. OwnerInv'
  BY <1>1, <1>8 DEF StoreInv, OwnerInv, InEntry
<1> QED
  BY <1>4, <1>5, <1>6, <1>7, <1>9 DEF StoreInv

LEMMA LeadInv ==
  ASSUME TypeOK, StoreInv, NEW t \in Threads, NEW k \in Keys, Lead(t, k)
  PROVE  StoreInv'
<1> DEFINE n == loaded'
<1>1. /\ n = loaded + 1 /\ n \in Loads
      /\ loaded \in Nat
      /\ model' = [model EXCEPT ![n] = k]
      /\ promise' = [promise EXCEPT ![n] = "unset"]
      /\ entries' = [entries EXCEPT ![k] = [session |-> 0, pending |-> n]]
      /\ call' = [call EXCEPT ![t] = [pc |-> "loading", load |-> n]]
      /\ handles' = handles
      /\ call[t].pc = "idle"
  BY StoreAssumption DEF Lead, Bounded, Idle, TypeOK, Loads
<1> HIDE DEF n
<1>2. ASSUME NEW l \in Loads, l <= loaded
      PROVE  model'[l] = model[l] /\ promise'[l] = promise[l] /\ l # n
  BY <1>1, <1>2 DEF TypeOK, Loads
<1>3. /\ model'[n] = k /\ promise'[n] = "unset"
      /\ promise[n] = "none" /\ handles[n] = 0
  BY <1>1 DEF TypeOK, StoreInv, LoadInv
<1>4. ASSUME NEW u \in Threads
      PROVE  /\ Leading(u)' <=> u = t \/ Leading(u)
             /\ u # t => call'[u] = call[u]
             /\ u = t => call'[u].pc = "loading" /\ call'[u].load = n /\ ~Leading(u)
  BY <1>1 DEF Leading, TypeOK
\* Nobody leads the load of k: its entry holds no future.
<1>5. ASSUME NEW u \in Threads, Leading(u)
      PROVE  call[u].load \in Loads /\ call[u].load <= loaded /\ model[call[u].load] # k
  <2>0. /\ call[u].load \in 1..loaded
        /\ entries[model[call[u].load]] = [session |-> 0, pending |-> call[u].load]
    BY <1>5 DEF StoreInv, LeaderInv
  <2>1. call[u].load \in Loads /\ call[u].load <= loaded
    BY <2>0, <1>1, StoreAssumption DEF TypeOK, Loads
  <2>2. entries[model[call[u].load]].pending # 0
    BY <2>0, <1>1
  <2>3. entries[k].pending = 0
    BY DEF Lead, MustLoad
  <2> QED
    BY <2>1, <2>2, <2>3
<1>6. LoadInv'
  <2> SUFFICES ASSUME NEW l \in Loads
               PROVE IF l <= n THEN model'[l] \in Keys /\ promise'[l] # "none"
                     ELSE promise'[l] = "none" /\ handles'[l] = 0
    BY DEF LoadInv, n
  <2>1. CASE l <= loaded
    BY <2>1, <1>1, <1>2 DEF StoreInv, LoadInv, Loads
  <2>2. CASE l = n
    BY <2>2, <1>1, <1>3
  <2>3. CASE l > n
    BY <2>3, <1>1 DEF StoreInv, LoadInv, Loads, TypeOK
  <2> QED
    BY <1>1, <2>1, <2>2, <2>3 DEF Loads
<1>7. LeaderInv'
  <2> SUFFICES ASSUME NEW u \in Threads, Leading(u)'
               PROVE  /\ call'[u].load \in 1..n
                      /\ entries'[model'[call'[u].load]] = [session |-> 0, pending |-> call'[u].load]
                      /\ promise'[call'[u].load] \in
                            IF call'[u].pc = "loading" THEN {"unset"} ELSE {"value", "null"}
    BY DEF LeaderInv, n
  <2>1. CASE u = t
    BY <2>1, <1>1, <1>3, <1>4 DEF TypeOK, Loads
  <2>2. CASE u # t
    <3>1. Leading(u) /\ call'[u] = call[u]
      BY <2>2, <1>4
    <3>2. call[u].load \in Loads /\ call[u].load <= loaded /\ model[call[u].load] # k
      BY <3>1, <1>5
    <3>3. entries'[model[call[u].load]] = entries[model[call[u].load]]
      BY <1>1, <3>2 DEF TypeOK
    <3> QED
      BY <3>1, <3>2, <3>3, <1>1, <1>2 DEF StoreInv, LeaderInv, Loads
  <2> QED
    BY <2>1, <2>2
<1>8. CallInv'
  <2> SUFFICES ASSUME NEW u \in Threads
               PROVE  /\ Leading(u)' => \A w \in Threads :
                           Leading(w)' /\ call'[w].load = call'[u].load => w = u
                      /\ call'[u].pc # "idle" => call'[u].load \in 1..n
                      /\ call'[u].pc = "returning" => promise'[call'[u].load] # "unset"
    BY DEF CallInv, Idle, n
  <2>1. CASE u = t
    BY <2>1, <1>1, <1>4, <1>5 DEF Loads
  <2>2. CASE u # t
    <3>1. call[u].pc # "idle" => call[u].load \in Loads /\ call[u].load <= loaded
      BY StoreAssumption DEF StoreInv, CallInv, Idle, Loads, TypeOK
    <3> QED
      BY <2>2, <3>1, <1>1, <1>2, <1>4, <1>5 DEF StoreInv, CallInv, Loads, Idle
  <2> QED
    BY <2>1, <2>2
<1>9. EntryInv'
  <2> SUFFICES ASSUME NEW j \in Keys
               PROVE  LET e == entries'[j] IN
                      /\ e.session # 0 => /\ e.session \in 1..n /\ model'[e.session] = j
                                          /\ e.pending = 0 /\ promise'[e.session] = "value"
                      /\ e.pending # 0 =>
                           /\ e.pending \in 1..n /\ model'[e.pending] = j
                           /\ \/ promise'[e.pending] = "broken"
                              \/ \E u \in Threads : Leading(u)' /\ call'[u].load = e.pending
    BY DEF EntryInv, n
  <2>1. CASE j = k
    BY <2>1, <1>1, <1>3, <1>4 DEF TypeOK, Loads
  <2>2. CASE j # k
    <3> DEFINE e == entries[j]
    <3>1. entries'[j] = e
      BY <2>2, <1>1 DEF TypeOK
    <3>2. /\ e.session # 0 => e.session \in Loads /\ e.session <= loaded
          /\ e.pending # 0 => e.pending \in Loads /\ e.pending <= loaded
      BY StoreAssumption DEF StoreInv, EntryInv, Loads, TypeOK
    <3> QED
      BY <3>1, <3>2, <1>1, <1>2, <1>4 DEF StoreInv, EntryInv, Loads
  <2> QED
    BY <2>1, <2>2
\* The weak entry has expired, so the load may take its place.
<1>10. ASSUME NEW l \in Loads, Alive(l)' PROVE Alive(l) /\ l <= loaded /\ model[l] # k
  <2>1. l # n
    BY <1>10, <1>3, <1>1, <1>4 DEF Alive, HoldsLocally, HeldByFuture
  <2>2. l <= loaded
    BY <1>10, <2>1, <1>1, <1>3 DEF StoreInv, LoadInv, Alive, HoldsLocally, HeldByFuture, TypeOK, Loads
  <2>3. model'[l] = model[l] /\ promise'[l] = promise[l] /\ model[l] \in Keys
    BY <1>2, <2>2 DEF StoreInv, LoadInv
  <2>4. entries'[model[l]].pending = l => entries[model[l]].pending = l
    BY <1>1, <2>1, <2>3 DEF TypeOK
  <2>5. Alive(l)
    BY <1>10, <2>1, <2>3, <2>4, <1>1, <1>4 DEF Alive, HoldsLocally, HeldByFuture, InCall
  <2>6. model[l] # k
    BY <2>5, <1>1 DEF Lead, MustLoad, Live, StoreInv, OwnerInv, InEntry, Loads
  <2> QED
    BY <2>2, <2>5, <2>6
<1>11. OwnerInv'
  <2> SUFFICES ASSUME NEW l \in Loads, Alive(l)' PROVE promise'[l] = "value" /\ InEntry(l)'
    BY DEF OwnerInv
  <2>1. Alive(l) /\ l <= loaded /\ model[l] # k
    BY <1>10
  <2>2. entries'[model[l]] = entries[model[l]]
    BY <2>1, <1>1 DEF StoreInv, LoadInv, TypeOK
  <2> QED
    BY <2>1, <2>2, <1>2 DEF StoreInv, OwnerInv, InEntry
<1> QED
  BY <1>6, <1>7, <1>8, <1>9, <1>11 DEF StoreInv

LEMMA LoadEndsInv ==
  ASSUME TypeOK, StoreInv, NEW t \in Threads, LoadEnds(t)
  PROVE  StoreInv'
<1> DEFINE l == call[t].load
<1>1. PICK v \in {"value", "null", "broken"} : promise' = [promise EXCEPT ![l] = v]
  BY DEF LoadEnds, LoadSucceeds, LoadFails, LoadThrows, EndLoad
<1>2. /\ UNCHANGED <<entries, loaded, model, handles>>
      /\ call[t].pc = "loading"
      /\ \E next : call' = [call EXCEPT ![t] = next]
  BY DEF LoadEnds, LoadSucceeds, LoadFails, LoadThrows, EndLoad
<1>3. /\ l \in 1..loaded
      /\ entries[model[l]] = [session |-> 0, pending |-> l]
      /\ promise[l] = "unset"
  BY <1>2 DEF StoreInv, LeaderInv, Leading
<1>4. l \in Loads /\ l # 0 /\ model[l] \in Keys
  BY <1>3, StoreAssumption DEF StoreInv, LoadInv, TypeOK, Loads
<1>5. /\ promise'[l] = v
      /\ \A m \in Loads : m # l => promise'[m] = promise[m]
  BY <1>1, <1>4 DEF TypeOK
<1>6. \/ v = "broken" /\ call'[t] = NoCall
      \/ v # "broken" /\ call'[t] = [pc |-> "publishing", load |-> l]
  <2>1. CASE LoadThrows(t)
    BY <2>1, <1>5, <1>4 DEF LoadThrows, EndLoad, TypeOK
  <2>2. CASE LoadSucceeds(t) \/ LoadFails(t)
    BY <2>2, <1>5, <1>4 DEF LoadSucceeds, LoadFails, EndLoad, Publishing, TypeOK
  <2> QED
    BY <2>1, <2>2 DEF LoadEnds
<1>7. \A u \in Threads : u # t => call'[u] = call[u]
  BY <1>2 DEF TypeOK
<1>8. ASSUME NEW u \in Threads, Leading(u), u # t PROVE call[u].load # l
  BY <1>8, <1>2 DEF StoreInv, CallInv, Leading
<1>9. LoadInv'
  BY <1>2, <1>3, <1>4, <1>5 DEF StoreInv, LoadInv, TypeOK, Loads
<1>10. ASSUME NEW u \in Threads, Leading(u)
       PROVE  /\ call[u].load \in 1..loaded /\ call[u].load \in Loads
              /\ entries[model[call[u].load]] = [session |-> 0, pending |-> call[u].load]
              /\ promise[call[u].load] \in
                    IF call[u].pc = "loading" THEN {"unset"} ELSE {"value", "null"}
  <2>1. call[u].load \in 1..loaded
    BY <1>10 DEF StoreInv, LeaderInv
  <2> QED
    BY <1>10, <2>1, StoreAssumption DEF StoreInv, LeaderInv, TypeOK, Loads
<1>11. LeaderInv'
  <2> SUFFICES ASSUME NEW u \in Threads, Leading(u)'
               PROVE  /\ call'[u].load \in 1..loaded
                      /\ entries[model[call'[u].load]] = [session |-> 0, pending |-> call'[u].load]
                      /\ promise'[call'[u].load] \in
                            IF call'[u].pc = "loading" THEN {"unset"} ELSE {"value", "null"}
    BY <1>2 DEF LeaderInv
  <2>1. CASE u = t
    BY <2>1, <1>3, <1>5, <1>6 DEF Leading, NoCall
  <2>2. CASE u # t
    BY <2>2, <1>5, <1>7, <1>8, <1>10 DEF Leading
  <2> QED
    BY <2>1, <2>2
<1>12. CallInv'
  <2> SUFFICES ASSUME NEW u \in Threads
               PROVE  /\ Leading(u)' => \A w \in Threads :
                           Leading(w)' /\ call'[w].load = call'[u].load => w = u
                      /\ call'[u].pc # "idle" => call'[u].load \in 1..loaded
                      /\ call'[u].pc = "returning" => promise'[call'[u].load] # "unset"
    BY <1>2 DEF CallInv, Idle
  <2>1. \A w \in Threads : Leading(w)' => Leading(w) /\ call'[w].load = call[w].load
    BY <1>2, <1>6, <1>7 DEF Leading, NoCall
  <2>2. call[u].pc # "idle" => call[u].load \in 1..loaded /\ call[u].load \in Loads
    BY StoreAssumption DEF StoreInv, CallInv, Idle, Loads, TypeOK
  <2>3. call'[u].pc # "idle" => call'[u].load \in 1..loaded
    BY <2>2, <1>3, <1>6, <1>7 DEF NoCall
  <2>4. call'[u].pc = "returning" => promise'[call'[u].load] # "unset"
    BY <2>2, <1>5, <1>6, <1>7 DEF NoCall, StoreInv, CallInv
  <2> QED
    BY <2>1, <2>3, <2>4 DEF StoreInv, CallInv
<1>13. EntryInv'
  <2> SUFFICES ASSUME NEW j \in Keys
               PROVE  LET e == entries[j] IN
                      /\ e.session # 0 => /\ e.session \in 1..loaded /\ model[e.session] = j
                                          /\ e.pending = 0 /\ promise'[e.session] = "value"
                      /\ e.pending # 0 =>
                           /\ e.pending \in 1..loaded /\ model[e.pending] = j
                           /\ \/ promise'[e.pending] = "broken"
                              \/ \E u \in Threads : Leading(u)' /\ call'[u].load = e.pending
    BY <1>2 DEF EntryInv
  <2> DEFINE e == entries[j]
  <2>1. e.session # 0 => e.session \in Loads /\ promise[e.session] = "value"
    BY StoreAssumption DEF StoreInv, EntryInv, Loads, TypeOK
  <2>2. e.session # 0 => promise'[e.session] = "value"
    BY <2>1, <1>3, <1>5
  <2>3. CASE e.pending = l
    BY <2>3, <2>2, <1>5, <1>6 DEF Leading, StoreInv, EntryInv
  <2>4. CASE e.pending # l
    <3>1. \A u \in Threads : Leading(u) /\ call[u].load = e.pending =>
             Leading(u)' /\ call'[u].load = e.pending
      BY <2>4, <1>7 DEF Leading
    <3>2. e.pending # 0 => e.pending \in Loads
      BY StoreAssumption DEF StoreInv, EntryInv, Loads, TypeOK
    <3> QED
      BY <2>4, <2>2, <3>1, <3>2, <1>5 DEF StoreInv, EntryInv
  <2> QED
    BY <2>3, <2>4
<1>14. OwnerInv'
  <2> SUFFICES ASSUME NEW m \in Loads, Alive(m)' PROVE promise'[m] = "value" /\ InEntry(m)'
    BY DEF OwnerInv
  <2>1. CASE m = l
    <3>1. ~Alive(l)
      BY <1>3, <1>4 DEF StoreInv, OwnerInv
    <3>2. handles[l] = 0
      BY <3>1, <1>4 DEF Alive, TypeOK
    <3>3. promise'[l] = "value"
      BY <2>1, <3>2, <1>2 DEF Alive, HoldsLocally, HeldByFuture
    <3> QED
      BY <2>1, <3>3, <1>2, <1>3 DEF InEntry
  <2>2. CASE m # l
    <3>1. Alive(m)
      BY <2>2, <1>2, <1>5, <1>6, <1>7 DEF Alive, HoldsLocally, HeldByFuture, InCall, NoCall
    <3> QED
      BY <2>2, <3>1, <1>2, <1>5 DEF StoreInv, OwnerInv, InEntry
  <2> QED
    BY <2>1, <2>2
<1> QED
  BY <1>9, <1>11, <1>12, <1>13, <1>14 DEF StoreInv

LEMMA PublishInv ==
  ASSUME TypeOK, StoreInv, NEW t \in Threads, Publish(t)
  PROVE  StoreInv'
<1> DEFINE l == call[t].load
           k == model[l]
<1>1. /\ UNCHANGED <<loaded, model, promise, handles>>
      /\ call[t].pc = "publishing"
      /\ call' = [call EXCEPT ![t].pc = "returning"]
      /\ entries' = [entries EXCEPT ![k] = AfterLoad(@, l)]
  BY DEF Publish
<1>2. /\ l \in 1..loaded
      /\ entries[k] = [session |-> 0, pending |-> l]
      /\ promise[l] \in {"value", "null"}
  BY <1>1 DEF StoreInv, LeaderInv, Leading
<1>3. l \in Loads /\ l # 0 /\ k \in Keys
  BY <1>2, StoreAssumption DEF StoreInv, LoadInv, TypeOK, Loads
<1>4. /\ \A j \in Keys : j # k => entries'[j] = entries[j]
      /\ promise[l] = "value" => entries'[k] = [session |-> l, pending |-> 0]
      /\ promise[l] = "null" => entries'[k] = NoEntry
  <2>1. entries[k] # NoEntry
    BY <1>2, <1>3 DEF NoEntry
  <2>2. entries'[k] = AfterLoad(entries[k], l) /\ \A j \in Keys : j # k => entries'[j] = entries[j]
    BY <1>1, <1>3 DEF TypeOK
  <2> QED
    BY <2>1, <2>2 DEF AfterLoad
<1>5. ASSUME NEW u \in Threads
      PROVE  /\ call'[u].load = call[u].load
             /\ u # t => call'[u] = call[u]
             /\ u = t => call'[u].pc = "returning"
             /\ Leading(u)' <=> u # t /\ Leading(u)
  BY <1>1 DEF TypeOK, Leading
\* Another leader's entry is another key's: this one's future is l's.
<1>6. ASSUME NEW u \in Threads, u # t, Leading(u)
      PROVE  /\ call[u].load \in 1..loaded
             /\ entries'[model[call[u].load]] = [session |-> 0, pending |-> call[u].load]
             /\ promise[call[u].load] \in
                   IF call[u].pc = "loading" THEN {"unset"} ELSE {"value", "null"}
  <2>1. /\ call[u].load \in 1..loaded
        /\ entries[model[call[u].load]] = [session |-> 0, pending |-> call[u].load]
        /\ promise[call[u].load] \in
              IF call[u].pc = "loading" THEN {"unset"} ELSE {"value", "null"}
    BY <1>6 DEF StoreInv, LeaderInv
  <2>2. call[u].load # l
    BY <1>1, <1>6 DEF StoreInv, CallInv, Leading
  <2>3. model[call[u].load] # k
    BY <2>1, <2>2, <1>2
  <2>4. model[call[u].load] \in Keys
    BY <2>1, StoreAssumption DEF StoreInv, LoadInv, TypeOK, Loads
  <2> QED
    BY <2>1, <2>3, <2>4, <1>4
<1>7. LoadInv'
  BY <1>1 DEF StoreInv, LoadInv
<1>8. LeaderInv'
  BY <1>1, <1>5, <1>6 DEF LeaderInv
<1>9. CallInv'
  BY <1>1, <1>2, <1>5 DEF StoreInv, CallInv, Idle
<1>10. EntryInv'
  <2> SUFFICES ASSUME NEW j \in Keys
               PROVE  LET e == entries'[j] IN
                      /\ e.session # 0 => /\ e.session \in 1..loaded /\ model[e.session] = j
                                          /\ e.pending = 0 /\ promise[e.session] = "value"
                      /\ e.pending # 0 =>
                           /\ e.pending \in 1..loaded /\ model[e.pending] = j
                           /\ \/ promise[e.pending] = "broken"
                              \/ \E u \in Threads : Leading(u)' /\ call'[u].load = e.pending
    BY <1>1 DEF EntryInv
  <2>1. CASE j = k
    BY <2>1, <1>2, <1>4 DEF NoEntry
  <2>2. CASE j # k
    <3>1. entries'[j] = entries[j]
      BY <2>2, <1>4
    <3>2. entries[j].pending # 0 => entries[j].pending # l
      BY <2>2 DEF StoreInv, EntryInv
    <3> QED
      BY <3>1, <3>2, <1>5 DEF StoreInv, EntryInv
  <2> QED
    BY <2>1, <2>2
<1>11. OwnerInv'
  <2> SUFFICES ASSUME NEW m \in Loads, Alive(m)' PROVE promise[m] = "value" /\ InEntry(m)'
    BY <1>1 DEF OwnerInv
  <2>1. CASE m = l
    <3>1. promise[l] = "value"
      BY <2>1, <1>1, <1>3 DEF Alive, HoldsLocally, HeldByFuture, StoreInv, OwnerInv, TypeOK
    <3> QED
      BY <2>1, <3>1, <1>1, <1>4, <1>3 DEF InEntry
  <2>2. CASE m # l
    <3>1. promise[m] = "value" /\ model[m] \in Keys
      BY <1>1, StoreAssumption
         DEF Alive, HoldsLocally, HeldByFuture, StoreInv, OwnerInv, LoadInv, TypeOK, Loads
    <3>3. Alive(m)
      BY <2>2, <3>1, <1>1, <1>2, <1>3, <1>4, <1>5
         DEF Alive, HoldsLocally, HeldByFuture, InCall, NoEntry, Loads
    <3>4. InEntry(m)
      BY <3>3 DEF StoreInv, OwnerInv
    <3>5. model[m] # k
      BY <2>2, <3>4, <1>2, <1>3 DEF InEntry, Loads
    <3> QED
      BY <3>1, <3>4, <3>5, <1>1, <1>4 DEF InEntry
  <2> QED
    BY <2>1, <2>2
<1> QED
  BY <1>7, <1>8, <1>9, <1>10, <1>11 DEF StoreInv

LEMMA GetInv ==
  ASSUME TypeOK, StoreInv, NEW t \in Threads, Get(t)
  PROVE  StoreInv'
<1>1. /\ UNCHANGED <<entries, loaded, model, promise, handles>>
      /\ call[t].pc = "waiting" /\ promise[call[t].load] # "unset"
  BY DEF Get
<1>2. ASSUME NEW u \in Threads
      PROVE  /\ call'[u].load = call[u].load
             /\ u # t => call'[u] = call[u]
             /\ u = t => call'[u].pc = "returning"
             /\ Leading(u)' <=> Leading(u)
  BY <1>1 DEF Get, TypeOK, Leading
<1>3. LoadInv' /\ EntryInv'
  BY <1>1, <1>2 DEF StoreInv, LoadInv, EntryInv
<1>4. LeaderInv'
  BY <1>1, <1>2 DEF StoreInv, LeaderInv, Leading
<1>5. CallInv'
  BY <1>1, <1>2 DEF StoreInv, CallInv, Idle
<1>6. ASSUME NEW l \in Loads, Alive(l)' PROVE Alive(l)
  BY <1>1, <1>2, <1>6 DEF Alive, HoldsLocally, HeldByFuture, InCall
<1>7. OwnerInv'
  BY <1>1, <1>6 DEF StoreInv, OwnerInv, InEntry
<1> QED
  BY <1>3, <1>4, <1>5, <1>7 DEF StoreInv

LEMMA ReturnInv ==
  ASSUME TypeOK, StoreInv, NEW t \in Threads, Return(t)
  PROVE  StoreInv'
<1> DEFINE l == call[t].load
<1>1. /\ UNCHANGED <<entries, loaded, model, promise>>
      /\ call[t].pc = "returning"
      /\ call' = [call EXCEPT ![t] = NoCall]
      /\ handles' = IF promise[l] = "value" THEN [handles EXCEPT ![l] = @ + 1] ELSE handles
  BY DEF Return
<1>2. l \in 1..loaded /\ l \in Loads
  BY <1>1, StoreAssumption DEF StoreInv, CallInv, Idle, TypeOK, Loads
<1>3. ASSUME NEW u \in Threads
      PROVE  /\ u # t => call'[u] = call[u]
             /\ u = t => call'[u].pc = "idle"
             /\ Leading(u)' <=> Leading(u)
  BY <1>1 DEF TypeOK, Leading, NoCall
<1>4. LoadInv'
  BY <1>1, <1>2 DEF StoreInv, LoadInv, TypeOK, Loads
<1>5. EntryInv'
  BY <1>1, <1>3 DEF StoreInv, EntryInv, Leading
<1>6. LeaderInv'
  BY <1>1, <1>3 DEF StoreInv, LeaderInv, Leading
<1>7. CallInv'
  BY <1>1, <1>3 DEF StoreInv, CallInv, Idle, Leading
\* The handle given out takes over the session the call held.
<1>8. ASSUME NEW m \in Loads, Alive(m)' PROVE Alive(m)
  <2>1. CASE m = l /\ promise[l] = "value"
    BY <2>1, <1>1 DEF Alive, HoldsLocally, InCall
  <2>2. CASE ~(m = l /\ promise[l] = "value")
    <3>1. handles'[m] = handles[m]
      BY <2>2, <1>1, <1>2 DEF TypeOK
    <3> QED
      BY <3>1, <1>8, <1>1, <1>3 DEF Alive, HoldsLocally, HeldByFuture, InCall
  <2> QED
    BY <2>1, <2>2
<1>9. OwnerInv'
  BY <1>1, <1>8 DEF StoreInv, OwnerInv, InEntry
<1> QED
  BY <1>4, <1>5, <1>6, <1>7, <1>9 DEF StoreInv

LEMMA ReleaseInv ==
  ASSUME TypeOK, StoreInv, NEW l \in Loads, Release(l)
  PROVE  StoreInv'
<1>1. /\ UNCHANGED <<entries, loaded, model, promise, call>>
      /\ handles[l] > 0 /\ handles' = [handles EXCEPT ![l] = @ - 1]
  BY DEF Release
<1>2. LoadInv'
  BY <1>1 DEF StoreInv, LoadInv, TypeOK, Loads
<1>3. LeaderInv' /\ CallInv' /\ EntryInv'
  BY <1>1 DEF StoreInv, LeaderInv, CallInv, EntryInv, Leading, Idle
<1>4. ASSUME NEW m \in Loads, Alive(m)' PROVE Alive(m)
  BY <1>1, <1>4 DEF Alive, HoldsLocally, HeldByFuture, InCall, TypeOK
<1>5. OwnerInv'
  BY <1>1, <1>4 DEF StoreInv, OwnerInv, InEntry
<1> QED
  BY <1>2, <1>3, <1>5 DEF StoreInv

LEMMA IdleInv ==
  ASSUME StoreInv, Configure \/ UNCHANGED vars
  PROVE  StoreInv'
<1>1. UNCHANGED <<entries, loaded, model, promise, handles, call>>
  BY DEF Configure, vars
<1> QED
  BY <1>1 DEF StoreInv, LoadInv, LeaderInv, CallInv, EntryInv, OwnerInv, InEntry,
              Alive, HoldsLocally, HeldByFuture, InCall, Leading, Idle

LEMMA NextInv == TypeOK /\ StoreInv /\ [Next]_vars => StoreInv'
BY LiveHitInv, JoinInv, LeadInv, LoadEndsInv, PublishInv, GetInv, ReturnInv, ReleaseInv, IdleInv
   DEF Next, Acquire, Proceed

-----------------------------------------------------------------------------
(* What the invariant says                                                 *)

LEMMA InvSingleFlight == StoreInv => SingleFlight
<1> SUFFICES ASSUME StoreInv, NEW t \in Threads, NEW u \in Threads,
                    Leading(t), Leading(u), model[call[t].load] = model[call[u].load]
             PROVE  t = u
  BY DEF SingleFlight
<1>1. /\ entries[model[call[t].load]] = [session |-> 0, pending |-> call[t].load]
      /\ entries[model[call[u].load]] = [session |-> 0, pending |-> call[u].load]
  BY DEF StoreInv, LeaderInv
<1>2. call[t].load = call[u].load
  BY <1>1
<1> QED
  BY <1>2 DEF StoreInv, CallInv

\* A session's entry names it, and an entry names one session.
LEMMA EntryNamesOne ==
  ASSUME TypeOK, StoreInv, NEW l1 \in Loads, NEW l2 \in Loads,
         Alive(l1), Alive(l2), model[l1] = model[l2]
  PROVE  l1 = l2
<1>1. /\ promise[l1] = "value" /\ InEntry(l1)
      /\ promise[l2] = "value" /\ InEntry(l2)
  BY DEF StoreInv, OwnerInv
<1>2. model[l1] \in Keys /\ l1 # 0 /\ l2 # 0
  BY <1>1, StoreAssumption DEF StoreInv, LoadInv, TypeOK, Loads
<1> QED
  BY <1>1, <1>2 DEF StoreInv, EntryInv, InEntry

LEMMA InvOneLive == TypeOK /\ StoreInv => OneLiveSessionPerKey
  BY EntryNamesOne DEF OneLiveSessionPerKey

LEMMA InvSettledListing == TypeOK /\ StoreInv => SettledListingExact
<1>1. ASSUME TypeOK, StoreInv, NEW k \in Keys, Settled(k), k \in Listed
      PROVE  /\ ListedHandles(k) = handles[entries[k].session]
             /\ ListedHandles(k) > 0
  <2> DEFINE s == entries[k].session
  <2>1. /\ s \in Loads /\ promise[s] = "value" /\ model[s] = k
        /\ entries[k].pending = 0 /\ Alive(s)
    BY <1>1, LiveSession DEF Listed, Live
  <2>2. \A t \in Threads : ~InCall(t, s)
    BY <1>1, <2>1 DEF Settled, InCall, Idle
  <2>3. ~HeldByFuture(s) /\ {t \in Threads : HoldsLocally(t, s)} = {}
    BY <2>1, <2>2 DEF HeldByFuture, HoldsLocally, Loads
  <2>4. UseCount(s) = handles[s]
    <3>1. UseCount(s) = handles[s] + 0 + 0
      BY <2>3, FS_EmptySet DEF UseCount
    <3>2. handles[s] \in Nat
      BY <1>1, <2>1 DEF TypeOK
    <3> QED
      BY <3>1, <3>2
  <2>5. handles[s] > 0
    BY <2>1, <2>3 DEF Alive
  <2> QED
    BY <2>4, <2>5 DEF ListedHandles
<1>2. ASSUME TypeOK, StoreInv, NEW k \in Keys, Settled(k),
             NEW l \in Loads, model[l] = k, handles[l] > 0
      PROVE  k \in Listed /\ entries[k].session = l
  <2>1. Alive(l)
    BY <1>2 DEF Alive
  <2>2. promise[l] = "value" /\ InEntry(l) /\ l # 0
    BY <1>2, <2>1 DEF StoreInv, OwnerInv, Loads
  <2>3. entries[k].pending # l
    BY <1>2, <2>2 DEF StoreInv, EntryInv, Settled, Leading, Idle
  <2>4. entries[k].session = l
    BY <1>2, <2>2, <2>3 DEF InEntry
  <2> QED
    BY <2>1, <2>2, <2>4 DEF Listed, Live
<1> QED
  BY <1>1, <1>2 DEF SettledListingExact

LEMMA InvPendingHasLoader == StoreInv => PendingHasLoader
  BY DEF StoreInv, EntryInv, PendingHasLoader

-----------------------------------------------------------------------------
(* Theorems.  None of them needs fairness, so they are stated of the steps *)
(* alone: what is shown to take a store's steps and no others (Embedder,   *)
(* Opening) has them too.                                                  *)

StoreSteps == Init /\ [][Next]_vars

\* The strengthening from which the safety properties follow, with the types.
THEOREM InvariantHolds == StoreSteps => [](TypeOK /\ StoreInv)
<1>1. TypeOK /\ StoreInv /\ [Next]_vars => TypeOK' /\ StoreInv'
  BY NextType, NextInv
<1> QED
  BY <1>1, InitType, InitInv, PTL DEF StoreSteps

\* What is safe about a store.
StoreSafety ==
  SingleFlight /\ OneLiveSessionPerKey /\ SettledListingExact /\ PendingHasLoader

\* Whatever takes a store's steps has one load of a model at a time, one session of it,
\* a listing that is exact where no open is under way, and no future left behind.
THEOREM StoreIsSafe == StoreSteps => []StoreSafety
<1>1. TypeOK /\ StoreInv => StoreSafety
  BY InvSingleFlight, InvOneLive, InvSettledListing, InvPendingHasLoader DEF StoreSafety
<1> QED
  BY <1>1, InvariantHolds, PTL

\* Every variable keeps its type, the handles never going below zero.
THEOREM TypeCorrect == Spec => []TypeOK
  BY InvariantHolds, PTL DEF Spec, StoreSteps

\* The inductive invariant, of the store alone.
THEOREM InvariantCorrect == Spec => []StoreInv
  BY InvariantHolds, PTL DEF Spec, StoreSteps

\* However many threads open a model, at most one of them is building it.
THEOREM SingleFlightCorrect == Spec => []SingleFlight
<1>1. StoreInv => SingleFlight
  BY InvSingleFlight
<1> QED
  BY <1>1, InvariantCorrect, PTL

\* The weights of a model are never in memory twice.
THEOREM OneLiveSessionCorrect == Spec => []OneLiveSessionPerKey
<1>1. TypeOK /\ StoreInv => OneLiveSessionPerKey
  BY InvOneLive
<1> QED
  BY <1>1, TypeCorrect, InvariantCorrect, PTL

\* With no open of a model under way, loaded_models() tells exactly which handles
\* are outstanding.
THEOREM SettledListingCorrect == Spec => []SettledListingExact
<1>1. TypeOK /\ StoreInv => SettledListingExact
  BY InvSettledListing
<1> QED
  BY <1>1, TypeCorrect, InvariantCorrect, PTL

\* A future in an entry, unless a load that threw has broken it, is always about to be
\* fulfilled and cleared by the thread that leads the load.
THEOREM PendingHasLoaderCorrect == Spec => []PendingHasLoader
<1>1. StoreInv => PendingHasLoader
  BY InvPendingHasLoader
<1> QED
  BY <1>1, InvariantCorrect, PTL

-----------------------------------------------------------------------------
(* Refinement of ModelSharing: every behaviour of SessionStore is, through *)
(* PhaseOf and InUse, one of ModelSharing; initial states map to initial   *)
(* states and every step to a step or a stutter.                           *)

\* A load that is running has a thread running it.
UnsetInv ==
  \A l \in Loads : promise[l] = "unset" =>
    \E t \in Threads : call[t].pc = "loading" /\ call[t].load = l

LEMMA NextUnset == TypeOK /\ StoreInv /\ UnsetInv /\ [Next]_vars => UnsetInv'
<1> SUFFICES ASSUME TypeOK, StoreInv, UnsetInv, [Next]_vars PROVE UnsetInv'
  OBVIOUS
<1>1. ASSUME NEW t \in Threads, NEW k \in Keys, LiveHit(t, k) PROVE UnsetInv'
  BY <1>1 DEF LiveHit, UnsetInv
<1>2. ASSUME NEW t \in Threads, NEW k \in Keys, Join(t, k) PROVE UnsetInv'
  BY <1>2 DEF Join, Idle, UnsetInv, TypeOK
<1>3. ASSUME NEW t \in Threads, NEW k \in Keys, Lead(t, k) PROVE UnsetInv'
  BY <1>3 DEF Lead, Idle, UnsetInv, TypeOK
<1>4. ASSUME NEW t \in Threads, LoadEnds(t) PROVE UnsetInv'
  <2>1. PICK v \in {"value", "null", "broken"} :
             promise' = [promise EXCEPT ![call[t].load] = v]
    BY <1>4 DEF LoadEnds, LoadSucceeds, LoadFails, LoadThrows, EndLoad
  <2>2. \A u \in Threads : u # t => call'[u] = call[u]
    BY <1>4 DEF LoadEnds, LoadSucceeds, LoadFails, LoadThrows, EndLoad, TypeOK
  <2> QED
    BY <2>1, <2>2 DEF UnsetInv, TypeOK
<1>5. ASSUME NEW t \in Threads, Publish(t) PROVE UnsetInv'
  BY <1>5 DEF Publish, UnsetInv, TypeOK
<1>6. ASSUME NEW t \in Threads, Get(t) PROVE UnsetInv'
  BY <1>6 DEF Get, UnsetInv, TypeOK
<1>7. ASSUME NEW t \in Threads, Return(t) PROVE UnsetInv'
  BY <1>7 DEF Return, UnsetInv, TypeOK
<1>8. ASSUME NEW l \in Loads, Release(l) PROVE UnsetInv'
  BY <1>8 DEF Release, UnsetInv
<1>9. CASE Configure \/ UNCHANGED vars
  BY <1>9 DEF Configure, vars, UnsetInv
<1> QED
  BY <1>1, <1>2, <1>3, <1>4, <1>5, <1>6, <1>7, <1>8, <1>9 DEF Next, Acquire, Proceed

THEOREM UnsetCorrect == StoreSteps => []UnsetInv
<1>1. Init => UnsetInv
  BY DEF Init, UnsetInv
<1>2. TypeOK /\ StoreInv /\ UnsetInv /\ [Next]_vars => UnsetInv'
  BY NextUnset
<1> QED
  BY <1>1, <1>2, InvariantHolds, PTL DEF StoreSteps

-----------------------------------------------------------------------------
(* What the phase of a model says of its loads.                            *)

Running(l) == promise[l] = "unset"

\* A running load is what its key's entry waits for.
LEMMA RunningInEntry ==
  ASSUME TypeOK, StoreInv, UnsetInv, NEW l \in Loads, Running(l)
  PROVE  entries[model[l]] = [session |-> 0, pending |-> l] /\ model[l] \in Keys
<1>1. PICK t \in Threads : call[t].pc = "loading" /\ call[t].load = l
  BY DEF UnsetInv, Running
<1>2. l \in 1..loaded /\ entries[model[l]] = [session |-> 0, pending |-> l]
  BY <1>1 DEF StoreInv, LeaderInv, Leading
<1> QED
  BY <1>2, StoreAssumption DEF StoreInv, LoadInv, TypeOK

\* So a model is never live and loading at once, and runs one load.
LEMMA RunningAlone ==
  ASSUME TypeOK, StoreInv, UnsetInv,
         NEW l \in Loads, NEW m \in Loads, Running(l), Running(m) \/ Alive(m),
         model[l] = model[m]
  PROVE  m = l /\ ~Alive(m)
<1>1. entries[model[l]] = [session |-> 0, pending |-> l]
  BY RunningInEntry
<1>2. Alive(m) => InEntry(m) /\ promise[m] = "value"
  BY DEF StoreInv, OwnerInv
<1>3. CASE Running(m)
  <2>1. entries[model[m]] = [session |-> 0, pending |-> m]
    BY <1>3, RunningInEntry
  <2> QED
    BY <1>1, <1>2, <1>3, <2>1 DEF Running
<1>4. CASE Alive(m)
  BY <1>1, <1>2, <1>4 DEF InEntry, Running, Loads
<1> QED
  BY <1>3, <1>4

LEMMA PhaseCases ==
  ASSUME NEW k \in Keys
  PROVE  /\ PhaseOf(k) = "live" <=> \E l \in Loads : model[l] = k /\ Alive(l)
         /\ PhaseOf(k) = "loading" <=> /\ \A l \in Loads : model[l] = k => ~Alive(l)
                                      /\ \E l \in Loads : model[l] = k /\ Running(l)
         /\ PhaseOf(k) = "absent" <=>
              \A l \in Loads : model[l] = k => ~Alive(l) /\ ~Running(l)
BY DEF PhaseOf, Running

LEMMA PhaseCasesNext ==
  ASSUME NEW k \in Keys
  PROVE  /\ PhaseOf(k)' = "live" <=> \E l \in Loads : model'[l] = k /\ Alive(l)'
         /\ PhaseOf(k)' = "loading" <=> /\ \A l \in Loads : (model'[l] = k => ~Alive(l)')
                                       /\ \E l \in Loads : (model'[l] = k /\ Running(l)')
         /\ PhaseOf(k)' = "absent" <=>
              \A l \in Loads : (model'[l] = k => ~Alive(l)' /\ ~Running(l)')
BY DEF PhaseOf, Running

\* What a step has to show of the models it leaves alone.
Untouched(k) == PhaseOf(k)' = PhaseOf(k) /\ InUse(k)' = InUse(k)

Phases == [k \in Keys |-> PhaseOf(k)]
Uses == [k \in Keys |-> InUse(k)]

LEMMA UntouchedStutters ==
  ASSUME \A k \in Keys : Untouched(k)
  PROVE  UNCHANGED Sharing!vars
<1>1. Phases' = Phases /\ Uses' = Uses
  BY DEF Phases, Uses, Untouched
<1> QED
  BY <1>1 DEF Sharing!vars, Phases, Uses

\* A step that touches k only is described by what becomes of k.
LEMMA OneTouched ==
  ASSUME NEW k \in Keys, \A j \in Keys : j # k => Untouched(j)
  PROVE  /\ Phases' = [Phases EXCEPT ![k] = PhaseOf(k)']
         /\ Uses' = [Uses EXCEPT ![k] = InUse(k)']
BY DEF Phases, Uses, Untouched

\* Steps that leave every session as alive as it was are invisible above.
LEMMA SameLoads ==
  ASSUME UNCHANGED <<model, handles>>,
         \A l \in Loads : (Alive(l)' <=> Alive(l)) /\ (Running(l)' <=> Running(l))
  PROVE  \A k \in Keys : Untouched(k)
BY DEF Untouched, PhaseOf, InUse, Running

-----------------------------------------------------------------------------
(* The steps                                                               *)

LEMMA GiveStep ==
  ASSUME NEW k \in Keys, PhaseOf(k) = "live", PhaseOf(k)' = "live", InUse(k)',
         \A j \in Keys : j # k => Untouched(j)
  PROVE  Sharing!Next
<1>1. Uses' = [Uses EXCEPT ![k] = TRUE] /\ Phases' = [Phases EXCEPT ![k] = "live"]
  BY OneTouched DEF InUse
<1>2. Phases' = Phases
  BY <1>1 DEF Phases
<1>3. Sharing!Give(k)
  BY <1>1, <1>2 DEF Sharing!Give, Phases, Uses
<1> QED
  BY <1>3 DEF Sharing!Next

LEMMA LiveHitStep ==
  ASSUME TypeOK, StoreInv, NEW t \in Threads, NEW k \in Keys, LiveHit(t, k)
  PROVE  Sharing!Next
<1> DEFINE s == entries[k].session
<1>1. /\ UNCHANGED <<entries, model, promise, call>>
      /\ handles' = [handles EXCEPT ![s] = @ + 1]
      /\ Live(k)
  BY DEF LiveHit
<1>2. s \in Loads /\ promise[s] = "value" /\ model[s] = k
  BY <1>1, LiveSession
<1>3. Alive(s) /\ handles[s] \in Nat
  BY <1>1, <1>2 DEF Live, TypeOK
<1>4. handles'[s] > 0 /\ \A l \in Loads : l # s => handles'[l] = handles[l]
  BY <1>1, <1>2, <1>3 DEF TypeOK
<1>5. ASSUME NEW l \in Loads PROVE (Alive(l)' <=> Alive(l)) /\ (Running(l)' <=> Running(l))
  BY <1>1, <1>3, <1>4 DEF Alive, HoldsLocally, HeldByFuture, InCall, Running
<1>6. ASSUME NEW j \in Keys PROVE PhaseOf(j)' = PhaseOf(j)
  BY <1>1, <1>5 DEF PhaseOf, Running
<1>7. ASSUME NEW j \in Keys, j # k PROVE InUse(j)' = InUse(j)
  BY <1>1, <1>2, <1>4, <1>7 DEF InUse
<1>8. InUse(k)' /\ PhaseOf(k) = "live"
  BY <1>1, <1>2, <1>3, <1>4 DEF InUse, PhaseOf
<1> QED
  BY <1>6, <1>7, <1>8, GiveStep DEF Untouched

LEMMA QuietStep ==
  ASSUME TypeOK, StoreInv, NEW t \in Threads,
         (\E k \in Keys : Join(t, k)) \/ Get(t) \/ Publish(t)
  PROVE  UNCHANGED Sharing!vars
<1>1. UNCHANGED <<model, promise, handles>>
  BY DEF Join, Get, Publish
<1>2. CASE \E k \in Keys : Join(t, k)
  <2>1. PICK k \in Keys : Join(t, k)
    BY <1>2
  <2> DEFINE p == entries[k].pending
  <2>2. /\ UNCHANGED entries /\ call' = [call EXCEPT ![t] = [pc |-> "waiting", load |-> p]]
        /\ call[t].pc = "idle" /\ p # 0 /\ model[p] = k
    BY <2>1 DEF Join, Idle, StoreInv, EntryInv
  <2>3. ASSUME NEW u \in Threads
        PROVE  /\ u # t => call'[u] = call[u]
               /\ u = t => call'[u].pc = "waiting" /\ call'[u].load = p
    BY <2>2 DEF TypeOK
  <2>4. ASSUME NEW l \in Loads PROVE (Alive(l)' <=> Alive(l))
    BY <1>1, <2>2, <2>3 DEF Alive, HoldsLocally, HeldByFuture, InCall
  <2> QED
    BY <1>1, <2>4, SameLoads, UntouchedStutters DEF Running
<1>3. CASE Get(t)
  <2>1. UNCHANGED entries /\ call[t].pc = "waiting"
    BY <1>3 DEF Get
  <2>2. ASSUME NEW u \in Threads
        PROVE  /\ call'[u].load = call[u].load
               /\ u # t => call'[u] = call[u]
               /\ u = t => call'[u].pc = "returning"
    BY <1>3 DEF Get, TypeOK
  <2>3. ASSUME NEW l \in Loads PROVE (Alive(l)' <=> Alive(l))
    BY <1>1, <2>1, <2>2 DEF Alive, HoldsLocally, HeldByFuture, InCall
  <2> QED
    BY <1>1, <2>3, SameLoads, UntouchedStutters DEF Running
<1>4. CASE Publish(t)
  <2> DEFINE l == call[t].load
             k == model[l]
  <2>1. /\ call[t].pc = "publishing" /\ l \in 1..loaded
        /\ entries[k] = [session |-> 0, pending |-> l]
    BY <1>4 DEF Publish, StoreInv, LeaderInv, Leading
  <2>2. l \in Loads /\ k \in Keys
    BY <2>1, StoreAssumption DEF StoreInv, LoadInv, TypeOK, Loads
  <2>3. ASSUME NEW u \in Threads
        PROVE  /\ call'[u].load = call[u].load
               /\ u # t => call'[u] = call[u]
               /\ u = t => call'[u].pc = "returning"
    BY <1>4 DEF Publish, TypeOK
  <2>4. /\ \A j \in Keys : j # k => entries'[j] = entries[j]
        /\ entries'[k].pending = 0
    <3>1. entries'[k] = AfterLoad(entries[k], l) /\ \A j \in Keys : j # k => entries'[j] = entries[j]
      BY <1>4, <2>2 DEF Publish, TypeOK
    <3>2. AfterLoad(entries[k], l).pending = 0
      BY <2>1 DEF AfterLoad, NoEntry
    <3> QED
      BY <3>1, <3>2
  <2>5. ASSUME NEW m \in Loads PROVE (Alive(m)' <=> Alive(m))
    <3>1. CASE m = l
      BY <1>1, <2>1, <2>3, <3>1 DEF Alive, HoldsLocally, HeldByFuture, InCall
    <3>2. CASE m # l
      <4>1. promise[m] = "value" => model[m] \in Keys
        BY StoreAssumption DEF StoreInv, LoadInv, TypeOK
      <4>2. promise[m] = "value" =>
              (entries'[model[m]].pending = m <=> entries[model[m]].pending = m)
        BY <2>1, <2>4, <3>2, <4>1 DEF Loads
      <4> QED
        BY <1>1, <2>1, <2>3, <3>2, <4>2 DEF Alive, HoldsLocally, HeldByFuture, InCall
    <3> QED
      BY <3>1, <3>2
  <2> QED
    BY <1>1, <2>5, SameLoads, UntouchedStutters DEF Running
<1> QED
  BY <1>2, <1>3, <1>4

LEMMA LeadStep ==
  ASSUME TypeOK, StoreInv, UnsetInv, NEW t \in Threads, NEW k \in Keys, Lead(t, k)
  PROVE  Sharing!Next
<1>0. PICK n \in Loads : n = loaded'
  BY StoreAssumption DEF Lead, Bounded, TypeOK, Loads
<1>1. /\ n = loaded + 1 /\ loaded \in Nat
      /\ model' = [model EXCEPT ![n] = k]
      /\ promise' = [promise EXCEPT ![n] = "unset"]
      /\ entries' = [entries EXCEPT ![k] = [session |-> 0, pending |-> n]]
      /\ call' = [call EXCEPT ![t] = [pc |-> "loading", load |-> n]]
      /\ handles' = handles
      /\ call[t].pc = "idle"
      /\ ~Live(k) /\ entries[k].pending = 0
  BY <1>0, StoreAssumption DEF Lead, MustLoad, Bounded, Idle, TypeOK, Loads
<1>2. /\ model'[n] = k /\ promise'[n] = "unset" /\ promise[n] = "none" /\ handles[n] = 0
      /\ \A l \in Loads : l # n => model'[l] = model[l] /\ promise'[l] = promise[l]
  BY <1>1 DEF TypeOK, StoreInv, LoadInv
\* A load not yet started is of no key.
<1>3. /\ ~Alive(n) /\ ~Alive(n)' /\ ~Running(n) /\ Running(n)'
  BY <1>1, <1>2 DEF Alive, HoldsLocally, HeldByFuture, Running
<1>4. ASSUME NEW l \in Loads, promise[l] = "value"
      PROVE  l # n /\ model[l] \in Keys
  BY <1>4, <1>2, StoreAssumption DEF StoreInv, LoadInv, TypeOK
<1>5. ASSUME NEW l \in Loads, l # n PROVE (Alive(l)' <=> Alive(l)) /\ (Running(l)' <=> Running(l))
  <2>1. promise[l] = "value" =>
          (entries'[model[l]].pending = l <=> entries[model[l]].pending = l)
    BY <1>1, <1>4, <1>5 DEF TypeOK, Loads
  <2>2. \A u \in Threads : /\ u # t => call'[u] = call[u]
                           /\ u = t => call'[u].load = n
    BY <1>1 DEF TypeOK
  <2>3. (Alive(l)' <=> Alive(l))
    BY <1>1, <1>2, <1>5, <2>1, <2>2 DEF Alive, HoldsLocally, HeldByFuture, InCall
  <2> QED
    BY <1>2, <1>5, <2>3 DEF Running
<1>6. ASSUME NEW j \in Keys, j # k PROVE Untouched(j)
  <2>1. \A l \in Loads : (model'[l] = j /\ Alive(l)') <=> (model[l] = j /\ Alive(l))
    BY <1>1, <1>2, <1>3, <1>5, <1>6
  <2>2. \A l \in Loads : (model'[l] = j /\ Running(l)') <=> (model[l] = j /\ Running(l))
    BY <1>1, <1>2, <1>3, <1>5, <1>6
  <2>3. \A l \in Loads : (model'[l] = j /\ handles'[l] > 0) <=> (model[l] = j /\ handles[l] > 0)
    BY <1>1, <1>2, <1>6
  <2> QED
    BY <2>1, <2>2, <2>3 DEF Untouched, PhaseOf, InUse, Running
\* Nothing of k was alive or running.
<1>7. ASSUME NEW l \in Loads, model[l] = k PROVE ~Alive(l) /\ ~Running(l)
  <2>1. ~Alive(l)
    BY <1>1, <1>7 DEF Live, StoreInv, OwnerInv, InEntry, Loads
  <2>2. ~Running(l)
    <3>1. Running(l) => entries[k] = [session |-> 0, pending |-> l]
      BY <1>7, RunningInEntry
    <3> QED
      BY <1>1, <3>1 DEF Loads
  <2> QED
    BY <2>1, <2>2
<1>8. PhaseOf(k) = "absent"
  BY <1>7, PhaseCases
<1>9. PhaseOf(k)' = "loading"
  <2>1. \A l \in Loads : (model'[l] = k => ~Alive(l)')
    BY <1>2, <1>3, <1>5, <1>7
  <2>2. model'[n] = k /\ Running(n)'
    BY <1>1, <1>2, <1>3
  <2> QED
    BY <1>1, <2>1, <2>2, PhaseCasesNext
<1>10. InUse(k)' = InUse(k)
  <2>1. \A l \in Loads : (model'[l] = k /\ handles'[l] > 0) => model[l] = k /\ handles[l] > 0
    BY <1>1, <1>2 DEF TypeOK
  <2>2. \A l \in Loads : model[l] = k /\ handles[l] > 0 => (model'[l] = k /\ handles'[l] > 0)
    BY <1>1, <1>2
  <2> QED
    BY <2>1, <2>2 DEF InUse
<1>11. /\ Phases' = [Phases EXCEPT ![k] = "loading"] /\ Phases[k] = "absent"
       /\ Uses' = Uses
  BY <1>6, <1>8, <1>9, <1>10, OneTouched DEF Phases, Uses, Untouched
<1>12. Sharing!StartLoad(k)
  BY <1>11 DEF Sharing!StartLoad, Phases, Uses
<1> QED
  BY <1>12 DEF Sharing!Next

LEMMA LoadEndsStep ==
  ASSUME TypeOK, StoreInv, UnsetInv, NEW t \in Threads, LoadEnds(t)
  PROVE  Sharing!Next
<1>0. PICK l \in Loads, k \in Keys : l = call[t].load /\ k = model[l] /\ l <= loaded
  <2>0. call[t].pc = "loading"
    BY DEF LoadEnds, LoadSucceeds, LoadFails, LoadThrows, EndLoad
  <2>1. call[t].load \in 1..loaded
    BY <2>0 DEF StoreInv, CallInv, Idle
  <2>2. call[t].load \in Loads /\ call[t].load <= loaded
    BY <2>1, StoreAssumption DEF TypeOK, Loads
  <2>3. model[call[t].load] \in Keys
    BY <2>2 DEF StoreInv, LoadInv
  <2> QED
    BY <2>2, <2>3
<1>1. PICK v \in {"value", "null", "broken"} : promise' = [promise EXCEPT ![l] = v]
  BY <1>0 DEF LoadEnds, LoadSucceeds, LoadFails, LoadThrows, EndLoad
<1>2. /\ UNCHANGED <<entries, model, handles>>
      /\ call[t].pc = "loading"
      /\ \E next \in {Publishing(t), NoCall} : call' = [call EXCEPT ![t] = next]
  BY DEF LoadEnds, LoadSucceeds, LoadFails, LoadThrows, EndLoad
<1>3. /\ promise[l] = "unset"
      /\ entries[k] = [session |-> 0, pending |-> l]
  BY <1>0, <1>2 DEF StoreInv, LeaderInv, Leading
<1>4. model[l] = k
  BY <1>0
<1>5. promise'[l] = v /\ \A m \in Loads : m # l => promise'[m] = promise[m]
  BY <1>1, <1>4 DEF TypeOK
<1>6. \A u \in Threads : /\ u # t => call'[u] = call[u]
                         /\ u = t => call'[u].pc = "idle" \/ call'[u].load = l
  BY <1>0, <1>2 DEF TypeOK, Publishing, NoCall
<1>7. ASSUME NEW m \in Loads, m # l PROVE (Alive(m)' <=> Alive(m)) /\ (Running(m)' <=> Running(m))
  BY <1>0, <1>2, <1>5, <1>6, <1>7 DEF Alive, HoldsLocally, HeldByFuture, InCall, Running
<1>8. Running(l) /\ ~Running(l)'
  BY <1>3, <1>5 DEF Running
<1>9. ~Alive(l) /\ handles[l] = 0
  BY <1>3, <1>4 DEF StoreInv, OwnerInv, Alive, TypeOK
<1>10. Alive(l)' <=> v = "value"
  BY <1>2, <1>3, <1>4, <1>5, <1>9 DEF Alive, HoldsLocally, HeldByFuture
<1>11. ASSUME NEW m \in Loads, model[m] = k, m # l PROVE ~Alive(m) /\ ~Running(m)
  BY <1>4, <1>8, <1>11, RunningAlone
<1>12. PhaseOf(k) = "loading"
  BY <1>4, <1>8, <1>9, <1>11, PhaseCases
<1>13. PhaseOf(k)' = IF v = "value" THEN "live" ELSE "absent"
  <2>1. CASE v = "value"
    BY <1>2, <1>4, <1>10, <2>1, PhaseCasesNext
  <2>2. CASE v # "value"
    BY <1>2, <1>4, <1>7, <1>8, <1>10, <1>11, <2>2, PhaseCasesNext
  <2> QED
    BY <2>1, <2>2
<1>14. ASSUME NEW j \in Keys, j # k PROVE Untouched(j)
  <2>1. \A m \in Loads : (model'[m] = j /\ Alive(m)') <=> (model[m] = j /\ Alive(m))
    BY <1>2, <1>4, <1>7, <1>14
  <2>2. \A m \in Loads : (model'[m] = j /\ Running(m)') <=> (model[m] = j /\ Running(m))
    BY <1>2, <1>4, <1>7, <1>14
  <2> QED
    BY <1>2, <2>1, <2>2 DEF Untouched, PhaseOf, InUse, Running
<1>15. /\ \E p \in {"live", "absent"} : Phases' = [Phases EXCEPT ![k] = p]
       /\ Phases[k] = "loading"
       /\ Uses' = Uses
  <2>1. InUse(k)' = InUse(k)
    BY <1>2 DEF InUse
  <2>2. Phases[k] = "loading"
    BY <1>4, <1>12 DEF Phases
  <2>3. PhaseOf(k)' \in {"live", "absent"}
    BY <1>13
  <2>4. Phases' = [Phases EXCEPT ![k] = PhaseOf(k)']
    BY <1>4, <1>14, OneTouched
  <2>5. Uses' = Uses
    BY <1>14, <2>1 DEF Uses, Untouched
  <2> QED
    BY <2>2, <2>3, <2>4, <2>5
<1>16. Sharing!FinishLoad(k)
  BY <1>15 DEF Sharing!FinishLoad, Phases, Uses
<1> QED
  BY <1>4, <1>16 DEF Sharing!Next

LEMMA ReturnStep ==
  ASSUME TypeOK, StoreInv, NEW t \in Threads, Return(t)
  PROVE  Sharing!Next \/ UNCHANGED Sharing!vars
<1>0. PICK l \in Loads, k \in Keys : l = call[t].load /\ k = model[l]
  <2>1. call[t].load \in 1..loaded
    BY DEF Return, StoreInv, CallInv, Idle
  <2>2. call[t].load \in Loads /\ call[t].load <= loaded
    BY <2>1, StoreAssumption DEF TypeOK, Loads
  <2>3. model[call[t].load] \in Keys
    BY <2>2 DEF StoreInv, LoadInv
  <2> QED
    BY <2>2, <2>3
<1>1. /\ UNCHANGED <<entries, model, promise>>
      /\ call[t].pc = "returning"
      /\ handles' = IF promise[l] = "value" THEN [handles EXCEPT ![l] = @ + 1] ELSE handles
  BY <1>0 DEF Return
<1>2. \A u \in Threads : /\ u # t => call'[u] = call[u]
                         /\ u = t => call'[u].pc = "idle"
  BY DEF Return, TypeOK, NoCall
<1>3. CASE promise[l] = "value"
  <2>1. handles'[l] > 0 /\ \A m \in Loads : m # l => handles'[m] = handles[m]
    BY <1>1, <1>3 DEF TypeOK
  <2>2. Alive(l)
    BY <1>0, <1>1, <1>3 DEF Alive, HoldsLocally, InCall
  <2>3. ASSUME NEW m \in Loads PROVE (Alive(m)' <=> Alive(m)) /\ (Running(m)' <=> Running(m))
    BY <1>0, <1>1, <1>2, <2>1, <2>2 DEF Alive, HoldsLocally, HeldByFuture, InCall, Running
  <2>4. ASSUME NEW j \in Keys PROVE PhaseOf(j)' = PhaseOf(j)
    BY <1>1, <2>3 DEF PhaseOf, Running
  <2>5. ASSUME NEW j \in Keys, j # k PROVE InUse(j)' = InUse(j)
    BY <1>0, <1>1, <2>1, <2>5 DEF InUse
  <2>6. InUse(k)' /\ PhaseOf(k) = "live"
    BY <1>0, <1>1, <2>1, <2>2 DEF InUse, PhaseOf
  <2> QED
    BY <2>4, <2>5, <2>6, GiveStep DEF Untouched
<1>4. CASE promise[l] # "value"
  <2>1. ASSUME NEW m \in Loads PROVE Alive(m)' <=> Alive(m)
    BY <1>0, <1>1, <1>2, <1>4 DEF Alive, HoldsLocally, HeldByFuture, InCall
  <2> QED
    BY <1>1, <1>4, <2>1, SameLoads, UntouchedStutters DEF Running
<1> QED
  BY <1>3, <1>4

LEMMA ReleaseStep ==
  ASSUME TypeOK, StoreInv, UnsetInv, NEW l \in Loads, Release(l)
  PROVE  Sharing!Next
<1>1. /\ UNCHANGED <<entries, model, promise, call>>
      /\ handles[l] > 0 /\ handles' = [handles EXCEPT ![l] = @ - 1]
  BY DEF Release
<1>2. Alive(l) /\ handles[l] \in Nat
  BY <1>1 DEF Alive, TypeOK
<1>3. PICK k \in Keys : k = model[l]
  BY <1>2, StoreAssumption DEF StoreInv, OwnerInv, LoadInv
<1>4. \A m \in Loads : m # l => handles'[m] = handles[m]
  BY <1>1 DEF TypeOK
<1>5. ASSUME NEW m \in Loads
      PROVE  /\ m # l => (Alive(m)' <=> Alive(m))
             /\ Running(m)' <=> Running(m)
  BY <1>1, <1>4 DEF Alive, HoldsLocally, HeldByFuture, InCall, Running
\* Of its key, l alone is alive and nothing is running.
<1>6. ASSUME NEW m \in Loads, model[m] = k
      PROVE  ~Running(m) /\ (Alive(m) => m = l)
  <2>1. ~Running(m)
    BY <1>2, <1>3, <1>6, RunningAlone DEF Running
  <2>2. Alive(m) => m = l
    BY <1>2, <1>3, <1>6, EntryNamesOne
  <2> QED
    BY <2>1, <2>2
<1>7. ASSUME NEW j \in Keys, j # k PROVE Untouched(j)
  <2>1. \A m \in Loads : model[m] = j => m # l
    BY <1>3, <1>7
  <2> QED
    BY <1>1, <1>4, <1>5, <2>1 DEF Untouched, PhaseOf, InUse, Running
<1>8. InUse(k) /\ PhaseOf(k) = "live"
  BY <1>1, <1>2, <1>3 DEF InUse, PhaseOf
<1>9. \/ PhaseOf(k)' = "live"
      \/ PhaseOf(k)' = "absent" /\ InUse(k)' = FALSE
  <2>1. CASE Alive(l)'
    BY <1>1, <1>3, <2>1, PhaseCasesNext
  <2>2. CASE ~Alive(l)'
    <3>1. \A m \in Loads : model[m] = k => ~Alive(m)' /\ ~Running(m)'
      BY <1>5, <1>6, <2>2
    <3>2. PhaseOf(k)' = "absent"
      BY <1>1, <3>1, PhaseCasesNext
    <3>3. \A m \in Loads : model[m] = k => ~(handles'[m] > 0)
      BY <3>1 DEF Alive
    <3> QED
      BY <1>1, <3>2, <3>3 DEF InUse
  <2> QED
    BY <2>1, <2>2
<1>10. /\ Phases' = [Phases EXCEPT ![k] = PhaseOf(k)']
       /\ Uses' = [Uses EXCEPT ![k] = InUse(k)']
  BY <1>7, OneTouched
<1>11. InUse(k)' \in BOOLEAN
  BY DEF InUse
<1>12. Uses[k] /\ Phases[k] = "live" /\ (Uses'[k] = InUse(k)')
  BY <1>8, <1>10 DEF Phases, Uses
<1>13. Phases' = Phases \/ (~InUse(k)' /\ Phases' = [Phases EXCEPT ![k] = "absent"])
  BY <1>8, <1>9, <1>10 DEF Phases
<1>14. Sharing!Drop(k)
  BY <1>10, <1>11, <1>12, <1>13 DEF Sharing!Drop, Phases, Uses
<1> QED
  BY <1>14 DEF Sharing!Next

-----------------------------------------------------------------------------
LEMMA SharingInit == Init => Sharing!Init
BY StoreAssumption
   DEF Init, Sharing!Init, PhaseOf, InUse, Alive, HoldsLocally, HeldByFuture

LEMMA SharingNext ==
  TypeOK /\ StoreInv /\ UnsetInv /\ [Next]_vars => [Sharing!Next]_(Sharing!vars)
<1> SUFFICES ASSUME TypeOK, StoreInv, UnsetInv, [Next]_vars
             PROVE  Sharing!Next \/ UNCHANGED Sharing!vars
  OBVIOUS
<1>1. CASE Configure \/ UNCHANGED vars
  <2>1. UNCHANGED <<entries, model, promise, handles, call>>
    BY <1>1 DEF Configure, vars
  <2>2. \A l \in Loads : (Alive(l)' <=> Alive(l)) /\ (Running(l)' <=> Running(l))
    BY <2>1 DEF Alive, HoldsLocally, HeldByFuture, InCall, Running
  <2> QED
    BY <2>1, <2>2, SameLoads, UntouchedStutters
<1> QED
  BY <1>1, LiveHitStep, QuietStep, LeadStep, LoadEndsStep, ReturnStep, ReleaseStep
     DEF Next, Acquire, Proceed

\* Whatever takes a store's steps keeps the promise of ModelSharing: at any time a model
\* is absent, loading once, or live; handles are given out only on a live one; the weights
\* go with the last handle.
THEOREM StepsShare == StoreSteps => SharingSafety
<1>1. TypeOK /\ StoreInv /\ UnsetInv /\ [Next]_vars => [Sharing!Next]_(Sharing!vars)
  BY SharingNext
<1> QED
  BY <1>1, SharingInit, InvariantHolds, UnsetCorrect, PTL DEF StoreSteps, SharingSafety

\* SessionStore implements the safety of ModelSharing.
THEOREM ImplementsSharing == Spec => SharingSafety
  BY StepsShare, PTL DEF Spec, StoreSteps
=============================================================================
