--------------------------- MODULE ResolveProofs ---------------------------
(***************************************************************************)
(* Proofs about Resolve, for any releases whose registries keep to         *)
(* RegistryAssumption, any configurations and any number of processes.     *)
(* The backoff doubles: what the provers do not know of powers of two is   *)
(* had from the library's theorem on the number of subsets of a set.       *)
(***************************************************************************)
EXTENDS Resolve, FiniteSetTheorems, TLAPS

-----------------------------------------------------------------------------
(* The operators                                                           *)

\* Two files at one path of the cache have one pin: what the assumption on the
\* registries is for.
LEMMA PathsApart ==
  ASSUME NEW d1, NEW e1 \in Entries, NEW f1 \in Files,
         NEW d2, NEW e2 \in Entries, NEW f2 \in Files,
         Path(d1, e1, f1) = Path(d2, e2, f2)
  PROVE  Pin(e1, f1) = Pin(e2, f2)
<1>1. /\ Flatten(e1.name) = Flatten(e2.name) /\ e1.revision = e2.revision
      /\ NameOf(e1, f1) = NameOf(e2, f2)
  BY DEF Path
<1>2. e1.name = e2.name
  BY <1>1, ResolveAssumption DEF RegistryAssumption
<1>3. CASE f1 = "graph" /\ f2 = "graph"
  BY <1>1, <1>2, <1>3, ResolveAssumption DEF RegistryAssumption, NameOf, Pin
<1>4. CASE f1 = "tokenizer" /\ f2 = "tokenizer"
  BY <1>1, <1>2, <1>4, ResolveAssumption DEF RegistryAssumption, Pin
<1>5. f1 = f2
  BY <1>1, ResolveAssumption DEF RegistryAssumption, NameOf, Files
<1> QED
  BY <1>3, <1>4, <1>5 DEF Files

\* A wait is at most a minute.
LEMMA WaitBounded ==
  ASSUME NEW n \in 1..kAttempts, NEW asked \in Asked
  PROVE  Wait(n, asked) \in Int /\ Wait(n, asked) <= 60
<1>1. n - 1 \in Nat /\ asked \in Int
  BY ResolveAssumption
<1>2. 2^(n - 1) \in Int
  BY <1>1
<1>3. Max({2^(n - 1), asked}) \in Int
  BY <1>1, <1>2 DEF Max
<1> QED
  BY <1>3 DEF Wait, Min

\* 2^n counts the sets of numbers up to n.
LEMMA PowerCounts ==
  ASSUME NEW n \in Nat
  PROVE  IsFiniteSet(SUBSET (1..n)) /\ Cardinality(SUBSET (1..n)) = 2^n
<1>1. IsFiniteSet(1..n) /\ Cardinality(1..n) = n
  BY FS_Interval
<1> QED
  BY <1>1, FS_SUBSET

\* A number more doubles them: each set comes without it and with it.
LEMMA PowerOfTwo ==
  ASSUME NEW n \in Nat
  PROVE  /\ 2^n \in Nat /\ 2^n >= 1
         /\ 2^(n + 1) = 2 * 2^n
<1> DEFINE m == n + 1
           S == SUBSET (1..n)
           T == {A \cup {m} : A \in S}
<1>1. IsFiniteSet(S) /\ Cardinality(S) = 2^n
  BY PowerCounts
<1>2. 2^n \in Nat
  BY <1>1, FS_CardinalityType
<1>3. 2^n >= 1
  <2>1. {} \in S
    OBVIOUS
  <2>2. Cardinality(S) # 0
    BY <1>1, <2>1, FS_EmptySet
  <2> QED
    BY <1>1, <1>2, <2>2
<1>4. ExistsBijection(S, T)
  <2> DEFINE f == [A \in S |-> A \cup {m}]
  <2>1. f \in [S -> T]
    OBVIOUS
  <2>2. ASSUME NEW A \in S, NEW B \in S, f[A] = f[B] PROVE A = B
    <3>1. m \notin A /\ m \notin B
      OBVIOUS
    <3> QED
      BY <2>2, <3>1
  <2>3. ASSUME NEW C \in T PROVE \E A \in S : f[A] = C
    OBVIOUS
  <2> HIDE DEF f, S, T
  <2>4. f \in Bijection(S, T)
    BY <2>1, <2>2, <2>3 DEF Bijection, Injection, Surjection, IsInjective
  <2> QED
    BY <2>4 DEF ExistsBijection
<1>5. IsFiniteSet(T) /\ Cardinality(T) = 2^n
  BY <1>1, <1>4, FS_Bijection
<1>6. SUBSET (1..m) = S \cup T
  <2>1. ASSUME NEW A \in SUBSET (1..m) PROVE A \in S \cup T
    <3>1. CASE m \in A
      <4>1. A \ {m} \in S /\ A = (A \ {m}) \cup {m}
        BY <3>1
      <4> QED
        BY <4>1
    <3>2. CASE m \notin A
      BY <3>2
    <3> QED
      BY <3>1, <3>2
  <2>2. 1..n \subseteq 1..m /\ m \in 1..m
    OBVIOUS
  <2> HIDE DEF m
  <2>3. S \cup T \subseteq SUBSET (1..m)
    BY <2>2
  <2> QED
    BY <2>1, <2>3
<1>7. S \cap T = {}
  OBVIOUS
<1>8. Cardinality(S \cup T) = Cardinality(S) + Cardinality(T) - Cardinality(S \cap T)
  BY <1>1, <1>5, FS_Union
<1>9. Cardinality(S \cap T) = 0
  BY <1>7, FS_EmptySet
<1>10. Cardinality(SUBSET (1..m)) = 2^m
  BY PowerCounts
<1> HIDE DEF m, S, T
<1>11. 2^m = 2^n + 2^n - 0
  BY <1>1, <1>5, <1>6, <1>8, <1>9, <1>10, Zenon
<1> QED
  BY <1>2, <1>3, <1>11 DEF m

\* The lesser of two, and the greater.
LEMMA TwoBounds ==
  ASSUME NEW a \in Int, NEW b \in Int
  PROVE  /\ Min({a, b}) \in Int /\ Min({a, b}) = IF a <= b THEN a ELSE b
         /\ Max({a, b}) \in Int /\ Max({a, b}) = IF a <= b THEN b ELSE a
<1>1. CASE a <= b
  <2>1. /\ \A x \in {a, b} : (\A y \in {a, b} : x <= y) => x = a
        /\ \A x \in {a, b} : (\A y \in {a, b} : x >= y) => x = b
    BY <1>1
  <2>2. /\ \E x \in {a, b} : \A y \in {a, b} : x <= y
        /\ \E x \in {a, b} : \A y \in {a, b} : x >= y
    BY <1>1
  <2> QED
    BY <1>1, <2>1, <2>2 DEF Min, Max
<1>2. CASE ~(a <= b)
  <2>1. /\ \A x \in {a, b} : (\A y \in {a, b} : x <= y) => x = b
        /\ \A x \in {a, b} : (\A y \in {a, b} : x >= y) => x = a
    BY <1>2
  <2>2. /\ \E x \in {a, b} : \A y \in {a, b} : x <= y
        /\ \E x \in {a, b} : \A y \in {a, b} : x >= y
    BY <1>2
  <2> QED
    BY <1>2, <2>1, <2>2 DEF Min, Max
<1> QED
  BY <1>1, <1>2

\* A wait is no shorter than the backoff, or than a minute.
LEMMA WaitPatient ==
  ASSUME NEW n \in 1..kAttempts, NEW asked \in Asked
  PROVE  Wait(n, asked) >= Min({60, 2^(n - 1)})
<1>1. n - 1 \in Nat /\ asked \in Int
  BY ResolveAssumption
<1> DEFINE b == 2^(n - 1)
<1>2. b \in Int
  BY <1>1, PowerOfTwo
<1> HIDE DEF b
<1>3. Max({b, asked}) \in Int /\ Max({b, asked}) >= b
  BY <1>1, <1>2, TwoBounds
<1>4. Min({60, Max({b, asked})}) >= Min({60, b})
  BY <1>2, <1>3, TwoBounds
<1> QED
  BY <1>4 DEF Wait, b

\* The backoff before an attempt and the wait after it make the backoff before the next.
LEMMA BackoffAdds ==
  ASSUME NEW n \in Nat \ {0}, NEW slept \in Int, NEW w \in Int,
         slept >= Min({60, 2^(n - 1) - 1}), w >= Min({60, 2^(n - 1)})
  PROVE  slept + w >= Min({60, 2^((n + 1) - 1) - 1})
<1> DEFINE b == 2^(n - 1)
<1>1. n - 1 \in Nat /\ (n + 1) - 1 = (n - 1) + 1
  OBVIOUS
<1>2. b \in Nat /\ b >= 1 /\ 2^((n + 1) - 1) = 2 * b
  BY <1>1, PowerOfTwo
<1>3. slept >= Min({60, b - 1}) /\ w >= Min({60, b})
  OBVIOUS
<1> HIDE DEF b
<1>4. slept + w >= Min({60, 2 * b - 1})
  BY <1>2, <1>3, TwoBounds
<1> QED
  BY <1>2, <1>4

\* There is nothing to wait for before the first.
LEMMA FirstAttempt == Min({60, 2^(1 - 1) - 1}) = 0
<1>1. 2^0 = 1
  <2>1. 1..0 = {} /\ SUBSET {} = {{}}
    OBVIOUS
  <2>2. Cardinality({{}}) = 1
    BY FS_Singleton
  <2> QED
    BY <2>1, <2>2, PowerCounts
<1>2. Min({60, 0}) = 0
  BY TwoBounds
<1> QED
  BY <1>1, <1>2

\* The configuration that a load resolves is resolved: cached_graph_path resolves it once
\* more (src/resolve.cpp:187), and gets the same directory.
THEOREM ResolvedIsResolved ==
  ASSUME NEW g, NEW v, Resolved(g, v).cache_dir # Unset, Resolved(g, v).endpoint # Unset,
         Resolved(g, v).offline \in BOOLEAN
  PROVE  Resolved(Resolved(g, v), v) = Resolved(g, v)
<1> DEFINE r == Resolved(g, v)
<1>1. Resolved(r, v).offline = r.offline
  BY Zenon DEF Resolved
<1>2. /\ Resolved(r, v).cache_dir = r.cache_dir
      /\ Resolved(r, v).endpoint = r.endpoint
  BY DEF Resolved
<1>3. /\ r = [cache_dir |-> r.cache_dir, endpoint |-> r.endpoint, offline |-> r.offline]
      /\ Resolved(r, v) = [cache_dir |-> Resolved(r, v).cache_dir,
                           endpoint |-> Resolved(r, v).endpoint,
                           offline |-> Resolved(r, v).offline]
  BY DEF Resolved
<1> QED
  BY <1>1, <1>2, <1>3

-----------------------------------------------------------------------------
(* The invariant                                                           *)

\* Whatever is at a place of the cache is the file that every registry with that place
\* pins for it.
CacheInv ==
  \A dir \in Dirs, e \in Entries, f \in Files : cache[Path(dir, e, f)] \in {NotThere, Pin(e, f)}

\* Who is past `ensure` is not offline, and neither is who has sent something.
OnlineInv ==
  \A p \in Procs : pc[p] \in {"send", "transfer", "sleep"} => ~Config(p).offline

\* The wait to come is at most a minute, and there is an attempt after it.
SleepInv ==
  \A p \in Procs : wait[p] <= 60 /\ (At(p, "sleep") => attempt[p] # kAttempts)

\* It is no shorter than the backoff after this attempt.
PatienceInv ==
  \A p \in Procs : At(p, "sleep") => wait[p] >= Min({60, 2^(attempt[p] - 1)})

ResolveInv ==
  TypeOK /\ CacheInv /\ OnlineInv /\ RequestsAllowed /\ SleepInv /\ PatienceInv /\ BackoffHonoured

LEMMA InitResolve == Init => ResolveInv
<1> SUFFICES ASSUME Init PROVE ResolveInv
  OBVIOUS
<1>1. TypeOK
  BY ResolveAssumption DEF Init, TypeOK, NoRequest, Files
<1>2. CacheInv
  <2> SUFFICES ASSUME NEW dir \in Dirs, NEW e \in Entries, NEW f \in Files
               PROVE  cache[Path(dir, e, f)] = NotThere
    BY DEF CacheInv
  <2> QED
    BY DEF Init, Paths
<1>3. OnlineInv /\ RequestsAllowed /\ SleepInv /\ PatienceInv /\ NoLater
  BY ResolveAssumption
     DEF Init, OnlineInv, RequestsAllowed, SleepInv, PatienceInv, NoLater, At
<1>4. NoSooner
  BY FirstAttempt DEF Init, NoSooner
<1> QED
  BY <1>1, <1>2, <1>3, <1>4 DEF ResolveInv, BackoffHonoured

\* The place that a process looks at is one of the cache.
LEMMA PathInPaths ==
  ASSUME TypeOK, NEW p \in Procs
  PROVE  Config(p).cache_dir \in Dirs /\ PathOf(p) \in Paths
<1>1. Config(p).cache_dir \in Dirs
  BY DEF Config, Dirs, TypeOK
<1>2. entry[p] \in Entries /\ file[p] \in Files
  BY DEF TypeOK
<1> QED
  BY <1>1, <1>2 DEF PathOf, Paths

LEMMA NextType == TypeOK /\ SleepInv /\ [Next]_vars => TypeOK'
<1> SUFFICES ASSUME TypeOK, SleepInv, [Next]_vars PROVE TypeOK'
  OBVIOUS
<1> USE ResolveAssumption DEF TypeOK, At, Goto
<1>1. ASSUME NEW p \in Procs, Ensure(p) PROVE TypeOK'
  <2>1. /\ pc' \in [Procs -> {"ensure", "send", "transfer", "sleep", "loaded", "failed"}]
        /\ file' \in [Procs -> Files]
    BY <1>1 DEF Ensure, Ensured, Files
  <2>2. /\ attempt' \in [Procs -> 1..kAttempts]
        /\ wait' \in [Procs -> Int] /\ waited' \in [Procs -> Int]
    BY <1>1 DEF Ensure
  <2> QED
    BY <1>1, <2>1, <2>2 DEF Ensure
<1>2. ASSUME NEW p \in Procs, Send(p) PROVE TypeOK'
  <2> DEFINE url == Url(Config(p).endpoint, entry[p], file[p])
  <2>1. url \in Urls
    BY DEF Urls, Config
  <2>2. AuthHeader(url, env[p]) \in BOOLEAN
    BY DEF AuthHeader
  <2> HIDE DEF url
  <2>3. request' = [request EXCEPT ![p] = [url |-> url, token |-> AuthHeader(url, env[p])]]
    BY <1>2 DEF Send, url
  <2>4. request' \in [Procs -> [url : Urls \cup {<<>>}, token : BOOLEAN]]
    BY <2>1, <2>2, <2>3
  <2> QED
    BY <1>2, <2>4 DEF Send
<1>3. ASSUME NEW p \in Procs, Received(p) PROVE TypeOK'
  BY <1>3, PathInPaths DEF Received, Ensured, Files
<1>4. ASSUME NEW p \in Procs, Retry(p) PROVE TypeOK'
  BY <1>4, WaitBounded DEF Retry
<1>5. ASSUME NEW p \in Procs, Wake(p) PROVE TypeOK'
  <2>1. attempt[p] + 1 \in 1..kAttempts
    BY <1>5 DEF Wake, SleepInv
  <2> QED
    BY <1>5, <2>1 DEF Wake
<1>6. ASSUME NEW p \in Procs, Fail(p) PROVE TypeOK'
  BY <1>6 DEF Fail
<1>7. CASE UNCHANGED vars
  BY <1>7 DEF vars
<1> QED
  BY <1>1, <1>2, <1>3, <1>4, <1>5, <1>6, <1>7 DEF Next

\* Only a verified file gets a place, and its place is of no file with another pin.
LEMMA NextCache == TypeOK /\ CacheInv /\ [Next]_vars => CacheInv'
<1> SUFFICES ASSUME TypeOK, CacheInv, [Next]_vars PROVE CacheInv'
  OBVIOUS
<1>1. ASSUME NEW p \in Procs, Received(p) PROVE CacheInv'
  <2>1. CASE UNCHANGED cache
    BY <2>1 DEF CacheInv
  <2>2. CASE \E content \in Contents :
               /\ Kept(content, Pin(entry[p], file[p]))
               /\ cache' = [cache EXCEPT ![PathOf(p)] = content]
    <3> DEFINE pin == Pin(entry[p], file[p])
    <3>1. cache' = [cache EXCEPT ![PathOf(p)] = pin]
      BY <2>2 DEF Kept
    <3> SUFFICES ASSUME NEW dir \in Dirs, NEW e \in Entries, NEW f \in Files
                 PROVE  cache'[Path(dir, e, f)] \in {NotThere, Pin(e, f)}
      BY DEF CacheInv
    <3>2. Path(dir, e, f) \in Paths /\ DOMAIN cache = Paths
      BY DEF Paths, TypeOK
    <3>3. CASE Path(dir, e, f) = PathOf(p)
      <4>1. entry[p] \in Entries /\ file[p] \in Files
        BY DEF TypeOK
      <4>2. Pin(e, f) = pin
        BY <3>3, <4>1, PathsApart DEF PathOf
      <4> QED
        BY <3>1, <3>2, <3>3, <4>2
    <3>4. CASE Path(dir, e, f) # PathOf(p)
      BY <3>1, <3>2, <3>4 DEF CacheInv
    <3> QED
      BY <3>3, <3>4
  <2> QED
    BY <1>1, <2>1, <2>2 DEF Received
<1>2. ASSUME NEW p \in Procs, Ensure(p) \/ Send(p) \/ Retry(p) \/ Wake(p) \/ Fail(p)
      PROVE  CacheInv'
  <2>1. UNCHANGED cache
    BY <1>2 DEF Ensure, Send, Retry, Wake, Fail
  <2> QED
    BY <2>1 DEF CacheInv
<1>3. CASE UNCHANGED vars
  BY <1>3 DEF vars, CacheInv
<1> QED
  BY <1>1, <1>2, <1>3 DEF Next

\* No step but `ensure` takes a process online, and that one asks the configuration.
LEMMA NextOnline == TypeOK /\ OnlineInv /\ [Next]_vars => OnlineInv'
<1> SUFFICES ASSUME TypeOK, OnlineInv, [Next]_vars PROVE OnlineInv'
  OBVIOUS
<1> DEFINE Online(q) == pc[q] \in {"send", "transfer", "sleep"} => ~Config(q).offline
<1>1. ASSUME NEW p \in Procs, NEW q \in Procs,
             Ensure(p) \/ Send(p) \/ Received(p) \/ Retry(p) \/ Wake(p) \/ Fail(p)
      PROVE  Online(q)'
  <2>1. Online(q) /\ UNCHANGED <<given, env>>
    BY <1>1 DEF OnlineInv, Ensure, Send, Received, Retry, Wake, Fail
  <2>2. Config(q)' = Config(q)
    BY <2>1 DEF Config
  <2>3. CASE q # p
    BY <1>1, <2>1, <2>2, <2>3
    DEF TypeOK, Ensure, Ensured, Send, Received, Retry, Wake, Fail, Goto
  <2>4. CASE q = p
    BY <1>1, <2>1, <2>2, <2>4
    DEF TypeOK, Ensure, Ensured, Send, Received, Retry, Wake, Fail, Goto, At
  <2> QED
    BY <2>3, <2>4
<1>2. CASE UNCHANGED vars
  BY <1>2 DEF vars, OnlineInv, Config
<1> QED
  BY <1>1, <1>2 DEF Next, OnlineInv

\* What `send` sends is allowed: it reads the configuration that `ensure` asked.
LEMMA NextRequests ==
  TypeOK /\ OnlineInv /\ RequestsAllowed /\ [Next]_vars => RequestsAllowed'
<1> SUFFICES ASSUME TypeOK, OnlineInv, RequestsAllowed, [Next]_vars PROVE RequestsAllowed'
  OBVIOUS
<1>1. ASSUME NEW p \in Procs, Send(p) PROVE RequestsAllowed'
  <2> DEFINE url == Url(Config(p).endpoint, entry[p], file[p])
  <2>1. /\ request' = [request EXCEPT ![p] = [url |-> url, token |-> AuthHeader(url, env[p])]]
        /\ UNCHANGED <<entry, given, env>> /\ pc[p] = "send"
    BY <1>1 DEF Send, At
  <2>2. ~given[p].offline /\ ~env[p].CYBORGDB_EMBED_OFFLINE
    <3>1. ~Config(p).offline
      BY <2>1 DEF OnlineInv
    <3> QED
      BY <3>1, ResolveAssumption DEF Config, Resolved, TypeOK
  <2>3. url[3] = entry[p].revision
    BY DEF Url
  <2>4. AuthHeader(url, env[p]) => Head(url[1]) = Home
    BY Zenon DEF AuthHeader
  <2> HIDE DEF url
  <2> SUFFICES ASSUME NEW q \in Procs, request'[q] # NoRequest
               PROVE  /\ ~given[q].offline /\ ~env[q].CYBORGDB_EMBED_OFFLINE
                      /\ request'[q].token => Head(request'[q].url[1]) = Home
                      /\ request'[q].url[3] = entry[q].revision
    BY <2>1 DEF RequestsAllowed
  <2>5. CASE q = p
    <3>1. request'[q].url = url /\ request'[q].token = AuthHeader(url, env[p])
      BY <2>1, <2>5 DEF TypeOK
    <3> QED
      BY <2>2, <2>3, <2>4, <2>5, <3>1
  <2>6. CASE q # p
    BY <2>1, <2>6 DEF RequestsAllowed, TypeOK
  <2> QED
    BY <2>5, <2>6
<1>2. ASSUME NEW p \in Procs, Ensure(p) \/ Received(p) \/ Retry(p) \/ Wake(p) \/ Fail(p)
      PROVE  RequestsAllowed'
  <2>1. UNCHANGED <<entry, given, env, request>>
    BY <1>2 DEF Ensure, Received, Retry, Wake, Fail
  <2> QED
    BY <2>1 DEF RequestsAllowed
<1>3. CASE UNCHANGED vars
  BY <1>3 DEF vars, RequestsAllowed
<1> QED
  BY <1>1, <1>2, <1>3 DEF Next

\* A download sleeps only before an attempt, and at most a minute.
LEMMA NextSleep ==
  TypeOK /\ SleepInv /\ NoLater /\ [Next]_vars => SleepInv' /\ NoLater'
<1> SUFFICES ASSUME TypeOK, SleepInv, NoLater, [Next]_vars PROVE SleepInv' /\ NoLater'
  OBVIOUS
<1> USE ResolveAssumption DEF TypeOK, SleepInv, NoLater, At, Goto
<1>1. ASSUME NEW p \in Procs, Ensure(p) PROVE SleepInv' /\ NoLater'
  <2>1. \A q \in Procs : q # p => pc'[q] = pc[q] /\ attempt'[q] = attempt[q]
                                  /\ wait'[q] = wait[q] /\ waited'[q] = waited[q]
    BY <1>1 DEF Ensure, Ensured
  <2>2. pc'[p] # "sleep" /\ attempt'[p] = 1 /\ wait'[p] = 0 /\ waited'[p] = 0
    BY <1>1 DEF Ensure, Ensured
  <2>3. SleepInv'
    <3> SUFFICES ASSUME NEW q \in Procs
                 PROVE  wait'[q] <= 60 /\ (pc'[q] = "sleep" => attempt'[q] # kAttempts)
      OBVIOUS
    <3>1. CASE q = p
      BY <2>2, <3>1
    <3>2. CASE q # p
      BY <2>1, <3>2
    <3> QED
      BY <3>1, <3>2
  <2>4. waited'[p] <= 60 * (attempt'[p] - 1) /\ attempt'[p] <= kAttempts
    BY <2>2
  <2> QED
    BY <2>1, <2>3, <2>4
<1>2. ASSUME NEW p \in Procs, Send(p) PROVE SleepInv' /\ NoLater'
  BY <1>2 DEF Send
<1>3. ASSUME NEW p \in Procs, Received(p) PROVE SleepInv' /\ NoLater'
  <2>1. \A q \in Procs : pc'[q] = "sleep" => pc[q] = "sleep"
    BY <1>3 DEF Received, Ensured
  <2> QED
    BY <1>3, <2>1 DEF Received
<1>4. ASSUME NEW p \in Procs, Retry(p) PROVE SleepInv' /\ NoLater'
  <2>1. PICK asked \in Asked : wait' = [wait EXCEPT ![p] = Wait(attempt[p], asked)]
    BY <1>4 DEF Retry
  <2>2. Wait(attempt[p], asked) <= 60
    BY WaitBounded
  <2> QED
    BY <1>4, <2>1, <2>2 DEF Retry
<1>5. ASSUME NEW p \in Procs, Wake(p) PROVE SleepInv' /\ NoLater'
  BY <1>5 DEF Wake
<1>6. ASSUME NEW p \in Procs, Fail(p) PROVE SleepInv' /\ NoLater'
  BY <1>6 DEF Fail
<1>7. CASE UNCHANGED vars
  BY <1>7 DEF vars
<1> QED
  BY <1>1, <1>2, <1>3, <1>4, <1>5, <1>6, <1>7 DEF Next

\* No answer of a server shortens the wait that the attempts so far call for.
LEMMA NextPatience ==
  TypeOK /\ PatienceInv /\ NoSooner /\ [Next]_vars => PatienceInv' /\ NoSooner'
<1> SUFFICES ASSUME TypeOK, PatienceInv, NoSooner, [Next]_vars PROVE PatienceInv' /\ NoSooner'
  OBVIOUS
<1> DEFINE Patient(q) == /\ pc[q] = "sleep" => wait[q] >= Min({60, 2^(attempt[q] - 1)})
                         /\ waited[q] >= Min({60, 2^(attempt[q] - 1) - 1})
<1>1. ASSUME NEW p \in Procs, NEW q \in Procs,
             Ensure(p) \/ Send(p) \/ Received(p) \/ Retry(p) \/ Wake(p) \/ Fail(p)
      PROVE  Patient(q)'
  <2>1. Patient(q)
    BY DEF PatienceInv, NoSooner, At
  <2>2. CASE q # p
    <3>1. UNCHANGED <<pc[q], wait[q], attempt[q], waited[q]>>
      BY <1>1, <2>2 DEF TypeOK, Ensure, Ensured, Send, Received, Retry, Wake, Fail, Goto
    <3> QED
      BY <2>1, <3>1
  <2>3. CASE q = p /\ Ensure(p)
    <3>1. pc'[q] # "sleep" /\ waited'[q] = 0 /\ attempt'[q] = 1
      BY <2>3 DEF TypeOK, Ensure, Ensured, Goto
    <3> QED
      BY <3>1, FirstAttempt
  <2>4. CASE q = p /\ (Send(p) \/ Received(p) \/ Fail(p))
    <3>1. pc'[q] # "sleep" /\ UNCHANGED <<attempt, waited>>
      BY <2>4 DEF TypeOK, Send, Received, Ensured, Fail, Goto
    <3> QED
      BY <2>1, <3>1
  <2>5. CASE q = p /\ Retry(p)
    <3>1. /\ UNCHANGED <<attempt, waited>> /\ attempt[q] \in 1..kAttempts
          /\ \E asked \in Asked : wait'[q] = Wait(attempt[q], asked)
      BY <2>5 DEF TypeOK, Retry
    <3> QED
      BY <2>1, <3>1, WaitPatient
  <2>6. CASE q = p /\ Wake(p)
    <3>1. /\ pc'[q] # "sleep" /\ pc[q] = "sleep"
          /\ attempt'[q] = attempt[q] + 1 /\ waited'[q] = waited[q] + wait[q]
          /\ attempt[q] \in Nat \ {0} /\ waited[q] \in Int /\ wait[q] \in Int
      BY <2>6 DEF TypeOK, Wake, At, Goto
    <3>2. waited'[q] >= Min({60, 2^((attempt[q] + 1) - 1) - 1})
      BY <2>1, <3>1, BackoffAdds
    <3> QED
      BY <3>1, <3>2
  <2> QED
    BY <1>1, <2>2, <2>3, <2>4, <2>5, <2>6
<1>2. CASE UNCHANGED vars
  BY <1>2 DEF vars, PatienceInv, NoSooner, At
<1> HIDE DEF Patient
<1>3. (\A q \in Procs : Patient(q)') => PatienceInv' /\ NoSooner'
  BY DEF Patient, PatienceInv, NoSooner, At
<1> QED
  BY <1>1, <1>2, <1>3 DEF Next

\* ResolveInv is inductive.
LEMMA NextResolve == ResolveInv /\ [Next]_vars => ResolveInv'
  BY NextType, NextCache, NextOnline, NextRequests, NextSleep, NextPatience
     DEF ResolveInv, BackoffHonoured

THEOREM ResolveInvariant == Spec => []ResolveInv
<1> QED
  BY InitResolve, NextResolve, PTL DEF Spec

-----------------------------------------------------------------------------
(* What it says                                                            *)

\* However many releases share the host's directories, a file found in the cache is the
\* one that the finder's own registry pins (resolve.cpp:180-193).
THEOREM FindsItsOwnCorrect == Spec => []FindsItsOwn
<1>1. ResolveInv => FindsItsOwn
  <2> SUFFICES ASSUME ResolveInv, NEW p \in Procs
               PROVE  cache[PathOf(p)] \in {NotThere, Pin(entry[p], file[p])}
    BY DEF FindsItsOwn
  <2>1. /\ Config(p).cache_dir \in Dirs /\ entry[p] \in Entries /\ file[p] \in Files
        /\ CacheInv
    BY PathInPaths DEF ResolveInv, TypeOK
  <2> QED
    BY <2>1 DEF CacheInv, PathOf
<1> QED
  BY <1>1, ResolveInvariant, PTL

\* No configuration, environment or order of failures makes an offline process ask, or
\* the token leave for a mirror.
THEOREM RequestsAllowedCorrect == Spec => []RequestsAllowed
<1>1. ResolveInv => RequestsAllowed
  BY DEF ResolveInv
<1> QED
  BY <1>1, ResolveInvariant, PTL

\* Whatever the servers answer and ask for, an attempt comes no sooner than the backoff
\* before it has passed, a download sleeps at most a minute before each, and makes
\* kAttempts of them at most (src/resolve.cpp:142-152).
THEOREM BackoffHonouredCorrect == Spec => []BackoffHonoured
<1>1. ResolveInv => BackoffHonoured
  BY DEF ResolveInv
<1> QED
  BY <1>1, ResolveInvariant, PTL
=============================================================================
