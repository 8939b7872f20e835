-------------------------- MODULE ModelCacheProofs --------------------------
(***************************************************************************)
(* Proofs about ModelCache, for any number of processes sharing the cache, *)
(* of attempts, deaths and evictions.                                      *)
(***************************************************************************)
EXTENDS ModelCache, TLAPS

LEMMA InitType == Init => TypeOK
  BY CacheAssumption DEF Init, TypeOK, PCs, Files, CachedContents, NothingRead

LEMMA NextType == TypeOK /\ PartialInv /\ [Next]_vars => TypeOK'
<1> SUFFICES ASSUME TypeOK, PartialInv, [Next]_vars PROVE TypeOK'
  OBVIOUS
<1> USE CacheAssumption DEF PCs, Files, Contents, CachedContents, At, Goto
<1>1. ASSUME NEW p \in Procs, Start(p) PROVE TypeOK'
  BY <1>1 DEF Start, NothingRead, TypeOK
<1>2. ASSUME NEW p \in Procs, Hit(p) PROVE TypeOK'
  BY <1>2 DEF Hit, NextFile, TypeOK
<1>3. ASSUME NEW p \in Procs, Refuse(p) PROVE TypeOK'
  BY <1>3 DEF Refuse, TypeOK
<1>4. ASSUME NEW p \in Procs, Miss(p) PROVE TypeOK'
  BY <1>4 DEF Miss, TypeOK
<1>5. ASSUME NEW p \in Procs, OpenPartial(p) PROVE TypeOK'
  <2>1. partial' \in [Names -> Contents \cup {"none"}]
    BY <1>5 DEF OpenPartial, SetPartial, TypeOK
  <2>2. pc' \in [Procs -> PCs]
    BY <1>5 DEF OpenPartial, TypeOK
  <2> QED
    BY <1>5, <2>1, <2>2 DEF OpenPartial, TypeOK
<1>6. ASSUME NEW p \in Procs, Received(p) PROVE TypeOK'
  BY <1>6 DEF Received, SetPartial, TypeOK
<1>7. ASSUME NEW p \in Procs, NEW b \in BOOLEAN, NotReceived(p, b) PROVE TypeOK'
  <2>1. attempt' \in [Procs -> 1..kAttempts]
    <3>1. attempt[p] \in 1..kAttempts
      BY DEF TypeOK
    <3>2. CASE TryAgain(p, b)
      <4>1. attempt[p] + 1 \in 1..kAttempts
        BY <3>1, <3>2 DEF TryAgain
      <4>2. attempt' = [attempt EXCEPT ![p] = attempt[p] + 1]
        BY <1>7, <3>2 DEF NotReceived, NextAttempt
      <4> QED
        BY <4>1, <4>2 DEF TypeOK
    <3>3. CASE ~TryAgain(p, b)
      BY <1>7, <3>3 DEF NotReceived, TypeOK
    <3> QED
      BY <3>2, <3>3
  <2>2. partial' \in [Names -> Contents \cup {"none"}] /\ pc' \in [Procs -> PCs]
    BY <1>7 DEF NotReceived, SetPartial, TypeOK
  <2> QED
    BY <1>7, <2>1, <2>2 DEF NotReceived, TypeOK
<1>8. ASSUME NEW p \in Procs, Hash(p) PROVE TypeOK'
  BY <1>8 DEF Hash, TypeOK
<1>9. ASSUME NEW p \in Procs, Rename(p) PROVE TypeOK'
  <2>1. name[p] \in Names
    BY <1>9 DEF Rename, PartialInv, HasPartial, TypeOK
  <2>2. partial[name[p]] \in Contents \cup {"none"}
    BY <2>1 DEF TypeOK
  <2>3. cached' \in [Files -> CachedContents]
    BY <1>9, <2>2 DEF Rename, TypeOK
  <2>4. partial' \in [Names -> Contents \cup {"none"}] /\ pc' \in [Procs -> PCs]
    BY <1>9 DEF Rename, SetPartial, TypeOK
  <2> QED
    BY <1>9, <2>3, <2>4 DEF Rename, TypeOK
<1>10. ASSUME NEW p \in Procs, Leave(p) PROVE TypeOK'
  <2>1. file' \in [Procs -> Files] /\ pc' \in [Procs -> PCs]
    BY <1>10 DEF Leave, NextFile, TypeOK
  <2>2. partial' \in [Names -> Contents \cup {"none"}]
    BY <1>10 DEF Leave, SetPartial, TypeOK
  <2>3. name' \in [Procs -> Names \cup {NoName}] /\ attempt' \in [Procs -> 1..kAttempts]
    BY <1>10 DEF Leave, TypeOK
  <2> QED
    BY <1>10, <2>1, <2>2, <2>3 DEF Leave, TypeOK
<1>11. ASSUME NEW p \in Procs, ReadTokenizer(p) PROVE TypeOK'
  BY <1>11 DEF ReadTokenizer, TypeOK
<1>12. ASSUME NEW p \in Procs, ReadGraph(p) PROVE TypeOK'
  BY <1>12 DEF ReadGraph, TypeOK
<1>13. ASSUME NEW p \in Procs, Crash(p) PROVE TypeOK'
  BY <1>13 DEF Crash, TypeOK
<1>14. ASSUME NEW f \in Files, Evict(f) PROVE TypeOK'
  BY <1>14 DEF Evict, TypeOK
<1>15. CASE LosePower
  BY <1>15 DEF LosePower, TypeOK
<1>16. CASE UNCHANGED vars
  BY <1>16 DEF vars, TypeOK
<1> QED
  BY <1>1, <1>2, <1>3, <1>4, <1>5, <1>6, <1>7, <1>8, <1>9, <1>10, <1>11, <1>12, <1>13, <1>14,
     <1>15, <1>16 DEF Next, Proceed

-----------------------------------------------------------------------------
(* Partial files                                                           *)

LEMMA InitPartial == Init => PartialInv
  BY DEF Init, PartialInv, HasPartial, At

\* Steps of one process p that keep the names: only what p does to its own
\* partial file has to be looked at.
LEMMA NextPartial == TypeOK /\ PartialInv /\ [Next]_vars => PartialInv'
<1> SUFFICES ASSUME TypeOK, PartialInv, [Next]_vars PROVE PartialInv'
  OBVIOUS
<1> USE CacheAssumption DEF At, Goto, HasPartial
<1>1. ASSUME NEW p \in Procs, Start(p) PROVE PartialInv'
  BY <1>1 DEF Start, PartialInv, TypeOK
<1>2. ASSUME NEW p \in Procs, Hit(p) PROVE PartialInv'
  BY <1>2 DEF Hit, NextFile, PartialInv, TypeOK
<1>3. ASSUME NEW p \in Procs, Refuse(p) PROVE PartialInv'
  BY <1>3 DEF Refuse, PartialInv, TypeOK
<1>4. ASSUME NEW p \in Procs, Miss(p) PROVE PartialInv'
  BY <1>4 DEF Miss, Unused, PartialInv, TypeOK
<1>5. ASSUME NEW p \in Procs, OpenPartial(p) PROVE PartialInv'
  BY <1>5 DEF OpenPartial, SetPartial, PartialInv, TypeOK
<1>6. ASSUME NEW p \in Procs, Received(p) PROVE PartialInv'
  BY <1>6 DEF Received, SetPartial, PartialInv, TypeOK
<1>7. ASSUME NEW p \in Procs, NEW b \in BOOLEAN, NotReceived(p, b) PROVE PartialInv'
  BY <1>7 DEF NotReceived, SetPartial, PartialInv, TypeOK
<1>8. ASSUME NEW p \in Procs, Hash(p) PROVE PartialInv'
  BY <1>8 DEF Hash, PartialInv, TypeOK
<1>9. ASSUME NEW p \in Procs, Rename(p) PROVE PartialInv'
  BY <1>9 DEF Rename, SetPartial, PartialInv, TypeOK
<1>10. ASSUME NEW p \in Procs, Leave(p) PROVE PartialInv'
  BY <1>10 DEF Leave, NextFile, SetPartial, PartialInv, TypeOK
<1>11. ASSUME NEW p \in Procs, ReadTokenizer(p) PROVE PartialInv'
  BY <1>11 DEF ReadTokenizer, PartialInv, TypeOK
<1>12. ASSUME NEW p \in Procs, ReadGraph(p) PROVE PartialInv'
  BY <1>12 DEF ReadGraph, PartialInv, TypeOK
<1>13. ASSUME NEW p \in Procs, Crash(p) PROVE PartialInv'
  BY <1>13 DEF Crash, PartialInv, TypeOK
<1>14. ASSUME NEW f \in Files, Evict(f) PROVE PartialInv'
  BY <1>14 DEF Evict, PartialInv
<1>15. CASE LosePower
  BY <1>15 DEF LosePower, PartialInv
<1>16. CASE UNCHANGED vars
  BY <1>16 DEF vars, PartialInv
<1> QED
  BY <1>1, <1>2, <1>3, <1>4, <1>5, <1>6, <1>7, <1>8, <1>9, <1>10, <1>11, <1>12, <1>13, <1>14,
     <1>15, <1>16 DEF Next, Proceed
-----------------------------------------------------------------------------
(* What follows from it                                                    *)

LEMMA InitRest == Init => NoStrayPartials /\ VerifiedFilesOnly
  BY DEF Init, NoStrayPartials, VerifiedFilesOnly, NothingRead, Files

LEMMA NextStray ==
  TypeOK /\ PartialInv /\ NoStrayPartials /\ [Next]_vars => NoStrayPartials'
<1> SUFFICES ASSUME TypeOK, PartialInv, NoStrayPartials, [Next]_vars PROVE NoStrayPartials'
  OBVIOUS
<1> USE CacheAssumption DEF At, Goto, HasPartial
<1>1. ASSUME NEW p \in Procs, Start(p) \/ Hit(p) \/ Refuse(p) \/ Hash(p) \/ ReadTokenizer(p) \/ ReadGraph(p)
      PROVE  NoStrayPartials'
  BY <1>1 DEF Start, Hit, Refuse, Hash, ReadTokenizer, ReadGraph, NoStrayPartials
<1>2. ASSUME NEW p \in Procs, Miss(p) PROVE NoStrayPartials'
  BY <1>2 DEF Miss, NoStrayPartials, PartialInv, TypeOK
<1>3. ASSUME NEW p \in Procs,
             OpenPartial(p) \/ Received(p) \/ Rename(p) \/ \E b \in BOOLEAN : NotReceived(p, b)
      PROVE  NoStrayPartials'
  <2>1. name' = name /\ orphans' = orphans
    BY <1>3 DEF OpenPartial, Received, Rename, NotReceived
  <2>2. \A n \in Names : n # name[p] => partial'[n] = partial[n]
    BY <1>3 DEF OpenPartial, Received, Rename, NotReceived, SetPartial, TypeOK
  <2> QED
    BY <2>1, <2>2 DEF NoStrayPartials
<1>4. ASSUME NEW p \in Procs, Leave(p) PROVE NoStrayPartials'
  <2>1. name' = [name EXCEPT ![p] = NoName] /\ orphans' = orphans
    BY <1>4 DEF Leave
  <2>2. \A n \in Names : partial'[n] # "none" => partial[n] # "none" /\ n # name[p]
    BY <1>4 DEF Leave, SetPartial, TypeOK
  <2> QED
    BY <2>1, <2>2 DEF NoStrayPartials, TypeOK
<1>5. ASSUME NEW p \in Procs, Crash(p) PROVE NoStrayPartials'
  BY <1>5 DEF Crash, NoStrayPartials, TypeOK
<1>6. ASSUME NEW f \in Files, Evict(f) PROVE NoStrayPartials'
  BY <1>6 DEF Evict, NoStrayPartials
<1>7. CASE LosePower
  BY <1>7 DEF LosePower, NoStrayPartials
<1>8. CASE UNCHANGED vars
  BY <1>8 DEF vars, NoStrayPartials
<1> QED
  BY <1>1, <1>2, <1>3, <1>4, <1>5, <1>6, <1>7, <1>8 DEF Next, Proceed

\* A file gets its final name in Rename only, from a partial file that PartialInv
\* says was hashed; everything read was read from under a final name.
LEMMA NextVerified ==
  TypeOK /\ PartialInv /\ VerifiedFilesOnly /\ [Next]_vars => VerifiedFilesOnly'
<1> SUFFICES ASSUME TypeOK, PartialInv, VerifiedFilesOnly, [Next]_vars
             PROVE  VerifiedFilesOnly'
  OBVIOUS
<1> USE CacheAssumption DEF At, Goto, Files
<1>1. ASSUME NEW p \in Procs,
             \/ Hit(p) \/ Refuse(p) \/ Miss(p) \/ OpenPartial(p) \/ Received(p) \/ Hash(p)
             \/ \E b \in BOOLEAN : NotReceived(p, b)
             \/ Leave(p) \/ Crash(p)
      PROVE  VerifiedFilesOnly'
  <2>1. cached' = cached /\ got' = got
    BY <1>1 DEF Hit, Refuse, Miss, OpenPartial, Received, NotReceived, Hash, Leave, Crash
  <2> QED
    BY <2>1 DEF VerifiedFilesOnly
<1>2. ASSUME NEW p \in Procs, Start(p) PROVE VerifiedFilesOnly'
  BY <1>2 DEF Start, NothingRead, VerifiedFilesOnly, TypeOK
<1>3. ASSUME NEW p \in Procs, Rename(p) PROVE VerifiedFilesOnly'
  <2>1. partial[name[p]] = "good" /\ got' = got
    BY <1>3 DEF Rename, PartialInv
  <2> QED
    BY <1>3, <2>1 DEF Rename, VerifiedFilesOnly, TypeOK
<1>4. ASSUME NEW p \in Procs, ReadTokenizer(p) PROVE VerifiedFilesOnly'
  BY <1>4 DEF ReadTokenizer, VerifiedFilesOnly, TypeOK
<1>5. ASSUME NEW p \in Procs, ReadGraph(p) PROVE VerifiedFilesOnly'
  BY <1>5 DEF ReadGraph, VerifiedFilesOnly, TypeOK
<1>6. ASSUME NEW f \in Files, Evict(f) PROVE VerifiedFilesOnly'
  BY <1>6 DEF Evict, VerifiedFilesOnly, TypeOK
<1>7. CASE LosePower
  BY <1>7 DEF LosePower, VerifiedFilesOnly, TypeOK
<1>8. CASE UNCHANGED vars
  BY <1>8 DEF vars, VerifiedFilesOnly
<1> QED
  BY <1>1, <1>2, <1>3, <1>4, <1>5, <1>6, <1>7, <1>8 DEF Next, Proceed

\* No step of p touches the partial file of another process: only LosePower and
\* the death of p leave pc alone or take away the name, and they touch no file.
LEMMA NextUndisturbed ==
  TypeOK /\ PartialInv /\ [Next]_vars =>
    \A q \in Procs :
      HasPartial(q) /\ partial'[name[q]] # partial[name[q]] => pc'[q] # pc[q]
<1> SUFFICES ASSUME TypeOK, PartialInv, [Next]_vars, NEW q \in Procs, HasPartial(q),
                    partial'[name[q]] # partial[name[q]]
             PROVE  pc'[q] # pc[q]
  OBVIOUS
<1>1. name[q] \in Names
  BY DEF TypeOK, HasPartial
<1>2. ~UNCHANGED partial
  OBVIOUS
<1>3. PICK p \in Procs : \/ OpenPartial(p) \/ Received(p) \/ Rename(p) \/ Leave(p)
                         \/ \E b \in BOOLEAN : NotReceived(p, b)
  BY <1>2 DEF Next, Proceed, Start, Hit, Refuse, Miss, Hash, ReadTokenizer, ReadGraph, Crash, Evict,
              LosePower, vars
<1>4. partial' = partial \/ \E c : partial' = [partial EXCEPT ![name[p]] = c]
  BY <1>3 DEF OpenPartial, Received, Rename, Leave, NotReceived, SetPartial
<1>5. name[p] = name[q]
  BY <1>1, <1>4 DEF TypeOK
<1>6. p = q
  BY <1>5 DEF PartialInv
<1>7. pc'[p] # pc[p]
  BY <1>3 DEF OpenPartial, Received, Rename, Leave, NotReceived, NextFile, At, Goto, TypeOK
<1> QED
  BY <1>6, <1>7

-----------------------------------------------------------------------------
(* Theorems                                                                *)

\* Every state of ensure_file and of the files is well typed; in particular the
\* attempt counter of download() (src/resolve.cpp:145) stays within its bound.
THEOREM TypeCorrect == Spec => []TypeOK
<1>1. Init => TypeOK /\ PartialInv
  BY InitType, InitPartial
<1>2. TypeOK /\ PartialInv /\ [Next]_vars => (TypeOK /\ PartialInv)'
  BY NextType, NextPartial
<1> QED
  BY <1>1, <1>2, PTL DEF Spec

\* Each ensure_file has a partial file of its own, and renames only what it hashed.
THEOREM PartialCorrect == Spec => []PartialInv
<1>1. Init => TypeOK /\ PartialInv
  BY InitType, InitPartial
<1>2. TypeOK /\ PartialInv /\ [Next]_vars => (TypeOK /\ PartialInv)'
  BY NextType, NextPartial
<1> QED
  BY <1>1, <1>2, PTL DEF Spec

\* ~PartialFile (src/resolve.cpp:239-242) leaves nothing behind unless the process
\* dies.
THEOREM NoStrayCorrect == Spec => []NoStrayPartials
<1>1. Init => NoStrayPartials
  BY InitRest
<1>2. TypeOK /\ PartialInv /\ NoStrayPartials /\ [Next]_vars => NoStrayPartials'
  BY NextStray
<1> QED
  BY <1>1, <1>2, TypeCorrect, PartialCorrect, PTL DEF Spec

\* Every file in the cache and every file a load read was the pinned one when it got
\* its name (src/resolve.cpp:248-257).
THEOREM VerifiedCorrect == Spec => []VerifiedFilesOnly
<1>1. Init => VerifiedFilesOnly
  BY InitRest
<1>2. TypeOK /\ PartialInv /\ VerifiedFilesOnly /\ [Next]_vars => VerifiedFilesOnly'
  BY NextVerified
<1> QED
  BY <1>1, <1>2, TypeCorrect, PartialCorrect, PTL DEF Spec

\* The partial file of an ensure_file changes by its own steps only.
THEOREM UndisturbedCorrect == Spec => PartialUndisturbed
<1>1. TypeOK /\ PartialInv /\ [Next]_vars =>
        [\A p \in Procs :
           HasPartial(p) /\ partial'[name[p]] # partial[name[p]] => pc'[p] # pc[p]]_vars
  BY NextUndisturbed
<1> QED
  BY <1>1, TypeCorrect, PartialCorrect, PTL DEF Spec, PartialUndisturbed
=============================================================================
