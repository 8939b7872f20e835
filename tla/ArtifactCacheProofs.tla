------------------------ MODULE ArtifactCacheProofs ------------------------
(***************************************************************************)
(* Proofs about ArtifactCache, for any number of runs, any size of the     *)
(* archive and anything the server may send: of runs that come one after   *)
(* the other and die where they will.                                      *)
(***************************************************************************)
EXTENDS ArtifactCache, TLAPS

-----------------------------------------------------------------------------
(* Types                                                                   *)

LEMMA ArtifactInitType == Init => TypeOK
  BY ArtifactAssumption DEF Init, TypeOK, NotOpen

LEMMA ArtifactNextType == TypeOK /\ [Next]_vars => TypeOK'
<1> SUFFICES ASSUME TypeOK, [Next]_vars PROVE TypeOK'
  OBVIOUS
<1> USE ArtifactAssumption DEF TypeOK, At, Goto, Gives
<1>1. ASSUME NEW r \in Runs, Start(r) PROVE TypeOK'
  BY <1>1 DEF Start
<1>2. ASSUME NEW r \in Runs, Download(r) PROVE TypeOK'
  BY <1>2 DEF Download
<1>3. ASSUME NEW r \in Runs, Truncate(r) PROVE TypeOK'
  <2>1. partial' \in Runs \cup {NoFile}
    BY <1>3 DEF Truncate
  <2>2. [b \in 1..Size |-> "none"] \in [1..Size -> Sent \cup {"none"}]
    OBVIOUS
  <2>3. blocks' \in [Runs -> [1..Size -> Sent \cup {"none"}]]
    BY <1>3, <2>2 DEF Truncate
  <2>4. open' \in [Runs -> [file : Runs \cup {NoFile}, offset : 0..Size,
                            sent : Sent \cup {"none"}]]
    BY <1>3, <2>1 DEF Truncate
  <2> QED
    BY <1>3, <2>1, <2>3, <2>4 DEF Truncate
<1>4. ASSUME NEW r \in Runs, Write(r) PROVE TypeOK'
  <2> DEFINE f == open[r].file
             n == open'[r].offset
  <2>1. /\ n \in 1..Size
        /\ open' \in [Runs -> [file : Runs \cup {NoFile}, offset : 0..Size,
                               sent : Sent \cup {"none"}]]
    <3>1. /\ open[r].offset \in 0..Size /\ open[r].offset < Size
          /\ open' = [open EXCEPT ![r].offset = open[r].offset + 1]
      BY <1>4 DEF Write
    <3>2. open[r].offset + 1 \in 1..Size /\ open[r].offset + 1 \in 0..Size
      BY <3>1
    <3>3. n = open[r].offset + 1
      BY <3>1
    <3> QED
      BY <3>1, <3>2, <3>3
  <2>2. open[r].sent \in Sent \cup {"none"}
    OBVIOUS
  <2>3. blocks' \in [Runs -> [1..Size -> Sent \cup {"none"}]]
    <3>1. CASE f \in Runs
      BY <1>4, <2>1, <2>2, <3>1 DEF Write
    <3>2. CASE f \notin Runs
      BY <1>4, <3>2 DEF Write
    <3> QED
      BY <3>1, <3>2
  <2> QED
    BY <1>4, <2>1, <2>3 DEF Write
<1>5. ASSUME NEW r \in Runs, DownloadFails(r) PROVE TypeOK'
  BY <1>5 DEF DownloadFails
<1>6. ASSUME NEW r \in Runs, DownloadEnds(r) PROVE TypeOK'
  BY <1>6 DEF DownloadEnds
<1>7. ASSUME NEW r \in Runs, Rename(r) PROVE TypeOK'
  BY <1>7 DEF Rename
<1>8. ASSUME NEW r \in Runs, Strip(r) PROVE TypeOK'
  BY <1>8 DEF Strip
<1>9. ASSUME NEW r \in Runs, Copy(r) \/ Copied(r) PROVE TypeOK'
  BY <1>9 DEF Copy, Copied
<1>10. ASSUME NEW r \in Runs, Stripped(r) PROVE TypeOK'
  BY <1>10 DEF Stripped
<1>11. ASSUME NEW r \in Runs, Die(r) PROVE TypeOK'
  BY <1>11 DEF Die
<1>12. CASE UNCHANGED vars
  BY <1>12 DEF vars
<1> QED
  BY <1>1, <1>2, <1>3, <1>4, <1>5, <1>6, <1>7, <1>8, <1>9, <1>10, <1>11, <1>12 DEF Next

LEMMA TypeHolds == Spec => []TypeOK
  BY ArtifactInitType, ArtifactNextType, PTL DEF Spec

-----------------------------------------------------------------------------
(* The invariant, for runs that do not overlap                             *)

LEMMA ArtifactInitInv == Init => ArtifactInv
<1> SUFFICES ASSUME Init PROVE ArtifactInv
  OBVIOUS
<1>1. Alone /\ CompleteIsVerified /\ FetchInv /\ LocalInv
  BY DEF Init, Alone, CompleteIsVerified, FetchInv, LocalInv, Fetching, Stripping, Running
<1>2. CopyInv /\ HandsOutWhole /\ HandedInv
  BY DEF Init, CopyInv, HandsOutWhole, HandedInv, Running
<1> QED
  BY <1>1, <1>2 DEF ArtifactInv

\* What a step of run r says of the others: they stay where they are, and if r is running
\* they are not.
LEMMA OthersStay ==
  ASSUME TypeOK, NEW r \in Runs,
         \/ Start(r) \/ Download(r) \/ Truncate(r) \/ Write(r) \/ DownloadFails(r)
         \/ DownloadEnds(r) \/ Rename(r)
         \/ Strip(r) \/ Copy(r) \/ Copied(r) \/ Stripped(r) \/ Die(r),
         NEW q \in Runs, q # r
  PROVE  pc'[q] = pc[q] /\ out'[q] = out[q] /\ (q \in dead' <=> q \in dead)
BY DEF Start, Download, Truncate, Write, DownloadFails, DownloadEnds, Rename, Strip, Copy,
       Copied, Stripped, Die, TypeOK, Goto, Gives

\* While r fetches or strips nobody else runs, and when it starts nobody does.
LEMMA OthersStopped ==
  ASSUME TypeOK, Alone, MayOverlap = FALSE, NEW r \in Runs,
         \/ Start(r) \/ Download(r) \/ Truncate(r) \/ Write(r) \/ DownloadFails(r)
         \/ DownloadEnds(r) \/ Rename(r)
         \/ Strip(r) \/ Copy(r) \/ Copied(r) \/ Stripped(r) \/ Die(r),
         NEW q \in Runs, q # r
  PROVE  ~Running(q) /\ ~Running(q)'
<1>1. ~Running(q)
  <2>1. Start(r) \/ Running(r)
    BY DEF Download, Truncate, Write, DownloadFails, DownloadEnds, Rename, Strip, Copy,
           Copied, Stripped, Die, At, Running
  <2> QED
    BY <2>1 DEF Start, Alone
<1> QED
  BY <1>1, OthersStay DEF Running

\* A fetch changes what is under the archive's name only from nothing to a match.
LEMMA FetchStep ==
  ASSUME TypeOK, ArtifactInv, MayOverlap = FALSE, NEW r \in Runs,
         \/ Start(r) \/ Download(r) \/ Truncate(r) \/ Write(r) \/ DownloadFails(r)
         \/ DownloadEnds(r) \/ Rename(r)
  PROVE  ArtifactInv'
<1>1. ASSUME NEW q \in Runs, q # r
      PROVE  /\ pc'[q] = pc[q] /\ out'[q] = out[q]
             /\ ~Running(q) /\ ~Running(q)'
  BY <1>1, OthersStay, OthersStopped DEF ArtifactInv
<1>2. UNCHANGED <<stripped, dead, out>> /\ r \notin dead
  BY DEF Start, Download, Truncate, Write, DownloadFails, DownloadEnds, Rename, At
<1>3. /\ pc[r] \in {"new", "fetch", "open", "download", "rename"}
      /\ pc'[r] \in {"fetch", "open", "download", "rename", "strip", "failed"}
  BY DEF Start, Download, Truncate, Write, DownloadFails, DownloadEnds, Rename, At, Goto,
         TypeOK
<1>4. \/ local = NoFile
      \/ Start(r) /\ UNCHANGED <<partial, local, blocks>>
  BY <1>2 DEF ArtifactInv, FetchInv, Fetching, Running, Start, Download, Truncate, Write,
         DownloadFails, DownloadEnds, Rename, At
<1>5. /\ pc'[r] = "rename" => Matches(partial)' /\ local' = NoFile
      /\ pc'[r] \in {"fetch", "open", "download"} => local' = NoFile
      /\ pc'[r] = "strip" => local' # NoFile
  <2>1. CASE Start(r)
    BY <2>1 DEF Start, Goto, TypeOK
  <2>2. CASE Download(r)
    BY <1>4, <2>2 DEF Download, Start, At, Goto, TypeOK, Matches
  <2>3. CASE Truncate(r) \/ Write(r) \/ DownloadFails(r)
    BY <1>4, <2>3 DEF Truncate, Write, DownloadFails, Start, At, Goto, TypeOK
  <2>4. CASE DownloadEnds(r)
    BY <1>4, <2>4 DEF DownloadEnds, Start, At, Goto, TypeOK, Matches
  <2>5. CASE Rename(r)
    BY <1>4, <2>5 DEF Rename, Start, At, Goto, TypeOK
  <2> QED
    BY <2>1, <2>2, <2>3, <2>4, <2>5
<1>6. local' # NoFile => Matches(local)'
  <2>1. CASE Rename(r)
    <3>1. Matches(partial)
      BY <1>2, <2>1 DEF ArtifactInv, FetchInv, Fetching, Running, Rename, At
    <3> QED
      BY <1>4, <2>1, <3>1 DEF Rename, Start, At, Matches
  <2>2. CASE ~Rename(r) /\ local = NoFile
    BY <2>2 DEF Start, Download, Truncate, Write, DownloadFails, DownloadEnds
  <2>3. CASE Start(r) /\ UNCHANGED <<partial, local, blocks>>
    BY <2>3 DEF ArtifactInv, CompleteIsVerified, Matches
  <2> QED
    BY <1>4, <2>1, <2>2, <2>3
<1>7. \A q \in Runs : pc[q] = "done" => Matches(local) /\ Matches(local)' /\ local' # NoFile
  <2> SUFFICES ASSUME NEW q \in Runs, pc[q] = "done"
               PROVE  Matches(local) /\ Matches(local)' /\ local' # NoFile
    OBVIOUS
  <2>1. local # NoFile
    BY DEF ArtifactInv, LocalInv
  <2> QED
    BY <1>4, <2>1 DEF ArtifactInv, CompleteIsVerified, Matches
<1>8. Alone'
  BY <1>1 DEF Alone
<1>9. FetchInv' /\ LocalInv'
  BY <1>1, <1>3, <1>5, <1>7 DEF FetchInv, LocalInv, Fetching, Stripping
<1>10. CopyInv'
  <2>1. \A q \in Runs : pc'[q] \in {"copy", "copying", "stripping"}
                    <=> pc[q] \in {"copy", "copying", "stripping"}
    BY <1>1, <1>3
  <2>2. \A q \in Runs : pc[q] \in {"copy", "copying", "stripping"} => pc'[q] = pc[q]
    BY <1>1, <1>3
  <2> QED
    BY <1>1, <1>2, <1>3, <2>1, <2>2 DEF ArtifactInv, CopyInv
<1>11. HandsOutWhole'
  <2>1. \A q \in dead : q \in Runs /\ pc'[q] = pc[q]
    BY <1>1, <1>2 DEF TypeOK
  <2>2. \A q \in Runs : pc'[q] = "done" => q # r /\ pc[q] = "done" /\ out'[q] = out[q]
    BY <1>1, <1>3
  <2> QED
    BY <1>2, <1>7, <2>1, <2>2 DEF ArtifactInv, HandsOutWhole
<1>12. HandedInv'
  BY <1>1, <1>2, <1>3 DEF ArtifactInv, HandedInv
<1> QED
  BY <1>6, <1>8, <1>9, <1>10, <1>11, <1>12 DEF ArtifactInv, CompleteIsVerified

\* Stripping leaves the archive alone, and what a run hands out is whole.
LEMMA StripStep ==
  ASSUME TypeOK, ArtifactInv, MayOverlap = FALSE, NEW r \in Runs,
         Strip(r) \/ Copy(r) \/ Copied(r) \/ Stripped(r) \/ Die(r)
  PROVE  ArtifactInv'
<1>1. ASSUME NEW q \in Runs, q # r
      PROVE  /\ pc'[q] = pc[q] /\ out'[q] = out[q]
             /\ ~Running(q) /\ ~Running(q)'
  BY <1>1, OthersStay, OthersStopped DEF ArtifactInv
<1>2. UNCHANGED <<partial, local, blocks>> /\ r \notin dead /\ Running(r)
  BY DEF Strip, Copy, Copied, Stripped, Die, At, Running
<1>3. UNCHANGED Matches(local) /\ UNCHANGED Matches(partial)
  BY <1>2 DEF Matches
<1>4. Running(r)' => \/ /\ Copy(r) \/ Copied(r) \/ (Strip(r) /\ pc'[r] = "copy")
                        /\ Stripping(r)
  BY <1>2 DEF Strip, Copy, Copied, Stripped, Die, At, Goto, Gives, Running, Stripping, TypeOK
<1>5. Stripping(r) => Matches(local) /\ local # NoFile
  BY DEF ArtifactInv, LocalInv, CompleteIsVerified
<1>6. Alone' /\ CompleteIsVerified'
  BY <1>1, <1>2, <1>3 DEF Alone, ArtifactInv, CompleteIsVerified
<1>7. ASSUME NEW q \in Runs
      PROVE  /\ Fetching(q)' => FALSE
             /\ Stripping(q)' \/ pc'[q] = "done" => local # NoFile
  <2>1. CASE q # r
    BY <1>1, <2>1 DEF Fetching, Stripping, ArtifactInv, LocalInv
  <2>2. CASE q = r /\ Die(r)
    BY <1>2, <2>2 DEF Die, Fetching, Stripping, Running, ArtifactInv, LocalInv
  <2>3. CASE q = r /\ ~Die(r)
    BY <1>2, <1>5, <2>3
       DEF Strip, Copy, Copied, Stripped, At, Goto, Gives, Fetching, Stripping, TypeOK
  <2> QED
    BY <2>1, <2>2, <2>3
<1>8. FetchInv' /\ LocalInv'
  BY <1>2, <1>7 DEF FetchInv, LocalInv
\* Where a copy is left unstripped, somebody is at work on it or has died over it.
<1>9. CopyInv'
  <2>1. CASE Strip(r)
    BY <1>1, <1>2, <2>1 DEF ArtifactInv, CopyInv, Strip, At, Goto, Gives, TypeOK
  <2>2. CASE Copy(r)
    BY <1>1, <1>2, <2>2 DEF CopyInv, Copy, At, Goto, TypeOK
  <2>3. CASE Copied(r)
    BY <1>1, <1>2, <1>5, <2>3 DEF CopyInv, Copied, At, Goto, TypeOK, Stripping
  <2>4. CASE Stripped(r)
    BY <1>1, <1>2, <2>4 DEF CopyInv, Stripped, At, Goto, Gives, TypeOK, Running
  <2>5. CASE Die(r)
    BY <1>1, <1>2, <2>5 DEF ArtifactInv, CopyInv, Die, Running
  <2> QED
    BY <2>1, <2>2, <2>3, <2>4, <2>5
<1>10. ASSUME NEW q \in Runs, pc'[q] = "done"
       PROVE  \/ out'[q] = "local" /\ Matches(local)
              \/ out'[q] = "stripped" /\ stripped' = "stripped"
              \/ out'[q] = "stripped" /\ \E p \in dead' : pc'[p] \in {"copying", "stripping"}
  <2>1. \A p \in dead : p \in dead' /\ pc'[p] = pc[p]
    BY <1>1, <1>2 DEF Strip, Copy, Copied, Stripped, Die, TypeOK
  <2>2. CASE q = r
    <3>1. Strip(r) \/ Stripped(r)
      BY <1>2, <1>10, <2>2 DEF Strip, Copy, Copied, Stripped, Die, At, Goto, Running, TypeOK
    <3>2. CASE Stripped(r)
      BY <1>2, <1>5, <1>10, <2>2, <3>2
         DEF Stripped, Gives, At, Goto, TypeOK, Stripping, ArtifactInv, CopyInv
    <3>3. CASE Strip(r)
      <4>1. \/ out'[r] = "local"
            \/ out'[r] = "stripped" /\ stripped # "absent"
        BY <1>10, <2>2, <3>3 DEF Strip, Gives, At, Goto, TypeOK
      <4>2. Matches(local)
        BY <1>2, <1>5, <3>3 DEF Strip, At, Stripping
      <4>3. CASE stripped \in {"part", "copy"}
        <5>1. PICK p \in Runs : pc[p] \in {"copying", "stripping"}
          BY <4>3 DEF ArtifactInv, CopyInv
        <5>2. p # r /\ p \in dead
          BY <1>1, <3>3, <5>1 DEF Strip, At, Running
        <5> QED
          BY <2>1, <2>2, <4>1, <4>2, <5>1, <5>2
      <4> QED
        BY <2>2, <3>3, <4>1, <4>2, <4>3 DEF Strip, TypeOK
    <3> QED
      BY <3>1, <3>2, <3>3
  <2>3. CASE q # r
    <3>1. pc[q] = "done" /\ out'[q] = out[q]
      BY <1>1, <1>10, <2>3
    <3>2. CASE \E p \in dead : pc[p] \in {"copying", "stripping"}
      BY <2>1, <3>1, <3>2 DEF ArtifactInv, HandsOutWhole
    <3>3. CASE ~\E p \in dead : pc[p] \in {"copying", "stripping"}
      <4>1. out[q] = "stripped" => stripped = "stripped"
        BY <3>1, <3>3 DEF ArtifactInv, HandsOutWhole
      <4>2. stripped = "stripped" => stripped' = "stripped"
        BY <1>2 DEF Strip, Copy, Copied, Stripped, Die, At, ArtifactInv, CopyInv
      <4> QED
        BY <3>1, <3>3, <4>1, <4>2 DEF ArtifactInv, HandsOutWhole
    <3> QED
      BY <3>2, <3>3
  <2> QED
    BY <2>2, <2>3
<1>11. HandsOutWhole'
  BY <1>2, <1>3, <1>10 DEF HandsOutWhole
\* A run goes on to copy only where there is no copy, and with one handed out there is.
<1>12. HandedInv'
  <2> SUFFICES ASSUME NEW q \in Runs, pc'[q] = "done", out'[q] = "stripped"
               PROVE  /\ stripped' # "absent"
                      /\ \A p \in Runs :
                           Running(p)' => pc'[p] \notin {"copy", "copying", "stripping"}
    BY DEF HandedInv
  <2>1. CASE q = r
    <3>1. ~Running(r)'
      BY <2>1 DEF Running
    <3>2. stripped' # "absent"
      BY <1>2, <2>1
         DEF Strip, Copy, Copied, Stripped, Die, At, Goto, Gives, Running, TypeOK
    <3> QED
      BY <1>1, <3>1, <3>2
  <2>2. CASE q # r
    <3>1. pc[q] = "done" /\ out[q] = "stripped"
      BY <1>1, <2>2
    <3>2. stripped # "absent" /\ pc[r] \notin {"copy", "copying", "stripping"}
      BY <1>2, <3>1 DEF ArtifactInv, HandedInv
    <3>3. Strip(r) \/ Die(r)
      BY <3>2 DEF Copy, Copied, Stripped, At
    <3>4. stripped' = stripped /\ (Running(r)' => pc'[r] \notin {"copy", "copying", "stripping"})
      BY <1>2, <3>2, <3>3 DEF Strip, Die, At, Goto, Gives, Running, TypeOK
    <3> QED
      BY <1>1, <3>2, <3>4
  <2> QED
    BY <2>1, <2>2
<1> QED
  BY <1>6, <1>8, <1>9, <1>11, <1>12 DEF ArtifactInv

LEMMA ArtifactNextInv ==
  ASSUME MayOverlap = FALSE
  PROVE  TypeOK /\ ArtifactInv /\ [Next]_vars => ArtifactInv'
<1> SUFFICES ASSUME TypeOK, ArtifactInv, [Next]_vars PROVE ArtifactInv'
  OBVIOUS
<1>1. CASE UNCHANGED vars
  BY <1>1 DEF vars, ArtifactInv, Alone, CompleteIsVerified, FetchInv, LocalInv, CopyInv,
              HandsOutWhole, HandedInv, Fetching, Stripping, Running, Matches
<1> QED
  BY <1>1, FetchStep, StripStep DEF Next

\* What runs that do not overlap maintain.
THEOREM ArtifactInvariant ==
  ASSUME MayOverlap = FALSE
  PROVE  Spec => []ArtifactInv
<1>1. TypeOK /\ ArtifactInv /\ [Next]_vars => ArtifactInv'
  BY ArtifactNextInv
<1> QED
  BY <1>1, ArtifactInitInv, TypeHolds, PTL DEF Spec

-----------------------------------------------------------------------------
(* What it says                                                            *)

\* An archive under its final name is the one the digest describes, wherever earlier runs
\* died (cmake/artifacts.cmake:129-130).
THEOREM CompleteIsVerifiedCorrect ==
  ASSUME MayOverlap = FALSE
  PROVE  Spec => []CompleteIsVerified
<1>1. ArtifactInv => CompleteIsVerified
  BY DEF ArtifactInv
<1> QED
  BY <1>1, ArtifactInvariant, PTL

\* A build is handed the verified archive, or a whole stripped copy of it unless a run
\* died over the copy (cmake/artifacts.cmake:81-88).
THEOREM HandsOutWholeCorrect ==
  ASSUME MayOverlap = FALSE
  PROVE  Spec => []HandsOutWhole
<1>1. ArtifactInv => HandsOutWhole
  BY DEF ArtifactInv
<1> QED
  BY <1>1, ArtifactInvariant, PTL

\* The archive stays as it arrived, through the runs that follow
\* (cmake/artifacts.cmake:58-59).
THEOREM DownloadLeftAloneCorrect ==
  ASSUME MayOverlap = FALSE
  PROVE  Spec => DownloadLeftAlone
<1>1. ASSUME TypeOK, ArtifactInv, [Next]_vars, Matches(local)
      PROVE  local' = local /\ blocks'[local] = blocks[local]
  <2>1. local # NoFile
    BY <1>1 DEF Matches
  <2>2. ASSUME NEW r \in Runs,
               Truncate(r) \/ Write(r) \/ Rename(r)
        PROVE  FALSE
    BY <1>1, <2>1, <2>2 DEF Truncate, Write, Rename, At, ArtifactInv, FetchInv, Fetching, Running
  <2> QED
    BY <1>1, <2>2 DEF Next, Start, Download, DownloadFails, DownloadEnds, Strip, Copy, Copied,
                      Stripped, Die, vars
<1>2. TypeOK /\ ArtifactInv /\ [Next]_vars =>
        [Matches(local) => local' = local /\ blocks'[local] = blocks[local]]_vars
  BY <1>1
<1> QED
  BY <1>2, TypeHolds, ArtifactInvariant, PTL DEF Spec, DownloadLeftAlone

\* The file a build was given, the archive or its stripped copy, is neither rewritten nor
\* removed by any later run, though all of them share the directory
\* (cmake/artifacts.cmake:91-92).
THEOREM LinkedFilesStayCorrect ==
  ASSUME MayOverlap = FALSE
  PROVE  Spec => LinkedFilesStay
<1> DEFINE Stays(r) == IF out[r] = "stripped" THEN stripped' = stripped
                       ELSE local' = local /\ blocks'[local] = blocks[local]
<1>1. ASSUME TypeOK, ArtifactInv, [Next]_vars, NEW r \in Runs, pc[r] = "done"
      PROVE  Stays(r)
  <2>1. CASE out[r] = "stripped"
    <3>1. ASSUME NEW q \in Runs, Copy(q) \/ Copied(q) \/ Stripped(q)
          PROVE  FALSE
      BY <1>1, <2>1, <3>1
         DEF Copy, Copied, Stripped, At, Running, ArtifactInv, HandedInv
    <3> QED
      BY <1>1, <2>1, <3>1 DEF Next, Start, Download, Truncate, Write, DownloadFails,
                              DownloadEnds, Rename, Strip, Die, vars
  <2>2. CASE out[r] # "stripped"
    <3>1. local # NoFile
      BY <1>1 DEF ArtifactInv, LocalInv
    <3>2. ASSUME NEW q \in Runs, Truncate(q) \/ Write(q) \/ Rename(q)
          PROVE  FALSE
      BY <1>1, <3>1, <3>2
         DEF Truncate, Write, Rename, At, ArtifactInv, FetchInv, Fetching, Running
    <3> QED
      BY <1>1, <2>2, <3>2 DEF Next, Start, Download, DownloadFails, DownloadEnds, Strip, Copy,
                              Copied, Stripped, Die, vars
  <2> QED
    BY <2>1, <2>2
<1>2. TypeOK /\ ArtifactInv /\ [Next]_vars =>
        [\A r \in Runs : pc[r] = "done" => Stays(r)]_vars
  BY <1>1
<1> QED
  BY <1>2, TypeHolds, ArtifactInvariant, PTL DEF Spec, LinkedFilesStay
=============================================================================
