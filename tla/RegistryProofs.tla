---------------------------- MODULE RegistryProofs ----------------------------
(***************************************************************************)
(* Proofs about RegistryPipeline, for any models, commits, verdicts and    *)
(* runs of the programs.                                                   *)
(***************************************************************************)
EXTENDS RegistryPipeline, TLAPS

\* What holds of every entry, in the manifest and in a pin run's copy of it.
Sound(entry) ==
  /\ OfOneCommit(entry.pins)
  /\ entry.parity # NoVerdict =>
       entry.basis # {} /\ \A c \in entry.basis : c.verdict = entry.parity
  /\ \A c, d \in entry.basis : SameRun(c, d)

EntriesInv ==
  \A m \in Models :
    /\ Sound(manifest[m]) /\ Sound(lines[m])
    /\ table[m] # Absent => OfOneCommit(table[m])

\* Between the arms the vectors of the model at hand are of one revision each, unless
\* they were there before, and what was compared so far was compared like that.
SweepInv ==
  /\ sweepAt \in {"ort", "embed", "compare"} /\ ~reuse =>
       reference[sweepModel]["document"] = reference[sweepModel]["query"]
  /\ sweepAt = "compare" => embed[sweepModel]["document"] = embed[sweepModel]["query"]
  /\ \A m \in Models : summary[m] # Absent => \A c, d \in summary[m] : SameRun(c, d)

RegistryInv == TypeOK /\ EntriesInv /\ SweepInv

-----------------------------------------------------------------------------
(* Types                                                                   *)

LEMMA NewEntryType == NewEntry \in Entries /\ Sound(NewEntry)
  BY RegistryAssumption
  DEF NewEntry, Entries, Pins, Revisions, Sound, OfOneCommit

LEMMA InitRegistry == Init => RegistryInv
<1> SUFFICES ASSUME Init PROVE RegistryInv
  OBVIOUS
<1> USE RegistryAssumption
<1>1. TypeOK
  <2>1. 0 \in 0..MaxRuns /\ 0 \in Revisions
    BY DEF Revisions
  <2>2. head \in [Models -> 1..MaxCommit]
    BY DEF Init
  <2>3. manifest \in [Models -> Entries] /\ lines \in [Models -> Entries]
    BY NewEntryType DEF Init
  <2>4. table \in [Models -> Pins \cup {Absent}] /\ built \in [Models -> Pins \cup {Absent}]
    BY DEF Init
  <2>5. /\ reference \in [Models -> [Kinds -> Revisions]]
        /\ embed \in [Models -> [Kinds -> Revisions]]
    BY <2>1 DEF Init, NoVectors
  <2>6. summary \in [Models -> (SUBSET Comparisons) \cup {Absent}]
    BY DEF Init
  <2> QED
    BY <2>1, <2>2, <2>3, <2>4, <2>5, <2>6 DEF Init, TypeOK
<1>2. EntriesInv /\ SweepInv
  BY NewEntryType DEF Init, EntriesInv, SweepInv
<1> QED
  BY <1>1, <1>2 DEF RegistryInv

-----------------------------------------------------------------------------
(* Pinning                                                                 *)

LEMMA UpstreamStep ==
  ASSUME RegistryInv, NEW m \in Models, Upstream(m)
  PROVE  RegistryInv'
<1>1. TypeOK'
  BY RegistryAssumption DEF Upstream, RegistryInv, TypeOK, pinVars, sweepVars
<1>2. EntriesInv' /\ SweepInv'
  BY DEF Upstream, RegistryInv, EntriesInv, SweepInv, pinVars, sweepVars
<1> QED
  BY <1>1, <1>2 DEF RegistryInv

LEMMA PinStep ==
  ASSUME RegistryInv, Pin
  PROVE  RegistryInv'
<1> USE RegistryAssumption DEF RegistryInv
<1>1. UNCHANGED <<head, table, version, built, sweepVars>>
  BY DEF Pin, PinStart, ResolveCommit, ResolveFiles, PinWrite, PinDies
<1>2. SweepInv'
  BY <1>1 DEF SweepInv, sweepVars
<1>3. CASE PinStart
  <2>1. TypeOK'
    BY <1>3 DEF PinStart, StartRun, TypeOK, sweepVars
  <2>2. EntriesInv'
    BY <1>3 DEF PinStart, EntriesInv
  <2> QED
    BY <1>2, <2>1, <2>2
<1>4. ASSUME NEW m \in Models, ResolveCommit(m) PROVE RegistryInv'
  <2>1. TypeOK'
    BY <1>4 DEF ResolveCommit, TypeOK, sweepVars
  <2>2. EntriesInv'
    BY <1>4 DEF ResolveCommit, EntriesInv
  <2> QED
    BY <1>2, <2>1, <2>2
<1>5. CASE ResolveFiles
  <2>1. pinModel \in Models /\ pinCommit \in Revisions /\ lines \in [Models -> Entries]
    BY <1>5 DEF ResolveFiles, TypeOK, Revisions
  <2>2. ASSUME NEW m \in Models
        PROVE  lines'[m] \in Entries /\ Sound(lines'[m])
    <3>1. CASE lines' = lines
      BY <2>1, <3>1 DEF EntriesInv
    <3>2. CASE lines' = [lines EXCEPT ![pinModel].pins =
                 [revision |-> pinCommit, onnx_sha256 |-> pinCommit,
                  tokenizer_sha256 |-> pinCommit]]
      <4>1. CASE m # pinModel
        BY <2>1, <3>2, <4>1 DEF EntriesInv
      <4>2. CASE m = pinModel
        <5>1. lines[m] \in Entries /\ Sound(lines[m])
          BY <2>1 DEF EntriesInv
        <5>2. /\ lines'[m] \in Entries
              /\ lines'[m].parity = lines[m].parity /\ lines'[m].basis = lines[m].basis
              /\ lines'[m].pins = [revision |-> pinCommit, onnx_sha256 |-> pinCommit,
                                   tokenizer_sha256 |-> pinCommit]
          BY <2>1, <3>2, <4>2, <5>1 DEF Entries, Pins
        <5> QED
          BY <5>1, <5>2 DEF Sound, OfOneCommit
      <4> QED
        BY <4>1, <4>2
    <3> QED
      BY <1>5, <3>1, <3>2 DEF ResolveFiles, TreeOf
  <2>3. lines' \in [Models -> Entries]
    <3>1. lines' = [m \in Models |-> lines'[m]]
      BY <1>5, <2>1 DEF ResolveFiles
    <3> QED
      BY <2>2, <3>1
  <2>4. TypeOK'
    BY <1>5, <2>3 DEF ResolveFiles, TypeOK, sweepVars
  <2>5. EntriesInv'
    BY <1>5, <2>2 DEF ResolveFiles, EntriesInv
  <2> QED
    BY <1>2, <2>4, <2>5
<1>6. CASE PinWrite
  <2>1. TypeOK'
    BY <1>6, NewEntryType DEF PinWrite, NoPinRun, TypeOK, sweepVars
  <2>2. EntriesInv'
    BY <1>6, NewEntryType DEF PinWrite, NoPinRun, EntriesInv, TypeOK
  <2> QED
    BY <1>2, <2>1, <2>2
<1>7. CASE PinDies
  <2>1. TypeOK'
    BY <1>7, NewEntryType DEF PinDies, NoPinRun, TypeOK, sweepVars
  <2>2. EntriesInv'
    BY <1>7, NewEntryType DEF PinDies, NoPinRun, EntriesInv
  <2> QED
    BY <1>2, <2>1, <2>2
<1> QED
  BY <1>3, <1>4, <1>5, <1>6, <1>7 DEF Pin

-----------------------------------------------------------------------------
(* The sweep                                                               *)

LEMMA SweepStartStep ==
  ASSUME RegistryInv, NEW models \in (SUBSET Models) \ {{}}, NEW skip \in BOOLEAN,
         SweepStart(models, skip)
  PROVE  RegistryInv'
<1> USE RegistryAssumption DEF RegistryInv
<1>1. TypeOK'
  BY DEF SweepStart, StartRun, TypeOK, pinVars
<1>2. EntriesInv' /\ SweepInv'
  BY DEF SweepStart, EntriesInv, SweepInv, pinVars
<1> QED
  BY <1>1, <1>2

\* Both directions written means the same revision in both.
LEMMA WrittenType ==
  ASSUME NEW old \in [Kinds -> Revisions], NEW kinds \in Written, NEW revision \in Revisions
  PROVE  /\ Writes(old, kinds, revision) \in [Kinds -> Revisions]
         /\ kinds = Kinds => Writes(old, kinds, revision)["document"]
                               = Writes(old, kinds, revision)["query"]
  BY DEF Writes, Kinds

\* An arm that failed leaves nothing to compare.
LEMMA FailedSummary ==
  ASSUME RegistryInv, NEW m \in Models, Failed(m)
  PROVE  /\ sweepAt' = "next"
         /\ summary' \in [Models -> (SUBSET Comparisons) \cup {Absent}]
         /\ \A o \in Models : summary'[o] # Absent => \A c, d \in summary'[o] : SameRun(c, d)
  BY DEF Failed, RegistryInv, TypeOK, SweepInv

LEMMA ReferenceStep ==
  ASSUME RegistryInv, NEW m \in Models, RunReference(m)
  PROVE  RegistryInv'
<1> USE RegistryAssumption DEF RegistryInv
<1> DEFINE revision == manifest[m].pins.revision
<1>1. revision \in Revisions
  BY DEF TypeOK, Entries, Pins
<1>2. UNCHANGED <<runs, head, manifest, table, version, built, pinAt, pinTodo, pinModel,
                  pinCommit, lines, embed, reuse>>
  BY DEF RunReference, pinVars
<1>3. sweepTodo' \subseteq Models /\ sweepModel' = m
  BY DEF RunReference, TypeOK
<1>4. EntriesInv'
  BY <1>2 DEF EntriesInv
<1>5. CASE reuse
  <2>1. sweepAt' = "ort" /\ UNCHANGED <<reference, summary>>
    BY <1>5 DEF RunReference
  <2>2. TypeOK'
    BY <1>2, <1>3, <2>1 DEF TypeOK
  <2>3. SweepInv'
    BY <1>2, <1>5, <2>1 DEF SweepInv
  <2> QED
    BY <1>4, <2>2, <2>3
<1>6. CASE ~reuse
  <2>1. PICK kinds \in Written :
          /\ reference' = [reference EXCEPT ![m] = Writes(reference[m], kinds, revision)]
          /\ AfterReference(m, kinds)
    BY <1>6 DEF RunReference
  <2>2. reference[m] \in [Kinds -> Revisions]
    BY DEF TypeOK
  <2>3. reference' \in [Models -> [Kinds -> Revisions]]
    BY <1>1, <2>1, <2>2, WrittenType DEF TypeOK
  <2>4. CASE kinds = Kinds
    <3>1. sweepAt' = "ort" /\ UNCHANGED summary
      BY <2>1, <2>4 DEF AfterReference
    <3>2. reference'[m] = Writes(reference[m], kinds, revision)
      BY <2>1 DEF TypeOK
    <3>3. reference'[m]["document"] = reference'[m]["query"]
      BY <1>1, <2>2, <2>4, <3>2, WrittenType
    <3>4. TypeOK'
      BY <1>2, <1>3, <2>3, <3>1 DEF TypeOK
    <3>5. SweepInv'
      BY <1>2, <1>3, <3>1, <3>3 DEF SweepInv
    <3> QED
      BY <1>4, <3>4, <3>5
  <2>5. CASE kinds # Kinds
    <3>1. Failed(m)
      BY <2>1, <2>5 DEF AfterReference
    <3>2. TypeOK'
      BY <1>2, <1>3, <2>3, <3>1, FailedSummary DEF TypeOK
    <3>3. SweepInv'
      BY <3>1, FailedSummary DEF SweepInv
    <3> QED
      BY <1>4, <3>2, <3>3
  <2> QED
    BY <2>4, <2>5
<1> QED
  BY <1>5, <1>6

LEMMA OrtStep ==
  ASSUME RegistryInv, RunOrt
  PROVE  RegistryInv'
<1> USE RegistryAssumption DEF RegistryInv
<1>1. UNCHANGED <<runs, head, manifest, table, version, built, pinAt, pinTodo, pinModel,
                  pinCommit, lines, reference, embed, sweepTodo, sweepModel, reuse>>
  BY DEF RunOrt, pinVars
<1>2. EntriesInv'
  BY <1>1 DEF EntriesInv
<1>3. sweepAt = "ort" /\ sweepModel \in Models
  BY DEF RunOrt, TypeOK
<1>4. CASE sweepAt' = "embed" /\ UNCHANGED summary
  <2>1. TypeOK'
    BY <1>1, <1>3, <1>4 DEF TypeOK
  <2>2. SweepInv'
    BY <1>1, <1>3, <1>4 DEF SweepInv
  <2> QED
    BY <1>2, <2>1, <2>2
<1>5. CASE Failed(sweepModel)
  <2>1. TypeOK'
    BY <1>1, <1>3, <1>5, FailedSummary DEF TypeOK
  <2>2. SweepInv'
    BY <1>3, <1>5, FailedSummary DEF SweepInv
  <2> QED
    BY <1>2, <2>1, <2>2
<1> QED
  BY <1>4, <1>5 DEF RunOrt

LEMMA EmbedStep ==
  ASSUME RegistryInv, RunEmbed
  PROVE  RegistryInv'
<1> USE RegistryAssumption DEF RegistryInv
<1>1. UNCHANGED <<runs, head, manifest, table, version, built, pinAt, pinTodo, pinModel,
                  pinCommit, lines, reference, sweepTodo, sweepModel, reuse>>
  BY DEF RunEmbed, pinVars
<1>2. EntriesInv'
  BY <1>1 DEF EntriesInv
<1>3. sweepAt = "embed" /\ sweepModel \in Models
  BY DEF RunEmbed, TypeOK
<1>4. PICK kinds \in Written :
        /\ kinds # {} => built[sweepModel] # Absent
        /\ embed' = IF kinds = {} THEN embed
                    ELSE [embed EXCEPT ![sweepModel] =
                            Writes(embed[sweepModel], kinds, built[sweepModel].revision)]
        /\ IF kinds = Kinds THEN sweepAt' = "compare" /\ UNCHANGED summary ELSE Failed(sweepModel)
  BY DEF RunEmbed
<1>5. embed[sweepModel] \in [Kinds -> Revisions]
  BY <1>3 DEF TypeOK
<1>6. kinds # {} => built[sweepModel].revision \in Revisions
  BY <1>3, <1>4 DEF TypeOK, Pins
<1>7. embed' \in [Models -> [Kinds -> Revisions]]
  <2>1. CASE kinds = {}
    BY <1>4, <2>1 DEF TypeOK
  <2>2. CASE kinds # {}
    BY <1>3, <1>4, <1>5, <1>6, <2>2, WrittenType DEF TypeOK
  <2> QED
    BY <2>1, <2>2
<1>8. CASE kinds = Kinds
  <2>1. sweepAt' = "compare" /\ UNCHANGED summary /\ kinds # {}
    BY <1>4, <1>8 DEF Kinds
  <2>2. embed'[sweepModel] = Writes(embed[sweepModel], kinds, built[sweepModel].revision)
    BY <1>3, <1>4, <2>1 DEF TypeOK
  <2>3. embed'[sweepModel]["document"] = embed'[sweepModel]["query"]
    BY <1>5, <1>6, <1>8, <2>1, <2>2, WrittenType
  <2>4. TypeOK'
    BY <1>1, <1>3, <1>7, <2>1 DEF TypeOK
  <2>5. SweepInv'
    BY <1>1, <1>3, <2>1, <2>3 DEF SweepInv
  <2> QED
    BY <1>2, <2>4, <2>5
<1>9. CASE kinds # Kinds
  <2>1. Failed(sweepModel)
    BY <1>4, <1>9
  <2>2. TypeOK'
    BY <1>1, <1>3, <1>7, <2>1, FailedSummary DEF TypeOK
  <2>3. SweepInv'
    BY <1>3, <2>1, FailedSummary DEF SweepInv
  <2> QED
    BY <1>2, <2>2, <2>3
<1> QED
  BY <1>8, <1>9

LEMMA CompareStep ==
  ASSUME RegistryInv, Compare
  PROVE  RegistryInv'
<1> USE RegistryAssumption DEF RegistryInv
<1>1. UNCHANGED <<runs, head, manifest, table, version, built, pinAt, pinTodo, pinModel,
                  pinCommit, lines, reference, embed, sweepTodo, sweepModel, reuse>>
  BY DEF Compare, pinVars
<1>2. EntriesInv'
  BY <1>1 DEF EntriesInv
<1>3. sweepAt = "compare" /\ sweepAt' = "next" /\ sweepModel \in Models
  BY DEF Compare, TypeOK
<1> DEFINE result(verdict) ==
      {[verdict |-> verdict[k], reference |-> reference[sweepModel][k],
        embed |-> embed[sweepModel][k], reused |-> reuse] : k \in Comparable(sweepModel)}
<1>4. PICK verdict \in [Kinds -> Verdicts] :
        summary' = [summary EXCEPT ![sweepModel] = result(verdict)]
  BY DEF Compare
<1>5. result(verdict) \subseteq Comparisons
  BY <1>3 DEF Comparable, TypeOK, Comparisons
<1>6. \A c, d \in result(verdict) : SameRun(c, d)
  <2>1. embed[sweepModel]["document"] = embed[sweepModel]["query"]
    BY <1>3 DEF SweepInv
  <2>2. reuse \/ reference[sweepModel]["document"] = reference[sweepModel]["query"]
    BY <1>3 DEF SweepInv
  <2> QED
    BY <2>1, <2>2 DEF Comparable, Kinds, SameRun
<1> HIDE DEF result
<1>7. TypeOK'
  BY <1>1, <1>3, <1>4, <1>5 DEF TypeOK
<1>8. SweepInv'
  BY <1>3, <1>4, <1>6 DEF SweepInv, TypeOK
<1> QED
  BY <1>2, <1>7, <1>8

LEMMA WriteStep ==
  ASSUME RegistryInv, WriteVerdicts
  PROVE  RegistryInv'
<1> USE RegistryAssumption DEF RegistryInv
<1>1. UNCHANGED <<runs, head, table, version, built, pinAt, pinTodo, pinModel,
                  pinCommit, lines, reference, embed>>
  BY DEF WriteVerdicts, pinVars
<1>2. NoSweepRun
  BY DEF WriteVerdicts
<1>3. PICK parity \in [Models -> Verdicts \cup {NoVerdict}] :
        /\ \A m \in Models : Scored(manifest[m], summary[m], parity[m])
        /\ manifest' = [m \in Models |->
             [pins |-> manifest[m].pins, parity |-> parity[m],
              basis |-> IF summary[m] = Absent THEN manifest[m].basis ELSE summary[m]]]
  BY DEF WriteVerdicts
<1>4. ASSUME NEW m \in Models
      PROVE  manifest'[m] \in Entries /\ Sound(manifest'[m])
  <2>1. /\ manifest'[m].pins = manifest[m].pins /\ manifest'[m].parity = parity[m]
        /\ manifest'[m].basis = IF summary[m] = Absent THEN manifest[m].basis ELSE summary[m]
    BY <1>3
  <2>2. manifest[m] \in Entries /\ Sound(manifest[m])
    BY DEF TypeOK, EntriesInv
  <2>3. manifest'[m] \in Entries
    BY <1>3, <2>2 DEF TypeOK, Entries
  <2>4. CASE summary[m] = Absent
    <3>1. parity[m] = manifest[m].parity
      BY <1>3, <2>4 DEF Scored
    <3> QED
      BY <2>1, <2>2, <2>3, <2>4, <3>1 DEF Sound
  <2>5. CASE summary[m] # Absent
    <3>1. \/ Agreed(summary[m], parity[m])
          \/ parity[m] = NoVerdict
      BY <1>3, <2>5 DEF Scored
    <3>2. \A c, d \in summary[m] : SameRun(c, d)
      BY <2>5 DEF SweepInv
    <3> QED
      BY <2>1, <2>2, <2>3, <2>5, <3>1, <3>2 DEF Sound, Agreed
  <2> QED
    BY <2>4, <2>5
<1>5. manifest' \in [Models -> Entries]
  <2>1. manifest' = [m \in Models |-> manifest'[m]]
    BY <1>3
  <2> QED
    BY <1>4, <2>1
<1>6. TypeOK'
  BY <1>1, <1>2, <1>5 DEF TypeOK, NoSweepRun
<1>7. EntriesInv'
  BY <1>1, <1>4 DEF EntriesInv
<1>8. SweepInv'
  BY <1>2 DEF SweepInv, NoSweepRun
<1> QED
  BY <1>6, <1>7, <1>8

LEMMA SweepEndStep ==
  ASSUME RegistryInv, SweepEnds
  PROVE  RegistryInv'
<1> USE RegistryAssumption DEF RegistryInv
<1>1. TypeOK'
  BY DEF SweepEnds, NoSweepRun, TypeOK, pinVars
<1>2. EntriesInv' /\ SweepInv'
  BY DEF SweepEnds, NoSweepRun, EntriesInv, SweepInv, pinVars
<1> QED
  BY <1>1, <1>2

LEMMA TableStep ==
  ASSUME RegistryInv, Generate \/ Build
  PROVE  RegistryInv'
<1> USE RegistryAssumption DEF RegistryInv
<1>1. TypeOK'
  <2>1. CASE Generate
    <3>1. \A m \in Models : manifest[m].pins \in Pins
      BY DEF TypeOK, Entries
    <3>2. table' \in [Models -> Pins \cup {Absent}]
      BY <2>1, <3>1 DEF Generate
    <3>3. version' \in [Models -> Verdicts \cup {NoVerdict, Absent}]
      BY <2>1 DEF Generate, TypeOK, Entries
    <3> QED
      BY <2>1, <3>2, <3>3 DEF Generate, TypeOK, pinVars, sweepVars
  <2>2. CASE Build
    BY <2>2 DEF Build, TypeOK, pinVars, sweepVars
  <2> QED
    BY <2>1, <2>2
<1>2. EntriesInv'
  BY DEF Generate, Build, EntriesInv, Sound, pinVars
<1>3. SweepInv'
  BY DEF Generate, Build, SweepInv, sweepVars
<1> QED
  BY <1>1, <1>2, <1>3

-----------------------------------------------------------------------------
(* Theorems                                                                *)

\* The invariant holds in every reachable state.
THEOREM InvariantCorrect == Spec => []RegistryInv
<1>1. RegistryInv /\ UNCHANGED vars => RegistryInv'
  <2> SUFFICES ASSUME RegistryInv, UNCHANGED vars PROVE RegistryInv'
    OBVIOUS
  <2>1. TypeOK'
    BY DEF RegistryInv, TypeOK, vars, pinVars, sweepVars
  <2>2. EntriesInv' /\ SweepInv'
    BY DEF RegistryInv, EntriesInv, SweepInv, vars, pinVars, sweepVars
  <2> QED
    BY <2>1, <2>2 DEF RegistryInv
<1>2. RegistryInv /\ Sweep => RegistryInv'
  BY SweepStartStep, ReferenceStep, OrtStep, EmbedStep, CompareStep, WriteStep, SweepEndStep
  DEF Sweep
<1>3. RegistryInv /\ [Next]_vars => RegistryInv'
  BY <1>1, <1>2, UpstreamStep, PinStep, TableStep DEF Next
<1> QED
  BY <1>3, InitRegistry, PTL DEF Spec

\* Types hold.
THEOREM TypeCorrect == Spec => []TypeOK
<1>1. RegistryInv => TypeOK
  BY DEF RegistryInv
<1> QED
  BY <1>1, InvariantCorrect, PTL

\* The digests of every entry are of files of its revision, whenever upstream moves
\* (scripts/pin_registry.py:49-65).
THEOREM PinsCorrect == Spec => []PinsOfOneCommit
<1>1. RegistryInv => PinsOfOneCommit
  BY DEF RegistryInv, EntriesInv, Sound, PinsOfOneCommit
<1> QED
  BY <1>1, InvariantCorrect, PTL

\* A verdict in the manifest is that of every comparison made for it
\* (tests/parity/sweep.py:51-57).
THEOREM VerdictCorrect == Spec => []VerdictHasBasis
<1>1. RegistryInv => VerdictHasBasis
  BY DEF RegistryInv, EntriesInv, Sound, VerdictHasBasis
<1> QED
  BY <1>1, InvariantCorrect, PTL

\* Vectors left by an arm that failed half-way never enter a verdict, unless the
\* reference is reused (tests/parity/sweep.py:91-108).
THEOREM MeasurementCorrect == Spec => []OneMeasurement
<1>1. RegistryInv => OneMeasurement
  BY DEF RegistryInv, EntriesInv, Sound, OneMeasurement
<1> QED
  BY <1>1, InvariantCorrect, PTL

\* Whatever the registry job lets pass is pinned consistently and was measured
\* (.github/workflows/ci.yml:190-196, scripts/gen_registry.py:33-49).
THEOREM ShippedCorrect == Spec => []ShippedIsMeasured
<1>1. RegistryInv => ShippedIsMeasured
  <2> SUFFICES ASSUME RegistryInv, Ships, NEW m \in Models
               PROVE  LET e == manifest[m] IN
                        /\ table[m].revision # 0 /\ OfOneCommit(table[m])
                        /\ table[m] = e.pins /\ e.basis # {}
                        /\ \A c \in e.basis : c.verdict = e.parity
    BY DEF ShippedIsMeasured
  <2>1. table[m] = manifest[m].pins /\ Complete(manifest[m])
    BY DEF Ships, UpToDate
  <2>2. Sound(manifest[m])
    BY DEF RegistryInv, EntriesInv
  <2> QED
    BY <2>1, <2>2 DEF Complete, Sound
<1> QED
  BY <1>1, InvariantCorrect, PTL
=============================================================================
