-------------------------- MODULE RegistryPipeline --------------------------
(***************************************************************************)
(* How a model gets into a release: upstream repositories move,            *)
(* scripts/pin_registry.py pins a commit and digests in registry.yaml, the *)
(* parity sweep (tests/parity/sweep.py) measures the library against the   *)
(* reference and writes a verdict next to them, scripts/gen_registry.py    *)
(* turns the manifest into the table the library is built from, and a CI   *)
(* job decides that what is there may ship.  They are separate programs    *)
(* that people and schedules start in any order, and pinning and sweeping  *)
(* take long enough for the others to run meanwhile.                       *)
(*                                                                         *)
(* Commits of a repository are numbered as they appear, and a digest is    *)
(* the number of the commit whose file it is of; 0 is the empty string.    *)
(***************************************************************************)
EXTENDS Integers

CONSTANTS
  Models,
  Verdicts,   \* what compare.py's verdict() may come to
  NoVerdict,  \* parity: ""
  Absent,     \* not in the table, not in the summary
  MaxCommit,  \* bound on the commits of a repository
  MaxRuns     \* bound on the runs of pin_registry.py and sweep.py together

ASSUME RegistryAssumption ==
  /\ NoVerdict \notin Verdicts
  /\ MaxCommit \in Nat \ {0}
  /\ MaxRuns \in Nat

Kinds == {"document", "query"}
Revisions == 0..MaxCommit
Pins == [revision : Revisions, onnx_sha256 : Revisions, tokenizer_sha256 : Revisions]

\* What was compared for one direction of a verdict; reused says that the reference
\* vectors were there before.
Comparisons == [verdict : Verdicts, reference : Revisions, embed : Revisions, reused : BOOLEAN]

\* An entry of registry.yaml.  The file has no basis: it is where parity came from.
Entries == [pins : Pins, parity : Verdicts \cup {NoVerdict}, basis : SUBSET Comparisons]

VARIABLES
  runs,       \* runs started so far
  head,       \* head[m]: the newest commit upstream
  manifest,   \* registry.yaml
  table,      \* table[m]: the pins in src/registry_generated.hpp
  version,    \* version[m]: the parity when the table was made, a part of kRegistryVersion
  built,      \* built[m]: the table that build/embed_corpus was built from
  pinAt, pinTodo, pinModel, pinCommit,
  lines,      \* pin_registry.py's copy of the manifest
  reference,  \* reference[m][k]: the commit whose reference vectors are on disk
  embed,      \* embed[m][k]: the same for the library's vectors
  sweepAt, sweepTodo, sweepModel,
  reuse,      \* --skip-reference
  summary     \* summary[m]: the comparisons of m, none when an arm failed

pinVars == <<pinAt, pinTodo, pinModel, pinCommit, lines>>
sweepVars == <<reference, embed, sweepAt, sweepTodo, sweepModel, reuse, summary>>
vars == <<runs, head, manifest, table, version, built, pinVars, sweepVars>>

TypeOK ==
  /\ runs \in 0..MaxRuns
  /\ head \in [Models -> 1..MaxCommit]
  /\ manifest \in [Models -> Entries]
  /\ table \in [Models -> Pins \cup {Absent}]
  /\ version \in [Models -> Verdicts \cup {NoVerdict, Absent}]
  /\ built \in [Models -> Pins \cup {Absent}]
  /\ pinAt \in {"idle", "next", "tree"} /\ pinTodo \subseteq Models
  /\ pinAt = "tree" => pinModel \in Models /\ pinCommit \in 1..MaxCommit
  /\ lines \in [Models -> Entries]
  /\ reference \in [Models -> [Kinds -> Revisions]]
  /\ embed \in [Models -> [Kinds -> Revisions]]
  /\ sweepAt \in {"idle", "next", "ort", "embed", "compare"} /\ sweepTodo \subseteq Models
  /\ sweepAt \in {"ort", "embed", "compare"} => sweepModel \in Models
  /\ reuse \in BOOLEAN
  /\ summary \in [Models -> (SUBSET Comparisons) \cup {Absent}]

\* A manifest of new models: nothing pinned, measured or generated.
NewEntry ==
  [pins |-> [revision |-> 0, onnx_sha256 |-> 0, tokenizer_sha256 |-> 0],
   parity |-> NoVerdict, basis |-> {}]

NoVectors == [m \in Models |-> [k \in Kinds |-> 0]]

Init ==
  /\ runs = 0
  /\ head = [m \in Models |-> 1]
  /\ manifest = [m \in Models |-> NewEntry]
  /\ table = [m \in Models |-> Absent] /\ version = table /\ built = table
  /\ pinAt = "idle" /\ pinTodo = {} /\ pinModel = Absent /\ pinCommit = 0
  /\ lines = [m \in Models |-> NewEntry]
  /\ reference = NoVectors /\ embed = NoVectors
  /\ sweepAt = "idle" /\ sweepTodo = {} /\ sweepModel = Absent
  /\ reuse = FALSE /\ summary = [m \in Models |-> Absent]

\* What a run leaves of its locals.
NoPinRun ==
  /\ pinAt' = "idle" /\ pinTodo' = {} /\ pinModel' = Absent /\ pinCommit' = 0
  /\ lines' = [m \in Models |-> NewEntry]

NoSweepRun ==
  /\ sweepAt' = "idle" /\ sweepTodo' = {} /\ sweepModel' = Absent
  /\ reuse' = FALSE /\ summary' = [m \in Models |-> Absent]

StartRun == runs < MaxRuns /\ runs' = runs + 1

\* The owners of a model push a commit.
Upstream(m) ==
  /\ head[m] < MaxCommit
  /\ head' = [head EXCEPT ![m] = @ + 1]
  /\ UNCHANGED <<runs, manifest, table, version, built, pinVars, sweepVars>>

-----------------------------------------------------------------------------
(* pin_registry.py                                                         *)

\* The manifest is read once, and written once all models are resolved.
PinStart ==
  /\ StartRun /\ pinAt = "idle" /\ pinAt' = "next"
  /\ pinTodo' = Models /\ lines' = manifest
  /\ pinModel' = Absent /\ pinCommit' = 0
  /\ UNCHANGED <<head, manifest, table, version, built, sweepVars>>

\* resolve() asks for the newest commit first; a model that fails keeps its lines.
ResolveCommit(m) ==
  /\ pinAt = "next" /\ m \in pinTodo
  /\ pinTodo' = pinTodo \ {m}
  /\ \/ pinAt' = "tree" /\ pinModel' = m /\ pinCommit' = head[m]
     \/ UNCHANGED <<pinAt, pinModel, pinCommit>>
  /\ UNCHANGED <<runs, head, manifest, table, version, built, lines, sweepVars>>

\* Mutant: the files are looked up at the newest commit, not at the one resolved.
MutTreeOf(m) == head[m]

TreeOf(m) == pinCommit

\* Then for the tree and the tokenizer of that commit.
ResolveFiles ==
  /\ pinAt = "tree" /\ pinAt' = "next"
  /\ \/ lines' = [lines EXCEPT ![pinModel].pins =
           [revision |-> pinCommit, onnx_sha256 |-> TreeOf(pinModel),
            tokenizer_sha256 |-> TreeOf(pinModel)]]
     \/ UNCHANGED lines
  /\ UNCHANGED <<runs, head, manifest, table, version, built, pinTodo, pinModel, pinCommit,
                 sweepVars>>

PinWrite ==
  /\ pinAt = "next" /\ pinTodo = {}
  /\ manifest' = lines
  /\ NoPinRun
  /\ UNCHANGED <<runs, head, table, version, built, sweepVars>>

\* An exception that main() does not catch, such as a timeout while reading.
PinDies ==
  /\ pinAt # "idle" /\ NoPinRun
  /\ UNCHANGED <<runs, head, manifest, table, version, built, sweepVars>>

-----------------------------------------------------------------------------
(* sweep.py                                                                *)

\* Any of the models, with or without --skip-reference.
SweepStart(models, skip) ==
  /\ StartRun /\ sweepAt = "idle" /\ sweepAt' = "next"
  /\ sweepTodo' = models /\ reuse' = skip /\ sweepModel' = Absent
  /\ summary' = [m \in Models |-> Absent]
  /\ UNCHANGED <<head, manifest, table, version, built, pinVars, reference, embed>>

\* An arm writes its directions one after the other, and may fail after any.
Written == {{}, {"document"}, Kinds}

Writes(old, kinds, revision) == [k \in Kinds |-> IF k \in kinds THEN revision ELSE old[k]]

\* An arm that failed: the model has no comparisons, and the sweep goes on with the next.
Failed(m) == sweepAt' = "next" /\ summary' = [summary EXCEPT ![m] = {}]

\* Mutant: a failing reference arm is not noticed.
MutAfterReference(m, kinds) == sweepAt' = "ort" /\ UNCHANGED summary

AfterReference(m, kinds) ==
  IF kinds = Kinds THEN sweepAt' = "ort" /\ UNCHANGED summary ELSE Failed(m)

\* The reference is run at the pinned revision; one that is not pinned is not found.
RunReference(m) ==
  LET revision == manifest[m].pins.revision IN
  /\ sweepAt = "next" /\ m \in sweepTodo
  /\ sweepTodo' = sweepTodo \ {m} /\ sweepModel' = m
  /\ IF reuse
     THEN sweepAt' = "ort" /\ UNCHANGED <<reference, summary>>
     ELSE \E kinds \in Written :
            /\ kinds # {} => revision # 0
            /\ reference' = [reference EXCEPT ![m] = Writes(@, kinds, revision)]
            /\ AfterReference(m, kinds)
  /\ UNCHANGED <<runs, head, manifest, table, version, built, pinVars, embed, reuse>>

RunOrt ==
  /\ sweepAt = "ort"
  /\ \/ manifest[sweepModel].pins.revision # 0 /\ sweepAt' = "embed" /\ UNCHANGED summary
     \/ Failed(sweepModel)
  /\ UNCHANGED <<runs, head, manifest, table, version, built, pinVars, reference, embed, sweepTodo,
                 sweepModel, reuse>>

\* embed_corpus knows the models and revisions it was built with, not the manifest's.
RunEmbed ==
  LET m == sweepModel IN
  /\ sweepAt = "embed"
  /\ \E kinds \in Written :
       /\ kinds # {} => built[m] # Absent /\ built[m].revision # 0
       /\ embed' = IF kinds = {} THEN embed
                   ELSE [embed EXCEPT ![m] = Writes(@, kinds, built[m].revision)]
       /\ IF kinds = Kinds THEN sweepAt' = "compare" /\ UNCHANGED summary ELSE Failed(m)
  /\ UNCHANGED <<runs, head, manifest, table, version, built, pinVars, reference, sweepTodo,
                 sweepModel, reuse>>

\* The directions that have both files.
Comparable(m) == {k \in Kinds : reference[m][k] # 0 /\ embed[m][k] # 0}

\* compare.py says nothing about where the vectors come from.
Compare ==
  LET m == sweepModel IN
  /\ sweepAt = "compare" /\ sweepAt' = "next"
  /\ \E verdict \in [Kinds -> Verdicts] :
       summary' = [summary EXCEPT ![m] =
         {[verdict |-> verdict[k], reference |-> reference[m][k], embed |-> embed[m][k],
           reused |-> reuse] : k \in Comparable(m)}]
  /\ UNCHANGED <<runs, head, manifest, table, version, built, pinVars, reference, embed, sweepTodo,
                 sweepModel, reuse>>

\* Mutant: one of the directions decides.
MutAgreed(comparisons, v) == \E c \in comparisons : c.verdict = v

\* The one verdict of all directions, if there is one.
Agreed(comparisons, v) == comparisons # {} /\ \A c \in comparisons : c.verdict = v

\* write_verdicts(): a model of the sweep without an agreed verdict gets none, and
\* models outside it keep theirs.
Scored(entry, comparisons, v) ==
  IF comparisons = Absent THEN v = entry.parity
  ELSE \/ v \in Verdicts /\ Agreed(comparisons, v)
       \/ v = NoVerdict /\ ~\E w \in Verdicts : Agreed(comparisons, w)

WriteVerdicts ==
  /\ sweepAt = "next" /\ sweepTodo = {}
  /\ \E parity \in [Models -> Verdicts \cup {NoVerdict}] :
       /\ \A m \in Models : Scored(manifest[m], summary[m], parity[m])
       /\ manifest' = [m \in Models |->
            [pins |-> manifest[m].pins, parity |-> parity[m],
             basis |-> IF summary[m] = Absent THEN manifest[m].basis ELSE summary[m]]]
  /\ NoSweepRun
  /\ UNCHANGED <<runs, head, table, version, built, pinVars, reference, embed>>

\* Stopped half-way, or run with --no-write-back.
SweepEnds ==
  /\ sweepAt # "idle" /\ NoSweepRun
  /\ UNCHANGED <<runs, head, manifest, table, version, built, pinVars, reference, embed>>

-----------------------------------------------------------------------------
(* gen_registry.py, the build and CI                                       *)

\* Without --strict, which a new model needs so that embed_corpus knows it.
Generate ==
  /\ table' = [m \in Models |-> manifest[m].pins]
  /\ version' = [m \in Models |-> manifest[m].parity]
  /\ UNCHANGED <<runs, head, manifest, built, pinVars, sweepVars>>

Build ==
  /\ built' = table
  /\ UNCHANGED <<runs, head, manifest, table, version, pinVars, sweepVars>>

\* Mutant: the verdict is not among the fields that --strict asks for.
MutComplete(entry) ==
  /\ entry.pins.revision # 0
  /\ entry.pins.onnx_sha256 # 0 /\ entry.pins.tokenizer_sha256 # 0

\* What --strict asks of an entry.
Complete(entry) ==
  /\ entry.pins.revision # 0
  /\ entry.pins.onnx_sha256 # 0 /\ entry.pins.tokenizer_sha256 # 0
  /\ entry.parity # NoVerdict

UpToDate(m) == table[m] = manifest[m].pins /\ version[m] = manifest[m].parity

\* The registry job passes: the committed table is the manifest's, and the manifest is
\* complete.  This is what ships.
Ships == \A m \in Models : UpToDate(m) /\ Complete(manifest[m])

-----------------------------------------------------------------------------
Pin == PinStart \/ (\E m \in Models : ResolveCommit(m)) \/ ResolveFiles \/ PinWrite \/ PinDies

Sweep ==
  \/ \E models \in (SUBSET Models) \ {{}}, skip \in BOOLEAN : SweepStart(models, skip)
  \/ \E m \in Models : RunReference(m)
  \/ RunOrt \/ RunEmbed \/ Compare \/ WriteVerdicts \/ SweepEnds

Next == (\E m \in Models : Upstream(m)) \/ Pin \/ Sweep \/ Generate \/ Build

Spec == Init /\ [][Next]_vars

-----------------------------------------------------------------------------
(* Safety                                                                  *)

OfOneCommit(pins) ==
  pins.onnx_sha256 = pins.revision /\ pins.tokenizer_sha256 = pins.revision

\* The digests of an entry are of files of the revision it names, though upstream moves
\* while they are being looked up; so a download at that revision passes the check.
PinsOfOneCommit ==
  \A m \in Models :
    /\ OfOneCommit(manifest[m].pins)
    /\ table[m] # Absent => OfOneCommit(table[m])

\* A verdict in the manifest is what all the comparisons behind it came to, after
\* failing arms, directions that disagree, and a pin run that wrote an older copy.
VerdictHasBasis ==
  \A m \in Models : LET e == manifest[m] IN
    e.parity # NoVerdict => e.basis # {} /\ \A c \in e.basis : c.verdict = e.parity

\* Both directions of a verdict are of the same library build and, unless the reference
\* vectors were reused, of the same reference: a reference or library arm that fails
\* between its directions leaves vectors of two revisions on disk, but no verdict.
SameRun(c, d) == c.embed = d.embed /\ (c.reused \/ d.reused \/ c.reference = d.reference)

OneMeasurement == \A m \in Models : \A c, d \in manifest[m].basis : SameRun(c, d)

\* What ships is pinned, loads what it is pinned to, and was measured.
ShippedIsMeasured ==
  Ships =>
    \A m \in Models : LET e == manifest[m] IN
      /\ table[m].revision # 0 /\ OfOneCommit(table[m])
      /\ table[m] = e.pins /\ e.basis # {} /\ \A c \in e.basis : c.verdict = e.parity

-----------------------------------------------------------------------------
(* What the documentation says                                             *)

\* A verdict "that drifts from what was measured is worse than none, because it is the
\* field that decides whether a model may ship" (tests/parity/sweep.py:37-39): what
\* ships was measured at the revision that ships.
ShippedAsMeasured ==
  Ships =>
    \A m \in Models : \A c \in manifest[m].basis :
      c.reference = table[m].revision /\ c.embed = table[m].revision
=============================================================================
