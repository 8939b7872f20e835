--------------------------- MODULE ArtifactCache ---------------------------
(***************************************************************************)
(* cyborgdb_embed_fetch_artifact and cyborgdb_embed_strip_artifact         *)
(* (cmake/artifacts.cmake): runs of CMake that share one .artifacts        *)
(* directory, for one archive at one tag.  A run may die at any step.      *)
(*                                                                         *)
(* A file is named by the run that created it and keeps its name when it   *)
(* is renamed, so a run that has it open goes on writing to it.  That is   *)
(* what file(DOWNLOAD) does, with strip the external part: it takes a file *)
(* that has the expected hash already, else opens it, truncated, writes it *)
(* from the front, and fails unless what is under the name matches at the  *)
(* end.                                                                    *)
(***************************************************************************)
EXTENDS Integers

CONSTANTS
  Runs,        \* configure runs, one after the other or at once
  NoFile,      \* no file under a name
  Size,        \* blocks of the archive
  Sent,        \* what the server may send: the right bytes, the wrong ones
  MayOverlap   \* may runs of two build directories overlap?

ASSUME ArtifactAssumption == Size \in Nat \ {0} /\ Sent \subseteq {"right", "wrong"}

VARIABLES
  partial,   \* the file under "${local}.partial"
  local,     \* the file under "${local}"
  blocks,    \* blocks[f]: what each block of file f holds
  stripped,  \* what is under "-local-stripped.a"
  pc,        \* pc[r]: where run r is
  open,      \* open[r]: the file that run r writes, its offset and what it is sent
  out,       \* out[r]: the archive run r hands to its build
  dead       \* the runs that died where they were

vars == <<partial, local, blocks, stripped, pc, open, out, dead>>

NotOpen == [file |-> NoFile, offset |-> 0, sent |-> "none"]

TypeOK ==
  /\ {partial, local} \subseteq Runs \cup {NoFile}
  /\ blocks \in [Runs -> [1..Size -> Sent \cup {"none"}]]
  /\ stripped \in {"absent", "part", "copy", "stripped"}
  /\ pc \in [Runs -> {"new", "fetch", "open", "download", "rename", "strip", "copy",
                      "copying", "stripping", "done", "failed"}]
  /\ open \in [Runs -> [file : Runs \cup {NoFile}, offset : 0..Size, sent : Sent \cup {"none"}]]
  /\ out \in [Runs -> {"none", "local", "stripped"}]
  /\ dead \subseteq Runs

Init ==
  /\ partial = NoFile /\ local = NoFile /\ stripped = "absent"
  /\ blocks = [r \in Runs |-> [b \in 1..Size |-> "none"]]
  /\ pc = [r \in Runs |-> "new"]
  /\ open = [r \in Runs |-> NotOpen]
  /\ out = [r \in Runs |-> "none"]
  /\ dead = {}

At(r, label) == r \notin dead /\ pc[r] = label
Goto(r, label) == pc' = [pc EXCEPT ![r] = label]
Running(r) == r \notin dead /\ pc[r] \notin {"new", "done", "failed"}
Matches(f) == f # NoFile /\ \A b \in 1..Size : blocks[f][b] = "right"

-----------------------------------------------------------------------------
(* cyborgdb_embed_fetch_artifact                                           *)

\* if(EXISTS "${local}"); an archive without a recorded digest is not fetched at all.
Start(r) ==
  /\ At(r, "new")
  /\ MayOverlap \/ \A q \in Runs : ~Running(q)
  /\ IF local # NoFile THEN Goto(r, "strip") ELSE Goto(r, "fetch") \/ Goto(r, "failed")
  /\ UNCHANGED <<partial, local, blocks, stripped, open, out, dead>>

\* Mutant: what an earlier run left is taken for whole.
MutDownload(r) ==
  /\ At(r, "fetch")
  /\ Goto(r, IF partial # NoFile THEN "rename" ELSE "open")
  /\ UNCHANGED <<partial, local, blocks, stripped, open, out, dead>>

\* file(DOWNLOAD ... EXPECTED_HASH) looks at what is there.
Download(r) ==
  /\ At(r, "fetch")
  /\ Goto(r, IF Matches(partial) THEN "rename" ELSE "open")
  /\ UNCHANGED <<partial, local, blocks, stripped, open, out, dead>>

\* It opens the file, truncated, and the transfer begins.
Truncate(r) ==
  /\ At(r, "open") /\ Goto(r, "download")
  /\ partial' = IF partial = NoFile THEN r ELSE partial
  /\ blocks' = [blocks EXCEPT ![partial'] = [b \in 1..Size |-> "none"]]
  /\ \E s \in Sent : open' = [open EXCEPT ![r] = [file |-> partial', offset |-> 0, sent |-> s]]
  /\ UNCHANGED <<local, stripped, out, dead>>

Write(r) ==
  /\ At(r, "download") /\ open[r].offset < Size
  /\ open' = [open EXCEPT ![r].offset = @ + 1]
  /\ blocks' = [blocks EXCEPT ![open[r].file][open'[r].offset] = open[r].sent]
  /\ UNCHANGED <<partial, local, stripped, pc, out, dead>>

\* The transfer fails, or what it left does not match: the run ends with an error, with
\* or without file(REMOVE), which a failing file(DOWNLOAD) may not come to.
DownloadFails(r) ==
  /\ At(r, "download") /\ (open[r].offset = Size => ~Matches(partial))
  /\ Goto(r, "failed") /\ partial' \in {partial, NoFile}
  /\ UNCHANGED <<local, blocks, stripped, open, out, dead>>

DownloadEnds(r) ==
  /\ At(r, "download") /\ open[r].offset = Size /\ Matches(partial)
  /\ Goto(r, "rename")
  /\ UNCHANGED <<partial, local, blocks, stripped, open, out, dead>>

\* file(RENAME), an error if the file is gone.
Rename(r) ==
  /\ At(r, "rename")
  /\ IF partial = NoFile THEN Goto(r, "failed") /\ UNCHANGED <<partial, local>>
     ELSE Goto(r, "strip") /\ local' = partial /\ partial' = NoFile
  /\ UNCHANGED <<blocks, stripped, open, out, dead>>

-----------------------------------------------------------------------------
(* cyborgdb_embed_strip_artifact                                           *)

Gives(r, archive) == Goto(r, "done") /\ out' = [out EXCEPT ![r] = archive]

\* Mutant: a stripped copy is taken without a look whether there is one.
MutStrip(r) ==
  /\ At(r, "strip")
  /\ \/ \E archive \in {"local", "stripped"} : Gives(r, archive)
     \/ Goto(r, "copy") /\ UNCHANGED out
  /\ UNCHANGED <<partial, local, blocks, stripped, open, dead>>

\* Mutant: a copy is made whether there is one or not.
MutStripsAgain(r) ==
  /\ At(r, "strip")
  /\ Gives(r, "local") \/ (Goto(r, "copy") /\ UNCHANGED out)
  /\ UNCHANGED <<partial, local, blocks, stripped, open, dead>>

\* Not to be stripped in this build directory, or not the ONNX Runtime archive; stripped
\* before, if(EXISTS "${stripped}"); or stripped now.
Strip(r) ==
  /\ At(r, "strip")
  /\ \/ Gives(r, "local")
     \/ stripped # "absent" /\ Gives(r, "stripped")
     \/ stripped = "absent" /\ Goto(r, "copy") /\ UNCHANGED out
  /\ UNCHANGED <<partial, local, blocks, stripped, open, dead>>

\* configure_file(COPYONLY), in two steps.
Copy(r) ==
  /\ At(r, "copy") /\ Goto(r, "copying") /\ stripped' = "part"
  /\ UNCHANGED <<partial, local, blocks, open, out, dead>>

Copied(r) ==
  /\ At(r, "copying") /\ Goto(r, "stripping")
  /\ stripped' = IF Matches(local) THEN "copy" ELSE "part"
  /\ UNCHANGED <<partial, local, blocks, open, out, dead>>

\* Mutant: the archive is stripped where it is.
MutStripped(r) ==
  /\ At(r, "stripping")
  /\ blocks' = [blocks EXCEPT ![local][Size] = "wrong"]
  /\ Gives(r, "local")
  /\ UNCHANGED <<partial, local, stripped, open, dead>>

\* strip succeeds on a whole archive, or fails and its copy is removed.
Stripped(r) ==
  /\ At(r, "stripping")
  /\ \/ stripped \in {"copy", "stripped"} /\ stripped' = "stripped" /\ Gives(r, "stripped")
     \/ stripped' = "absent" /\ Gives(r, "local")
  /\ UNCHANGED <<partial, local, blocks, open, dead>>

-----------------------------------------------------------------------------
\* The build is interrupted.
Die(r) ==
  /\ Running(r) /\ dead' = dead \cup {r}
  /\ UNCHANGED <<partial, local, blocks, stripped, pc, open, out>>

Next ==
  \E r \in Runs :
    \/ Start(r) \/ Download(r) \/ Truncate(r) \/ Write(r) \/ DownloadFails(r)
    \/ DownloadEnds(r) \/ Rename(r)
    \/ Strip(r) \/ Copy(r) \/ Copied(r) \/ Stripped(r) \/ Die(r)

Spec == Init /\ [][Next]_vars

-----------------------------------------------------------------------------
(* Properties                                                              *)

\* "Renamed only after the hash matched, so an interrupted fetch never looks like a
\* complete one" (cmake/artifacts.cmake:129-130), whatever earlier runs left behind.
CompleteIsVerified == local # NoFile => Matches(local)

\* "the file the digest describes stays on disk exactly as it arrived" (:58-59), through
\* the runs that follow.
DownloadLeftAlone ==
  [][Matches(local) => local' = local /\ blocks'[local] = blocks[local]]_vars

\* A build links the verified archive or a whole stripped copy of it, unless a run died
\* between giving the copy its name and stripping it (:81-88).
HandsOutWhole ==
  \A r \in Runs : pc[r] = "done" =>
    \/ out[r] = "local" /\ Matches(local)
    \/ out[r] = "stripped" /\ stripped = "stripped"
    \/ out[r] = "stripped" /\ \E q \in dead : pc[q] \in {"copying", "stripping"}

\* What a build links does not change under it: a later configure run of another build
\* directory, which shares .artifacts (:91-92), neither rewrites nor removes the file that
\* an earlier run handed to its build, however it ends.
LinkedFilesStay ==
  [][\A r \in Runs : pc[r] = "done" =>
       IF out[r] = "stripped" THEN stripped' = stripped
       ELSE local' = local /\ blocks'[local] = blocks[local]]_vars

-----------------------------------------------------------------------------
(* Why they hold when no runs overlap: what every step maintains.          *)

Fetching(r) == Running(r) /\ pc[r] \in {"fetch", "open", "download", "rename"}
Stripping(r) == Running(r) /\ pc[r] \in {"strip", "copy", "copying", "stripping"}

Alone == \A q, r \in Runs : Running(q) /\ Running(r) => q = r

\* The one run fetches only while there is no archive, and renames what it has looked at.
FetchInv ==
  \A r \in Runs :
    /\ Fetching(r) => local = NoFile
    /\ Fetching(r) /\ pc[r] = "rename" => Matches(partial)

\* Who strips, or is through, found the archive there.
LocalInv == \A r \in Runs : Stripping(r) \/ pc[r] = "done" => local # NoFile

\* A copy that is not stripped yet has a run at work on it, if that is not dead; and no
\* run has a copy to strip where one is stripped already.
CopyInv ==
  /\ \A r \in Runs : Running(r) =>
       /\ pc[r] = "copy" => stripped = "absent"
       /\ pc[r] = "copying" => stripped = "part"
       /\ pc[r] = "stripping" => stripped = "copy"
  /\ stripped \in {"part", "copy"} => \E r \in Runs : pc[r] \in {"copying", "stripping"}

\* Once a copy is handed out, nobody is at work on it or about to be.
HandedInv ==
  \A r \in Runs : pc[r] = "done" /\ out[r] = "stripped" =>
    /\ stripped # "absent"
    /\ \A q \in Runs : Running(q) => pc[q] \notin {"copy", "copying", "stripping"}

ArtifactInv ==
  /\ Alone /\ CompleteIsVerified /\ FetchInv /\ LocalInv /\ CopyInv /\ HandsOutWhole
  /\ HandedInv
=============================================================================
