----------------------------- MODULE ModelCache -----------------------------
(***************************************************************************)
(* The on-disk cache of a model's two files (src/resolve.cpp), filled and  *)
(* read by several processes that share one cache directory, and the part  *)
(* of load_session (src/session.cpp:36-51) that goes through it: ensure    *)
(* the graph, ensure the tokenizer, then read both.                        *)
(*                                                                         *)
(* A process stands for one load in it: SessionStore lets no second load   *)
(* of the model run there.  Content is "good" when its SHA-256 is the      *)
(* pinned one and "bad" otherwise, which includes empty and cut off files; *)
(* "torn" is what was good until the machine lost it, and "none" a file    *)
(* that does not exist.                                                    *)
(***************************************************************************)
EXTENDS Integers, FiniteSets

CONSTANTS
  Procs,      \* processes sharing the cache directory
  Offline,    \* those of them with offline set
  Names,      \* names unique_suffix() may come up with
  NoName,     \* no partial file
  kAttempts,  \* resolve.cpp:145
  MaxCrashes, \* bound on process deaths
  MaxEvicts   \* bound on removals of a cached file by the host

ASSUME CacheAssumption ==
  /\ Offline \subseteq Procs
  /\ NoName \notin Names
  /\ kAttempts \in Nat \ {0}
  /\ MaxCrashes \in Nat
  /\ MaxEvicts \in Nat

Files == {"graph", "tokenizer"}
Contents == {"good", "bad"}
CachedContents == Contents \cup {"torn", "none"}

VARIABLES
  cached,    \* cached[f]: content of f under its final name
  partial,   \* partial[n]: content of the partial file with suffix n
  pc,        \* pc[p]: where p is in ensure_file, or in the load around it
  file,      \* file[p]: the file p is ensuring
  name,      \* name[p]: the suffix of p's PartialFile, if it has one
  attempt,   \* attempt[p]: download()'s attempt counter
  got,       \* got[p][f]: the content of f that p's load read
  orphans,   \* suffixes of partial files whose process died
  evicts     \* evictions so far

vars == <<cached, partial, pc, file, name, attempt, got, orphans, evicts>>

PCs == {"idle", "check", "fetch", "transfer", "hash", "rename", "done", "failed",
        "tokenizer", "graph"}

TypeOK ==
  /\ cached \in [Files -> CachedContents]
  /\ partial \in [Names -> Contents \cup {"none"}]
  /\ pc \in [Procs -> PCs]
  /\ file \in [Procs -> Files]
  /\ name \in [Procs -> Names \cup {NoName}]
  /\ attempt \in [Procs -> 1..kAttempts]
  /\ got \in [Procs -> [Files -> CachedContents]]
  /\ orphans \subseteq Names
  /\ evicts \in 0..MaxEvicts

NothingRead == [f \in Files |-> "none"]

Init ==
  /\ cached = [f \in Files |-> "none"]
  /\ partial = [n \in Names |-> "none"]
  /\ pc = [p \in Procs |-> "idle"]
  /\ file = [p \in Procs |-> "graph"]
  /\ name = [p \in Procs |-> NoName]
  /\ attempt = [p \in Procs |-> 1]
  /\ got = [p \in Procs |-> NothingRead]
  /\ orphans = {}
  /\ evicts = 0

At(p, label) == pc[p] = label
Goto(p, label) == pc' = [pc EXCEPT ![p] = label]

\* The scope of p's PartialFile object.
HasPartial(p) == name[p] # NoName

-----------------------------------------------------------------------------
(* ensure_file                                                             *)

\* ensure_graph comes first.
Start(p) ==
  /\ At(p, "idle") /\ Goto(p, "check")
  /\ file' = [file EXCEPT ![p] = "graph"]
  /\ got' = [got EXCEPT ![p] = NothingRead]
  /\ UNCHANGED <<cached, partial, name, attempt, orphans, evicts>>

\* After ensure_graph comes ensure_tokenizer, after it the files are read.
NextFile(p) ==
  IF file[p] = "graph"
  THEN Goto(p, "check") /\ file' = [file EXCEPT ![p] = "tokenizer"]
  ELSE Goto(p, "tokenizer") /\ UNCHANGED file

\* The file exists: nothing more is asked of it.
Hit(p) ==
  /\ At(p, "check") /\ cached[file[p]] # "none"
  /\ NextFile(p)
  /\ UNCHANGED <<cached, partial, name, attempt, got, orphans, evicts>>

\* Missing and offline, or its directory cannot be created.
Refuse(p) ==
  /\ At(p, "check") /\ cached[file[p]] = "none"
  /\ Goto(p, "idle")
  /\ UNCHANGED <<cached, partial, file, name, attempt, got, orphans, evicts>>

\* Mutant: one fixed suffix, as if the name were path + ".partial".
MutFixedSuffix(n) == n = CHOOSE m \in Names : TRUE

\* A suffix nobody else uses: 64 random bits do not collide.
Unused(n) == partial[n] = "none" /\ \A q \in Procs : name[q] # n

Miss(p) ==
  /\ At(p, "check") /\ cached[file[p]] = "none" /\ p \notin Offline
  /\ \E n \in Names : Unused(n) /\ name' = [name EXCEPT ![p] = n]
  /\ Goto(p, "fetch")
  /\ UNCHANGED <<cached, partial, file, attempt, got, orphans, evicts>>

-----------------------------------------------------------------------------
(* download and download_once                                              *)

SetPartial(p, content) == partial' = [partial EXCEPT ![name[p]] = content]

\* The partial file is opened and truncated, or cannot be.
OpenPartial(p) ==
  /\ At(p, "fetch")
  /\ \/ SetPartial(p, "bad") /\ Goto(p, "transfer")
     \/ UNCHANGED partial /\ Goto(p, "failed")
  /\ UNCHANGED <<cached, file, name, attempt, got, orphans, evicts>>

\* curl reports success.  The bytes may be others than the pinned ones: the
\* server's, or what a failed flush at close() left of them.
Received(p) ==
  /\ At(p, "transfer") /\ Goto(p, "hash")
  /\ \E content \in Contents : SetPartial(p, content)
  /\ UNCHANGED <<cached, file, name, attempt, got, orphans, evicts>>

\* Mutant: a round of the loop that is not counted.
MutSameAttempt(n) == n

NextAttempt(n) == n + 1

\* Mutant: one attempt too many.
MutTryOnceMore(p, transient) == transient /\ attempt[p] <= kAttempts

\* Whether the loop of download() goes round again.
TryAgain(p, transient) == transient /\ attempt[p] # kAttempts

\* curl reports an error: the partial file is removed, and a transient error is
\* tried again until the attempts are used up.
NotReceived(p, transient) ==
  /\ At(p, "transfer")
  /\ SetPartial(p, "none")
  /\ IF TryAgain(p, transient)
     THEN Goto(p, "fetch") /\ attempt' = [attempt EXCEPT ![p] = NextAttempt(@)]
     ELSE Goto(p, "failed") /\ UNCHANGED attempt
  /\ UNCHANGED <<cached, file, name, got, orphans, evicts>>

-----------------------------------------------------------------------------
(* ensure_file, after the download                                         *)

Hash(p) ==
  /\ At(p, "hash")
  /\ Goto(p, IF partial[name[p]] = "good" THEN "rename" ELSE "failed")
  /\ UNCHANGED <<cached, partial, file, name, attempt, got, orphans, evicts>>

\* rename() replaces whatever another process put there first.
Rename(p) ==
  /\ At(p, "rename")
  /\ \/ /\ partial[name[p]] # "none"
        /\ cached' = [cached EXCEPT ![file[p]] = partial[name[p]]]
        /\ SetPartial(p, "none")
        /\ Goto(p, "done")
     \/ Goto(p, "failed") /\ UNCHANGED <<cached, partial>>
  /\ UNCHANGED <<file, name, attempt, got, orphans, evicts>>

\* Mutant: the partial survives the error path.
MutLeavesPartial(p) ==
  /\ \/ At(p, "done") /\ NextFile(p)
     \/ At(p, "failed") /\ Goto(p, "idle") /\ UNCHANGED file
  /\ UNCHANGED partial
  /\ name' = [name EXCEPT ![p] = NoName]
  /\ attempt' = [attempt EXCEPT ![p] = 1]
  /\ UNCHANGED <<cached, got, orphans, evicts>>

\* ~PartialFile, on the way out of ensure_file.
Leave(p) ==
  /\ \/ At(p, "done") /\ NextFile(p)
     \/ At(p, "failed") /\ Goto(p, "idle") /\ UNCHANGED file
  /\ SetPartial(p, "none")
  /\ name' = [name EXCEPT ![p] = NoName]
  /\ attempt' = [attempt EXCEPT ![p] = 1]
  /\ UNCHANGED <<cached, got, orphans, evicts>>

-----------------------------------------------------------------------------
(* make_ort_session: the tokenizer is read first, then the graph.          *)

ReadTokenizer(p) ==
  /\ At(p, "tokenizer")
  /\ got' = [got EXCEPT ![p]["tokenizer"] = cached["tokenizer"]]
  /\ Goto(p, IF cached["tokenizer"] = "none" THEN "idle" ELSE "graph")
  /\ UNCHANGED <<cached, partial, file, name, attempt, orphans, evicts>>

ReadGraph(p) ==
  /\ At(p, "graph")
  /\ got' = [got EXCEPT ![p]["graph"] = cached["graph"]]
  /\ Goto(p, "idle")
  /\ UNCHANGED <<cached, partial, file, name, attempt, orphans, evicts>>

-----------------------------------------------------------------------------
(* The host                                                                *)

\* A process dies anywhere; no destructor runs.
Crash(p) ==
  /\ pc[p] # "idle" /\ Cardinality(orphans) < MaxCrashes
  /\ Goto(p, "idle")
  /\ orphans' = orphans \cup {n \in Names : n = name[p] /\ partial[n] # "none"}
  /\ name' = [name EXCEPT ![p] = NoName]
  /\ attempt' = [attempt EXCEPT ![p] = 1]
  /\ UNCHANGED <<cached, partial, file, got, evicts>>

\* Somebody clears the cache under the processes using it.
Evict(f) ==
  /\ cached[f] # "none" /\ evicts < MaxEvicts
  /\ cached' = [cached EXCEPT ![f] = "none"]
  /\ evicts' = evicts + 1
  /\ UNCHANGED <<partial, pc, file, name, attempt, got, orphans>>

\* Nothing is flushed before the rename, so a file may come back cut off when the
\* machine restarts.
LosePower ==
  /\ \E f \in Files : cached[f] = "good" /\ cached' = [cached EXCEPT ![f] = "torn"]
  /\ pc' = [p \in Procs |-> "idle"]
  /\ name' = [p \in Procs |-> NoName]
  /\ attempt' = [p \in Procs |-> 1]
  /\ orphans' = {n \in Names : partial[n] # "none"}
  /\ UNCHANGED <<partial, file, got, evicts>>

-----------------------------------------------------------------------------
\* What a process does next on its own, once it has started a load.
Proceed(p) ==
  \/ Hit(p) \/ Refuse(p) \/ Miss(p)
  \/ OpenPartial(p) \/ Received(p) \/ \E b \in BOOLEAN : NotReceived(p, b)
  \/ Hash(p) \/ Rename(p) \/ Leave(p)
  \/ ReadTokenizer(p) \/ ReadGraph(p)

Next ==
  \/ \E p \in Procs : Start(p) \/ Proceed(p) \/ Crash(p)
  \/ \E f \in Files : Evict(f)
  \/ LosePower

Fairness == \A p \in Procs : WF_vars(Proceed(p))

Spec == Init /\ [][Next]_vars /\ Fairness

-----------------------------------------------------------------------------
(* Safety                                                                  *)

\* No file under its final name, and none that a load read from there, ever was
\* another than the pinned one: whatever the interleaving of the processes, the
\* deaths among them and what servers send, the bytes renamed are the bytes hashed.
VerifiedFilesOnly ==
  \A f \in Files : cached[f] # "bad" /\ \A p \in Procs : got[p][f] # "bad"

\* The partial file of a call changes only by that call's own steps: no process
\* truncates, removes or renames what another is downloading.
PartialUndisturbed ==
  [][\A p \in Procs :
       HasPartial(p) /\ partial'[name[p]] # partial[name[p]] => pc'[p] # pc[p]]_vars

\* Only the death of a process leaves a partial file behind; every other way out
\* of ensure_file removes its own.
NoStrayPartials ==
  \A n \in Names : partial[n] # "none" => n \in orphans \/ \E p \in Procs : name[p] = n

\* The invariant behind them: a call has a partial file exactly inside ensure_file,
\* no two calls have the same one, and what is about to be renamed was hashed.
PartialInv ==
  \A p \in Procs :
    /\ HasPartial(p) <=> pc[p] \in {"fetch", "transfer", "hash", "rename", "done", "failed"}
    /\ \A q \in Procs : HasPartial(p) /\ name[q] = name[p] => q = p
    /\ At(p, "rename") => partial[name[p]] = "good"

-----------------------------------------------------------------------------
(* Liveness                                                                *)

\* Every load ends, though others fail, die, fill the same files or clear them.
EveryLoadEnds == \A p \in Procs : pc[p] # "idle" ~> pc[p] = "idle"
=============================================================================
