------------------------------ MODULE Resolve ------------------------------
(***************************************************************************)
(* Where ensure_graph and ensure_tokenizer look for a file, whom they ask  *)
(* for it and how patiently (src/resolve.cpp): the configuration and its   *)
(* defaults, the paths in the cache, the URL and its header, and the waits *)
(* between attempts.  Processes that run different releases, whose         *)
(* registries may pin other revisions, share the host's directories.  That *)
(* a file is fetched beside its place and verified before it gets there is *)
(* ModelCache's matter; here it happens in the step that ends a transfer.  *)
(***************************************************************************)
EXTENDS Integers, Sequences, FiniteSetsExt

CONSTANTS
  Procs,         \* processes on the host
  Entries,       \* registry entries: [name, revision, onnx_path, graph, tokenizer]
  Givens,        \* what configure_cache may be told
  Environments,  \* the variables a process may have been started with
  Other,         \* a content that no entry pins
  NotThere,      \* no file
  Asked,         \* the waits a server may ask for, in seconds
  kAttempts      \* resolve.cpp:145

Files == {"graph", "tokenizer"}
Home == "https://huggingface.co"

\* Texts are sequences of symbols, the empty one is an unset variable.
Unset == <<>>

-----------------------------------------------------------------------------
(* Configuration                                                           *)

DefaultCacheDir(env) ==
  IF env.CYBORGDB_EMBED_CACHE # Unset THEN env.CYBORGDB_EMBED_CACHE
  ELSE IF env.XDG_CACHE_HOME # Unset THEN Append(env.XDG_CACHE_HOME, "cyborgdb-embed")
  ELSE env.HOME \o <<".cache", "cyborgdb-embed">>

\* Mutant: the environment cannot take a program offline.
MutResolved(given, env) ==
  [cache_dir |-> IF given.cache_dir # Unset THEN given.cache_dir ELSE DefaultCacheDir(env),
   endpoint |-> IF given.endpoint # Unset THEN given.endpoint
                ELSE IF env.CYBORGDB_EMBED_ENDPOINT # Unset THEN env.CYBORGDB_EMBED_ENDPOINT
                ELSE <<Home>>,
   offline |-> given.offline]

\* resolved_config
Resolved(given, env) ==
  [cache_dir |-> IF given.cache_dir # Unset THEN given.cache_dir ELSE DefaultCacheDir(env),
   endpoint |-> IF given.endpoint # Unset THEN given.endpoint
                ELSE IF env.CYBORGDB_EMBED_ENDPOINT # Unset THEN env.CYBORGDB_EMBED_ENDPOINT
                ELSE <<Home>>,
   offline |-> given.offline \/ env.CYBORGDB_EMBED_OFFLINE]

-----------------------------------------------------------------------------
(* Paths                                                                   *)

\* A model's name as one directory.
Flatten(id) == [i \in DOMAIN id |-> IF id[i] = "/" THEN "_" ELSE id[i]]

FileName(path) == SubSeq(path, Max({0} \cup {i \in DOMAIN path : path[i] = "/"}) + 1, Len(path))

NameOf(e, f) == IF f = "graph" THEN FileName(e.onnx_path) ELSE <<"tokenizer.json">>

\* Mutant: a directory for each model.
MutPath(dir, e, f) == <<dir, Flatten(e.name), NameOf(e, f)>>

\* cached_graph_path, and its sibling for the tokenizer.
Path(dir, e, f) == <<dir, Flatten(e.name), e.revision, NameOf(e, f)>>

Pin(e, f) == IF f = "graph" THEN e.graph ELSE e.tokenizer

\* What the registries of all releases keep to: flattened names do not collide, a file of
\* a commit has one content, and no graph is called tokenizer.json.
RegistryAssumption ==
  \A a, b \in Entries :
    /\ Flatten(a.name) = Flatten(b.name) => a.name = b.name
    /\ a.name = b.name /\ a.revision = b.revision =>
         /\ a.tokenizer = b.tokenizer
         /\ FileName(a.onnx_path) = FileName(b.onnx_path) => a.graph = b.graph
    /\ FileName(a.onnx_path) # <<"tokenizer.json">>

ASSUME ResolveAssumption ==
  /\ RegistryAssumption
  /\ kAttempts \in Nat \ {0}
  /\ Asked \subseteq Nat
  /\ NotThere # Other
  /\ \A e \in Entries, f \in Files : Pin(e, f) \notin {Other, NotThere}
  /\ \A e \in Environments : {e.CYBORGDB_EMBED_OFFLINE, e.HF_TOKEN} \subseteq BOOLEAN
  /\ \A g \in Givens : g.offline \in BOOLEAN

Dirs == {Resolved(g, v).cache_dir : g \in Givens, v \in Environments}
Paths == {Path(dir, e, f) : dir \in Dirs, e \in Entries, f \in Files}
Contents == {Pin(e, f) : e \in Entries, f \in Files} \cup {Other}

Url(endpoint, e, f) == <<endpoint, e.name, e.revision, f>>
Urls == {Url(Resolved(g, v).endpoint, e, f) :
           g \in Givens, v \in Environments, e \in Entries, f \in Files}

-----------------------------------------------------------------------------
VARIABLES
  cache,    \* cache[path]: the file there
  entry,    \* entry[p]: what p loads
  given,    \* given[p]: the configuration its load runs under
  env,      \* env[p]: its environment
  pc, file, \* where p is, with which file
  request,  \* request[p]: the URL and the header p sent last
  attempt,  \* download()'s counter
  wait,     \* the wait before the next attempt
  waited    \* the seconds that download() has slept

vars == <<cache, entry, given, env, pc, file, request, attempt, wait, waited>>

NoRequest == [url |-> <<>>, token |-> FALSE]

Init ==
  /\ cache = [path \in Paths |-> NotThere]
  /\ entry \in [Procs -> Entries] /\ given \in [Procs -> Givens] /\ env \in [Procs -> Environments]
  /\ pc = [p \in Procs |-> "ensure"] /\ file = [p \in Procs |-> "graph"]
  /\ request = [p \in Procs |-> NoRequest]
  /\ attempt = [p \in Procs |-> 1]
  /\ wait = [p \in Procs |-> 0] /\ waited = [p \in Procs |-> 0]

Config(p) == Resolved(given[p], env[p])
PathOf(p) == Path(Config(p).cache_dir, entry[p], file[p])
At(p, label) == pc[p] = label
Goto(p, label) == pc' = [pc EXCEPT ![p] = label]

\* load_session asks for the graph, then for the tokenizer.
Ensured(p) ==
  IF file[p] = "graph" THEN Goto(p, "ensure") /\ file' = [file EXCEPT ![p] = "tokenizer"]
  ELSE Goto(p, "loaded") /\ UNCHANGED file

\* ensure_file, before the download: the file may be there, or must be.
Ensure(p) ==
  /\ At(p, "ensure")
  /\ \/ cache[PathOf(p)] # NotThere /\ Ensured(p)
     \/ cache[PathOf(p)] = NotThere /\ Config(p).offline /\ Goto(p, "failed") /\ UNCHANGED file
     \/ cache[PathOf(p)] = NotThere /\ ~Config(p).offline /\ Goto(p, "send") /\ UNCHANGED file
  /\ attempt' = [attempt EXCEPT ![p] = 1]
  /\ wait' = [wait EXCEPT ![p] = 0] /\ waited' = [waited EXCEPT ![p] = 0]
  /\ UNCHANGED <<cache, entry, given, env, request>>

\* auth_header; HF_TOKEN stands for either variable.
AuthHeader(url, environment) == Head(url[1]) = Home /\ environment.HF_TOKEN

\* download_once sends the request.
Send(p) ==
  LET url == Url(Config(p).endpoint, entry[p], file[p]) IN
  /\ At(p, "send") /\ Goto(p, "transfer")
  /\ request' = [request EXCEPT ![p] = [url |-> url, token |-> AuthHeader(url, env[p])]]
  /\ UNCHANGED <<cache, entry, given, env, file, attempt, wait, waited>>

\* The digest of what arrived is the pinned one.
Kept(content, pin) == content = pin

\* The transfer ends well; what it brought may be anything.
Received(p) ==
  /\ At(p, "transfer")
  /\ \E content \in Contents :
       IF Kept(content, Pin(entry[p], file[p]))
       THEN Ensured(p) /\ cache' = [cache EXCEPT ![PathOf(p)] = content]
       ELSE Goto(p, "failed") /\ UNCHANGED <<cache, file>>
  /\ UNCHANGED <<entry, given, env, request, attempt, wait, waited>>

\* Mutant: the cap does not reach what the server asks for.
MutWait(n, asked) == Max({Min({60, 2^(n - 1)}), asked})

\* The wait after attempt n.
Wait(n, asked) == Min({60, Max({2^(n - 1), asked})})

\* A passing failure, with more attempts to come: download() sleeps.
Retry(p) ==
  /\ At(p, "transfer") /\ attempt[p] # kAttempts /\ Goto(p, "sleep")
  /\ \E asked \in Asked : wait' = [wait EXCEPT ![p] = Wait(attempt[p], asked)]
  /\ UNCHANGED <<cache, entry, given, env, file, request, attempt, waited>>

Wake(p) ==
  /\ At(p, "sleep") /\ Goto(p, "send")
  /\ attempt' = [attempt EXCEPT ![p] = @ + 1]
  /\ waited' = [waited EXCEPT ![p] = @ + wait[p]]
  /\ UNCHANGED <<cache, entry, given, env, file, request, wait>>

\* A failure that does not pass, the last attempt, or one of the host's file system.
Fail(p) ==
  /\ pc[p] \in {"send", "transfer"} /\ Goto(p, "failed")
  /\ UNCHANGED <<cache, entry, given, env, file, request, attempt, wait, waited>>

Next == \E p \in Procs :
  Ensure(p) \/ Send(p) \/ Received(p) \/ Retry(p) \/ Wake(p) \/ Fail(p)

Spec == Init /\ [][Next]_vars

-----------------------------------------------------------------------------
(* Properties                                                              *)

\* Every variable has its type.
TypeOK ==
  /\ cache \in [Paths -> Contents \cup {NotThere}]
  /\ entry \in [Procs -> Entries] /\ given \in [Procs -> Givens]
  /\ env \in [Procs -> Environments]
  /\ pc \in [Procs -> {"ensure", "send", "transfer", "sleep", "loaded", "failed"}]
  /\ file \in [Procs -> Files]
  /\ request \in [Procs -> [url : Urls \cup {<<>>}, token : BOOLEAN]]
  /\ attempt \in [Procs -> 1..kAttempts]
  /\ wait \in [Procs -> Int] /\ waited \in [Procs -> Int]

\* "Keyed by revision, so two revisions of one model coexist and nothing needs
\* invalidating" (src/resolve.hpp:14-15): what is found in the cache is not verified
\* again, and is what the finder's own registry pins, whoever put it there.
FindsItsOwn ==
  \A p \in Procs : At(p, "ensure") => cache[PathOf(p)] \in {NotThere, Pin(entry[p], file[p])}

\* A process that the program or its environment set offline sends nothing
\* (embed.hpp:196-198), the token goes to Hugging Face only (src/resolve.cpp:67-68), and
\* what is asked for is of the sender's own revision.
RequestsAllowed ==
  \A p \in Procs : request[p] # NoRequest =>
    /\ ~given[p].offline /\ ~env[p].CYBORGDB_EMBED_OFFLINE
    /\ request[p].token => Head(request[p].url[1]) = Home
    /\ request[p].url[3] = entry[p].revision

\* However the servers answer, an attempt comes no sooner than the backoff before it has
\* passed (src/resolve.cpp:142-143)...
NoSooner == \A p \in Procs : waited[p] >= Min({60, 2^(attempt[p] - 1) - 1})

\* ... and a download sleeps at most a minute before each.
NoLater == \A p \in Procs : waited[p] <= 60 * (attempt[p] - 1) /\ attempt[p] <= kAttempts

\* Both bounds on the patience of a download hold of every one, after any failures.
BackoffHonoured == NoSooner /\ NoLater
=============================================================================
