# cyborgdb-embed: a TLA+ verification project

cyborgdb-embed is a C++ library that embeds texts with pinned sentence-transformer models on ONNX Runtime. A process
opens models by name, gets handles onto shared sessions and embeds batches of texts from any thread. The modules here
model the parts of the library that keep state or that depend on an order of events. TLC checks them on small
instances, and TLAPS proves the invariants for every value of the constants.

Paths are relative to the repository, lines those of the commit modelled. `PROJECT.json` lists the runs, the mutants,
the line map, the hazards and the theorems in machine-readable form.

## The system

| Part | State | Operations | Where |
| --- | --- | --- | --- |
| Public API | one `Impl` (a shared session) per successful open | `open`, copies, moves and release of `Embedder`, `embed_documents`, `embed_queries`, `find_model` | `src/embed.cpp`, `include/cyborgdb_embed/embed.hpp` |
| Session store | map from (model, provider, precision) to a weak session and a pending future; configuration; two counters | `acquire`, `configure`, `loaded`, `stats` | `src/session_store.cpp` |
| Loading | none of its own | `load_session`: checks, both files, `init_ort`, `make_ort_session` | `src/session.cpp` |
| Runtime | `g_once` and `g_api`; mutex, `started`, `threads`; the static `Ort::Env` | `init_ort`, `environment`, `configure_runtime` | `src/ort_api.cpp`, `src/session_ort.cpp` |
| Model cache | files on disk, shared by processes and releases; partial files while downloading | `resolved_config`, `ensure_graph`, `ensure_tokenizer`, `download` | `src/resolve.cpp` |
| Encoding | locals of the call; the caller's buffer | `OrtSession::encode` | `src/session_ort.cpp` |
| Pooling | none | `pool`, `l2_normalize` | `src/pooling.hpp` |
| Tokenizer | an immutable Rust object | `load`, `encode` | `src/tokenizer.cpp`, `tokenizer/src/lib.rs` |
| Registry and parity | `registry.yaml`: revision, digests and parity verdict per model; the generated table; vectors on disk | `pin_registry.py`, `gen_registry.py`, `sweep.py`, the registry job of CI | `scripts/`, `tests/parity/` |
| Prebuilt artifacts | archives in a directory shared by build directories | fetch, strip | `cmake/artifacts.cmake` |

How they interact: `open` calls `SessionStore::acquire`, which calls `load_session` outside its mutex, at most once per
key at a time; others wait on a `shared_future`. `load_session` goes through the model cache, which other processes
use too, and then through the runtime, which loads of other models use at the same time. The session that comes out is
shared by reference counts; the store itself keeps a weak reference only, so releasing the last handle frees the
weights. `encode` is a const method on the session and keeps all its state in locals.

What is hard: the two critical sections of `acquire` with a blocking load and a future between them; handles released
between any two steps; loads that fail or throw; two processes downloading the same file, one of them dying; retries;
the once-only construction of the runtime racing with its configuration; and putting the vectors of a batch sorted by
length back in the caller's order. Around the library, programs that people and schedules start in any order write
what it is built from. What makes each part correct:

* Public API: a handle is a successful open, however often the object is copied, moved or opened again; an object that
  is open has a live session; an open that fails changes nothing.
* Session store: one load and one copy of the weights per model, `loaded_models()` exact, failures leave nothing
  behind, every open returns, also when loads of other models and configurations are in its way.
* Model cache: only files with the pinned digest are cached or read, nobody disturbs another's download, partial files
  go away, every load ends; releases that share a directory find their own files; offline means offline; retries are
  patient within bounds.
* Runtime: no ONNX Runtime type before its function table; the pool has the size that was accepted.
* Encoding: the vector of a text does not depend on what it is embedded with, every text gets its own, nothing is
  written out of bounds, memory per batch is bounded, every call returns.
* Registry: pins are of one commit, verdicts have one measurement behind them, and what ships has both.
* Tokenizer: the ids are those of prefix and text, cut to fit with the special tokens kept, and fit the buffer.
* Artifacts: an archive under its final name is the verified one, what a build links is whole, and later runs of CMake do not change it.

## Modules

| Module | What it is | Extends / instantiates |
| --- | --- | --- |
| `ModelSharing` | what the store promises: per model idle, loading or live, and how many sessions are given out | |
| `SessionStore` | `acquire` and its callers, `configure`, `loaded`, `stats` | `ModelSharing`, as the specification it implements |
| `SessionStoreProofs` | type, inductive invariant, four safety properties, the refinement of `ModelSharing` (safety) | `SessionStore` |
| `Embedder` | `Embedder` objects and `open()`, whose handles the store counts | `SessionStore`, which it extends and implements |
| `RuntimeSetting` | what `configure_runtime` promises | |
| `OrtRuntime` | `load_session`, `init_ort`, `environment`, `configure_runtime`, `make_ort_session` | `RuntimeSetting`, as the specification it implements |
| `OrtRuntimeProofs` | inductive invariant, five safety properties, refinement | `OrtRuntime` |
| `Opening` | the store with `OrtRuntime` as the load it runs | `SessionStore`, `OrtRuntime` |
| `CompositionProofs` | `Embedder` and `Opening` implement `SessionStore`, `Opening` also `OrtRuntime` (safety); inductive invariants, what objects and what store and runtime together promise | `SessionStoreProofs`, `Embedder`, `Opening`, `OrtRuntimeProofs` |
| `ModelCache` | `ensure_file`, `download`, the reads of `make_ort_session`, deaths, evictions, loss of power | |
| `ModelCacheProofs` | type, inductive invariant, three safety properties and an action property | `ModelCache` |
| `Resolve` | configuration, paths, requests and waits of `resolve.cpp`, for several releases | |
| `ResolveProofs` | type, inductive invariant, three safety properties, lemmas about paths, waits and `resolved_config` | `Resolve` |
| `Tokenizer` | the class and the shim, as operators | |
| `Pooling` | which hidden states go into a vector, in each pooling mode | |
| `Encode` | `embed_documents`, `embed_queries` and `OrtSession::encode` | `Pooling`, `Tokenizer` |
| `EncodeProofs` | inductive invariant, seven safety properties | `Encode` |
| `RegistryPipeline` | upstream, `pin_registry.py`, `sweep.py`, `gen_registry.py`, the CI job | |
| `RegistryProofs` | inductive invariant, five safety properties | `RegistryPipeline` |
| `ArtifactCache` | `artifacts.cmake`: fetch and strip | |
| `ArtifactCacheProofs` | inductive invariant, two safety properties and two action properties | `ArtifactCache` |
| `MCSessionStore`, `MCEmbedder`, `MCEncode`, `MCResolve`, `MCRegistryPipeline` | symmetry and constants for TLC; the other runs check their modules directly | the module named |

### SessionStore

A call to `acquire` is a thread at a program counter. Its steps are the pieces of code between two points where
another thread can do something: `LiveHit`, `Join` and `Lead` are the three ways out of the first critical section
(lines 24-52), `LoadSucceeds`, `LoadFails` and `LoadThrows` the end of the load and `set_value` (54-59), `Publish` the
second critical section (61-73), `Get` the wait (78) and `Return` the return. `Release` drops a handle, as the
destructor of the last copy of an `Embedder` does. Reference counts are computed from who holds what: handles, the
locals of calls under way, and the shared states of futures that some call or the entry still refers to. That is
what `weak_ptr::lock`, `expired` and `use_count` see.

The inductive invariant `StoreInv` says who may be where: an entry with a future has exactly one leader between `Lead`
and `Publish`, or none when its load threw; a waiter's future is that leader's or has its outcome; a session that is
alive is the one its entry refers to, unless it is being published. Neither `SingleFlight` nor
`OneLiveSessionPerKey` is inductive without it, since both turn on what waiters and the future keep alive.

### Embedder

An `Impl` is known by the number of the open that made it, an object by the `Impl` it points to. `open()` is
`OpenLive` or `OpenWaits`, then the steps of `acquire` (`OpenProceeds`), then `Acquired`, where the session arrives in
a local of `open()`, and `Assign`, which moves the new `Impl` into `out` and only then gives up what `out` had. `OpenThrows`
and `MakeImplThrows` are its exceptions. `Copy`, `Move` and `Destroy` are the defaulted members: each makes objects
point elsewhere (`Point`), and an `Impl` nobody points to any more releases its session. `Release` of `SessionStore` no
longer happens by itself: what `Embedder` adds is who may give up a handle, and when. An object that one thread opens is
used by no other meanwhile, as C++ demands.

`EmbedderInv` says that opens have numbers of their own (`NumberInv`), that a thread inside `acquire` is in an open which
has nothing yet (`OpenInv`), that an `Impl` pointed to has a session and a session held an owner (`ImplInv`), and that
the store's count is that of the opens that hold it (`CountInv`). None of `ValidIsLive` and `HandlesAreOpens` is
inductive alone: a release is only right if somebody else's number cannot be the one released.

### Opening

`SessionStore` takes for granted that a load ends. In `Opening` the load is `OrtRuntime`'s: `Leads` enters
`load_session`, `InLoad` and `GetsMutex` are its steps, `LoadReturns` ends it in the store with the outcome it came to.
`ImplementsSessionStore` then says that the assumption is kept: the composition, with the fairness of threads and of the
runtime's mutex only, implements `SessionStore` with its fairness. `HandlesFixPool` relates the two halves: the pool's
size cannot change while anybody has a handle.

`OpeningInv` is what makes them one system: beside the invariants of the halves, a thread is inside `load_session`
exactly while its open is the one that builds a session (`CoupledInv`), and a promise holds a session only once the pool
is fixed (`ValueInv`).

### ModelCache

A process stands for one load in it. `cached` holds the two files under their final names, `partial` the partial
files by suffix; contents are "good" (the pinned digest), "bad", "torn" (good until the machine lost it) or absent.
`Hit`, `Refuse` and `Miss` are the ways through the head of `ensure_file`, `OpenPartial`, `Received` and `NotReceived` a round of `download`, `Hash`, `Rename`
and `Leave` the rest with the destructor of `PartialFile`. `Crash`, `Evict` and `LosePower` are the host's. A fresh
suffix is one that no file and no call has: 64 random bits do not collide. A stream that was not flushed completely
appears as "bad" content received, since the code does not look at the result of closing it. The exceptions that
`fs::exists` may throw are in `SessionStore` and `OrtRuntime`, where they matter.

`PartialInv` is the inductive invariant: a call has a partial file exactly while it is inside `ensure_file`, no two
have the same one, and what is about to be renamed is what was hashed.

### Resolve

What `ModelCache` leaves out of `resolve.cpp`: which file. A process runs a release, whose registry pins revisions
and digests, with what `configure_cache` was told and an environment; `Resolved` is `resolved_config`, field by field,
`Path` the path of a file in the cache, `Url` and `AuthHeader` the request, `Wait` the wait after an attempt. Texts are
sequences of symbols as far as they are taken apart: a model's name, of which `Flatten` makes a directory, and a path, of
which `FileName` keeps the end. `Ensure`, `Send`, `Received`, `Retry`, `Wake` and `Fail` are the ways through
`ensure_file` and `download`, and the file appears under its name in one step: how it gets there is `ModelCache`'s.

`RegistryAssumption` says what the table must keep to for `FindsItsOwn`: flattened names, and file names within one
commit, do not collide. The pinned table does; nothing checks it.

### OrtRuntime

`once` and `api` are `init_ort`'s statics, `mutex`, `started` and `threads` the `Runtime`, and `pool` the size that the
static `Ort::Env` was constructed with. The construction is a step between taking the mutex and setting `started`, so
that a configuration could come in between if the code let it. Each step can fail or throw where its code can. The
inductive invariant is `LockInv` with the safety properties.

### Encode and Pooling

One action per stage of `encode`: `EmbedDocuments` and `EmbedQueries` with the argument checks, `Tokenize` one text,
`Sort`, `RunBatch`, `Finish`. What a text says is a sequence of units, which only `Tokenizer` looks at: `New` is what the
shim makes of a `tokenizer.json`, `EncodeText` goes from prefix and text through the C string and its buffer to the ids
and the return code. `Encoding`, what the tokenizers library does behind the shim, is external: special tokens around
as much of the text as fits. After that a text is its index and its number of tokens; a hidden state is the pair of its text and position, or `Pad`. That the
state of a real token does not depend on the padding is the graph's property (attention is masked) and assumed; that
nothing but these states enters a vector is what the model checks. The loop that forms a batch is stated by what it
ends with: `NextBatch` holds of the largest number of rows that fits. A vector is the function from positions to the
states that are pooled, with the kind of floats that come out where there are none.

`Pooling` is a module of its own because the two functions are, and because it is where texts without tokens are
treated.

### RegistryPipeline

The state is what the programs leave on disk: the manifest, the generated table, the table `embed_corpus` was built
from and the vectors of the reference and of the library, each known by the commit it is of. A pin run is `PinStart`,
for each model `ResolveCommit` and `ResolveFiles` with upstream free to move between them, and `PinWrite`; a sweep is
`SweepStart`, for each model `RunReference`, `RunOrt`, `RunEmbed` and `Compare`, and `WriteVerdicts`. Any arm may fail
after any of its directions, and either program may die. An entry carries its `basis`, the comparisons that its verdict
came from: the file does not have it, which is the point of the properties that speak about it. `Ships` is what the CI
job accepts: the header that `gen_registry.py` makes again is the committed one, in its pins and in `kRegistryVersion`, the
hash of the manifest, of which `version` keeps what the pins do not say, the verdicts. One pin run and one sweep may overlap; two of a kind do not.

The order of the models in the file is left open, since no step depends on it. The ort arm only decides whether a
sweep of the model goes on. A revision that is not pinned resolves to nothing.

### ArtifactCache

A file is named by the run of CMake that created it, so that renaming it changes the name and not who writes to it: a
run that has the partial file open goes on writing to the same file under its new name. `Start` to `Rename` are
`cyborgdb_embed_fetch_artifact`, `Strip` to `Stripped` the function it calls; `Die` stops a run where it is. What
`file(DOWNLOAD)` does is external: `Download`, `Truncate`, `Write` and the two ends are the steps that its users see.
`MayOverlap` tells runs one after the other from runs of two build directories at once.

`ArtifactInv` says of runs one after the other what each point has already established: only one is at work (`Alone`); it
fetches only where there is no archive and renames only what matches (`FetchInv`); who strips, or is through, found the
archive there (`LocalInv`); a copy not stripped yet has a run at work on it or dead over it (`CopyInv`); and once a copy
is handed out nobody works on it (`HandedInv`). `LinkedFilesStay` rests on the last: a build of one directory links, long
after its configure run, a file that the configure runs of others may still reach.

## What the runs show

| Run | Instance | States | Result |
| --- | --- | --- | --- |
| `embedder` | 3 threads, 2 models, 2 objects, 5 opens, loads that fail or throw | 515895 | holds |
| `opening` | 2 threads, 2 models, 3 opens, sizes 1, 2 | 54074 | holds |
| `model_cache` | 2 processes, 3 suffixes, 2 attempts, 1 death, 1 eviction, loss of power | 218633 | holds |
| `resolve` | 2 processes, 3 entries of 2 releases, 3 configurations, 3 environments, 4 attempts | 1710498 | holds |
| `ort_runtime` | 3 threads, sizes 0, 1, 2 | 73862 | holds |
| `encode` | 4 texts (empty, 8 words, with a NUL, not UTF-8), 7 tokens, 2 prefixes, budget 6, 3 rows | 111024 | holds |
| `registry_pipeline` | 2 models, 2 commits each, 2 verdicts, 4 runs of pin and sweep | 2249212 | holds |
| `artifact_cache` | 3 runs one after the other, 2 blocks, right and wrong bytes | 66519 | holds |
| `session_store_throw` | 2 threads, 1 model | small | violated, see below |
| `encode_nul` | 2 texts | small | violated |
| `registry_pipeline_stale` | 1 model, the same | small | violated |
| `artifact_race` | 2 runs that may overlap | small | violated |

The store's safety and that of the objects over it are checked in one run, which is symmetric in threads, models and
objects and so says nothing of liveness; `opening` has the store's liveness, with the loads it waits for.

Why the bounds are enough. In the store an entry's life needs a leader, a waiter and one more open that comes after
the failure or the release; three threads on one key play all of these at once, and a second key shows that entries do
not interact. Five opens let a key be loaded, released, loaded again and shared; two objects copy, move and replace
each other's handles, and an object may be opened again over its own. In the composition two threads meet at every
lock, future and `call_once`; with a third one, or a fourth open, TLC needs far longer for the liveness, and three
threads are had in the other two runs for each half. In the cache, interference needs two processes with partial files
at once, and a third suffix lets one of them die, leave its file and start again; two attempts tell the last from one
that is not. For `resolve`, two releases pin two revisions of one model beside another model; a server asks for no
wait, where the backoff decides, or for more than the cap, where that does; four attempts, of the code's five, let the
backoff double twice. For the runtime, one thread constructs while another configures and a third queues. For batches,
a text over the budget, lengths of which one, two or all rows fit, and more texts than rows per batch. For the
registry, four runs are pin, sweep, a pin that moves the revision and a sweep that meets what the first one left; two
models tell what a sweep of one of them does to the other. For artifacts, the third run meets what one that died and
one that failed have left, and two blocks make a file that is cut off. The proofs remove the bounds for every
safety property that a run passes.

Each property has a mutant: a plausible slip in the code modelled (a dropped guard, a fixed name, rows
written in the wrong order), under which TLC finds that very property violated.

### Disagreements with comments and documentation

Each of these is a run that TLC finds violated.

* A load that ends by an exception leaves its broken future in the store: later opens of that model throw as well,
  for the rest of the process (`src/session_store.cpp:54-61`, against the comment at 64-65).
* `pin_registry.py` moves the pins and keeps the verdict, and a sweep writes its verdict beside whatever is pinned by
  then, so a model may ship with a verdict of another revision (`scripts/pin_registry.py:103`, against
  `tests/parity/sweep.py:37-39`).
* A text with a NUL byte is embedded up to it, and the call succeeds (`src/tokenizer.cpp:55`, against
  `embed.hpp:1`).
* Two build directories that configure at once write to one partial file, so that an archive may get its final name
  after another run has truncated it (`cmake/artifacts.cmake:119`, against the comment at 129-130).

Smaller ones, which follow from a step of the models and have no run of their own: `LoadedModel::handles` also counts
references of opens still under way (`embed.hpp:219`; `ListedHandles` in `SessionStore`); a file in the cache is taken
as it is and nothing is flushed before the rename, so one that a loss of power cut off stays (`src/resolve.hpp:18-19`;
`LosePower` in `ModelCache`); a first open that fails early does not create the pool, so another size is still accepted
(`embed.hpp:185-187`; `LoadTokenizer` in `OrtRuntime`); with max pooling a text without tokens becomes minus infinity
and then NaN (`src/pooling.hpp:17, 50-51`; `Pool`), where no model pinned today can get; `pin_registry.py` writes back the whole file as
it was read before the requests, so a verdict or any other edit made meanwhile is lost
(`scripts/pin_registry.py:69, 110`, which says at line 8 that it edits the pinned lines in place; `PinWrite`, under which
`VerdictHasBasis` still holds because what comes back is an older verdict whole); reference vectors reused with
`--skip-reference` may be of two revisions and are compared (`tests/parity/sweep.py:71`; `SameRun` exempts them); a
stripped copy that a run died over, or that another run is still writing, is taken by its name alone
(`cmake/artifacts.cmake:69`; `HandsOutWhole` exempts the first, and overlapping runs are only in `artifact_race`); and `src/resolve.cpp:34`
gives `BAAI__bge-base-en-v1.5` as what `flatten` makes of `BAAI/bge-base-en-v1.5`, which has one underscore.

## Fairness

* `SessionStore`: weak fairness of the steps of a call under way. Threads run; a mutex held for a few
  instructions is had. The load itself is assumed to end, which `Opening` shows of its steps in the runtime and `ModelCache` of those
  in the cache; curl's stall limits (`src/resolve.cpp:105-108`) end each transfer. New opens and releases are not assumed.
* `ModelCache`: weak fairness of each process's own steps, none of the host's.
* `OrtRuntime`: weak fairness of each load's steps, and strong fairness of taking the mutex, which threads that keep
  loading take again and again. The standard promises no such thing of `std::mutex`; each holder keeps it for a
  few instructions between long loads, and the implementations the library is built on do not starve a waiter then.
* `Opening`: weak fairness of a thread's steps in `acquire` and in the load, strong fairness of taking the runtime's
  mutex, as in `OrtRuntime`. It has no fairness for opens, releases and configurations.
* `Embedder`, `Resolve`, `ArtifactCache`: none, as their properties are safety; a CMake download has no stall limit.
* `RegistryPipeline`: none; nobody promises to run a script.
* `Encode`: weak fairness of the call's steps, without the failure of the graph, so that a loop that makes no progress is
  not saved by an error that may never come.

## What is proved

TLAPS checks, for any number of threads, models, processes, texts, sizes and bounds:

* `SessionStoreProofs`: `TypeOK`, `StoreInv`, `SingleFlight`, `OneLiveSessionPerKey`, `SettledListingExact`
  and `PendingHasLoader`, and that the steps of the store are steps of `ModelSharing`. The theorems that others build on
  (`InvariantHolds`, `StoreIsSafe`, `StepsShare`) are of `StoreSteps`, which leaves the store's fairness out: a
  composition implements it step by step.
* `CompositionProofs`, on `Embedder`: every step of the objects is one of the store or a stutter (`StoreImplemented`), so
  that the store's safety and the promise of `ModelSharing` hold under objects (`StoreSafeUnderObjects`, `ObjectsShare`);
  then `EmbedderInv`, `HandlesAreOpens`, `ValidIsLive`, `OpenSetsOut`, `HeldIsNotReloaded`, and `InUseByObjects`, which says
  what "in use" two refinements up comes to: some object, or an open about to return, owns it. The counts are cardinalities of sets
  of opens; a step adds one open to one of them or takes one out.
* `CompositionProofs`, on `Opening`: every step is one of the store and one of the runtime, or stutters there
  (`OpeningStoreSteps`, `OpeningRuntimeSteps`), so that what is proved of the halves holds of both together; then
  `OpeningInv` and from it `HandlesFixPool`, `HandlesOnTheirPool` (whoever has a handle has it on a fixed pool of the size
  accepted last) and `OpensGoOn`: while an open is under way, some open can go on. An open waits for a future whose load is
  under way (`UnsetInv`); a load waits for the lambda of `call_once`, which somebody runs, or for the mutex, whose holder
  goes on. `OpenFree` spells out the guards, since ENABLED is beyond the prover; on the instance of `opening` TLC finds it
  the same as ENABLED. `ObjectsOnTheirPool` is of the conjunction of the two
  specifications, which share the store: objects over store over runtime.
* `ResolveProofs`: `ResolveInv`, `FindsItsOwn`, `RequestsAllowed`, `BackoffHonoured`, and that resolving
  a configuration twice is resolving it once. `PathsApart` is where `RegistryAssumption` is used. The lower bound on the
  waits needs that 2^(n+1) is twice 2^n. The prover's backends know nothing of powers; the library counts the
  subsets of n numbers as 2^n, and a bijection gives the doubling (`PowerOfTwo`).
* `ModelCacheProofs`: `TypeOK`, `PartialInv`, `NoStrayPartials`, `PartialUndisturbed`, `VerifiedFilesOnly`.
* `OrtRuntimeProofs`: `TypeOK`, `NoOrtBeforeApi`, `PoolAsConfigured`, `SessionFixesPool`, that the runtime implements
  `RuntimeSetting`, and `NoStandstill`: while a load is under way, some load can go on.
* `ArtifactCacheProofs`: `ArtifactInv`, `CompleteIsVerified`, `HandsOutWhole`, `DownloadLeftAlone` and `LinkedFilesStay`, for runs one after the other (`MayOverlap = FALSE`). The run `artifact_race` shows that they need it.
* `EncodeProofs`: `TypeOK`, `TokensRight`, `RowsRight`, `OkMeansComplete`, `WritesInBounds`, `BatchInBudget`, `ProgressInv`.
* `RegistryProofs`: `TypeOK`, `PinsOfOneCommit`, `VerdictHasBasis`, `OneMeasurement`, `ShippedIsMeasured`. The invariant
  adds what a sweep knows of the vectors on disk at each arm, and that a pin run's copy is as sound as the manifest.

Every proof has the same plan: an inductive invariant, one step per action, and the properties from it. The
constants' assumptions are named in the modules and evaluated by TLC in every run. In `Encode` two lemmas carry the
argument: sorting gives every text one place (`OnePlace`), and a row in a batch at least as wide as its text is what
the text embeds to alone (`RowAlone`).

Only model-checked: the liveness properties (`EveryOpenReturns`, the two `EveryLoadEnds`, `EveryCallReturns`) and the
fairness that `ImplementsModelSharing` and `ImplementsSessionStore` ask for, which are beyond the prover; their safety is
proved. The properties that are violated are not proved, being false.

## What is not modelled

* Floating point: rounding in sums, quotients and norms; that masked attention gives exactly the same states at
  another width is assumed.
* Lookups in the constant registry: `find_model`, `models`, `identity`, `dimension`, the choice of a CA bundle. They
  change nothing.
* The order of static destructors at exit, explained at `src/session_ort.cpp:33-35`.
* How long things take: `Resolve` counts the seconds that `download` sleeps, and nothing else has a clock.
* The files that the ort arm of the sweep puts into the library's cache (`tests/parity/run_ort.py:38`), and that opens
  which join a load run under its configuration (`src/session_store.cpp:26`), of which no document promises anything.
* The tokenizers library, ONNX Runtime, curl and CMake themselves; the scores of the parity sweep; the build scripts,
  workflows and benchmarks (no state that lasts).
* The headers under `onnxruntime/include`, some 23500 of the repository's 25300 lines of implementation. They are a
  vendored copy of ONNX Runtime's interface, declarations that this library calls through in two files. What it
  uses of them appears in `OrtRuntime` and `Encode` as steps that succeed, fail or throw; there is no behaviour of this
  program in them to model, so the share of lines that the map covers is small, while it covers most of the library's own
  1700.

## Order of the work

The store with its abstract specification and refinement, the cache, the runtime, encoding and the registry came first,
each with its proofs; then the objects over the store, the composition of store and runtime, the tokenizer and its
shim, the paths, requests and waits of the cache, and the artifacts.

What could follow: `ModelCache` refining the one step in which `Resolve` puts a file in its place; the pool's promise
with `configure_cache` as a step of `Opening` too.
