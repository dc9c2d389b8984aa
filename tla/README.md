# A TLA+ model of memory-plant-rs

These modules specify the memory engine in `src/` (Rust crate `memory_plant`):
the bank of facts, its persistence, the per-user memory and audit trail on top
of it, the extractors that find facts in a message, the multi-user service, the
document index, the packed vectors of phases, and the two ways in: the MCP
server and the FFI engine. TLC checks each module on small instances. TLAPS
proves, for every value of their constants, every safety property that a run
checks and the refinement of the bank's specification. Liveness is checked by
TLC alone.

Paths below are relative to `src/`: `src/adaptive.rs` is
`src/src/adaptive.rs` from the root of this repository.

## 1. Inventory of the system

| Part | State | Operations | What makes it correct |
|---|---|---|---|
| **AdaptiveMemory** `src/adaptive.rs`, with **Vocab** `src/vocab.rs` and the kernel `src/hlb.rs` | a vocab (values, their row numbers, a cap); shards, each a vector `M`, a list of keys and a map from key to row; a map from key to shard; a counter | `store` (also overwrites), `forget`, `retrieve`, decoding of a shard | it behaves as a dictionary; overwrite and forget leave nothing behind in `M`; the five structures agree; no shard is overloaded |
| **Persistence** `src/persistence.rs` | a file, in plaintext or sealed, or a redb store | snapshot, save, load by replay | a load restores the facts of the last completed save; the replay never fails on a complete file |
| **PersonalMemory**, **Fact** `src/personal.rs`, `src/fact.rs` | a bank, a schema (values seen per predicate) | `ingest`, `store_fact`, `recall`, `all_facts`, `forget`, `forget_all` | bank, schema and export agree; a failing message leaves a prefix; erasure is complete and touches only the user's facts |
| **Extractors** `src/extractor.rs`, `anthropic.rs`, `openai.rs` | three shared counters | message to facts, by regular expressions or by a request to a language model; `stats` | an answer gives its facts or none; the counters add up; offline, every match once |
| **AuditTrail** `src/audit.rs` | a ring of events, a counter; a record per event in the bank | `record`, `recent`, `count_by`, save, load | the ring holds the latest events; ids are unique; both layers agree |
| **MemoryService** `src/service.rs` | users, audits; a directory per user and `service.json` | get-or-create, `remove_user`, save, load | a load restores what was saved, also after a save cut short |
| **DocumentMemory** `src/document.rs`, **indexes** `src/index.rs` | entries, chunks, optional index by position; one file | add (two ways), forget, search (two ways), save, load | what is held is what was last added; index and scan agree; search is the best k under the filter |
| **chunk_text** `src/document.rs` | loop variables | cut a text into windows | it ends, loses no word, overlaps as asked |
| **MCP server** `src/mcp_server.rs` | the loop; pipes to the client; the service | handle a line, answer, save at the end | every request (a line with an id and a method) answered once and in order; a session survives |
| **FFI engine** `src/ffi.rs` | two mutexes, over facts and documents; the files of two formats | three constructors, calls and saves by any thread | what a save wrote opens again, with its key only; files do not go back; calls return |
| **Crypto** `src/crypto.rs` | none | seal, open | what was sealed opens with its key only |
| **Unified VSA** `src/vsa.rs` | none; used by nothing else in the crate | drawing, packing, bind, unbind, cosine | a phase disturbs no other; unbind inverts bind |
| **Python bindings** `python-bindings/` | a chunk counter | wrappers | (not modelled) |
| generated Swift and Kotlin, examples, benches | - | - | (not modelled) |

How they interact. A `PersonalMemory` owns an `AdaptiveMemory` and calls it
directly. `AuditTrail::record` may be handed the same bank and stores one fact
per event in it, so user facts and audit records share shards and vocab rows.
A `MemoryService` owns one `PersonalMemory` and one `AuditTrail` per user and
saves both, file by file, into the user's directory. The MCP server has one
thread, which owns the service and talks to its client through two pipes. The
FFI engine is shared by threads: one mutex is around the service and one around
the `DocumentMemory`, and a save takes them one after the other. An HTTP
extractor is shared without a mutex: only its counters are written.

What is hard here: long sequences of overwrites and forgets that leave the
structures of a bank out of step; the vocab at its cap in the middle of a
message; replay after a restart; a crash between two files, or inside one;
positions in an index that shift; a client that pipelines, or closes a pipe;
threads that save at once, under two keys, or panic under a mutex; an answer of a
language model that is late, cut short or wrapped in prose; phases that share
a byte. `PROJECT.json` lists each
hazard at its line, with the properties that would catch it.

## 2. Modules

| Module | Models | Extends |
|---|---|---|
| `FactBank` | the promise of a bank: a dictionary with a limit on distinct values | - |
| `AdaptiveOps` | the value of an `AdaptiveMemory` and what each method makes of it; `Coherent`, the invariant | - |
| `AdaptiveMemory` | the methods as actions; refines `FactBank` | `AdaptiveOps` |
| `AdaptivePersistence` | save, crash, load by replay; plaintext, sealed, redb | `AdaptiveOps` |
| `PersonalMemory` | a user's facts and schema, sharing a bank with audit records | `AdaptiveOps` |
| `AuditTrail` | ring, counter, two layers, two files, restarts | - |
| `MemoryService` | users, the directory tree in plaintext and sealed, interrupted saves | - |
| `DocumentMemory` | documents, index, searches, the file | - |
| `ChunkText` | the chunking loop, a step per iteration | - |
| `McpServer` | server loop, pipes, client, sessions | - |
| `FfiEngine` | constructors, threads, two mutexes, poisoning, saves and files | - |
| `Extraction` | offline and HTTP extractors, shared by threads | - |
| `PhaseVector` | vectors of phases, drawn, bound and unbound a phase at a time | - |
| `SeqLemmas` | facts about sequences, loops and sets that several proofs use | - |
| `AdaptiveOps_proofs` | each method of the bank keeps `Coherent`; what `retrieve` returns after it | `AdaptiveOps`, `SeqLemmas` |
| `Adaptive_proofs` | the theorems about the bank and its persistence | `AdaptiveMemory`, `AdaptivePersistence`, `AdaptiveOps_proofs` |
| `PersonalMemory_proofs` | those about a user's memory | `PersonalMemory`, `AdaptiveOps_proofs` |
| `Service_proofs` | those about the service, the audit trail and the extractors | `MemoryService`, `AuditTrail`, `Extraction`, `SeqLemmas` |
| `Document_proofs` | those about chunking and documents | `ChunkText`, `DocumentMemory`, `SeqLemmas` |
| `Host_proofs` | those about the two ways in | `FfiEngine`, `McpServer`, `SeqLemmas` |
| `PhaseVector_proofs` | those about vectors of phases | `PhaseVector` |
| `MC*` | constants for TLC, with the `.cfg` files of the same name | |

The modules compose downwards by abstraction. `AdaptiveMemory` is shown to
implement `FactBank`; `PersonalMemory` and `AdaptivePersistence` use the
detailed bank through `AdaptiveOps`, since what they could break are the shards;
`MemoryService`, `AuditTrail` and `McpServer` use a bank as `FactBank`
describes it; `FfiEngine` reduces each store to the stamps of its parts and each
file to a stamp and a key, since what its calls do is covered below it.
`Extraction` returns what `PersonalMemory` takes as any short sequence of facts.

State and actions follow the code closely: a variable per field that matters
(`mem`, `schema`, `counter`, `inMemory`, `todo`, ...) and an action per method,
which is atomic where the code runs under `&mut self` or a mutex. A save is
several actions where it writes several files, and a crash may come between any
two of them or inside one. Each module has a section "Seeded faults": faulty
variants of a definition, one for each property, which show that the property
can fail. They are not part of the specifications. `PROJECT.json` maps every
definition to its lines.

A module of proofs may extend two or three components, so their names differ:
`AdaptivePersistence`, `ChunkText`, `AuditTrail`, `Extraction` and `McpServer`
prefix what every specification has (`PersistSpec`, `ChunkInit`, `AuditNext`,
`extractVars`, `McpSpec`), and where one word of the code fits two components
one of them has another (`live` is the memory of `AdaptivePersistence`, `loop`
the state of the MCP server, `files` and `up` those of an audit trail).

What the abstractions leave out:

- **Vectors.** Roles and rows are pseudo-random, so binds of different pairs
  are taken as linearly independent: `M` counts how often each bind is in the
  sum. Adding, subtracting and unbinding are exact. Cross-talk and `f32`
  rounding are not modelled; `ShardLoadBounded` is the premise under which the
  capacity formula in `src/adaptive.rs` bounds them.
- **Similarity.** Embeddings and scores of documents are a table; a search
  depends on their order alone. The HNSW graph is approximate and a library's:
  the index in the model is `BruteForceIndex`.
- **Phases.** `PhaseVector` is about `vsa.rs` bit by bit: bytes are numbers, and
  shifts and masks are quotients and remainders. The generators draw from a few
  sample phases; cosines are a table in thousandths.
- **Language models.** An answer is a sequence of pieces: a fence, prose, braces
  that are no JSON, a JSON object, a list. The server answers when it likes.
- **Text.** Keys, values, texts and filters are model values. Case folding,
  `safe_id`, the 500-character preview and serialisation are functions given as
  constants, because properties depend on what they merge or lose. What the
  five regular expressions capture in a message is a table.
- **Files.** `fs::write` truncates, so a crash inside it leaves a torn file. A
  file written in full is not lost by a later crash. redb commits in one
  transaction: a crash before the commit leaves the store as it was. A sealed
  file opens with the key it was written with and no other.
- `chunk_text` at size 0 emits an empty chunk per word. The model includes it
  and shows that the loop ends; what the chunks hold is stated above 0 only.

## 3. Runs

Each run is one question. Run `tlc -config X.cfg M` in this directory.

| Run | Configuration | Question and result |
|---|---|---|
| `adaptive` | `MCAdaptiveMemory` | After any sequence of store, overwrite, forget and retrieve, do the structures agree, does nothing stay in `M`, and is it a `FactBank`? Yes. |
| `persistence` | `MCAdaptivePersistence` | In each of the three backends, does a load restore the last completed save, never fail on a complete file, and leave a coherent, packed bank that a second save and load leave unchanged? Yes. |
| `personal` | `MCPersonalMemory` | Do schema, export and bank agree, does a failing message leave exactly its prefix, is a fact told under two spellings one fact, does erasure find everything and spare audit records? Yes. |
| `personal_erasure` | `..._Erasure` | Does total erasure leave nothing of the user's facts? No: the schema keeps the values. |
| `audit` | `MCAuditTrail` | Through evictions, failed records, crashes between and inside files, restarts, plaintext or sealed: is the ring the latest events, does the counter cover them, do the layers agree, are ids unique unless the clock went back? Yes. |
| `service` | `MCMemoryService` | After any interrupted or failed save, in plaintext or sealed, what does a load return? The users of the last completed save, each with a set of facts it really held; all of the last save when nothing was written since. A load fails only on a file that was cut short, which a completed save does not leave. |
| `chunks` | `MCChunkText` | Does the loop end, lose no word, overlap as asked and repeat no chunk, for all sizes and overlaps up to the bounds? Yes. |
| `documents` | `MCDocumentMemory` | Is what is held what was last added, are the hits of index and scan the best k of it under every filter, does a load restore it? Yes. |
| `mcp` | `MCMcpServer` | With pipelined lines, malformed lines, notifications, lines with an id that get no answer, panics, broken pipes and kills: are the requests answered once and in order, and nothing else, does a recall see earlier stores, does a session survive? Yes. |
| `ffi` | `MCFfiEngine` | Two engines, one after the other, on one path, with threads that call and save in both formats and under two keys, and errors, crashes and panics: does what a save wrote open with its key only and miss no change made before it, do files never go back, does every call return? Yes; a call that panics on a poisoned mutex counts as returned. |
| `phases` | `MCPhaseVector` | For widths that divide a byte and widths that do not: does every phase stay where it was put, is unbind the inverse of bind byte for byte, do similarities survive a bind? Yes. |
| `extractor` | `MCExtraction` | With two threads, late, lost, refused and malformed answers: do the counters add up, does an answer give its facts or none, does the offline extractor find every match once? Yes. |

The properties, by module. *Core:* `TypeOK`, `BooksAgree`, `NoResidual`,
`ShardLoadBounded`, `StableRowsAndPlaces` and the refinement
`ImplementsFactBank`. *Persistence:* `PersistTypeOK`, `LoadRestoresSaved`, `ReloadIsStable`.
*Personal:* `TypeOK`, `SchemaCoversFacts`, `ExportAgreesWithRecall`,
`IngestStoresPrefix`, `ForgetAllErases`. *Audit:* `HoldsMostRecent`,
`CounterCoversLog`, `LayersAgree`, `IdsUnique`. *Service:* `TypeOK`,
`LoadRestoresSaved`, `LoadsWholeUsers`. *Chunks:* `NoWordLost`,
`OverlapAsAsked`, `Terminates`.
*Documents:* `HoldsWhatWasAdded`, `SearchFindsBest`, `LoadRestoresDocuments`.
*MCP:* `AnsweredInOrder`, `RecallSeesLinesBefore`, `SessionSurvives`,
`RequestsAnswered`. *FFI:* `SavedStateOpens`, `FilesNeverGoBack`,
`EveryCallReturns`. *Phases:* `PhasesKept`, `UnbindRestoresValue`,
`BindKeepsSimilarity`. *Extraction:* `CountersAddUp`, `FactsAsReplied`,
`RegexFactsOnce`. Where a module's types are no property of their own, they are the
first conjunct of one of these. The comment above a
definition states it in words.

### Bounds

| Constant | Where | Value | Why it is enough |
|---|---|---|---|
| keys, values, `VocabCap`, `ShardCapacity` | bank | 3 (`personal`: 4), 3, 2, 2 | full, partly emptied and second shards occur, and a value that does not fit; the proofs lift these bounds |
| `MaxShards` | bank, personal | 3, 2 | a shard that forget emptied, one partly full and one new exist together |
| `MaxCalls`, `MaxBegun` | persistence, service, documents, FFI; extraction | 5, 3, 3, 3; 3 | calls that change state (FFI, extraction: all calls); saves, crashes and loads of the others are not counted. The shortest failure of every seeded fault needs fewer |
| `MaxFacts` | personal | 2 | a message that fails after its first fact |
| `MaxClock`, `MaxEvents`, `Capacity` | audit | 2, 3, 2 | one eviction, two restarts, an id issued in each |
| `MaxPieces`, `MaxHits` | documents | 2, 2 | documents of two chunks; a k above, at and below what there is |
| `MaxParagraphs`, `MaxWords`, `MaxSize`, `MaxOverlap` | chunks | 2, 7, 5, 6 | overlap below, at and above the size; a last window that is partial, exact, or covered |
| `MaxLines`, `MaxSessions` | MCP | 3, 2 | store, forget and recall in flight at once; a second session that loads |
| `MaxOpens` | FFI | 2 | an engine that opens what another one saved |
| threads | FFI, extraction | 2 | two saves interleaved between their two stores, or file by file with two keys; additions and reads of counters interleaved |
| backends, keys of sealed files | persistence, FFI | 3, 2 | each backend, the right key and another one |
| `SeedWidths`, `KeyWidths`, `MaxDim` | phases | 1, 2, 3, 4, 8 and 1, 3, 4, 5; 2 to 5 | refused widths; a byte that is full, one with padding, a phase across two bytes |
| replies | extraction | 14 | every path of `parse_facts_json`: fenced, salvaged, two objects, a list, cut short, items that lack a field; usage whole, in part and missing; text in several blocks |

The theorems of section 4 hold without these bounds: they are about every set
of keys, threads or messages, every capacity and every value of a `Max...`
constant.

`CHECK_DEADLOCK FALSE` is set for `AdaptivePersistence`, `AuditTrail`,
`MemoryService`, `ChunkText`, `DocumentMemory`, `McpServer`, `FfiEngine`,
`PhaseVector` and `Extraction`: a process may be down with a file that does not
load, the calls are finitely many, a function returns, a server ends.

### Fairness

- `ChunkText`: weak fairness of `Next`. A function that is called keeps running.
- `McpServer`: weak fairness of `Server`, the server's own steps. The process
  is scheduled; a write to the pipe returns because the client does not leave a
  full pipe unread for ever. No step of the client is fair, nor is `Kill`.
- `FfiEngine`: weak fairness of each thread's step inside a call, none of
  starting a call. The mutexes need not be fair, because the calls are finitely
  many and each holds a mutex once or twice. The constructors and `Stop` are not
  fair.

The other modules state safety only. In `Extraction` a request may wait for
ever: the timeout is a step that may come, and nothing is claimed of when.

## 4. Proofs

Every invariant and every action property that a run checks is also a theorem
of the component's specification, as is the refinement of `FactBank`. The
assumptions are those that the modules name with their constants; TLC evaluates
them in the module's run.

| Module | Assumption | Says |
|---|---|---|
| `AdaptiveOps` | `VocabCapAssumption`, `ShardCapacityAssumption`, `NotFoundAssumption` | the caps are in `Nat`; `NotFound` is not a value |
| `AdaptivePersistence` | `SeedAssumption`, `SecretAssumption` | the default seed is a seed; no key of a sealed file is the mark of a plaintext one |
| `PersonalMemory` | `FoldAssumption` | lower-casing is idempotent and keeps audit keys and user keys apart; audit records and user values are values of the bank |
| `AuditTrail` | `AuditAssumption` | the ring has room for an event; the cap is in `Nat` |
| `MemoryService` | `SafeIdAssumption`, `FileAssumption` | every id has a directory; "absent" and "torn" are no contents of a file |
| `Extraction` | `ThreadsAssumption`, `UsageAssumption`, `FoldAssumption` | the threads are finitely many; a usage field is a number or missing; lower-casing and trimming is idempotent |
| `Extraction` | `PartsAssumption`, `MatchesAssumption` | answers are blocks of pieces; captures are texts |
| `DocumentMemory` | `PreviewAssumption`, `CosineAssumption`, `FileAssumption` | a preview is a text; a score is a number; "absent" is not a document file |
| `FfiEngine` | `NoneAssumption`, `BoundsAssumption` | the marks `None`, `Free`, `BadKey`, `NoKey` are none of the things they stand apart from |
| `PhaseVector` | `WidthAssumption`, `SampleAssumption`, `CosAssumption` | keys come with widths from 1 to 8; sample phases are phases of their width; the table of cosines has an entry for each |
| several | `MaxCallsAssumption`, `MaxFactsAssumption`, `BoundAssumption`, `BoundsAssumption`, `ChunkBoundsAssumption`, `McpBoundsAssumption` | the model's bounds are in `Nat`, some of them above 0, without an upper limit (`MaxShards` and `MaxBegun` need none) |

Two premises are stated in theorems, because without them the code does
something else:

- `IsInjective(SafeId)`, in the three theorems about the service: no two user
  ids share a directory. Two that do overwrite each other's files
  (`UsersKeptApart`, section 6).
- Embeddings as long as the query's, in `SearchAlwaysFindsBest`: the scan leaves
  out an embedding of another length, the index does not look at lengths
  (`AnnMatchesExact`, section 6). One encoder gives vectors of one length.

### The bank of facts

`Adaptive_proofs` proves, for any sets of keys and values, any `VocabCap`
and `ShardCapacity` in `Nat`, and `NotFound` not a value (the named assumptions
of `AdaptiveOps`):

| Theorem | Statement |
|---|---|
| `AlwaysCoherent` | `Spec => []Coherent(mem)` |
| `TypeCorrect` | `Spec => []TypeOK` |
| `BooksAlways` | `Spec => []BooksAgree` |
| `NoResidualAlways` | `Spec => []NoResidual` |
| `LoadAlways` | `Spec => []ShardLoadBounded` |
| `StableAlways` | `Spec => StableRowsAndPlaces` |
| `Refinement` | `Spec => ImplementsFactBank` |

The inductive invariant is `Coherent`, the conjunction of all named parts. No
part is inductive alone. What `forget` subtracts from `M` is the row that `k2v`
has for the key in the shard that `key_to_shard` names, and that row is in the
tensor only because the vocab's index and rows agree. So `NoResidual` needs
`Routing` and `VocabIndexed`; `Counted` needs `DistinctKeys`, since a key listed
twice would be counted twice; `ShardLoadBounded` needs the
routing to know that an overwrite does not append.

`AdaptiveOps_proofs` shows that each method keeps `Coherent`, shard by shard
(`ShardInv`: a call disturbs at most one shard), and what `retrieve` returns
afterwards (`StoredContent`, `ForgottenContent`). The refinement then maps
`Store` to `Put`, `StoreVocabFull` to `PutRejected`, `Forget` and
`ForgetUnknown` to `Erase`, `Retrieve` to `Lookup`. `SeqLemmas` has the
induction principle on sets that `Vec::retain`'s loop needs.

`MaxShards` bounds the model's `Store`, so the theorems are about the bank with
any such bound; none of the assumptions limits it.

### Persistence

`Adaptive_proofs`, for any keys, values, secrets, seeds and capacities:

| Theorem | Statement |
|---|---|
| `PersistenceTypeCorrect` | `PersistSpec => []PersistTypeOK` (coherence of the memory in particular) |
| `LoadRestoresAlways` | `PersistSpec => LoadRestoresSaved` |
| `ReloadAlwaysStable` | `PersistSpec => []ReloadIsStable` |

`IInv` adds to `PersistTypeOK` that the memory that was saved last is coherent and that
a whole file is its snapshot. What has to be shown is the loop of
`from_snapshot`. Its invariant: after `i` pairs the memory is coherent, holds
the first `i` facts in that order and knows no value that the saved memory did
not know. The last part is why the replay cannot fail: the saved vocab had a
row for each of these values, so the new one has room for the next. Rows and
shards may come out differently, and the invariant says nothing of them.
`ReloadIsStable` then follows by applying the loop to its own result, which is
packed.

### Per-user memory

`PersonalMemory_proofs`, for any set of predicates, audit keys and values, any
lower-casing that satisfies `FoldAssumption`, messages of any length:

| Theorem | Statement |
|---|---|
| `PersonalTypeCorrect` | `Spec => []TypeOK` |
| `SchemaAlwaysCovers` | `Spec => []SchemaCoversFacts` |
| `ExportAlwaysAgrees` | `Spec => []ExportAgreesWithRecall` |
| `IngestAlwaysStoresPrefix` | `Spec => IngestStoresPrefix` |
| `ForgetAllAlwaysErases` | `Spec => ForgetAllErases` |

`IInv` is the conjunction of the three invariants. `store_fact` adds a value to
the schema exactly when the bank has taken it (`StoredFactKeeps`), so the pair
of bank and schema stays in `Progress` through each fact of a message, and the
prefix that was stored is read off the loop (`AllStoredPrefix`); `store_fact` is a message of
one fact (`OneStored`). Export does not go through `key_to_shard`: it decodes
each shard's own list of keys, and a later shard replaces what an earlier one
had. It agrees with recall because exactly one shard lists a key, the one the map
names (`AllFactsAreRecalled`, from `Routing`). `forget_all` runs through the keys
that the shards list. Each is erased once because no key is in two shards
(`Routing`, `DistinctKeys`); a fact is left alone because its key is not listed
among the user's; no bind stays behind because the result is coherent.

### Audit trail

`Service_proofs`, for any `Capacity` above 0, any cap of the vocab, any kinds:

| Theorem | Statement |
|---|---|
| `TrailHoldsMostRecent` | `AuditSpec => []HoldsMostRecent` |
| `CounterAlwaysCovers` | `AuditSpec => []CounterCoversLog` |
| `LayersAlwaysAgree` | `AuditSpec => []LayersAgree` |
| `IdsAlwaysUnique` | `AuditSpec => []IdsUnique` |

The four lean on each other through the files, and the invariant is `AuditInv`. `FilesOK` says what a restart
will find: the bank's file is written first, so it has every layered event of
the trail's file; and while the process that loaded that file runs, its counter
is not behind the file's, so no new event takes the number of one in the bank.
`IdsBehind` orders the ids: each is behind the clock or, within a millisecond,
behind the counter. A restart may forget the counter, but it takes a
millisecond, so every id before it is behind the clock. That fails when the clock
was set back, which `IdsUnique` excludes. The kinds that have a
row in the vocab (`known`) cover those of the bank and stay within the cap;
`FilesOK` has the same of the bank's file (`Fits`), so that a restart fits.

### Service

`Service_proofs`, for any ids, facts, predicates and number of calls, in
plaintext and sealed:

| Theorem | Statement |
|---|---|
| `ServiceTypeCorrect` | `IsInjective(SafeId)` implies `Spec => []TypeOK` |
| `ServiceLoadRestores` | `IsInjective(SafeId)` implies `Spec => LoadRestoresSaved` |
| `ServiceLoadsWholeUsers` | `IsInjective(SafeId)` implies `Spec => LoadsWholeUsers` |

A save is a list of files still to write (`todo`), in an order that the hash map
of the users decides, and `service.json` last. `SaveOK` says of it that each
file of each user is in the list or has been written from the memory as it is
now; the memory cannot change before the list is empty. So when `service.json`
is written the tree is the memory (`IntactOK`). Whatever is cut short before
leaves the old `service.json`, hence the old list of users (`ListOK`), with
files that are old, new or torn; none of these users lacks a file, so what does
not load has a torn one (`CutFilesAlone`). `DirsOK` says that each is the user's own and
holds facts that were in memory when some save began. A load reads exactly
these. `UsersOK` says that each memory files its facts under its own id, which
is why a user's directory does not tell of others.

### Extractors

`Service_proofs`, for any finite set of threads, any answers and any table of
captures:

| Theorem | Statement |
|---|---|
| `CountersAlwaysAddUp` | `ExtractSpec => []CountersAddUp` |
| `FactsAlwaysAsReplied` | `ExtractSpec => FactsAsReplied` |
| `RegexFactsAlwaysOnce` | `ExtractSpec => RegexFactsOnce` |

`ExtractInv` counts twice: a counter and what the threads still owe it are the
answers received; what has returned and what the threads inside `extract` have
paid is the counter (`SumsAgree`). Both are sums over the threads of which a
step changes one term (`SumExcept` of `SeqLemmas`). What `stats()` reads of a
counter therefore lies between what had returned when it began and what had
been answered (`ReadsAgree`).

The other two are about the pure part. For an answer, `InnerIs` and the lemmas
after it follow the pieces of a text through the cut of the fences to the part
between the braces: a JSON object or list that is alone between fences and prose
keeps its place, and with a second one there is no payload. For an offline
message the function `facts[i]` of `RegexFacts` is a loop: after `i` captures it
has each of their pairs once, in the order of first capture.

### Chunking

`Document_proofs`, for any number and lengths of paragraphs, sizes and overlaps:

| Theorem | Statement |
|---|---|
| `NoWordEverLost` | `ChunkSpec => []NoWordLost` |
| `AlwaysOverlapAsAsked` | `ChunkSpec => []OverlapAsAsked` |

`ChunkInv` says where the next window starts relative to the last: behind the
beginning of each window so far, by at most a window (`BehindOK`), and sharing
with the last one what was asked (`LastOK`); and that every word before it is in
a window (`CoveredOK`). The loop leaves a paragraph only when a window has
reached its end. `LastOK` needs `StartOK`: a paragraph that fits into one window
is not entered twice.

### Documents

`Document_proofs`, for any documents, embeddings, filters, and with or without
an index:

| Theorem | Statement |
|---|---|
| `AlwaysHoldsWhatWasAdded` | `Spec => []HoldsWhatWasAdded` |
| `LoadAlwaysRestoresDocuments` | `Spec => LoadRestoresDocuments` |
| `SearchAlwaysFindsBest` | embeddings of one length imply `Spec => []SearchFindsBest` |

`IInv` is `MemoryOK` of the memory, and the same of what a whole file holds
(`FileOK`). Its parts: `Holds`, entries and chunks are what was last added;
`IndexOK`, the index has the embedding of every chunk at the chunk's place. Adding removes
the old chunks of the document, which shifts the places of others; the index is
rebuilt, so `IndexOK` holds again.

For the search, a stable sort is a ranking: the rank of a place is the number of
places that score better, or as well and come before. Ranks are distinct and
leave no gap (`RanksAre`), so there is one place for each of the first k ranks.
The index is asked only without a filter, and has every chunk at its place, so
its ranking is the scan's (`SearchIs`). Places stand one to one for the pieces
that were added (`FoundIsWanted`).

### FFI engine

`Host_proofs`, for any number of threads, keys, calls and engines:

| Theorem | Statement |
|---|---|
| `SavedStateAlwaysOpens` | `Spec => []SavedStateOpens` |
| `FilesNeverReturn` | `Spec => FilesNeverGoBack` |

The invariant has a part for each stage of a save. Under a mutex, what has been
written is what the mutex guards (`FactsLeft`, `DocsLeft`): nobody else can
change it, and no other save can write the same files. After the first mutex has been
released others may change and save the facts, and what remains true is weaker:
the files open with the save's key and are not older than its snapshot
(`FactsOpen`), unless the save was disturbed. That survives the saves of
others because their snapshots were taken later or their memory is newer.
`SavedStands` says the same of the last save that returned Ok, also for the next
engine on that path. `FileBehind` is what `FilesNeverGoBack` needs: a file is
not newer than the memory that the next write of it comes from.

### MCP server

`Host_proofs`, for any number of lines and sessions:

| Theorem | Statement |
|---|---|
| `AlwaysAnsweredInOrder` | `McpSpec => []AnsweredInOrder` |
| `RecallAlwaysSeesLinesBefore` | `McpSpec => []RecallSeesLinesBefore` |
| `SessionAlwaysSurvives` | `McpSpec => SessionSurvives` |

A request is a line with an id and a method other than
`notifications/initialized` (`Request`). That is less than JSON-RPC asks for:
`handle_request` returns before it looks at the id of a line that has no method,
of a batch, which is an array and has none either, and of
`notifications/initialized` (`mcp_server.rs:85` and 96). These lines are in the
model, with and without an id, and the theorem says of them that they are not
answered. That every line with an id is answered is `IdsAnswered`, which does not
hold (section 6). `AnsweredIsRequest` relates the early returns to `Request`.

`McpInv` has what the loop knows between two lines. `PendingOK`: while a response
is being written it is the response to the last line read, every earlier one is
already out, and a recall's is the value before that line. `MemoryOK`: the facts
are what the lines read so far have made of them, starting from what the last
session left (`ValueAt`). A session that saved has written these facts, so the
next one starts from them.

### Vectors of phases

`PhaseVector_proofs`, for any sample of phases, any dimension and every width
from 1 to 8:

| Theorem | Statement |
|---|---|
| `PackingKeepsPhases` | `Spec => []PhasesKept` |
| `UnbindInvertsBind` | `Spec => []UnbindRestoresValue` |
| `BindingKeepsSimilarity` | `Spec => []BindKeepsSimilarity` |

A buffer is taken as its bits. Bit `j` of what is read at a place is the
buffer's bit `k * n + j` (`ReadsBits`), whether the phase is inside one byte or
across two, and packing sets these `k` bits and no other (`WritesBits`). So a
phase that was put is read back and the others are as before (`PutGet`). At
widths that do not divide 8 some bits are left over behind the last whole
phase; `Blank` says that they, and the padding before them, are zero. Two buffers
with the same phases and blank in the same places are equal (`SameSlots`), which
is why `unbind` restores the value byte for byte and not just phase by phase. The
inductive invariant `IInv` adds to `PhasesKept` what each finished vector holds,
since `UnbindRestoresValue` speaks of the end of four loops. `MinusUndoesPlus`
is the arithmetic: subtraction modulo a power of two undoes addition.

### Model-checked only

- Liveness (`Terminates`, `RequestsAnswered`, `EveryCallReturns`): fairness and
  `ENABLED` are beyond the prover.
- The statements of section 6, which do not hold.

The folds and recursive functions of the models (`Retain`, the replay of a
snapshot, the windows, the sums of counters and cosines) are handled without
induction over an operator: `SeqLemmas` states induction over sets and the
existence and the steps of a loop for functions, and the proofs cite that.

## 5. Not modelled

- What the regular expressions match, the HTTP protocol, the cipher and its
  nonces, redb and the HNSW graph: libraries, external to the modules or a table.
- Floating point: normalisation, the drawing of roles, noise. The wording of
  requests, messages and errors.
- The Python bindings: wrappers that call modelled operations one to one under
  the interpreter lock. The only state of their own is
  `PyDocumentMemory.n_chunks`, which drifts from the memory it counts (it adds
  on a replacement and starts at 0 after `load`,
  `python-bindings/src/lib.rs:213-275`).
- `role_from_key` of `vsa.rs` with width 0, which has no byte to write to, or
  above 8, where a shift overflows.
- Generated Swift and Kotlin, examples and benches.
- In `McpServer`, an ingest that fails after its first facts, and the folding of
  predicates: `PersonalMemory` has both.
- In `AuditTrail`, a user that is removed and created again within the same
  millisecond: the new trail starts its counter anew and may issue an id of the
  old one.
- A deadlock of client and server over two full pipes, which depends on their
  size.
- That a save of facts and documents is one snapshot of both: the code releases
  the first mutex in between, and promises no such thing.

## 6. Where comments and code part

One statement is a run that TLC violates: `TotalErasure`
(`src/personal.rs:107`). The modules also define the following, which do not
hold either. To see a counterexample, put the name in a copy of the module's
configuration.

| Definition | Module | What the code does |
|---|---|---|
| `FreedSlotReused` | AdaptiveMemory | `store` looks at the last shard alone; slots freed in older shards stay free until a restart (`adaptive.rs:183`, comment at 329) |
| `IndicesPreserved` | AdaptivePersistence | the replay assigns rows in its own order (`persistence.rs:111`) |
| `PartitioningPreserved` | AdaptivePersistence | the replay packs facts into the gaps (`persistence.rs:66`) |
| `SeedRestored` | AdaptivePersistence | the snapshot has the default seed, whatever the vocab was drawn with (`persistence.rs:88`) |
| `RecallFindsStored` | PersonalMemory | a predicate is stored in lower case and recalled as spelled (`personal.rs:71`, `fact.rs:40`) |
| `IngestReportsNew` | PersonalMemory | `ingest` reports facts the schema had (`personal.rs:41-47`) |
| `SavedStateOpens` | MemoryService | after an interrupted save one torn file keeps every user from loading (`service.rs:145`) |
| `RemovedFromDisk` | MemoryService | a removed user's files stay (`service.rs:74`) |
| `UsersKeptApart` | MemoryService | two ids with one `safe_id` share files (`SafeId <- MCSafeIdShared`; `service.rs:224`) |
| `ReportedChunksIndexed`, `ForgetReportsRemoval` | DocumentMemory | when the encoder fails, nothing is indexed and `n` is returned; forgetting that entry answers false (`document.rs:365-415`) |
| `OriginalTextKept` | DocumentMemory | chunks keep their first 500 characters (`Preview <- LongPreview`; `document.rs:384`) |
| `WrittenFileOpens` | DocumentMemory | a NaN is written as `null`, which does not load (`NonFinite <- OneNonFinite`; `document.rs:652`) |
| `AnnMatchesExact` | DocumentMemory | not for embeddings of different lengths (`Dim <- MixedDim`; `index.rs:24`) |
| `IdsAnswered` | McpServer | a line with an id gets no answer when it has no method that is a string, is a batch, or is `notifications/initialized` (`mcp_server.rs:85`, 96; comment at 89) |
| `SavedOnShutdown` | McpServer | an error on stdout returns before the save (`mcp_server.rs:73`) |
| `SealedFootprint` | FfiEngine | plaintext files of an earlier save stay beside the sealed ones (`ffi.rs:210-217`) |

Observations without a definition of their own:

- `Fact::new` cuts the source at byte 200, which panics inside a character
  (`fact.rs:36`). Through an HTTP extractor the source is the whole message;
  offline it takes a very long word. Under the engine's mutex the panic
  poisons it, and every later call on facts panics too (`ffi.rs:75` says
  "Thread-safe"): `IngestPanics`, `LockPoisoned`. `EveryCallReturns` counts such
  a call as returned: nobody waits for ever, but the calls do not succeed.
- A sealed save under a new key that is cut short leaves files of two keys, and
  no key opens the engine. A first save that is cut short before
  `service.json` is taken for none: the constructors start empty, without an
  error (`ffi.rs:117`, `ffi.rs:146`).
- A crash between a user's bank and schema leaves a bank that is newer than the
  schema (`service.rs:96`); `forget_user` leaves the documents, and the user's
  directory.
- An answer with two JSON objects, or an object with braces in the prose around
  it, gives no facts; a blank subject is kept as "" and not taken for the user
  (`extractor.rs:41-79`). `extractor.rs:8-9` plans retries with backoff;
  both HTTP extractors send a request once.
- `stats()` reads three counters one after the other and is no snapshot; what
  `CountersAddUp` says is that each covers the calls that had returned.
- `vsa.rs`: the error for a width says that it "must be 1, 2, 4 or 8", and
  `pack_phase` that a phase across two bytes "shouldn't happen"; `role_from_key`
  does not look at the width, and packs such phases right. The module's comment
  counts 1 bit per phase for k = 1, where `Real` takes 4 bytes. At dimension 0
  the cosine is 0 for a `Real` and a NaN for a `Quantized`.

`IdsUnique` is stated under the condition that the clock was not set back:
without it, a crash that loses the counter may repeat an id (`audit.rs:121`).

## 7. Plan

Done: the core (bank, refinement, proofs) first, then persistence in all
backends, the per-user layers, the service, documents, and the two ways in with
their constructors; then the extractors, and the vectors of phases. The proofs
of section 4 cover every safety property of every run.

Next, extending the model:

1. `ServicePromise`, an abstract save and restore of all users, with
   `MemoryService` shown to implement it while no save is interrupted.
   `ServiceLoadRestores` is its step for a load.
2. `Extraction` composed with `PersonalMemory` under the engine's mutex.
