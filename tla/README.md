# fckdb in TLA+

fckdb stores namespaces of documents (a vector and typed attributes each) on
object storage and answers vector, text and attribute queries over them. There
is no local state that matters: every change of a namespace goes through one
mutable object, its *manifest*, which is replaced by a conditional PUT
(compare-and-swap, "CAS" below). Everything else in the bucket is written once
under a unique name. These modules are about what that design has to get right:
many processes sharing a bucket, with lost races, errors that hide successes,
crashes, and objects being deleted under readers' feet.

All line numbers are of the files under `src/src/`.

## 1. The system

### Parts, their state and their operations

| part | source | state | operations |
|---|---|---|---|
| Documents | `doc.rs`, `store.rs:1909` (`apply`) | none: values | upsert, patch, delete; replay of a sequence of records |
| Schema | `doc.rs:190-400` | the attribute types, dimension, metric, number of shards in the manifest | `absorb` a batch, `declare*`, the once-only `set_shards`, `set_metric` |
| Values, filters | `value.rs`, `doc.rs` | none | coercion, comparison, evaluation of a filter |
| Commit protocol | `store.rs:728` (`commit_records`), `629` (`commit_batch`) | the manifest; WAL objects; per node the manifest it remembers (`Snapshot`) | take a batch, write its WAL object, CAS the manifest, retry, answer |
| Compaction | `store.rs:1327` (`compact`), `1440` (`build_shard`) | segment and index objects | fold the WAL and the segments into new segments, CAS the manifest |
| Garbage collection | `store.rs:1668` (`gc`) | none of its own | load, list, delete what is unreferenced and older than the grace window |
| Queries | `store.rs:878` (`query`), `519` (`load_with`), `320` | the remembered manifest | choose a manifest, cut or refuse a long WAL, read the objects, rank |
| Read cache | `cache.rs`, `store.rs:539` (`read_immutable`) | a file used as a ring, a table guarded by a lock | `get`, `put` |
| Group committer | `store.rs:1979` (`GroupCommit`) | a queue per namespace and one task | `submit`, `write_all`, coalesce up to 1024 records or a byte limit, reply to every waiter |
| Life cycle | `store.rs:1725` (`branch`), `1762` (`destroy`), `1786` (`verify_cas`) | whole namespaces | copy a namespace, delete one, probe the store |
| Attribute index | `attrindex.rs` | an immutable object | `build`, `evaluate`, `select` |
| Text, vector and sparse indexes | `fts.rs`, `index.rs`, `sparse.rs` | immutable objects | build, score |
| Aggregations | `aggregate.rs` | accumulators of one query | `feed`, `finish` |
| Embedding client | `embed.rs` | none | calls an external service |
| Server | `server.rs`, `ops.rs` | the registry of resident namespaces, the sweepers' tables | handlers, backpressure, `evict_idle`, `spawn_compactor`, `spawn_collector`, authentication, metrics |
| Formats | `wire.rs`, `compat.rs` | none | transposition, the compatible API |
| Errors, command line, benchmarks | `error.rs`, `main.rs`, `bench.rs` | none | |

### How they interact

A handler of the server finds (or makes) the *resident* handle of a namespace,
expands the request into records and sends them to the namespace's group
committer, a spawned task that calls `commit_records` with everything it finds
queued. Compaction and garbage collection are called by two sweepers of each
process, by their endpoints, and (compaction) by a write refused for
backpressure. A query loads the manifest, or takes the remembered one when it
is young enough for the caller's consistency, and reads the objects it names
through the node's cache. Between processes there is nothing but the bucket.

Every call of the store is an `.await`: between any two of them other tasks of
the process, and other processes at any time, run. That is where the hard
behaviour is.

### What makes each part correct

* **Commits**: a batch is in the namespace once, whole, and before its writer is
  told; its number is its place in the order of commits; every writer is told
  something; the object named by an entry holds the bytes of that entry.
* **Compaction** changes what is stored and not what is live, whatever is
  committed, compacted or swept meanwhile.
* **Garbage collection** deletes nothing the manifest names or is about to name.
* **Queries**: a strong answer contains every batch committed before it was asked
  for; an answer marked consistent does too; any answer is the live set of some
  moment.
* **Read cache**: a wrong answer is impossible, only a slow one is.
* **Group committer**: every request is answered, and success means each of its
  records once and in order; settings it carries are honoured or refused; a
  process runs one committer per namespace, and an idle one ends.
* **Life cycle**: a manifest names only what is there, a branch's too; what was
  destroyed stays destroyed; a namespace the collector skips has no garbage of
  its last sweep left.
* **Schema, shards, indexes**: what is stored has the types that were declared; a
  document is in one shard; settings that decide where data is looked for never
  change under it; an index answers exactly what it claims to, and a query that
  goes through indexes and tail what a scan of the live set would.
* **Formats**: what is written reads back, whole or not at all.
* **Handlers**: every row of a write gets its own vector, a write does what it was
  asked for although its filter was evaluated earlier, and the order of an
  answer's rows is the one its `$dist` says.

The hazards behind these properties are listed with their lines in
`PROJECT.json`.

## 2. Modules

| module | models | extends |
|---|---|---|
| `Documents` | records, `apply`, `materialize` | |
| `AtomicNamespace` | abstract: a live set to which batches are applied atomically | `Documents` |
| `Namespace` | the commit protocol, compaction and collection of one namespace, on several nodes, with faults | `Documents` |
| `NamespaceReads` | queries against it | `Namespace` |
| `NamespaceInvariants` | the parts of the inductive invariants | `Namespace` |
| `RingCache` | the read cache and `read_immutable` | |
| `Committer` | the write path of a process: registry, handlers, group committer | |
| `Lifecycle` | several namespaces: writes, compactions, `branch`, `destroy` and the collector of a process that may restart | |
| `TypedValues` | values, their types, order and coercion (`value.rs`) | |
| `Schemas` | the schema: what a batch declares, infers and is coerced to | `TypedValues` |
| `FullText` | tokens, postings, edit distance | `TypedValues` |
| `Filters` | filter expressions over a document | `Schemas`, `FullText` |
| `AttributeIndex` | the inverted index of an attribute; what a filter learns from it | `Filters` |
| `Ranking` | metrics, clusters, sparse postings, top-k and ordered answers | `Filters` |
| `Aggregates` | accumulators and groups | `Schemas` |
| `Search` | a namespace as a query sees it: schema, shards with their indexes, tail; every plan of a query | `AttributeIndex`, `Ranking`, `Aggregates` (and an instance of `Documents`) |
| `Codec` | the binary form of values, records, segments and indexes | `AttributeIndex`, `Ranking` |
| `CompatApi` | the write and query handlers of the HTTP APIs | `Search` |
| `NamespaceProofs`, `DocumentsProofs`, `RingCacheProofs`, `CommitterProofs`, `LifecycleProofs`, `SearchProofs`, `AnswersProofs`, `CodecProofs` | theorems | the module they are about (`NamespaceProofs` also `NamespaceReads`, `SearchProofs` both `Search` and `CompatApi`, `AnswersProofs` what `Search` answers) |
| `MCNamespace`, `MCNamespaceReads`, `MCRingCache`, `MCCommitter`, `MCLifecycle`, `MCSearch`, `MCCodec`, `MCCompatApi` | instances for TLC | |

### Documents

A live set is a function from ids to attributes. `Apply` is `apply`: an upsert
replaces the document, a patch of an absent document does nothing, a `Null` in a
patch removes the attribute. Vectors are left out: only an upsert sets one.
`ReplayAll` replays the records of several batches, as a reader does with a WAL.

### Namespace

*State.* `manifest` is the mutable object with the version the store gave it
(version 0: not found). `body` is what was ever written under a name -- for a WAL
object its batch, for a segment its documents -- and `stored` the names in the
bucket now. `snapshot[n]` is the manifest node n remembers. `writer[n]`,
`compactor[n]` and `collector[n]` hold the local variables of `commit_records`,
`compact` and `gc` and the await they are at. `submitted`, `acked` and `failed`
are what the callers handed in and were told. `log`, `emptied` and the `covers`
of a segment are history: no guard reads them.

*Atomicity.* A step ends at an await. The store carries a call out at one moment;
what the task does with the answer is a later step. In particular `remember`
inside `load()` (483) happens after other tasks may have run.

*Actions.* `WriterTake` (728-736) starts from the remembered manifest if there is
one; `WriterGet` loads it otherwise; `WriterPut` writes the WAL object under a
fresh name; `WriterCas` is the conditional PUT; `WriterWon` remembers and
answers; `WriterLost` forgets and retries or gives up; `WriterError` is any other
error and `WriterUnsure` one that hides a success. `CompactorStart`, `Plan`,
`Reload`, `Build`, `Load`, `Check`, `Cas` and `Won` follow `compact` from await to
await; it loads the manifest in three places, and the model keeps the three
apart (`first`, `second`, `current`). `CompactorMissing` is an object that was
collected before it was read. `CollectorLoad`, `List`, `Delete` and `Done` follow
`gc`; the deletions run concurrently and so take effect in any order. `Crash`
loses everything a node holds in memory.

*The grace window.* Time does not appear. An object may be collected if it was
`old` when the sweep loaded the manifest, and `GraceCovers` says what the window
is assumed to outlast: with `"commit"`, no object of a commit that is still under
way is old; with `"compaction"`, nor is one of a compaction. The server passes an
hour; the comment of `gc` asks for a commit's duration only.

*Abstractions.* One shard; a shard's segment and index objects are one object,
since `build_shard` writes them together and the manifest names them together.
One committer, one compaction and one sweep per node at a time (the registry's
intent; more of them are more nodes). A batch is handed in once. The schema
and several shards are `Search`'s.

### NamespaceReads

A query takes the remembered manifest (`ReadRemembered`, eventual) or loads it
(`ReadLoad`, `ReadRemember`), is refused when the WAL is over the cap and it is
strong, reads what it needs and answers. The answer is the live set it would be
computed from. Sizes are counted in WAL objects, so the cap is a number of them.
How old a remembered manifest may be is left open: any age.

### RingCache

The file is a row of cells. `Lookup`, `Pread`, `Drop` are `get`; `PutOversized`,
`PutStart` (wrap and evict), `PutWrite` (one cell at a time), `PutDone` and
`PutFails` are `put`. The lock is held from `PutStart` to `PutDone`; `Pread` runs
outside it, as in the code. `SpoilCell` is the bad sector the checksum is for.
The checksum is the bytes themselves.

### Committer

*State.* `registry` is the resident handle of one namespace, `committer[h]` the
task of handle h with its channel, the batch in its hands and the answer it is
about to give, `caller[c]` a request with its handle, what it has sent and the
answers in its oneshot channels. `commits` is the sequence of committed batches,
`settings` the metric and the declarations in the manifest.

*Actions.* `Arrive` is `resident` (258-279), `Evict` is `evict_idle` (305-315):
both are one step, as both hold the registry's lock throughout. A handle's
strong count is the number of requests that hold a clone, plus the registry's.
`Admit` and `Refuse` are what follows the load for backpressure and the assembly
of the records; `Send` and `Await` are the two loops of `write_all`, one record
or answer a step, since the committer runs on another thread; `Cancel` is the
client going away at an await, which leaves in the channel what was sent.
`Receive` drains the channel: up to `MAX_BATCH_LEN` records, or fewer, because
`MAX_BATCH_BYTES` depends on sizes that are not modelled. `Commit` and
`CommitFails` are `commit_records` as one step with the outcomes that `Namespace`
gives it: the batch is committed whole and answered with its number, or whole
and answered with an error, or not at all, because the settings disagree or for
an error. `Reply` answers everyone in the batch, `End` is `recv` returning `None`.

*Abstractions.* A record is known by its request and its place in it. Settings
are a partial function, of which those in `FirstWriteOnly` (the metric) may be
changed until there is data. Inference of types is `Schemas`', other processes (two
committers on one manifest) are `Namespace`'s, and `destroy`, whose `forget` (285)
takes the handle out of the registry although requests may hold it, is
`Lifecycle`'s: what is said below of one committer per namespace is said of a
namespace that is not destroyed.

### Lifecycle

*State.* For each namespace its `manifest` and the `objects` under its prefix;
`holds[o]` are the batches that object o holds, for every object ever written:
names are unique in the bucket, except that a copy keeps the name of what it
copies. `task[t]` is an operation and what it has in hand, `sweep` the
collector's; `resident` is the registry, `seen` what `collect_once` remembers.

*Actions.* A call of the store is a step: `BeginWrite`, `PutWal`, `CommitWrite`;
`BeginCompact`, `BuildShards`, `CommitCompact`; `BeginBranch`, `HeadDestination`,
`Copy` (one object at a time, in any order), `PutBranch`; `BeginDestroy` (the
manifest's delete), `ListDoomed`, `DeleteDoomed` (one object at a time, in any order),
`DeleteEntry` (the manifest, if it was listed), `EndDestroy` (with `forget`);
`BeginSweep`, `ListGarbage`, `DeleteGarbage` (one object at a time), `EndSweep`. An
error of a branch's head call is taken for a destination that is not there, and an
error of a destroy's first delete is ignored, as the code does both. `Fail` and `FailSweep` are an error that ends an operation at any
of these, `EvictIdle` drops a handle nobody holds, `Restart` all that is in memory.

*Abstractions.* A batch is itself; documents are `Namespace`'s. The races over one manifest that
`Namespace` has in detail are coarser here: a commit that lost loads again in the
same step, and a compaction's last load and its CAS are one. The grace window
outlasts every operation: what an operation in flight has put (`Uses`) is too young
for a sweep, and of the rest a sweep may take any part (`ListGarbage`), as ages are
not modelled. The process-wide counter that `seen` is compared with is modelled by
what its change does: `seen` is emptied.

*A namespace that is branched into twice.* Names are unique, but a copy keeps its
name. When a branch failed half-way, its copies lie in the destination as garbage;
when they are an hour old a sweep may list them, and a second branch of the same
source may put new copies over them before the sweep deletes what it listed. The
second branch's manifest then names what is gone (store.rs 1734-1742 against
1702-1705). `Condemned` is what a sweep is about to delete; `Copy` marks the
destination as `torn` when it puts a copy over such an object.

*A destroy whose manifest stays.* `destroy` ignores the error of the manifest's delete
(1763) and lists and deletes the objects all the same; the manifest is deleted with
them, as it is listed too, but in any order. While that goes on, and for good if an
error or a restart ends it, the manifest names objects that are gone, although the
comment (1757-1761) says that it goes first and "whatever remains is unreferenced
garbage". Such a namespace is `torn`, and so is one that is destroyed while a task is
to change it, until a destroy of it has come to its end with nobody about to change
it. That and the copies above are all that `ManifestsAreWhole` leaves out; what the
other namespaces lose or keep meanwhile is its subject.

### Search and its parts

*State.* `schema` and `tail` are the manifest's, `shards` its segments with the
indexes over them, built as the code builds them (`BuildIndexes`); `live` is a
ghost, the documents that the accepted batches add up to. `Write` is
`commit_records` with what it does to the schema, `Compact` is `compact`; each is
one step, since how manifests are raced for, read and swept is `Namespace`'s and
`NamespaceReads`' subject.

*Queries* are operators over a state: `Queried` (ranked or ordered), with
`ShardHits` for the plans of one shard (sparse, text, prefiltered, clusters, scan),
`QueryBrute`, `Aggregation` and `IdsMatching`.

*Values.* A value is a type and its items. Numbers are small integers, also where
the code has floats; cosine similarity is its signed square in thousandths, which
is in the same order; a relevance (BM25) is an operator that the instance gives. A
text is a number that stands for it: what it parses as, how other values are
written, its words and what matches it are tables (`Parsed`, `Rendered`, `Words`,
`Within`, `GlobMatches`, ...), constants of the modules, as are stemming and
folding. Strings are in the order of their numbers. Filters are in postfix order,
so that they are evaluated without recursion.

### Codec

A field of fixed width, or a byte of a text, is one cell; counts of 16 bits wrap
at `U16` as the code's casts do. `EncodeX` and `DecodeX` follow `encode` and `decode`
of values, ids, records, frames and each kind of index. `Put` frames one more
record of `Entries`; the invariants read the object back.

### CompatApi

`calls[c]` is a request in progress. A write goes through the phases of `v2_write`
or `write` between its awaits: `Arrive` (parsing, and backpressure from the manifest
loaded then), `Embed` with any acceptable answer of the endpoint in any order,
`ChooseDeletes` and `ChoosePatches` (`ids_matching` on the state of that moment, up
to the cap), `CommitCall` (`Search`'s `Write`). A query is `Ask` (the metric is
loaded), `AnswerQuery` for each of its queries, in any order and each from the state
of its moment, and `Respond`. `Drop` is an error, or a client that goes away.
`body.native` tells the two write APIs apart.

## 3. What TLC checks

| run | specification | properties | states |
|---|---|---|---|
| `MCCommits` | `FairSpec` | `AckedInPlace`, `EntriesHoldTheirBatch`, `WrittenOnce`, `EveryBatchAnswered`, `ImplementsAtomic` | 265 k |
| `MCSweep` | `Spec` | `TypeOK`, `NothingDangles`, `NothingLost`, `LiveIsLog` | 2.7 M |
| `MCReads` | `ReadsSpec` | `StrongIsFresh`, `ConsistentIsHonest`, `AnswersArePast` | 2.8 M |
| `MCCache` | `CacheSpec` | `ServedIsWritten`, `EntriesTracked`, `EntriesFit` | 3.2 M |
| `MCCommitter` | `CommitterSpec` | `AckedOnceInOrder`, `HoldersShareTheCommitter`, `AckedSettingsHold`, `EveryCallerAnswered`, `DroppedCommittersEnd` | 126 k |
| `MCSearch` | `Spec` | `StoredAsDeclared`, `SegmentsAndTailAreLive`, `IndexedIsBrute`, `HitsAreLive`, `AnswersAreComplete`, `IndexesAgree`, `ByFilterIsExact`, `EveryDocumentCounted` | 19 k |
| `MCCodec` | `Spec` | `ObjectsReadBack`, `IndexesSurvive`, `EchoIsTheSame`, `ValuesAreOrdered`, `FuzzyIsEdits` | 820 |
| `MCCompatApi` | `CompatSpec` | `EachRowItsVector`, `TailStaysBounded`, `ResponsesAreRanked`, `WritesApplyAsAsked` | 76 k |
| `MCLifecycle` | `Spec` | `ManifestsAreWhole`, `DestroyedStaysGone`, `SkippedIsClean` | 2.3 M |

Three more runs show a disagreement between the code and what it says of itself;
each checks one property, which TLC finds violated:

| run | property | what happens |
|---|---|---|
| `MCEmptied` | `LiveIsLog` | Two compactions read different manifests of a namespace whose shards are empty both times; the later one finds "the same shards" and commits over the newer. A deleted document comes back, or an acknowledged one goes. |
| `MCPatchedIn` | `TailAddsMatches` | A prefiltered query overlays the tail on the documents its index selected. A patch to another document is applied to nothing: a document patched into the filter is missed until the next compaction. |
| `MCZeroDims` | `OneDimension` | `upsert_columns` lets in a document whose vector is empty while the namespace has no dimension. A later vector sets it, and from then on `index::build` refuses the documents: no compaction succeeds any more. |

*Disagreements that no run keeps.* Each was met by weakening a premise or a bound
of a run above, and can be met again that way:

* With `GraceCovers = "commit"`, as `gc`'s comment asks for, a sweep deletes the
  segment of a compaction that then commits (`NothingDangles`).
* A load answered before a commit and remembered after it makes the node's eventual
  reads miss a write it acknowledged (store.rs 483). Strong reads are not affected.
* A compaction folds entries that it leaves in the WAL (1344, 1346); an eventual
  query that cuts that WAL replays a part of it over its own future. `AnswersArePast`
  leaves such answers out (`Truncated`).
* The cache's eviction loop stops at the first entry that stays and may overwrite a
  later one that remains mapped (cache.rs 133); its checksum catches it.
* Of the settings of coalesced requests only the first non-empty ones reach the
  schema (store.rs 2014); the others are neither applied nor refused, although the comment
  (2006-2009) has the schema reject what conflicts. `AckedSettingsHold` without its second
  disjunct fails.
* A destroy that cannot delete the manifest deletes the objects it names
  (`ManifestsAreWhole` without `BeginDestroy`'s mark; see section 2).
* A record whose number of attributes passes 16 bits reads back with fewer of them, or
  makes its object unreadable (doc.rs 573; `ObjectsReadBack` without `Countable`).
* A compaction of a namespace without shards, under way when the namespace is
  destroyed, finds the same (no) shards in the manifest that is gone, creates it
  and brings the documents back (`DestroyedStaysGone` leaves out `outrun`).
* Two branches into one namespace, the first of which failed or was destroyed in
  part, copy the same names; a sweep that listed the first copies as garbage deletes
  what the second branch's manifest names (`ManifestsAreWhole` without `Copy`'s mark,
  with six operations).
* A compaction of a namespace that nobody has written creates a manifest with one
  shard; a first write that sets another number makes aggregations, which go by the
  schema's number, miss the tail's documents of the other shards
  (`EveryDocumentCounted` without its premise).
* `In` over an attribute whose literals are kept as texts (dates) looks up what
  does not compare with the entries, finds some entry, and calls that exact; over
  an array attribute the index matches elements and the scan whole values
  (`ByFilterIsExact` for filters that are not in `Answerable`). Under a `Not` that is a
  selection of too few, and a prefiltered query misses the others (`IndexedIsBrute` for
  such a filter).

*Bounds, and why they are enough.* Two nodes are one race; two batches with
different effects on two documents tell orders, losses and duplications apart
(`MCRecordsIn`: an upsert of both documents, then a patch of one and a delete of
the other; `MCEmptyingRecordsIn`: a document and its deletion; `MCMixedRecordsIn`, for the
queries: neither batch alone makes the documents of both). Two CAS attempts
reach the retry and the give-up (`MCSweep` has one, so that two compactions, a
sweep and a fault fit together; the committers that race are those of `MCCommits`, the
compactions on two nodes those of `MCSweep`). Two compactions (three in `MCEmptied`) are the
fewest of which one can miss the other. Four WAL names are every attempt of two
batches. One fault at a time: each is tried at every point. In `MCReads` a cap of
one object is passed by two batches, and two queries are an earlier one that
remembers and a later one that uses it. In `MCCache` a file of three cells with
objects of one, two and four makes wraps, exact fits, evictions of several and
oversized objects; six calls wrap it several times. In
`MCCommitter` a request of two records and two of one share batches of at most
two, so that a request is cut over two commits and rides with others in each;
one asks for a metric, one for another and for types, one for nothing; two handles are
one that is dropped and one that is made again. In `MCSearch` nine batches over three documents have every kind of attribute,
record and declaration, and a document whose vector is empty; up to three records are in the tail, so that a document can
be written, compacted, patched and deleted in every order, in one shard and in two,
with documents in both. The requests reach every plan: a prefilter by size (two
candidates at most) and its refusal, clusters, text, sparse and ordered queries, and
answers cut at one and two hits. In `MCCodec` counts wrap at four, so that names and
attributes of the records pass the limit. In `MCCompatApi` a body has a row with an empty vector beside rows with one and
without; two requests are one that
overtakes another at every await; the tail's limit of one record makes every second
write pass the check before the first commits, and `MaxTail` is above what is ever
let in. In `MCLifecycle` two namespaces are a source and its branch, and five operations
(at most two writes, two branches and one of each other kind; a sweep, a fault and an
eviction are counted among them) in two tasks reach a branch of a compacted namespace
that is swept, a second branch into what a failed one left, a destroyed namespace
that is written again, and a destroy that fails to delete the manifest and goes on;
with six a copy can also be put over what a sweep is about to delete, which the theorem
covers and the instance does not. The specifications stop when
their bounds are used up, so deadlock is not checked; that the tasks do not get stuck is
`EveryBatchAnswered`. `MCSearch` and `MCPatchedIn` stop in one more way, which is the
code's: once a namespace of one shard has documents with and without a vector, no
compaction succeeds, and when the tail is full nothing more is written.

*Some properties have a condition.* `NothingLost` is about namespaces that some
compaction did not find empty: without documents a compaction leaves no segment
to account for its batches, and then `MCEmptied` applies. `AckedSettingsHold` excepts
the requests each of whose records stands in its commit behind one of a request that
asks for settings, and for others: the exception is what the code does, and it is needed. `AnswersArePast`,
`DestroyedStaysGone`, `EveryDocumentCounted` and `ByFilterIsExact` leave out what
the list above shows. `ManifestsAreWhole` leaves out namespaces destroyed while a
task was to change them -- what that task then commits refers to what the destroy
deletes --, those whose manifest a destroy could not delete, both until a destroy ends,
and those that were branched into twice as described in section 2. `ObjectsReadBack`
asks of a record whose counts wrap only that it keeps its operation and its id, and of
all others, in the same object too, that they read back as they were written. `IndexedIsBrute` is about queries that probe every cluster -- fewer probes
are the approximation that the index is for -- and, with a filter, a tail without
patches, which is what `MCPatchedIn` is about, and a filter that its indexes can be asked
for (the bullet on `In` above). `TailStaysBounded` allows what all
requests in flight carry above the limit, as each was let in before the others
committed. `WritesApplyAsAsked` claims of a write by filter what it matched all
along or at some time during the request: the code gives no more.

*What the `Search` properties compare.* The reference is always the ghost `live`,
evaluated by the scan (`Matches`, `TopK`): `IndexedIsBrute` the hits of a vector
query, `AnswersAreComplete` those of text, sparse and ordered ones, `IndexesAgree` and
`ByFilterIsExact` what an index makes of a filter, `EveryDocumentCounted` the
aggregates; `HitsAreLive` says of every answer that its documents are there once,
match and have their present attributes.

*Fairness.* `FairSpec` assumes weak fairness of each node's started tasks: the
committer is a spawned future that awaits only the store, so it goes on if the
store answers and the node does not crash (which is an action without fairness).
Nothing is assumed of starting a commit, a compaction or a sweep, nor of who wins
a CAS. `CommitterSpec` assumes weak fairness of each request once it arrived and
of each committer: futures that the runtime polls when they can go on. Nothing is
assumed of arrivals, of clients going away, nor of evictions.

*Refinement.* `ImplementsAtomic` maps the documents to the live set of the
manifest, the committed batches to the log and shows every step of every task to
be a step of `AtomicNamespace` or none at all: a commit takes effect at its CAS,
and compactions, sweeps, retries and crashes do not change the documents.

## 4. What is proved

All theorems hold for every number of nodes, batches, names, attempts and faults, those
about `Search` for any documents, attributes, declarations, shards and filters.

| theorem | module | statement |
|---|---|---|
| `TypeCorrect` | `NamespaceProofs` | `Spec => []TypeOK` |
| `Durability` | `NamespaceProofs` | `Spec => []NothingLost` |
| `RightBytes` | `NamespaceProofs` | `Spec => []EntriesHoldTheirBatch` |
| `Immutable` | `NamespaceProofs` | `Spec => WrittenOnce` |
| `Acknowledged` | `NamespaceProofs` | `Spec => []AckedInPlace` |
| `NoDanglingReference` | `NamespaceProofs` | `GraceSuffices => (Spec => []NothingDangles)` |
| `NothingDiffers` | `NamespaceProofs` | `Spec => [](~emptied => LiveIsLog)` |
| `Implements` | `NamespaceProofs` | `Spec /\ []~emptied => ImplementsAtomic` |
| `StrongReads` | `NamespaceProofs` | `ReadsSpec => [](~emptied => StrongIsFresh)` |
| `HonestReads` | `NamespaceProofs` | `ReadsSpec => [](~emptied => ConsistentIsHonest)` |
| `PastReads` | `NamespaceProofs` | `ReadsSpec => [](~emptied => AnswersArePast)` |
| `Refolded` | `DocumentsProofs` | replaying batches that are in a live set already changes nothing, up to the last of them |
| `RightAnswers`, `AllTracked`, `InsideTheFile` | `RingCacheProofs` | `CacheSpec => []ServedIsWritten`, `[]EntriesTracked`, `[]EntriesFit` |
| `OneCommitter` | `CommitterProofs` | `CommitterSpec => []HoldersShareTheCommitter` |
| `SettingsOfAckedHold` | `CommitterProofs` | `CommitterSpec => []AckedSettingsHold` |
| `RecordsOnceInOrder` | `CommitterProofs` | `CommitterSpec => []AckedOnceInOrder` |
| `WholeManifests` | `LifecycleProofs` | `Spec => []ManifestsAreWhole` |
| `DestroyedIsGone` | `LifecycleProofs` | `Spec => []DestroyedStaysGone` |
| `PassedOverIsClean` | `LifecycleProofs` | `Spec => []SkippedIsClean` |
| `StoredStaysDeclared` | `SearchProofs` | `Spec => []StoredAsDeclared` |
| `SegmentsStayLive` | `SearchProofs` | `Spec => []SegmentsAndTailAreLive` |
| `ByFilterStaysExact` | `SearchProofs` | `Spec => []ByFilterIsExact` |
| `IndexesStayRight` | `SearchProofs` | `Spec => []IndexesAgree` |
| `HitsStayLive` | `AnswersProofs` | `ScoresAreNumbers => (Spec => []HitsAreLive)` |
| `FullProbesAreBrute` | `AnswersProofs` | `Spec => []IndexedIsBrute` |
| `RowsKeepTheirVectors` | `SearchProofs` | `CompatSpec => []EachRowItsVector` |
| `EchoStaysTheSame`, `ValuesStayOrdered` | `CodecProofs` | `Spec => []EchoIsTheSame`, `[]ValuesAreOrdered` |

The assumptions are those of the modules' ASSUMEs (names of different kinds
differ, the nodes of each role are nodes, bounds are naturals, a batch is a
sequence of records), which TLC evaluates on every run. Those of `Search` say what
a record is when it has been parsed: an id is one number of its type, an attribute a
value of a known type, and only an upsert has a vector, which may be empty (`WrittenAssumption`); that values
consist of numbers, as they are read and as they are coerced (`IdsAssumption`,
`ValuesAssumption`), that a metric is one there is, and that every text among them has
its words (`TextsAssumption`); that a filter is a list of clauses, operands first
(`FiltersAssumption`), and a request asks for a natural number of hits by numbers and
texts that were read as such (`RequestsAssumption`); and that a hash picks one of the
shards there are (`ShardsAssumption`). `EntriesAssumption` says the same of the values of `Codec`, and
`BodiesAssumption` that the rows of a request are a list. `GraceSuffices` says that the grace window covers both a
commit and a compaction; without it the theorem does not hold (section 3).
`ScoresAreNumbers`, the premise of `HitsStayLive`, says that what one term adds to a BM25
score is a number, whatever the counts it is computed from. The formula is an operator
that the instance gives (`Relevance`), and there are too many counts for TLC to look at
all of them, so this is a premise and no ASSUME.

`~emptied`, a premise of the theorems about documents and queries, says that no
compaction has found the namespace without documents so far. Without it they are
false, as `MCEmptied` shows; the code recognises another compaction by its shards,
and the shards of an emptied namespace are always the same. A namespace that has
documents and is compacted fulfils it, so the premise is met by almost every
behaviour, and the runs `MCSweep` and `MCReads` check the properties where it is met.
`NothingLost` has the same condition inside.

*The argument for commits.* None of the properties is inductive, because a
stale manifest in a task's hands may be written back. `SafetyInv`
(`NamespaceInvariants`) says what a stale manifest can be:

* `VersionsInv`: of all manifests in anybody's hands, none is newer than the
  bucket's, and one with the bucket's version *is* the bucket's. A CAS that holds
  therefore starts from the current manifest, so a commit or a compaction writes
  exactly what it says over it.
* `NamesInv`: entries of any manifest in anybody's hands have different numbers
  below its counter, and name written objects.
* `EntriesInv`, `WritersInv`: an entry's object holds the batch of its number,
  and a writer at its CAS has written its own batch under a name that no manifest
  has.
* `StagesInv`, `CoveredInv`, `CompactorsInv`: what a compaction was built from
  covers every WAL entry it will remove and all that the segment it replaces
  accounts for; if the shards are still the ones it started from, its CAS loses
  nothing. This is the step that needs `~emptied`: the code recognises another
  compaction by its shards, and empty shards are all alike.

Each action is shown to preserve each part; `NothingLost` is `CoveredInv` at the
current manifest.

*The argument for sweeps.* `SweepInv`: an object of an unfinished commit or
compaction is not in a sweep's hands, nor is anything that the current manifest,
or one a holder of the current version would write, names. What an old manifest
names and the current one does not stays unnamed for good, so a sweep that
started from the old one deletes only garbage.

*The argument for the cache.* An entry's checksum is of its own key
(`EntriesInv`) and a call's entry is of the key it was asked for (`CallsInv`); so
whatever the cells hold, bytes that match are the object.

*The argument for the write path.* `SharedInv`: a request in progress holds a
handle, and it is the registered one. `Evict` keeps this because it acts only
when no request holds the registered handle, and then, by the invariant, none
holds any; `Arrive` makes a handle only when nothing is registered, and then no
request is in progress.

*The argument for a record's way.* `AckedOnceInOrder` follows a record from its
request to a commit and its answer back. `Streams`: of each request, the records
that are sent and not answered are, once each and in order, in its committer's batch
and then in its queue; `Outstanding`: they are all there. So the batch that is taken
continues where the answers stop (`BatchNumbers`). `CommitsInv`: a record that was
committed is answered, or in the batch that is being answered, and commits have the
records of a request in their order; hence no record is committed again. `RepliesInv`:
an answer of success names the commit that has the record; `AnswersInv`: a request
that succeeded has taken all of its answers, in order, and they all said so.

*The argument for settings.* A commit is carried out with one configuration for its batch,
and `KeptInv` says that the configuration of every commit there was is in force: a later
one with data changes no setting (`CommitKeepsSettings`), however it was cut. What is left
is whose configuration that is. A request that succeeded has, by `AckedOnceInOrder`, each
of its records in a commit (this is where the whole argument for a record's way is
needed); if one of them stands there with nothing that differs before it, the first
configuration of that batch is the request's own (`KeptOrOvershadowed`), hence in force.

*The argument for what is live.* `LiveIsLog` compares two replays, of a segment and
a WAL and of the whole log. `LiveInv` (`NamespaceInvariants`) says of every manifest
in anybody's hands, as `SafetyInv` does:

* `TailsInv`: its WAL is an unbroken run of commits up to its counter.
* `SegmentsInv`: its segment is the live set after some number of commits, and the
  WAL has every later one. It may have earlier ones as well: a compaction folds what
  was committed between its two loads and takes out only what the first one saw.
* `FoldsInv`: the segment of a compaction about to commit is the live set after a
  number of commits that its first manifest did not pass; `PastInv`, that an entry
  the bucket's manifest has was in each earlier manifest that knew of its commit, so
  what the compaction takes out is what it folded.
* `OnceInv`: a batch is committed at most once, which the refinement needs.

That it does no harm to replay what the segment has already is `Refolded`, by way of
`Between`: while the replay is under way, each attribute of a document is that of the log
at this point or that of the segment, as far as the two agree that the document exists.
Every record keeps this, and when the replay has reached the commit at which the segment
was built, log and segment are the same.
`Implements` then maps each action: a commit's CAS appends its batch and applies it,
and every other step leaves the log and, by `SegmentsInv`, the documents as they are.

*The argument for queries.* A query holds a manifest that no task holds, and leaves it
behind as its node's remembered one; so everything the invariants say of the manifests
in `Views` must be kept for the query's as well (`Held`), in particular across the
commits and compactions of others. A strong query's manifest was loaded after it
arrived, so it knows of `since` commits at least, and what it reads is the live set
after them. A WAL that is cut starts at or before the end of the segment; unless the
segment accounts for an entry of it (`FoldedTwice`), it starts exactly there, and its
prefix is the live set of an earlier moment (`SegmentMeetsWal`).

*The argument for life cycles.* `WholeInv`: the objects that a manifest names and those
a call has put are there, a sweep has its hands on neither (`Condemned`), and nobody
else is to change a namespace that is being destroyed, nor is its manifest there -- or it
is `torn`. So the deletions of a destroy take nothing that a manifest names. A namespace is no
longer `torn` when a destroy ends with no manifest and no call about to change it, and
then there is nothing that could name what was deleted (`WholeEndDestroy`). `PendingInv`:
the batch of a write that is not committed is in its own object only, so a destroyed
namespace's batches can come back with no write; a branch puts its manifest only where
there is none and takes what it brings off the list of what is gone, and `ApartInv`
keeps manifests and finished compactions apart from that list. `SweptInv`: what a sweep
found is deleted, spared, or put there again, so a sweep that spared nothing has left
nothing.

*The argument for the schema.* `SchemaInv`: every live document agrees with the schema,
and the schema is one that `absorb` can have made (`SoundSchema`). A document need not
have a vector: `absorb` lets one pass without while no dimension is known, and the
dimension that a later one sets does not make the earlier document fit an index
(`MCZeroDims`); but a vector that is there has the dimension. A record that is
absorbed extends the schema by what its first values declare and never changes what is
there (`Grown`), so what agreed before still does; a batch is a fold of that, and its
declarations come first and are refused when they differ.

*The argument for the shards.* `ShardsInv`: every segment is sorted by id, and segments and
tail, replayed, are `live`.
`SortedBy` is shown to list a finite set in order, each element once; so a bucket is
exactly its documents, the buckets together are the live set, and replaying upserts of
different ids gives the map they came from.

*The argument for the indexes.* The entries of an index over a column are the column's
values, each with its ordinals (`Entered`); `Select` is shown operator by operator to find
what the scan of the column finds whenever it calls its answer exact, and the connectives
of `evaluate` by going up the filter, whose operands come first. `AnswersInv` adds that
each index is over its segment's column as it was compacted, and that without a tail the
segments are the live set; so the ids that the indexes give are the ones the scan would.
Needed for it is `Answerable`: an index of strings that is asked for a number, or one of
arrays asked for a whole array, is not exact although it says so (section 3).
`IndexesInv` adds the term indexes: each posts the texts of its own segment, token by
token with the positions, and a shard without indexes is the empty one. A list of
postings is then what the scan reads of the same text, for all tokens and for tokens in
sequence; and a filter that an index does not call exact still covers what matches
(`SelectionCovers`, `TermsAgree`), which is what the query plans rest on.

*The argument for the answers.* Every list of hits on the way -- of a cluster scan, of an
inverted index, of a shard, of the merge -- is `Listed` in the documents its step looked
at: each hit of a document that is there and matches, with its present attributes and a
score that is a number, and no document twice. What a step looked at is `Among` the live
documents, so it is enough to show `Listed` where the list is made. For that the order of
hits must be one (`BestListed`, `OrderedListed`): ids differ, and scores and sort keys are
numbers, as sums and products of what is stored (`ScoreIsInt`, `SparseScored`,
`TextsScored`). `LiveInv` adds to `IndexesInv` what the plans depend on:

* `TailFits`: the records of the tail agree with the schema, so that an overlaid document
  has values the ranking can use.
* `ShardsSound`: the clusters, sparse postings and text lengths of a shard are of its own
  segment's ordinals, and every ordinal is in some cluster (`Clustering`): each vector is
  nearest to one of the centroids, which are vectors of integers through every round of
  Lloyd's algorithm (`CentroidsAre`, `ClosestIs`).
* `Whole`: several shards each hold their part, by hash, of what was compacted
  (`PartOf`). A shard's tail has the records of its own ids only, and replaying these over
  its part gives its part of the live documents (`ReplayOwn`). That is why a shard never
  answers with a document whose deletion another shard would know of, and why two shards
  never list the same document (`HashedTo`).

A prefiltered plan overlays the tail only on what its index selected. What it sees is
therefore less than what is live (`MCPatchedIn` shows a document that it misses), but
never anything else (`OverlaidWithin`).

That a full probe answers as the scan does (`FullProbesAreBrute`) takes the other half.
As many probes as there are clusters reach every ordinal (`ProbesReachAll`). A prefiltered
plan selects every document of the segment that matches (`SelectionCovers`), and laying
the tail over the selection gives the same matches as laying it over everything
(`OverlaidFinds`): what the tail writes or deletes whole does not depend on what was
there, and what it does not touch was selected if it matches. A patch does depend on what
was there, hence the condition. So each shard answers with the best of the hits of its
part, `Firsts` of them: as many as are asked for or all there are, in order, none of the
rest before one of them. Parts share no hit (`Parted`), so the first of the parts' first
are the first of all (`FirstsMerged`), and two lists of the first are the same list
(`FirstsOnce`): the scan's.

*The argument for a request's rows.* `CallsRight`: a request in its embedding phase lists the
positions of the rows without a vector, in order (`Pends`); an acceptable answer has one datum for
each of them, and the one with index k is for the k-th. The other rows are as they came.

*What the proofs changed in the models.* Three operators had CASE arms that overlap
(`Apply`, `Compare`, `CoerceId`): TLC takes the first, the logic any. They are now
disjoint. `Lifecycle` protected from a sweep also what a branch had yet to copy, which is
older than the branch and as old as may be: that hid the second branch described above.

*Only model-checked.* Liveness, of which these provers say nothing:
`EveryBatchAnswered`, `EveryCallerAnswered`, `DroppedCommittersEnd`. And these
invariants:

* `ObjectsReadBack`, `IndexesSurvive`, `FuzzyIsEdits`: what a recursive definition
  computes -- a byte layout read back, an edit distance against its automaton --
  for every input. That is induction over data; the library's induction theorems
  take an operator as a parameter, which these provers cannot instantiate. (Where a
  recursive function is reasoned about, as `ReplayAll` and the order of a WAL are, it
  is by a least counterexample: `LeastNumber`, `Upwards`.)
* `EveryDocumentCounted`: a sum over the documents, in the order a list has them and as
  a set of any order; that the order is all the same is an induction over the list, of a
  fold whose summand is an operator.
* `AnswersAreComplete`: that a text, sparse or ordered query misses nothing. That nothing
  is there which should not be is `HitsStayLive`; what the term index finds is a theorem
  as well.
* `TailStaysBounded`, `WritesApplyAsAsked`, `ResponsesAreRanked`: they follow requests
  through every await of `CompatApi` and rest on counting the requests in flight.

## 5. Not modelled

* Floating point: scores, distances, overflow of a sum to infinity. Geometry is that
  of small integers.
* Parsing and writing of JSON, dates, uuids, patterns; BM25's formula; stemmers.
* Authentication, routing, metrics, `metadata`, `warm`, exports and the command line:
  no state that anything else depends on. `warm` reads through the cache, which
  `RingCache` has.
* `verify_cas`: a probe of the store at start, before there is any namespace.
* The embedding service itself, its timeouts and the batching of inputs.
* When a background compaction is due: `Lifecycle` lets one begin at any time.
* Benchmarks.

What could follow: a proof of `AnswersAreComplete`, on the lemmas of `FullProbesAreBrute`;
and one of `TailStaysBounded`, by counting the requests in flight.
