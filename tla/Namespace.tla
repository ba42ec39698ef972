----------------------------- MODULE Namespace -----------------------------
(***************************************************************************)
(* The commit protocol of one namespace on object storage (store.rs): the  *)
(* manifest that every change goes through by compare-and-swap, the WAL    *)
(* and segment objects it names, and the tasks that work on them from      *)
(* several nodes -- the committer (commit_records), compaction (compact,   *)
(* build_shard) and garbage collection (gc) -- with storage errors and     *)
(* node crashes.                                                           *)
(*                                                                         *)
(* A step ends where the code awaits.  A call of the store is one step, at *)
(* the moment the store carries it out; what the task does with the answer *)
(* happens in a later step, so other tasks run in between.  In particular  *)
(* the `remember` inside load() comes a step after the GET it remembers.   *)
(*                                                                         *)
(* The namespace has one shard, whose segment and index objects -- written *)
(* together by build_shard and named together by the manifest -- are one   *)
(* object here.  Compaction builds indexes, as the server always asks.     *)
(***************************************************************************)
EXTENDS Documents, FiniteSets

CONSTANTS
    Batches,        \* the batches that writers submit, each at most once
    RecordsIn,      \* the records of a batch, as a function
    Nodes,          \* processes that share the bucket
    Committing,     \* the nodes that run a committer,
    Compacting,     \* ... that compact,
    Collecting,     \* ... and that collect garbage
    Caching,        \* the nodes with a read cache
    WalNames,       \* names of objects under wal/
    DataNames,      \* names of objects under data/
    NoShards,       \* a manifest with an empty list of shards
    EmptyShard,     \* ... and with one shard that has no segment
    NoBatch, NoName, NoManifest,
    MAX_CAS_ATTEMPTS,
    GraceCovers,    \* what the grace window outlasts: "commit", "compaction"
    MaxCompactions, MaxSweeps,  \* bounds of the model,
    MaxFaults       \* ... the last on storage errors and crashes together

ASSUME NodesAssumption ==
    /\ Committing \subseteq Nodes
    /\ Compacting \subseteq Nodes
    /\ Collecting \subseteq Nodes
    /\ Caching \subseteq Nodes

ASSUME RecordsAssumption == \A b \in Batches : RecordsIn[b] \in Seq(Records)

ASSUME NamesAssumption ==
    /\ WalNames \cap DataNames = {}
    /\ NoName \notin WalNames \cup DataNames
    /\ {NoShards, EmptyShard} \cap (WalNames \cup DataNames) = {}
    /\ NoShards # EmptyShard
    /\ NoBatch \notin Batches

ASSUME BoundsAssumption ==
    /\ MAX_CAS_ATTEMPTS \in Nat \ {0}
    /\ MaxCompactions \in Nat
    /\ MaxSweeps \in Nat
    /\ MaxFaults \in Nat
    /\ GraceCovers \subseteq {"commit", "compaction"}

\* A WAL entry: the number it was committed under, and its object.  The list
\* a manifest holds is in the order of these numbers, since every push takes
\* the next one, and is kept here as a set.
WalEntry == [seq : Nat, name : WalNames]

Shards == DataNames \cup {NoShards, EmptyShard}

\* A manifest with the version the store gave it; version 0 is "not found".
Manifest == [ver : Nat, next_seq : Nat, wal : SUBSET WalEntry, shards : Shards]

ASSUME NoManifestAssumption == NoManifest \notin Manifest

\* Manifest::default(), which load() also returns when there is no manifest.
DefaultManifest == [ver |-> 0, next_seq |-> 0, wal |-> {}, shards |-> NoShards]

---------------------------------------------------------------------------
VARIABLES
    manifest,   \* the one mutable object
    body,       \* what was written under each name ever used
    stored,     \* the names that are in the bucket now
    snapshot,   \* per node: the manifest it remembers
    writer,     \* per node: the commit in progress
    compactor,  \* per node: the compaction in progress
    collector,  \* per node: the sweep in progress
    submitted,  \* batches handed to a committer
    acked,      \* acknowledged batches, with the number they were told
    failed,     \* batches answered with an error, or whose node crashed
    log,        \* history: the batches in the order of their commits
    emptied,    \* history: a compaction found no live document in what it read
    spent       \* compactions, sweeps and faults so far

storeVars == <<manifest, body, stored>>
clientVars == <<submitted, acked, failed>>
vars == <<manifest, body, stored, snapshot, writer, compactor, collector,
          submitted, acked, failed, log, emptied, spent>>

\* The idle states of the three tasks.
NoWrite == [pc |-> "idle", batch |-> NoBatch, view |-> DefaultManifest,
            name |-> NoName, attempt |-> 0]
NoCompaction == [pc |-> "idle", first |-> DefaultManifest,
                 second |-> DefaultManifest, current |-> DefaultManifest,
                 built |-> NoShards, attempt |-> 0]
NoSweep == [pc |-> "idle", view |-> DefaultManifest, old |-> {}, doomed |-> {}]

Init ==
    /\ manifest = DefaultManifest
    /\ body = [n \in {} |-> NoBatch]
    /\ stored = {}
    /\ snapshot = [n \in Nodes |-> NoManifest]
    /\ writer = [n \in Nodes |-> NoWrite]
    /\ compactor = [n \in Nodes |-> NoCompaction]
    /\ collector = [n \in Nodes |-> NoSweep]
    /\ submitted = {}
    /\ acked = [b \in {} |-> 0]
    /\ failed = {}
    /\ log = <<>>
    /\ emptied = FALSE
    /\ spent = [compactions |-> 0, sweeps |-> 0, faults |-> 0]

---------------------------------------------------------------------------
\* What a manifest says.

WalObjects(m) == {e.name : e \in m.wal}

Segments(m) == {m.shards} \cap DataNames

\* Manifest::referenced: every object the manifest keeps alive.
Referenced(m) == WalObjects(m) \cup Segments(m)

InOrder(entries) ==
    [k \in 1..Cardinality(entries) |->
        CHOOSE e \in entries : Cardinality({d \in entries : d.seq < e.seq}) = k - 1]

\* The documents of `m`'s segment.
SegmentOf(m) == IF m.shards \in DataNames THEN body[m.shards].docs ELSE NoDocs

\* ... with some of its WAL replayed over them.
LiveWith(m, entries) ==
    LET ordered == InOrder(entries)
    IN  ReplayAll(SegmentOf(m), [k \in DOMAIN ordered |-> RecordsIn[body[ordered[k].name]]])

\* The documents a reader of the whole of `m` sees.
LiveIn(m) == LiveWith(m, m.wal)

\* The documents after the first k commits.
LiveAfter(k) == ReplayAll(NoDocs, [i \in 1..k |-> RecordsIn[log[i]]])

\* The batches `m` accounts for.
Covered(m) ==
    (IF m.shards \in DataNames THEN body[m.shards].covers ELSE {})
        \cup {body[n] : n \in WalObjects(m)}

---------------------------------------------------------------------------
\* Shared pieces of the tasks.

\* Namespace::remember, reached from load(); a manifest that was not found
\* is not remembered.
Remember(node, m) ==
    snapshot' = IF m.ver = 0 THEN snapshot ELSE [snapshot EXCEPT ![node] = m]

\* (Variant: the name derived from the number alone.)
NameFromSeq(seq) == CHOOSE n \in WalNames : n = seq + 1

\* A fresh uuid.  Names are only ever compared, so any unused one will do.
FreshWalName(seq) == CHOOSE n \in WalNames : n \notin DOMAIN body
FreshDataName == CHOOSE n \in DataNames : n \notin DOMAIN body

PutObject(name, contents) ==
    /\ stored' = stored \cup {name}
    /\ body' = [n \in DOMAIN body \cup {name} |->
                    IF n = name THEN contents ELSE body[n]]

\* A storage error or a crash happens.
Fault ==
    /\ spent.faults < MaxFaults
    /\ spent' = [spent EXCEPT !.faults = @ + 1]

\* (Variant: a backend that accepts a stale If-Match, see verify_cas.)
CasUnenforced(view) == TRUE

\* The retry loops stop after MAX_CAS_ATTEMPTS.  (Variant: one too many.)
RetriesOnceMore(attempt) == attempt <= MAX_CAS_ATTEMPTS
MayRetry(attempt) == attempt < MAX_CAS_ATTEMPTS

\* The committer's answer when a commit fails.  (Variant: none is sent.)
DropSilently(batch) == UNCHANGED failed
AnswerError(batch) == failed' = failed \cup {batch}

\* The store's conditional PUT succeeds if the version it names is current:
\* PutMode::Update, and PutMode::Create for version 0.
CasHolds(view) == view.ver = manifest.ver

---------------------------------------------------------------------------
\* The committer: Namespace::commit_records, one batch at a time.

\* The manifest a commit writes over the one it read.
WithEntry(view, name) ==
    [ver |-> view.ver + 1,
     next_seq |-> view.next_seq + 1,
     wal |-> view.wal \cup {[seq |-> view.next_seq, name |-> name]},
     shards |-> view.shards]

\* The committer picks up a batch, and commits against the remembered
\* manifest if there is one: snapshot_view.
WriterTake(node, b) ==
    LET remembered == snapshot[node] # NoManifest IN
    /\ writer[node].pc = "idle"
    /\ b \notin submitted
    /\ submitted' = submitted \cup {b}
    /\ writer' = [writer EXCEPT ![node] =
            [pc |-> IF remembered THEN "put" ELSE "get",
             batch |-> b,
             view |-> IF remembered THEN snapshot[node] ELSE DefaultManifest,
             name |-> NoName, attempt |-> 1]]
    /\ UNCHANGED <<storeVars, snapshot, compactor, collector, acked, failed,
                   log, emptied, spent>>

WriterGet(node) ==
    /\ writer[node].pc = "get"
    /\ writer' = [writer EXCEPT ![node].pc = "got", ![node].view = manifest]
    /\ UNCHANGED <<storeVars, snapshot, compactor, collector, clientVars, log,
                   emptied, spent>>

\* The WAL object is written before the commit that will name it.
WriterPut(node) ==
    LET name == FreshWalName(writer[node].view.next_seq) IN
    /\ writer[node].pc \in {"got", "put"}
    /\ WalNames \ DOMAIN body # {}
    /\ IF writer[node].pc = "got"
          THEN Remember(node, writer[node].view) ELSE UNCHANGED snapshot
    /\ PutObject(name, writer[node].batch)
    /\ writer' = [writer EXCEPT ![node].pc = "cas", ![node].name = name]
    /\ UNCHANGED <<manifest, compactor, collector, clientVars, log, emptied, spent>>

\* The conditional PUT of the manifest.
WriterCas(node) ==
    LET w == writer[node]
        next == WithEntry(w.view, w.name) IN
    /\ w.pc = "cas"
    /\ \/ /\ CasHolds(w.view)
          /\ manifest' = next
          /\ log' = Append(log, w.batch)
          /\ writer' = [writer EXCEPT ![node].pc = "won", ![node].view = next]
       \/ /\ ~CasHolds(w.view)
          /\ writer' = [writer EXCEPT ![node].pc = "lost"]
          /\ UNCHANGED <<manifest, log>>
    /\ UNCHANGED <<body, stored, snapshot, compactor, collector, clientVars,
                   emptied, spent>>

WriterWon(node) ==
    LET w == writer[node] IN
    /\ w.pc = "won"
    /\ Remember(node, w.view)
    /\ acked' = [b \in DOMAIN acked \cup {w.batch} |->
                    IF b = w.batch THEN w.view.next_seq - 1 ELSE acked[b]]
    /\ writer' = [writer EXCEPT ![node] = NoWrite]
    /\ UNCHANGED <<storeVars, compactor, collector, submitted, failed, log,
                   emptied, spent>>

\* A lost race: forget the remembered manifest and read it, or give up.
WriterLost(node) ==
    LET w == writer[node] IN
    /\ w.pc = "lost"
    /\ snapshot' = [snapshot EXCEPT ![node] = NoManifest]
    /\ \/ /\ MayRetry(w.attempt)
          /\ writer' = [writer EXCEPT ![node] =
                [w EXCEPT !.pc = "get", !.view = DefaultManifest,
                          !.name = NoName, !.attempt = @ + 1]]
          /\ UNCHANGED failed
       \/ /\ ~MayRetry(w.attempt)
          /\ writer' = [writer EXCEPT ![node] = NoWrite]
          /\ AnswerError(w.batch)
    /\ UNCHANGED <<storeVars, compactor, collector, submitted, acked, log,
                   emptied, spent>>

\* Any other error of the store fails the whole batch.
WriterError(node) ==
    LET w == writer[node] IN
    /\ Fault
    /\ w.pc \in {"get", "got", "put", "cas"}
    /\ IF w.pc = "got" THEN Remember(node, w.view) ELSE UNCHANGED snapshot
    /\ writer' = [writer EXCEPT ![node] = NoWrite]
    /\ AnswerError(w.batch)
    /\ UNCHANGED <<storeVars, compactor, collector, submitted, acked, log,
                   emptied>>

\* An error that hides a success: the store carried out the conditional PUT
\* and its answer was lost.
WriterUnsure(node) ==
    LET w == writer[node] IN
    /\ Fault
    /\ w.pc = "cas"
    /\ CasHolds(w.view)
    /\ manifest' = WithEntry(w.view, w.name)
    /\ log' = Append(log, w.batch)
    /\ writer' = [writer EXCEPT ![node] = NoWrite]
    /\ AnswerError(w.batch)
    /\ UNCHANGED <<body, stored, snapshot, compactor, collector, submitted,
                   acked, emptied>>

WriterStep(node) ==
    \/ WriterGet(node) \/ WriterPut(node) \/ WriterCas(node)
    \/ WriterWon(node) \/ WriterLost(node)

---------------------------------------------------------------------------
\* Compaction: Namespace::compact.  `first` is the manifest it decides on,
\* `second` the one all_records loads again to read the objects, and
\* `current` the one it commits over.

Compaction(node, pc, fields) ==
    compactor' = [compactor EXCEPT ![node] = [fields EXCEPT !.pc = pc]]

CompactorUnchanged == UNCHANGED <<writer, collector, clientVars>>

CompactorStart(node) ==
    /\ compactor[node].pc = "idle"
    /\ spent.compactions < MaxCompactions
    /\ spent' = [spent EXCEPT !.compactions = @ + 1]
    /\ Compaction(node, "first", [NoCompaction EXCEPT !.first = manifest])
    /\ UNCHANGED <<storeVars, snapshot, log, emptied>> /\ CompactorUnchanged

\* Nothing to do: no WAL, and every shard has its index.
UpToDate(m) == m.wal = {} /\ m.shards \in DataNames

CompactorPlan(node) ==
    LET c == compactor[node] IN
    /\ c.pc = "first"
    /\ Remember(node, c.first)
    /\ IF UpToDate(c.first)
          THEN compactor' = [compactor EXCEPT ![node] = NoCompaction]
          ELSE Compaction(node, "again", c)
    /\ UNCHANGED <<storeVars, log, emptied, spent>> /\ CompactorUnchanged

CompactorReload(node) ==
    /\ compactor[node].pc = "again"
    /\ Compaction(node, "second", [compactor[node] EXCEPT !.second = manifest])
    /\ UNCHANGED <<storeVars, snapshot, log, emptied, spent>> /\ CompactorUnchanged

\* read_immutable: an object that is gone from the bucket may still be in the
\* cache of a node that has one.
Readable(node, names) == node \in Caching \/ names \subseteq stored

Built(c, shards) ==
    [c EXCEPT !.built = shards, !.second = DefaultManifest, !.attempt = 1]

\* Read every object of `second` and write the segment of what is live.  A
\* shard without documents writes nothing.
CompactorBuild(node) ==
    LET c == compactor[node]
        live == LiveIn(c.second)
        segment == [docs |-> live, covers |-> Covered(c.second)] IN
    /\ c.pc = "second"
    /\ Remember(node, c.second)
    /\ Readable(node, Referenced(c.second))
    /\ \/ /\ live = NoDocs
          /\ Compaction(node, "load", Built(c, EmptyShard))
          /\ emptied' = (emptied \/ Referenced(c.second) # {})
          /\ UNCHANGED <<body, stored>>
       \/ /\ live # NoDocs
          /\ DataNames \ DOMAIN body # {}
          /\ PutObject(FreshDataName, segment)
          /\ Compaction(node, "load", Built(c, FreshDataName))
          /\ UNCHANGED emptied
    /\ UNCHANGED <<manifest, log, spent>> /\ CompactorUnchanged

CompactorLoad(node) ==
    /\ compactor[node].pc = "load"
    /\ Compaction(node, "check", [compactor[node] EXCEPT !.current = manifest])
    /\ UNCHANGED <<storeVars, snapshot, log, emptied, spent>> /\ CompactorUnchanged

\* (Variant: commit over whatever is there.)
AnyShards(c) == TRUE

\* Another compaction committed: discard this one.
SameShards(c) == c.current.shards = c.first.shards

CompactorCheck(node) ==
    LET c == compactor[node] IN
    /\ c.pc = "check"
    /\ Remember(node, c.current)
    /\ IF SameShards(c)
          THEN Compaction(node, "cas", c)
          ELSE compactor' = [compactor EXCEPT ![node] = NoCompaction]
    /\ UNCHANGED <<storeVars, log, emptied, spent>> /\ CompactorUnchanged

\* (Variants: every WAL entry dropped; the counter of the first manifest.)
FoldedWholeWal(c) ==
    [ver |-> c.current.ver + 1, next_seq |-> c.current.next_seq,
     wal |-> {}, shards |-> c.built]

FoldedOldCounter(c) ==
    [ver |-> c.current.ver + 1, next_seq |-> c.first.next_seq,
     wal |-> {e \in c.current.wal : e.name \notin WalObjects(c.first)},
     shards |-> c.built]

\* The manifest a compaction writes: its shards, and the WAL entries that
\* `first` did not have.
Folded(c) ==
    [ver |-> c.current.ver + 1,
     next_seq |-> c.current.next_seq,
     wal |-> {e \in c.current.wal : e.name \notin WalObjects(c.first)},
     shards |-> c.built]

\* The store carries out the compaction's conditional PUT.
CompactionLands(c) ==
    /\ CasHolds(c.current)
    /\ manifest' = Folded(c)

CompactorCas(node) ==
    LET c == compactor[node] IN
    /\ c.pc = "cas"
    /\ \/ /\ CompactionLands(c)
          /\ Compaction(node, "won", [c EXCEPT !.current = Folded(c)])
       \/ /\ ~CasHolds(c.current)
          /\ IF MayRetry(c.attempt)
                THEN Compaction(node, "load", [c EXCEPT !.attempt = @ + 1])
                ELSE compactor' = [compactor EXCEPT ![node] = NoCompaction]
          /\ UNCHANGED manifest
    /\ UNCHANGED <<body, stored, snapshot, log, emptied, spent>> /\ CompactorUnchanged

CompactorWon(node) ==
    /\ compactor[node].pc = "won"
    /\ Remember(node, compactor[node].current)
    /\ compactor' = [compactor EXCEPT ![node] = NoCompaction]
    /\ UNCHANGED <<storeVars, log, emptied, spent>> /\ CompactorUnchanged

\* An object to read is gone: collected since `second` was loaded.
CompactorMissing(node) ==
    LET c == compactor[node] IN
    /\ c.pc = "second"
    /\ ~(Referenced(c.second) \subseteq stored)
    /\ Remember(node, c.second)
    /\ compactor' = [compactor EXCEPT ![node] = NoCompaction]
    /\ UNCHANGED <<storeVars, log, emptied, spent>> /\ CompactorUnchanged

\* An error of the store ends the compaction, which may have been committed
\* all the same.
CompactorError(node) ==
    LET c == compactor[node] IN
    /\ Fault
    /\ c.pc \in {"again", "second", "load", "cas"}
    /\ \/ UNCHANGED manifest
       \/ c.pc = "cas" /\ CompactionLands(c)
    /\ IF c.pc = "second" THEN Remember(node, c.second) ELSE UNCHANGED snapshot
    /\ compactor' = [compactor EXCEPT ![node] = NoCompaction]
    /\ UNCHANGED <<body, stored, log, emptied>> /\ CompactorUnchanged

CompactorStep(node) ==
    \/ CompactorPlan(node) \/ CompactorReload(node) \/ CompactorBuild(node)
    \/ CompactorMissing(node) \/ CompactorLoad(node) \/ CompactorCheck(node)
    \/ CompactorCas(node) \/ CompactorWon(node)

---------------------------------------------------------------------------
\* Garbage collection: Namespace::gc.

\* Objects written for a commit, or a compaction, that is still under way.
InFlight(kind) ==
    IF kind = "commit"
       THEN {writer[n].name : n \in {k \in Nodes : writer[k].pc = "cas"}}
       ELSE {compactor[n].built : n \in
                {k \in Nodes : compactor[k].pc \in {"load", "check", "cas"}}}

\* (Variant: a sweep with no grace window.)
NoGrace == {}

\* The objects that cannot be older than the cutoff, because the grace window
\* outlasts the work they were written for.
Recent == UNION {InFlight(kind) : kind \in GraceCovers}

\* The load, and the objects that are past the grace window at that time.
CollectorLoad(node) ==
    /\ collector[node].pc = "idle"
    /\ spent.sweeps < MaxSweeps
    /\ spent' = [spent EXCEPT !.sweeps = @ + 1]
    /\ \E old \in SUBSET (stored \ Recent) :
          collector' = [collector EXCEPT ![node] =
              [NoSweep EXCEPT !.pc = "list", !.view = manifest, !.old = old]]
    /\ UNCHANGED <<storeVars, snapshot, writer, compactor, clientVars, log, emptied>>

\* The listing: what storage holds and the manifest does not name.
CollectorList(node) ==
    LET s == collector[node] IN
    /\ s.pc = "list"
    /\ Remember(node, s.view)
    /\ collector' = [collector EXCEPT ![node] =
            [NoSweep EXCEPT !.pc = "delete",
                !.doomed = {n \in stored \cap s.old : n \notin Referenced(s.view)}]]
    /\ UNCHANGED <<storeVars, writer, compactor, clientVars, log, emptied, spent>>

\* The deletions run concurrently: they take effect in any order.
CollectorDelete(node) ==
    /\ collector[node].pc = "delete"
    /\ \E n \in collector[node].doomed :
          /\ stored' = stored \ {n}
          /\ collector' = [collector EXCEPT ![node].doomed = @ \ {n}]
    /\ UNCHANGED <<manifest, body, snapshot, writer, compactor, clientVars, log,
                   emptied, spent>>

CollectorDone(node) ==
    /\ collector[node].pc = "delete"
    /\ collector[node].doomed = {}
    /\ collector' = [collector EXCEPT ![node] = NoSweep]
    /\ UNCHANGED <<storeVars, snapshot, writer, compactor, clientVars, log,
                   emptied, spent>>

\* A failed listing or deletion ends the sweep.
CollectorError(node) ==
    /\ Fault
    /\ collector[node].pc \in {"list", "delete"}
    /\ IF collector[node].pc = "list"
          THEN Remember(node, collector[node].view) ELSE UNCHANGED snapshot
    /\ collector' = [collector EXCEPT ![node] = NoSweep]
    /\ UNCHANGED <<storeVars, writer, compactor, clientVars, log, emptied>>

CollectorStep(node) ==
    CollectorList(node) \/ CollectorDelete(node) \/ CollectorDone(node)

---------------------------------------------------------------------------
\* A node stops and starts again: it holds its tasks and the remembered
\* manifest in memory only, and whoever waited for its answer gets none.
Crash(node) ==
    /\ Fault
    /\ snapshot' = [snapshot EXCEPT ![node] = NoManifest]
    /\ writer' = [writer EXCEPT ![node] = NoWrite]
    /\ compactor' = [compactor EXCEPT ![node] = NoCompaction]
    /\ collector' = [collector EXCEPT ![node] = NoSweep]
    /\ failed' = failed \cup ({writer[node].batch} \cap Batches)
    /\ UNCHANGED <<storeVars, submitted, acked, log, emptied>>

WriterNext(node) ==
    \/ \E b \in Batches : WriterTake(node, b)
    \/ WriterStep(node) \/ WriterError(node) \/ WriterUnsure(node)

CompactorNext(node) ==
    CompactorStart(node) \/ CompactorStep(node) \/ CompactorError(node)

CollectorNext(node) ==
    CollectorLoad(node) \/ CollectorStep(node) \/ CollectorError(node)

TasksNext ==
    \/ \E node \in Committing : WriterNext(node)
    \/ \E node \in Compacting : CompactorNext(node)
    \/ \E node \in Collecting : CollectorNext(node)

Next == TasksNext \/ \E node \in Nodes : Crash(node)

Spec == Init /\ [][Next]_vars

\* A task that can go on does: the store answers every call, and the tasks
\* are spawned futures that nothing but a crash stops.
Fairness ==
    /\ \A node \in Committing : WF_vars(WriterStep(node))
    /\ \A node \in Compacting : WF_vars(CompactorStep(node))
    /\ \A node \in Collecting : WF_vars(CollectorStep(node))

FairSpec == Spec /\ Fairness

---------------------------------------------------------------------------
\* Properties.

WriterState == [pc : {"idle", "get", "got", "put", "cas", "won", "lost"},
                batch : Batches \cup {NoBatch}, view : Manifest,
                name : WalNames \cup {NoName}, attempt : 0..MAX_CAS_ATTEMPTS]

CompactorState == [pc : {"idle", "first", "again", "second", "load", "check",
                         "cas", "won"},
                   first : Manifest, second : Manifest, current : Manifest,
                   built : Shards, attempt : 0..MAX_CAS_ATTEMPTS]

CollectorState == [pc : {"idle", "list", "delete"}, view : Manifest,
                   old : SUBSET (WalNames \cup DataNames),
                   doomed : SUBSET (WalNames \cup DataNames)]

StoreTypeOK ==
    /\ manifest \in Manifest
    /\ DOMAIN body \subseteq WalNames \cup DataNames
    /\ \A n \in DOMAIN body :
          /\ n \in WalNames => body[n] \in Batches
          /\ n \in DataNames => DOMAIN body[n] = {"docs", "covers"}
    /\ stored \subseteq DOMAIN body

TasksTypeOK ==
    /\ snapshot \in [Nodes -> Manifest \cup {NoManifest}]
    /\ writer \in [Nodes -> WriterState]
    /\ compactor \in [Nodes -> CompactorState]
    /\ collector \in [Nodes -> CollectorState]

ClientsTypeOK ==
    /\ submitted \subseteq Batches
    /\ DOMAIN acked \subseteq Batches
    /\ \A b \in DOMAIN acked : acked[b] \in Nat
    /\ failed \subseteq Batches

HistoryTypeOK ==
    /\ log \in Seq(Batches)
    /\ emptied \in BOOLEAN
    /\ spent \in [compactions : Nat, sweeps : Nat, faults : Nat]

\* The shape of the state: which values each variable of the store, the tasks
\* and the clients takes (the fields of Manifest, Snapshot and the locals of
\* commit_records, compact and gc).
TypeOK == StoreTypeOK /\ TasksTypeOK /\ ClientsTypeOK /\ HistoryTypeOK

\* Every object the manifest names is in the bucket: no sweep deletes what a
\* commit or a compaction has made, or is about to make, part of the namespace
\* (gc's grace window and its set difference).
NothingDangles == Referenced(manifest) \subseteq stored

\* While some document survives every compaction, each committed batch is in
\* the segment or in the WAL: a compaction that raced commits, crashes, another
\* compaction or a sweep drops none (compact's retain, its comparison of the
\* shards and its CAS).
NothingLost == ~emptied => \A i \in DOMAIN log : log[i] \in Covered(manifest)

\* The number a writer is told is the place of its batch in the order of all
\* commits, so no two writers are told the same one (the seq that
\* commit_records returns).
AckedInPlace ==
    \A b \in DOMAIN acked : acked[b] + 1 \in DOMAIN log /\ log[acked[b] + 1] = b

\* The object a WAL entry names holds the bytes of the batch that was committed
\* with it, not those of a writer that lost the race for that number
\* (commit_records on why the name is unique per attempt).
EntriesHoldTheirBatch ==
    \A e \in manifest.wal :
        e.seq + 1 \in DOMAIN log /\ body[e.name] = log[e.seq + 1]

\* A name never refers to different bytes, in the bucket or in a cache
\* (ARCHITECTURE.md section 1).
WrittenOnce ==
    [][\A n \in DOMAIN body : n \in DOMAIN body' /\ body'[n] = body[n]]_vars

\* What readers of the manifest see is every committed batch, whole, in commit
\* order -- documents deleted by a committed batch stay deleted (compact folds
\* the WAL without changing what is live).
LiveIsLog == LiveIn(manifest) = LiveAfter(Len(log))

\* The protocol implements the abstract namespace: commits take effect at
\* their CAS, once and whole and before the acknowledgement, and no other step
\* of any task changes the documents.
Atomic == INSTANCE AtomicNamespace WITH
    docs <- LiveIn(manifest),
    committed <- Range(log),
    acked <- DOMAIN acked

ImplementsAtomic == Atomic!Spec

\* Every batch handed to a committer is answered, whatever it races with: the
\* retry loop ends (commit_records, MAX_CAS_ATTEMPTS).
EveryBatchAnswered ==
    \A b \in Batches : b \in submitted ~> b \in DOMAIN acked \cup failed

=============================================================================
