--------------------------- MODULE NamespaceReads ---------------------------
(***************************************************************************)
(* Queries against the namespace of module Namespace, while it is written, *)
(* compacted and swept (store.rs: load_with, wal_prefix_within, the parts  *)
(* of query that choose a manifest and read the objects it names).  What a *)
(* query computes from the documents is left out: its answer is the live   *)
(* set it would be computed from.                                          *)
(***************************************************************************)
EXTENDS Namespace

CONSTANTS
    Reading,                    \* the nodes that answer queries
    MAX_UNINDEXED_SCAN_BYTES,   \* in WAL objects, all taken to be of one size
    MaxReads                    \* bound of the model

ASSUME ReadsAssumption ==
    /\ Reading \subseteq Nodes
    /\ MAX_UNINDEXED_SCAN_BYTES \in Nat
    /\ MaxReads \in Nat

VARIABLES
    reader,     \* per node: the query in progress, or the answer it just gave
    reads       \* queries so far

allVars == <<vars, reader, reads>>

\* `since` is history: how many batches were committed when the query arrived.
NoRead == [pc |-> "idle", mode |-> "strong", view |-> DefaultManifest,
           fromSnapshot |-> FALSE, since |-> 0,
           answer |-> NoDocs, consistent |-> FALSE]

ReadsInit ==
    /\ Init
    /\ reader = [n \in Nodes |-> NoRead]
    /\ reads = 0

---------------------------------------------------------------------------
Truncated(m) == Cardinality(m.wal) > MAX_UNINDEXED_SCAN_BYTES

\* (Variant: keep the newest entries instead of the oldest.)
WalSuffixWithin(m) ==
    {e \in m.wal :
        Cardinality({d \in m.wal : d.seq >= e.seq}) <= MAX_UNINDEXED_SCAN_BYTES}

\* Manifest::wal_prefix_within: the oldest entries that fit the cap.
WalPrefixWithin(m) ==
    {e \in m.wal :
        Cardinality({d \in m.wal : d.seq <= e.seq}) <= MAX_UNINDEXED_SCAN_BYTES}

\* (Variant: answer a strong query from what fits.)
NeverRefused(r) == FALSE

\* A strong query is refused rather than answered from part of the WAL.
Refused(r) == r.mode = "strong" /\ Truncated(r.view)

\* (Variant: only the snapshot makes an answer inconsistent.)
ConsistentUnlessRemembered(r) == ~r.fromSnapshot

\* QueryResponse::consistent.
Consistent(r) == ~r.fromSnapshot /\ ~Truncated(r.view)

---------------------------------------------------------------------------
Query(mode) == [NoRead EXCEPT !.mode = mode, !.since = Len(log)]

\* load_with, when the remembered manifest is young enough for the caller.
ReadRemembered(node) ==
    /\ reader[node].pc = "idle"
    /\ reads < MaxReads
    /\ reads' = reads + 1
    /\ snapshot[node] # NoManifest
    /\ reader' = [reader EXCEPT ![node] =
            [Query("eventual") EXCEPT !.pc = "read", !.view = snapshot[node],
                                            !.fromSnapshot = TRUE]]
    /\ UNCHANGED vars

\* load_with otherwise: the GET of the manifest.
ReadLoad(node, mode) ==
    /\ reader[node].pc = "idle"
    /\ reads < MaxReads
    /\ reads' = reads + 1
    /\ reader' = [reader EXCEPT ![node] =
            [Query(mode) EXCEPT !.pc = "got", !.view = manifest]]
    /\ UNCHANGED vars

ReadRemember(node) ==
    /\ reader[node].pc = "got"
    /\ Remember(node, reader[node].view)
    /\ reader' = [reader EXCEPT ![node].pc = "read"]
    /\ UNCHANGED <<storeVars, writer, compactor, collector, clientVars, log,
                   emptied, spent, reads>>

\* The objects the query reads: every segment, and the WAL up to the cap.
Needed(m) == Segments(m) \cup {e.name : e \in WalPrefixWithin(m)}

ReadObjects(node) ==
    LET r == reader[node] IN
    /\ r.pc = "read"
    /\ ~Refused(r)
    /\ Readable(node, Needed(r.view))
    /\ reader' = [reader EXCEPT ![node] =
            [r EXCEPT !.pc = "answered", !.consistent = Consistent(r),
                      !.answer = LiveWith(r.view, WalPrefixWithin(r.view))]]
    /\ UNCHANGED <<vars, reads>>

\* The query ends with an error: refused, or an object it needs is gone.
ReadFails(node) ==
    LET r == reader[node] IN
    /\ r.pc = "read"
    /\ Refused(r) \/ ~(Needed(r.view) \subseteq stored)
    /\ reader' = [reader EXCEPT ![node] = NoRead]
    /\ UNCHANGED <<vars, reads>>

ReadDone(node) ==
    /\ reader[node].pc = "answered"
    /\ reader' = [reader EXCEPT ![node] = NoRead]
    /\ UNCHANGED <<vars, reads>>

ReaderNext(node) ==
    \/ ReadRemembered(node)
    \/ \E mode \in {"strong", "eventual"} : ReadLoad(node, mode)
    \/ ReadRemember(node) \/ ReadObjects(node) \/ ReadFails(node) \/ ReadDone(node)

---------------------------------------------------------------------------
\* A step of another task of the namespace.
Elsewhere ==
    /\ TasksNext
    /\ UNCHANGED <<reader, reads>>

\* A crash ends the node's query with its other tasks.
CrashReading(node) ==
    /\ Crash(node)
    /\ reader' = [reader EXCEPT ![node] = NoRead]
    /\ UNCHANGED reads

ReadsNext ==
    \/ Elsewhere
    \/ \E node \in Reading : ReaderNext(node)
    \/ \E node \in Nodes : CrashReading(node)

ReadsSpec == ReadsInit /\ [][ReadsNext]_allVars

---------------------------------------------------------------------------
\* Properties.

Answered(node) == reader[node].pc = "answered"

\* A strong answer contains every batch committed before the query arrived,
\* and no part of a batch (ARCHITECTURE.md section 6: strong "sees every
\* committed write, or errors"), whatever was compacted, swept or committed
\* between the load and the reads.
StrongIsFresh ==
    \A n \in Reading : Answered(n) /\ reader[n].mode = "strong" =>
        \E k \in reader[n].since..Len(log) : reader[n].answer = LiveAfter(k)

\* An answer that says it is consistent is as fresh as a strong one (query's
\* "Honest reporting").
ConsistentIsHonest ==
    \A n \in Reading : Answered(n) /\ reader[n].consistent =>
        \E k \in reader[n].since..Len(log) : reader[n].answer = LiveAfter(k)

\* The WAL still lists a batch that the segment was built from: compaction
\* loads the manifest twice, and folds what was committed in between without
\* taking it out of the WAL.
FoldedTwice(m) ==
    m.shards \in DataNames
        /\ \E e \in m.wal : body[e.name] \in body[m.shards].covers

\* Every answer, an eventual one included, is the live set at some moment of
\* the past, also when the WAL was cut (wal_prefix_within: "Truncating the tail
\* yields a consistent view of an earlier moment") -- unless what is cut was
\* folded already, when the cut replays part of it over its own future.
AnswersArePast ==
    \A n \in Reading :
        Answered(n) /\ (Truncated(reader[n].view) => ~FoldedTwice(reader[n].view))
            => \E k \in 0..Len(log) : reader[n].answer = LiveAfter(k)

=============================================================================
