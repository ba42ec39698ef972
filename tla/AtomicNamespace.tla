-------------------------- MODULE AtomicNamespace --------------------------
(***************************************************************************)
(* What a namespace promises its writers, with no object storage in sight: *)
(* one live set of documents, to which a batch is applied all at once, at  *)
(* most once, and before its writer is told that it was.  Compaction,      *)
(* garbage collection, retries and crashes do not appear: they may not     *)
(* change the documents.  ARCHITECTURE.md states the two halves: "A write  *)
(* is acknowledged only after its commit returns" (section 8), and the     *)
(* commit point "defines durability" (section 3).                          *)
(***************************************************************************)
EXTENDS Documents

CONSTANTS
    Batches,    \* the batches writers submit
    RecordsIn   \* the records of each batch, in order

VARIABLES
    docs,       \* the live set
    committed,  \* the batches it contains
    acked,      \* the batches whose writers were told "committed"
    failed      \* the batches whose writers were told nothing or "error"

atomicVars == <<acked, failed, committed, docs>>

Init ==
    /\ docs = NoDocs
    /\ committed = {}
    /\ acked = {}
    /\ failed = {}

Open(b) == b \notin acked \cup failed

\* A batch takes effect: once, whole, and while its writer still waits.
Commit(b) ==
    /\ Open(b)
    /\ b \notin committed
    /\ committed' = committed \cup {b}
    /\ UNCHANGED <<acked, failed>>
    /\ docs' = Replay(docs, RecordsIn[b])

Acknowledge(b) ==
    /\ Open(b)
    /\ b \in committed
    /\ acked' = acked \cup {b}
    /\ UNCHANGED <<failed, committed, docs>>

\* An error leaves the writer unsure: the batch may have been committed.
Fail(b) ==
    /\ Open(b)
    /\ failed' = failed \cup {b}
    /\ UNCHANGED <<acked, committed, docs>>

\* A commit whose answer is an error: the store applied the conditional PUT
\* and then reported a failure.
CommitAndFail(b) ==
    /\ Open(b)
    /\ b \notin committed
    /\ committed' = committed \cup {b}
    /\ failed' = failed \cup {b}
    /\ UNCHANGED acked
    /\ docs' = Replay(docs, RecordsIn[b])

Next ==
    \E b \in Batches : Commit(b) \/ Acknowledge(b) \/ Fail(b) \/ CommitAndFail(b)

Spec == Init /\ [][Next]_atomicVars

=============================================================================
