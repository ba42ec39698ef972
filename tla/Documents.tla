----------------------------- MODULE Documents -----------------------------
(***************************************************************************)
(* The mutation semantics of a namespace: what a sequence of records makes *)
(* of a set of documents (doc.rs, and `apply` / `materialize` of store.rs).*)
(*                                                                         *)
(* A live set is a function from the ids that exist to their attributes,   *)
(* and a document's attributes are a function from the attribute names it  *)
(* has to their values.  The vector is left out: no mutation but an upsert *)
(* can change it, so it behaves like one more attribute.                   *)
(***************************************************************************)
EXTENDS Naturals, Sequences, SequencesExt, Functions

CONSTANTS
    Ids,        \* document ids
    Attrs,      \* attribute names
    Values,     \* attribute values
    Null        \* the value that removes an attribute in a patch

\* The removing value is not one a document can hold.
ASSUME NullAssumption == Null \notin Values

PartialFunctions(D, R) == UNION {[S -> R] : S \in SUBSET D}

\* Record (doc.rs): a mutation of one document.
Upserts == [op : {"upsert"}, id : Ids, attrs : PartialFunctions(Attrs, Values)]
Patches == [op : {"patch"},  id : Ids,
            attrs : PartialFunctions(Attrs, Values \cup {Null})]
Deletes == [op : {"delete"}, id : Ids]
Records == Upserts \cup Patches \cup Deletes

LiveSets == PartialFunctions(Ids, PartialFunctions(Attrs, Values))

NoDocs == [i \in {} |-> [a \in {} |-> Null]]

---------------------------------------------------------------------------

\* The attributes a patch leaves: a Null removes one, any other value sets it.
Patched(attrs, patch) ==
    LET removed == {a \in DOMAIN patch : patch[a] = Null}
    IN  [a \in (DOMAIN attrs \cup DOMAIN patch) \ removed |->
            IF a \in DOMAIN patch THEN patch[a] ELSE attrs[a]]

\* store.rs apply: a patch of an absent document is a no-op.
Apply(live, r) ==
    LET present == CASE r.op = "upsert" -> DOMAIN live \cup {r.id}
                     [] r.op = "patch"  -> DOMAIN live
                     [] r.op = "delete" -> DOMAIN live \ {r.id}
        written(i) == IF r.op = "upsert" THEN r.attrs ELSE Patched(live[i], r.attrs)
    IN  [i \in present |-> IF i = r.id THEN written(i) ELSE live[i]]

\* The live set after `records` have been applied, in order, over `live`.
Replay(live, records) ==
    LET after[k \in 0..Len(records)] ==
            IF k = 0 THEN live ELSE Apply(after[k - 1], records[k])
    IN  after[Len(records)]

\* ... after the records of each of `batches`, in order.
ReplayAll(live, batches) ==
    LET after[k \in 0..Len(batches)] ==
            IF k = 0 THEN live ELSE Replay(after[k - 1], batches[k])
    IN  after[Len(batches)]

\* store.rs Namespace::materialize.
Materialize(records) == Replay(NoDocs, records)

\* What compaction writes for a live set: one Upsert per document, in some
\* fixed order of the ids (build_shard receives them sorted).
AsSegment(live) ==
    LET ids == SetToSeq(DOMAIN live)
    IN  [k \in DOMAIN ids |-> [op |-> "upsert", id |-> ids[k], attrs |-> live[ids[k]]]]

=============================================================================
