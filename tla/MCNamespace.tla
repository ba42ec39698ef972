---------------------------- MODULE MCNamespace ----------------------------
(***************************************************************************)
(* Instances of Namespace for TLC: three batches over two documents, and   *)
(* names that are numbers, so that "the first unused one" is well defined. *)
(***************************************************************************)
EXTENDS NamespaceInvariants

CONSTANTS n1, n2, b1, b2, b3, x, y, title, old, new

Upsert(i, v) == [op |-> "upsert", id |-> i, attrs |-> [a \in {title} |-> v]]
Patch(i, v) == [op |-> "patch", id |-> i, attrs |-> [a \in {title} |-> v]]
Delete(i) == [op |-> "delete", id |-> i]

\* Two documents, then a patch of one and a delete of it with an upsert of the
\* other: order matters, and some document always survives.
MCRecordsIn ==
    (b1 :> <<Upsert(x, old), Upsert(y, old)>>) @@
    (b2 :> <<Patch(x, new), Delete(y)>>) @@
    (b3 :> <<Upsert(x, old)>>)

\* A document and its deletion: the namespace can become empty again.
MCEmptyingRecordsIn ==
    (b1 :> <<Upsert(x, old)>>) @@ (b2 :> <<Delete(x)>>) @@ (b3 :> <<Upsert(x, new)>>)

\* Each batch deletes or keeps what the other writes, so that neither alone makes
\* the documents of both.
MCMixedRecordsIn ==
    (b1 :> <<Upsert(x, old), Delete(y)>>) @@
    (b2 :> <<Patch(x, new), Upsert(y, old)>>) @@
    (b3 :> <<Upsert(x, old)>>)

MCWalNames == 1..4
MCDataNames == 11..12

=============================================================================
