---------------------------- MODULE MCNamespaceReads ----------------------------
(***************************************************************************)
(* Instances of NamespaceReads for TLC, over the batches of MCNamespace.   *)
(***************************************************************************)
EXTENDS MCNamespace, NamespaceReads

=============================================================================
