---------------------------- MODULE MCLifecycle ----------------------------
(***************************************************************************)
(* Lifecycle with a namespace and its branch, and two operations at a time *)
(* beside the collector.                                                   *)
(***************************************************************************)
EXTENDS Lifecycle

CONSTANTS Writes, Compactions, Branches, Destroys, Sweeps, Evictions, Faults

OperationLimits ==
    [write |-> Writes, compact |-> Compactions, branch |-> Branches,
     destroy |-> Destroys, sweep |-> Sweeps, evict |-> Evictions, fault |-> Faults]

Symmetry == Permutations(Tasks) \cup Permutations(Namespaces)

=============================================================================
