---------------------------- MODULE MCRingCache ----------------------------
(***************************************************************************)
(* Instances of RingCache for TLC.                                         *)
(***************************************************************************)
EXTENDS RingCache, TLC

CONSTANTS small, wide, other, huge, r1, r2

\* Objects of two sizes for a file of three cells, and one that never fits.
MixedLength == (wide :> 2) @@ (small :> 1) @@ (other :> 2) @@ (huge :> 4)

\* The file of five cells holds `wide` and `small`; a third object is smaller
\* than `wide`.
UnevenLength == (wide :> 4) @@ (small :> 1) @@ (other :> 2) @@ (huge :> 3)

=============================================================================
