---------------------------- MODULE MCCommitter ----------------------------
(***************************************************************************)
(* Instances of Committer for TLC.                                         *)
(***************************************************************************)
EXTENDS Committer, TLC

CONSTANTS c1, c2, c3, metric, types, cosine, euclidean, text

MCSize == (c1 :> 2) @@ (c2 :> 1) @@ (c3 :> 1)

\* Two requests that disagree about the metric, one of which declares types as
\* well, and one without settings.
MCConfig ==
    (c1 :> (metric :> euclidean)) @@
    (c2 :> ((metric :> cosine) @@ (types :> text))) @@
    (c3 :> [s \in {} |-> 0])

MCDefaults == metric :> cosine

=============================================================================
