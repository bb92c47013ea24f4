---------------------------- MODULE MCPickQueues ----------------------------
(***************************************************************************)
(* Instances of PickQueues for TLC.                                        *)
(***************************************************************************)
EXTENDS PickQueues

Kind(r, p, n) == [role |-> r, posunit |-> p, neg |-> n]

\* A kind of clause for each of the four blocks, under the strategy 1.
FourBlocks == {Kind("fromgoalassumption", FALSE, FALSE), Kind("goal", FALSE, TRUE),
               Kind("assumption", FALSE, FALSE), Kind("axiom", FALSE, FALSE)}

\* A weight that keeps a clause out of the buckets, one for the lightest
\* bucket, and one over the heaviest.
ThreeWeights == {-1, 0, 2}
=============================================================================
