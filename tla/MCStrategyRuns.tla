--------------------------- MODULE MCStrategyRuns ---------------------------
(***************************************************************************)
(* Instances of StrategyRuns for TLC.                                      *)
(***************************************************************************)
EXTENDS StrategyRuns

\* How a run without a proof ends is told apart by the exit code only: -2 stands for
\* all of them, and SetupFails and OutOfTime give 1, -1 and 2 as well.  (A cfg cannot
\* hold a negative number.)
SomeFailures == {-2}

\* Two workers have three runs to share, so that one of them makes two; of three
\* workers one is more than there are runs.
GuideLengths == [n \in ForkCounts |-> IF n = 3 THEN {2} ELSE {3}]
=============================================================================
