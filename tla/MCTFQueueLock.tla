--------------------------- MODULE MCTFQueueLock ---------------------------
(***************************************************************************)
(* Instances of TFQueueLock for TLC.                                       *)
(***************************************************************************)
EXTENDS TFQueueLock, TLC

CONSTANTS p1, p2, p3, c1, c2, c3

ThreeProcs == {p1, p2, p3}

\* As many cells as processes, so that a writer and two readers can be in the queue;
\* or one cell less, so that a request may find none.
EnoughCells == {<<c1, c2, c3>>}
EnoughOrFew == EnoughCells \cup {<<c1, c2>>}

Symmetry == Permutations(Procs)

\* The request of p1 is granted, wherever in the queue it is.  The lock treats all
\* processes alike, so what holds for one of them holds for each.
OneIsServed == NoStarvation(p1)
=============================================================================
