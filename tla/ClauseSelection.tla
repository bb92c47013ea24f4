-------------------------- MODULE ClauseSelection --------------------------
(***************************************************************************)
(* What the given-clause loop (wr_genloop of Reasoner/rgenloop.c) asks of  *)
(* the store of the clauses that wait to be the given clause: a clause     *)
(* that was pushed is not lost, a pick gives a clause of the store, and    *)
(* the store says that it has nothing to pick only when every clause was   *)
(* picked.  The order is open, and a clause may be picked again: the code  *)
(* keeps it in two queues.                                                 *)
(***************************************************************************)
CONSTANT Clauses

VARIABLES
  kept,      \* the clauses of the store
  waiting,   \* those that were never picked
  done       \* the store has answered that it is empty

vars == <<kept, waiting, done>>

Init == kept = {} /\ waiting = {} /\ ~done

Push(c) ==
  /\ ~done /\ c \notin kept
  /\ kept' = kept \cup {c}
  /\ waiting' = waiting \cup {c}
  /\ UNCHANGED done

\* c becomes the given clause; the store may forget it.
Pick(c) ==
  /\ ~done /\ c \in kept
  /\ kept' \in {kept, kept \ {c}}
  /\ waiting' = waiting \ {c}
  /\ UNCHANGED done

Exhausted ==
  /\ ~done /\ waiting = {}
  /\ done'
  /\ UNCHANGED <<kept, waiting>>

Next == (\E c \in Clauses : Push(c) \/ Pick(c)) \/ Exhausted

Spec == Init /\ [][Next]_vars
=============================================================================
