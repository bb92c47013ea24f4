------------------------------- MODULE MCTTree ------------------------------
EXTENDS TTree

\* Two values that two rows may have, and a row that changes its value.
MCValues ==
  [r \in Rows |-> CASE r <= 2 -> {3} [] r = 3 -> {2, 4} [] r = 4 -> {1} [] r = 5 -> {4} [] OTHER -> {5}]
=============================================================================
