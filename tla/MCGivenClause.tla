---------------------------- MODULE MCGivenClause ----------------------------
(***************************************************************************)
(* Instances of GivenClause for TLC.                                       *)
(***************************************************************************)
EXTENDS GivenClause

\* Facts, rules, goals and questions over two atoms; the $ans literals are 10
\* and 11.
Pool == {{1}, {-1}, {-1, 2}, {-2}, {1, 2}, {1, -2}, {-1, 10}, {-2, 11}}

\* Three atoms: here units and doubles are derived that were not read, and
\* clauses of three literals are cut in two ways.
Chains ==
  {{{1, 2}, {-1, 3}, {-3, 2}},
   {{1, 2}, {-1, 3}, {-3, 2}, {-2}},
   {{1, 2, 3}, {-1, 10}, {-2, 3}},
   {{1, 2, 3}, {-1, 10}, {-2, 11}, {-3}},
   {{-1, 2}, {-2, 3}, {-3, 1}, {1, 3}}}

Problems == {I \in SUBSET Pool : Cardinality(I) <= 4} \cup Chains
=============================================================================
