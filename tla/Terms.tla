------------------------------- MODULE Terms -------------------------------
(***************************************************************************)
(* Terms, the variable bank with its stack, unification, matching          *)
(* (Reasoner/unify.c) and the meta value of a literal (Reasoner/clmeta.c). *)
(* A term is [sym, args]; a variable or a constant has no arguments.  An   *)
(* environment [ok, bank, stack] is the variable bank, the stack of the    *)
(* variables that were set, and the answer of the last call.               *)
(***************************************************************************)
EXTENDS Naturals, Sequences, FiniteSets

CONSTANTS
  Variables,   \* the names of variables
  Code,        \* a number for every symbol: its hash and its place in the order
  Hashes,      \* hashes are taken modulo this (ATOM_META_PREFHASH_MASK)
  SizeMask,    \* the largest size, depth and prefix length that a meta holds:
  DepthMask,   \* bigger ones are cut down to these
  PreflenMask,
  StrayMatch   \* what comparing a constant's memory with a record's answers

ASSUME TermsAssumption ==
  /\ Variables \subseteq DOMAIN Code
  /\ \A s \in DOMAIN Code : Code[s] \in Nat
  /\ {Hashes, SizeMask, DepthMask, PreflenMask} \subseteq Nat \ {0}
  /\ StrayMatch \in BOOLEAN

IsVar(t) == t.sym \in Variables
IsComplex(t) == t.args # <<>>

Unassigned == [sym |-> "unassigned", args |-> <<>>]
ClearEnv == [ok |-> TRUE, bank |-> [v \in Variables |-> Unassigned], stack |-> <<>>]

-----------------------------------------------------------------------------
(* The variable bank. *)

\* SETVAR
SetVar(e, x, t) ==
  [ok |-> TRUE, bank |-> [e.bank EXCEPT ![x.sym] = t], stack |-> Append(e.stack, x.sym)]

\* VARVAL_F and wr_varval: follow variables up to a term or an unset variable.
RECURSIVE Value(_, _)
Value(t, bank) ==
  IF ~IsVar(t) \/ bank[t.sym] = Unassigned THEN t ELSE Value(bank[t.sym], bank)

Fail(e) == [e EXCEPT !.ok = FALSE]

\* wr_clear_varstack_topslice: unset the variables above the first n.
ClearTop(e, n) ==
  LET top == {e.stack[i] : i \in (n + 1) .. Len(e.stack)}
  IN  [e EXCEPT !.bank = [v \in Variables |-> IF v \in top THEN Unassigned ELSE @[v]],
                !.stack = SubSeq(@, 1, n)]

\* wr_clear_varstack
Clear(e) == ClearTop(e, 0)

-----------------------------------------------------------------------------
(* Unification and matching. *)

\* Mutant: the occurs check looks at the arguments only, not into them.
OccursShallow(x, y, bank) == \E i \in DOMAIN y.args : Value(y.args[i], bank) = x

\* wr_occurs_in
RECURSIVE OccursIn(_, _, _)
OccursIn(x, y, bank) ==
  \E i \in DOMAIN y.args :
     LET a == Value(y.args[i], bank) IN a = x \/ OccursIn(x, a, bank)

\* wr_unify_term_aux.  The function symbol is the first of the compared fields.
RECURSIVE UnifyAux(_, _, _), UnifyFrom(_, _, _, _)
UnifyAux(x0, y0, e) ==
  LET x == Value(x0, e.bank)
      y == Value(y0, e.bank)
  IN  CASE x = y -> [e EXCEPT !.ok = TRUE]
        [] x # y /\ IsVar(x) -> IF OccursIn(x, y, e.bank) THEN Fail(e) ELSE SetVar(e, x, y)
        [] x # y /\ ~IsVar(x) /\ IsVar(y) ->
             IF OccursIn(y, x, e.bank) THEN Fail(e) ELSE SetVar(e, y, x)
        [] OTHER ->
             IF IsComplex(x) /\ Len(x.args) = Len(y.args) /\ x.sym = y.sym
             THEN UnifyFrom(x.args, y.args, 1, e) ELSE Fail(e)
UnifyFrom(xs, ys, i, e) ==
  IF i > Len(xs) THEN [e EXCEPT !.ok = TRUE]
  ELSE LET r == UnifyAux(xs[i], ys[i], e) IN IF r.ok THEN UnifyFrom(xs, ys, i + 1, r) ELSE r

RECURSIVE MatchAux(_, _, _), MatchFrom(_, _, _, _)

\* wr_match_term_aux: only variables of x are bound and no value is looked into.
\* For a constant x and a complex y the code goes on to read the memory of the
\* constant as if it were a record.
MatchAux(x, y, e) ==
  CASE IsVar(x) -> IF e.bank[x.sym] = Unassigned THEN SetVar(e, x, y)
                   ELSE [e EXCEPT !.ok = e.bank[x.sym] = y]
    [] ~IsVar(x) /\ ~IsComplex(x) ->
         [e EXCEPT !.ok = x = y \/ (IsComplex(y) /\ StrayMatch)]
    [] IsComplex(x) ->
         IF Len(x.args) = Len(y.args) /\ x.sym = y.sym
         THEN MatchFrom(x.args, y.args, 1, e) ELSE Fail(e)
MatchFrom(xs, ys, i, e) ==
  IF i > Len(xs) THEN [e EXCEPT !.ok = TRUE]
  ELSE LET r == MatchAux(xs[i], ys[i], e) IN IF r.ok THEN MatchFrom(xs, ys, i + 1, r) ELSE r

-----------------------------------------------------------------------------
(* The meta value of an atom: wr_calc_term_meta and wr_litmeta_to_gint.    *)

Smaller(m, n) == IF m < n THEN m ELSE n

\* The symbols of a term from left to right, and its depth.
RECURSIVE Symbols(_), SymbolsFrom(_, _), Depth(_), DepthFrom(_, _)
SymbolsFrom(ts, i) ==
  IF i > Len(ts) THEN <<>> ELSE Symbols(ts[i]) \o SymbolsFrom(ts, i + 1)
Symbols(t) == <<t.sym>> \o SymbolsFrom(t.args, 1)
DepthFrom(ts, i) ==
  IF i > Len(ts) THEN 0
  ELSE LET d == Depth(ts[i]) n == DepthFrom(ts, i + 1) IN IF d > n THEN d ELSE n
Depth(t) == IF IsComplex(t) THEN 1 + DepthFrom(t.args, 1) ELSE 0

IsGround(t) == \A i \in DOMAIN Symbols(t) : Symbols(t)[i] \notin Variables

\* The symbols before the first variable, and the hash of the first n of them.
Prefix(t) ==
  LET s == Symbols(t)
      n == CHOOSE n \in 0 .. Len(s) :
             /\ \A i \in 1 .. n : s[i] \notin Variables
             /\ n = Len(s) \/ s[n + 1] \in Variables
  IN  SubSeq(s, 1, n)
RECURSIVE HashOf(_, _)
HashOf(s, n) == IF n = 0 THEN 0 ELSE Code[s[n]] + HashOf(s, n - 1)

\* The meta: numbers too big for their mask become the largest one.
AtomMeta(atom) ==
  [ground |-> IF IsGround(atom) THEN 1 ELSE 0,
   size |-> Smaller(Len(Symbols(atom)), SizeMask),
   depth |-> Smaller(Depth(atom), DepthMask),
   preflen |-> Smaller(Len(Prefix(atom)), PreflenMask),
   hash |-> HashOf(Prefix(atom), Len(Prefix(atom))) % Hashes]

\* The meta as the integers that the masks cut out of it.
PreflenCanSubs(m) == m.preflen
DepthCanSubs(m) == m.depth * (PreflenMask + 1) + PreflenCanSubs(m)
CanSubs(m) ==
  (m.ground * (SizeMask + 1) + m.size) * (DepthMask + 1) * (PreflenMask + 1) + DepthCanSubs(m)
GroundCmp(m) == CanSubs(m) * Hashes + m.hash
=============================================================================
