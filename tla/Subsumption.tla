---------------------------- MODULE Subsumption ----------------------------
(***************************************************************************)
(* What the main loop (Reasoner/rgenloop.c) does with a picked clause      *)
(* after simplification: sorting its literals, summing up its meta block,  *)
(* forward subsumption by the active clauses, back subsumption, storing it *)
(* among the active ones, and unifying its literals (Reasoner/subsume.c,   *)
(* clmeta.c, resolve.c, unify.c).                                          *)
(***************************************************************************)
EXTENDS Terms

CONSTANTS
  Inputs,        \* the clauses that may be picked, as sequences of literals
  Leftover,      \* clauses whose meta block may be what the stack held
  Byte,          \* the largest value in a byte of a clause's meta block
  Answer,        \* the predicate of answer literals
  OneAnswer,     \* one answer is enough: answer literals are not compared
  BackSubsume,   \* whether back subsumption is on
  Second,        \* the variables of the first bank and their names in the second
  Instances,     \* ground terms that unifiers are looked for in
  MaxPicks       \* how many clauses the model picks

ASSUME SubsumptionAssumption ==
  /\ DOMAIN Second \subseteq Variables
  /\ \A v \in DOMAIN Second : Second[v] \in Variables
  /\ Leftover \subseteq Inputs
  /\ Byte \in Nat \ {0} /\ MaxPicks \in Nat
  /\ {OneAnswer, BackSubsume} \subseteq BOOLEAN

VARIABLES
  active,   \* clactivesubsume: clauses with their meta blocks
  units,    \* hash_pos/neg_active_groundunits: literals
  block,    \* given_cl_metablock
  candidate, \* picked_given_cl_cand, and whether it is a clause of an attached kb
  given,    \* the given clause, while it is worked on
  marked,   \* backsubsume_values: active clauses that were back subsumed
  env,      \* varbanks and varstack
  task,     \* the two terms that were last unified
  picks     \* how many clauses were picked

vars == <<active, units, block, candidate, given, marked, env, task, picks>>

NoClause == [rule |-> FALSE, lits |-> <<>>]

-----------------------------------------------------------------------------
(* Clauses and the order of their literals. *)

IsAnswer(lit) == OneAnswer /\ lit.atom.sym = Answer

\* wr_process_resolve_result_isrulecl: a positive literal of constants is
\* stored as a fact, which has no literal metas.
IsRule(lits) ==
  \/ Len(lits) # 1 \/ lits[1].neg \/ ~IsComplex(lits[1].atom)
  \/ \E i \in DOMAIN lits[1].atom.args :
        LET a == lits[1].atom.args[i] IN IsVar(a) \/ IsComplex(a)

Stored(lits) == [rule |-> IsRule(lits), lits |-> lits]

Negative(lit) == IF lit.neg THEN 1 ELSE 0
Ground(lit) == AtomMeta(lit.atom).ground = 1

\* The whole meta of a literal: the sign is the highest bit.
FullMeta(lit) ==
  Negative(lit) * 2 * (SizeMask + 1) * (DepthMask + 1) * (PreflenMask + 1) * Hashes
    + GroundCmp(AtomMeta(lit.atom))

\* wr_sort_meta_bigger
SortMetaBigger(k, l) ==
  IF Ground(k) # Ground(l) THEN Ground(k)
  ELSE IF Ground(k) THEN FullMeta(k) > FullMeta(l)
  ELSE CanSubs(AtomMeta(k.atom)) > CanSubs(AtomMeta(l.atom))

\* wr_order_2_atoms_lex_order: shorter records first, then by their symbols.
RECURSIVE LexBefore(_, _)
LexBefore(x, y) ==
  IF IsVar(x) \/ IsVar(y) THEN IsVar(x) /\ (IsVar(y) => Code[x.sym] < Code[y.sym])
  ELSE \/ Len(x.args) < Len(y.args)
       \/ /\ Len(x.args) = Len(y.args)
          /\ \/ Code[x.sym] < Code[y.sym]
             \/ /\ x.sym = y.sym
                /\ \E i \in DOMAIN x.args : /\ \A j \in 1 .. (i - 1) : x.args[j] = y.args[j]
                                            /\ LexBefore(x.args[i], y.args[i])

\* wr_sort_2_meta_bigger
SortBigger(k, l) ==
  \/ SortMetaBigger(k, l)
  \/ /\ ~SortMetaBigger(l, k)
     /\ \/ k.neg /\ ~l.neg
        \/ k.neg = l.neg /\ LexBefore(l.atom, k.atom)

\* wr_inssort_cl and wr_sort_cl: the biggest literal comes first.
RECURSIVE SortedFrom(_, _)
SortedFrom(lits, i) ==
  IF i > Len(lits) THEN lits
  ELSE LET n == CHOOSE n \in 0 .. (i - 1) :
                   /\ n > 0 => SortBigger(lits[n], lits[i])
                   /\ \A j \in (n + 1) .. (i - 1) : ~SortBigger(lits[j], lits[i])
           moved == SubSeq(lits, 1, n) \o <<lits[i]>> \o SubSeq(lits, n + 1, i - 1)
       IN  SortedFrom(moved \o SubSeq(lits, i + 1, Len(lits)), i + 1)
Sort(c) == IF c.rule THEN [c EXCEPT !.lits = SortedFrom(@, 2)] ELSE c

-----------------------------------------------------------------------------
(* Subsumption between two clauses. *)

\* Mutant: a full prefix length counts as the real one.
MatchableFull(k, l) ==
  LET m == AtomMeta(k.atom)
      n == AtomMeta(l.atom)
  IN  /\ CanSubs(m) <= CanSubs(n)
      /\ m.preflen = n.preflen => m.hash = n.hash

\* wr_matchable_lit_meta
MatchableMeta(k, l) ==
  LET m == AtomMeta(k.atom)
      n == AtomMeta(l.atom)
  IN  /\ CanSubs(m) <= CanSubs(n)
      /\ IF m.ground = 1 THEN GroundCmp(m) = GroundCmp(n)
         ELSE /\ DepthCanSubs(m) <= DepthCanSubs(n)
              /\ PreflenCanSubs(m) <= PreflenCanSubs(n)
              /\ m.preflen = n.preflen /\ m.preflen # PreflenMask => m.hash = n.hash

\* wr_subsume_cl_aux: the i-th literal of c against the literals of d from the
\* j-th on, those in used taken.  Literals are bound one after the other; when
\* the rest cannot be bound, the variables set for the last one are cleared.
\* After a match that set no variable the other literals are not tried.
RECURSIVE Cover(_, _, _, _, _, _)
Cover(c, d, i, j, used, e) ==
  LET k == c[i]
      l == d[j]
      both == IsAnswer(k) /\ IsAnswer(l)
      next(f) == Cover(c, d, i, j + 1, used, f)
  IN  IF j > Len(d) THEN Fail(e)
      ELSE IF j \in used THEN next(e)
      ELSE IF SortMetaBigger(k, l) /\ ~IsAnswer(k) /\ ~IsAnswer(l) THEN Fail(e)
      ELSE IF k.neg # l.neg \/ ~(both \/ MatchableMeta(k, l)) THEN next(e)
      ELSE LET m == IF both THEN [e EXCEPT !.ok = TRUE] ELSE MatchAux(k.atom, l.atom, e)
               rest == IF i = Len(c) THEN m ELSE Cover(c, d, i + 1, 1, used \cup {j}, m)
               back == ClearTop(rest, Len(e.stack))
           IN  IF ~m.ok THEN next(ClearTop(m, Len(e.stack)))
               ELSE IF rest.ok THEN rest
               ELSE IF Len(m.stack) = Len(e.stack) THEN Fail(back) ELSE next(back)

\* The case of a unit clause c: the literals of d in turn, up to one that is
\* too small in the order.
UnitCovers(k, d, e) ==
  \E j \in DOMAIN d :
     /\ \A i \in 1 .. j : ~SortMetaBigger(k, d[i])
     /\ k.neg = d[j].neg /\ MatchableMeta(k, d[j])
     /\ MatchAux(k.atom, d[j].atom, e).ok

\* wr_subsume_cl
SubsumeCl(c, d, e) ==
  IF ~c.rule
  THEN \E j \in DOMAIN d.lits :
          /\ d.rule => \A i \in 1 .. j : Ground(d.lits[i])
          /\ ~d.lits[j].neg /\ d.lits[j].atom = c.lits[1].atom
  ELSE IF ~d.rule
  THEN Len(c.lits) = 1 /\ ~c.lits[1].neg /\ MatchAux(c.lits[1].atom, d.lits[1].atom, e).ok
  ELSE IF Len(c.lits) = 1 THEN UnitCovers(c.lits[1], d.lits, e)
  ELSE Len(c.lits) <= Len(d.lits) /\ Cover(c.lits, d.lits, 1, 1, {}, e).ok

-----------------------------------------------------------------------------
(* The meta block of a clause, and what it rules out. *)

\* limit_byte
LimitByte(n) == IF n < Byte THEN n ELSE IF n > Byte THEN Byte ELSE 0

RECURSIVE SizeFrom(_, _)
SizeFrom(lits, i) ==
  IF i > Len(lits) THEN 0 ELSE Len(Symbols(lits[i].atom)) + SizeFrom(lits, i + 1)
Largest(S) == CHOOSE m \in S : \A n \in S : n <= m

\* wr_lithash_to_bitmask and wr_signed_lithash_to_bitmask, for the prefixes of
\* length n.
PrefBits(lits, n, signed) ==
  {<<IF signed THEN l.neg ELSE FALSE, HashOf(Prefix(l.atom), n) % Hashes>> :
     l \in {lits[i] : i \in {i \in DOMAIN lits : Len(Prefix(lits[i].atom)) >= n}}}

\* wr_calc_clause_meta.  For a fact only the lengths are filled in.
Block(c) ==
  LET lits == c.lits
      dom == DOMAIN lits
      sizes == [depth |-> LimitByte(Largest({Depth(lits[i].atom) : i \in dom})),
                size |-> LimitByte(SizeFrom(lits, 1)),
                preflen |-> LimitByte(Largest({Len(Prefix(lits[i].atom)) : i \in dom})),
                pref |-> [n \in 1 .. 3 |-> PrefBits(lits, n, n = 1)]]
      none == [depth |-> 0, size |-> 0, preflen |-> 0, pref |-> [n \in 1 .. 3 |-> {}]]
      own == IF c.rule THEN sizes ELSE none
  IN  [ground |-> IF \A i \in dom : Ground(lits[i]) THEN 1 ELSE 0,
       length |-> LimitByte(Len(lits)),
       neglength |-> LimitByte(Cardinality({i \in dom : lits[i].neg})),
       groundlength |-> LimitByte(Cardinality({i \in dom : Ground(lits[i])})),
       depth |-> own.depth, size |-> own.size, preflen |-> own.preflen, pref |-> own.pref]

Lengths(b) ==
  ((b.ground * (Byte + 1) + b.length) * (Byte + 1) + b.neglength) * (Byte + 1) + b.groundlength
Sizes(b) == (b.depth * (Byte + 1) + b.size) * (Byte + 1) + b.preflen

\* wr_clmetablock_can_subsume
CanSubsume(b, s) ==
  /\ Lengths(b) <= Lengths(s)
  /\ b.length <= s.length /\ b.neglength <= s.neglength /\ b.groundlength <= s.groundlength
  /\ b.length = s.length /\ s.length = 0 => b.neglength = s.neglength
  /\ Sizes(b) <= Sizes(s)
  /\ b.size <= s.size /\ b.preflen <= s.preflen
  /\ \A n \in 1 .. 3 : b.pref[n] \subseteq s.pref[n]

-----------------------------------------------------------------------------
(* The loop. *)

\* wr_given_cl_subsumed: by an active ground unit, for a rule one of the ground
\* literals at the front, or by a clause of the active list.
GivenSubsumed(c, b) ==
  \/ \E j \in DOMAIN c.lits :
        /\ c.rule => \A i \in 1 .. j : Ground(c.lits[i])
        /\ c.lits[j] \in units
  \/ \E i \in DOMAIN active :
        CanSubsume(active[i].block, b) /\ SubsumeCl(active[i].clause, c, env)

\* wr_given_cl_backsubsume and wr_set_cl_backsubsumed
BackSubsumed(c, b) ==
  IF BackSubsume
  THEN {active[i].clause : i \in {i \in DOMAIN active :
          CanSubsume(b, active[i].block) /\ SubsumeCl(c, active[i].clause, env)}}
  ELSE {}

\* wr_build_calc_cl into the bank of the active clauses: the variables renamed.
RECURSIVE Renamed(_)
Renamed(t) == [sym |-> IF IsVar(t) THEN Second[t.sym] ELSE t.sym,
               args |-> [i \in DOMAIN t.args |-> Renamed(t.args[i])]]
AsActive(c) ==
  [c EXCEPT !.lits = [i \in DOMAIN @ |-> [@[i] EXCEPT !.atom = Renamed(@)]]]

\* wr_add_given_cl_active_list: ground units go to the hash of units
\* (wr_add_cl_to_active_unithash), the others with the meta block to the list.
AddActive(c, b) ==
  IF Len(c.lits) = 1 /\ Ground(c.lits[1])
  THEN units' = units \cup {c.lits[1]} /\ UNCHANGED active
  ELSE active' = Append(active, [clause |-> AsActive(c), block |-> b]) /\ UNCHANGED units

\* wr_genloop for one picked clause.  A clause of an attached knowledge base is
\* not sorted and the meta block stays the one of the clause before it.
Pick(lits, kb) ==
  LET c == IF kb THEN Stored(lits) ELSE Sort(Stored(lits))
      b == IF kb THEN block ELSE Block(c)
  IN  /\ given = NoClause /\ picks < MaxPicks
      /\ picks' = picks + 1
      /\ candidate' = [clause |-> c, kb |-> kb]
      /\ block' = b
      /\ IF GivenSubsumed(c, b)
         THEN UNCHANGED <<given, active, units, marked>>
         ELSE /\ given' = c
              /\ marked' = marked \cup BackSubsumed(c, b)
              /\ AddActive(c, b)
      /\ UNCHANGED <<env, task>>

\* wr_unify_term on two atoms: the variables stay set while the result is built.
Unify(x, y) ==
  /\ env' = UnifyAux(x, y, env)
  /\ task' = <<x, y>>
  /\ UNCHANGED <<active, units, block, candidate, given, marked, picks>>

\* wr_resolve_binary_all_active: a literal of the given clause and one of an
\* active clause that is not back subsumed.
ActiveLits ==
  units \cup UNION {{active[k].clause.lits[j] : j \in DOMAIN active[k].clause.lits} :
                      k \in {k \in DOMAIN active : active[k].clause \notin marked}}
Resolve(k, l) ==
  /\ task = <<>>
  /\ k.neg # l.neg /\ k.atom.sym = l.atom.sym
  /\ Unify(k.atom, l.atom)

\* wr_factor: two literals of the given clause.
Factor(i, j) ==
  /\ given.rule /\ task = <<>>
  /\ i < j /\ given.lits[i].neg = given.lits[j].neg
  /\ IsComplex(given.lits[i].atom) /\ IsComplex(given.lits[j].atom)
  /\ Unify(given.lits[i].atom, given.lits[j].atom)

\* The result is built, or there is none: wr_clear_varstack.
ClearVars ==
  /\ task # <<>>
  /\ env' = [Clear(env) EXCEPT !.ok = TRUE]
  /\ task' = <<>>
  /\ UNCHANGED <<active, units, block, candidate, given, marked, picks>>

\* All conclusions of the given clause are drawn.
Finish ==
  /\ given # NoClause /\ task = <<>>
  /\ given' = NoClause
  /\ UNCHANGED <<active, units, block, candidate, marked, env, task, picks>>

\* The meta block is a local array that nothing fills before the first pick:
\* it holds what was on the stack, say the block of another clause.
Init ==
  /\ active = <<>> /\ units = {} /\ marked = {}
  /\ block \in {Block(Sort(Stored(lits))) : lits \in Leftover}
  /\ candidate = [clause |-> NoClause, kb |-> FALSE]
  /\ given = NoClause
  /\ env = ClearEnv /\ task = <<>>
  /\ picks = 0

Next ==
  \/ \E lits \in Inputs, kb \in BOOLEAN : Pick(lits, kb)
  \/ \E i \in DOMAIN given.lits : \E l \in ActiveLits : Resolve(given.lits[i], l)
  \/ \E i, j \in DOMAIN given.lits : Factor(i, j)
  \/ ClearVars
  \/ Finish

Spec == Init /\ [][Next]_vars

-----------------------------------------------------------------------------
(* Reference definitions. *)

VarsIn(t) == {Symbols(t)[i] : i \in DOMAIN Symbols(t)} \cap Variables

\* The term with s applied to it once.
RECURSIVE Applied(_, _), Subterms(_), Chased(_, _, _)
Applied(t, s) ==
  IF IsVar(t) THEN IF t.sym \in DOMAIN s THEN s[t.sym] ELSE t
  ELSE [t EXCEPT !.args = [i \in DOMAIN @ |-> Applied(@[i], s)]]
Subterms(t) == {t} \cup UNION {Subterms(t.args[i]) : i \in DOMAIN t.args}

\* c subsumes d: a substitution takes the literals of c to different literals of
\* d, except for answer literals, which may be taken to any answer literal.
Subsumes(c, d, ignoring) ==
  LET exempt(i, j) == ignoring /\ IsAnswer(c[i]) /\ IsAnswer(d[j])
      vs == UNION {VarsIn(c[i].atom) : i \in DOMAIN c}
      ts == UNION {Subterms(d[j].atom) : j \in DOMAIN d}
  IN  \E f \in [DOMAIN c -> DOMAIN d] :
        /\ \A i, j \in DOMAIN c : f[i] = f[j] => i = j
        /\ \A i \in DOMAIN c : c[i].neg = d[f[i]].neg
        /\ \E s \in [vs -> ts] :
             \A i \in DOMAIN c : exempt(i, f[i]) \/ Applied(c[i].atom, s) = d[f[i]].atom

\* No counter of the clause is exactly the largest byte, which becomes 0.
NoFullByte(lits) ==
  Byte \notin {Len(lits), SizeFrom(lits, 1),
               Cardinality({i \in DOMAIN lits : lits[i].neg}),
               Cardinality({i \in DOMAIN lits : Ground(lits[i])})}
    \cup {Depth(lits[i].atom) : i \in DOMAIN lits}
    \cup {Len(Prefix(lits[i].atom)) : i \in DOMAIN lits}

\* A clause that is dropped as subsumed is an instance of an active clause, maybe
\* with more literals (for a single answer, up to its answer literals): no hash,
\* meta or order of literals makes up a subsumer, and nothing that is needed is lost.
DroppedOnlyIfSubsumed(c) ==
  \/ \E j \in DOMAIN c.lits : c.lits[j] \in units
  \/ \E i \in DOMAIN active : Subsumes(active[i].clause.lits, c.lits, TRUE)

\* A clause that is kept is not subsumed by an active one: none of the quick tests
\* (meta blocks, literal metas, the order of literals, the limits on trying other
\* literals again) misses a subsumer, however big the clauses are.  Left out are
\* the cases that the code misses: facts and ground subsumers of other clauses,
\* clauses of a knowledge base, and a clause with a counter of exactly 255.
KeptOnlyIfNew(c) ==
  /\ \A j \in DOMAIN c.lits : c.lits[j] \notin units
  /\ c.rule /\ NoFullByte(c.lits) =>
       \A i \in DOMAIN active :
         LET d == active[i].clause
         IN  /\ active[i].block = Block(d)
             /\ Block(d).ground <= Block(c).ground
             => ~Subsumes(d.lits, c.lits, FALSE)

\* Forward subsumption answers what it should, in whatever state the earlier
\* clauses left the lists and the meta block, and back subsumption marks only
\* active clauses that the given clause subsumes.
SubsumptionExact ==
  [][picks' # picks =>
       LET c == candidate'.clause
       IN  IF given' = NoClause THEN DroppedOnlyIfSubsumed(c)
           ELSE /\ candidate'.kb \/ KeptOnlyIfNew(c)
                /\ \A d \in marked' \ marked : Subsumes(c.lits, d.lits, TRUE)]_vars

\* The term with the bindings of the bank put in again and again, n times.
Chased(t, bank, n) ==
  IF n = 0 THEN t
  ELSE IF IsVar(t)
  THEN IF bank[t.sym] = Unassigned THEN t ELSE Chased(bank[t.sym], bank, n - 1)
  ELSE [t EXCEPT !.args = [i \in DOMAIN @ |-> Chased(@[i], bank, n)]]

\* When two atoms were unified, the bindings make them equal and every unifier in
\* small ground terms satisfies the bindings; when they were not, there is no
\* unifier.  The stack lists the bound variables, each once, and none stays bound
\* into the next inference.
UnifyExact ==
  /\ task # <<>> =>
       LET x == task[1]
           y == task[2]
           vs == VarsIn(x) \cup VarsIn(y)
           unifiers == {s \in [vs -> Instances] : Applied(x, s) = Applied(y, s)}
       IN  IF env.ok
           THEN /\ Chased(x, env.bank, Cardinality(Variables))
                     = Chased(y, env.bank, Cardinality(Variables))
                /\ \A s \in unifiers : \A v \in vs :
                     env.bank[v] # Unassigned => s[v] = Applied(env.bank[v], s)
           ELSE unifiers = {}
  /\ {v \in Variables : env.bank[v] # Unassigned} = {env.stack[i] : i \in DOMAIN env.stack}
  /\ \A i, j \in DOMAIN env.stack : env.stack[i] = env.stack[j] => i = j
  /\ task = <<>> => env = ClearEnv
=============================================================================
