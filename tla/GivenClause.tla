----------------------------- MODULE GivenClause -----------------------------
(***************************************************************************)
(* The search for a proof: wr_genloop of Reasoner/rgenloop.c with what it  *)
(* calls on the given clause and on each clause derived from it, for       *)
(* ground clauses without equality and the plain strategy (resolution on   *)
(* every literal, nothing active at the start).                            *)
(*                                                                         *)
(* A clause is a set of literals: an atom i is the literal i, its negation *)
(* -i, and the numbers of Ans are the $ans literals, which only occur      *)
(* positively.  In this fragment the calculus is what the code does with   *)
(* it, not an arbitrary rule: whether a saturated search means that there  *)
(* is no proof can be checked against the truth tables.                    *)
(***************************************************************************)
EXTENDS Integers, FiniteSets

CONSTANTS
  Atoms,           \* the ground atoms
  Ans,             \* the $ans literals
  InputSets,       \* the sets of input clauses to start from
  RequiredNumbers, \* values of the guide's max_answers
  Arglens          \* initial values of res_arglen_limit: 1 is the strategy unit

ASSUME GCAssumption ==
  /\ Atoms \subseteq Nat \ {0} /\ Ans \subseteq Nat \ {0} /\ Atoms \cap Ans = {}
  /\ IsFiniteSet(Atoms) /\ IsFiniteSet(Ans)
  /\ \A I \in InputSets : \A c \in I :
       c \subseteq Atoms \cup {-a : a \in Atoms} \cup Ans /\ ~(c \subseteq Ans)
  /\ RequiredNumbers \subseteq Nat \ {0}
  /\ Arglens \subseteq Nat

Literals == Atoms \cup {-a : a \in Atoms} \cup Ans
Clauses == SUBSET Literals

VARIABLES
  inputs,     \* the clauses that were read
  required,   \* required_answer_nr
  waiting,    \* clauses with two copies in the pick queues
  again,      \* clauses with one copy left there
  active,     \* clactive: the clauses that were given
  given,      \* the given clause
  todo,       \* the active clauses and literals still to resolve upon with it
  unithash,   \* hash_pos_groundunits and hash_neg_groundunits
  doublehash, \* hash_pos_grounddoubles and hash_neg_grounddoubles
  answers,    \* the clauses of answers
  stored,     \* their number as wr_enough_answers counts them
  spent,    \* passed_ratio: up to 0.7, up to 0.85, up to 0.9, over it
  arglen,     \* res_arglen_limit
  shortlen,   \* res_shortarglen_limit
  endgame,    \* endgame_mode
  counted,    \* stat_given_candidates > 0
  phase,      \* the place in the loop: "top", "pick", "infer" or "end"
  result,     \* what wr_genloop returns, 0: "proof", 1: "exhausted",
              \* 2: "stopped", -1: "memory"; "crash" if it does not return
  limited     \* history: a limit has kept the search from an inference

problem == <<inputs, required>>
store == <<waiting, again, unithash, doublehash>>
found == <<answers, stored>>
limits == <<spent, arglen, shortlen, endgame>>
vars == <<problem, store, active, given, todo, found, limits, counted, phase,
          result, limited>>

-----------------------------------------------------------------------------
\* Clauses.

\* wr_count_cl_nonans_atoms
Length(c) == Cardinality(c \ Ans)

\* A clause that holds always (wr_tautology_cl).
Tautology(c) == \E a \in Atoms : a \in c /\ -a \in c

\* A ground fact: not a rule clause (wr_process_resolve_result_isrulecl).
IsFact(c) == \E l \in Atoms \cup Ans : c = {l}

\* wr_add_cl_to_unithash, wr_add_cl_to_doublehash
Units(c) == IF Cardinality(c) = 1 THEN c ELSE {}
Doubles(c) == IF Cardinality(c) = 2 THEN {c} ELSE {}

\* Mutant: the second literal of the double need not be in the clause.
DoubleCutsLax(c, D) == {l \in c : \E d \in D : -l \in d}

\* wr_atom_doublecut: the literals of c for which there is a double clause with
\* the opposite literal and another literal of c.
DoubleCuts(c, D) == {l \in c : \E m \in c \ {l} : {-l, m} \in D}

\* The literals of c whose opposite is not a unit of the hash.
CutByUnits(c) == {l \in c : -l \notin unithash}

\* What may be left of rest, a part of c, when a literal is doublecut: the first
\* for which it can be done, and no other.
AfterDoubleCut(rest, c) ==
  LET cuts == rest \cap DoubleCuts(c, doublehash) IN
    IF cuts = {} THEN {rest} ELSE {rest \ {l} : l \in cuts}

-----------------------------------------------------------------------------
\* Answers.

\* The clause has no literal to resolve upon left: a proof, or a pure answer
\* (wr_cl_derived_is_answer).
IsAnswer(c) == c \subseteq Ans

\* wr_same_answers reads the type of both clauses, and the clause of a proof
\* without $ans is a null pointer.
ReadsNull(c) == answers # {} /\ (c = {} \/ {} \in answers)

\* How many answers are stored with c.  An answer of several literals is not
\* recognised if its literals are in another order than before.
Count(c) ==
  CASE c \notin answers      -> {stored + 1}
    [] c \in answers /\ Cardinality(c) > 1 -> {stored, stored + 1}
    [] OTHER                 -> {stored}

\* wr_register_answer and wr_enough_answers.  next: the place in the loop to go
\* on from if there are not enough answers yet.
Register(c, next) ==
  /\ answers' = answers \cup {c}
  /\ stored' \in Count(c)
  /\ IF ReadsNull(c) THEN phase' = "end" /\ result' = "crash"
     ELSE IF stored' >= required THEN phase' = "end" /\ result' = "proof"
     ELSE phase' = next /\ UNCHANGED result

-----------------------------------------------------------------------------
\* wr_init_active_passive_lists: the input clauses go to the hashes and to the
\* queues.  Under the limit 1 long clauses are left out of the queues.
Init ==
  /\ inputs \in InputSets
  /\ required \in RequiredNumbers
  /\ arglen \in Arglens
  /\ LET read == {c \in inputs : ~Tautology(c)}
         kept == {c \in read : arglen = 1 => Length(c) <= 1} IN
       /\ waiting = kept
       /\ unithash = UNION {Units(c) : c \in read}
       /\ doublehash = UNION {Doubles(c) : c \in read}
       /\ limited = (kept # read)
  /\ again = {} /\ active = {} /\ given = {} /\ todo = {}
  /\ answers = {} /\ stored = 0
  /\ spent = 0 /\ shortlen = 0 /\ endgame = FALSE
  /\ counted = FALSE
  /\ phase = "top"
  /\ result = "none"

\* The limits of wr_genloop that change with the share of the time used, one at
\* each turn of the loop.
Tighten(q) ==
  CASE q = 3 /\ ~endgame -> arglen' = 1 /\ endgame' = TRUE /\ UNCHANGED shortlen
    [] q \in {2, 3} /\ (q = 3 => endgame) /\ shortlen # 1
         -> shortlen' = 1 /\ UNCHANGED <<arglen, endgame>>
    [] q = 1 /\ shortlen = 0 -> shortlen' = 2 /\ UNCHANGED <<arglen, endgame>>
    [] OTHER -> UNCHANGED <<arglen, shortlen, endgame>>

\* The head of the loop, while there is time.
CheckTime ==
  /\ phase = "top"
  /\ \E q \in spent..3 : spent' = q /\ Tighten(q)
  /\ phase' = "pick"
  /\ UNCHANGED <<problem, store, active, given, todo, found, counted, result, limited>>

\* The time is over: at the head of the loop, or in the middle of the
\* resolutions, which leave the loop over the active clauses then.
TimeOut ==
  /\ phase \in {"top", "infer"}
  /\ phase' = "end"
  /\ result' = "stopped"
  /\ todo' = {}
  /\ UNCHANGED <<problem, store, active, given, found, limits, counted, limited>>

\* alloc_err is set: the loops over the active clauses and wr_genloop return.
OutOfMemory ==
  /\ phase \in {"pick", "infer"}
  /\ phase' = "end"
  /\ result' = "memory"
  /\ todo' = {}
  /\ UNCHANGED <<problem, store, active, given, found, limits, counted, limited>>

\* The queues are empty.
NothingToPick ==
  /\ phase = "pick"
  /\ waiting \cup again = {}
  /\ phase' = "end"
  /\ result' = IF counted THEN "exhausted" ELSE IF answers # {} THEN "proof" ELSE "stopped"
  /\ UNCHANGED <<problem, store, active, given, todo, found, limits, counted, limited>>

-----------------------------------------------------------------------------
\* A candidate.

\* Mutant: the second copy is left in the queues.
TakeCopyKeeping(c) ==
  /\ c \in waiting \cup again
  /\ waiting' = waiting \ {c}
  /\ again' = again \cup {c}

\* The queues give c: a copy of it is left if it is the first pick.
TakeCopy(c) ==
  /\ c \in waiting \cup again
  /\ waiting' = waiting \ {c}
  /\ again' = IF c \in waiting THEN again \cup {c} ELSE again \ {c}

TooLong(c) == (arglen # 0 /\ ~IsFact(c) /\ Length(c) > arglen) \/ (endgame /\ Length(c) > 1)

\* Mutant: units are subsumed too.
SubsumedByAnyUnit(c) == c \cap unithash # {}

\* wr_atom_cut_and_subsume: a unit of the hash is a literal of c.  Not for units:
\* each finds itself there.
SubsumedByUnit(c) == Cardinality(c) > 1 /\ c \cap unithash # {}

\* wr_simplify_cl: what is left of c.
Simplified(c) == IF IsFact(c) THEN {c} ELSE AfterDoubleCut(CutByUnits(c), c)

\* wr_given_cl_subsumed
SubsumedByActive(c) == \E d \in active : d \subseteq c

\* If one answer is enough, wr_subsume_cl lets each $ans literal of d match any
\* one of c; but then the bits of wr_clmetablock_can_subsume may tell the
\* clauses apart before it is asked.
MayBeSubsumed(c) ==
  \/ SubsumedByActive(c)
  \/ /\ required = 1
     /\ \E d \in active : /\ d \ Ans \subseteq c
                        /\ Cardinality(d \cap Ans) <= Cardinality(c \cap Ans)

\* The limits under which given x is not resolved with y.
Skips(x, y) ==
  \/ arglen # 0 /\ Length(y) > arglen
  \/ shortlen # 0 /\ Length(x) > shortlen /\ Length(y) > shortlen

\* A limit on the length excludes c.
SkipLong(c) ==
  /\ TooLong(c)
  /\ phase' = "top"
  /\ limited' = TRUE
  /\ UNCHANGED <<active, given, todo, doublehash, found, counted, result>>

\* c turns out to be of no use, before or after it is simplified to s.
Discard(c, s) ==
  /\ ~TooLong(c)
  /\ \/ SubsumedByUnit(c)
     \/ ~IsAnswer(s) /\ ~endgame /\ MayBeSubsumed(s)
  /\ counted' = TRUE
  /\ phase' = "top"
  /\ UNCHANGED <<active, given, todo, doublehash, found, result, limited>>

\* c is cut down to nothing or to a pure answer.
Conclude(c, s) ==
  /\ ~TooLong(c) /\ ~SubsumedByUnit(c)
  /\ IsAnswer(s)
  /\ counted' = TRUE
  /\ Register(s, "top")
  /\ UNCHANGED <<active, given, todo, doublehash, limited>>

\* c, simplified to s, becomes the given clause: wr_add_given_cl_active_list,
\* then the loops over the active clauses, s among them.
Activate(c, s) ==
  /\ ~TooLong(c) /\ ~SubsumedByUnit(c)
  /\ ~IsAnswer(s)
  /\ endgame \/ ~SubsumedByActive(s)
  /\ counted' = TRUE
  /\ given' = s
  /\ active' = active \cup {s}
  /\ doublehash' = IF s # c THEN doublehash \cup Doubles(s) ELSE doublehash
  /\ LET all == {p \in active' \X s : -p[2] \in p[1]} IN
       /\ todo' = {p \in all : ~Skips(s, p[1])}
       /\ limited' = (limited \/ todo' # all)
  /\ phase' = "infer"
  /\ UNCHANGED <<found, result>>

Candidate ==
  /\ phase = "pick"
  /\ \E c \in waiting \cup again :
       /\ TakeCopy(c)
       /\ \/ SkipLong(c)
          \/ \E s \in Simplified(c) : Discard(c, s) \/ Conclude(c, s) \/ Activate(c, s)
  /\ UNCHANGED <<problem, unithash, limits>>

-----------------------------------------------------------------------------
\* The inferences: wr_resolve_binary_all_active with wr_process_resolve_result.

Resolvent(d, l) == (given \ {l}) \cup (d \ {-l})

\* A tautology, or a unit of the hash is a literal of r.
Useless(r) == Tautology(r) \/ r \cap unithash # {}

\* What is left of the derived clause r when literals are cut.
CutDown(r) == AfterDoubleCut(CutByUnits(r), CutByUnits(r))

\* Mutant: the clause is put into the hash before the limits are tested.
OverweightHashed(s) ==
  /\ ~IsAnswer(s)
  /\ limited' = TRUE
  /\ unithash' = unithash \cup Units(s)
  /\ UNCHANGED <<phase, result, found, waiting, again, doublehash>>

\* The derived clause, cut down to s, is over the limits of
\* wr_derived_weight_check.
Overweight(s) ==
  /\ ~IsAnswer(s)
  /\ limited' = TRUE
  /\ UNCHANGED <<phase, result, found, store>>

\* It is pushed.  In the last part of the time nothing is.
Keep(s) ==
  /\ ~IsAnswer(s)
  /\ spent < 3
  /\ unithash' = unithash \cup Units(s)
  /\ doublehash' = doublehash \cup Doubles(s)
  /\ waiting' = waiting \cup {s}
  /\ again' = again \ {s}
  /\ UNCHANGED <<phase, result, found, limited>>

\* It is a proof or a pure answer.
Answer(s) ==
  /\ IsAnswer(s)
  /\ Register(s, "infer")
  /\ UNCHANGED <<store, limited>>

Infer ==
  /\ phase = "infer"
  /\ \E p \in todo :
       /\ LET r == Resolvent(p[1], p[2]) IN
            IF Useless(r)
            THEN UNCHANGED <<phase, result, found, store, limited>>
            ELSE \E s \in CutDown(r) : Overweight(s) \/ Keep(s) \/ Answer(s)
       /\ todo' = IF phase' = "infer" THEN todo \ {p} ELSE {}
  /\ UNCHANGED <<problem, active, given, limits, counted>>

\* All inferences with the given clause are made.
NextTurn ==
  /\ phase = "infer" /\ todo = {}
  /\ phase' = "top"
  /\ UNCHANGED <<problem, store, active, given, todo, found, limits, counted, result, limited>>

Next ==
  CheckTime \/ TimeOut \/ OutOfMemory \/ NothingToPick \/ Candidate \/ Infer \/ NextTurn

Spec == Init /\ [][Next]_vars

\* Fairness: the loop goes on.  No time limit is needed for it to end.
FairSpec == Spec /\ WF_vars(CheckTime \/ NothingToPick \/ Candidate \/ Infer \/ NextTurn)

-----------------------------------------------------------------------------
\* Properties.

\* An interpretation is the set of the atoms and $ans literals that hold.
Satisfies(M, c) == \E l \in c : IF l > 0 THEN l \in M ELSE -l \notin M

\* c holds wherever every clause of I does.
Entails(I, c) ==
  \A M \in SUBSET (Atoms \cup Ans) : (\A d \in I : Satisfies(M, d)) => Satisfies(M, c)

TypeOK ==
  /\ inputs \in InputSets /\ required \in RequiredNumbers
  /\ waiting \subseteq Clauses /\ again \subseteq Clauses
  /\ active \subseteq Clauses \ {{}} /\ given \in Clauses
  /\ \A p \in todo : p[1] \in active /\ p[2] \in given
  /\ phase # "infer" => todo = {}
  /\ unithash \subseteq Literals
  /\ \A d \in doublehash : d \in Clauses /\ Cardinality(d) = 2
  /\ answers \subseteq SUBSET Ans /\ stored \in 0..required + 1
  /\ spent \in 0..3 /\ shortlen \in 0..2 /\ arglen \in Arglens \cup {1}
  /\ endgame \in BOOLEAN /\ counted \in BOOLEAN /\ limited \in BOOLEAN
  /\ phase \in {"top", "pick", "infer", "end"}
  /\ (phase = "end") = (result # "none")

\* What the search prints as an answer follows from the input clauses, through
\* all cuts, subsumptions and limits: a proof for a pure refutation, and the
\* disjunction of its instances for an answer.
AnswersFollow == \A c \in answers : Entails(inputs, c)

\* When the queues run dry and no limit has kept an inference from being made,
\* every answer that follows has been found, although each clause was dropped
\* on the word of another one that might be dropped as well.
AnswersComplete ==
  result = "exhausted" /\ ~limited =>
    \A c \in SUBSET Ans : Entails(inputs, c) => \E d \in answers : d \subseteq c

\* A unit that the hash holds, on whose word clauses are dropped and literals
\* cut, is itself still in play: active, or ahead in the queues, or it has led
\* to a proof.
UnitsInPlay ==
  \A l \in unithash : \E d \in active \cup waiting \cup answers : d \subseteq {l}

\* The loop ends on ground clauses, without a time limit: what is derived again
\* and again is not given again and again.
EventuallyEnds == <>(phase = "end")
=============================================================================
