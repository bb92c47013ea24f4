-------------------------- MODULE GivenClauseProofs --------------------------
(***************************************************************************)
(* Proofs about GivenClause, for any finite sets of atoms and $ans         *)
(* literals, any input clauses, any limits and any number of wanted        *)
(* answers: the search is sound, a unit it relies on is in play, and an    *)
(* exhausted search that no limit has cut short is complete.               *)
(*                                                                         *)
(* The argument for soundness is that every clause the search stores       *)
(* anywhere follows from the input.  It rests on three facts about         *)
(* clauses: a resolvent follows from its parents, a literal whose opposite *)
(* is a unit that follows can be cut, and so can the literal of a double   *)
(* cut, although the other literal of the double may have been cut from    *)
(* the clause before.                                                      *)
(*                                                                         *)
(* The argument for completeness is that every input clause and every      *)
(* resolvent of two active clauses is covered: a clause that is active,    *)
(* still waits, or was registered as an answer is a part of it.  At the    *)
(* end the active clauses are saturated up to such parts, and saturated    *)
(* clauses have a model in which all unwanted literals are false           *)
(* (ModelOfSaturated), unless an answer was found.                         *)
(***************************************************************************)
EXTENDS GivenClause, FiniteSetTheorems, WellFoundedInduction, TLAPS

\* A literal is a number that has a sign, and so is its opposite.
LEMMA Signs ==
  ASSUME NEW l \in Literals
  PROVE  /\ l \in Int /\ l # 0 /\ -l \in Int /\ -(-l) = l
         /\ l \in Ans => l > 0
         /\ -l > 0 <=> ~(l > 0)
BY GCAssumption DEF Literals

\* Clauses are finite.
LEMMA FiniteClauses ==
  ASSUME NEW c \in Clauses
  PROVE  IsFiniteSet(c) /\ Cardinality(c) \in Nat
<1> DEFINE Negative == {-a : a \in Atoms}
           neg == [a \in Atoms |-> -a]
<1>1. IsFiniteSet(Negative)
  <2>1. neg \in Surjection(Atoms, Negative)
    BY GCAssumption DEF Surjection
  <2>2. QED
    BY <2>1, FS_Surjection, GCAssumption
<1>2. IsFiniteSet(Literals)
  BY <1>1, FS_Union, GCAssumption DEF Literals
<1>3. QED
  BY <1>2, FS_Subset, FS_CardinalityType DEF Clauses

-----------------------------------------------------------------------------
\* What follows from the input.

Holds(M, l) == IF l > 0 THEN l \in M ELSE -l \notin M

\* The interpretations in which the input clauses hold.
Models == {M \in SUBSET (Atoms \cup Ans) : \A d \in inputs : Satisfies(M, d)}

\* Entailment, model by model and literal by literal.
LEMMA ByModels ==
  ASSUME NEW c
  PROVE  Entails(inputs, c) <=> \A M \in Models : \E l \in c : Holds(M, l)
BY DEF Entails, Models, Satisfies, Holds

LEMMA Opposites ==
  ASSUME NEW M, NEW l \in Literals
  PROVE  Holds(M, -l) <=> ~Holds(M, l)
BY Signs DEF Holds

\* The units and doubles of the hashes follow.
HashesFollow ==
  /\ unithash \subseteq Literals
  /\ \A l \in unithash : Entails(inputs, {l})
  /\ \A d \in doublehash : Entails(inputs, d)

\* A literal whose opposite is a unit holds in no model.
LEMMA CutLiteral ==
  ASSUME HashesFollow, NEW c \in Clauses, NEW l \in c, -l \in unithash, NEW M \in Models
  PROVE  ~Holds(M, l)
<1>1. l \in Literals
  BY DEF Clauses
<1>2. Entails(inputs, {-l})
  BY DEF HashesFollow
<1>3. \E k \in {-l} : Holds(M, k)
  BY <1>2, ByModels
<1>4. QED
  BY <1>1, <1>3, Opposites

\* What wr_simplify_cl and wr_process_resolve_result leave of a clause that follows,
\* follows.
LEMMA CutsFollow ==
  ASSUME HashesFollow, NEW c \in Clauses, Entails(inputs, c),
         NEW s \in AfterDoubleCut(CutByUnits(c), c)
  PROVE  s \subseteq c /\ Entails(inputs, s)
<1> DEFINE rest == CutByUnits(c)
<1>1. ASSUME NEW M \in Models
      PROVE  \E l \in rest : Holds(M, l)
  <2>1. PICK l \in c : Holds(M, l)
    BY ByModels
  <2>2. -l \notin unithash
    BY <2>1, CutLiteral
  <2>3. QED
    BY <2>1, <2>2 DEF CutByUnits
<1>2. rest \subseteq c /\ Entails(inputs, rest)
  BY <1>1, ByModels DEF CutByUnits
<1>3. CASE s = rest
  BY <1>2, <1>3
<1>4. ASSUME NEW l \in rest \cap DoubleCuts(c, doublehash), s = rest \ {l}
      PROVE  s \subseteq c /\ Entails(inputs, s)
  <2>1. PICK m \in c \ {l} : {-l, m} \in doublehash
    BY DEF DoubleCuts
  <2>2. ASSUME NEW M \in Models
        PROVE  \E k \in s : Holds(M, k)
    <3>1. PICK k \in rest : Holds(M, k)
      BY <1>1
    <3>2. CASE k # l
      BY <1>4, <3>1, <3>2
    <3>3. CASE k = l
      <4>1. l \in Literals
        BY <1>2 DEF Clauses
      <4>2. \E x \in {-l, m} : Holds(M, x)
        BY <2>1, ByModels DEF HashesFollow
      <4>3. Holds(M, m)
        BY <3>1, <3>3, <4>1, <4>2, Opposites
      <4>4. -m \notin unithash
        BY <2>1, <4>3, CutLiteral
      <4>5. m \in rest
        BY <2>1, <4>4 DEF CutByUnits
      <4>6. QED
        BY <1>4, <2>1, <4>3, <4>5
    <3>4. QED
      BY <3>2, <3>3
  <2>3. QED
    BY <1>2, <1>4, <2>2, ByModels
<1>5. QED
  BY <1>3, <1>4 DEF AfterDoubleCut

\* A resolvent follows from its parents (if the opposite of the literal is not in d,
\* it holds d).
LEMMA ResolventFollows ==
  ASSUME NEW c \in Clauses, NEW d \in Clauses, Entails(inputs, c), Entails(inputs, d),
         given = c, NEW l \in c
  PROVE  Resolvent(d, l) \in Clauses /\ Entails(inputs, Resolvent(d, l))
<1>1. Resolvent(d, l) = (c \ {l}) \cup (d \ {-l})
  BY DEF Resolvent
<1>2. ASSUME NEW M \in Models
      PROVE  \E k \in Resolvent(d, l) : Holds(M, k)
  <2>1. PICK k \in c : Holds(M, k)
    BY ByModels
  <2>2. PICK j \in d : Holds(M, j)
    BY ByModels
  <2>3. ~(k = l /\ j = -l)
    BY <2>1, <2>2, Opposites DEF Clauses
  <2>4. QED
    BY <1>1, <2>1, <2>2, <2>3
<1>3. QED
  BY <1>1, <1>2, ByModels DEF Clauses

\* Literals are cut from a derived clause one pass after the other; a second pass
\* over what the units leave finds nothing to cut by units.
LEMMA CutDownFollows ==
  ASSUME HashesFollow, NEW c \in Clauses, Entails(inputs, c), NEW s \in CutDown(c)
  PROVE  s \subseteq c /\ Entails(inputs, s)
<1> DEFINE rest == CutByUnits(c)
<1>1. rest \subseteq c /\ CutByUnits(rest) = rest /\ rest \in Clauses
  BY DEF CutByUnits, Clauses
<1>2. Entails(inputs, rest)
  <2>1. ASSUME NEW M \in Models
        PROVE  \E l \in rest : Holds(M, l)
    <3>1. PICK l \in c : Holds(M, l)
      BY ByModels
    <3>2. -l \notin unithash
      BY <3>1, CutLiteral
    <3>3. QED
      BY <3>1, <3>2 DEF CutByUnits
  <2>2. QED
    BY <2>1, ByModels
<1>3. s \in AfterDoubleCut(CutByUnits(rest), rest)
  BY <1>1 DEF CutDown
<1> HIDE DEF rest
<1>4. QED
  BY <1>1, <1>2, <1>3, CutsFollow

\* The same of what wr_simplify_cl leaves of a candidate.
LEMMA SimplifiedFollows ==
  ASSUME HashesFollow, NEW c \in Clauses, Entails(inputs, c), NEW s \in Simplified(c)
  PROVE  s \subseteq c /\ Entails(inputs, s)
BY CutsFollow DEF Simplified

-----------------------------------------------------------------------------
\* The inductive invariant.

Data ==
  /\ waiting \subseteq Clauses /\ again \subseteq Clauses
  /\ active \subseteq Clauses \ {{}} /\ given \in Clauses
  /\ unithash \subseteq Literals
  /\ \A d \in doublehash : d \in Clauses /\ Cardinality(d) = 2
  /\ answers \subseteq SUBSET Ans

Numbers ==
  /\ inputs \in InputSets /\ required \in RequiredNumbers
  /\ stored \in 0..required + 1
  /\ spent \in 0..3 /\ shortlen \in 0..2 /\ arglen \in Arglens \cup {1}

Flags == endgame \in BOOLEAN /\ counted \in BOOLEAN /\ limited \in BOOLEAN

Place ==
  /\ \A p \in todo : p[1] \in active /\ p[2] \in given
  /\ phase # "infer" => todo = {}
  /\ phase \in {"top", "pick", "infer", "end"}
  /\ (phase = "end") = (result # "none")

\* The type invariant in parts.
LEMMA TypeParts == TypeOK <=> Data /\ Numbers /\ Flags /\ Place
BY DEF TypeOK, Data, Numbers, Flags, Place

\* Nothing but answers is without a literal to resolve upon, and there are never
\* enough answers while the search goes on.
Typing ==
  /\ Data /\ Numbers /\ Flags /\ Place
  /\ \A c \in waiting \cup again : ~(c \subseteq Ans)
  /\ phase # "end" => stored < required

\* Every clause the search stores follows from the input.
Sound ==
  /\ HashesFollow
  /\ \A c \in waiting \cup again \cup active : Entails(inputs, c)
  /\ AnswersFollow
  /\ given \in active \cup {{}}

IInv == Typing /\ Sound /\ UnitsInPlay

\* The limits are numbers.
LEMMA Limits ==
  ASSUME Typing
  PROVE  /\ required \in Nat /\ required > 0 /\ stored \in Nat
         /\ arglen \in Nat /\ spent \in Nat
BY GCAssumption DEF Typing, Numbers

\* A unit clause, as the hash sees it.
LEMMA UnitClauses ==
  ASSUME NEW c \in Clauses, NEW l \in Units(c)
  PROVE  c = {l} /\ l \in Literals
<1>1. Cardinality(c) = 1 /\ l \in c
  BY DEF Units
<1>2. PICK x : c = {x}
  BY <1>1, FiniteClauses, FS_Singleton
<1>3. QED
  BY <1>1, <1>2 DEF Clauses

\* What goes into the hashes follows.
LEMMA HashesGrow ==
  ASSUME HashesFollow, NEW s \in Clauses, Entails(inputs, s), inputs' = inputs,
         unithash' \in {unithash, unithash \cup Units(s)},
         doublehash' \in {doublehash, doublehash \cup Doubles(s)}
  PROVE  HashesFollow'
<1>1. \A c : Entails(inputs, c)' <=> Entails(inputs, c)
  BY DEF Entails, Satisfies
<1>2. \A l \in Units(s) : l \in Literals /\ Entails(inputs, {l})
  BY UnitClauses
<1>3. \A d \in Doubles(s) : Entails(inputs, d)
  BY DEF Doubles
<1>4. QED
  BY <1>1, <1>2, <1>3 DEF HashesFollow

LEMMA InitInv == Init => IInv
<1> SUFFICES ASSUME Init PROVE IInv
  OBVIOUS
<1> DEFINE read == {c \in inputs : ~Tautology(c)}
           kept == {c \in read : arglen = 1 => Length(c) <= 1}
<1>1. /\ inputs \in InputSets /\ required \in RequiredNumbers /\ arglen \in Arglens
      /\ waiting = kept /\ unithash = UNION {Units(c) : c \in read}
      /\ doublehash = UNION {Doubles(c) : c \in read}
      /\ again = {} /\ active = {} /\ given = {} /\ todo = {} /\ answers = {} /\ stored = 0
      /\ phase = "top" /\ result = "none" /\ limited = (kept # read)
  BY DEF Init
<1>2. \A c \in inputs : c \in Clauses /\ ~(c \subseteq Ans) /\ Entails(inputs, c)
  <2>1. \A c \in inputs : c \in Clauses /\ ~(c \subseteq Ans)
    BY <1>1, GCAssumption DEF Clauses, Literals
  <2>2. QED
    BY <2>1 DEF Entails
<1>3. \A c \in inputs : \A l \in Units(c) : c = {l} /\ l \in Literals
  BY <1>2, UnitClauses
<1>4. \A c \in inputs : \A d \in Doubles(c) : d = c /\ Cardinality(d) = 2
  BY DEF Doubles
<1>5. Typing
  <2>1. required \in Nat /\ required > 0
    BY <1>1, GCAssumption
  <2>2. /\ unithash \subseteq Literals
        /\ \A d \in doublehash : d \in Clauses /\ Cardinality(d) = 2
    BY <1>1, <1>2, <1>3, <1>4
  <2>3. waiting \subseteq Clauses /\ \A c \in waiting \cup again : ~(c \subseteq Ans)
    BY <1>1, <1>2
  <2>4. Data
    BY <1>1, <2>2, <2>3 DEF Data, Clauses
  <2>5. Numbers
    BY <1>1, <2>1 DEF Init, Numbers
  <2>6. Flags
    BY <1>1 DEF Init, Flags
  <2>7. Place
    BY <1>1 DEF Place
  <2>8. QED
    BY <1>1, <2>1, <2>3, <2>4, <2>5, <2>6, <2>7 DEF Typing
<1>6. Sound
  <2>1. HashesFollow
    <3>1. ASSUME NEW l \in unithash
          PROVE  l \in Literals /\ Entails(inputs, {l})
      <4>1. PICK c \in inputs : l \in Units(c)
        BY <1>1, <3>1
      <4>2. c = {l} /\ l \in Literals
        BY <1>3, <4>1
      <4>3. QED
        BY <1>2, <4>2
    <3>2. ASSUME NEW d \in doublehash
          PROVE  Entails(inputs, d)
      <4>1. PICK c \in inputs : d \in Doubles(c)
        BY <1>1, <3>2
      <4>2. QED
        BY <1>2, <1>4, <4>1
    <3>3. QED
      BY <3>1, <3>2 DEF HashesFollow
  <2>2. QED
    BY <1>1, <1>2, <2>1 DEF Sound, AnswersFollow
<1>7. UnitsInPlay
  <2>1. SUFFICES ASSUME NEW l \in unithash PROVE \E d \in waiting : d \subseteq {l}
    BY DEF UnitsInPlay
  <2>2. PICK c \in read : l \in Units(c)
    BY <1>1
  <2>3. c = {l} /\ c \in Clauses
    BY <1>2, <1>3, <2>2
  <2>4. Length(c) <= 1
    <3>1. Cardinality(c) = 1 /\ Cardinality(c \ Ans) <= Cardinality(c)
      BY <2>3, FS_Singleton, FS_Subset
    <3>2. c \ Ans \in Clauses
      BY <2>3 DEF Clauses
    <3>3. QED
      BY <3>1, <3>2, FiniteClauses DEF Length
  <2>5. QED
    BY <1>1, <2>2, <2>3, <2>4
<1>8. QED
  BY <1>5, <1>6, <1>7 DEF IInv

\* A step that adds no clause.
LEMMA NothingAdded ==
  ASSUME IInv, UNCHANGED <<problem, store, active, given, found>>
  PROVE  Sound' /\ UnitsInPlay'
<1>1. \A c : Entails(inputs, c)' <=> Entails(inputs, c)
  BY DEF Entails, Satisfies, problem
<1>2. QED
  BY <1>1 DEF IInv, Sound, HashesFollow, AnswersFollow, UnitsInPlay, problem, store, found

\* The head of the loop, and the ways out of it.
LEMMA LoopInv ==
  ASSUME IInv, CheckTime \/ TimeOut \/ OutOfMemory \/ NothingToPick \/ NextTurn
  PROVE  IInv'
<1>1. UNCHANGED <<problem, store, active, given, found, limited>>
  BY DEF CheckTime, TimeOut, OutOfMemory, NothingToPick, NextTurn
<1>2. Sound' /\ UnitsInPlay'
  BY <1>1, NothingAdded
<1>3. Data' /\ (\A c \in waiting' \cup again' : ~(c \subseteq Ans))
  BY <1>1 DEF IInv, Typing, Data, store, found
<1>4. CASE CheckTime
  <2>1. PICK q \in spent..3 : spent' = q /\ Tighten(q)
    BY <1>4 DEF CheckTime
  <2>2. spent' \in 0..3
    BY <2>1 DEF IInv, Typing, Numbers
  <2>3. /\ arglen' \in {arglen, 1} /\ shortlen' \in {shortlen, 1, 2}
        /\ endgame' = endgame \/ endgame' = TRUE
    <3>1. CASE q = 3 /\ ~endgame
      BY <2>1, <3>1 DEF Tighten
    <3>2. CASE q \in {2, 3} /\ (q = 3 => endgame) /\ shortlen # 1
      BY <2>1, <3>2 DEF Tighten
    <3>3. CASE q = 1 /\ shortlen = 0
      BY <2>1, <3>3 DEF Tighten
    <3>4. CASE /\ ~(q = 3 /\ ~endgame)
               /\ ~(q \in {2, 3} /\ (q = 3 => endgame) /\ shortlen # 1)
               /\ ~(q = 1 /\ shortlen = 0)
      BY <2>1, <3>4 DEF Tighten
    <3>5. QED
      BY <3>1, <3>2, <3>3, <3>4
  <2>4. Numbers'
    BY <1>1, <2>2, <2>3 DEF IInv, Typing, Numbers, problem, found
  <2>5. Flags'
    BY <1>1, <1>4, <2>3 DEF CheckTime, IInv, Typing, Flags
  <2>6. Place'
    BY <1>4 DEF CheckTime, IInv, Typing, Place
  <2>7. phase # "end" /\ stored' = stored /\ required' = required
    BY <1>1, <1>4 DEF CheckTime, found, problem
  <2>8. QED
    BY <1>2, <1>3, <2>4, <2>5, <2>6, <2>7 DEF IInv, Typing
<1>5. CASE TimeOut \/ OutOfMemory \/ NothingToPick \/ NextTurn
  <2>1. Numbers' /\ Flags'
    BY <1>1, <1>5 DEF TimeOut, OutOfMemory, NothingToPick, NextTurn, IInv, Typing, Numbers, Flags,
                      problem, found, limits
  <2>2. Place' /\ (phase' # "end" => phase # "end")
    <3>1. CASE NextTurn
      BY <3>1 DEF NextTurn, IInv, Typing, Place
    <3>2. CASE TimeOut \/ OutOfMemory \/ NothingToPick
      <4>1. phase' = "end" /\ result' # "none" /\ todo' = {}
        BY <3>2 DEF TimeOut, OutOfMemory, NothingToPick, IInv, Typing, Place
      <4>2. QED
        BY <4>1 DEF Place
    <3>3. QED
      BY <1>5, <3>1, <3>2
  <2>3. stored' = stored /\ required' = required
    BY <1>1 DEF found, problem
  <2>4. QED
    BY <1>2, <1>3, <2>1, <2>2, <2>3 DEF IInv, Typing
<1>6. QED
  BY <1>4, <1>5

\* A proof or a pure answer is registered.
LEMMA Registering ==
  ASSUME IInv, NEW c \in SUBSET Ans, Entails(inputs, c), inputs' = inputs, required' = required,
         phase # "end", NEW next \in {"top", "infer"}, Register(c, next)
  PROVE  /\ answers' = answers \cup {c} /\ answers' \subseteq SUBSET Ans
         /\ AnswersFollow'
         /\ stored' \in 0..(required + 1)
         /\ phase' \in {next, "end"} /\ (phase' = "end") = (result' # "none")
         /\ phase' # "end" => stored' < required
<1>1. answers' = answers \cup {c} /\ stored' \in {stored, stored + 1}
  BY DEF Register, Count
<1>2. \A d : Entails(inputs, d)' <=> Entails(inputs, d)
  BY DEF Entails, Satisfies
<1>3. AnswersFollow'
  BY <1>1, <1>2 DEF AnswersFollow, IInv, Sound
<1>4. stored \in Nat /\ stored < required /\ required \in Nat /\ result = "none"
  BY Limits DEF IInv, Typing, Place
<1>5. stored' \in 0..(required + 1)
  BY <1>1, <1>4
<1>6. /\ phase' \in {next, "end"} /\ (phase' = "end") = (result' # "none")
      /\ phase' # "end" => stored' < required
  BY <1>4, <1>5 DEF Register
<1>7. QED
  BY <1>1, <1>3, <1>5, <1>6 DEF IInv, Typing, Data

-----------------------------------------------------------------------------
\* A candidate.

\* A unit clause is neither too long nor cut nor subsumed but by itself.
LEMMA UnitCandidate ==
  ASSUME Typing, NEW l \in Literals, l \notin Ans
  PROVE  /\ ~TooLong({l}) /\ ~SubsumedByUnit({l})
         /\ \A s \in Simplified({l}) : s \subseteq {l}
         /\ MayBeSubsumed({l}) => \E d \in active : d \subseteq {l}
<1>1. /\ {l} \ Ans = {l} /\ {l} \cap Ans = {}
      /\ Cardinality({l}) = 1 /\ Cardinality({}) = 0
  BY FS_Singleton, FS_EmptySet
<1>2. ~TooLong({l}) /\ ~SubsumedByUnit({l})
  BY <1>1, Limits DEF TooLong, Length, SubsumedByUnit
<1>3. \A s \in Simplified({l}) : s \subseteq {l}
  BY DEF Simplified, AfterDoubleCut, CutByUnits
<1>4. ASSUME NEW d \in active, d \ Ans \subseteq {l},
             Cardinality(d \cap Ans) <= Cardinality({l} \cap Ans)
      PROVE  d \subseteq {l}
  <2>1. d \cap Ans \in Clauses
    BY DEF Typing, Data, Clauses
  <2>2. Cardinality(d \cap Ans) = 0
    BY <1>1, <1>4, <2>1, FiniteClauses
  <2>3. d \cap Ans = {}
    BY <2>1, <2>2, FiniteClauses, FS_EmptySet
  <2>4. QED
    BY <1>4, <2>3
<1>5. MayBeSubsumed({l}) => \E d \in active : d \subseteq {l}
  BY <1>4 DEF MayBeSubsumed, SubsumedByActive
<1>6. QED
  BY <1>2, <1>3, <1>5

\* A copy of the candidate is taken.  If it is a unit of the hash, whatever becomes
\* of it is put in its place.
LEMMA Taking ==
  ASSUME IInv, NEW c \in waiting \cup again, TakeCopy(c), inputs' = inputs, unithash' = unithash,
         active \subseteq active', answers \subseteq answers',
         \A l \in Literals : c = {l} => \E d \in active' \cup answers' : d \subseteq {l}
  PROVE  /\ waiting' \cup again' \subseteq waiting \cup again
         /\ UnitsInPlay'
<1>1. waiting' = waiting \ {c} /\ waiting' \cup again' \subseteq waiting \cup again
  BY DEF TakeCopy
<1>2. ASSUME NEW l \in unithash
      PROVE  \E d \in active' \cup waiting' \cup answers' : d \subseteq {l}
  <2>1. PICK d \in active \cup waiting \cup answers : d \subseteq {l}
    BY DEF IInv, UnitsInPlay
  <2>2. CASE d = c
    <3>1. c # {}
      BY DEF IInv, Typing
    <3>2. c = {l} /\ l \in Literals
      BY <2>1, <2>2, <3>1 DEF IInv, Typing, Data
    <3>3. QED
      BY <3>2
  <2>3. CASE d # c
    BY <1>1, <2>1, <2>3
  <2>4. QED
    BY <2>2, <2>3
<1>3. QED
  BY <1>1, <1>2 DEF UnitsInPlay

\* Whatever becomes of a candidate: too long, subsumed, an answer, or the given clause.
LEMMA CandidateInv ==
  ASSUME IInv, Candidate
  PROVE  IInv'
<1>1. PICK c \in waiting \cup again :
        /\ TakeCopy(c)
        /\ \/ SkipLong(c)
           \/ \E s \in Simplified(c) : Discard(c, s) \/ Conclude(c, s) \/ Activate(c, s)
  BY DEF Candidate
<1>2. /\ phase = "pick" /\ result = "none" /\ todo = {}
      /\ UNCHANGED <<inputs, required, unithash, spent, arglen, shortlen, endgame>>
  BY DEF Candidate, IInv, Typing, Place, problem, limits
<1>3. /\ c \in Clauses /\ Entails(inputs, c) /\ ~(c \subseteq Ans) /\ HashesFollow
      /\ stored < required
  BY <1>2 DEF IInv, Typing, Data, Sound
<1>4. waiting' \cup again' \subseteq waiting \cup again
  BY <1>1 DEF TakeCopy
<1>5. /\ waiting' \subseteq Clauses /\ again' \subseteq Clauses
      /\ \A d \in waiting' \cup again' : ~(d \subseteq Ans) /\ Entails(inputs, d)
  BY <1>4 DEF IInv, Typing, Data, Sound
<1>6. \A d : Entails(inputs, d)' <=> Entails(inputs, d)
  BY <1>2 DEF Entails, Satisfies
<1>7. \A l \in Literals : c = {l} => ~TooLong(c) /\ ~SubsumedByUnit(c) /\ l \notin Ans
  BY <1>3, UnitCandidate DEF IInv
<1>8. CASE SkipLong(c)
  <2>1. /\ UNCHANGED <<active, given, todo, doublehash, answers, stored, counted, result>>
        /\ phase' = "top" /\ limited' = TRUE /\ \A l \in Literals : c # {l}
    BY <1>7, <1>8 DEF SkipLong, found
  <2>2. Data' /\ Numbers'
    BY <1>2, <1>5, <2>1 DEF IInv, Typing, Data, Numbers
  <2>3. Flags' /\ Place'
    BY <1>2, <2>1 DEF IInv, Typing, Flags, Place
  <2>4. UnitsInPlay'
    BY <1>1, <1>2, <2>1, Taking
  <2>5. Sound'
    BY <1>2, <1>5, <1>6, <2>1 DEF IInv, Sound, HashesFollow, AnswersFollow
  <2>6. QED
    BY <1>2, <1>3, <1>5, <2>1, <2>2, <2>3, <2>4, <2>5 DEF IInv, Typing
<1>9. ASSUME NEW s \in Simplified(c), Discard(c, s)
      PROVE  IInv'
  <2>1. /\ UNCHANGED <<active, given, todo, doublehash, answers, stored, limited, result>>
        /\ phase' = "top" /\ counted' = TRUE
        /\ SubsumedByUnit(c) \/ (~IsAnswer(s) /\ MayBeSubsumed(s))
    BY <1>9 DEF Discard, found
  <2>2. ASSUME NEW l \in Literals, c = {l}
        PROVE  \E d \in active' \cup answers' : d \subseteq {l}
    <3>1. ~IsAnswer(s) /\ MayBeSubsumed(s) /\ s \subseteq {l} /\ l \notin Ans
      BY <1>7, <1>9, <2>1, <2>2, UnitCandidate DEF IInv
    <3>2. s = {l}
      BY <3>1 DEF IsAnswer
    <3>3. QED
      BY <2>1, <3>1, <3>2, UnitCandidate DEF IInv
  <2>3. Data' /\ Numbers'
    BY <1>2, <1>5, <2>1 DEF IInv, Typing, Data, Numbers
  <2>4. Flags' /\ Place'
    BY <1>2, <2>1 DEF IInv, Typing, Flags, Place
  <2>5. UnitsInPlay'
    BY <1>1, <1>2, <2>1, <2>2, Taking
  <2>6. Sound'
    BY <1>2, <1>5, <1>6, <2>1 DEF IInv, Sound, HashesFollow, AnswersFollow
  <2>7. QED
    BY <1>2, <1>3, <1>5, <2>1, <2>3, <2>4, <2>5, <2>6 DEF IInv, Typing
<1>10. ASSUME NEW s \in Simplified(c), Conclude(c, s)
       PROVE  IInv'
  <2>1. /\ UNCHANGED <<active, given, todo, doublehash, limited>>
        /\ counted' = TRUE /\ IsAnswer(s) /\ Register(s, "top")
    BY <1>10 DEF Conclude
  <2>2. s \subseteq c /\ Entails(inputs, s) /\ s \in SUBSET Ans
    BY <1>3, <2>1, SimplifiedFollows DEF IsAnswer
  <2>3. /\ answers' = answers \cup {s} /\ answers' \subseteq SUBSET Ans /\ AnswersFollow'
        /\ stored' \in 0..(required + 1)
        /\ phase' \in {"top", "end"} /\ (phase' = "end") = (result' # "none")
        /\ phase' # "end" => stored' < required
    BY <1>2, <2>1, <2>2, Registering
  <2>4. Data' /\ Numbers'
    BY <1>2, <1>5, <2>1, <2>3 DEF IInv, Typing, Data, Numbers
  <2>5. Flags' /\ Place'
    BY <1>2, <2>1, <2>3 DEF IInv, Typing, Flags, Place
  <2>6. UnitsInPlay'
    BY <1>1, <1>2, <2>1, <2>2, <2>3, Taking
  <2>7. Sound'
    BY <1>2, <1>5, <1>6, <2>1, <2>3 DEF IInv, Sound, HashesFollow
  <2>8. QED
    BY <1>2, <1>5, <2>3, <2>4, <2>5, <2>6, <2>7 DEF IInv, Typing
<1>11. ASSUME NEW s \in Simplified(c), Activate(c, s)
       PROVE  IInv'
  <2>1. /\ UNCHANGED <<answers, stored, result>>
        /\ given' = s /\ active' = active \cup {s} /\ phase' = "infer" /\ counted' = TRUE
        /\ doublehash' \in {doublehash, doublehash \cup Doubles(s)}
        /\ ~IsAnswer(s)
    BY <1>11 DEF Activate, found
  <2>2. /\ \A p \in todo' : p[1] \in active' /\ p[2] \in s
        /\ limited' \in BOOLEAN
    <3>1. PICK all : /\ all = {p \in active' \X s : -p[2] \in p[1]}
                     /\ todo' = {p \in all : ~Skips(s, p[1])}
                     /\ limited' = (limited \/ todo' # all)
      BY <1>11 DEF Activate
    <3>2. QED
      BY <3>1
  <2>3. s \subseteq c /\ Entails(inputs, s) /\ s \in Clauses /\ s # {}
    BY <1>3, <2>1, SimplifiedFollows DEF IsAnswer, Clauses
  <2>4. \A d \in Doubles(s) : d = s /\ Cardinality(d) = 2
    BY DEF Doubles
  <2>5. Data' /\ Numbers'
    BY <1>2, <1>5, <2>1, <2>3, <2>4 DEF IInv, Typing, Data, Numbers
  <2>6. Flags'
    BY <1>2, <2>1, <2>2 DEF IInv, Typing, Flags
  <2>7. Place'
    BY <1>2, <2>1, <2>2 DEF IInv, Typing, Place
  <2>8. UnitsInPlay'
    BY <1>1, <1>2, <2>1, <2>3, Taking
  <2>9. HashesFollow'
    BY <1>2, <1>3, <2>1, <2>3, HashesGrow
  <2>10. Sound'
    BY <1>5, <1>6, <2>1, <2>3, <2>9 DEF IInv, Sound, AnswersFollow
  <2>11. QED
    BY <1>2, <1>3, <1>5, <2>1, <2>5, <2>6, <2>7, <2>8, <2>10 DEF IInv, Typing
<1>12. QED
  BY <1>1, <1>8, <1>9, <1>10, <1>11

-----------------------------------------------------------------------------
\* An inference.
LEMMA InferInv ==
  ASSUME IInv, Infer
  PROVE  IInv'
<1>1. PICK p \in todo :
        /\ LET r == Resolvent(p[1], p[2]) IN
             IF Useless(r)
             THEN UNCHANGED <<phase, result, found, store, limited>>
             ELSE \E s \in CutDown(r) : Overweight(s) \/ Keep(s) \/ Answer(s)
        /\ todo' = IF phase' = "infer" THEN todo \ {p} ELSE {}
  BY DEF Infer
<1> DEFINE r == Resolvent(p[1], p[2])
<1>2. /\ phase = "infer" /\ result = "none" /\ p[1] \in active /\ p[2] \in given
      /\ UNCHANGED <<inputs, required, active, given, spent, arglen, shortlen, endgame, counted>>
  BY <1>1 DEF Infer, IInv, Typing, Place, problem, limits
<1>3. given \in active /\ HashesFollow
  BY <1>2 DEF IInv, Sound
<1>4. r \in Clauses /\ Entails(inputs, r)
  BY <1>2, <1>3, ResolventFollows DEF IInv, Sound, Typing, Data
<1>5. \A d : Entails(inputs, d)' <=> Entails(inputs, d)
  BY <1>2 DEF Entails, Satisfies
<1>6. ASSUME phase' \in {"infer", "end"}, (phase' = "end") = (result' # "none"), limited' \in BOOLEAN
      PROVE  Flags' /\ Place'
  BY <1>1, <1>2, <1>6 DEF IInv, Typing, Flags, Place
<1> HIDE DEF r
<1>7. CASE UNCHANGED <<phase, result, found, store>> /\ limited' \in BOOLEAN
  <2>1. Data' /\ Numbers' /\ (\A c \in waiting' \cup again' : ~(c \subseteq Ans))
    BY <1>2, <1>7 DEF IInv, Typing, Data, Numbers, found, store
  <2>2. Sound' /\ UnitsInPlay'
    BY <1>2, <1>7, NothingAdded DEF problem
  <2>3. Flags' /\ Place'
    BY <1>2, <1>6, <1>7
  <2>4. QED
    BY <1>2, <1>7, <2>1, <2>2, <2>3 DEF IInv, Typing, found
<1>8. ASSUME NEW s \in CutDown(r), Keep(s)
      PROVE  IInv'
  <2>1. s \in Clauses /\ Entails(inputs, s) /\ ~(s \subseteq Ans)
    BY <1>3, <1>4, <1>8, CutDownFollows DEF Keep, IsAnswer, Clauses
  <2>2. /\ unithash' = unithash \cup Units(s) /\ doublehash' = doublehash \cup Doubles(s)
        /\ waiting' = waiting \cup {s} /\ again' = again \ {s}
        /\ UNCHANGED <<phase, result, answers, stored, limited>>
    BY <1>8 DEF Keep, found
  <2>3. \A l \in Units(s) : s = {l} /\ l \in Literals
    BY <2>1, UnitClauses
  <2>4. \A d \in Doubles(s) : d = s /\ Cardinality(d) = 2
    BY DEF Doubles
  <2>5. Data' /\ Numbers' /\ (\A c \in waiting' \cup again' : ~(c \subseteq Ans))
    BY <1>2, <2>1, <2>2, <2>3, <2>4 DEF IInv, Typing, Data, Numbers
  <2>6. Flags' /\ Place'
    BY <1>2, <1>6, <2>2 DEF IInv, Typing, Flags
  <2>7. HashesFollow'
    BY <1>2, <1>3, <2>1, <2>2, HashesGrow
  <2>8. Sound'
    BY <1>2, <1>5, <2>1, <2>2, <2>7 DEF IInv, Sound, AnswersFollow
  <2>9. UnitsInPlay'
    BY <1>2, <2>2, <2>3 DEF IInv, UnitsInPlay
  <2>10. QED
    BY <1>2, <2>2, <2>5, <2>6, <2>8, <2>9 DEF IInv, Typing
<1>9. ASSUME NEW s \in CutDown(r), Answer(s)
      PROVE  IInv'
  <2>1. Entails(inputs, s) /\ s \in SUBSET Ans /\ Register(s, "infer")
    BY <1>3, <1>4, <1>9, CutDownFollows DEF Answer, IsAnswer
  <2>2. UNCHANGED <<waiting, again, unithash, doublehash, limited>>
    BY <1>9 DEF Answer, store
  <2>3. /\ answers' = answers \cup {s} /\ answers' \subseteq SUBSET Ans /\ AnswersFollow'
        /\ stored' \in 0..(required + 1)
        /\ phase' \in {"infer", "end"} /\ (phase' = "end") = (result' # "none")
        /\ phase' # "end" => stored' < required
    BY <1>2, <2>1, Registering
  <2>4. Data' /\ Numbers' /\ (\A c \in waiting' \cup again' : ~(c \subseteq Ans))
    BY <1>2, <2>2, <2>3 DEF IInv, Typing, Data, Numbers
  <2>5. Flags' /\ Place'
    BY <1>6, <2>2, <2>3 DEF IInv, Typing, Flags
  <2>6. Sound' /\ UnitsInPlay'
    BY <1>2, <1>5, <2>2, <2>3 DEF IInv, Sound, HashesFollow, UnitsInPlay
  <2>7. QED
    BY <1>2, <2>3, <2>4, <2>5, <2>6 DEF IInv, Typing
<1>10. QED
  BY <1>1, <1>7, <1>8, <1>9 DEF r, Overweight, IInv, Typing, Flags

LEMMA NextInv ==
  ASSUME IInv, [Next]_vars
  PROVE  IInv'
<1>1. CASE UNCHANGED vars
  <2>1. Sound' /\ UnitsInPlay'
    BY <1>1, NothingAdded DEF vars
  <2>2. Data' /\ Numbers' /\ (\A c \in waiting' \cup again' : ~(c \subseteq Ans))
    BY <1>1 DEF vars, problem, store, found, limits, IInv, Typing, Data, Numbers
  <2>3. Flags' /\ Place' /\ (phase' # "end" => stored' < required')
    BY <1>1 DEF vars, problem, store, found, limits, IInv, Typing, Flags, Place
  <2>4. QED
    BY <2>1, <2>2, <2>3 DEF IInv, Typing
<1>2. QED
  BY <1>1, LoopInv, CandidateInv, InferInv DEF Next

-----------------------------------------------------------------------------
\* The theorems.

\* The inductive invariant holds in every reachable state.
THEOREM Invariance == Spec => []IInv
<1>1. IInv /\ [Next]_vars => IInv'
  BY NextInv
<1>2. QED
  BY InitInv, <1>1, PTL DEF Spec

\* Every variable of the search keeps its type; in particular no empty clause is
\* active, and the count of answers stays within one of the number wanted.
THEOREM Typed == Spec => []TypeOK
<1>1. IInv => TypeOK
  BY TypeParts DEF IInv, Typing
<1>2. QED
  BY Invariance, <1>1, PTL

\* What the search registers as a proof or an answer follows from the input.
THEOREM Soundness == Spec => []AnswersFollow
<1>1. IInv => AnswersFollow
  BY DEF IInv, Sound
<1>2. QED
  BY Invariance, <1>1, PTL

\* A unit that clauses are cut and dropped by is in the queues, active, or an answer.
THEOREM UnitsStay == Spec => []UnitsInPlay
<1>1. IInv => UnitsInPlay
  BY DEF IInv
<1>2. QED
  BY Invariance, <1>1, PTL

-----------------------------------------------------------------------------
\* A model from a set of clauses that has all its resolvents.
\*
\* The literals of F are taken to be false.  A largest F without opposites that makes
\* no clause of S false decides every atom, since a clause that is false with l and
\* one that is false with -l have a resolvent that is false without either.

Consistent(F) == \A l \in F : -l \notin F

Falsifies(F, d) == d \subseteq F

\* What makes the $ans literals of B false, other ones true, and no clause of S false.
Countermodels(S, B) ==
  {F \in Clauses : Consistent(F) /\ F \cap Ans = B /\ \A d \in S : ~Falsifies(F, d)}

Merged(c, d, l) == (c \ {l}) \cup (d \ {-l})

\* Resolvents are tautologies, or some clause of S is a part of them, but for literals
\* of B.
Saturated(S, B) ==
  \A c, d \in S : \A l \in c :
    l \in Literals \ Ans /\ -l \in d =>
      \/ Tautology(Merged(c, d, l))
      \/ \E e \in S : e \subseteq Merged(c, d, l) \cup B

\* A set of sets of literals has a largest element.
LEMMA Largest ==
  ASSUME NEW T, T \subseteq Clauses, T # {}
  PROVE  \E F \in T : \A G \in T : Cardinality(G) <= Cardinality(F)
<1> DEFINE n == Cardinality(Literals)
           D == {n - Cardinality(F) : F \in T}
           R == OpToRel(<, Nat)
<1>1. n \in Nat /\ \A F \in T : Cardinality(F) \in Nat /\ Cardinality(F) <= n
  <2>1. Literals \in Clauses
    BY DEF Clauses
  <2>2. IsFiniteSet(Literals) /\ n \in Nat
    BY <2>1, FiniteClauses
  <2>3. QED
    BY <2>2, FiniteClauses, FS_Subset DEF Clauses
<1> HIDE DEF n
<1>2. D \subseteq Nat /\ D # {}
  BY <1>1
<1>3. IsWellFoundedOn(R, Nat)
  BY NatLessThanWellFounded
<1>4. \A x, y \in Nat : y < x => <<y, x>> \in R
  BY DEF OpToRel
<1> HIDE DEF D, R
<1>5. PICK m \in D : \A y \in D : ~ (<<y, m>> \in R)
  BY <1>2, <1>3, WFMin
<1>6. \A y \in D : ~ (y < m)
  BY <1>2, <1>4, <1>5
<1>7. PICK F \in T : m = n - Cardinality(F)
  BY DEF D
<1>8. ASSUME NEW G \in T
      PROVE  Cardinality(G) <= Cardinality(F)
  <2>1. ~ (n - Cardinality(G) < n - Cardinality(F))
    BY <1>6, <1>7 DEF D
  <2>2. QED
    BY <1>1, <2>1
<1>9. QED
  BY <1>8

\* A literal can be made false, or its opposite.
LEMMA Decided ==
  ASSUME NEW S, S \subseteq Clauses, NEW B, Saturated(S, B), NEW F \in Countermodels(S, B),
         NEW a \in Atoms, a \notin F, -a \notin F
  PROVE  F \cup {a} \in Countermodels(S, B) \/ F \cup {-a} \in Countermodels(S, B)
<1>1. /\ F \in Clauses /\ Consistent(F) /\ F \cap Ans = B /\ \A d \in S : ~ (d \subseteq F)
  BY DEF Countermodels, Falsifies
<1>2. /\ a \in Literals \ Ans /\ -a \in Literals \ Ans /\ -(-a) = a /\ a # -a
  BY GCAssumption DEF Literals
<1>3. ASSUME NEW l \in {a, -a}, F \cup {l} \notin Countermodels(S, B)
      PROVE  \E d \in S : l \in d /\ d \subseteq F \cup {l}
  <2>1. F \cup {l} \in Clauses /\ (F \cup {l}) \cap Ans = B
    BY <1>1, <1>2 DEF Clauses
  <2>2. Consistent(F \cup {l})
    <3>1. l \notin F /\ -l \notin F /\ l # -l /\ -(-l) = l
      BY <1>2
    <3>2. \A k \in F : -k # l
      <4>1. \A k \in F : k \in Literals
        BY <1>1 DEF Clauses
      <4>2. QED
        BY <3>1, <4>1, Signs
    <3>3. QED
      BY <1>1, <3>1, <3>2 DEF Consistent
  <2>3. PICK d \in S : d \subseteq F \cup {l}
    BY <1>3, <2>1, <2>2 DEF Countermodels, Falsifies
  <2>4. l \in d
    BY <1>1, <2>3
  <2>5. QED
    BY <2>3, <2>4
<1>4. SUFFICES ASSUME F \cup {a} \notin Countermodels(S, B), F \cup {-a} \notin Countermodels(S, B)
               PROVE  FALSE
  OBVIOUS
<1>5. PICK c \in S : a \in c /\ c \subseteq F \cup {a}
  BY <1>3, <1>4
<1>6. PICK d \in S : -a \in d /\ d \subseteq F \cup {-a}
  BY <1>3, <1>4
<1> DEFINE r == Merged(c, d, a)
<1>7. r \subseteq F
  BY <1>5, <1>6 DEF Merged
<1>8. Tautology(r) \/ \E e \in S : e \subseteq r \cup B
  BY <1>2, <1>5, <1>6 DEF Saturated
<1> HIDE DEF r
<1>9. ~Tautology(r)
  BY <1>1, <1>7 DEF Tautology, Consistent
<1>10. QED
  BY <1>1, <1>7, <1>8, <1>9

\* So a set with all its resolvents has a model, unless it has a clause that B makes
\* false.
LEMMA ModelOfSaturated ==
  ASSUME NEW S, S \subseteq Clauses, NEW B, B \subseteq Ans, Saturated(S, B),
         \A d \in S : ~ (d \subseteq B)
  PROVE  \E M \in SUBSET (Atoms \cup Ans) :
           /\ \A l \in B : l \notin M
           /\ \A d \in S : \E l \in d \ B : Holds(M, l)
<1> DEFINE T == Countermodels(S, B)
<1>1. B \in T
  <2>1. B \in Clauses /\ B \cap Ans = B
    BY DEF Clauses, Literals
  <2>2. Consistent(B)
    <3>1. \A l \in B : l \in Nat \ {0}
      BY GCAssumption
    <3>2. QED
      BY <3>1 DEF Consistent
  <2>3. QED
    BY <2>1, <2>2 DEF Countermodels, Falsifies
<1>2. PICK F \in T : \A G \in T : Cardinality(G) <= Cardinality(F)
  <2>1. T \subseteq Clauses /\ T # {}
    BY <1>1 DEF Countermodels
  <2> HIDE DEF T
  <2>2. QED
    BY <2>1, Largest
<1>3. /\ F \in Clauses /\ Consistent(F) /\ F \cap Ans = B /\ \A d \in S : ~ (d \subseteq F)
  BY DEF Countermodels, Falsifies
<1>4. \A l : F \cup {l} \in T => l \in F
  <2> SUFFICES ASSUME NEW l, F \cup {l} \in T, l \notin F PROVE FALSE
    OBVIOUS
  <2>1. Cardinality(F) \in Nat /\ Cardinality(F \cup {l}) = Cardinality(F) + 1
    BY <1>3, FiniteClauses, FS_AddElement
  <2>2. Cardinality(F \cup {l}) <= Cardinality(F)
    BY <1>2
  <2>3. QED
    BY <2>1, <2>2
<1> DEFINE M == {x \in Atoms \cup Ans : x \notin F}
<1>5. ASSUME NEW a \in Atoms
      PROVE  a \in F \/ -a \in F
  BY <1>4, Decided
<1>6. ASSUME NEW d \in S
      PROVE  \E l \in d \ B : Holds(M, l)
  <2>1. PICK l \in d : l \notin F
    BY <1>3
  <2>2. l \notin B
    BY <1>3, <2>1
  <2>3. l \in Literals
    BY DEF Clauses
  <2>4. Holds(M, l)
    <3>1. CASE l > 0
      <4>1. l \in Atoms \cup Ans
        BY <2>3, <3>1, GCAssumption DEF Literals
      <4>2. QED
        BY <2>1, <3>1, <4>1 DEF Holds
    <3>2. CASE ~ (l > 0)
      <4>1. PICK a \in Atoms : l = -a
        BY <2>3, <3>2, GCAssumption DEF Literals
      <4>2. a \in F /\ -l = a
        BY <1>5, <2>1, <4>1, GCAssumption
      <4>3. QED
        BY <3>2, <4>2 DEF Holds
    <3>3. QED
      BY <3>1, <3>2
  <2>5. QED
    BY <2>2, <2>4
<1>7. \A l \in B : l \notin M
  BY <1>3
<1>8. QED
  BY <1>6, <1>7

-----------------------------------------------------------------------------
\* Completeness.
\*
\* As long as no limit has kept the search from an inference, every input clause and
\* every resolvent of two clauses that were given is covered by a clause in play, or
\* the inference is still to be made.  If one answer is enough, $ans literals do not
\* count, since wr_subsume_cl does not compare them then.

InPlay == active \cup waiting \cup answers
Spare == IF required = 1 THEN Ans ELSE {}
Covered(c) == Tautology(c) \/ \E d \in InPlay : d \subseteq c \cup Spare

Pending(c, d, l) ==
  \/ given = c /\ <<d, l>> \in todo
  \/ given = d /\ <<c, -l>> \in todo

Searching == result \in {"none", "exhausted"} /\ ~limited

InputsCovered == \A c \in inputs : Covered(c)
ResolventsCovered ==
  \A c, d \in active : \A l \in c : -l \in d => Pending(c, d, l) \/ Covered(Merged(c, d, l))

\* No clause is given that is an answer; and how the search stands when the queues run
\* dry.
Stands ==
  /\ \A d \in active : ~(d \subseteq Ans)
  /\ answers # {} => stored > 0
  /\ result = "exhausted" => waiting = {} /\ (required = 1 => answers = {})

CInv == IInv /\ Stands /\ (Searching => InputsCovered /\ ResolventsCovered)

\* A clause in play leaves another one that covers it.
Replaced == \A d \in InPlay : \E e \in InPlay' : e \subseteq d \cup Spare

LEMMA StaysCovered ==
  ASSUME Replaced, required' = required, NEW c, Covered(c)
  PROVE  Covered(c)'
<1>1. Spare' = Spare
  BY DEF Spare
<1>2. CASE Tautology(c)
  BY <1>2 DEF Covered, Tautology
<1>3. ASSUME NEW d \in InPlay, d \subseteq c \cup Spare
      PROVE  Covered(c)'
  <2>1. PICK e \in InPlay' : e \subseteq d \cup Spare
    BY DEF Replaced
  <2>2. e \subseteq c \cup Spare'
    BY <1>1, <1>3, <2>1
  <2>3. QED
    BY <2>1, <2>2 DEF Covered
<1>4. QED
  BY <1>2, <1>3 DEF Covered

LEMMA InitComplete ==
  ASSUME Init
  PROVE  CInv
<1> DEFINE read == {c \in inputs : ~Tautology(c)}
           kept == {c \in read : arglen = 1 => Length(c) <= 1}
<1>1. waiting = kept /\ limited = (kept # read) /\ active = {} /\ answers = {} /\ result = "none"
  BY DEF Init
<1>2. Stands
  BY <1>1 DEF Stands
<1>3. ASSUME Searching
      PROVE  InputsCovered
  <2>1. \A c \in inputs : Tautology(c) \/ c \in waiting
    BY <1>1, <1>3 DEF Searching
  <2>2. QED
    BY <2>1 DEF InputsCovered, Covered, InPlay
<1>4. ResolventsCovered
  BY <1>1 DEF ResolventsCovered
<1>5. QED
  BY <1>2, <1>3, <1>4, InitInv DEF CInv

\* A step that gives no clause and makes no inference.
LEMMA NothingGiven ==
  ASSUME CInv, Searching => Replaced, Searching' => Searching,
         UNCHANGED <<inputs, required, active>>,
         Searching' => todo = {} \/ UNCHANGED <<todo, given>>
  PROVE  Searching' => InputsCovered' /\ ResolventsCovered'
<1> SUFFICES ASSUME Searching' PROVE InputsCovered' /\ ResolventsCovered'
  OBVIOUS
<1>1. Searching /\ InputsCovered /\ ResolventsCovered /\ Replaced
  BY DEF CInv
<1>2. InputsCovered'
  BY <1>1, StaysCovered DEF InputsCovered
<1>3. ASSUME NEW c \in active, NEW d \in active, NEW l \in c, -l \in d
      PROVE  Pending(c, d, l)' \/ Covered(Merged(c, d, l))'
  <2>1. Pending(c, d, l) \/ Covered(Merged(c, d, l))
    BY <1>1, <1>3 DEF ResolventsCovered
  <2>2. CASE Covered(Merged(c, d, l))
    <3> DEFINE r == Merged(c, d, l)
    <3>1. r' = r
      BY DEF Merged
    <3>2. Covered(r)
      BY <2>2
    <3> HIDE DEF r
    <3>3. Covered(r)'
      BY <1>1, <3>1, <3>2, StaysCovered
    <3>4. QED
      BY <3>3 DEF r
  <2>3. CASE Pending(c, d, l)
    BY <2>3 DEF Pending
  <2>4. QED
    BY <2>1, <2>2, <2>3
<1>4. QED
  BY <1>2, <1>3 DEF ResolventsCovered

LEMMA LoopComplete ==
  ASSUME CInv, CheckTime \/ TimeOut \/ OutOfMemory \/ NothingToPick \/ NextTurn
  PROVE  CInv'
<1>1. UNCHANGED <<inputs, required, active, waiting, answers, stored, given, limited>>
  BY DEF CheckTime, TimeOut, OutOfMemory, NothingToPick, NextTurn, problem, store, found
<1>2. Replaced
  BY <1>1 DEF Replaced, InPlay
<1>3. result # "none" => phase = "end"
  BY DEF CInv, IInv, Typing, Place
<1>4. /\ Searching' => Searching
      /\ Searching' => UNCHANGED <<todo, given>>
  BY <1>1, <1>3 DEF CheckTime, TimeOut, OutOfMemory, NothingToPick, NextTurn, Searching
<1>5. Searching' => InputsCovered' /\ ResolventsCovered'
  BY <1>1, <1>2, <1>4, NothingGiven
<1>6. Stands'
  <2>1. CASE result' = "exhausted"
    <3>1. NothingToPick
      BY <1>3, <2>1 DEF CheckTime, TimeOut, OutOfMemory, NothingToPick, NextTurn
    <3>2. waiting = {} /\ stored < required /\ stored \in Nat
      BY <3>1, Limits DEF NothingToPick, CInv, IInv, Typing
    <3>3. required = 1 => answers = {}
      BY <3>2 DEF CInv, Stands
    <3>4. QED
      BY <1>1, <3>2, <3>3 DEF CInv, Stands
  <2>2. CASE result' # "exhausted"
    BY <1>1, <2>2 DEF CInv, Stands
  <2>3. QED
    BY <2>1, <2>2
<1>7. QED
  BY <1>5, <1>6, LoopInv DEF CInv

\* A registered answer is in play.
LEMMA Registered ==
  ASSUME IInv, Stands, phase # "end", NEW c, NEW next, Register(c, next)
  PROVE  /\ answers' = answers \cup {c} /\ stored' > 0
         /\ result' \in {result, "proof", "crash"}
<1>1. stored \in Nat
  BY Limits DEF IInv
<1>2. answers' = answers \cup {c} /\ stored' \in Count(c) /\ result' \in {result, "proof", "crash"}
  BY DEF Register
<1>3. stored' > 0
  <2>1. CASE c \in answers
    BY <1>1, <1>2, <2>1 DEF Count, Stands
  <2>2. CASE c \notin answers
    BY <1>1, <1>2, <2>2 DEF Count
  <2>3. QED
    BY <2>1, <2>2
<1>4. QED
  BY <1>2, <1>3

\* The candidate leaves the queue, and what becomes of it covers it.
LEMMA CandidateReplaced ==
  ASSUME IInv, NEW c \in waiting \cup again, TakeCopy(c), required' = required,
         active \subseteq active', answers \subseteq answers',
         \E e \in InPlay' : e \subseteq c \cup Spare
  PROVE  Replaced
<1>1. waiting' = waiting \ {c}
  BY DEF TakeCopy
<1>2. ASSUME NEW d \in InPlay
      PROVE  \E e \in InPlay' : e \subseteq d \cup Spare
  <2>1. CASE d = c
    BY <2>1
  <2>2. CASE d # c
    <3>1. d \in InPlay'
      BY <1>1, <2>2 DEF InPlay
    <3>2. QED
      BY <3>1
  <2>3. QED
    BY <2>1, <2>2
<1>3. QED
  BY <1>2 DEF Replaced

LEMMA CandidateComplete ==
  ASSUME CInv, Candidate
  PROVE  CInv'
<1>1. PICK c \in waiting \cup again :
        /\ TakeCopy(c)
        /\ \/ SkipLong(c)
           \/ \E s \in Simplified(c) : Discard(c, s) \/ Conclude(c, s) \/ Activate(c, s)
  BY DEF Candidate
<1>2. /\ IInv /\ Stands /\ phase = "pick" /\ result = "none" /\ todo = {}
      /\ UNCHANGED <<inputs, required, unithash>>
  BY DEF Candidate, CInv, IInv, Typing, Place, problem, limits
<1>3. c \in Clauses /\ Entails(inputs, c) /\ HashesFollow
  BY <1>2 DEF IInv, Typing, Data, Sound
<1>4. waiting' = waiting \ {c}
  BY <1>1 DEF TakeCopy
<1>5. IInv'
  BY <1>2, CandidateInv
<1>6. CASE SkipLong(c)
  <2>1. limited' /\ UNCHANGED <<active, answers, stored, result>>
    BY <1>6 DEF SkipLong, found
  <2>2. Stands'
    BY <1>2, <2>1 DEF Stands
  <2>3. QED
    BY <1>5, <2>1, <2>2 DEF CInv, Searching
<1>7. ASSUME NEW s \in Simplified(c), Discard(c, s)
      PROVE  CInv'
  <2>1. /\ UNCHANGED <<active, given, todo, answers, stored, limited, result>>
        /\ SubsumedByUnit(c) \/ MayBeSubsumed(s)
    BY <1>7 DEF Discard, found
  <2>2. s \subseteq c
    BY <1>3, SimplifiedFollows
  <2>3. \E e \in InPlay' : e \subseteq c \cup Spare
    <3>1. CASE SubsumedByUnit(c)
      <4>1. PICK l \in c : l \in unithash
        BY <3>1 DEF SubsumedByUnit
      <4>2. PICK d \in active \cup waiting \cup answers : d \subseteq {l}
        BY <1>2, <4>1 DEF IInv, UnitsInPlay
      <4>3. d # c
        <5>1. ~ (c \subseteq {l})
          <6> SUFFICES ASSUME c \subseteq {l} PROVE FALSE
            OBVIOUS
          <6>1. c = {l}
            BY <4>1
          <6>2. Cardinality(c) = 1
            BY <6>1, FS_Singleton
          <6>3. QED
            BY <3>1, <6>2 DEF SubsumedByUnit
        <5>2. QED
          BY <4>2, <5>1
      <4>4. d \in InPlay'
        BY <1>4, <2>1, <4>2, <4>3 DEF InPlay
      <4>5. QED
        BY <4>1, <4>2, <4>4
    <3>2. CASE SubsumedByActive(s)
      BY <2>1, <2>2, <3>2 DEF SubsumedByActive, InPlay
    <3>3. ASSUME required = 1, NEW d \in active, d \ Ans \subseteq s
          PROVE  \E e \in InPlay' : e \subseteq c \cup Spare
      <4>1. Spare = Ans /\ d \in InPlay'
        BY <2>1, <3>3 DEF Spare, InPlay
      <4>2. QED
        BY <2>2, <3>3, <4>1
    <3>4. QED
      BY <2>1, <3>1, <3>2, <3>3 DEF MayBeSubsumed
  <2>4. Replaced
    BY <1>1, <1>2, <2>1, <2>3, CandidateReplaced
  <2>5. Searching' => InputsCovered' /\ ResolventsCovered'
    BY <1>2, <2>1, <2>4, NothingGiven DEF Searching
  <2>6. Stands'
    BY <1>2, <2>1 DEF Stands
  <2>7. QED
    BY <1>5, <2>5, <2>6 DEF CInv
<1>8. ASSUME NEW s \in Simplified(c), Conclude(c, s)
      PROVE  CInv'
  <2>1. UNCHANGED <<active, given, todo, limited>> /\ Register(s, "top")
    BY <1>8 DEF Conclude
  <2>2. s \subseteq c
    BY <1>3, SimplifiedFollows
  <2>3. answers' = answers \cup {s} /\ stored' > 0 /\ result' \in {result, "proof", "crash"}
    BY <1>2, <2>1, Registered
  <2>4. \E e \in InPlay' : e \subseteq c \cup Spare
    BY <2>2, <2>3 DEF InPlay
  <2>5. Replaced
    BY <1>1, <1>2, <2>1, <2>3, <2>4, CandidateReplaced
  <2>6. Searching' => InputsCovered' /\ ResolventsCovered'
    BY <1>2, <2>1, <2>3, <2>5, NothingGiven DEF Searching
  <2>7. Stands'
    BY <1>2, <2>1, <2>3 DEF Stands
  <2>8. QED
    BY <1>5, <2>6, <2>7 DEF CInv
<1>9. ASSUME NEW s \in Simplified(c), Activate(c, s)
      PROVE  CInv'
  <2>1. UNCHANGED <<answers, stored, result>> /\ given' = s /\ active' = active \cup {s}
    BY <1>9 DEF Activate, found
  <2>2. PICK all : /\ all = {p \in active' \X s : -p[2] \in p[1]}
                   /\ todo' = {p \in all : ~Skips(s, p[1])}
                   /\ limited' = (limited \/ todo' # all)
    BY <1>9 DEF Activate
  <2>3. s \subseteq c /\ s \in Clauses
    BY <1>3, SimplifiedFollows DEF Clauses
  <2>4. \E e \in InPlay' : e \subseteq c \cup Spare
    BY <2>1, <2>3 DEF InPlay
  <2>5. Replaced
    BY <1>1, <1>2, <2>1, <2>4, CandidateReplaced
  <2>6. Stands'
    BY <1>2, <1>9, <2>1 DEF Stands, Activate, IsAnswer
  <2>7. ASSUME Searching'
        PROVE  InputsCovered' /\ ResolventsCovered'
    <3>1. Searching /\ todo' = all
      BY <1>2, <2>2, <2>7 DEF Searching, CInv, IInv, Typing, Flags
    <3>2. InputsCovered /\ ResolventsCovered
      BY <3>1 DEF CInv
    <3>3. InputsCovered'
      BY <1>2, <2>5, <3>2, StaysCovered DEF InputsCovered
    <3>4. ASSUME NEW a \in active', NEW b \in active', NEW l \in a, -l \in b
          PROVE  Pending(a, b, l)' \/ Covered(Merged(a, b, l))'
      <4>1. CASE a = s
        <5>1. <<b, l>> \in all
          BY <2>2, <3>4, <4>1
        <5>2. QED
          BY <2>1, <3>1, <4>1, <5>1 DEF Pending
      <4>2. CASE b = s
        <5>1. -(-l) = l
          <6>1. l \in Literals
            BY <1>5 DEF IInv, Typing, Data, Clauses
          <6>2. QED
            BY <6>1, Signs
        <5>2. <<a, -l>> \in all
          BY <2>2, <3>4, <4>2, <5>1
        <5>3. QED
          BY <2>1, <3>1, <4>2, <5>2 DEF Pending
      <4>3. CASE a # s /\ b # s
        <5> DEFINE r == Merged(a, b, l)
        <5>1. Covered(r)
          BY <1>2, <2>1, <3>2, <3>4, <4>3 DEF ResolventsCovered, Pending
        <5> HIDE DEF r
        <5>2. Covered(r)'
          BY <1>2, <2>5, <5>1, StaysCovered DEF r, Merged
        <5>3. QED
          BY <5>2 DEF r
      <4>4. QED
        BY <4>1, <4>2, <4>3
    <3>5. QED
      BY <3>3, <3>4 DEF ResolventsCovered
  <2>8. QED
    BY <1>5, <2>6, <2>7 DEF CInv
<1>10. QED
  BY <1>1, <1>6, <1>7, <1>8, <1>9

LEMMA InferComplete ==
  ASSUME CInv, Infer
  PROVE  CInv'
<1>1. PICK p \in todo :
        /\ LET r == Resolvent(p[1], p[2]) IN
             IF Useless(r)
             THEN UNCHANGED <<phase, result, found, store, limited>>
             ELSE \E s \in CutDown(r) : Overweight(s) \/ Keep(s) \/ Answer(s)
        /\ todo' = IF phase' = "infer" THEN todo \ {p} ELSE {}
  BY DEF Infer
<1> DEFINE r == Resolvent(p[1], p[2])
<1>2. /\ IInv /\ Stands /\ phase = "infer" /\ result = "none" /\ p[1] \in active /\ p[2] \in given
      /\ UNCHANGED <<inputs, required, active, given>>
  BY <1>1 DEF Infer, CInv, IInv, Typing, Place, problem
<1>3. IInv'
  BY <1>2, InferInv
<1>4. given \in active /\ HashesFollow
  BY <1>2 DEF IInv, Sound
<1>5. r \in Clauses /\ Entails(inputs, r)
  BY <1>2, <1>4, ResolventFollows DEF IInv, Sound, Typing, Data
<1>6. p[2] \in Literals
  BY <1>2 DEF IInv, Typing, Data, Clauses
<1> HIDE DEF r
\* What is in play grows, unless a limit drops what the inference gives.
<1>7. /\ InPlay \subseteq InPlay' /\ Stands' /\ (Searching' => Searching)
      /\ Searching' => Covered(r)'
  <2>1. CASE Useless(r) /\ UNCHANGED <<phase, result, found, store, limited>>
    <3>1. UNCHANGED <<answers, stored, waiting, unithash, result, limited>>
      BY <2>1 DEF found, store
    <3>2. CASE Tautology(r)
      <4>1. InPlay \subseteq InPlay' /\ Stands' /\ (Searching' => Searching)
        BY <1>2, <3>1 DEF InPlay, Stands, Searching
      <4>2. r' = r /\ Covered(r)
        BY <1>2, <3>2 DEF r, Resolvent, Covered
      <4>3. Tautology(r)'
        BY <3>2, <4>2 DEF Tautology
      <4>4. QED
        BY <4>1, <4>3 DEF Covered
    <3>3. ASSUME NEW l \in r, l \in unithash
          PROVE  Covered(r)'
      <4>1. PICK d \in active \cup waiting \cup answers : d \subseteq {l}
        BY <1>2, <3>3 DEF IInv, UnitsInPlay
      <4>2. d \subseteq r /\ r' = r
        BY <1>2, <3>3, <4>1 DEF r, Resolvent
      <4>3. QED
        BY <1>2, <3>1, <4>1, <4>2 DEF Covered, InPlay
    <3>4. QED
      BY <1>2, <2>1, <3>1, <3>2, <3>3 DEF Useless, InPlay, Stands, Searching
  <2>2. ASSUME NEW s \in CutDown(r), Overweight(s)
        PROVE  InPlay \subseteq InPlay' /\ Stands' /\ ~Searching'
    BY <1>2, <2>2 DEF Overweight, found, store, InPlay, Stands, Searching
  <2>3. ASSUME NEW s \in CutDown(r), Keep(s) \/ Answer(s)
        PROVE  /\ InPlay \subseteq InPlay' /\ Stands' /\ (Searching' => Searching)
               /\ Covered(r)'
    <3>1. s \subseteq r
      BY <1>4, <1>5, CutDownFollows
    <3>2. InPlay \subseteq InPlay' /\ s \in InPlay' /\ Stands' /\ (Searching' => Searching)
      <4>1. CASE Keep(s)
        BY <1>2, <4>1 DEF Keep, found, InPlay, Stands, Searching
      <4>2. CASE Answer(s)
        <5>1. /\ Register(s, "infer") /\ UNCHANGED <<waiting, limited>>
          BY <4>2 DEF Answer, store
        <5>2. answers' = answers \cup {s} /\ stored' > 0 /\ result' \in {result, "proof", "crash"}
          BY <1>2, <5>1, Registered
        <5>3. QED
          BY <1>2, <5>1, <5>2 DEF InPlay, Stands, Searching
      <4>3. QED
        BY <2>3, <4>1, <4>2
    <3>3. r' = r
      BY <1>2 DEF r, Resolvent
    <3>4. QED
      BY <3>1, <3>2, <3>3 DEF Covered
  <2>4. QED
    BY <1>1, <2>1, <2>2, <2>3 DEF r
<1>8. ASSUME Searching'
      PROVE  InputsCovered' /\ ResolventsCovered'
  <2>1. /\ InputsCovered /\ ResolventsCovered /\ Replaced /\ Covered(r)'
        /\ todo' = todo \ {p}
    <3>1. Replaced
      BY <1>7 DEF Replaced
    <3>2. result' # "exhausted" /\ phase' = "infer"
      BY <1>1, <1>2, <1>3, <1>8 DEF Searching, Overweight, Keep, Answer, Register, found, IInv, Typing, Place
    <3>3. QED
      BY <1>1, <1>7, <1>8, <3>1, <3>2 DEF CInv
  <2>2. InputsCovered'
    BY <1>2, <2>1, StaysCovered DEF InputsCovered
  <2>3. ASSUME NEW c \in active, NEW d \in active, NEW l \in c, -l \in d
        PROVE  Pending(c, d, l)' \/ Covered(Merged(c, d, l))'
    <3> DEFINE m == Merged(c, d, l)
    <3>1. Pending(c, d, l) \/ Covered(m)
      BY <2>1, <2>3 DEF ResolventsCovered
    <3>2. CASE Covered(m)
      <4> HIDE DEF m
      <4>1. Covered(m)'
        BY <1>2, <2>1, <3>2, StaysCovered DEF m, Merged
      <4>2. QED
        BY <4>1 DEF m
    <3>3. CASE Pending(c, d, l) /\ ~Pending(c, d, l)'
      <4>1. \/ given = c /\ p = <<d, l>>
            \/ given = d /\ p = <<c, -l>>
        BY <1>2, <2>1, <3>3 DEF Pending
      <4>2. m = r
        <5>1. CASE given = c /\ p = <<d, l>>
          BY <5>1 DEF r, Resolvent, Merged
        <5>2. CASE given = d /\ p = <<c, -l>>
          <6>1. l \in Literals
            BY <1>2 DEF IInv, Typing, Data, Clauses
          <6>2. -(-l) = l
            BY <6>1, Signs
          <6>3. QED
            BY <5>2, <6>2 DEF r, Resolvent, Merged
        <5>3. QED
          BY <4>1, <5>1, <5>2
      <4> HIDE DEF m
      <4>3. Covered(m)'
        BY <2>1, <4>2, <1>2 DEF m, r, Merged, Resolvent
      <4>4. QED
        BY <4>3 DEF m
    <3>4. QED
      BY <3>1, <3>2, <3>3
  <2>4. QED
    BY <1>2, <2>2, <2>3 DEF ResolventsCovered
<1>9. QED
  BY <1>3, <1>7, <1>8 DEF CInv

LEMMA NextComplete ==
  ASSUME CInv, [Next]_vars
  PROVE  CInv'
<1>1. CASE UNCHANGED vars
  <2>1. UNCHANGED <<inputs, required, active, waiting, answers, stored, given, todo, limited, result>>
    BY <1>1 DEF vars, problem, store, found, limits
  <2>2. Replaced /\ (Searching' => Searching) /\ Stands'
    BY <2>1 DEF Replaced, InPlay, Searching, CInv, Stands
  <2>3. Searching' => InputsCovered' /\ ResolventsCovered'
    BY <2>1, <2>2, NothingGiven
  <2>4. IInv'
    BY NextInv DEF CInv
  <2>5. QED
    BY <2>2, <2>3, <2>4 DEF CInv
<1>2. QED
  BY <1>1, LoopComplete, CandidateComplete, InferComplete DEF Next

\* When the queues run dry, the clauses that were given and the answers have all
\* their resolvents: an answer that follows and is not there would have a model of the
\* input against it.
LEMMA NothingMissed ==
  ASSUME CInv
  PROVE  AnswersComplete
<1> SUFFICES ASSUME result = "exhausted", ~limited, NEW c \in SUBSET Ans, Entails(inputs, c),
                    \A d \in answers : ~(d \subseteq c)
             PROVE  FALSE
  BY DEF AnswersComplete
<1> DEFINE S == active \cup answers
           B == c \cup Spare
<1>1. /\ IInv /\ InputsCovered /\ ResolventsCovered /\ waiting = {} /\ todo = {}
      /\ required = 1 => answers = {}
  BY DEF CInv, Searching, Stands, IInv, Typing, Place
<1>2. InPlay = S
  BY <1>1 DEF InPlay
<1>3. S \subseteq Clauses /\ answers \subseteq SUBSET Ans /\ B \subseteq Ans
  BY <1>1 DEF IInv, Typing, Data, Clauses, Literals, Spare
<1>4. \A d \in S : ~(d \subseteq B)
  <2>1. ASSUME NEW d \in answers
        PROVE  ~(d \subseteq B)
    BY <1>1, <2>1 DEF Spare
  <2>2. ASSUME NEW d \in active
        PROVE  ~(d \subseteq B)
    BY <1>1, <1>3 DEF CInv, Stands
  <2>3. QED
    BY <2>1, <2>2
<1>5. Saturated(S, B)
  <2> SUFFICES ASSUME NEW a \in S, NEW b \in S, NEW l \in a, l \in Literals \ Ans, -l \in b
               PROVE  \/ Tautology(Merged(a, b, l))
                      \/ \E e \in S : e \subseteq Merged(a, b, l) \cup B
    BY DEF Saturated
  <2>1. l \notin Ans /\ -l \notin Ans
    BY GCAssumption DEF Literals
  <2>2. a \in active /\ b \in active
    BY <1>3, <2>1
  <2>3. Covered(Merged(a, b, l))
    BY <1>1, <2>2 DEF ResolventsCovered, Pending
  <2>4. QED
    BY <1>2, <2>3 DEF Covered
<1> HIDE DEF S, B
<1>6. PICK M \in SUBSET (Atoms \cup Ans) :
        /\ \A l \in B : l \notin M
        /\ \A d \in S : \E l \in d \ B : Holds(M, l)
  BY <1>3, <1>4, <1>5, ModelOfSaturated
<1>7. M \in Models
  <2>1. ASSUME NEW d \in inputs
        PROVE  \E l \in d : Holds(M, l)
    <3>1. CASE Tautology(d)
      <4>1. PICK a \in Atoms : a \in d /\ -a \in d
        BY <3>1 DEF Tautology
      <4>2. Holds(M, a) \/ Holds(M, -a)
        BY Opposites DEF Literals
      <4>3. QED
        BY <4>1, <4>2
    <3>2. CASE \E e \in S : e \subseteq d \cup Spare
      <4>1. PICK e \in S : e \subseteq d \cup Spare
        BY <3>2
      <4>2. PICK l \in e \ B : Holds(M, l)
        BY <1>6, <4>1
      <4>3. l \in d
        BY <4>1, <4>2 DEF B
      <4>4. QED
        BY <4>2, <4>3
    <3>3. QED
      BY <1>1, <1>2, <3>1, <3>2 DEF InputsCovered, Covered
  <2>2. QED
    BY <2>1 DEF Models, Satisfies, Holds
<1>8. PICK l \in c : Holds(M, l)
  BY <1>7, ByModels
<1>9. l \in B /\ l > 0
  BY GCAssumption DEF B
<1>10. QED
  BY <1>6, <1>8, <1>9 DEF Holds

\* When the queues run dry and no limit has kept an inference from being made, every
\* proof and every answer that follows from the input has been found.
THEOREM Completeness == Spec => []AnswersComplete
<1>1. Init => CInv
  BY InitComplete
<1>2. CInv /\ [Next]_vars => CInv'
  BY NextComplete
<1>3. QED
  BY <1>1, <1>2, NothingMissed, PTL DEF Spec

=============================================================================
