-------------------------- MODULE PickQueuesProofs --------------------------
(***************************************************************************)
(* Proofs about the pick queues, for any clauses, kinds, weights, ratios   *)
(* and strategies, and any number of priors: nothing is lost between the   *)
(* two orders of a block, no block that has a clause is passed over for    *)
(* long, and the queues do what ClauseSelection asks.                      *)
(***************************************************************************)
EXTENDS PickQueues, TLAPS, WellFoundedInduction

-----------------------------------------------------------------------------
\* Numbers and sequences.

\* A set of natural numbers that is not empty has a least element.
LEMMA LeastElement ==
  ASSUME NEW T, T \subseteq Nat, T # {}
  PROVE  \E m \in T : \A n \in T : m <= n
<1> DEFINE R == OpToRel(<, Nat)
<1>1. IsWellFoundedOn(R, Nat)
  BY NatLessThanWellFounded
<1>2. \A x, y \in Nat : y < x => <<y, x>> \in R
  BY DEF OpToRel
<1> HIDE DEF R
<1>3. PICK m \in T : \A y \in T : ~ (<<y, m>> \in R)
  BY <1>1, WFMin
<1>4. \A n \in T : ~ (n < m)
  BY <1>2, <1>3
<1>5. QED
  BY <1>4

\* Appending adds one element.
LEMMA AppendFacts ==
  ASSUME NEW S, NEW s \in Seq(S), NEW x \in S
  PROVE  /\ Append(s, x) \in Seq(S)
         /\ Append(s, x) # <<>>
         /\ Range(Append(s, x)) = Range(s) \cup {x}
<1> DEFINE t == Append(s, x)
<1>1. Len(s) \in Nat /\ DOMAIN s = 1..Len(s)
  OBVIOUS
<1>2. /\ t \in Seq(S) /\ DOMAIN t = 1..(Len(s) + 1)
      /\ t[Len(s) + 1] = x
      /\ \A i \in 1..Len(s) : t[i] = s[i]
  BY <1>1
<1>3. t # <<>>
  BY <1>1
<1> HIDE DEF t
<1>4. ASSUME NEW y \in Range(t)
      PROVE  y \in Range(s) \cup {x}
  <2>1. PICK i \in DOMAIN t : y = t[i]
    BY <1>4 DEF Range
  <2>2. i = Len(s) + 1 \/ i \in 1..Len(s)
    BY <1>1, <1>2
  <2>3. QED
    BY <2>1, <2>2, <1>1, <1>2 DEF Range
<1>5. ASSUME NEW y \in Range(s) \cup {x}
      PROVE  y \in Range(t)
  BY <1>5, <1>1, <1>2 DEF Range
<1>6. QED
  BY <1>2, <1>3, <1>4, <1>5 DEF t

\* Taking the head off a sequence removes at most that element.
LEMMA TailFacts ==
  ASSUME NEW S, NEW s \in Seq(S), s # <<>>
  PROVE  /\ Head(s) \in Range(s)
         /\ Head(s) \in S
         /\ Tail(s) \in Seq(S)
         /\ Range(s) = Range(Tail(s)) \cup {Head(s)}
<1> DEFINE t == Tail(s)
<1>1. Len(s) \in Nat /\ Len(s) > 0 /\ DOMAIN s = 1..Len(s)
  OBVIOUS
<1>2. /\ t \in Seq(S) /\ DOMAIN t = 1..(Len(s) - 1)
      /\ \A i \in 1..(Len(s) - 1) : t[i] = s[i + 1]
  BY <1>1
<1>3. Head(s) = s[1] /\ 1 \in DOMAIN s
  BY <1>1
<1> HIDE DEF t
<1>4. ASSUME NEW y \in Range(s)
      PROVE  y \in Range(t) \cup {Head(s)}
  <2>1. PICK i \in DOMAIN s : y = s[i]
    BY <1>4 DEF Range
  <2>2. CASE i = 1
    BY <2>1, <2>2, <1>3
  <2>3. CASE i # 1
    <3>1. i - 1 \in 1..(Len(s) - 1) /\ t[i - 1] = s[i]
      BY <2>3, <1>1, <1>2
    <3>2. QED
      BY <2>1, <3>1, <1>2 DEF Range
  <2>4. QED
    BY <2>2, <2>3
<1>5. ASSUME NEW y \in Range(t)
      PROVE  y \in Range(s)
  <2>1. PICK i \in DOMAIN t : y = t[i]
    BY <1>5 DEF Range
  <2>2. i + 1 \in DOMAIN s /\ y = s[i + 1]
    BY <2>1, <1>1, <1>2
  <2>3. QED
    BY <2>2 DEF Range
<1>6. Head(s) \in Range(s) /\ Head(s) \in S
  BY <1>3 DEF Range
<1>7. QED
  BY <1>2, <1>4, <1>5, <1>6 DEF t

-----------------------------------------------------------------------------
\* The inductive invariant.

\* A block that counts picks by weight has a clause to give by age, and has
\* counted those picks.
AgedBehind ==
  /\ aged \in [Queues -> Nat]
  /\ \A q \in Queues : aged[q] = 0 \/ (simple[q] # <<>> /\ aged[q] <= prior[q])

\* NothingLost, clause by clause.
WaitingAhead ==
  \A x \in waiting : (\E q \in Queues : x \in Range(simple[q])) \/ x \in Partials

IInv ==
  /\ TypeOK
  /\ strategy \in Strategies /\ ratio \in Ratios
  /\ AgedBehind
  /\ WaitingAhead
  /\ ExhaustedIsEmpty

\* The ratio is a number.
LEMMA RatioNat == IInv => ratio \in Nat
  BY PQAssumption DEF IInv

\* What it means that a clause is kept.
LEMMA KeptIff ==
  ASSUME NEW x
  PROVE  x \in Kept <=> \/ \E q \in Queues : \/ x \in Range(simple[q])
                                             \/ \E w \in Priors : x \in Range(bucket[q][w])
                        \/ x \in Partials
<1> DEFINE Block(q) == Range(simple[q]) \cup Entries(bucket[q])
<1>1. Kept = (UNION {Block(q) : q \in Queues}) \cup Partials
  BY DEF Kept
<1>2. \A q : x \in Block(q) <=> \/ x \in Range(simple[q])
                                \/ \E w \in Priors : x \in Range(bucket[q][w])
  BY DEF Entries
<1> HIDE DEF Block
<1>3. x \in UNION {Block(q) : q \in Queues} <=> \E q \in Queues : x \in Block(q)
  BY Zenon
<1>4. QED
  BY <1>1, <1>2, <1>3

\* The same in the state after a step.
LEMMA KeptIffNext ==
  ASSUME NEW x
  PROVE  x \in Kept' <=> \/ \E q \in Queues : \/ x \in Range(simple'[q])
                                             \/ \E w \in Priors : x \in Range(bucket'[q][w])
                        \/ x \in Partials'
<1> DEFINE Block(q) == Range(simple'[q]) \cup Entries(bucket'[q])
<1>1. Kept' = (UNION {Block(q) : q \in Queues}) \cup Partials'
  BY DEF Kept
<1>2. \A q : x \in Block(q) <=> \/ x \in Range(simple'[q])
                                \/ \E w \in Priors : x \in Range(bucket'[q][w])
  BY DEF Entries
<1> HIDE DEF Block
<1>3. x \in UNION {Block(q) : q \in Queues} <=> \E q \in Queues : x \in Block(q)
  BY Zenon
<1>4. QED
  BY <1>1, <1>2, <1>3

\* The invariant gives what the run checks.
LEMMA WaitingIff == WaitingAhead => NothingLost
<1> DEFINE Aged == UNION {Range(simple[q]) : q \in Queues}
<1>1. \A x : x \in Aged <=> \E q \in Queues : x \in Range(simple[q])
  BY Zenon
<1>2. NothingLost <=> \A x \in waiting : x \in Aged \/ x \in Partials
  BY DEF NothingLost
<1> HIDE DEF Aged
<1>3. QED
  BY <1>1, <1>2 DEF WaitingAhead

\* The initial states satisfy the invariant.
LEMMA InitInv == Init => IInv
<1> SUFFICES ASSUME Init PROVE IInv
  OBVIOUS
<1> USE PQAssumption DEF Init
<1>1. strategy \in Strategies /\ ratio \in Ratios /\ ratio \in Nat /\ 0 \in 0..ratio
  OBVIOUS
<1>2. TypeOK
  <2>1. <<>> \in Seq(Clauses) /\ <<>> \in Seq([cl : Clauses, lits : 1..MaxLits])
    OBVIOUS
  <2>2. 0 \in 0..MaxLits /\ 0 \in 0..6 /\ 0 \in 0..4
    OBVIOUS
  <2>3. QED
    BY <1>1, <2>1, <2>2 DEF TypeOK
<1>3. AgedBehind
  BY DEF AgedBehind
<1>4. QED
  BY <1>1, <1>2, <1>3 DEF IInv, WaitingAhead, ExhaustedIsEmpty

-----------------------------------------------------------------------------
\* Pushing.

\* The block and the prior that a clause is pushed to exist.
LEMMA BlockOf == \A k : SelectQueue(k) \in Queues
  BY DEF SelectQueue, Queues

LEMMA PriorOf ==
  ASSUME NEW w \in Int, w >= 0
  PROVE  (IF w > MaxPrior THEN MaxPrior ELSE w) \in Priors
  BY PQAssumption DEF Priors

\* What a push does to the two orders of a block.
LEMMA PushFacts ==
  ASSUME IInv, NEW c \in Clauses, NEW k \in Kinds, NEW w \in Weights, Push(c, k, w)
  PROVE  /\ simple' \in [Queues -> Seq(Clauses)]
         /\ bucket' \in [Queues -> [Priors -> Seq(Clauses)]]
         /\ \A p \in Queues : /\ Range(simple'[p]) = IF p = SelectQueue(k)
                                                     THEN Range(simple[p]) \cup {c}
                                                     ELSE Range(simple[p])
                              /\ simple[p] # <<>> => simple'[p] # <<>>
         /\ \A p \in Queues, v \in Priors :
              \/ bucket'[p][v] = bucket[p][v]
              \/ Range(bucket'[p][v]) = Range(bucket[p][v]) \cup {c}
<1> DEFINE q == SelectQueue(k)
<1>1. q \in Queues
  BY BlockOf
<1>2. /\ simple \in [Queues -> Seq(Clauses)]
      /\ bucket \in [Queues -> [Priors -> Seq(Clauses)]]
  BY DEF IInv, TypeOK
<1>3. /\ simple' = [simple EXCEPT ![q] = Append(@, c)]
      /\ bucket' = [bucket EXCEPT ![q] = PushPrior(@, c, w)]
  BY DEF Push
<1> HIDE DEF q
<1>4. /\ simple' \in [Queues -> Seq(Clauses)]
      /\ \A p \in Queues : /\ Range(simple'[p]) = IF p = q THEN Range(simple[p]) \cup {c}
                                                           ELSE Range(simple[p])
                           /\ simple[p] # <<>> => simple'[p] # <<>>
  <2>1. /\ Append(simple[q], c) \in Seq(Clauses) /\ Append(simple[q], c) # <<>>
        /\ Range(Append(simple[q], c)) = Range(simple[q]) \cup {c}
    BY <1>1, <1>2, AppendFacts
  <2>2. \A p \in Queues : simple'[p] = IF p = q THEN Append(simple[q], c) ELSE simple[p]
    BY <1>1, <1>2, <1>3
  <2>3. simple' \in [Queues -> Seq(Clauses)]
    BY <2>1, <1>1, <1>2, <1>3
  <2>4. QED
    BY <2>1, <2>2, <2>3
<1>5. CASE w < 0
  <2>1. bucket' = bucket
    BY <1>1, <1>2, <1>3, <1>5 DEF PushPrior
  <2>2. QED
    BY <2>1, <1>2, <1>4 DEF q
<1>6. CASE ~ (w < 0)
  <2> DEFINE v == IF w > MaxPrior THEN MaxPrior ELSE w
  <2>1. v \in Priors
    <3>1. w \in Int /\ w >= 0
      BY <1>6, PQAssumption
    <3>2. QED
      BY <3>1, PriorOf
  <2>2. PushPrior(bucket[q], c, w) = [bucket[q] EXCEPT ![v] = Append(@, c)]
    BY <1>6 DEF PushPrior
  <2> HIDE DEF v
  <2>3. /\ Append(bucket[q][v], c) \in Seq(Clauses)
        /\ Range(Append(bucket[q][v], c)) = Range(bucket[q][v]) \cup {c}
    BY <1>1, <1>2, <2>1, AppendFacts
  <2>4. \A p \in Queues, u \in Priors :
          bucket'[p][u] = IF p = q /\ u = v THEN Append(bucket[q][v], c) ELSE bucket[p][u]
    BY <1>1, <1>2, <1>3, <2>1, <2>2
  <2>5. [bucket[q] EXCEPT ![v] = Append(@, c)] \in [Priors -> Seq(Clauses)]
    BY <1>1, <1>2, <2>1, <2>3
  <2>6. bucket' \in [Queues -> [Priors -> Seq(Clauses)]]
    BY <1>1, <1>2, <1>3, <2>2, <2>5
  <2>7. QED
    BY <1>4, <2>3, <2>4, <2>6 DEF q
<1>7. QED
  BY <1>5, <1>6

LEMMA PushInv ==
  ASSUME IInv, NEW c \in Clauses, NEW k \in Kinds, NEW w \in Weights, Push(c, k, w)
  PROVE  IInv'
<1>1. /\ mode # "done" /\ waiting' = waiting \cup {c}
      /\ UNCHANGED <<strategy, ratio, prior, turn, block, aged, hyper, lits, mode>>
  BY DEF Push, settings
<1>2. TypeOK'
  BY <1>1, PushFacts DEF IInv, TypeOK
<1>3. AgedBehind'
  BY <1>1, PushFacts DEF IInv, AgedBehind
<1>4. WaitingAhead'
  <2>1. /\ c \in Range(simple'[SelectQueue(k)])
        /\ \A p \in Queues : Range(simple[p]) \subseteq Range(simple'[p])
    BY PushFacts, BlockOf
  <2>2. Partials' = Partials
    BY <1>1 DEF Partials
  <2>3. QED
    BY <1>1, <2>1, <2>2, BlockOf DEF IInv, WaitingAhead
<1>5. QED
  BY <1>1, <1>2, <1>3, <1>4 DEF IInv, ExhaustedIsEmpty

LEMMA PushHyperInv ==
  ASSUME IInv, NEW c \in Clauses, NEW n \in 1..MaxLits, PushHyper(c, n)
  PROVE  IInv' /\ Partials' = Partials \cup {c}
<1> DEFINE h == [cl |-> c, lits |-> n]
<1>1. /\ mode = "work" /\ waiting' = waiting \cup {c} /\ hyper' = Append(hyper, h)
      /\ UNCHANGED <<strategy, ratio, simple, bucket, prior, turn, block, aged, lits, mode>>
  BY DEF PushHyper, settings, queueVars
<1>2. /\ hyper' \in Seq([cl : Clauses, lits : 1..MaxLits])
      /\ Range(hyper') = Range(hyper) \cup {h}
  <2> DEFINE S == [cl : Clauses, lits : 1..MaxLits]
  <2>1. hyper \in Seq(S)
    BY DEF IInv, TypeOK
  <2>2. h \in S
    OBVIOUS
  <2> HIDE DEF h, S
  <2>3. hyper' \in Seq(S) /\ Range(hyper') = Range(hyper) \cup {h}
    BY <1>1, <2>1, <2>2, AppendFacts
  <2>4. QED
    BY <2>3 DEF S
<1>3. Partials' = Partials \cup {c}
  <2>1. h.cl = c
    OBVIOUS
  <2> HIDE DEF h
  <2>2. \A x : x \in Partials' <=> \E e \in Range(hyper') : x = e.cl
    BY DEF Partials, Range
  <2>3. \A x : x \in Partials <=> \E e \in Range(hyper) : x = e.cl
    BY DEF Partials, Range
  <2>4. QED
    BY <1>2, <2>1, <2>2, <2>3
<1>4. TypeOK'
  BY <1>1, <1>2 DEF IInv, TypeOK
<1>5. WaitingAhead'
  BY <1>1, <1>3 DEF IInv, WaitingAhead
<1>6. QED
  BY <1>1, <1>3, <1>4, <1>5 DEF IInv, AgedBehind, ExhaustedIsEmpty

-----------------------------------------------------------------------------
\* Picking.

\* The empty sequence has no elements.
LEMMA EmptyRange == Range(<<>>) = {}
  BY DEF Range

\* A priority queue with entries has a lightest bucket.
LEMMA LightestFacts ==
  ASSUME IInv, NEW q \in Queues, Entries(bucket[q]) # {}
  PROVE  Lightest(bucket[q]) \in Priors /\ bucket[q][Lightest(bucket[q])] # <<>>
<1> DEFINE b == bucket[q]
           T == {w \in Priors : b[w] # <<>>}
<1>1. PICK w \in Priors : Range(b[w]) # {}
  BY DEF Entries
<1>2. T # {} /\ T \subseteq Nat
  BY <1>1, EmptyRange, PQAssumption DEF Priors
<1> HIDE DEF b
<1>3. PICK m \in T : \A n \in T : m <= n
  BY <1>2, LeastElement
<1>4. m \in Priors /\ b[m] # <<>>
  OBVIOUS
<1>5. ASSUME NEW v \in 0..(m - 1), b[v] # <<>>
      PROVE  FALSE
  <2>1. v \in Priors /\ v < m
    BY <1>4, <1>5, PQAssumption DEF Priors
  <2>2. m <= v
    BY <2>1, <1>3, <1>5
  <2>3. QED
    BY <2>1, <2>2, <1>4, PQAssumption DEF Priors
<1>6. \E x \in Priors : b[x] # <<>> /\ \A v \in 0..(x - 1) : b[v] = <<>>
  BY <1>4, <1>5
<1>7. QED
  BY <1>6 DEF Lightest, b

\* A block that is passed over has nothing to give by age.
LEMMA NothingByAge == \A q : ~ Yields(q) => simple[q] = <<>>
  BY DEF Yields

\* The clause that a pick from block q gives.
Picked(q) == IF ByWeight(q) THEN Head(bucket[q][Lightest(bucket[q])]) ELSE Head(simple[q])

\* Block q is the one the search ends at.
Found(q) == Yields(q) /\ \A p \in Queues : Distance(p) < Distance(q) => ~Yields(p)

\* The counters after the blocks in S were looked at in vain.
LEMMA SkippedFacts ==
  ASSUME IInv, NEW S
  PROVE  /\ Skipped(S) \in [Queues -> 0..ratio]
         /\ \A p \in Queues : /\ p \notin S => Skipped(S)[p] = prior[p]
                              /\ Skipped(S)[p] \in {prior[p], 0}
<1>1. prior \in [Queues -> 0..ratio] /\ ratio \in Nat /\ 0 \in 0..ratio
  BY RatioNat DEF IInv, TypeOK
<1>2. Skipped(S) = [p \in Queues |-> IF p \in S /\ prior[p] >= ratio THEN 0 ELSE prior[p]]
  BY DEF Skipped
<1> HIDE DEF Skipped
<1>3. QED
  BY <1>1, <1>2

\* The part of TakeFrom that both orders share.
LEMMA ServedFacts ==
  ASSUME IInv, NEW q \in Queues, Served(q)
  PROVE  turn' \in [Queues -> 0..6] /\ block' \in 0..4
<1>1. turn \in [Queues -> 0..6] /\ q \in 0..3 /\ turn[q] \in 0..6
  BY DEF IInv, TypeOK, Queues
<1>2. ThisRatio(q) \in {1, 4, 6}
  BY <1>1 DEF ThisRatio
<1>3. CASE turn[q] + 1 >= ThisRatio(q)
  BY <1>1, <1>3 DEF Served
<1>4. CASE ~ (turn[q] + 1 >= ThisRatio(q))
  <2>1. turn[q] + 2 \in 0..6
    BY <1>1, <1>2, <1>4
  <2>2. turn' = [turn EXCEPT ![q] = turn[q] + 2] /\ block' = q
    BY <1>4 DEF Served
  <2>3. QED
    BY <1>1, <2>1, <2>2
<1>5. QED
  BY <1>3, <1>4

\* A pick by weight.
LEMMA TakeByWeight ==
  ASSUME IInv, NEW q \in Queues, TakeFrom(q), Found(q), ByWeight(q)
  PROVE  /\ simple' = simple
         /\ bucket' \in [Queues -> [Priors -> Seq(Clauses)]]
         /\ prior' \in [Queues -> 0..ratio]
         /\ AgedBehind'
         /\ Picked(q) \in Range(bucket[q][Lightest(bucket[q])])
         /\ Lightest(bucket[q]) \in Priors
         /\ \A p \in Queues, v \in Priors :
              \/ bucket'[p][v] = bucket[p][v]
              \/ Range(bucket[p][v]) = Range(bucket'[p][v]) \cup {Picked(q)}
<1> DEFINE w == Lightest(bucket[q])
           skipped == Skipped({p \in Queues : Distance(p) < Distance(q)})
<1>1. w \in Priors /\ bucket[q][w] # <<>>
  BY LightestFacts DEF ByWeight
<1>2. /\ simple' = simple
      /\ bucket' = [bucket EXCEPT ![q][w] = Tail(@)]
      /\ prior' = [skipped EXCEPT ![q] = @ + 1]
      /\ aged' = [aged EXCEPT ![q] = IF simple[q] = <<>> THEN 0 ELSE @ + 1]
  BY DEF TakeFrom
<1>3. /\ bucket \in [Queues -> [Priors -> Seq(Clauses)]]
      /\ prior \in [Queues -> 0..ratio] /\ ratio \in Nat /\ prior[q] < ratio
      /\ aged \in [Queues -> Nat]
  BY RatioNat DEF IInv, TypeOK, AgedBehind, ByWeight
<1>4. /\ skipped \in [Queues -> 0..ratio]
      /\ \A p \in Queues : ~ (Distance(p) < Distance(q)) => skipped[p] = prior[p]
  BY SkippedFacts
<1>5. skipped[q] = prior[q]
  <2>1. Distance(q) \in Int
    BY DEF Distance, First, Queues, IInv, TypeOK
  <2>2. ~ (Distance(q) < Distance(q))
    BY <2>1
  <2>3. QED
    BY <2>2, <1>4
<1>6. Picked(q) = Head(bucket[q][w])
  BY DEF Picked
<1> HIDE DEF w, skipped
<1>7. /\ Head(bucket[q][w]) \in Range(bucket[q][w])
      /\ Tail(bucket[q][w]) \in Seq(Clauses)
      /\ Range(bucket[q][w]) = Range(Tail(bucket[q][w])) \cup {Head(bucket[q][w])}
  BY <1>1, <1>3, TailFacts
<1>8. \A p \in Queues, v \in Priors :
        bucket'[p][v] = IF p = q /\ v = w THEN Tail(bucket[q][w]) ELSE bucket[p][v]
  BY <1>1, <1>2, <1>3
<1>9. bucket' \in [Queues -> [Priors -> Seq(Clauses)]]
  <2>1. [bucket[q] EXCEPT ![w] = Tail(@)] \in [Priors -> Seq(Clauses)]
    BY <1>1, <1>3, <1>7
  <2>2. bucket' = [bucket EXCEPT ![q] = [bucket[q] EXCEPT ![w] = Tail(@)]]
    BY <1>2, <1>3
  <2>3. QED
    BY <2>1, <2>2, <1>3
<1>10. /\ prior' \in [Queues -> 0..ratio]
       /\ \A p \in Queues : prior'[p] = IF p = q THEN prior[q] + 1 ELSE skipped[p]
  BY <1>2, <1>3, <1>4, <1>5
<1>11. AgedBehind'
  <2>1. aged' \in [Queues -> Nat]
    BY <1>2, <1>3
  <2>2. ASSUME NEW p \in Queues
        PROVE  aged'[p] = 0 \/ (simple'[p] # <<>> /\ aged'[p] <= prior'[p])
    <3>1. aged[p] = 0 \/ (simple[p] # <<>> /\ aged[p] <= prior[p])
      BY DEF IInv, AgedBehind
    <3>2. CASE p = q
      <4>1. aged'[q] = IF simple[q] = <<>> THEN 0 ELSE aged[q] + 1
        BY <1>2, <1>3
      <4>2. aged[q] \in Nat /\ prior[q] \in Nat /\ prior'[q] = prior[q] + 1
        BY <1>3, <1>10
      <4>3. QED
        BY <1>2, <3>1, <3>2, <4>1, <4>2
    <3>3. CASE p # q
      <4>1. aged'[p] = aged[p] /\ prior'[p] = skipped[p]
        BY <1>2, <1>3, <1>10, <3>3
      <4>2. CASE Distance(p) < Distance(q)
        <5>1. simple[p] = <<>>
          BY <4>2, NothingByAge DEF Found
        <5>2. QED
          BY <3>1, <4>1, <5>1
      <4>3. CASE ~ (Distance(p) < Distance(q))
        BY <1>2, <1>4, <3>1, <4>1, <4>3
      <4>4. QED
        BY <4>2, <4>3
    <3>4. QED
      BY <3>2, <3>3
  <2>3. QED
    BY <2>1, <2>2 DEF AgedBehind
<1>12. QED
  BY <1>1, <1>2, <1>6, <1>7, <1>8, <1>9, <1>10, <1>11 DEF w

\* A pick by age.
LEMMA TakeByAge ==
  ASSUME IInv, NEW q \in Queues, TakeFrom(q), Found(q), ~ ByWeight(q)
  PROVE  /\ simple' \in [Queues -> Seq(Clauses)]
         /\ bucket' = bucket
         /\ prior' \in [Queues -> 0..ratio]
         /\ AgedBehind'
         /\ Picked(q) \in Range(simple[q])
         /\ \A p \in Queues :
              \/ simple'[p] = simple[p]
              \/ Range(simple[p]) = Range(simple'[p]) \cup {Picked(q)}
<1> DEFINE skipped == Skipped({p \in Queues : Distance(p) < Distance(q)})
<1>1. simple[q] # <<>>
  BY DEF Found, Yields
<1>2. /\ simple' = [simple EXCEPT ![q] = Tail(@)]
      /\ bucket' = bucket
      /\ prior' = [skipped EXCEPT ![q] = IF @ >= ratio THEN 0 ELSE @]
      /\ aged' = [aged EXCEPT ![q] = 0]
  BY DEF TakeFrom
<1>3. /\ simple \in [Queues -> Seq(Clauses)]
      /\ ratio \in Nat
      /\ aged \in [Queues -> Nat]
  BY RatioNat DEF IInv, TypeOK, AgedBehind
<1>4. /\ skipped \in [Queues -> 0..ratio]
      /\ \A p \in Queues : ~ (Distance(p) < Distance(q)) => skipped[p] = prior[p]
  BY SkippedFacts
<1>5. Picked(q) = Head(simple[q])
  BY DEF Picked
<1> HIDE DEF skipped
<1>6. /\ Head(simple[q]) \in Range(simple[q])
      /\ Tail(simple[q]) \in Seq(Clauses)
      /\ Range(simple[q]) = Range(Tail(simple[q])) \cup {Head(simple[q])}
  BY <1>1, <1>3, TailFacts
<1>7. /\ \A p \in Queues : simple'[p] = IF p = q THEN Tail(simple[q]) ELSE simple[p]
      /\ simple' \in [Queues -> Seq(Clauses)]
  BY <1>2, <1>3, <1>6
<1>8. /\ prior' \in [Queues -> 0..ratio]
      /\ \A p \in Queues : p # q => prior'[p] = skipped[p]
  BY <1>2, <1>3, <1>4
<1>9. AgedBehind'
  <2>1. aged' \in [Queues -> Nat]
    BY <1>2, <1>3
  <2>2. ASSUME NEW p \in Queues
        PROVE  aged'[p] = 0 \/ (simple'[p] # <<>> /\ aged'[p] <= prior'[p])
    <3>1. aged[p] = 0 \/ (simple[p] # <<>> /\ aged[p] <= prior[p])
      BY DEF IInv, AgedBehind
    <3>2. CASE p = q
      BY <1>2, <1>3, <3>2
    <3>3. CASE p # q
      <4>1. aged'[p] = aged[p] /\ prior'[p] = skipped[p] /\ simple'[p] = simple[p]
        BY <1>2, <1>3, <1>7, <1>8, <3>3
      <4>2. CASE Distance(p) < Distance(q)
        <5>1. simple[p] = <<>>
          BY <4>2, NothingByAge DEF Found
        <5>2. QED
          BY <3>1, <4>1, <5>1
      <4>3. CASE ~ (Distance(p) < Distance(q))
        BY <1>4, <3>1, <4>1, <4>3
      <4>4. QED
        BY <4>2, <4>3
    <3>4. QED
      BY <3>2, <3>3
  <2>3. QED
    BY <2>1, <2>2 DEF AgedBehind
<1>10. QED
  BY <1>2, <1>5, <1>6, <1>7, <1>8, <1>9

\* What a pick means for the store: one clause is no longer waiting, no other
\* clause leaves, and none comes.
PickStep(c) ==
  /\ c \in Kept
  /\ waiting' = waiting \ {c}
  /\ Kept' \subseteq Kept
  /\ Kept \ {c} \subseteq Kept'

\* Each pick from a block is such a step, and keeps what is ahead by age.
LEMMA TakeFacts ==
  ASSUME IInv, NEW q \in Queues, TakeFrom(q), Found(q), hyper' = hyper
  PROVE  PickStep(Picked(q)) /\ WaitingAhead'
<1>1. waiting' = waiting \ {Picked(q)}
  BY DEF TakeFrom, Picked
<1>2. Partials' = Partials
  BY DEF Partials
<1>3. CASE ByWeight(q)
  <2>1. /\ simple' = simple
        /\ \A p \in Queues, v \in Priors :
              \/ bucket'[p][v] = bucket[p][v]
              \/ Range(bucket[p][v]) = Range(bucket'[p][v]) \cup {Picked(q)}
        /\ Picked(q) \in Range(bucket[q][Lightest(bucket[q])])
        /\ Lightest(bucket[q]) \in Priors
    BY <1>3, TakeByWeight
  <2>2. Picked(q) \in Kept
    BY <2>1, KeptIff
  <2>3. \A x : x \in Kept' => x \in Kept
    BY <1>2, <2>1, KeptIff, KeptIffNext
  <2>4. \A x : x \in Kept /\ x # Picked(q) => x \in Kept'
    BY <1>2, <2>1, KeptIff, KeptIffNext
  <2>5. WaitingAhead'
    BY <1>1, <1>2, <2>1 DEF IInv, WaitingAhead
  <2>6. QED
    BY <1>1, <2>2, <2>3, <2>4, <2>5 DEF PickStep
<1>4. CASE ~ ByWeight(q)
  <2>1. /\ bucket' = bucket
        /\ Picked(q) \in Range(simple[q])
        /\ \A p \in Queues :
              \/ simple'[p] = simple[p]
              \/ Range(simple[p]) = Range(simple'[p]) \cup {Picked(q)}
    BY <1>4, TakeByAge
  <2>2. Picked(q) \in Kept
    BY <2>1, KeptIff
  <2>3. \A x : x \in Kept' => x \in Kept
    BY <1>2, <2>1, KeptIff, KeptIffNext
  <2>4. \A x : x \in Kept /\ x # Picked(q) => x \in Kept'
    BY <1>2, <2>1, KeptIff, KeptIffNext
  <2>5. WaitingAhead'
    BY <1>1, <1>2, <2>1 DEF IInv, WaitingAhead
  <2>6. QED
    BY <1>1, <2>2, <2>3, <2>4, <2>5 DEF PickStep
<1>5. QED
  BY <1>3, <1>4

\* The next given clause from a block.
LEMMA PickInv ==
  ASSUME IInv, Pick
  PROVE  IInv' /\ mode # "done" /\ mode' # "done" /\ \E c : PickStep(c)
<1>1. PICK q \in Queues : Found(q) /\ TakeFrom(q)
  BY DEF Pick, Found
<1>2. /\ mode # "done" /\ mode' = "work" /\ lits' = MaxLits
      /\ UNCHANGED <<strategy, ratio, hyper>>
  BY DEF Pick, settings
<1>3. turn' \in [Queues -> 0..6] /\ block' \in 0..4
  BY <1>1, ServedFacts DEF TakeFrom
<1>4. /\ simple' \in [Queues -> Seq(Clauses)]
      /\ bucket' \in [Queues -> [Priors -> Seq(Clauses)]]
      /\ prior' \in [Queues -> 0..ratio]
      /\ AgedBehind'
  <2>1. CASE ByWeight(q)
    BY <1>1, <2>1, TakeByWeight DEF IInv, TypeOK
  <2>2. CASE ~ ByWeight(q)
    BY <1>1, <2>2, TakeByAge DEF IInv, TypeOK
  <2>3. QED
    BY <2>1, <2>2
<1>5. TypeOK'
  <2>1. lits' \in 0..MaxLits
    BY <1>2, PQAssumption
  <2>2. QED
    BY <1>2, <1>3, <1>4, <2>1 DEF IInv, TypeOK
<1>6. PickStep(Picked(q)) /\ WaitingAhead'
  BY <1>1, <1>2, TakeFacts
<1>7. QED
  BY <1>2, <1>4, <1>5, <1>6 DEF IInv, ExhaustedIsEmpty

\* The next given clause from the hyper queue.
LEMMA PickHyperInv ==
  ASSUME IInv, PickHyper
  PROVE  IInv' /\ mode # "done" /\ mode' # "done" /\ \E c : PickStep(c)
<1> DEFINE S == [cl : Clauses, lits : 1..MaxLits]
           h == Head(hyper)
<1>1. /\ mode # "done" /\ hyper # <<>> /\ hyper' = Tail(hyper)
      /\ lits' = IF ParaPartials THEN h.lits ELSE h.lits - 1
      /\ waiting' = waiting \ {h.cl}
      /\ UNCHANGED <<strategy, ratio, simple, bucket, prior, turn, block, aged, mode>>
  BY DEF PickHyper, settings, queueVars
<1>2. /\ h \in Range(hyper) /\ h \in S
      /\ hyper' \in Seq(S)
      /\ Range(hyper) = Range(hyper') \cup {h}
  <2>1. hyper \in Seq(S)
    BY DEF IInv, TypeOK
  <2> HIDE DEF S
  <2>2. QED
    BY <1>1, <2>1, TailFacts
<1>3. lits' \in 0..MaxLits
  <2>1. h.lits \in 1..MaxLits
    BY <1>2
  <2> HIDE DEF h
  <2>2. QED
    BY <1>1, <2>1, PQAssumption
<1>4. TypeOK'
  BY <1>1, <1>2, <1>3 DEF IInv, TypeOK
<1> HIDE DEF h, S
<1>5. /\ \A x : x \in Partials' <=> \E e \in Range(hyper') : x = e.cl
      /\ \A x : x \in Partials <=> \E e \in Range(hyper) : x = e.cl
  BY DEF Partials, Range
<1>6. /\ h.cl \in Partials /\ Partials' \subseteq Partials
      /\ \A x \in Partials : x # h.cl => x \in Partials'
  BY <1>2, <1>5
<1>7. WaitingAhead'
  BY <1>1, <1>6 DEF IInv, WaitingAhead
<1>8. PickStep(h.cl)
  <2>1. h.cl \in Kept
    BY <1>6, KeptIff
  <2>2. \A x : x \in Kept' => x \in Kept
    BY <1>1, <1>6, KeptIff, KeptIffNext
  <2>3. \A x : x \in Kept /\ x # h.cl => x \in Kept'
    BY <1>1, <1>6, KeptIff, KeptIffNext
  <2>4. QED
    BY <1>1, <2>1, <2>2, <2>3 DEF PickStep
<1>9. QED
  BY <1>1, <1>4, <1>7, <1>8 DEF IInv, AgedBehind, ExhaustedIsEmpty

\* The loop ends only when no clause waits.
LEMMA ExhaustedInv ==
  ASSUME IInv, Exhausted
  PROVE  IInv' /\ waiting = {} /\ Kept' = Kept
<1>1. /\ mode # "done" /\ hyper = <<>> /\ \A q \in Queues : ~Yields(q)
      /\ prior' = Skipped(Queues) /\ block' = First
      /\ UNCHANGED <<strategy, ratio, simple, bucket, turn, hyper, lits, waiting, aged>>
  BY DEF Exhausted, settings
<1>2. \A q \in Queues : simple[q] = <<>>
  BY <1>1, NothingByAge
<1>3. Partials = {}
  BY <1>1 DEF Partials
<1>4. waiting = {}
  BY <1>2, <1>3, EmptyRange DEF IInv, WaitingAhead
<1>5. TypeOK'
  <2>1. block' \in 0..4
    BY <1>1 DEF First, IInv, TypeOK
  <2>2. prior' \in [Queues -> 0..ratio]
    BY <1>1, SkippedFacts
  <2>3. mode' \in {"load", "work", "done"}
    BY DEF Exhausted
  <2>4. QED
    BY <1>1, <2>1, <2>2, <2>3 DEF IInv, TypeOK
<1>6. AgedBehind'
  BY <1>1, <1>2 DEF IInv, AgedBehind
<1>7. Kept' = Kept
  <2>1. Partials' = Partials
    BY <1>1 DEF Partials
  <2>2. \A x : x \in Kept' <=> x \in Kept
    BY <1>1, <2>1, KeptIff, KeptIffNext
  <2>3. QED
    BY <2>2
<1>8. QED
  BY <1>1, <1>4, <1>5, <1>6, <1>7 DEF IInv, WaitingAhead, ExhaustedIsEmpty

-----------------------------------------------------------------------------
\* The results.

\* Every step keeps the invariant.
LEMMA NextInv ==
  ASSUME IInv, [Next]_vars
  PROVE  IInv'
<1>1. CASE UNCHANGED vars
  BY <1>1 DEF vars, settings, queueVars, IInv, TypeOK, AgedBehind, WaitingAhead, Partials, ExhaustedIsEmpty
<1>2. ASSUME NEW c \in Clauses, NEW k \in Kinds, NEW w \in Weights, Push(c, k, w)
      PROVE  IInv'
  BY <1>2, PushInv
<1>3. ASSUME NEW c \in Clauses, NEW n \in 1..MaxLits, PushHyper(c, n)
      PROVE  IInv'
  BY <1>3, PushHyperInv
<1>4. QED
  BY <1>1, <1>2, <1>3, PickInv, PickHyperInv, ExhaustedInv DEF Next

\* The invariant holds in every reachable state.
THEOREM Invariance == Spec => []IInv
<1>1. IInv /\ [Next]_vars => IInv'
  BY NextInv
<1>2. QED
  BY InitInv, <1>1, PTL DEF Spec

\* Every variable keeps its type; no bucket, counter or block number is out of
\* the bounds that the code allocates.
THEOREM Typed == Spec => []TypeOK
<1>1. IInv => TypeOK
  BY DEF IInv
<1>2. QED
  BY Invariance, <1>1, PTL

\* A clause that was never picked is ahead in a simple queue or in the hyper queue.
THEOREM NeverLost == Spec => []NothingLost
<1>1. IInv => NothingLost
  BY WaitingIff DEF IInv
<1>2. QED
  BY Invariance, <1>1, PTL

\* The search does not end while a clause was never picked.
THEOREM EndsEmpty == Spec => []ExhaustedIsEmpty
<1>1. IInv => ExhaustedIsEmpty
  BY DEF IInv
<1>2. QED
  BY Invariance, <1>1, PTL

\* A block counts at most as many picks by weight as the guide says.
LEMMA AgeFollows == IInv => AgeShare
<1> SUFFICES ASSUME IInv PROVE AgeShare
  OBVIOUS
<1>1. ratio \in Nat /\ prior \in [Queues -> 0..ratio]
  BY RatioNat DEF IInv, TypeOK
<1>2. ASSUME NEW q \in Queues
      PROVE  aged[q] <= ratio
  <2>1. prior[q] \in Nat /\ prior[q] <= ratio /\ aged[q] \in Nat
    BY <1>1 DEF IInv, AgedBehind
  <2>2. aged[q] = 0 \/ aged[q] <= prior[q]
    BY DEF IInv, AgedBehind
  <2>3. QED
    BY <1>1, <2>1, <2>2
<1>3. QED
  BY <1>2 DEF AgeShare

\* Between two picks by age from a block there are at most as many by weight as
\* the guide says.
THEOREM AgeIsServed == Spec => []AgeShare
  BY Invariance, AgeFollows, PTL

-----------------------------------------------------------------------------
\* The turns of the blocks.

\* While a block keeps its turn, at least one more pick belongs to the turn; the
\* counter was increased twice for each pick that did.
Turns ==
  /\ turn \in [Queues -> {0, 2, 4, 6}]
  /\ \A q \in Queues : turn[q] + 2 <= 2 * Burst(q)

\* Twice the picks that may have passed over block p when the search starts at
\* block f and t is that block's counter: whole turns of the blocks between p and
\* f, and what f has had of its own.
MayPass(p, f, t) ==
  LET b(i) == 2 * Burst((p + i) % 4) IN
    CASE f = p             -> b(1) + b(2) + b(3)
      [] f = (p + 1) % 4   -> t
      [] f = (p + 2) % 4   -> b(1) + t
      [] f = (p + 3) % 4   -> b(1) + b(2) + t

PassedBehind ==
  /\ passed \in [Queues -> Nat]
  /\ \A p \in Queues : 2 * passed[p] <= MayPass(p, First, turn[First])

FInv == IInv /\ Turns /\ PassedBehind

\* The lengths of the turns, in picks.
LEMMA BurstFacts ==
  /\ \A q \in Queues : Burst(q) \in 1..4
  /\ \A q \in Queues :
       \/ ThisRatio(q) = 6 /\ Burst(q) = 4
       \/ ThisRatio(q) = 4 /\ Burst(q) = 3
       \/ ThisRatio(q) = 1 /\ Burst(q) = 1
<1> SUFFICES ASSUME NEW q \in Queues
             PROVE  /\ Burst(q) \in 1..4
                    /\ \/ ThisRatio(q) = 6 /\ Burst(q) = 4
                       \/ ThisRatio(q) = 4 /\ Burst(q) = 3
                       \/ ThisRatio(q) = 1 /\ Burst(q) = 1
  OBVIOUS
<1>1. q = 0 \/ q = 1 \/ q = 2 \/ q = 3
  BY DEF Queues
<1>2. CASE strategy = 0
  BY <1>2 DEF Burst, ThisRatio
<1>3. CASE strategy # 0
  BY <1>1, <1>3 DEF Burst, ThisRatio
<1>4. QED
  BY <1>2, <1>3

\* The next block to look at and the way to it from any block.
LEMMA AroundFour ==
  ASSUME NEW p \in Queues, NEW f \in Queues
  PROVE  /\ (p + 1) % 4 \in Queues /\ (p + 2) % 4 \in Queues /\ (p + 3) % 4 \in Queues
         /\ \/ f = p /\ (p - f) % 4 = 0
            \/ f = (p + 1) % 4 /\ (p - f) % 4 = 3
            \/ f = (p + 2) % 4 /\ (p - f) % 4 = 2
            \/ f = (p + 3) % 4 /\ (p - f) % 4 = 1
         /\ p # (p + 1) % 4 /\ p # (p + 2) % 4 /\ p # (p + 3) % 4
         /\ (p + 1) % 4 # (p + 2) % 4 /\ (p + 1) % 4 # (p + 3) % 4
         /\ (p + 2) % 4 # (p + 3) % 4
  BY DEF Queues

\* MayPass without the blocks' numbers.
LEMMA MayPassFacts ==
  ASSUME NEW p \in Queues, NEW f \in Queues, NEW t
  PROVE  LET b1 == Burst((p + 1) % 4)
             b2 == Burst((p + 2) % 4)
             b3 == Burst((p + 3) % 4)
         IN /\ b1 \in 1..4 /\ b2 \in 1..4 /\ b3 \in 1..4
            /\ \/ (p - f) % 4 = 0 /\ MayPass(p, f, t) = 2 * b1 + 2 * b2 + 2 * b3
               \/ f = (p + 1) % 4 /\ (p - f) % 4 = 3 /\ MayPass(p, f, t) = t
               \/ f = (p + 2) % 4 /\ (p - f) % 4 = 2 /\ MayPass(p, f, t) = 2 * b1 + t
               \/ f = (p + 3) % 4 /\ (p - f) % 4 = 1 /\ MayPass(p, f, t) = 2 * b1 + 2 * b2 + t
<1>1. (p + 1) % 4 \in Queues /\ (p + 2) % 4 \in Queues /\ (p + 3) % 4 \in Queues
  BY AroundFour
<1>2. CASE f = p
  BY <1>1, <1>2, AroundFour, BurstFacts DEF MayPass
<1>3. CASE f = (p + 1) % 4
  BY <1>1, <1>3, AroundFour, BurstFacts DEF MayPass
<1>4. CASE f = (p + 2) % 4
  BY <1>1, <1>4, AroundFour, BurstFacts DEF MayPass
<1>5. CASE f = (p + 3) % 4
  BY <1>1, <1>5, AroundFour, BurstFacts DEF MayPass
<1>6. QED
  BY <1>2, <1>3, <1>4, <1>5, AroundFour

\* One more pick, by the block f or one after it and before p, is one that the
\* place of the next search accounts for: block q again with a counter increased
\* by two, or the block after q.
LEMMA MayPassOneMore ==
  ASSUME NEW p \in Queues, NEW f \in Queues, NEW q \in Queues,
         (q - f) % 4 < (p - f) % 4,
         NEW t \in Nat, t + 2 <= 2 * Burst(f)
  PROVE  /\ \A u \in Nat : (q = f => u = t) => MayPass(p, f, t) + 2 <= MayPass(p, q, u + 2)
         /\ \A u \in Nat : MayPass(p, f, t) + 2 <= MayPass(p, (q + 1) % 4, u)
<1>1. /\ Burst((p + 1) % 4) \in 1..4 /\ Burst((p + 2) % 4) \in 1..4
      /\ Burst((p + 3) % 4) \in 1..4
      /\ (p + 1) % 4 \in Queues /\ (p + 2) % 4 \in Queues /\ (p + 3) % 4 \in Queues
  BY AroundFour, BurstFacts
<1>2. /\ f = (p + 1) % 4 => q \in {(p + 1) % 4, (p + 2) % 4, (p + 3) % 4}
      /\ f = (p + 2) % 4 => q \in {(p + 2) % 4, (p + 3) % 4}
      /\ f = (p + 3) % 4 => q = (p + 3) % 4
      /\ f \in {(p + 1) % 4, (p + 2) % 4, (p + 3) % 4}
      /\ q = (p + 1) % 4 => (q + 1) % 4 = (p + 2) % 4
      /\ q = (p + 2) % 4 => (q + 1) % 4 = (p + 3) % 4
      /\ q = (p + 3) % 4 => (q + 1) % 4 = p
  BY DEF Queues
<1> DEFINE b1 == Burst((p + 1) % 4)
           b2 == Burst((p + 2) % 4)
           b3 == Burst((p + 3) % 4)
<1>3. \A u : /\ MayPass(p, p, u) = 2 * b1 + 2 * b2 + 2 * b3
             /\ MayPass(p, (p + 1) % 4, u) = u
             /\ MayPass(p, (p + 2) % 4, u) = 2 * b1 + u
             /\ MayPass(p, (p + 3) % 4, u) = 2 * b1 + 2 * b2 + u
  BY <1>1, AroundFour DEF MayPass
<1>4. /\ f = (p + 1) % 4 => t + 2 <= 2 * b1
      /\ f = (p + 2) % 4 => t + 2 <= 2 * b2
      /\ f = (p + 3) % 4 => t + 2 <= 2 * b3
  OBVIOUS
<1>5. b1 \in Nat /\ b2 \in Nat /\ b3 \in Nat
  BY <1>1
<1> HIDE DEF b1, b2, b3
<1>6. CASE f = (p + 1) % 4
  BY <1>2, <1>3, <1>4, <1>5, <1>6
<1>7. CASE f = (p + 2) % 4
  BY <1>2, <1>3, <1>4, <1>5, <1>7
<1>8. CASE f = (p + 3) % 4
  BY <1>2, <1>3, <1>4, <1>5, <1>8
<1>9. QED
  BY <1>2, <1>6, <1>7, <1>8

\* The first block of a search.
LEMMA FirstFacts ==
  ASSUME block \in 0..4
  PROVE  First \in Queues /\ (block < 4 => First = block) /\ (block = 4 => First = 0)
  BY DEF First, Queues

\* A pick from the block that the search finds keeps the turns and what they are
\* worth.
LEMMA TakeTurns ==
  ASSUME FInv, NEW q \in Queues, Found(q), TakeFrom(q), UNCHANGED strategy
  PROVE  Turns' /\ PassedBehind'
<1>1. /\ turn \in [Queues -> {0, 2, 4, 6}] /\ passed \in [Queues -> Nat]
      /\ block \in 0..4 /\ First \in Queues
      /\ \A p \in Queues : turn[p] + 2 <= 2 * Burst(p)
  BY FirstFacts DEF FInv, IInv, TypeOK, Turns, PassedBehind
<1>2. \A p : Burst(p)' = Burst(p)
  BY DEF Burst
<1>3. \/ /\ turn[q] + 1 >= ThisRatio(q)
         /\ turn' = [turn EXCEPT ![q] = 0] /\ block' = q + 1
      \/ /\ turn[q] + 1 < ThisRatio(q)
         /\ turn' = [turn EXCEPT ![q] = turn[q] + 2] /\ block' = q
  <2>1. Served(q)
    BY DEF TakeFrom
  <2>2. turn[q] \in Int /\ ThisRatio(q) \in Int
    BY <1>1, BurstFacts
  <2>3. QED
    BY <2>1, <2>2 DEF Served
<1>4. /\ turn' \in [Queues -> {0, 2, 4, 6}]
      /\ \A p \in Queues : turn'[p] + 2 <= 2 * Burst(p)
  <2>1. Burst(q) \in 1..4 /\ turn[q] \in {0, 2, 4, 6}
    BY <1>1, BurstFacts
  <2>2. CASE turn' = [turn EXCEPT ![q] = 0]
    BY <1>1, <2>1, <2>2
  <2>3. CASE turn[q] + 1 < ThisRatio(q) /\ turn' = [turn EXCEPT ![q] = turn[q] + 2]
    <3>1. turn[q] + 2 \in {0, 2, 4, 6} /\ turn[q] + 2 + 2 <= 2 * Burst(q)
      BY <2>1, <2>3, BurstFacts
    <3>2. QED
      BY <1>1, <2>3, <3>1
  <2>4. QED
    BY <1>3, <2>2, <2>3
<1>5. First' = IF block' = q THEN q ELSE (q + 1) % 4
  <2>1. q = 0 \/ q = 1 \/ q = 2 \/ q = 3
    BY DEF Queues
  <2>2. First' = IF block' > 3 THEN 0 ELSE block'
    BY DEF First
  <2>3. QED
    BY <1>3, <2>1, <2>2
<1>6. ASSUME NEW p \in Queues
      PROVE  2 * passed'[p] <= MayPass(p, First', turn'[First'])
  <2>1. passed'[p] = IF p = q \/ simple[p] = <<>> THEN 0 ELSE passed[p] + 1
    BY DEF TakeFrom, PassedOver
  <2>2. First' \in Queues /\ turn'[First'] \in Nat
    <3>1. First' \in Queues
      BY <1>5, AroundFour
    <3>2. QED
      BY <1>4, <3>1
  <2>3. MayPass(p, First', turn'[First']) >= 0
    BY <2>2, MayPassFacts
  <2>4. CASE p = q \/ simple[p] = <<>>
    BY <2>1, <2>3, <2>4
  <2>5. CASE p # q /\ simple[p] # <<>>
    <3>1. (q - First) % 4 < (p - First) % 4
      <4>1. ~ (Distance(p) < Distance(q))
        BY <2>5 DEF Found, Yields
      <4>2. (p - First) % 4 # (q - First) % 4
        BY <2>5, <1>1 DEF Queues
      <4>3. (p - First) % 4 \in Int /\ (q - First) % 4 \in Int
        BY <1>1 DEF Queues
      <4>4. QED
        BY <4>1, <4>2, <4>3 DEF Distance
    <3>2. turn[First] \in Nat /\ turn[First] + 2 <= 2 * Burst(First) /\ turn[q] \in Nat
      BY <1>1
    <3>3. /\ \A u \in Nat : (q = First => u = turn[First])
                 => MayPass(p, First, turn[First]) + 2 <= MayPass(p, q, u + 2)
          /\ \A u \in Nat : MayPass(p, First, turn[First]) + 2 <= MayPass(p, (q + 1) % 4, u)
      BY <1>1, <3>1, <3>2, MayPassOneMore
    <3>4. MayPass(p, First, turn[First]) + 2 <= MayPass(p, First', turn'[First'])
      <4>1. CASE block' = q
        <5>1. First' = q /\ turn'[q] = turn[q] + 2
          BY <1>1, <1>3, <1>5, <4>1 DEF Queues
        <5>2. QED
          BY <3>2, <3>3, <5>1
      <4>2. CASE block' # q
        BY <1>5, <2>2, <3>3, <4>2
      <4>3. QED
        BY <4>1, <4>2
    <3>5. 2 * passed[p] <= MayPass(p, First, turn[First])
      BY DEF FInv, PassedBehind
    <3>6. /\ MayPass(p, First, turn[First]) \in Int
          /\ MayPass(p, First', turn'[First']) \in Int
          /\ passed[p] \in Nat
      BY <1>1, <2>2, <3>2, MayPassFacts
    <3>7. QED
      BY <2>1, <2>5, <3>4, <3>5, <3>6
  <2>6. QED
    BY <2>4, <2>5
<1>7. passed' \in [Queues -> Nat]
  BY <1>1 DEF TakeFrom, PassedOver
<1>8. \A p, f, t : MayPass(p, f, t)' = MayPass(p, f, t)
  BY <1>2 DEF MayPass
<1>9. QED
  BY <1>2, <1>4, <1>6, <1>7 DEF Turns, PassedBehind, MayPass

\* What none of the other steps changes.
LEMMA SameTurns ==
  ASSUME FInv, UNCHANGED <<strategy, turn, passed>>, First' = First
  PROVE  Turns' /\ PassedBehind'
  BY DEF FInv, Turns, PassedBehind, MayPass, Burst

\* Every step keeps the turns and what they are worth.
LEMMA NextFInv ==
  ASSUME FInv, [Next]_vars
  PROVE  FInv'
<1>1. IInv'
  BY NextInv DEF FInv
<1>2. Turns' /\ PassedBehind'
  <2>1. CASE UNCHANGED vars
    BY <2>1, SameTurns DEF vars, settings, queueVars, First
  <2>2. ASSUME NEW c \in Clauses, NEW k \in Kinds, NEW w \in Weights, Push(c, k, w)
        PROVE  Turns' /\ PassedBehind'
    BY <2>2, SameTurns DEF Push, settings, First
  <2>3. ASSUME NEW c \in Clauses, NEW n \in 1..MaxLits, PushHyper(c, n)
        PROVE  Turns' /\ PassedBehind'
    BY <2>3, SameTurns DEF PushHyper, settings, queueVars, First
  <2>4. CASE Pick
    BY <2>4, TakeTurns DEF Pick, Found, settings
  <2>5. CASE PickHyper
    BY <2>5, SameTurns DEF PickHyper, settings, queueVars, First
  <2>6. CASE Exhausted
    <3>1. block' = First /\ First \in Queues
      BY <2>6, FirstFacts DEF Exhausted, FInv, IInv, TypeOK
    <3>2. First' = First
      BY <3>1 DEF First, Queues
    <3>3. QED
      BY <2>6, <3>2, SameTurns DEF Exhausted, settings
  <2>7. QED
    BY <2>1, <2>2, <2>3, <2>4, <2>5, <2>6 DEF Next
<1>3. QED
  BY <1>1, <1>2 DEF FInv

\* At the beginning nothing was picked.
LEMMA InitFInv == Init => FInv
<1> SUFFICES ASSUME Init PROVE FInv
  OBVIOUS
<1>1. /\ IInv /\ First = 0 /\ turn \in [Queues -> {0}] /\ passed \in [Queues -> {0}]
  BY InitInv DEF Init, First
<1>2. Turns
  BY <1>1, BurstFacts DEF Turns
<1>3. PassedBehind
  <2>1. 0 \in Queues /\ turn[First] = 0
    BY <1>1 DEF Queues
  <2>2. \A p \in Queues : MayPass(p, First, turn[First]) >= 0
    BY <1>1, <2>1, MayPassFacts
  <2>3. QED
    BY <1>1, <2>2 DEF PassedBehind
<1>4. QED
  BY <1>1, <1>2, <1>3 DEF FInv

\* A block with a clause to give is passed over at most as often as the turns of
\* the three other blocks are long together, whatever is pushed meanwhile and
\* whichever blocks run dry.
THEOREM ShareIsFair == Spec => []FairShare
<1>1. FInv /\ [Next]_vars => FInv'
  BY NextFInv
<1>2. FInv => FairShare
  <2> SUFFICES ASSUME FInv, NEW p \in Queues
               PROVE  passed[p] <= Burst((p + 1) % 4) + Burst((p + 2) % 4) + Burst((p + 3) % 4)
    BY DEF FairShare
  <2>1. First \in Queues /\ turn[First] + 2 <= 2 * Burst(First) /\ turn[First] \in Nat
    <3>1. First \in Queues
      BY FirstFacts DEF FInv, IInv, TypeOK
    <3>2. \A q \in Queues : turn[q] \in {0, 2, 4, 6} /\ turn[q] + 2 <= 2 * Burst(q)
      BY DEF FInv, Turns
    <3>3. QED
      BY <3>1, <3>2
  <2>2. 2 * passed[p] <= MayPass(p, First, turn[First]) /\ passed[p] \in Nat
    BY DEF FInv, PassedBehind
  <2> DEFINE b1 == Burst((p + 1) % 4)
             b2 == Burst((p + 2) % 4)
             b3 == Burst((p + 3) % 4)
             m == MayPass(p, First, turn[First])
  <2>3. /\ b1 \in 1..4 /\ b2 \in 1..4 /\ b3 \in 1..4
        /\ \/ m = 2 * b1 + 2 * b2 + 2 * b3
           \/ First = (p + 1) % 4 /\ m = turn[First]
           \/ First = (p + 2) % 4 /\ m = 2 * b1 + turn[First]
           \/ First = (p + 3) % 4 /\ m = 2 * b1 + 2 * b2 + turn[First]
    BY <2>1, MayPassFacts
  <2>4. /\ First = (p + 1) % 4 => turn[First] + 2 <= 2 * b1
        /\ First = (p + 2) % 4 => turn[First] + 2 <= 2 * b2
        /\ First = (p + 3) % 4 => turn[First] + 2 <= 2 * b3
    BY <2>1
  <2> HIDE DEF b1, b2, b3, m
  <2>5. passed[p] <= b1 + b2 + b3
    BY <2>1, <2>2, <2>3, <2>4 DEF m
  <2>6. QED
    BY <2>5 DEF b1, b2, b3
<1>3. QED
  BY InitFInv, <1>1, <1>2, PTL DEF Spec

-----------------------------------------------------------------------------
\* The refinement.

\* Only clauses are kept.
LEMMA KeptTyped == IInv => Kept \subseteq Clauses
<1> SUFFICES ASSUME IInv, NEW x \in Kept PROVE x \in Clauses
  OBVIOUS
<1>1. CASE x \in Partials
  <2>1. PICK i \in DOMAIN hyper : x = hyper[i].cl
    BY <1>1 DEF Partials
  <2> DEFINE S == [cl : Clauses, lits : 1..MaxLits]
  <2>2. \A h \in S : h.cl \in Clauses
    OBVIOUS
  <2>3. hyper \in Seq(S)
    BY DEF IInv, TypeOK
  <2> HIDE DEF S
  <2>4. hyper[i] \in S
    BY <2>3
  <2>5. QED
    BY <2>1, <2>2, <2>4
<1>2. ASSUME NEW s \in Seq(Clauses), x \in Range(s) PROVE x \in Clauses
  BY <1>2 DEF Range
<1>3. ASSUME NEW q \in Queues, x \in Range(simple[q]) PROVE x \in Clauses
  <2>1. simple[q] \in Seq(Clauses)
    BY DEF IInv, TypeOK
  <2>2. QED
    BY <1>2, <1>3, <2>1
<1>4. ASSUME NEW q \in Queues, NEW w \in Priors, x \in Range(bucket[q][w]) PROVE x \in Clauses
  <2>1. bucket[q][w] \in Seq(Clauses)
    BY DEF IInv, TypeOK
  <2>2. QED
    BY <1>2, <1>4, <2>1
<1>5. QED
  BY <1>1, <1>3, <1>4, KeptIff

\* A push adds its clause.
LEMMA PushRefines ==
  ASSUME IInv, NEW c \in Clauses, NEW k \in Kinds, NEW w \in Weights, Push(c, k, w)
  PROVE  Selection!Push(c)
<1>1. /\ mode # "done" /\ c \notin Kept /\ waiting' = waiting \cup {c}
      /\ mode' = mode /\ Partials' = Partials
  BY DEF Push, Partials
<1>2. c \in Kept'
  <2>1. c \in Range(simple'[SelectQueue(k)])
    BY PushFacts, BlockOf
  <2>2. QED
    BY <2>1, BlockOf, KeptIffNext
<1>3. ASSUME NEW p \in Queues, NEW x
      PROVE  /\ x \in Range(simple[p]) => x \in Range(simple'[p])
             /\ x \in Range(simple'[p]) => x \in Range(simple[p]) \/ x = c
  <2>1. Range(simple'[p]) = Range(simple[p]) \/ Range(simple'[p]) = Range(simple[p]) \cup {c}
    BY PushFacts
  <2>2. QED
    BY <2>1
<1>4. ASSUME NEW p \in Queues, NEW v \in Priors, NEW x
      PROVE  /\ x \in Range(bucket[p][v]) => x \in Range(bucket'[p][v])
             /\ x \in Range(bucket'[p][v]) => x \in Range(bucket[p][v]) \/ x = c
  <2>1. \/ bucket'[p][v] = bucket[p][v]
        \/ Range(bucket'[p][v]) = Range(bucket[p][v]) \cup {c}
    BY PushFacts
  <2>2. QED
    BY <2>1
<1>5. ASSUME NEW x
      PROVE  /\ x \in Kept => x \in Kept'
             /\ x \in Kept' => x \in Kept \/ x = c
  BY <1>1, <1>3, <1>4, KeptIff, KeptIffNext
<1>6. Kept' = Kept \cup {c}
  BY <1>2, <1>5
<1>7. QED
  BY <1>1, <1>6 DEF Selection!Push

\* So does a push of a partial result.
LEMMA PushHyperRefines ==
  ASSUME IInv, NEW c \in Clauses, NEW n \in 1..MaxLits, PushHyper(c, n)
  PROVE  Selection!Push(c)
<1>1. /\ mode # "done" /\ c \notin Kept /\ waiting' = waiting \cup {c}
      /\ UNCHANGED <<mode, simple, bucket>>
  BY DEF PushHyper, queueVars
<1>2. Partials' = Partials \cup {c}
  BY PushHyperInv
<1>3. \A x : x \in Kept' <=> x \in Kept \/ x = c
  BY <1>1, <1>2, KeptIff, KeptIffNext
<1>4. Kept' = Kept \cup {c}
  BY <1>3
<1>5. QED
  BY <1>1, <1>4 DEF Selection!Push

\* A pick gives one of the kept clauses and keeps all others.
LEMMA PickRefines ==
  ASSUME IInv, Pick \/ PickHyper
  PROVE  \E c \in Clauses : Selection!Pick(c)
<1>1. mode # "done" /\ mode' # "done" /\ \E c : PickStep(c)
  BY PickInv, PickHyperInv
<1>2. PICK c : PickStep(c)
  BY <1>1
<1>3. c \in Clauses /\ c \in Kept /\ waiting' = waiting \ {c}
  BY <1>2, KeptTyped DEF PickStep
<1>4. Kept' = Kept \/ Kept' = Kept \ {c}
  BY <1>2 DEF PickStep
<1>5. (mode = "done") = (mode' = "done")
  BY <1>1
<1>6. QED
  BY <1>1, <1>3, <1>4, <1>5 DEF Selection!Pick

\* Every step is a step of the clause store or changes nothing that it shows.
LEMMA StepRefines ==
  ASSUME IInv, [Next]_vars
  PROVE  [Selection!Next]_(Selection!vars)
<1>1. CASE UNCHANGED vars
  <2>1. UNCHANGED <<simple, bucket, hyper, waiting, mode>>
    BY <1>1 DEF vars, queueVars
  <2>2. Kept' = Kept
    BY <2>1 DEF Kept, Entries, Partials
  <2>3. QED
    BY <2>1, <2>2 DEF Selection!vars
<1>2. ASSUME NEW c \in Clauses, NEW k \in Kinds, NEW w \in Weights, Push(c, k, w)
      PROVE  Selection!Next
  BY <1>2, PushRefines DEF Selection!Next
<1>3. ASSUME NEW c \in Clauses, NEW n \in 1..MaxLits, PushHyper(c, n)
      PROVE  Selection!Next
  BY <1>3, PushHyperRefines DEF Selection!Next
<1>4. CASE Pick \/ PickHyper
  BY <1>4, PickRefines DEF Selection!Next
<1>5. CASE Exhausted
  <2>1. waiting = {} /\ Kept' = Kept
    BY <1>5, ExhaustedInv
  <2>2. mode # "done" /\ mode' = "done" /\ waiting' = waiting
    BY <1>5 DEF Exhausted
  <2>3. QED
    BY <2>1, <2>2 DEF Selection!Next, Selection!Exhausted
<1>6. QED
  BY <1>1, <1>2, <1>3, <1>4, <1>5 DEF Next

\* The queues are a clause store in the sense of ClauseSelection, for any guide,
\* any weights and any number of clauses.
THEOREM Implementation == Spec => ImplementsSelection
<1>1. Init => Selection!Init
  <2> SUFFICES ASSUME Init PROVE Selection!Init
    OBVIOUS
  <2>1. waiting = {} /\ ~(mode = "done") /\ Partials = {}
    BY DEF Init, Partials
  <2>2. \A q \in Queues : simple[q] = <<>> /\ \A w \in Priors : bucket[q][w] = <<>>
    BY DEF Init
  <2>3. Kept = {}
    BY <2>1, <2>2, KeptIff, EmptyRange
  <2>4. QED
    BY <2>1, <2>3 DEF Selection!Init
<1>2. IInv /\ [Next]_vars => [Selection!Next]_(Selection!vars)
  BY StepRefines
<1>3. QED
  BY <1>1, <1>2, Invariance, PTL DEF Spec, ImplementsSelection, Selection!Spec
=============================================================================
