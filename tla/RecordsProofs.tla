--------------------------- MODULE RecordsProofs ----------------------------
(***************************************************************************)
(* Proofs about Records: the back links are exact (LinksSound), and so are *)
(* the string table, its counts and its hash chains (StringsSound).        *)
(*                                                                         *)
(* An operation is a chain of steps, each of which makes a state from a    *)
(* state.  RecordsOk and StringsOk say what holds between the steps: the   *)
(* back links are those of the fields in a set E, the counts are those of  *)
(* a function H, and a step moves E or H by one field.  An operation is    *)
(* right when E and H are back at all fields of the table at its end.      *)
(***************************************************************************)
EXTENDS Records, FiniteSetTheorems, SequenceTheorems, TLAPS

-----------------------------------------------------------------------------
\* Numbers and folds.

\* A set of natural numbers that is not empty has a least element.
LEMMA LeastElement ==
  ASSUME NEW T, T \subseteq Nat, T # {}
  PROVE  \E m \in T : \A n \in T : m <= n
<1> DEFINE R == OpToRel(<, Nat)
<1>1. IsWellFoundedOn(R, Nat)
  BY NatLessThanWellFounded
<1>2. \A x, y \in Nat : y < x => <<y, x>> \in R
  BY DEF OpToRel
<1> HIDE DEF R
<1>3. PICK m \in T : \A y \in T : ~ (<<y, m>> \in R)
  BY <1>1, WFMin
<1>4. \A n \in T : ~ (n < m)
  BY <1>2, <1>3
<1>5. QED
  BY <1>4

\* The greatest element of a set of numbers that contains their bound.
LEMMA MaxFacts ==
  ASSUME NEW s, \E i \in s : \A j \in s : i >= j
  PROVE  Max(s) \in s /\ \A j \in s : Max(s) >= j
  BY Zenon DEF Max

LEMMA MaxAt ==
  ASSUME NEW m \in Nat, NEW s, s \subseteq 1..m, m \in s
  PROVE  Max(s) = m
<1>1. \A j \in s : j \in Nat /\ m >= j
  OBVIOUS
<1>2. \E i \in s : \A j \in s : i >= j
  BY <1>1
<1>3. Max(s) \in s /\ \A j \in s : Max(s) >= j
  BY <1>2, MaxFacts
<1> DEFINE k == Max(s)
<1> HIDE DEF k
<1>4. k \in s /\ k >= m
  BY <1>3 DEF k
<1>5. k = m
  BY <1>1, <1>4
<1>6. QED
  BY <1>5 DEF k

\* Adding rows one field after the other.
AddsOf(x, fields, n, at) ==
  /\ at[0] = x /\ AddFields(x, fields) = at[n]
  /\ \A k \in 1..n : at[k] = AddField(at[k - 1], fields[k][1], fields[k][2])

LEMMA AddFieldsSteps ==
  ASSUME NEW x, NEW fields, NEW n \in Nat, DOMAIN fields = 1..n
  PROVE  \E at : AddsOf(x, fields, n, at)
<1> DEFINE Op(y, e) == AddField(y, e[1], e[2])
           At(f, s) == IF s = {} THEN x ELSE Op(f[s \ {Max(s)}], fields[Max(s)])
           F == CHOOSE f : f = [s \in SUBSET (1..n) |-> At(f, s)]
<1>1. AddFields(x, fields) = F[1..n]
  BY DEF AddFields, FoldLeft, MapThenFoldSet
<1> HIDE DEF Op
<1> DEFINE Fun(m) == \E f : f = [s \in SUBSET (1..m) |-> At(f, s)]
           T == {m \in Nat : ~ Fun(m)}
<1>2. T = {}
  <2> SUFFICES ASSUME T # {} PROVE FALSE
    OBVIOUS
  <2>1. PICK m \in T : \A j \in T : m <= j
    <3>1. T \subseteq Nat
      OBVIOUS
    <3> HIDE DEF T
    <3>2. QED
      BY <3>1, LeastElement
  <2>2. m \in Nat /\ ~ Fun(m)
    OBVIOUS
  <2>3. CASE m = 0
    <3> DEFINE f == [s \in SUBSET (1..0) |-> x]
    <3>1. \A s \in SUBSET (1..0) : s = {}
      OBVIOUS
    <3>2. f = [s \in SUBSET (1..0) |-> At(f, s)]
      BY <3>1
    <3> HIDE DEF f
    <3>3. Fun(0)
      BY <3>2
    <3>4. QED
      BY <2>2, <2>3, <3>3
  <2>4. CASE m # 0
    <3>1. m - 1 \in Nat /\ Fun(m - 1)
      <4> HIDE DEF Fun
      <4>1. m - 1 \in Nat /\ ~ (m <= m - 1)
        BY <2>2, <2>4
      <4>2. m - 1 \notin T
        BY <2>1, <4>1
      <4>3. QED
        BY <4>1, <4>2
    <3>2. PICK g : g = [s \in SUBSET (1..(m - 1)) |-> At(g, s)]
      BY <3>1
    <3> DEFINE f == [s \in SUBSET (1..m) |-> IF m \in s THEN Op(g[s \ {m}], fields[m]) ELSE g[s]]
    <3>3. \A s \in SUBSET (1..m) : f[s] = At(f, s)
      <4> SUFFICES ASSUME NEW s \in SUBSET (1..m) PROVE f[s] = At(f, s)
        OBVIOUS
      <4>1. CASE m \in s
        <5>1. Max(s) = m
          BY <2>2, <4>1, MaxAt
        <5>2. s \ {m} \in SUBSET (1..m) /\ m \notin s \ {m} /\ s # {}
          BY <4>1
        <5>3. f[s \ {m}] = g[s \ {m}]
          BY <5>2
        <5>4. f[s] = Op(g[s \ {m}], fields[m])
          BY <4>1
        <5> HIDE DEF f
        <5>5. QED
          BY <5>1, <5>2, <5>3, <5>4
      <4>2. CASE m \notin s
        <5>1. s \in SUBSET (1..(m - 1))
          BY <2>2, <2>4, <4>2
        <5>2. f[s] = g[s] /\ f[s \ {Max(s)}] = g[s \ {Max(s)}]
          <6>1. s \ {Max(s)} \in SUBSET (1..m) /\ m \notin s \ {Max(s)}
            BY <4>2
          <6>2. QED
            BY <4>2, <6>1
        <5>3. g[s] = At(g, s)
          BY <3>2, <5>1
        <5> HIDE DEF f
        <5>4. QED
          BY <5>2, <5>3
      <4>3. QED
        BY <4>1, <4>2
    <3>4. f = [s \in SUBSET (1..m) |-> f[s]]
      OBVIOUS
    <3> HIDE DEF f
    <3>5. f = [s \in SUBSET (1..m) |-> At(f, s)]
      BY <3>3, <3>4
    <3>6. Fun(m)
      BY <3>5
    <3>7. QED
      BY <2>2, <3>6
  <2>5. QED
    BY <2>3, <2>4
<1>3. F = [s \in SUBSET (1..n) |-> At(F, s)]
  <2>1. Fun(n)
    BY <1>2
  <2>2. QED
    BY <2>1
<1> HIDE DEF F
<1> DEFINE at == [k \in 0..n |-> F[1..k]]
<1>4. at[0] = x
  <2>1. 1..0 = {} /\ {} \in SUBSET (1..n) /\ 0 \in 0..n
    OBVIOUS
  <2>2. F[{}] = x
    BY <1>3, <2>1
  <2>3. QED
    BY <2>1, <2>2
<1>5. ASSUME NEW k \in 1..n
      PROVE  at[k] = Op(at[k - 1], fields[k])
  <2>1. (1..k) \in SUBSET (1..n) /\ 1..k # {} /\ (1..k) \ {k} = 1..(k - 1) /\ k - 1 \in 0..n /\ k \in 0..n
    <3>1. k \in Nat /\ 1 <= k /\ k <= n
      OBVIOUS
    <3>2. (1..k) \ {k} = 1..(k - 1)
      BY <3>1
    <3>3. 1 \in 1..k
      BY <3>1
    <3>4. QED
      BY <3>1, <3>2, <3>3
  <2>2. Max(1..k) = k
    BY MaxAt
  <2>3. F[1..k] = Op(F[1..(k - 1)], fields[k])
    BY <1>3, <2>1, <2>2
  <2>4. QED
    BY <2>1, <2>3
<1>6. at[n] = AddFields(x, fields)
  BY <1>1
<1> HIDE DEF at
<1>7. \A k \in 1..n : at[k] = AddField(at[k - 1], fields[k][1], fields[k][2])
  BY <1>5 DEF Op
<1>8. QED
  BY <1>4, <1>6, <1>7 DEF AddsOf

\* Taking rows out one field after the other.
DeletesOf(x, fields, strict, n, at) ==
  /\ at[0] = x /\ DelFields(x, fields, strict) = at[n]
  /\ \A k \in 1..n : at[k] = DelField(at[k - 1], fields[k][1], fields[k][2], strict)

LEMMA DelFieldsSteps ==
  ASSUME NEW x, NEW fields, NEW strict, NEW n \in Nat, DOMAIN fields = 1..n
  PROVE  \E at : DeletesOf(x, fields, strict, n, at)
<1> DEFINE Op(y, e) == DelField(y, e[1], e[2], strict)
           At(f, s) == IF s = {} THEN x ELSE Op(f[s \ {Max(s)}], fields[Max(s)])
           F == CHOOSE f : f = [s \in SUBSET (1..n) |-> At(f, s)]
<1>1. DelFields(x, fields, strict) = F[1..n]
  BY DEF DelFields, FoldLeft, MapThenFoldSet
<1> HIDE DEF Op
<1> DEFINE Fun(m) == \E f : f = [s \in SUBSET (1..m) |-> At(f, s)]
           T == {m \in Nat : ~ Fun(m)}
<1>2. T = {}
  <2> SUFFICES ASSUME T # {} PROVE FALSE
    OBVIOUS
  <2>1. PICK m \in T : \A j \in T : m <= j
    <3>1. T \subseteq Nat
      OBVIOUS
    <3> HIDE DEF T
    <3>2. QED
      BY <3>1, LeastElement
  <2>2. m \in Nat /\ ~ Fun(m)
    OBVIOUS
  <2>3. CASE m = 0
    <3> DEFINE f == [s \in SUBSET (1..0) |-> x]
    <3>1. \A s \in SUBSET (1..0) : s = {}
      OBVIOUS
    <3>2. f = [s \in SUBSET (1..0) |-> At(f, s)]
      BY <3>1
    <3> HIDE DEF f
    <3>3. Fun(0)
      BY <3>2
    <3>4. QED
      BY <2>2, <2>3, <3>3
  <2>4. CASE m # 0
    <3>1. m - 1 \in Nat /\ Fun(m - 1)
      <4> HIDE DEF Fun
      <4>1. m - 1 \in Nat /\ ~ (m <= m - 1)
        BY <2>2, <2>4
      <4>2. m - 1 \notin T
        BY <2>1, <4>1
      <4>3. QED
        BY <4>1, <4>2
    <3>2. PICK g : g = [s \in SUBSET (1..(m - 1)) |-> At(g, s)]
      BY <3>1
    <3> DEFINE f == [s \in SUBSET (1..m) |-> IF m \in s THEN Op(g[s \ {m}], fields[m]) ELSE g[s]]
    <3>3. \A s \in SUBSET (1..m) : f[s] = At(f, s)
      <4> SUFFICES ASSUME NEW s \in SUBSET (1..m) PROVE f[s] = At(f, s)
        OBVIOUS
      <4>1. CASE m \in s
        <5>1. Max(s) = m
          BY <2>2, <4>1, MaxAt
        <5>2. s \ {m} \in SUBSET (1..m) /\ m \notin s \ {m} /\ s # {}
          BY <4>1
        <5>3. f[s \ {m}] = g[s \ {m}]
          BY <5>2
        <5>4. f[s] = Op(g[s \ {m}], fields[m])
          BY <4>1
        <5> HIDE DEF f
        <5>5. QED
          BY <5>1, <5>2, <5>3, <5>4
      <4>2. CASE m \notin s
        <5>1. s \in SUBSET (1..(m - 1))
          BY <2>2, <2>4, <4>2
        <5>2. f[s] = g[s] /\ f[s \ {Max(s)}] = g[s \ {Max(s)}]
          <6>1. s \ {Max(s)} \in SUBSET (1..m) /\ m \notin s \ {Max(s)}
            BY <4>2
          <6>2. QED
            BY <4>2, <6>1
        <5>3. g[s] = At(g, s)
          BY <3>2, <5>1
        <5> HIDE DEF f
        <5>4. QED
          BY <5>2, <5>3
      <4>3. QED
        BY <4>1, <4>2
    <3>4. f = [s \in SUBSET (1..m) |-> f[s]]
      OBVIOUS
    <3> HIDE DEF f
    <3>5. f = [s \in SUBSET (1..m) |-> At(f, s)]
      BY <3>3, <3>4
    <3>6. Fun(m)
      BY <3>5
    <3>7. QED
      BY <2>2, <3>6
  <2>5. QED
    BY <2>3, <2>4
<1>3. F = [s \in SUBSET (1..n) |-> At(F, s)]
  <2>1. Fun(n)
    BY <1>2
  <2>2. QED
    BY <2>1
<1> HIDE DEF F
<1> DEFINE at == [k \in 0..n |-> F[1..k]]
<1>4. at[0] = x
  <2>1. 1..0 = {} /\ {} \in SUBSET (1..n) /\ 0 \in 0..n
    OBVIOUS
  <2>2. F[{}] = x
    BY <1>3, <2>1
  <2>3. QED
    BY <2>1, <2>2
<1>5. ASSUME NEW k \in 1..n
      PROVE  at[k] = Op(at[k - 1], fields[k])
  <2>1. (1..k) \in SUBSET (1..n) /\ 1..k # {} /\ (1..k) \ {k} = 1..(k - 1) /\ k - 1 \in 0..n /\ k \in 0..n
    <3>1. k \in Nat /\ 1 <= k /\ k <= n
      OBVIOUS
    <3>2. (1..k) \ {k} = 1..(k - 1)
      BY <3>1
    <3>3. 1 \in 1..k
      BY <3>1
    <3>4. QED
      BY <3>1, <3>2, <3>3
  <2>2. Max(1..k) = k
    BY MaxAt
  <2>3. F[1..k] = Op(F[1..(k - 1)], fields[k])
    BY <1>3, <2>1, <2>2
  <2>4. QED
    BY <2>1, <2>3
<1>6. at[n] = DelFields(x, fields, strict)
  BY <1>1
<1> HIDE DEF at
<1>7. \A k \in 1..n : at[k] = DelField(at[k - 1], fields[k][1], fields[k][2], strict)
  BY <1>5 DEF Op
<1>8. QED
  BY <1>4, <1>6, <1>7 DEF DeletesOf

\* Letting go of one value after the other.
LetsGo(x, values, r, n, at) ==
  /\ at[0] = x /\ LetGo(x, r, values) = at[n]
  /\ \A k \in 1..n : at[k] = Unreferred(WithoutLink(at[k - 1], values[k], r), values[k])

LEMMA LetGoSteps ==
  ASSUME NEW x, NEW values, NEW r, NEW n \in Nat, DOMAIN values = 1..n
  PROVE  \E at : LetsGo(x, values, r, n, at)
<1> DEFINE Op(y, e) == Unreferred(WithoutLink(y, e, r), e)
           At(f, s) == IF s = {} THEN x ELSE Op(f[s \ {Max(s)}], values[Max(s)])
           F == CHOOSE f : f = [s \in SUBSET (1..n) |-> At(f, s)]
<1>1. LetGo(x, r, values) = F[1..n]
  BY DEF LetGo, FoldLeft, MapThenFoldSet
<1> HIDE DEF Op
<1> DEFINE Fun(m) == \E f : f = [s \in SUBSET (1..m) |-> At(f, s)]
           T == {m \in Nat : ~ Fun(m)}
<1>2. T = {}
  <2> SUFFICES ASSUME T # {} PROVE FALSE
    OBVIOUS
  <2>1. PICK m \in T : \A j \in T : m <= j
    <3>1. T \subseteq Nat
      OBVIOUS
    <3> HIDE DEF T
    <3>2. QED
      BY <3>1, LeastElement
  <2>2. m \in Nat /\ ~ Fun(m)
    OBVIOUS
  <2>3. CASE m = 0
    <3> DEFINE f == [s \in SUBSET (1..0) |-> x]
    <3>1. \A s \in SUBSET (1..0) : s = {}
      OBVIOUS
    <3>2. f = [s \in SUBSET (1..0) |-> At(f, s)]
      BY <3>1
    <3> HIDE DEF f
    <3>3. Fun(0)
      BY <3>2
    <3>4. QED
      BY <2>2, <2>3, <3>3
  <2>4. CASE m # 0
    <3>1. m - 1 \in Nat /\ Fun(m - 1)
      <4> HIDE DEF Fun
      <4>1. m - 1 \in Nat /\ ~ (m <= m - 1)
        BY <2>2, <2>4
      <4>2. m - 1 \notin T
        BY <2>1, <4>1
      <4>3. QED
        BY <4>1, <4>2
    <3>2. PICK g : g = [s \in SUBSET (1..(m - 1)) |-> At(g, s)]
      BY <3>1
    <3> DEFINE f == [s \in SUBSET (1..m) |-> IF m \in s THEN Op(g[s \ {m}], values[m]) ELSE g[s]]
    <3>3. \A s \in SUBSET (1..m) : f[s] = At(f, s)
      <4> SUFFICES ASSUME NEW s \in SUBSET (1..m) PROVE f[s] = At(f, s)
        OBVIOUS
      <4>1. CASE m \in s
        <5>1. Max(s) = m
          BY <2>2, <4>1, MaxAt
        <5>2. s \ {m} \in SUBSET (1..m) /\ m \notin s \ {m} /\ s # {}
          BY <4>1
        <5>3. f[s \ {m}] = g[s \ {m}]
          BY <5>2
        <5>4. f[s] = Op(g[s \ {m}], values[m])
          BY <4>1
        <5> HIDE DEF f
        <5>5. QED
          BY <5>1, <5>2, <5>3, <5>4
      <4>2. CASE m \notin s
        <5>1. s \in SUBSET (1..(m - 1))
          BY <2>2, <2>4, <4>2
        <5>2. f[s] = g[s] /\ f[s \ {Max(s)}] = g[s \ {Max(s)}]
          <6>1. s \ {Max(s)} \in SUBSET (1..m) /\ m \notin s \ {Max(s)}
            BY <4>2
          <6>2. QED
            BY <4>2, <6>1
        <5>3. g[s] = At(g, s)
          BY <3>2, <5>1
        <5> HIDE DEF f
        <5>4. QED
          BY <5>2, <5>3
      <4>3. QED
        BY <4>1, <4>2
    <3>4. f = [s \in SUBSET (1..m) |-> f[s]]
      OBVIOUS
    <3> HIDE DEF f
    <3>5. f = [s \in SUBSET (1..m) |-> At(f, s)]
      BY <3>3, <3>4
    <3>6. Fun(m)
      BY <3>5
    <3>7. QED
      BY <2>2, <3>6
  <2>5. QED
    BY <2>3, <2>4
<1>3. F = [s \in SUBSET (1..n) |-> At(F, s)]
  <2>1. Fun(n)
    BY <1>2
  <2>2. QED
    BY <2>1
<1> HIDE DEF F
<1> DEFINE at == [k \in 0..n |-> F[1..k]]
<1>4. at[0] = x
  <2>1. 1..0 = {} /\ {} \in SUBSET (1..n) /\ 0 \in 0..n
    OBVIOUS
  <2>2. F[{}] = x
    BY <1>3, <2>1
  <2>3. QED
    BY <2>1, <2>2
<1>5. ASSUME NEW k \in 1..n
      PROVE  at[k] = Op(at[k - 1], values[k])
  <2>1. (1..k) \in SUBSET (1..n) /\ 1..k # {} /\ (1..k) \ {k} = 1..(k - 1) /\ k - 1 \in 0..n /\ k \in 0..n
    <3>1. k \in Nat /\ 1 <= k /\ k <= n
      OBVIOUS
    <3>2. (1..k) \ {k} = 1..(k - 1)
      BY <3>1
    <3>3. 1 \in 1..k
      BY <3>1
    <3>4. QED
      BY <3>1, <3>2, <3>3
  <2>2. Max(1..k) = k
    BY MaxAt
  <2>3. F[1..k] = Op(F[1..(k - 1)], values[k])
    BY <1>3, <2>1, <2>2
  <2>4. QED
    BY <2>1, <2>3
<1>6. at[n] = LetGo(x, r, values)
  BY <1>1
<1> HIDE DEF at
<1>7. \A k \in 1..n : at[k] = Unreferred(WithoutLink(at[k - 1], values[k], r), values[k])
  BY <1>5 DEF Op
<1>8. QED
  BY <1>4, <1>6, <1>7 DEF LetsGo
-----------------------------------------------------------------------------
\* Sequences put together, and the ancestors of a record.

LEMMA FlattenSteps ==
  ASSUME NEW ss, NEW n \in Nat \ {0}, Len(ss) = n
  PROVE  \E at : /\ at[1] = ss[1] /\ FlattenSeq(ss) = at[n]
                 /\ \A k \in 2..n : at[k] = at[k - 1] \o ss[k]
<1> DEFINE At(f, i) == IF i = 1 THEN ss[i] ELSE f[i - 1] \o ss[i]
           Fun(m) == \E f : f = [i \in 1..m |-> At(f, i)]
           T == {m \in Nat : ~ Fun(m)}
           F == CHOOSE f : f = [i \in 1..n |-> At(f, i)]
<1>1. FlattenSeq(ss) = F[n]
  BY DEF FlattenSeq
<1>2. T = {}
  <2> SUFFICES ASSUME T # {} PROVE FALSE
    OBVIOUS
  <2>1. PICK m \in T : \A j \in T : m <= j
    <3>1. T \subseteq Nat
      OBVIOUS
    <3> HIDE DEF T
    <3>2. QED
      BY <3>1, LeastElement
  <2>2. m \in Nat /\ ~ Fun(m)
    OBVIOUS
  <2>3. CASE m = 0
    <3> DEFINE f == [i \in 1..0 |-> 0]
    <3>1. f = [i \in 1..0 |-> At(f, i)]
      OBVIOUS
    <3> HIDE DEF f
    <3>2. Fun(0)
      BY <3>1
    <3>3. QED
      BY <2>2, <2>3, <3>2
  <2>4. CASE m # 0
    <3>1. m - 1 \in Nat /\ Fun(m - 1)
      <4> HIDE DEF Fun
      <4>1. m - 1 \in Nat /\ ~ (m <= m - 1)
        BY <2>2, <2>4
      <4>2. m - 1 \notin T
        BY <2>1, <4>1
      <4>3. QED
        BY <4>1, <4>2
    <3>2. PICK g : g = [i \in 1..(m - 1) |-> At(g, i)]
      BY <3>1
    <3> DEFINE f == [i \in 1..m |-> IF i = m THEN At(g, m) ELSE g[i]]
    <3>3. \A i \in 1..m : f[i] = At(f, i)
      <4> SUFFICES ASSUME NEW i \in 1..m PROVE f[i] = At(f, i)
        OBVIOUS
      <4>1. i # 1 => i - 1 \in 1..m /\ i - 1 # m
        BY <2>2
      <4>2. i # 1 => f[i - 1] = g[i - 1]
        BY <4>1
      <4>3. CASE i = m
        BY <4>2, <4>3
      <4>4. CASE i # m
        <5>1. i \in 1..(m - 1) /\ f[i] = g[i]
          BY <2>2, <4>4
        <5>2. g[i] = At(g, i)
          BY <3>2, <5>1
        <5> HIDE DEF f
        <5>3. QED
          BY <5>1, <5>2, <4>2
      <4>5. QED
        BY <4>3, <4>4
    <3>4. f = [i \in 1..m |-> f[i]]
      OBVIOUS
    <3> HIDE DEF f
    <3>5. f = [i \in 1..m |-> At(f, i)]
      BY <3>3, <3>4
    <3>6. Fun(m)
      BY <3>5
    <3>7. QED
      BY <2>2, <3>6
  <2>5. QED
    BY <2>3, <2>4
<1>3. F = [i \in 1..n |-> At(F, i)]
  <2>1. Fun(n)
    <3> HIDE DEF Fun
    <3>1. n \in Nat /\ n \notin T
      BY <1>2
    <3>2. QED
      BY <3>1
  <2>2. QED
    BY <2>1
<1> HIDE DEF F
<1>4. F[1] = ss[1]
  BY <1>3
<1>5. \A k \in 2..n : F[k] = F[k - 1] \o ss[k]
  <2> TAKE k \in 2..n
  <2>1. k \in 1..n /\ k # 1
    OBVIOUS
  <2>2. QED
    BY <1>3, <2>1
<1>6. QED
  BY <1>1, <1>4, <1>5

LEMMA FlattenType ==
  ASSUME NEW S, NEW ss \in Seq(Seq(S))
  PROVE  FlattenSeq(ss) \in Seq(S)
<1>1. Len(ss) \in Nat /\ \A k \in 1..Len(ss) : ss[k] \in Seq(S)
  OBVIOUS
<1>2. CASE Len(ss) = 0
  <2>1. ss = <<>>
    BY <1>2
  <2>2. FlattenSeq(ss) = ss
    BY <1>2 DEF FlattenSeq
  <2>3. <<>> \in Seq(S)
    OBVIOUS
  <2>4. QED
    BY <2>1, <2>2, <2>3
<1>3. CASE Len(ss) # 0
  <2> DEFINE n == Len(ss)
  <2>1. n \in Nat \ {0}
    BY <1>1, <1>3
  <2>2. PICK at : /\ at[1] = ss[1] /\ FlattenSeq(ss) = at[n]
                  /\ \A k \in 2..n : at[k] = at[k - 1] \o ss[k]
    BY <2>1, FlattenSteps
  <2> HIDE DEF n
  <2> DEFINE T == {k \in 1..n : at[k] \notin Seq(S)}
  <2>3. T = {}
    <3> SUFFICES ASSUME T # {} PROVE FALSE
      OBVIOUS
    <3>1. PICK k \in T : \A j \in T : k <= j
      <4>1. T \subseteq Nat
        BY <2>1
      <4> HIDE DEF T
      <4>2. QED
        BY <4>1, LeastElement
    <3>2. k \in 1..n /\ at[k] \notin Seq(S)
      OBVIOUS
    <3>3. ss[k] \in Seq(S)
      BY <1>1, <3>2 DEF n
    <3>4. k # 1
      BY <2>2, <3>2, <3>3
    <3>5. k \in 2..n /\ k - 1 \in 1..n /\ ~ (k <= k - 1)
      BY <2>1, <3>2, <3>4
    <3>6. at[k - 1] \in Seq(S)
      BY <3>1, <3>5
    <3>7. at[k] = at[k - 1] \o ss[k]
      BY <2>2, <3>5
    <3>8. at[k] \in Seq(S)
      BY <3>3, <3>6, <3>7, ConcatProperties
    <3>9. QED
      BY <3>2, <3>8
  <2>4. n \in 1..n
    BY <2>1
  <2>5. QED
    BY <2>2, <2>3, <2>4
<1>4. QED
  BY <1>2, <1>3

\* The ancestors are those of the parents, one level less deep.
AboveLevels(x, r, above) ==
  /\ Above(x, r) = above[Depth][r]
  /\ \A d \in 0..Depth :
       above[d] = [q \in Ids |->
         IF d = 0 THEN <<>> ELSE FlattenSeq([i \in DOMAIN x.links[q] |->
           <<<<x.links[q][i], q>>>> \o above[d - 1][x.links[q][i]]])]

LEMMA AboveSteps ==
  ASSUME NEW x, NEW r \in Ids
  PROVE  \E above : AboveLevels(x, r, above)
<1> DEFINE At(f, d) == [q \in Ids |->
                  IF d = 0 THEN <<>> ELSE FlattenSeq([i \in DOMAIN x.links[q] |->
                    <<<<x.links[q][i], q>>>> \o f[d - 1][x.links[q][i]]])]
           Fun(m) == \E f : f = [d \in 0..m |-> At(f, d)]
           T == {m \in Nat : ~ Fun(m)}
           F == CHOOSE f : f = [d \in 0..Depth |-> At(f, d)]
<1>1. Depth \in Nat
  BY RecordsAssumption
<1>2. Above(x, r) = F[Depth][r]
  BY DEF Above
<1>3. ASSUME NEW f, NEW g, NEW d, d # 0 => f[d - 1] = g[d - 1]
      PROVE  At(f, d) = At(g, d)
  <2>1. CASE d = 0
    BY <2>1
  <2>2. CASE d # 0
    BY <1>3, <2>2
  <2>3. QED
    BY <2>1, <2>2
<1> HIDE DEF At
<1>4. T = {}
  <2> SUFFICES ASSUME T # {} PROVE FALSE
    OBVIOUS
  <2>1. PICK m \in T : \A j \in T : m <= j
    <3>1. T \subseteq Nat
      OBVIOUS
    <3> HIDE DEF T
    <3>2. QED
      BY <3>1, LeastElement
  <2>2. m \in Nat /\ ~ Fun(m)
    OBVIOUS
  <2>3. CASE m = 0
    <3> DEFINE f == [d \in 0..0 |-> At(<<>>, d)]
    <3>1. f = [d \in 0..0 |-> At(f, d)]
      <4>1. \A d \in 0..0 : At(f, d) = At(<<>>, d)
        <5> SUFFICES ASSUME NEW d \in 0..0 PROVE At(f, d) = At(<<>>, d)
          OBVIOUS
        <5>1. d = 0
          OBVIOUS
        <5> HIDE DEF f
        <5>2. QED
          BY <1>3, <5>1
      <4>2. QED
        BY <4>1
    <3> HIDE DEF f
    <3>2. Fun(0)
      BY <3>1
    <3>3. QED
      BY <2>2, <2>3, <3>2
  <2>4. CASE m # 0
    <3>1. m - 1 \in Nat /\ Fun(m - 1)
      <4> HIDE DEF Fun
      <4>1. m - 1 \in Nat /\ ~ (m <= m - 1)
        BY <2>2, <2>4
      <4>2. m - 1 \notin T
        BY <2>1, <4>1
      <4>3. QED
        BY <4>1, <4>2
    <3>2. PICK g : g = [d \in 0..(m - 1) |-> At(g, d)]
      BY <3>1
    <3> DEFINE f == [d \in 0..m |-> IF d = m THEN At(g, m) ELSE g[d]]
    <3>3. \A d \in 0..m : f[d] = At(f, d)
      <4> SUFFICES ASSUME NEW d \in 0..m PROVE f[d] = At(f, d)
        OBVIOUS
      <4>1. d # 0 => d - 1 \in 0..m /\ d - 1 # m
        BY <2>2
      <4>2. d # 0 => f[d - 1] = g[d - 1]
        BY <4>1
      <4> HIDE DEF f
      <4>3. At(f, d) = At(g, d)
        BY <1>3, <4>2
      <4>4. CASE d = m
        BY <4>3, <4>4 DEF f
      <4>5. CASE d # m
        <5>1. d \in 0..(m - 1) /\ f[d] = g[d]
          BY <2>2, <4>5 DEF f
        <5>2. g[d] = At(g, d)
          BY <3>2, <5>1
        <5>3. QED
          BY <5>1, <5>2, <4>3
      <4>6. QED
        BY <4>4, <4>5
    <3>4. f = [d \in 0..m |-> f[d]]
      OBVIOUS
    <3> HIDE DEF f
    <3>5. f = [d \in 0..m |-> At(f, d)]
      BY <3>3, <3>4
    <3>6. Fun(m)
      BY <3>5
    <3>7. QED
      BY <2>2, <3>6
  <2>5. QED
    BY <2>3, <2>4
<1>5. F = [d \in 0..Depth |-> At(F, d)]
  <2>1. Fun(Depth)
    BY <1>1, <1>4
  <2>2. QED
    BY <2>1
<1> HIDE DEF F
<1>6. \A d \in 0..Depth : F[d] = At(F, d)
  BY <1>5
<1>7. QED
  <2> WITNESS F
  <2>1. QED
    BY <1>2, <1>6 DEF At, AboveLevels

LEMMA ColumnsAre == \E n \in Nat : Columns = 1..n /\ n = Cardinality(Columns)
  BY RecordsAssumption, FS_CardinalityType

LEMMA AboveType ==
  ASSUME NEW x, NEW r \in Ids, x.links \in [Ids -> Seq(Ids)]
  PROVE  Above(x, r) \in Seq(Ids \X Ids)
<1> DEFINE S == Ids \X Ids
           E(g, q) == [i \in DOMAIN x.links[q] |-> <<<<x.links[q][i], q>>>> \o g[x.links[q][i]]]
<1>0. PICK above : AboveLevels(x, r, above)
  BY AboveSteps
<1>1. /\ Above(x, r) = above[Depth][r]
      /\ \A d \in 0..Depth :
           above[d] = [q \in Ids |->
             IF d = 0 THEN <<>> ELSE FlattenSeq(E(above[d - 1], q))]
  BY <1>0 DEF AboveLevels
<1>2. Depth \in Nat
  BY RecordsAssumption
<1>3. ASSUME NEW g, NEW q \in Ids, \A p \in Ids : g[p] \in Seq(S)
      PROVE  FlattenSeq(E(g, q)) \in Seq(S)
  <2> DEFINE l == x.links[q]
  <2>1. l \in Seq(Ids)
    OBVIOUS
  <2> HIDE DEF l
  <2>2. ASSUME NEW i \in DOMAIN l
        PROVE  <<<<l[i], q>>>> \o g[l[i]] \in Seq(S)
    <3>1. l[i] \in Ids
      BY <2>1
    <3>2. <<l[i], q>> \in S /\ g[l[i]] \in Seq(S)
      BY <1>3, <3>1
    <3> HIDE DEF S
    <3>3. <<<<l[i], q>>>> \in Seq(S)
      BY <3>2
    <3>4. QED
      BY <3>2, <3>3, ConcatProperties
  <2>3. DOMAIN l = 1..Len(l) /\ Len(l) \in Nat
    BY <2>1
  <2> HIDE DEF S
  <2> DEFINE ss == [i \in DOMAIN l |-> <<<<l[i], q>>>> \o g[l[i]]]
  <2>4. ss \in Seq(Seq(S))
    BY <2>2, <2>3, IsASeq
  <2>5. ss = E(g, q)
    BY DEF l
  <2> HIDE DEF ss, E
  <2>6. QED
    BY <2>4, <2>5, FlattenType
<1> HIDE DEF S, E
<1> DEFINE T == {d \in 0..Depth : \E q \in Ids : above[d][q] \notin Seq(S)}
<1>4. T = {}
  <2> SUFFICES ASSUME T # {} PROVE FALSE
    OBVIOUS
  <2>1. PICK d \in T : \A e \in T : d <= e
    <3>1. T \subseteq Nat
      BY <1>2
    <3> HIDE DEF T
    <3>2. QED
      BY <3>1, LeastElement
  <2>2. PICK q \in Ids : above[d][q] \notin Seq(S)
    OBVIOUS
  <2>3. d \in 0..Depth
    OBVIOUS
  <2>4. above[d][q] = IF d = 0 THEN <<>> ELSE FlattenSeq(E(above[d - 1], q))
    BY <1>1, <2>3
  <2>5. d # 0
    <3>1. <<>> \in Seq(S)
      OBVIOUS
    <3>2. QED
      BY <2>2, <2>4, <3>1
  <2>6. d - 1 \in 0..Depth /\ ~ (d <= d - 1)
    BY <1>2, <2>3, <2>5
  <2>7. \A p \in Ids : above[d - 1][p] \in Seq(S)
    BY <2>1, <2>6
  <2>8. FlattenSeq(E(above[d - 1], q)) \in Seq(S)
    BY <1>3, <2>7
  <2>9. QED
    BY <2>2, <2>4, <2>5, <2>8
<1>5. Depth \in 0..Depth
  BY <1>2
<1>6. QED
  BY <1>1, <1>4, <1>5 DEF S

LEMMA FieldsWithType ==
  ASSUME NEW x, NEW p \in Ids, NEW q
  PROVE  FieldsWith(x, p, q) \in Seq(Ids \X Columns)
<1> DEFINE S == Ids \X Columns
           ss == [c \in Columns |-> IF x.rec[p][c] = Link(q) THEN <<<<p, c>>>> ELSE <<>>]
<1>1. PICK n \in Nat : Columns = 1..n
  BY ColumnsAre
<1>2. \A c \in Columns : <<p, c>> \in S
  OBVIOUS
<1> HIDE DEF S
<1>3. \A c \in Columns : ss[c] \in Seq(S)
  <2> TAKE c \in Columns
  <2>1. <<p, c>> \in S
    BY <1>2
  <2>2. <<<<p, c>>>> \in Seq(S) /\ <<>> \in Seq(S)
    BY <2>1
  <2>3. QED
    BY <2>2
<1>4. ss \in Seq(Seq(S))
  BY <1>1, <1>3, IsASeq
<1>5. FieldsWith(x, p, q) = FlattenSeq(ss)
  BY DEF FieldsWith
<1> HIDE DEF ss
<1>6. QED
  BY <1>4, <1>5, FlattenType DEF S

LEMMA AffectedType ==
  ASSUME NEW x, NEW r \in Ids, x.links \in [Ids -> Seq(Ids)]
  PROVE  Affected(x, r) \in Seq(Ids \X Columns)
<1> DEFINE above == Above(x, r)
           ss == [i \in DOMAIN above |-> FieldsWith(x, above[i][1], above[i][2])]
<1>1. above \in Seq(Ids \X Ids)
  BY AboveType
<1>2. Affected(x, r) = FlattenSeq(ss)
  BY DEF Affected
<1> HIDE DEF above
<1>3. \A i \in DOMAIN above : ss[i] \in Seq(Ids \X Columns)
  <2> TAKE i \in DOMAIN above
  <2>1. above[i][1] \in Ids
    <3>1. above[i] \in Ids \X Ids
      BY <1>1
    <3>2. QED
      BY <3>1
  <2>2. QED
    BY <2>1, FieldsWithType
<1>4. DOMAIN above = 1..Len(above) /\ Len(above) \in Nat
  BY <1>1
<1>5. ss \in Seq(Seq(Ids \X Columns))
  BY <1>3, <1>4, IsASeq
<1> HIDE DEF ss
<1>6. QED
  BY <1>2, <1>5, FlattenType

-----------------------------------------------------------------------------
\* What the steps of an operation leave alone.

IsState(x) ==
  x = [rec |-> x.rec, links |-> x.links, fresh |-> x.fresh, ix |-> x.ix,
       str |-> x.str, bucket |-> x.bucket, loose |-> x.loose, err |-> x.err]

SameRecords(x, y) == y.rec = x.rec /\ y.links = x.links /\ y.fresh = x.fresh
SameStrings(x, y) == y.str = x.str /\ y.bucket = x.bucket /\ y.loose = x.loose

\* y has other index entries than x, or an error.
Reindexed(x, y) == IsState(y) /\ SameRecords(x, y) /\ SameStrings(x, y)

LEMMA AddFieldReindexes ==
  ASSUME NEW x, IsState(x), NEW r, NEW c
  PROVE  Reindexed(x, AddField(x, r, c))
  BY DEF IsState, Reindexed, SameRecords, SameStrings, AddField

LEMMA DelFieldReindexes ==
  ASSUME NEW x, IsState(x), NEW r, NEW c, NEW strict
  PROVE  Reindexed(x, DelField(x, r, c, strict))
  BY DEF IsState, Reindexed, SameRecords, SameStrings, DelField

LEMMA AddFieldsReindexes ==
  ASSUME NEW x, IsState(x), NEW fields, NEW n \in Nat, DOMAIN fields = 1..n
  PROVE  Reindexed(x, AddFields(x, fields))
<1>1. PICK at : AddsOf(x, fields, n, at)
  BY AddFieldsSteps
<1>2. /\ at[0] = x /\ AddFields(x, fields) = at[n]
      /\ \A k \in 1..n : at[k] = AddField(at[k - 1], fields[k][1], fields[k][2])
  BY <1>1 DEF AddsOf
<1> DEFINE T == {k \in 0..n : ~ Reindexed(x, at[k])}
<1>3. T = {}
  <2> SUFFICES ASSUME T # {} PROVE FALSE
    OBVIOUS
  <2>1. PICK k \in T : \A j \in T : k <= j
    <3>1. T \subseteq Nat
      OBVIOUS
    <3> HIDE DEF T
    <3>2. QED
      BY <3>1, LeastElement
  <2>2. k \in 0..n /\ ~ Reindexed(x, at[k])
    OBVIOUS
  <2>3. k # 0
    BY <1>2, <2>2 DEF Reindexed, SameRecords, SameStrings
  <2>4. k - 1 \in 0..n /\ ~ (k <= k - 1) /\ k \in 1..n
    BY <2>2, <2>3
  <2>5. Reindexed(x, at[k - 1])
    BY <2>1, <2>4
  <2>6. Reindexed(at[k - 1], at[k])
    BY <1>2, <2>4, <2>5, AddFieldReindexes DEF Reindexed
  <2>7. QED
    BY <2>2, <2>5, <2>6 DEF Reindexed, SameRecords, SameStrings
<1>4. n \in 0..n
  OBVIOUS
<1>5. QED
  BY <1>2, <1>3, <1>4

LEMMA DelFieldsReindexes ==
  ASSUME NEW x, IsState(x), NEW fields, NEW strict, NEW n \in Nat, DOMAIN fields = 1..n
  PROVE  Reindexed(x, DelFields(x, fields, strict))
<1>1. PICK at : DeletesOf(x, fields, strict, n, at)
  BY DelFieldsSteps
<1>2. /\ at[0] = x /\ DelFields(x, fields, strict) = at[n]
      /\ \A k \in 1..n : at[k] = DelField(at[k - 1], fields[k][1], fields[k][2], strict)
  BY <1>1 DEF DeletesOf
<1> DEFINE T == {k \in 0..n : ~ Reindexed(x, at[k])}
<1>3. T = {}
  <2> SUFFICES ASSUME T # {} PROVE FALSE
    OBVIOUS
  <2>1. PICK k \in T : \A j \in T : k <= j
    <3>1. T \subseteq Nat
      OBVIOUS
    <3> HIDE DEF T
    <3>2. QED
      BY <3>1, LeastElement
  <2>2. k \in 0..n /\ ~ Reindexed(x, at[k])
    OBVIOUS
  <2>3. k # 0
    BY <1>2, <2>2 DEF Reindexed, SameRecords, SameStrings
  <2>4. k - 1 \in 0..n /\ ~ (k <= k - 1) /\ k \in 1..n
    BY <2>2, <2>3
  <2>5. Reindexed(x, at[k - 1])
    BY <2>1, <2>4
  <2>6. Reindexed(at[k - 1], at[k])
    BY <1>2, <2>4, <2>5, DelFieldReindexes DEF Reindexed
  <2>7. QED
    BY <2>2, <2>5, <2>6 DEF Reindexed, SameRecords, SameStrings
<1>4. n \in 0..n
  OBVIOUS
<1>5. QED
  BY <1>2, <1>3, <1>4

LEMMA TakeOutReindexes ==
  ASSUME NEW x, IsState(x), NEW r \in Ids, x.links \in [Ids -> Seq(Ids)], NEW strict
  PROVE  Reindexed(x, TakeOut(x, r, strict)) /\ Reindexed(x, PutBack(x, r))
<1>1. Affected(x, r) \in Seq(Ids \X Columns)
  BY AffectedType
<1>2. Len(Affected(x, r)) \in Nat /\ DOMAIN Affected(x, r) = 1..Len(Affected(x, r))
  BY <1>1
<1>3. QED
  BY <1>2, AddFieldsReindexes, DelFieldsReindexes DEF TakeOut, PutBack

LEMMA RowReindexes ==
  ASSUME NEW x, IsState(x), NEW r, NEW strict
  PROVE  Reindexed(x, DelFields(x, Row(r), strict)) /\ Reindexed(x, AddFields(x, Row(r)))
<1>1. PICK n \in Nat : Columns = 1..n
  BY ColumnsAre
<1>2. DOMAIN Row(r) = 1..n
  BY <1>1 DEF Row
<1>3. QED
  BY <1>2, AddFieldsReindexes, DelFieldsReindexes

\* The string operations change only the strings.
LEMMA StringStepFrames ==
  ASSUME NEW x, IsState(x), NEW o
  PROVE  /\ IsState(Hold(x, o)) /\ SameRecords(x, Hold(x, o)) /\ Hold(x, o).err = x.err
         /\ IsState(Unchain(x, o)) /\ SameRecords(x, Unchain(x, o)) /\ Unchain(x, o).err = x.err
         /\ IsState(Drop(x, o)) /\ SameRecords(x, Drop(x, o)) /\ Drop(x, o).err = x.err
         /\ IsState(Release(x, o)) /\ SameRecords(x, Release(x, o)) /\ Release(x, o).err = x.err
<1>1. /\ IsState(Hold(x, o)) /\ SameRecords(x, Hold(x, o)) /\ Hold(x, o).err = x.err
  <2> DEFINE s == [x.str EXCEPT ![o].count = @ + 1]
             l == x.loose \ {o}
  <2>1. Hold(x, o) = [[x EXCEPT !.str = s] EXCEPT !.loose = l]
    BY DEF IsState, Hold
  <2> HIDE DEF s, l
  <2>2. QED
    BY <2>1 DEF IsState, SameRecords
<1>2. ASSUME NEW y, IsState(y), NEW p
      PROVE  IsState(Unchain(y, p)) /\ SameRecords(y, Unchain(y, p)) /\ Unchain(y, p).err = y.err
  BY <1>2 DEF IsState, SameRecords, Unchain
<1>3. ASSUME NEW y, IsState(y), NEW p
      PROVE  IsState(Drop(y, p)) /\ SameRecords(y, Drop(y, p)) /\ Drop(y, p).err = y.err
  <2> DEFINE z == Unchain(y, p)
  <2>1. IsState(z) /\ SameRecords(y, z) /\ z.err = y.err
    BY <1>2, <1>3
  <2> HIDE DEF z
  <2>2. CASE y.str[p].count > 1
    BY <1>3, <2>2 DEF IsState, SameRecords, Drop
  <2>3. CASE ~ (y.str[p].count > 1)
    <3>1. Drop(y, p) = [z EXCEPT !.str[p] = Free, !.loose = @ \ {p}]
      BY <2>3 DEF Drop, z
    <3>2. QED
      BY <2>1, <3>1 DEF IsState, SameRecords
  <2>4. QED
    BY <2>2, <2>3
<1>4. IsState(Release(x, o)) /\ SameRecords(x, Release(x, o)) /\ Release(x, o).err = x.err
  <2> DEFINE y == Drop(x, o)
             e == x.str[o].extra
  <2>1. IsState(y) /\ SameRecords(x, y) /\ y.err = x.err
    BY <1>3
  <2>2. IsState(Drop(y, e)) /\ SameRecords(y, Drop(y, e)) /\ Drop(y, e).err = y.err
    BY <1>3, <2>1
  <2>3. Release(x, o) \in {y, Drop(y, e)}
    BY DEF Release
  <2> HIDE DEF y, e
  <2>4. QED
    BY <2>1, <2>2, <2>3 DEF SameRecords
<1>5. QED
  BY <1>1, <1>2, <1>3, <1>4

-----------------------------------------------------------------------------
\* Counting.

\* Sets that stand one to one have as many elements.
LEMMA SameCardinality ==
  ASSUME NEW S, NEW T, IsFiniteSet(S), NEW f \in [S -> T],
         \A x, y \in S : f[x] = f[y] => x = y, \A z \in T : \E x \in S : f[x] = z
  PROVE  IsFiniteSet(T) /\ Cardinality(S) = Cardinality(T)
<1>1. f \in Surjection(S, T)
  BY DEF Surjection
<1>2. f \in Injection(S, T)
  BY DEF Injection, IsInjective
<1>3. QED
  BY <1>1, <1>2, FS_Surjection

\* How often p is in a sequence.
Count(s, p) == Cardinality({i \in DOMAIN s : s[i] = p})

LEMMA CountType ==
  ASSUME NEW S, NEW s \in Seq(S), NEW p
  PROVE  /\ IsFiniteSet({i \in DOMAIN s : s[i] = p}) /\ Count(s, p) \in Nat
         /\ Count(s, p) = 0 <=> \A i \in DOMAIN s : s[i] # p
<1> DEFINE A == {i \in DOMAIN s : s[i] = p}
<1>1. DOMAIN s = 1..Len(s) /\ Len(s) \in Nat
  OBVIOUS
<1>2. IsFiniteSet(1..Len(s))
  BY <1>1, FS_Interval
<1>3. A \subseteq 1..Len(s)
  BY <1>1
<1>4. IsFiniteSet(A)
  BY <1>2, <1>3, FS_Subset
<1>5. Cardinality(A) \in Nat /\ (Cardinality(A) = 0 <=> A = {})
  BY <1>4, FS_CardinalityType, FS_EmptySet
<1>6. QED
  BY <1>4, <1>5 DEF Count

LEMMA CountAppend ==
  ASSUME NEW S, NEW s \in Seq(S), NEW e \in S, NEW p
  PROVE  /\ Append(s, e) \in Seq(S)
         /\ Count(Append(s, e), p) = IF p = e THEN Count(s, p) + 1 ELSE Count(s, p)
<1> DEFINE t == Append(s, e)
           n == Len(s)
           A == {i \in DOMAIN s : s[i] = p}
           B == {i \in DOMAIN t : t[i] = p}
<1>1. /\ t \in Seq(S) /\ DOMAIN t = 1..(n + 1) /\ DOMAIN s = 1..n /\ n \in Nat
      /\ t[n + 1] = e /\ \A i \in 1..n : t[i] = s[i]
  BY AppendProperties
<1> HIDE DEF t, n
<1>2. IsFiniteSet(A)
  BY CountType
<1>3. CASE p = e
  <2>1. B = A \cup {n + 1} /\ n + 1 \notin A
    BY <1>1, <1>3
  <2>2. Cardinality(B) = Cardinality(A) + 1
    BY <1>2, <2>1, FS_AddElement
  <2>3. QED
    BY <1>1, <1>3, <2>2 DEF Count, t
<1>4. CASE p # e
  <2>1. B = A
    BY <1>1, <1>4
  <2>2. QED
    BY <1>1, <1>4, <2>1 DEF Count, t
<1>5. QED
  BY <1>3, <1>4

\* Taking the k-th element out of a sequence.
LEMMA RemoveAtIs ==
  ASSUME NEW S, NEW s \in Seq(S), NEW k \in 1..Len(s)
  PROVE  /\ RemoveAt(s, k) \in Seq(S) /\ DOMAIN RemoveAt(s, k) = 1..(Len(s) - 1)
         /\ Len(RemoveAt(s, k)) = Len(s) - 1
         /\ \A i \in 1..(Len(s) - 1) : RemoveAt(s, k)[i] = IF i < k THEN s[i] ELSE s[i + 1]
<1> DEFINE n == Len(s)
           t == RemoveAt(s, k)
<1>1. n \in Nat /\ DOMAIN s = 1..n /\ \A i \in 1..n : s[i] \in S
  OBVIOUS
<1>2. k \in 1..n
  OBVIOUS
<1> HIDE DEF n
<1> DEFINE u == SubSeq(s, 1, k - 1)
           v == SubSeq(s, k + 1, n)
<1>3. u \in Seq(S) /\ Len(u) = k - 1 /\ \A i \in 1..(k - 1) : u[i] = s[i]
  BY <1>1, <1>2, SubSeqProperties DEF n
<1>4. v \in Seq(S) /\ Len(v) = n - k /\ \A i \in 1..(n - k) : v[i] = s[k + i]
  <2> DEFINE m == k + 1
             w == SubSeq(s, m, n)
  <2>1. m \in Int /\ n \in Int /\ n - m + 1 = n - k /\ \A i \in m..n : s[i] \in S
    BY <1>1, <1>2
  <2>2. (IF m <= n THEN n - m + 1 ELSE 0) = n - k /\ \A i \in 1..(n - k) : m + i - 1 = k + i
    BY <1>1, <1>2
  <2> HIDE DEF m
  <2>3. /\ w \in Seq(S) /\ Len(w) = IF m <= n THEN n - m + 1 ELSE 0
        /\ \A i \in 1..(n - m + 1) : w[i] = s[m + i - 1]
    BY <2>1, SubSeqProperties
  <2> HIDE DEF w
  <2>4. w \in Seq(S) /\ Len(w) = n - k /\ \A i \in 1..(n - k) : w[i] = s[k + i]
    BY <2>1, <2>2, <2>3
  <2>5. QED
    BY <2>4 DEF m, w
<1>5. /\ t \in Seq(S) /\ DOMAIN t = 1..(n - 1) /\ Len(t) = n - 1
      /\ \A i \in 1..(n - 1) : t[i] = IF i < k THEN s[i] ELSE s[i + 1]
  <2>1. t = u \o v
    BY DEF RemoveAt, n
  <2> HIDE DEF u, v, t
  <2>2. /\ t \in Seq(S) /\ Len(t) = Len(u) + Len(v)
        /\ \A i \in 1..(Len(u) + Len(v)) : t[i] = IF i <= Len(u) THEN u[i] ELSE v[i - Len(u)]
    BY <1>3, <1>4, <2>1, ConcatProperties
  <2>3. Len(t) = n - 1 /\ DOMAIN t = 1..(n - 1)
    BY <1>1, <1>2, <1>3, <1>4, <2>2
  <2>4. ASSUME NEW i \in 1..(n - 1)
        PROVE  t[i] = IF i < k THEN s[i] ELSE s[i + 1]
    <3>1. CASE i < k
      <4>1. i <= Len(u) /\ i \in 1..(Len(u) + Len(v)) /\ i \in 1..(k - 1)
        BY <1>1, <1>2, <1>3, <1>4, <3>1
      <4>2. t[i] = u[i] /\ u[i] = s[i]
        BY <1>3, <2>2, <4>1
      <4>3. QED
        BY <3>1, <4>2
    <3>2. CASE ~ (i < k)
      <4>1. ~ (i <= Len(u)) /\ i - Len(u) \in 1..(n - k) /\ k + (i - Len(u)) = i + 1
        BY <1>1, <1>2, <1>3, <3>2
      <4>2. t[i] = v[i - Len(u)]
        BY <1>1, <1>2, <1>3, <1>4, <2>2, <4>1
      <4>3. QED
        BY <1>4, <3>2, <4>1, <4>2
    <3>3. QED
      BY <3>1, <3>2
  <2>5. QED
    BY <2>2, <2>3, <2>4
<1>6. QED
  BY <1>5 DEF n

\* Taking the first occurrence of an element out of a sequence.
LEMMA CountRemove ==
  ASSUME NEW S, NEW s \in Seq(S), NEW e, Count(s, e) # 0, NEW p
  PROVE  /\ RemoveFirst(s, e) \in Seq(S)
         /\ Count(RemoveFirst(s, e), p) = IF p = e THEN Count(s, p) - 1 ELSE Count(s, p)
<1> DEFINE n == Len(s)
           I == {i \in 1..n : s[i] = e}
           k == Min(I)
           t == RemoveAt(s, k)
<1>1. n \in Nat /\ DOMAIN s = 1..n /\ \A i \in 1..n : s[i] \in S
  OBVIOUS
<1>2. I # {} /\ \E i \in 1..n : s[i] = e
  BY <1>1, CountType
<1>3. RemoveFirst(s, e) = t
  <2>1. SelectInSeq(s, LAMBDA v : v = e) = k
    BY <1>2 DEF SelectInSeq
  <2>2. RemoveFirst(s, e) = RemoveAt(s, SelectInSeq(s, LAMBDA v : v = e))
    BY <1>2 DEF RemoveFirst
  <2>3. QED
    BY <2>1, <2>2
<1>4. k \in 1..n /\ s[k] = e
  <2>1. I \subseteq Nat
    BY <1>1
  <2>2. \E i \in I : \A j \in I : i <= j
    <3> HIDE DEF I
    <3>1. QED
      BY <1>2, <2>1, LeastElement
  <2>3. k \in I
    <3> HIDE DEF I
    <3>1. QED
      BY <2>2 DEF Min
  <2> HIDE DEF k
  <2>4. QED
    BY <2>3
<1> HIDE DEF k, n
<1>5. /\ t \in Seq(S) /\ DOMAIN t = 1..(n - 1)
      /\ \A i \in 1..(n - 1) : t[i] = IF i < k THEN s[i] ELSE s[i + 1]
  BY <1>4, RemoveAtIs DEF n
<1> HIDE DEF t
<1> DEFINE A == {i \in 1..n : s[i] = p}
           B == {i \in 1..(n - 1) : t[i] = p}
           g == [i \in B |-> IF i < k THEN i ELSE i + 1]
<1>6. IsFiniteSet(A) /\ Cardinality(A) = Count(s, p)
  BY <1>1, CountType DEF Count
<1>7. IsFiniteSet(B) /\ Cardinality(B) = Count(t, p)
  BY <1>5, CountType DEF Count
<1>8. Cardinality(B) = Cardinality(A \ {k})
  <2>1. g \in [B -> A \ {k}]
    <3>1. ASSUME NEW i \in B PROVE (IF i < k THEN i ELSE i + 1) \in A \ {k}
      <4>1. i \in 1..(n - 1) /\ p = IF i < k THEN s[i] ELSE s[i + 1]
        BY <1>5
      <4>2. QED
        BY <1>1, <1>4, <4>1
    <3>2. QED
      BY <3>1
  <2>2. \A x, y \in B : g[x] = g[y] => x = y
    <3>1. \A x \in B : x \in Int
      BY <1>1
    <3>2. \A x \in B : g[x] = IF x < k THEN x ELSE x + 1
      OBVIOUS
    <3> HIDE DEF g, B
    <3>3. QED
      BY <1>1, <1>4, <3>1, <3>2
  <2>3. \A z \in A \ {k} : \E x \in B : g[x] = z
    <3> SUFFICES ASSUME NEW z \in A \ {k} PROVE \E x \in B : g[x] = z
      OBVIOUS
    <3>1. z \in 1..n /\ s[z] = p /\ z # k
      OBVIOUS
    <3>2. CASE z < k
      <4>1. z \in 1..(n - 1) /\ t[z] = p
        BY <1>1, <1>4, <1>5, <3>1, <3>2
      <4>2. z \in B /\ g[z] = z
        BY <3>2, <4>1
      <4>3. QED
        BY <4>2
    <3>3. CASE ~ (z < k)
      <4>1. z - 1 \in 1..(n - 1) /\ ~ (z - 1 < k) /\ (z - 1) + 1 = z
        BY <1>1, <1>4, <3>1, <3>3
      <4>2. t[z - 1] = p
        BY <1>5, <3>1, <4>1
      <4>3. z - 1 \in B /\ g[z - 1] = z
        BY <4>1, <4>2
      <4>4. QED
        BY <4>3
    <3>4. QED
      BY <3>2, <3>3
  <2> HIDE DEF g, A, B
  <2>4. QED
    BY <1>7, <2>1, <2>2, <2>3, SameCardinality
<1>9. Cardinality(A \ {k}) = IF k \in A THEN Cardinality(A) - 1 ELSE Cardinality(A)
  BY <1>6, FS_RemoveElement
<1>10. k \in A <=> p = e
  BY <1>4
<1> HIDE DEF A, B
<1>11. QED
  BY <1>3, <1>5, <1>6, <1>7, <1>8, <1>9, <1>10

-----------------------------------------------------------------------------
\* Values, and the fields that hold them.

IsValue(v) ==
  \/ v = Null
  \/ Holds(v, "int") /\ v = Num(v[2])
  \/ \E q \in Ids : v = Link(q)
  \/ \E o : v = Str(o)

LEMMA ValueFacts ==
  /\ ~ Holds(Null, "rec") /\ ~ Holds(Null, "str")
  /\ \A q : Holds(Link(q), "rec") /\ ~ Holds(Link(q), "str") /\ Link(q)[2] = q /\ Link(q) # Null
  /\ \A o : Holds(Str(o), "str") /\ ~ Holds(Str(o), "rec") /\ Str(o)[2] = o /\ Str(o) # Null
  /\ \A q, o : Link(q) # Str(o)
  BY DEF Holds, Null, Link, Str

LEMMA ValueKinds ==
  ASSUME NEW v, IsValue(v)
  PROVE  /\ Holds(v, "rec") => v[2] \in Ids /\ v = Link(v[2])
         /\ Holds(v, "str") => v = Str(v[2])
         /\ ~ Holds(v, "rec") => \A q : v # Link(q)
         /\ ~ Holds(v, "str") => \A o : v # Str(o)
<1>1. CASE Holds(v, "int") /\ v = Num(v[2])
  BY <1>1 DEF Holds, Num, Link, Str
<1>2. CASE v = Null
  BY <1>2, ValueFacts
<1>3. CASE \E q \in Ids : v = Link(q)
  BY <1>3, ValueFacts
<1>4. CASE \E o : v = Str(o)
  BY <1>4, ValueFacts
<1>5. QED
  BY <1>1, <1>2, <1>3, <1>4 DEF IsValue

AllFields == Ids \X Columns
FieldsOf(f) == {e \in AllFields : f[e[1]] # <<>>}

\* The columns of p that hold v, as far as the fields in E are concerned.
Kids(f, E, p, v) == {c \in Columns : <<p, c>> \in E /\ f[p][c] = v}

IsTable(f) ==
  /\ f = [r \in Ids |-> f[r]]
  /\ \A r \in Ids : f[r] = <<>> \/ f[r] = [c \in Columns |-> f[r][c]]
  /\ \A e \in FieldsOf(f) : IsValue(f[e[1]][e[2]])

\* The back links are those of the fields in E.
LinkInv(f, ls, E) ==
  /\ E \subseteq AllFields /\ ls \in [Ids -> Seq(Ids)]
  /\ \A q, p \in Ids : Count(ls[q], p) = Cardinality(Kids(f, E, p, Link(q)))
  /\ \A e \in E, q \in Ids : f[e[1]][e[2]] = Link(q) => f[q] # <<>>

Unlinked(ls, v, r) == IF Holds(v, "rec") THEN [ls EXCEPT ![v[2]] = RemoveFirst(@, r)] ELSE ls
Linked(ls, v, r) == IF Holds(v, "rec") THEN [ls EXCEPT ![v[2]] = Append(@, r)] ELSE ls

LEMMA WithoutLinkFrame ==
  ASSUME NEW x, IsState(x), NEW v, NEW r
  PROVE  LET y == WithoutLink(x, v, r) IN
           /\ IsState(y) /\ y.links = Unlinked(x.links, v, r) /\ y.rec = x.rec /\ y.fresh = x.fresh
           /\ SameStrings(x, y) /\ y.err = x.err /\ y.ix = x.ix
  BY DEF IsState, WithoutLink, Unlinked, SameStrings

LEMMA WithLinkFrame ==
  ASSUME NEW x, IsState(x), NEW v, NEW r
  PROVE  LET y == WithLink(x, v, r) IN
           /\ IsState(y) /\ y.links = Linked(x.links, v, r) /\ y.rec = x.rec /\ y.fresh = x.fresh
           /\ SameStrings(x, y) /\ y.err = x.err /\ y.ix = x.ix
  BY DEF IsState, WithLink, Linked, SameStrings

LEMMA KidsFinite ==
  ASSUME NEW f, NEW E, NEW p, NEW v
  PROVE  /\ IsFiniteSet(Kids(f, E, p, v)) /\ Cardinality(Kids(f, E, p, v)) \in Nat
         /\ Cardinality(Kids(f, E, p, v)) = 0 <=> Kids(f, E, p, v) = {}
<1>1. Kids(f, E, p, v) \subseteq Columns /\ IsFiniteSet(Columns)
  BY RecordsAssumption DEF Kids
<1>2. QED
  BY <1>1, FS_Subset, FS_CardinalityType, FS_EmptySet

\* A field lets its record go: the back link to it goes.
LEMMA LinkTaken ==
  ASSUME NEW f, NEW ls, NEW E, LinkInv(f, ls, E), NEW r \in Ids, NEW c \in Columns,
         <<r, c>> \in E, IsValue(f[r][c])
  PROVE  LinkInv(f, Unlinked(ls, f[r][c], r), E \ {<<r, c>>})
<1> DEFINE v == f[r][c]
           D == E \ {<<r, c>>}
           ms == Unlinked(ls, v, r)
<1>1. \A p \in Ids, d \in Columns : <<p, d>> = <<r, c>> <=> p = r /\ d = c
  OBVIOUS
<1>2. ASSUME NEW p \in Ids, NEW w, p # r \/ w # v
      PROVE  Kids(f, D, p, w) = Kids(f, E, p, w)
  BY <1>1, <1>2 DEF Kids
<1>3. Kids(f, D, r, v) = Kids(f, E, r, v) \ {c} /\ c \in Kids(f, E, r, v)
  BY <1>1 DEF Kids
<1>4. CASE ~ Holds(v, "rec")
  <2>1. ms = ls /\ \A q : Link(q) # v
    BY <1>4, ValueKinds DEF Unlinked
  <2>2. \A q, p \in Ids : Kids(f, D, p, Link(q)) = Kids(f, E, p, Link(q))
    BY <1>2, <2>1
  <2> HIDE DEF ms, D, v
  <2>3. QED
    BY <2>1, <2>2 DEF LinkInv, D, ms, v
<1>5. CASE Holds(v, "rec")
  <2> DEFINE q == v[2]
  <2>1. q \in Ids /\ v = Link(q)
    BY <1>5, ValueKinds
  <2>2. ms = [ls EXCEPT ![q] = RemoveFirst(@, r)]
    BY <1>5 DEF Unlinked
  <2>3. ls \in [Ids -> Seq(Ids)] /\ Count(ls[q], r) = Cardinality(Kids(f, E, r, v))
    BY <2>1 DEF LinkInv
  <2> HIDE DEF q, ms, D, v
  <2>4. Count(ls[q], r) # 0
    BY <1>3, <2>3, KidsFinite
  <2>5. /\ RemoveFirst(ls[q], r) \in Seq(Ids)
        /\ \A p : Count(RemoveFirst(ls[q], r), p) = IF p = r THEN Count(ls[q], p) - 1 ELSE Count(ls[q], p)
    BY <2>1, <2>3, <2>4, CountRemove
  <2>6. ms \in [Ids -> Seq(Ids)] /\ ms[q] = RemoveFirst(ls[q], r) /\ \A z \in Ids : z # q => ms[z] = ls[z]
    BY <2>1, <2>2, <2>3, <2>5
  <2>7. ASSUME NEW z \in Ids, NEW p \in Ids
        PROVE  Count(ms[z], p) = Cardinality(Kids(f, D, p, Link(z)))
    <3>1. Count(ls[z], p) = Cardinality(Kids(f, E, p, Link(z)))
      BY DEF LinkInv
    <3>2. CASE z = q /\ p = r
      <4>1. Count(ms[z], p) = Count(ls[q], r) - 1
        BY <2>5, <2>6, <3>2
      <4>2. Cardinality(Kids(f, D, r, v)) = Cardinality(Kids(f, E, r, v)) - 1
        <5> DEFINE A == Kids(f, E, r, v)
        <5>1. IsFiniteSet(A) /\ c \in A /\ Kids(f, D, r, v) = A \ {c}
          BY <1>3, KidsFinite
        <5> HIDE DEF A
        <5>2. Cardinality(A \ {c}) = Cardinality(A) - 1
          BY <5>1, FS_RemoveElement
        <5>3. QED
          BY <5>1, <5>2 DEF A
      <4>3. QED
        BY <2>1, <2>3, <3>2, <4>1, <4>2
    <3>3. CASE ~ (z = q /\ p = r)
      <4>1. Count(ms[z], p) = Count(ls[z], p)
        BY <2>5, <2>6, <3>3
      <4>2. p # r \/ Link(z) # v
        BY <2>1, <3>3, ValueFacts
      <4>3. QED
        BY <1>2, <3>1, <4>1, <4>2
    <3>4. QED
      BY <3>2, <3>3
  <2>8. QED
    BY <2>6, <2>7 DEF LinkInv, ms, D, v
<1>6. QED
  BY <1>4, <1>5

\* A field takes a record: it gets a back link.
LEMMA LinkGiven ==
  ASSUME NEW f, NEW ls, NEW E, LinkInv(f, ls, E), NEW r \in Ids, NEW c \in Columns,
         <<r, c>> \notin E, f = [p \in Ids |-> f[p]], f[r] = [d \in Columns |-> f[r][d]],
         NEW v, IsValue(v), \A q \in Ids : v = Link(q) => f[q] # <<>>
  PROVE  LinkInv([f EXCEPT ![r][c] = v], Linked(ls, v, r), E \cup {<<r, c>>})
<1> DEFINE g == [f EXCEPT ![r][c] = v]
           D == E \cup {<<r, c>>}
           ms == Linked(ls, v, r)
<1>1. \A p \in Ids, d \in Columns : <<p, d>> = <<r, c>> <=> p = r /\ d = c
  OBVIOUS
<1>2. /\ g[r][c] = v /\ DOMAIN g[r] = Columns
      /\ \A p \in Ids, d \in Columns : p # r \/ d # c => g[p][d] = f[p][d]
      /\ \A p \in Ids : p # r => g[p] = f[p]
  OBVIOUS
<1> HIDE DEF g
<1>3. ASSUME NEW p \in Ids, NEW w, p # r \/ w # v
      PROVE  Kids(g, D, p, w) = Kids(f, E, p, w)
  <2>1. ASSUME NEW d \in Columns
        PROVE  <<p, d>> \in D /\ g[p][d] = w <=> <<p, d>> \in E /\ f[p][d] = w
    BY <1>1, <1>2, <1>3
  <2> HIDE DEF D
  <2>2. QED
    BY <2>1 DEF Kids
<1>4. Kids(g, D, r, v) = Kids(f, E, r, v) \cup {c} /\ c \notin Kids(f, E, r, v)
  <2>1. ASSUME NEW d \in Columns
        PROVE  <<r, d>> \in D /\ g[r][d] = v <=> d = c \/ (<<r, d>> \in E /\ f[r][d] = v)
    BY <1>1, <1>2
  <2> HIDE DEF D
  <2>2. QED
    BY <2>1 DEF Kids
<1>5. \A q \in Ids : f[q] # <<>> => g[q] # <<>>
  <2> TAKE q \in Ids
  <2>1. g[r] # <<>>
    <3>1. c \in DOMAIN g[r] /\ DOMAIN <<>> = {}
      BY <1>2
    <3>2. QED
      BY <3>1
  <2>2. QED
    BY <1>2, <2>1
<1>6. \A e \in D, q \in Ids : g[e[1]][e[2]] = Link(q) => g[q] # <<>>
  <2> SUFFICES ASSUME NEW e \in D, NEW q \in Ids, g[e[1]][e[2]] = Link(q) PROVE f[q] # <<>>
    BY <1>5
  <2>1. CASE e = <<r, c>>
    BY <1>2, <2>1
  <2>2. CASE e \in E /\ e # <<r, c>>
    <3>1. e[1] \in Ids /\ e[2] \in Columns /\ e = <<e[1], e[2]>>
      BY <2>2 DEF LinkInv, AllFields
    <3>2. f[e[1]][e[2]] = g[e[1]][e[2]]
      BY <1>2, <2>2, <3>1
    <3>3. QED
      BY <2>2, <3>2 DEF LinkInv
  <2>3. QED
    BY <2>1, <2>2
<1>7. D \subseteq AllFields
  BY DEF LinkInv, AllFields
<1>8. CASE ~ Holds(v, "rec")
  <2>1. ms = ls /\ \A q : Link(q) # v
    BY <1>8, ValueKinds DEF Linked
  <2>2. \A q, p \in Ids : Kids(g, D, p, Link(q)) = Kids(f, E, p, Link(q))
    BY <1>3, <2>1
  <2> HIDE DEF ms, D
  <2>3. QED
    BY <1>6, <1>7, <2>1, <2>2 DEF LinkInv, D, ms, g
<1>9. CASE Holds(v, "rec")
  <2> DEFINE q == v[2]
  <2>1. q \in Ids /\ v = Link(q)
    BY <1>9, ValueKinds
  <2>2. ms = [ls EXCEPT ![q] = Append(@, r)]
    BY <1>9 DEF Linked
  <2>3. ls \in [Ids -> Seq(Ids)] /\ Count(ls[q], r) = Cardinality(Kids(f, E, r, v))
    BY <2>1 DEF LinkInv
  <2> HIDE DEF q, ms, D
  <2>4. /\ Append(ls[q], r) \in Seq(Ids)
        /\ \A p : Count(Append(ls[q], r), p) = IF p = r THEN Count(ls[q], p) + 1 ELSE Count(ls[q], p)
    BY <2>1, <2>3, CountAppend
  <2>5. ms \in [Ids -> Seq(Ids)] /\ ms[q] = Append(ls[q], r) /\ \A z \in Ids : z # q => ms[z] = ls[z]
    BY <2>1, <2>2, <2>3, <2>4
  <2>6. ASSUME NEW z \in Ids, NEW p \in Ids
        PROVE  Count(ms[z], p) = Cardinality(Kids(g, D, p, Link(z)))
    <3>1. Count(ls[z], p) = Cardinality(Kids(f, E, p, Link(z)))
      BY DEF LinkInv
    <3>2. CASE z = q /\ p = r
      <4>1. Count(ms[z], p) = Count(ls[q], r) + 1
        BY <2>4, <2>5, <3>2
      <4>2. Cardinality(Kids(g, D, r, v)) = Cardinality(Kids(f, E, r, v)) + 1
        BY <1>4, KidsFinite, FS_AddElement
      <4>3. QED
        BY <2>1, <2>3, <3>2, <4>1, <4>2
    <3>3. CASE ~ (z = q /\ p = r)
      <4>1. Count(ms[z], p) = Count(ls[z], p)
        BY <2>4, <2>5, <3>3
      <4>2. p # r \/ Link(z) # v
        BY <2>1, <3>3, ValueFacts
      <4>3. QED
        BY <1>3, <3>1, <4>1, <4>2
    <3>4. QED
      BY <3>2, <3>3
  <2>7. QED
    BY <1>6, <1>7, <2>5, <2>6 DEF LinkInv, ms, D, g
<1>10. QED
  BY <1>8, <1>9

-----------------------------------------------------------------------------
\* The records and the back links through every operation.

\* The back links of x are those of its fields, and a field still to be set is empty.
RecordsOk(x) ==
  /\ IsState(x) /\ IsTable(x.rec) /\ LinkInv(x.rec, x.links, FieldsOf(x.rec))
  /\ x.fresh \in [Ids -> SUBSET Columns]
  /\ \A r \in Ids : \A c \in x.fresh[r] : x.rec[r] # <<>> /\ x.rec[r][c] = Null

LinksIInv == RecordsOk(Now)

LEMMA NowFacts ==
  /\ IsState(Now) /\ Now.rec = rec /\ Now.links = links /\ Now.fresh = fresh
  /\ Now.str = str /\ Now.bucket = bucket /\ Now.loose = loose
  BY DEF Now, IsState

LEMMA BecomeFacts ==
  ASSUME NEW x, Become(x)
  PROVE  /\ rec' = x.rec /\ links' = x.links /\ fresh' = x.fresh
         /\ str' = x.str /\ bucket' = x.bucket /\ loose' = x.loose
  BY DEF Become

LEMMA RecordsKept ==
  ASSUME NEW x, NEW y, RecordsOk(x), IsState(y), SameRecords(x, y)
  PROVE  RecordsOk(y)
  BY DEF RecordsOk, SameRecords

LEMMA RecordsBecome ==
  ASSUME NEW x, Become(x), RecordsOk(x)
  PROVE  LinksIInv'
<1>1. rec' = x.rec /\ links' = x.links /\ fresh' = x.fresh
  BY BecomeFacts
<1>2. IsState(Now)' /\ Now.rec' = x.rec /\ Now.links' = x.links /\ Now.fresh' = x.fresh
  BY <1>1 DEF Now, IsState
<1> DEFINE y == Now'
<1>3. IsState(y) /\ SameRecords(x, y)
  BY <1>2 DEF SameRecords, IsState
<1> HIDE DEF y
<1>4. RecordsOk(y)
  BY <1>3, RecordsKept
<1>5. QED
  BY <1>4 DEF LinksIInv, y, RecordsOk, IsState

\* A value that the application passes is a value, and a record it passes exists.
LEMMA TermFacts ==
  ASSUME NEW r \in Ids, NEW c \in Columns, NEW v \in Stores[r][c], Ready(v)
  PROVE  IsValue(Term(v)) /\ \A q \in Ids : Term(v) = Link(q) => rec[q] # <<>>
<1>1. CASE v = Null
  BY <1>1 DEF Term, Holds, Null, IsValue, Link
<1>2. CASE Holds(v, "int") /\ v = Num(v[2])
  BY <1>2 DEF Term, Holds, Num, IsValue, Link
<1>3. CASE Holds(v, "rec") /\ v = Link(v[2]) /\ v[2] \in Ids
  <2>1. Term(v) = v /\ Exists(v[2])
    BY <1>3 DEF Term, Ready, Holds
  <2>2. \A q : v = Link(q) => q = v[2]
    BY ValueFacts
  <2>3. QED
    BY <1>3, <2>1, <2>2 DEF IsValue, Exists
<1>4. CASE Holds(v, "text") /\ v = Text(v[2]) /\ v[2] \in Texts
  <2>1. Term(v) = Str(Found(Now, v[2]))
    BY <1>4 DEF Term
  <2>2. QED
    BY <2>1, ValueFacts DEF IsValue
<1>5. QED
  BY <1>1, <1>2, <1>3, <1>4, RecordsAssumption

LEMMA ReferredFrames ==
  ASSUME NEW x, IsState(x), NEW v
  PROVE  /\ IsState(Referred(x, v)) /\ SameRecords(x, Referred(x, v)) /\ Referred(x, v).err = x.err
         /\ IsState(Unreferred(x, v)) /\ SameRecords(x, Unreferred(x, v)) /\ Unreferred(x, v).err = x.err
<1>1. Referred(x, v) \in {x, Hold(x, v[2])} /\ Unreferred(x, v) \in {x, Release(x, v[2])}
  BY DEF Referred, Unreferred
<1>2. SameRecords(x, x)
  BY DEF SameRecords
<1>3. QED
  BY <1>1, <1>2, StringStepFrames

LEMMA FieldsOfFacts ==
  ASSUME NEW f, NEW r \in Ids, NEW c \in Columns, f[r] # <<>>
  PROVE  <<r, c>> \in FieldsOf(f)
  BY DEF FieldsOf, AllFields

LEMMA NewRecordLinks ==
  ASSUME NEW r \in Ids, LinksIInv, ~ Exists(r), NEW C, C \subseteq Columns
  PROVE  RecordsOk([NewRecord(r) EXCEPT !.fresh[r] = C])
<1> DEFINE x == [NewRecord(r) EXCEPT !.fresh[r] = C]
           row == [c \in Columns |-> Null]
           f == [rec EXCEPT ![r] = row]
           E == FieldsOf(rec)
           D == FieldsOf(f)
<1>1. /\ IsTable(rec) /\ LinkInv(rec, links, E) /\ fresh \in [Ids -> SUBSET Columns] /\ rec[r] = <<>>
      /\ \A p \in Ids : \A c \in fresh[p] : rec[p] # <<>> /\ rec[p][c] = Null
  BY NowFacts DEF LinksIInv, RecordsOk, Exists
<1>2. /\ IsState(x) /\ x.rec = f /\ x.links = [links EXCEPT ![r] = <<>>]
      /\ x.fresh = [fresh EXCEPT ![r] = C]
  <2> DEFINE y == [[[Now EXCEPT !.rec = f] EXCEPT !.links = [links EXCEPT ![r] = <<>>]]
                     EXCEPT !.fresh = [fresh EXCEPT ![r] = C]]
  <2>1. x = y
    <3> DEFINE g == [fresh EXCEPT ![r] = {}]
               L == [links EXCEPT ![r] = <<>>]
               N == [[[Now EXCEPT !.rec = f] EXCEPT !.links = L] EXCEPT !.fresh = g]
               F == [g EXCEPT ![r] = C]
    <3>1. NewRecord(r) = N
      BY Zenon DEF NewRecord, Now
    <3>2. F = [fresh EXCEPT ![r] = C]
      BY <1>1
    <3>3. x = [NewRecord(r) EXCEPT !.fresh = [NewRecord(r).fresh EXCEPT ![r] = C]]
      BY Zenon
    <3> HIDE DEF L, f
    <3>4. N.fresh = g
      <4> HIDE DEF g
      <4>1. QED
        BY DEF Now
    <3> HIDE DEF F, g
    <3>5. [N EXCEPT !.fresh = F] = [[[Now EXCEPT !.rec = f] EXCEPT !.links = L] EXCEPT !.fresh = F]
      BY DEF Now
    <3>6. [N EXCEPT !.fresh = F] = y
      BY <3>2, <3>5 DEF L
    <3>7. x = [N EXCEPT !.fresh = F]
      <4> HIDE DEF N, x
      <4>1. QED
        BY <3>1, <3>3, <3>4 DEF F
    <3>8. QED
      BY <3>6, <3>7
  <2> HIDE DEF x, f
  <2>2. QED
    BY <2>1 DEF Now, IsState
<1>3. f[r] = row /\ \A p \in Ids : p # r => f[p] = rec[p]
  BY <1>1 DEF IsTable
<1>4. E \subseteq D /\ \A e \in D : e \in E \/ (e[1] = r /\ f[e[1]][e[2]] = Null)
  <2> HIDE DEF f
  <2>1. QED
    BY <1>1, <1>3 DEF FieldsOf, AllFields
<1>5. \A e \in E : e[1] \in Ids /\ e[1] # r /\ f[e[1]] = rec[e[1]]
  BY <1>1, <1>3 DEF FieldsOf, AllFields
<1>6. f = [p \in Ids |-> f[p]]
  BY <1>1 DEF IsTable
<1> HIDE DEF f
<1>7. IsTable(f)
  <2>1. ASSUME NEW p \in Ids PROVE f[p] = <<>> \/ f[p] = [c \in Columns |-> f[p][c]]
    BY <1>1, <1>3 DEF IsTable
  <2>2. ASSUME NEW e \in D PROVE IsValue(f[e[1]][e[2]])
    <3>1. CASE e \in E
      BY <1>1, <1>5, <3>1 DEF IsTable
    <3>2. CASE e \notin E
      BY <1>4, <3>2 DEF IsValue
    <3>3. QED
      BY <3>1, <3>2
  <2>3. QED
    BY <1>6, <2>1, <2>2 DEF IsTable
<1>8. \A q, p \in Ids : Kids(f, D, p, Link(q)) = Kids(rec, E, p, Link(q))
  <2> SUFFICES ASSUME NEW q \in Ids, NEW p \in Ids, NEW c \in Columns
               PROVE  <<p, c>> \in D /\ f[p][c] = Link(q) <=> <<p, c>> \in E /\ rec[p][c] = Link(q)
    BY DEF Kids
  <2>1. <<p, c>>[1] = p /\ <<p, c>>[2] = c
    OBVIOUS
  <2>2. QED
    BY <1>4, <1>5, <2>1, ValueFacts
<1>9. [links EXCEPT ![r] = <<>>] = links
  <2>1. links \in [Ids -> Seq(Ids)] /\ \A p \in Ids : Count(links[r], p) = Cardinality(Kids(rec, E, p, Link(r)))
    BY <1>1 DEF LinkInv
  <2>2. \A e \in E : rec[e[1]][e[2]] # Link(r)
    BY <1>1 DEF LinkInv
  <2>3. \A p \in Ids : Kids(rec, E, p, Link(r)) = {}
    BY <2>2 DEF Kids
  <2>4. \A p \in Ids : Count(links[r], p) = 0
    BY <2>1, <2>3, KidsFinite
  <2>5. links[r] \in Seq(Ids) /\ \A p \in Ids, i \in DOMAIN links[r] : links[r][i] # p
    BY <2>1, <2>4, CountType
  <2>6. links[r] = <<>>
    BY <2>5
  <2>7. QED
    BY <2>1, <2>6
<1>10. LinkInv(f, links, D)
  <2>1. D \subseteq AllFields
    BY DEF FieldsOf
  <2>2. \A e \in D, q \in Ids : f[e[1]][e[2]] = Link(q) => f[q] # <<>>
    <3> SUFFICES ASSUME NEW e \in D, NEW q \in Ids, f[e[1]][e[2]] = Link(q) PROVE f[q] # <<>>
      OBVIOUS
    <3>1. e \in E
      BY <1>4, ValueFacts
    <3>2. rec[e[1]][e[2]] = Link(q)
      BY <1>5, <3>1
    <3>3. rec[q] # <<>>
      BY <1>1, <3>1, <3>2 DEF LinkInv
    <3>4. QED
      BY <1>1, <1>3, <3>3
  <2>3. QED
    BY <1>1, <1>8, <2>1, <2>2 DEF LinkInv
<1>11. /\ x.fresh \in [Ids -> SUBSET Columns]
       /\ \A p \in Ids : \A c \in x.fresh[p] : f[p] # <<>> /\ f[p][c] = Null
  <2>1. \A c \in C : row # <<>>
    <3>1. \A c \in C : c \in DOMAIN row
      OBVIOUS
    <3> HIDE DEF row
    <3>2. QED
      BY <3>1
  <2>2. \A c \in C : row[c] = Null
    OBVIOUS
  <2> HIDE DEF x, row
  <2>3. QED
    BY <1>1, <1>2, <1>3, <2>1, <2>2
<1> HIDE DEF x, D
<1>12. QED
  BY <1>2, <1>7, <1>9, <1>10, <1>11 DEF RecordsOk, D, x

LEMMA CreateLinks ==
  ASSUME LinksIInv, NEW r \in Ids, CreateRaw(r) \/ Create(r)
  PROVE  LinksIInv'
<1>1. ~ Exists(r) /\ Columns \subseteq Columns /\ {} \subseteq Columns
  BY DEF CreateRaw, Create
<1>2. CASE CreateRaw(r)
  <2> DEFINE x == [NewRecord(r) EXCEPT !.fresh[r] = Columns]
  <2>1. RecordsOk(x)
    BY <1>1, NewRecordLinks
  <2>2. Become(x)
    BY <1>2 DEF CreateRaw
  <2> HIDE DEF x
  <2>3. QED
    BY <2>1, <2>2, RecordsBecome
<1>3. CASE Create(r)
  <2> DEFINE x == [NewRecord(r) EXCEPT !.fresh[r] = {}]
             y == NewRecord(r)
  <2>1. RecordsOk(x)
    BY <1>1, NewRecordLinks
  <2>2. IsState(y) /\ SameRecords(x, y)
    <3> DEFINE f == [rec EXCEPT ![r] = [c \in Columns |-> Null]]
               l == [links EXCEPT ![r] = <<>>]
               z == [[[Now EXCEPT !.rec = f] EXCEPT !.links = l] EXCEPT !.fresh = [fresh EXCEPT ![r] = {}]]
    <3>1. y = z
      BY DEF NewRecord, Now
    <3> HIDE DEF y, f, l
    <3>2. IsState(y) /\ y.fresh = [fresh EXCEPT ![r] = {}] /\ y.rec = f /\ y.links = l
      BY <3>1 DEF Now, IsState
    <3>3. x = [y EXCEPT !.fresh[r] = {}]
      BY DEF y
    <3> HIDE DEF x
    <3>4. QED
      BY <3>2, <3>3 DEF SameRecords, IsState
  <2> HIDE DEF x, y
  <2>3. RecordsOk(y)
    BY <2>1, <2>2, RecordsKept
  <2>4. IsState(AddFields(y, Row(r))) /\ SameRecords(y, AddFields(y, Row(r)))
    BY <2>2, RowReindexes DEF Reindexed
  <2>5. RecordsOk(AddFields(y, Row(r)))
    BY <2>3, <2>4, RecordsKept
  <2>6. Become(AddFields(y, Row(r)))
    BY <1>3 DEF Create, y
  <2>7. QED
    BY <2>5, <2>6, RecordsBecome
<1>4. QED
  BY <1>2, <1>3

\* z is x with v stored in a field whose old value the back links ls leave out.
Stored(x, ls, z, r, c, v) ==
  /\ x.rec[r] # <<>> /\ LinkInv(x.rec, ls, FieldsOf(x.rec) \ {<<r, c>>})
  /\ IsValue(v) /\ \A q \in Ids : v = Link(q) => x.rec[q] # <<>>
  /\ IsState(z) /\ z.rec = [x.rec EXCEPT ![r][c] = v] /\ z.links = Linked(ls, v, r)
  /\ z.fresh = [x.fresh EXCEPT ![r] = @ \ {c}]

LEMMA StoredLinks ==
  ASSUME NEW x, RecordsOk(x), NEW ls, NEW z, NEW r \in Ids, NEW c \in Columns, NEW v,
         Stored(x, ls, z, r, c, v)
  PROVE  RecordsOk(z)
<1> DEFINE f == x.rec
           E == FieldsOf(f)
           g == [f EXCEPT ![r][c] = v]
<1>0. /\ f[r] # <<>> /\ LinkInv(f, ls, E \ {<<r, c>>})
      /\ IsValue(v) /\ \A q \in Ids : v = Link(q) => f[q] # <<>>
      /\ IsState(z) /\ z.rec = g /\ z.links = Linked(ls, v, r)
      /\ z.fresh = [x.fresh EXCEPT ![r] = @ \ {c}]
  BY DEF Stored
<1>1. /\ f = [p \in Ids |-> f[p]] /\ f[r] = [d \in Columns |-> f[r][d]]
      /\ \A p \in Ids : f[p] = <<>> \/ f[p] = [d \in Columns |-> f[p][d]]
      /\ \A e \in E : IsValue(f[e[1]][e[2]])
  BY <1>0 DEF RecordsOk, IsTable
<1>2. /\ g = [p \in Ids |-> g[p]] /\ g[r] = [d \in Columns |-> IF d = c THEN v ELSE f[r][d]]
      /\ \A p \in Ids : p # r => g[p] = f[p]
  BY <1>1
<1>3. g[r] # <<>> /\ g[r][c] = v /\ \A d \in Columns : d # c => g[r][d] = f[r][d]
  <2>1. c \in DOMAIN g[r]
    BY <1>2
  <2> HIDE DEF g
  <2>2. QED
    BY <1>2, <2>1
<1>4. <<r, c>> \in E
  BY <1>0, FieldsOfFacts
<1>5. FieldsOf(g) = E
  <2>1. \A p \in Ids : g[p] # <<>> <=> f[p] # <<>>
    BY <1>2, <1>3
  <2> HIDE DEF g, f
  <2>2. QED
    BY <2>1 DEF FieldsOf, AllFields
<1>6. LinkInv(g, z.links, E)
  <2>1. LinkInv(g, Linked(ls, v, r), (E \ {<<r, c>>}) \cup {<<r, c>>})
    <3>1. LinkInv(f, ls, E \ {<<r, c>>}) /\ <<r, c>> \notin E \ {<<r, c>>}
      BY <1>0
    <3> HIDE DEF f, E
    <3>2. QED
      BY <1>0, <1>1, <3>1, LinkGiven
  <2>2. (E \ {<<r, c>>}) \cup {<<r, c>>} = E
    BY <1>4
  <2>3. QED
    BY <1>0, <2>1, <2>2
<1>7. IsTable(g)
  <2>1. ASSUME NEW e \in E PROVE IsValue(g[e[1]][e[2]])
    <3>1. e[1] \in Ids /\ e[2] \in Columns /\ IsValue(f[e[1]][e[2]])
      BY <1>1 DEF FieldsOf, AllFields
    <3>2. g[e[1]][e[2]] = v \/ g[e[1]][e[2]] = f[e[1]][e[2]]
      BY <1>2, <1>3, <3>1
    <3>3. QED
      BY <1>0, <3>1, <3>2
  <2>2. \A p \in Ids : g[p] = <<>> \/ g[p] = [d \in Columns |-> g[p][d]]
    <3> TAKE p \in Ids
    <3>1. CASE p = r
      <4>1. g[r] = [d \in Columns |-> g[r][d]]
        BY <1>2
      <4>2. QED
        BY <3>1, <4>1
    <3>2. CASE p # r
      BY <1>1, <1>2, <3>2
    <3>3. QED
      BY <3>1, <3>2
  <2> HIDE DEF g
  <2>3. QED
    BY <1>2, <1>5, <2>1, <2>2 DEF IsTable
<1>8. /\ z.fresh \in [Ids -> SUBSET Columns]
      /\ \A p \in Ids : \A d \in z.fresh[p] : g[p] # <<>> /\ g[p][d] = Null
  <2>1. /\ x.fresh \in [Ids -> SUBSET Columns]
        /\ \A p \in Ids : \A d \in x.fresh[p] : f[p] # <<>> /\ f[p][d] = Null
    BY DEF RecordsOk
  <2> HIDE DEF g, f
  <2>2. z.fresh[r] = x.fresh[r] \ {c} /\ \A p \in Ids : p # r => z.fresh[p] = x.fresh[p]
    BY <1>0, <2>1
  <2>3. z.fresh \in [Ids -> SUBSET Columns]
    BY <1>0, <2>1
  <2>4. QED
    BY <1>2, <1>3, <2>1, <2>2, <2>3
<1> HIDE DEF f, E, g
<1>9. QED
  BY <1>0, <1>5, <1>6, <1>7, <1>8 DEF RecordsOk

LEMMA SetNewFieldLinks ==
  ASSUME LinksIInv, NEW r \in Ids, NEW c \in Columns, NEW v, SetNewField(r, c, v),
         IsValue(v), \A q \in Ids : v = Link(q) => rec[q] # <<>>
  PROVE  LinksIInv'
<1> DEFINE f == [rec EXCEPT ![r][c] = v]
           g == [fresh EXCEPT ![r] = @ \ {c}]
           x == [Now EXCEPT !.rec[r][c] = v, !.fresh[r] = @ \ {c}]
           a == Referred(x, v)
           b == AddField(a, r, c)
           d == WithLink(b, v, r)
           z == PutBack(d, r)
<1>1. IsState(x) /\ x.rec = f /\ x.fresh = g /\ x.links = links
  <2>1. x = [[Now EXCEPT !.rec = f] EXCEPT !.fresh = g]
    BY DEF Now
  <2> HIDE DEF x, f, g
  <2>2. QED
    BY <2>1 DEF Now, IsState
<1>2. rec[r] # <<>> /\ rec[r][c] = Null /\ LinkInv(rec, links, FieldsOf(rec)) /\ c \in fresh[r]
  BY NowFacts DEF LinksIInv, RecordsOk, SetNewField, Exists
<1>3. LinkInv(rec, links, FieldsOf(rec) \ {<<r, c>>})
  <2>1. <<r, c>> \in FieldsOf(rec) /\ IsValue(rec[r][c]) /\ Unlinked(links, rec[r][c], r) = links
    BY <1>2, FieldsOfFacts, ValueFacts DEF IsValue, Unlinked
  <2>2. LinkInv(rec, Unlinked(links, rec[r][c], r), FieldsOf(rec) \ {<<r, c>>})
    BY <1>2, <2>1, LinkTaken
  <2>3. QED
    BY <2>1, <2>2
<1>4. Become(z)
  BY DEF SetNewField
<1> HIDE DEF x, f, g
<1>5. IsState(a) /\ SameRecords(x, a)
  BY <1>1, ReferredFrames
<1> HIDE DEF a
<1>6. IsState(b) /\ SameRecords(a, b)
  BY <1>5, AddFieldReindexes DEF Reindexed
<1> HIDE DEF b
<1>7. IsState(d) /\ d.links = Linked(b.links, v, r) /\ d.rec = b.rec /\ d.fresh = b.fresh
  BY <1>6, WithLinkFrame
<1> HIDE DEF d
<1>8. d.rec = f /\ d.fresh = g /\ d.links = Linked(links, v, r)
  BY <1>1, <1>5, <1>6, <1>7 DEF SameRecords
<1>9. RecordsOk(d)
  <2>1. RecordsOk(Now) /\ Now.rec = rec /\ Now.links = links /\ Now.fresh = fresh /\ IsState(Now)
    BY NowFacts DEF LinksIInv
  <2>2. Stored(Now, links, d, r, c, v)
    BY <1>2, <1>3, <1>7, <1>8, <2>1 DEF f, g, Stored
  <2>3. QED
    BY <2>1, <2>2, StoredLinks
<1>10. IsState(z) /\ SameRecords(d, z)
  BY <1>9, TakeOutReindexes DEF RecordsOk, LinkInv, Reindexed
<1> HIDE DEF z
<1>11. QED
  BY <1>4, <1>9, <1>10, RecordsKept, RecordsBecome

LEMMA SetFieldLinks ==
  ASSUME LinksIInv, NEW r \in Ids, NEW c \in Columns, NEW v, NEW strict, SetField(r, c, v, strict),
         IsValue(v), \A q \in Ids : v = Link(q) => rec[q] # <<>>
  PROVE  LinksIInv'
<1> DEFINE old == rec[r][c]
           a == DelField(Now, r, c, strict)
           out == TakeOut(a, r, strict)
           b == WithoutLink(out, old, r)
           d == Referred(b, v)
           x == Unreferred(d, old)
           e == [x EXCEPT !.rec[r][c] = v]
           g == AddField(e, r, c)
           y == WithLink(g, v, r)
           z == PutBack(y, r)
<1>1. /\ RecordsOk(Now) /\ Now.rec = rec /\ Now.links = links /\ Now.fresh = fresh /\ IsState(Now)
      /\ links \in [Ids -> Seq(Ids)] /\ LinkInv(rec, links, FieldsOf(rec)) /\ IsTable(rec)
      /\ fresh \in [Ids -> SUBSET Columns]
  BY NowFacts DEF LinksIInv, RecordsOk, LinkInv
<1>2. rec[r] # <<>> /\ c \notin fresh[r]
  BY DEF SetField, Exists
<1>3. Become(IF out.err THEN out ELSE z)
  BY DEF SetField
<1>4. IsState(a) /\ SameRecords(Now, a)
  BY <1>1, DelFieldReindexes DEF Reindexed
<1> HIDE DEF a
<1>5. IsState(out) /\ SameRecords(a, out)
  BY <1>1, <1>4, TakeOutReindexes DEF Reindexed, SameRecords
<1> HIDE DEF out
<1>6. IsState(out) /\ SameRecords(Now, out)
  BY <1>4, <1>5 DEF SameRecords
<1>7. CASE out.err
  <2>1. RecordsOk(out)
    BY <1>1, <1>6, RecordsKept
  <2>2. QED
    BY <1>3, <1>7, <2>1, RecordsBecome
<1>8. CASE ~ out.err
  <2> HIDE DEF old
  <2>1. IsState(b) /\ b.links = Unlinked(links, old, r) /\ b.rec = rec /\ b.fresh = fresh
    BY <1>1, <1>6, WithoutLinkFrame DEF SameRecords
  <2> HIDE DEF b
  <2>2. IsState(d) /\ SameRecords(b, d)
    BY <2>1, ReferredFrames
  <2> HIDE DEF d
  <2>3. IsState(x) /\ SameRecords(d, x)
    BY <2>2, ReferredFrames
  <2> HIDE DEF x
  <2>4. IsState(x) /\ x.links = Unlinked(links, old, r) /\ x.rec = rec /\ x.fresh = fresh
    BY <2>1, <2>2, <2>3 DEF SameRecords
  <2>5. IsState(e) /\ e.rec = [rec EXCEPT ![r][c] = v] /\ e.links = x.links /\ e.fresh = fresh
    <3>1. e = [x EXCEPT !.rec = [rec EXCEPT ![r][c] = v]]
      BY <2>4 DEF IsState
    <3> HIDE DEF e
    <3>2. QED
      BY <2>4, <3>1 DEF IsState
  <2> HIDE DEF e
  <2>6. IsState(g) /\ SameRecords(e, g)
    BY <2>5, AddFieldReindexes DEF Reindexed
  <2> HIDE DEF g
  <2>7. IsState(y) /\ y.links = Linked(x.links, v, r) /\ y.rec = e.rec /\ y.fresh = fresh
    BY <2>5, <2>6, WithLinkFrame DEF SameRecords
  <2> HIDE DEF y
  <2>8. LinkInv(rec, x.links, FieldsOf(rec) \ {<<r, c>>})
    <3>1. <<r, c>> \in FieldsOf(rec)
      BY <1>2, FieldsOfFacts
    <3>2. IsValue(rec[r][c])
      BY <1>1, <3>1 DEF IsTable
    <3>3. LinkInv(rec, Unlinked(links, rec[r][c], r), FieldsOf(rec) \ {<<r, c>>})
      BY <1>1, <3>1, <3>2, LinkTaken
    <3>4. QED
      BY <2>4, <3>3 DEF old
  <2>9. [fresh EXCEPT ![r] = @ \ {c}] = fresh
    BY <1>1, <1>2
  <2>10. RecordsOk(y)
    <3>1. Stored(Now, x.links, y, r, c, v)
      BY <1>1, <1>2, <2>5, <2>7, <2>8, <2>9 DEF Stored
    <3>2. QED
      BY <1>1, <3>1, StoredLinks
  <2>11. IsState(z) /\ SameRecords(y, z)
    BY <2>10, TakeOutReindexes DEF RecordsOk, LinkInv, Reindexed
  <2> HIDE DEF z
  <2>12. QED
    BY <1>3, <1>8, <2>10, <2>11, RecordsKept, RecordsBecome
<1>9. QED
  BY <1>7, <1>8

\* While a record is deleted: its first k fields have let go.
FieldsLeft(r, k) == {e \in FieldsOf(rec) : e[1] = r => e[2] > k}

LEMMA LetGoLinks ==
  ASSUME LinksIInv, NEW r \in Ids, Exists(r), NEW out, IsState(out), SameRecords(Now, out),
         NEW n \in Nat, Columns = 1..n, NEW at, LetsGo(out, rec[r], r, n, at), NEW k \in 0..n
  PROVE  /\ IsState(at[k]) /\ at[k].rec = rec /\ at[k].fresh = fresh
         /\ LinkInv(rec, at[k].links, FieldsLeft(r, k))
<1> DEFINE P(j) == /\ IsState(at[j]) /\ at[j].rec = rec /\ at[j].fresh = fresh
                   /\ LinkInv(rec, at[j].links, FieldsLeft(r, j))
           T == {j \in 0..n : ~ P(j)}
<1>1. /\ at[0] = out
      /\ \A j \in 1..n : at[j] = Unreferred(WithoutLink(at[j - 1], rec[r][j], r), rec[r][j])
  BY DEF LetsGo
<1>2. /\ LinkInv(rec, links, FieldsOf(rec)) /\ IsTable(rec) /\ rec[r] # <<>>
      /\ Now.rec = rec /\ Now.links = links /\ Now.fresh = fresh
  BY NowFacts DEF LinksIInv, RecordsOk, Exists
<1>3. P(0)
  <2>1. FieldsLeft(r, 0) = FieldsOf(rec)
    <3>1. \A e \in FieldsOf(rec) : e[2] > 0
      BY DEF FieldsOf, AllFields
    <3>2. QED
      BY <3>1 DEF FieldsLeft
  <2>2. QED
    BY <1>1, <1>2, <2>1 DEF SameRecords
<1>4. ASSUME NEW j \in 1..n, P(j - 1)
      PROVE  P(j)
  <2> DEFINE v == rec[r][j]
             b == WithoutLink(at[j - 1], v, r)
             d == Unreferred(b, v)
             E == FieldsLeft(r, j - 1)
  <2>1. /\ IsState(at[j - 1]) /\ at[j - 1].rec = rec /\ at[j - 1].fresh = fresh
        /\ LinkInv(rec, at[j - 1].links, E)
    BY <1>4
  <2>2. IsState(b) /\ b.links = Unlinked(at[j - 1].links, v, r) /\ b.rec = rec /\ b.fresh = fresh
    BY <2>1, WithoutLinkFrame
  <2>3. <<r, j>> \in FieldsOf(rec) /\ <<r, j>> \in E /\ IsValue(v)
    BY <1>2, FieldsOfFacts DEF IsTable, FieldsLeft
  <2>4. LinkInv(rec, Unlinked(at[j - 1].links, v, r), E \ {<<r, j>>})
    BY <2>1, <2>3, LinkTaken
  <2>5. E \ {<<r, j>>} = FieldsLeft(r, j)
    <3>1. ASSUME NEW e \in FieldsOf(rec)
          PROVE  (e[1] = r => e[2] > j - 1) /\ e # <<r, j>> <=> (e[1] = r => e[2] > j)
      <4>1. e = <<e[1], e[2]>> /\ e[2] \in 1..n
        BY DEF FieldsOf, AllFields
      <4>2. e = <<r, j>> <=> e[1] = r /\ e[2] = j
        BY <4>1
      <4>3. e[2] > j - 1 /\ e[2] # j <=> e[2] > j
        BY <4>1
      <4>4. QED
        BY <4>2, <4>3
    <3>2. QED
      BY <3>1 DEF FieldsLeft
  <2>6. at[j] = d
    BY <1>1
  <2> HIDE DEF b
  <2>7. IsState(d) /\ SameRecords(b, d)
    BY <2>2, ReferredFrames
  <2> HIDE DEF d, E, v
  <2>8. QED
    BY <2>2, <2>4, <2>5, <2>6, <2>7 DEF SameRecords
<1> HIDE DEF P
<1>5. T = {}
  <2> SUFFICES ASSUME T # {} PROVE FALSE
    OBVIOUS
  <2>1. PICK j \in T : \A i \in T : j <= i
    <3>1. T \subseteq Nat
      OBVIOUS
    <3> HIDE DEF T
    <3>2. QED
      BY <3>1, LeastElement
  <2>2. j \in 0..n /\ ~ P(j)
    OBVIOUS
  <2>3. j # 0
    BY <1>3, <2>2
  <2>4. j - 1 \in 0..n /\ ~ (j <= j - 1) /\ j \in 1..n
    BY <2>2, <2>3
  <2>5. P(j - 1)
    BY <2>1, <2>4
  <2>6. QED
    BY <1>4, <2>2, <2>4, <2>5
<1>6. P(k)
  BY <1>5
<1>7. QED
  BY <1>6 DEF P

LEMMA DeleteLinks ==
  ASSUME LinksIInv, NEW r \in Ids, NEW strict, Delete(r, strict)
  PROVE  LinksIInv'
<1> DEFINE out == DelFields(Now, Row(r), strict)
           x == LetGo(out, r, rec[r])
           f == [rec EXCEPT ![r] = <<>>]
           z == [x EXCEPT !.rec[r] = <<>>]
           E == FieldsOf(rec)
           D == FieldsOf(f)
<1>1. /\ Exists(r) /\ fresh[r] = {} /\ links[r] = <<>>
      /\ Become(IF out.err THEN out ELSE z)
  BY DEF Delete
<1>2. /\ RecordsOk(Now) /\ Now.rec = rec /\ Now.links = links /\ Now.fresh = fresh /\ IsState(Now)
      /\ LinkInv(rec, links, E) /\ IsTable(rec) /\ fresh \in [Ids -> SUBSET Columns]
      /\ \A p \in Ids : \A c \in fresh[p] : rec[p] # <<>> /\ rec[p][c] = Null
  BY NowFacts DEF LinksIInv, RecordsOk
<1>3. IsState(out) /\ SameRecords(Now, out)
  BY <1>2, RowReindexes DEF Reindexed
<1> HIDE DEF out
<1>4. CASE out.err
  <2>1. RecordsOk(out)
    BY <1>2, <1>3, RecordsKept
  <2>2. QED
    BY <1>1, <1>4, <2>1, RecordsBecome
<1>5. CASE ~ out.err
  <2>1. PICK n \in Nat : Columns = 1..n
    BY ColumnsAre
  <2>2. rec[r] # <<>> /\ DOMAIN rec[r] = 1..n
    BY <1>1, <1>2, <2>1 DEF Exists, IsTable
  <2>3. PICK at : LetsGo(out, rec[r], r, n, at)
    BY <2>2, LetGoSteps
  <2>4. x = at[n] /\ n \in 0..n
    BY <2>3 DEF LetsGo
  <2> HIDE DEF x
  <2>5. /\ IsState(x) /\ x.rec = rec /\ x.fresh = fresh
        /\ LinkInv(rec, x.links, FieldsLeft(r, n))
    BY <1>1, <1>3, <2>1, <2>3, <2>4, LetGoLinks
  <2>6. f[r] = <<>> /\ \A p \in Ids : p # r => f[p] = rec[p]
    BY <1>2 DEF IsTable
  <2>7. IsState(z) /\ z.rec = f /\ z.links = x.links /\ z.fresh = fresh
    <3>1. z = [x EXCEPT !.rec = f]
      BY <2>5 DEF IsState
    <3> HIDE DEF z, f
    <3>2. QED
      BY <2>5, <3>1 DEF IsState
  <2>8. f = [p \in Ids |-> f[p]]
    BY <1>2 DEF IsTable
  <2> HIDE DEF f, z
  <2>9. FieldsLeft(r, n) = D
    <3>1. ASSUME NEW e \in AllFields
          PROVE  rec[e[1]] # <<>> /\ (e[1] = r => e[2] > n) <=> f[e[1]] # <<>>
      <4>1. e[1] \in Ids /\ e[2] \in 1..n /\ ~ (e[2] > n)
        BY <2>1 DEF AllFields
      <4>2. QED
        BY <2>6, <4>1
    <3>2. QED
      BY <3>1 DEF FieldsLeft, FieldsOf
  <2>10. \A e \in D : e \in E /\ e[1] \in Ids /\ e[1] # r /\ f[e[1]] = rec[e[1]]
    <3> TAKE e \in D
    <3>1. e \in AllFields /\ f[e[1]] # <<>> /\ e[1] \in Ids
      BY DEF FieldsOf, AllFields
    <3>2. e[1] # r /\ f[e[1]] = rec[e[1]]
      BY <2>6, <3>1
    <3>3. QED
      BY <3>1, <3>2 DEF FieldsOf
  <2>11. \A q, p \in Ids : Kids(f, D, p, Link(q)) = Kids(rec, D, p, Link(q))
    <3> SUFFICES ASSUME NEW q \in Ids, NEW p \in Ids, NEW c \in Columns, <<p, c>> \in D
                 PROVE  f[p][c] = Link(q) <=> rec[p][c] = Link(q)
      BY DEF Kids
    <3>1. f[<<p, c>>[1]] = rec[<<p, c>>[1]]
      BY <2>10
    <3>2. QED
      BY <3>1
  <2>12. \A e \in E : rec[e[1]][e[2]] # Link(r)
    <3>1. \A p \in Ids : Count(links[r], p) = 0
      <4>1. <<>> \in Seq(Ids) /\ DOMAIN <<>> = {}
        OBVIOUS
      <4>2. \A p \in Ids : Count(<<>>, p) = 0
        BY <4>1, CountType
      <4>3. QED
        BY <1>1, <4>2
    <3>2. \A p \in Ids : Kids(rec, E, p, Link(r)) = {}
      BY <1>2, <3>1, KidsFinite DEF LinkInv
    <3> TAKE e \in E
    <3>3. e[1] \in Ids /\ e[2] \in Columns /\ e = <<e[1], e[2]>>
      BY DEF FieldsOf, AllFields
    <3>4. QED
      BY <3>2, <3>3 DEF Kids
  <2>13. LinkInv(f, z.links, D)
    <3>1. LinkInv(rec, z.links, D)
      BY <2>5, <2>7, <2>9
    <3>2. \A e \in D, q \in Ids : f[e[1]][e[2]] = Link(q) => f[q] # <<>>
      <4> SUFFICES ASSUME NEW e \in D, NEW q \in Ids, f[e[1]][e[2]] = Link(q) PROVE f[q] # <<>>
        OBVIOUS
      <4>1. rec[e[1]][e[2]] = Link(q) /\ e \in E
        BY <2>10
      <4>2. rec[q] # <<>> /\ q # r
        BY <1>2, <2>12, <4>1 DEF LinkInv
      <4>3. QED
        BY <2>6, <4>2
    <3>3. QED
      BY <2>11, <3>1, <3>2 DEF LinkInv
  <2>14. IsTable(f)
    <3>1. \A p \in Ids : f[p] = <<>> \/ f[p] = [c \in Columns |-> f[p][c]]
      BY <1>2, <2>6 DEF IsTable
    <3>2. \A e \in D : IsValue(f[e[1]][e[2]])
      BY <1>2, <2>10 DEF IsTable
    <3>3. QED
      BY <2>8, <3>1, <3>2 DEF IsTable
  <2>15. \A p \in Ids : \A c \in z.fresh[p] : f[p] # <<>> /\ f[p][c] = Null
    BY <1>1, <1>2, <2>6, <2>7
  <2>16. RecordsOk(z)
    BY <1>2, <2>7, <2>13, <2>14, <2>15 DEF RecordsOk
  <2>17. QED
    BY <1>1, <1>5, <2>16, RecordsBecome
<1>6. QED
  BY <1>4, <1>5

LEMMA EncodeLinks ==
  ASSUME LinksIInv, NEW x, IsState(x), SameRecords(Now, x), Become(x)
  PROVE  LinksIInv'
  BY RecordsKept, RecordsBecome DEF LinksIInv

LEMMA SameRecordsChain ==
  ASSUME NEW x, NEW y, NEW z, SameRecords(x, y), SameRecords(y, z)
  PROVE  SameRecords(x, z)
  BY DEF SameRecords

\* x with other strings.
WithStrings(x, a, b, l) == [[[x EXCEPT !.str = a] EXCEPT !.bucket = b] EXCEPT !.loose = l]

LEMMA WithStringsIs ==
  ASSUME NEW x, IsState(x), NEW a, NEW b, NEW l, NEW y, y = WithStrings(x, a, b, l)
  PROVE  /\ IsState(y) /\ SameRecords(x, y) /\ y.err = x.err
         /\ y.str = a /\ y.bucket = b /\ y.loose = l
  BY DEF IsState, SameRecords, WithStrings

LEMMA InternedFrame ==
  ASSUME NEW x, IsState(x), NEW s
  PROVE  IsState(Interned(x, s)) /\ SameRecords(x, Interned(x, s)) /\ Interned(x, s).err = x.err
<1> DEFINE new == CHOOSE o \in Cells \ InUse(x) : \A p \in Cells \ InUse(x) : o <= p
           cell == [text |-> s, extra |-> 0, count |-> 0, next |-> x.bucket[Hash[s]]]
           a == [x.str EXCEPT ![new] = cell]
           b == [x.bucket EXCEPT ![Hash[s]] = new]
           l == x.loose \cup {new}
           y == WithStrings(x, a, b, l)
<1>1. Interned(x, s) = IF Found(x, s) # 0 THEN x ELSE y
  BY DEF Interned, IsState, WithStrings
<1> HIDE DEF a, b, l, new, y
<1>2. IsState(y) /\ SameRecords(x, y) /\ y.err = x.err
  BY WithStringsIs DEF y
<1>3. QED
  BY <1>1, <1>2 DEF SameRecords

LEMMA EncodedFrame ==
  ASSUME NEW x, IsState(x), NEW s
  PROVE  IsState(Encoded(x, s)) /\ SameRecords(x, Encoded(x, s)) /\ Encoded(x, s).err = x.err
<1> DEFINE new == CHOOSE o \in Cells \ InUse(x) : \A p \in Cells \ InUse(x) : o <= p
           t == [x.str EXCEPT ![new] = [@ EXCEPT !.text = s]]
           x0 == [x EXCEPT !.str = t]
           y == Interned(x0, Extra[s])
           extra == Found(y, Extra[s])
           z == Hold(y, extra)
           cell == [text |-> s, extra |-> extra, count |-> 0, next |-> x.bucket[Hash[s]]]
           a == [z.str EXCEPT ![new] = cell]
           b == [z.bucket EXCEPT ![Hash[s]] = new]
           l == z.loose \cup {new}
           w == WithStrings(z, a, b, l)
<1>1. x0 = [x EXCEPT !.str[new].text = s]
  BY DEF IsState
<1>2. Encoded(x, s) = IF Extra[s] = NoText \/ Found(x, s) # 0 THEN Interned(x, s)
                      ELSE [z EXCEPT !.str[new] = cell, !.bucket[Hash[s]] = new, !.loose = @ \cup {new}]
  BY <1>1 DEF Encoded
<1>3. IsState(x0) /\ SameRecords(x, x0) /\ x0.err = x.err
  <2> HIDE DEF t
  <2>1. QED
    BY DEF IsState, SameRecords
<1> HIDE DEF x0, new
<1>4. IsState(y) /\ SameRecords(x0, y) /\ y.err = x0.err
  BY <1>3, InternedFrame
<1> HIDE DEF y, extra
<1>5. IsState(z) /\ SameRecords(y, z) /\ z.err = y.err
  BY <1>4, StringStepFrames
<1> HIDE DEF z, cell
<1>6. w = [z EXCEPT !.str[new] = cell, !.bucket[Hash[s]] = new, !.loose = @ \cup {new}]
  BY <1>5 DEF IsState, WithStrings
<1> HIDE DEF a, b, l, w
<1>7. IsState(w) /\ SameRecords(z, w) /\ w.err = z.err
  BY <1>5, WithStringsIs DEF w
<1>8. SameRecords(x, w) /\ w.err = x.err
  BY <1>3, <1>4, <1>5, <1>7, SameRecordsChain
<1>9. Encoded(x, s) = Interned(x, s) \/ Encoded(x, s) = w
  BY <1>2, <1>6
<1>10. QED
  BY <1>7, <1>8, <1>9, InternedFrame

LEMMA LinksInitial ==
  ASSUME Init
  PROVE  LinksIInv
<1>1. /\ Now.rec = [r \in Ids |-> <<>>] /\ Now.links = [r \in Ids |-> <<>>]
      /\ Now.fresh = [r \in Ids |-> {}] /\ IsState(Now)
  BY NowFacts DEF Init
<1>2. FieldsOf(Now.rec) = {}
  BY <1>1 DEF FieldsOf, AllFields
<1>3. \A q, p \in Ids : Count(Now.links[q], p) = Cardinality(Kids(Now.rec, {}, p, Link(q)))
  <2> TAKE q, p \in Ids
  <2>1. <<>> \in Seq(Ids) /\ DOMAIN <<>> = {} /\ Now.links[q] = <<>>
    BY <1>1
  <2>2. Count(Now.links[q], p) = 0
    BY <2>1, CountType
  <2>3. Kids(Now.rec, {}, p, Link(q)) = {}
    BY DEF Kids
  <2>4. QED
    BY <2>2, <2>3, KidsFinite
<1>4. Now.links \in [Ids -> Seq(Ids)]
  BY <1>1
<1>5. LinkInv(Now.rec, Now.links, {})
  BY <1>3, <1>4 DEF LinkInv
<1>6. IsTable(Now.rec)
  BY <1>1, <1>2 DEF IsTable
<1>7. QED
  BY <1>1, <1>2, <1>5, <1>6 DEF LinksIInv, RecordsOk

LEMMA LinksStep ==
  ASSUME LinksIInv, [Next]_vars
  PROVE  LinksIInv'
<1>1. IsState(Now)
  BY NowFacts
<1>2. ASSUME NEW s \in Texts, Encode(s) PROVE LinksIInv'
  <2>1. Become(Encoded(Now, s))
    BY <1>2 DEF Encode
  <2>2. QED
    BY <1>1, <2>1, EncodedFrame, EncodeLinks
<1>3. ASSUME NEW o \in Cells, FreeEncoded(o) PROVE LinksIInv'
  <2> DEFINE y == Hold(Now, o)
  <2>1. Become(Release(y, o))
    BY <1>3 DEF FreeEncoded
  <2>2. IsState(y) /\ SameRecords(Now, y)
    BY <1>1, StringStepFrames
  <2> HIDE DEF y
  <2>3. IsState(Release(y, o)) /\ SameRecords(y, Release(y, o))
    BY <2>2, StringStepFrames
  <2>4. QED
    BY <2>1, <2>2, <2>3, SameRecordsChain, EncodeLinks
<1>4. ASSUME NEW r \in Ids, NEW c \in Columns, NEW v \in Stores[r][c], Ready(v),
             SetNewField(r, c, Term(v)) \/ \E strict \in BOOLEAN : SetField(r, c, Term(v), strict)
      PROVE  LinksIInv'
  BY <1>4, TermFacts, SetNewFieldLinks, SetFieldLinks
<1>5. CASE UNCHANGED vars
  <2>1. Now' = Now
    BY <1>5 DEF vars, Now
  <2> DEFINE x == Now
  <2>2. LinksIInv = RecordsOk(x)
    BY DEF LinksIInv
  <2>3. LinksIInv' = RecordsOk(x)
    BY <2>1 DEF LinksIInv, RecordsOk, IsState
  <2>4. QED
    BY <2>2, <2>3
<1>6. QED
  BY <1>2, <1>3, <1>4, <1>5, CreateLinks, DeleteLinks DEF Next

\* Records.LinksExact, with the invariant that carries it: in every state the back
\* links of a record are, as a bag, the records with a field that holds it.
THEOREM LinksSound == Spec => []LinksIInv
  BY LinksInitial, LinksStep, PTL DEF Spec

LEMMA LinksIInvExact ==
  ASSUME LinksIInv
  PROVE  LinksExact
<1>1. LinkInv(rec, links, FieldsOf(rec)) /\ IsTable(rec)
  BY NowFacts DEF LinksIInv, RecordsOk
<1>2. Fields = FieldsOf(rec)
  BY DEF Fields, FieldsOf, AllFields, Exists
<1>3. ASSUME NEW q \in Ids, Holders(Link(q)) > 0
      PROVE  Exists(q)
  <2> DEFINE S == {e \in Fields : rec[e[1]][e[2]] = Link(q)}
  <2>1. S # {}
    <3> SUFFICES ASSUME S = {} PROVE FALSE
      OBVIOUS
    <3>1. Cardinality(S) = 0
      BY FS_EmptySet
    <3>2. QED
      BY <1>3, <3>1 DEF Holders
  <2>2. PICK e \in FieldsOf(rec) : rec[e[1]][e[2]] = Link(q)
    BY <1>2, <2>1
  <2>3. QED
    BY <1>1, <2>2 DEF LinkInv, Exists
<1>4. ASSUME NEW q \in Ids, NEW p \in Ids
      PROVE  Cardinality({i \in DOMAIN links[q] : links[q][i] = p})
               = Cardinality({c \in DOMAIN rec[p] : rec[p][c] = Link(q)})
  <2>1. Kids(rec, FieldsOf(rec), p, Link(q)) = {c \in DOMAIN rec[p] : rec[p][c] = Link(q)}
    <3>1. CASE rec[p] = <<>>
      <4>1. DOMAIN rec[p] = {}
        BY <3>1
      <4>2. \A c \in Columns : <<p, c>> \notin FieldsOf(rec)
        BY <3>1 DEF FieldsOf, AllFields
      <4>3. QED
        BY <4>1, <4>2 DEF Kids
    <3>2. CASE rec[p] # <<>>
      <4>1. DOMAIN rec[p] = Columns
        BY <1>1, <3>2 DEF IsTable
      <4>2. \A c \in Columns : <<p, c>> \in FieldsOf(rec)
        BY <3>2, FieldsOfFacts
      <4>3. QED
        BY <4>1, <4>2 DEF Kids
    <3>3. QED
      BY <3>1, <3>2
  <2>2. Count(links[q], p) = Cardinality(Kids(rec, FieldsOf(rec), p, Link(q)))
    BY <1>1 DEF LinkInv
  <2>3. QED
    BY <2>1, <2>2 DEF Count
<1>5. QED
  BY <1>3, <1>4 DEF LinksExact

\* Whatever fields are changed and records deleted, with or without errors: every
\* record knows each field that holds it, once, and nothing else, and a record that is
\* held is not deleted.
THEOREM BackLinksExact == Spec => []LinksExact
  BY LinksSound, LinksIInvExact, PTL

-----------------------------------------------------------------------------
\* The hash chains.

Buckets == Range(Hash)

LEMMA BucketOf == \A s \in Texts : Hash[s] \in Buckets
  BY RecordsAssumption DEF Buckets, Range

\* ch[h] is the chain of bucket h, and the chains hold the strings in U, each once.
Chained(x, ch, U) ==
  /\ ch \in [Buckets -> Seq(Cells)] /\ U \subseteq Cells
  /\ \A h \in Buckets : x.bucket[h] = IF ch[h] = <<>> THEN 0 ELSE ch[h][1]
  /\ \A h \in Buckets, i \in Nat : i \in 1..Len(ch[h]) =>
       /\ ch[h][i] \in U /\ Hash[x.str[ch[h][i]].text] = h
       /\ x.str[ch[h][i]].next = IF i = Len(ch[h]) THEN 0 ELSE ch[h][i + 1]
  /\ \A h \in Buckets, i, j \in Nat :
       i \in 1..Len(ch[h]) /\ j \in 1..Len(ch[h]) /\ ch[h][i] = ch[h][j] => i = j
  /\ \A o \in U : /\ x.str[o].text \in Texts
                  /\ \E i \in 1..Len(ch[Hash[x.str[o].text]]) : ch[Hash[x.str[o].text]][i] = o

\* The strings of a bucket from the i-th on.
Rest(ch, h, i) == SubSeq(ch[h], i, Len(ch[h]))

LEMMA RestFacts ==
  ASSUME NEW ch \in [Buckets -> Seq(Cells)], NEW h \in Buckets
  PROVE  /\ Len(ch[h]) \in Nat /\ Rest(ch, h, 1) = ch[h] /\ Rest(ch, h, Len(ch[h]) + 1) = <<>>
         /\ \A i \in 1..Len(ch[h]) : Rest(ch, h, i) = <<ch[h][i]>> \o Rest(ch, h, i + 1)
<1> DEFINE s == ch[h]
           n == Len(s)
<1>1. s \in Seq(Cells) /\ n \in Nat
  OBVIOUS
<1> HIDE DEF s
<1>2. SubSeq(s, 1, n) = s /\ SubSeq(s, n + 1, n) = <<>>
  BY <1>1, SubSeqFull, SubSeqEmpty
<1>3. \A i \in 1..n : SubSeq(s, i, n) = <<s[i]>> \o SubSeq(s, i + 1, n)
  <2> TAKE i \in 1..n
  <2>1. i \in 1..Len(s) /\ n \in i..Len(s)
    BY <1>1
  <2> HIDE DEF n
  <2>2. QED
    BY <1>1, <2>1, SubSeqRecursiveFirst
<1>4. QED
  BY <1>1, <1>2, <1>3 DEF Rest, s

\* What the walk of Chain collects in at most n steps, one function for each n.
Walks(x, h, walk) ==
  /\ Chain(x, h) = walk[Cardinality(Cells)][x.bucket[h]]
  /\ \A n \in 0..Cardinality(Cells) :
       walk[n] = [o \in Cells \cup {0} |->
         IF n = 0 \/ o = 0 THEN <<>> ELSE <<o>> \o walk[n - 1][x.str[o].next]]

LEMMA WalkSteps ==
  ASSUME NEW x, NEW h
  PROVE  \E walk : Walks(x, h, walk)
<1> DEFINE N == Cardinality(Cells)
           At(f, n) == [o \in Cells \cup {0} |->
                         IF n = 0 \/ o = 0 THEN <<>> ELSE <<o>> \o f[n - 1][x.str[o].next]]
           Fun(m) == \E f : f = [n \in 0..m |-> At(f, n)]
           T == {m \in Nat : ~ Fun(m)}
           F == CHOOSE f : f = [n \in 0..N |-> At(f, n)]
<1>1. N \in Nat
  BY RecordsAssumption, FS_CardinalityType
<1>2. Chain(x, h) = F[N][x.bucket[h]]
  BY DEF Chain
<1>3. ASSUME NEW f, NEW g, NEW n, n # 0 => f[n - 1] = g[n - 1]
      PROVE  At(f, n) = At(g, n)
  <2>1. CASE n = 0
    BY <2>1
  <2>2. CASE n # 0
    BY <1>3, <2>2
  <2>3. QED
    BY <2>1, <2>2
<1> HIDE DEF At, N
<1>4. T = {}
  <2> SUFFICES ASSUME T # {} PROVE FALSE
    OBVIOUS
  <2>1. PICK m \in T : \A j \in T : m <= j
    <3>1. T \subseteq Nat
      OBVIOUS
    <3> HIDE DEF T
    <3>2. QED
      BY <3>1, LeastElement
  <2>2. m \in Nat /\ ~ Fun(m)
    OBVIOUS
  <2>3. CASE m = 0
    <3> DEFINE f == [n \in 0..0 |-> At(<<>>, n)]
    <3>1. f = [n \in 0..0 |-> At(f, n)]
      <4>1. \A n \in 0..0 : At(f, n) = At(<<>>, n)
        <5> SUFFICES ASSUME NEW n \in 0..0 PROVE At(f, n) = At(<<>>, n)
          OBVIOUS
        <5>1. n = 0
          OBVIOUS
        <5> HIDE DEF f
        <5>2. QED
          BY <1>3, <5>1
      <4>2. QED
        BY <4>1
    <3> HIDE DEF f
    <3>2. Fun(0)
      BY <3>1
    <3>3. QED
      BY <2>2, <2>3, <3>2
  <2>4. CASE m # 0
    <3>1. m - 1 \in Nat /\ Fun(m - 1)
      <4> HIDE DEF Fun
      <4>1. m - 1 \in Nat /\ ~ (m <= m - 1)
        BY <2>2, <2>4
      <4>2. m - 1 \notin T
        BY <2>1, <4>1
      <4>3. QED
        BY <4>1, <4>2
    <3>2. PICK g : g = [n \in 0..(m - 1) |-> At(g, n)]
      BY <3>1
    <3> DEFINE f == [n \in 0..m |-> IF n = m THEN At(g, m) ELSE g[n]]
    <3>3. \A n \in 0..m : f[n] = At(f, n)
      <4> SUFFICES ASSUME NEW n \in 0..m PROVE f[n] = At(f, n)
        OBVIOUS
      <4>1. n # 0 => n - 1 \in 0..m /\ n - 1 # m
        BY <2>2
      <4>2. n # 0 => f[n - 1] = g[n - 1]
        BY <4>1
      <4> HIDE DEF f
      <4>3. At(f, n) = At(g, n)
        BY <1>3, <4>2
      <4>4. CASE n = m
        BY <4>3, <4>4 DEF f
      <4>5. CASE n # m
        <5>1. n \in 0..(m - 1) /\ f[n] = g[n]
          BY <2>2, <4>5 DEF f
        <5>2. g[n] = At(g, n)
          BY <3>2, <5>1
        <5>3. QED
          BY <5>1, <5>2, <4>3
      <4>6. QED
        BY <4>4, <4>5
    <3>4. f = [n \in 0..m |-> f[n]]
      OBVIOUS
    <3> HIDE DEF f
    <3>5. f = [n \in 0..m |-> At(f, n)]
      BY <3>3, <3>4
    <3>6. Fun(m)
      BY <3>5
    <3>7. QED
      BY <2>2, <3>6
  <2>5. QED
    BY <2>3, <2>4
<1>5. F = [n \in 0..N |-> At(F, n)]
  <2>1. Fun(N)
    BY <1>1, <1>4
  <2>2. QED
    BY <2>1
<1> HIDE DEF F
<1>6. \A n \in 0..N : F[n] = At(F, n)
  BY <1>5
<1>7. QED
  <2> WITNESS F
  <2>1. QED
    BY <1>2, <1>6 DEF At, Walks, N

\* A chain is no longer than there are cells: no cell is in it twice.
LEMMA ChainFits ==
  ASSUME NEW s \in Seq(Cells), \A i, j \in 1..Len(s) : s[i] = s[j] => i = j
  PROVE  Len(s) <= Cardinality(Cells)
<1> DEFINE n == Len(s)
           S == 1..n
           T == {s[i] : i \in S}
<1>1. n \in Nat /\ T \subseteq Cells /\ IsFiniteSet(Cells)
  BY RecordsAssumption
<1>2. IsFiniteSet(S) /\ Cardinality(S) = n
  <2>1. IsFiniteSet(1..n) /\ Cardinality(1..n) = IF 1 > n THEN 0 ELSE n - 1 + 1
    BY <1>1, FS_Interval
  <2>2. QED
    BY <1>1, <2>1
<1>3. /\ s \in [S -> T] /\ \A o \in T : \E i \in S : s[i] = o
      /\ \A i, j \in S : s[i] = s[j] => i = j
  OBVIOUS
<1> HIDE DEF S, T
<1>4. Cardinality(S) = Cardinality(T)
  BY <1>2, <1>3, SameCardinality
<1>5. Cardinality(T) <= Cardinality(Cells)
  BY <1>1, FS_Subset
<1>6. QED
  BY <1>2, <1>4, <1>5

\* Following the next pointers from the first string of a bucket gives its chain.
LEMMA ChainIs ==
  ASSUME NEW x, NEW ch, NEW U, Chained(x, ch, U), NEW h \in Buckets
  PROVE  Chain(x, h) = ch[h]
<1> DEFINE s == ch[h]
           n == Len(s)
           N == Cardinality(Cells)
<1>1. s \in Seq(Cells) /\ n \in Nat /\ N \in Nat
  BY RecordsAssumption, FS_CardinalityType DEF Chained
<1>2. \A i \in 1..n : s[i] \in Cells /\ s[i] # 0 /\ x.str[s[i]].next = IF i = n THEN 0 ELSE s[i + 1]
  <2> TAKE i \in 1..n
  <2>1. i \in Nat /\ s[i] \in Cells
    BY <1>1
  <2>2. s[i] # 0
    BY <2>1, RecordsAssumption
  <2>3. QED
    BY <2>1, <2>2 DEF Chained
<1>3. n <= N
  <2>1. \A i, j \in 1..n : s[i] = s[j] => i = j
    <3>1. \A i \in 1..n : i \in Nat
      BY <1>1
    <3>2. QED
      BY <3>1 DEF Chained
  <2> HIDE DEF s
  <2>2. QED
    BY <1>1, <2>1, ChainFits
<1>4. /\ Rest(ch, h, 1) = s /\ Rest(ch, h, n + 1) = <<>>
      /\ \A i \in 1..n : Rest(ch, h, i) = <<s[i]>> \o Rest(ch, h, i + 1)
  <2>1. ch \in [Buckets -> Seq(Cells)]
    BY DEF Chained
  <2>2. QED
    BY <2>1, RestFacts
<1>5. x.bucket[h] = IF s = <<>> THEN 0 ELSE s[1]
  BY DEF Chained
<1> HIDE DEF s, n, N
<1>6. PICK walk : Walks(x, h, walk)
  BY WalkSteps
<1>7. /\ Chain(x, h) = walk[N][x.bucket[h]]
      /\ \A m \in 0..N : /\ walk[m][0] = <<>>
                         /\ \A o \in Cells : o # 0 /\ m # 0 => walk[m][o] = <<o>> \o walk[m - 1][x.str[o].next]
  <2>1. Chain(x, h) = walk[N][x.bucket[h]]
    BY <1>6 DEF Walks, N
  <2>2. ASSUME NEW m \in 0..N
        PROVE  /\ walk[m][0] = <<>>
               /\ \A o \in Cells : o # 0 /\ m # 0 => walk[m][o] = <<o>> \o walk[m - 1][x.str[o].next]
    <3> DEFINE At(o) == IF m = 0 \/ o = 0 THEN <<>> ELSE <<o>> \o walk[m - 1][x.str[o].next]
    <3>1. walk[m] = [o \in Cells \cup {0} |-> At(o)]
      BY <1>6 DEF Walks, N
    <3> HIDE DEF At
    <3>2. \A o \in Cells \cup {0} : walk[m][o] = At(o)
      BY <3>1
    <3>3. QED
      BY <3>2 DEF At
  <2>3. QED
    BY <2>1, <2>2
\* From the k-th string on, the walk takes n + 1 - k steps and has at least as many left.
<1> DEFINE At(k) == \A m \in 0..N : m >= k => walk[m][IF k = 0 THEN 0 ELSE s[n + 1 - k]] = Rest(ch, h, n + 1 - k)
           T == {k \in 0..n : ~ At(k)}
<1>8. At(0)
  BY <1>1, <1>4, <1>7
<1>9. ASSUME NEW k \in 1..n, At(k - 1)
      PROVE  At(k)
  <2> SUFFICES ASSUME NEW m \in 0..N, m >= k PROVE walk[m][s[n + 1 - k]] = Rest(ch, h, n + 1 - k)
    BY <1>1
  <2> DEFINE i == n + 1 - k
             next == IF i = n THEN 0 ELSE s[i + 1]
  <2>1. i \in 1..n /\ m # 0 /\ m - 1 \in 0..N /\ m - 1 >= k - 1 /\ n + 1 - (k - 1) = i + 1 /\ (k - 1 = 0 <=> i = n)
    BY <1>1
  <2>2. walk[m - 1][next] = Rest(ch, h, i + 1)
    <3>1. walk[m - 1][IF k - 1 = 0 THEN 0 ELSE s[n + 1 - (k - 1)]] = Rest(ch, h, n + 1 - (k - 1))
      BY <1>9, <2>1
    <3> HIDE DEF i
    <3>2. QED
      BY <2>1, <3>1
  <2> HIDE DEF i
  <2>3. walk[m][s[i]] = <<s[i]>> \o walk[m - 1][x.str[s[i]].next]
    BY <1>2, <1>7, <2>1
  <2>4. x.str[s[i]].next = next
    BY <1>2, <2>1
  <2>5. walk[m][s[i]] = Rest(ch, h, i)
    BY <1>4, <2>1, <2>2, <2>3, <2>4
  <2>6. QED
    BY <2>5 DEF i
<1> HIDE DEF At
<1>10. T = {}
  <2> SUFFICES ASSUME T # {} PROVE FALSE
    OBVIOUS
  <2>1. PICK k \in T : \A j \in T : k <= j
    <3>1. T \subseteq Nat
      BY <1>1
    <3> HIDE DEF T
    <3>2. QED
      BY <3>1, LeastElement
  <2>2. k \in 0..n /\ ~ At(k) /\ k # 0
    BY <1>8
  <2>3. k \in 1..n /\ k - 1 \in 0..n /\ ~ (k <= k - 1)
    BY <1>1, <2>2
  <2>4. At(k - 1)
    BY <2>1, <2>3
  <2>5. QED
    BY <1>9, <2>2, <2>3, <2>4
<1>11. At(n)
  BY <1>1, <1>10
<1>12. walk[N][x.bucket[h]] = s
  <2>1. N \in 0..N /\ N >= n
    BY <1>1, <1>3
  <2>2. walk[N][IF n = 0 THEN 0 ELSE s[n + 1 - n]] = Rest(ch, h, n + 1 - n)
    BY <1>11, <2>1 DEF At
  <2>3. n + 1 - n = 1 /\ (n = 0 <=> s = <<>>)
    BY <1>1 DEF n
  <2>4. x.bucket[h] = IF n = 0 THEN 0 ELSE s[n + 1 - n]
    BY <1>5, <2>3
  <2>5. QED
    BY <1>4, <2>2, <2>3, <2>4
<1>13. QED
  BY <1>7, <1>12 DEF s

\* The strings in the chains.
Listed(x) == {o \in Cells : \E h \in Buckets : o \in Range(Chain(x, h))}

LEMMA ListedIs ==
  ASSUME NEW x, NEW ch, NEW U, Chained(x, ch, U)
  PROVE  Listed(x) = U
<1>1. /\ ch \in [Buckets -> Seq(Cells)] /\ U \subseteq Cells
      /\ \A h \in Buckets : Chain(x, h) = ch[h] /\ DOMAIN ch[h] = 1..Len(ch[h]) /\ 1..Len(ch[h]) \subseteq Nat
  <2>1. ch \in [Buckets -> Seq(Cells)] /\ U \subseteq Cells
    BY DEF Chained
  <2>2. \A h \in Buckets : Chain(x, h) = ch[h]
    BY ChainIs
  <2>3. QED
    BY <2>1, <2>2
<1>2. \A h \in Buckets : Range(Chain(x, h)) = {ch[h][i] : i \in 1..Len(ch[h])}
  BY <1>1 DEF Range
<1>3. ASSUME NEW o \in Listed(x) PROVE o \in U
  <2>1. PICK h \in Buckets : o \in Range(Chain(x, h))
    BY DEF Listed
  <2>2. PICK i \in 1..Len(ch[h]) : o = ch[h][i]
    BY <1>2, <2>1
  <2>3. i \in Nat
    BY <1>1
  <2>4. QED
    BY <2>2, <2>3 DEF Chained
<1>4. ASSUME NEW o \in U PROVE o \in Listed(x)
  <2> DEFINE h == Hash[x.str[o].text]
  <2>1. h \in Buckets /\ \E i \in 1..Len(ch[h]) : ch[h][i] = o
    BY BucketOf DEF Chained
  <2> HIDE DEF h
  <2>2. o \in Range(Chain(x, h))
    BY <1>2, <2>1
  <2>3. QED
    BY <1>1, <2>1, <2>2 DEF Listed
<1>5. QED
  BY <1>3, <1>4

\* Looking a text up finds the string in U that has it.
LEMMA FoundIs ==
  ASSUME NEW x, NEW ch, NEW U, Chained(x, ch, U), NEW s \in Texts
  PROVE  /\ Found(x, s) # 0 => Found(x, s) \in U /\ x.str[Found(x, s)].text = s
         /\ Found(x, s) = 0 => \A o \in U : x.str[o].text # s
<1> DEFINE h == Hash[s]
           t == ch[h]
           I == {i \in 1..Len(t) : x.str[t[i]].text = s}
           k == Min(I)
<1>1. h \in Buckets /\ t \in Seq(Cells) /\ Len(t) \in Nat
  BY BucketOf DEF Chained
<1>2. Chain(x, h) = t
  BY <1>1, ChainIs
<1>3. SelectInSeq(t, LAMBDA o : x.str[o].text = s) = IF I # {} THEN k ELSE 0
  BY DEF SelectInSeq
<1> HIDE DEF k
<1>4. Found(x, s) = IF (IF I # {} THEN k ELSE 0) = 0 THEN 0 ELSE t[IF I # {} THEN k ELSE 0]
  BY <1>2, <1>3 DEF Found
<1>5. CASE I = {}
  <2>1. Found(x, s) = 0
    BY <1>4, <1>5
  <2>2. \A o \in U : x.str[o].text # s
    <3> SUFFICES ASSUME NEW o \in U, x.str[o].text = s PROVE FALSE
      OBVIOUS
    <3>1. \E i \in 1..Len(t) : t[i] = o
      BY DEF Chained
    <3>2. QED
      BY <1>5, <3>1
  <2>3. QED
    BY <2>1, <2>2
<1>6. CASE I # {}
  <2>1. I \subseteq Nat
    BY <1>1
  <2> HIDE DEF I
  <2>2. \E i \in I : \A j \in I : i <= j
    BY <1>6, <2>1, LeastElement
  <2>3. k \in I
    BY <2>2 DEF Min, k
  <2> HIDE DEF t
  <2>4. k \in 1..Len(t) /\ x.str[t[k]].text = s /\ k # 0 /\ k \in Nat
    BY <1>1, <2>3 DEF I
  <2>5. t[k] \in U
    BY <1>1, <2>4 DEF Chained, t
  <2>6. Found(x, s) = t[k]
    BY <1>4, <1>6, <2>4
  <2>7. t[k] # 0
    BY <2>5, RecordsAssumption DEF Chained
  <2>8. QED
    BY <2>4, <2>5, <2>6, <2>7
<1>7. QED
  BY <1>5, <1>6

LEMMA ChainedSame ==
  ASSUME NEW x, NEW y, NEW ch, NEW U, Chained(x, ch, U), y.bucket = x.bucket,
         \A o \in U : y.str[o].text = x.str[o].text /\ y.str[o].next = x.str[o].next
  PROVE  Chained(y, ch, U)
<1>1. /\ ch \in [Buckets -> Seq(Cells)] /\ U \subseteq Cells
      /\ \A h \in Buckets : x.bucket[h] = IF ch[h] = <<>> THEN 0 ELSE ch[h][1]
  BY DEF Chained
<1>2. \A h \in Buckets, i, j \in Nat :
        i \in 1..Len(ch[h]) /\ j \in 1..Len(ch[h]) /\ ch[h][i] = ch[h][j] => i = j
  BY DEF Chained
<1>3. \A p \in U : /\ y.str[p].text \in Texts
                   /\ \E i \in 1..Len(ch[Hash[y.str[p].text]]) : ch[Hash[y.str[p].text]][i] = p
  BY DEF Chained
<1>4. \A h \in Buckets, i \in Nat : i \in 1..Len(ch[h]) =>
        /\ ch[h][i] \in U /\ Hash[y.str[ch[h][i]].text] = h
        /\ y.str[ch[h][i]].next = IF i = Len(ch[h]) THEN 0 ELSE ch[h][i + 1]
  <2> SUFFICES ASSUME NEW h \in Buckets, NEW i \in Nat, i \in 1..Len(ch[h])
               PROVE  /\ ch[h][i] \in U /\ Hash[y.str[ch[h][i]].text] = h
                      /\ y.str[ch[h][i]].next = IF i = Len(ch[h]) THEN 0 ELSE ch[h][i + 1]
    OBVIOUS
  <2> DEFINE p == ch[h][i]
  <2>1. /\ p \in U /\ Hash[x.str[p].text] = h
        /\ x.str[p].next = IF i = Len(ch[h]) THEN 0 ELSE ch[h][i + 1]
    BY DEF Chained
  <2> HIDE DEF p
  <2>2. y.str[p].text = x.str[p].text /\ y.str[p].next = x.str[p].next
    BY <2>1
  <2>3. QED
    BY <2>1, <2>2 DEF p
<1>5. QED
  BY <1>1, <1>2, <1>3, <1>4 DEF Chained

\* A string joins the chain of its bucket in front.
LEMMA ChainedEnter ==
  ASSUME NEW x, NEW ch, NEW U, Chained(x, ch, U), NEW new \in Cells \ U,
         NEW s \in Texts, NEW h, h = Hash[s], x.bucket \in [Buckets -> Cells \cup {0}],
         NEW y, y.bucket = [x.bucket EXCEPT ![h] = new],
         y.str[new].text = s, y.str[new].next = x.bucket[h],
         \A o \in U : y.str[o].text = x.str[o].text /\ y.str[o].next = x.str[o].next
  PROVE  \E c : Chained(y, c, U \cup {new})
<1> DEFINE t == <<new>> \o ch[h]
           c == [ch EXCEPT ![h] = t]
           n == Len(ch[h])
           V == U \cup {new}
<1>1. /\ h \in Buckets /\ ch \in [Buckets -> Seq(Cells)] /\ U \subseteq Cells /\ n \in Nat
      /\ ch[h] \in Seq(Cells)
  BY BucketOf DEF Chained
<1>2. /\ t \in Seq(Cells) /\ Len(t) = n + 1 /\ t[1] = new /\ t # <<>>
      /\ \A i \in 1..(n + 1) : i # 1 => t[i] = ch[h][i - 1]
  <2>1. <<new>> \in Seq(Cells) /\ Len(<<new>>) = 1 /\ <<new>>[1] = new
    OBVIOUS
  <2>2. /\ t \in Seq(Cells) /\ Len(t) = n + 1
        /\ \A i \in 1..(1 + n) : t[i] = IF i <= 1 THEN <<new>>[i] ELSE ch[h][i - 1]
    BY <1>1, <2>1, ConcatProperties
  <2> HIDE DEF t, n
  <2>3. 1 \in 1..(1 + n) /\ t # <<>>
    BY <1>1, <2>2
  <2>4. QED
    BY <1>1, <2>1, <2>2, <2>3
<1> HIDE DEF t
<1>3. c \in [Buckets -> Seq(Cells)] /\ c[h] = t /\ \A b \in Buckets : b # h => c[b] = ch[b]
  BY <1>1, <1>2
<1> HIDE DEF c, n
<1>4. /\ \A b \in Buckets : x.bucket[b] = IF ch[b] = <<>> THEN 0 ELSE ch[b][1]
      /\ \A b \in Buckets, i \in Nat : i \in 1..Len(ch[b]) =>
           /\ ch[b][i] \in U /\ Hash[x.str[ch[b][i]].text] = b
           /\ x.str[ch[b][i]].next = IF i = Len(ch[b]) THEN 0 ELSE ch[b][i + 1]
      /\ \A b \in Buckets, i, j \in Nat :
           i \in 1..Len(ch[b]) /\ j \in 1..Len(ch[b]) /\ ch[b][i] = ch[b][j] => i = j
      /\ \A o \in U : /\ x.str[o].text \in Texts
                      /\ \E i \in 1..Len(ch[Hash[x.str[o].text]]) : ch[Hash[x.str[o].text]][i] = o
  BY DEF Chained
<1>5. \A b \in Buckets : y.bucket[b] = IF c[b] = <<>> THEN 0 ELSE c[b][1]
  <2> TAKE b \in Buckets
  <2>1. CASE b = h
    BY <1>2, <1>3, <2>1
  <2>2. CASE b # h
    BY <1>3, <1>4, <2>2
  <2>3. QED
    BY <2>1, <2>2
<1>6. \A b \in Buckets, i \in Nat : i \in 1..Len(ch[b]) =>
        /\ ch[b][i] \in U /\ ch[b][i] # new /\ Hash[y.str[ch[b][i]].text] = b
        /\ y.str[ch[b][i]].next = IF i = Len(ch[b]) THEN 0 ELSE ch[b][i + 1]
  <2> SUFFICES ASSUME NEW b \in Buckets, NEW i \in Nat, i \in 1..Len(ch[b])
               PROVE  /\ ch[b][i] \in U /\ ch[b][i] # new /\ Hash[y.str[ch[b][i]].text] = b
                      /\ y.str[ch[b][i]].next = IF i = Len(ch[b]) THEN 0 ELSE ch[b][i + 1]
    OBVIOUS
  <2>1. /\ ch[b][i] \in U /\ Hash[x.str[ch[b][i]].text] = b
        /\ x.str[ch[b][i]].next = IF i = Len(ch[b]) THEN 0 ELSE ch[b][i + 1]
    BY <1>4
  <2>2. ch[b][i] # new
    BY <2>1
  <2>3. QED
    BY <2>1, <2>2
<1>7. ASSUME NEW b \in Buckets, NEW i \in Nat, i \in 1..Len(c[b])
      PROVE  /\ c[b][i] \in V /\ Hash[y.str[c[b][i]].text] = b
             /\ y.str[c[b][i]].next = IF i = Len(c[b]) THEN 0 ELSE c[b][i + 1]
  <2>1. CASE b # h
    BY <1>3, <1>6, <1>7, <2>1
  <2>2. CASE b = h /\ i = 1
    <3>1. y.str[new].next = IF ch[h] = <<>> THEN 0 ELSE ch[h][1]
      BY <1>1, <1>4
    <3>2. ch[h] = <<>> <=> n = 0
      BY <1>1 DEF n
    <3>3. n # 0 => t[1 + 1] = ch[h][1]
      <4>1. n # 0 => 2 \in 1..(n + 1) /\ 2 - 1 = 1 /\ 1 + 1 = 2
        BY <1>1
      <4>2. QED
        BY <1>2, <4>1
    <3>4. Len(t) = n + 1 /\ (1 = n + 1 <=> n = 0)
      BY <1>1, <1>2
    <3>5. c[b] = t /\ c[b][i] = new /\ Len(c[b]) = n + 1 /\ c[b][i + 1] = t[1 + 1]
      BY <1>2, <1>3, <2>2
    <3>6. y.str[new].next = IF i = n + 1 THEN 0 ELSE t[1 + 1]
      BY <2>2, <3>1, <3>2, <3>3, <3>4
    <3>7. QED
      BY <2>2, <3>5, <3>6
  <2>3. CASE b = h /\ i # 1
    <3>1. i - 1 \in 1..n /\ i - 1 \in Nat /\ i \in 1..(n + 1) /\ (i - 1) + 1 = i
      BY <1>1, <1>2, <1>3, <1>7, <2>3
    <3>2. t[i] = ch[h][i - 1]
      BY <1>2, <2>3, <3>1
    <3>3. /\ ch[h][i - 1] \in U /\ Hash[y.str[ch[h][i - 1]].text] = h
          /\ y.str[ch[h][i - 1]].next = IF i - 1 = n THEN 0 ELSE ch[h][(i - 1) + 1]
      <4> DEFINE k == i - 1
      <4>1. k \in 1..Len(ch[h]) /\ k \in Nat
        BY <3>1 DEF n
      <4> HIDE DEF k
      <4>2. /\ ch[h][k] \in U /\ Hash[y.str[ch[h][k]].text] = h
            /\ y.str[ch[h][k]].next = IF k = Len(ch[h]) THEN 0 ELSE ch[h][k + 1]
        BY <1>1, <1>6, <4>1
      <4>3. QED
        BY <4>2 DEF k, n
    <3>4. i # n + 1 => t[i + 1] = ch[h][i]
      <4>1. i # n + 1 => i + 1 \in 1..(n + 1) /\ i + 1 # 1 /\ (i + 1) - 1 = i
        BY <1>1, <3>1
      <4>2. QED
        BY <1>2, <4>1
    <3>5. i - 1 = n <=> i = n + 1
      BY <1>1, <3>1
    <3>6. c[b] = t /\ c[b][i] = ch[h][i - 1] /\ Len(c[b]) = n + 1 /\ c[b][i + 1] = t[i + 1]
      BY <1>2, <1>3, <2>3, <3>2
    <3>7. y.str[c[b][i]].next = IF i = n + 1 THEN 0 ELSE t[i + 1]
      <4>1. y.str[c[b][i]].next = IF i - 1 = n THEN 0 ELSE ch[h][(i - 1) + 1]
        BY <3>3, <3>6
      <4>2. ch[h][(i - 1) + 1] = ch[h][i]
        BY <3>1
      <4>3. QED
        BY <3>4, <3>5, <4>1, <4>2
    <3>8. QED
      BY <2>3, <3>3, <3>6, <3>7
  <2>4. QED
    BY <2>1, <2>2, <2>3
<1>8. ASSUME NEW b \in Buckets, NEW i \in Nat, NEW j \in Nat,
             i \in 1..Len(c[b]), j \in 1..Len(c[b]), c[b][i] = c[b][j]
      PROVE  i = j
  <2>1. CASE b # h
    BY <1>3, <1>4, <1>8, <2>1
  <2>2. CASE b = h
    <3>1. i \in 1..(n + 1) /\ j \in 1..(n + 1) /\ t[i] = t[j]
      BY <1>2, <1>3, <1>8, <2>2
    <3>2. ASSUME NEW k \in 1..(n + 1), k # 1
          PROVE  t[k] = ch[h][k - 1] /\ k - 1 \in 1..n /\ k - 1 \in Nat /\ t[k] # new
      <4>1. t[k] = ch[h][k - 1] /\ k - 1 \in 1..n /\ k - 1 \in Nat
        BY <1>1, <1>2, <3>2
      <4>2. QED
        BY <1>1, <1>6, <4>1 DEF n
    <3>3. CASE i = 1 \/ j = 1
      BY <1>2, <3>1, <3>2, <3>3
    <3>4. CASE i # 1 /\ j # 1
      <4>1. ch[h][i - 1] = ch[h][j - 1]
        BY <3>1, <3>2, <3>4
      <4>2. i - 1 \in 1..n /\ j - 1 \in 1..n /\ i - 1 \in Nat /\ j - 1 \in Nat
        BY <3>1, <3>2, <3>4
      <4>3. i - 1 = j - 1
        BY <1>1, <1>4, <4>1, <4>2 DEF n
      <4>4. QED
        BY <4>3
    <3>5. QED
      BY <3>3, <3>4
  <2>3. QED
    BY <2>1, <2>2
<1>9. ASSUME NEW o \in V
      PROVE  /\ y.str[o].text \in Texts
             /\ \E i \in 1..Len(c[Hash[y.str[o].text]]) : c[Hash[y.str[o].text]][i] = o
  <2>1. CASE o = new
    <3>1. 1 \in 1..Len(t)
      BY <1>1, <1>2
    <3>2. QED
      BY <1>2, <1>3, <2>1, <3>1
  <2>2. CASE o # new
    <3> DEFINE b == Hash[x.str[o].text]
    <3>1. o \in U /\ x.str[o].text \in Texts /\ y.str[o].text = x.str[o].text
      BY <1>1, <1>4, <2>2
    <3>2. b \in Buckets
      BY <3>1, BucketOf
    <3>3. PICK i \in 1..Len(ch[b]) : ch[b][i] = o
      BY <1>4, <3>1
    <3> HIDE DEF b
    <3>4. CASE b # h
      <4>1. c[b] = ch[b]
        BY <1>3, <3>2, <3>4
      <4>2. QED
        BY <3>1, <3>3, <4>1 DEF b
    <3>5. CASE b = h
      <4>1. i + 1 \in 1..(n + 1) /\ i + 1 # 1 /\ (i + 1) - 1 = i
        BY <1>1, <3>3, <3>5 DEF n
      <4>2. t[i + 1] = o /\ i + 1 \in 1..Len(t)
        BY <1>2, <3>3, <3>5, <4>1
      <4>3. c[b][i + 1] = o /\ i + 1 \in 1..Len(c[b])
        BY <1>3, <3>5, <4>2
      <4>4. QED
        BY <3>1, <4>3 DEF b
    <3>6. QED
      BY <3>4, <3>5
  <2>3. QED
    BY <2>1, <2>2
<1>10. V \subseteq Cells
  BY <1>1
<1> HIDE DEF V
<1>11. Chained(y, c, V)
  BY <1>3, <1>5, <1>7, <1>8, <1>9, <1>10 DEF Chained
<1>12. QED
  BY <1>11 DEF V

\* y is x with what pointed to o pointing past it.
LeavesChain(x, h, o, y) ==
  /\ y.bucket = IF x.bucket[h] = o THEN [x.bucket EXCEPT ![h] = x.str[o].next] ELSE x.bucket
  /\ \A p \in Cells \ {o} :
       /\ y.str[p].text = x.str[p].text
       /\ y.str[p].next = IF x.bucket[h] # o /\ p \in Range(Chain(x, h)) /\ x.str[p].next = o
                          THEN x.str[o].next ELSE x.str[p].next

\* A string leaves the chain of its bucket.
LEMMA ChainedLeave ==
  ASSUME NEW x, NEW ch, NEW U, Chained(x, ch, U), NEW o \in U, NEW h, h = Hash[x.str[o].text],
         x.bucket \in [Buckets -> Cells \cup {0}], NEW y, LeavesChain(x, h, o, y)
  PROVE  \E c : Chained(y, c, U \ {o})
<1> DEFINE s == ch[h]
           n == Len(s)
           next == x.str[o].next
<1>1. ch \in [Buckets -> Seq(Cells)] /\ U \subseteq Cells
  BY DEF Chained
<1>firsts. \A b \in Buckets : x.bucket[b] = IF ch[b] = <<>> THEN 0 ELSE ch[b][1]
  BY DEF Chained
<1>nexts. \A b \in Buckets, i \in Nat : i \in 1..Len(ch[b]) =>
           /\ ch[b][i] \in U /\ Hash[x.str[ch[b][i]].text] = b
           /\ x.str[ch[b][i]].next = IF i = Len(ch[b]) THEN 0 ELSE ch[b][i + 1]
  BY DEF Chained
<1>once. \A b \in Buckets, i, j \in Nat :
           i \in 1..Len(ch[b]) /\ j \in 1..Len(ch[b]) /\ ch[b][i] = ch[b][j] => i = j
  BY DEF Chained
<1>all. \A p \in U : /\ x.str[p].text \in Texts
                     /\ \E i \in 1..Len(ch[Hash[x.str[p].text]]) : ch[Hash[x.str[p].text]][i] = p
  BY DEF Chained
<1>2. /\ h \in Buckets /\ s \in Seq(Cells) /\ n \in Nat /\ o # 0
      /\ \A i \in 1..n : s[i] \in Cells \ {0} /\ i \in Nat
  <2>1. h \in Buckets /\ s \in Seq(Cells) /\ n \in Nat
    BY <1>1, <1>all, BucketOf
  <2>2. \A p \in Cells : p \in Cells \ {0}
    BY RecordsAssumption
  <2> HIDE DEF s
  <2>3. QED
    BY <1>1, <2>1, <2>2
<1>3. Range(Chain(x, h)) = {s[i] : i \in 1..n}
  BY <1>2, ChainIs DEF Range
<1>4. PICK k \in 1..n : s[k] = o
  BY <1>all
<1> DEFINE t == RemoveAt(s, k)
           c == [ch EXCEPT ![h] = t]
           V == U \ {o}
<1>5. /\ t \in Seq(Cells) /\ DOMAIN t = 1..(n - 1) /\ Len(t) = n - 1
      /\ \A i \in 1..(n - 1) : t[i] = IF i < k THEN s[i] ELSE s[i + 1]
  <2>1. s \in Seq(Cells) /\ k \in 1..Len(s)
    BY <1>2
  <2> HIDE DEF s
  <2>2. QED
    BY <2>1, RemoveAtIs
<1> HIDE DEF t
<1>6. c \in [Buckets -> Seq(Cells)] /\ c[h] = t /\ \A b \in Buckets : b # h => c[b] = ch[b]
  <2> HIDE DEF s, n
  <2>1. QED
    BY <1>1, <1>2, <1>5
<1> HIDE DEF c
<1>7. ASSUME NEW i \in 1..n
      PROVE  s[i] \in U /\ Hash[x.str[s[i]].text] = h /\ x.str[s[i]].next = IF i = n THEN 0 ELSE s[i + 1]
  <2>1. i \in Nat /\ i \in 1..Len(ch[h]) /\ h \in Buckets
    BY <1>2
  <2>2. /\ ch[h][i] \in U /\ Hash[x.str[ch[h][i]].text] = h
        /\ x.str[ch[h][i]].next = IF i = Len(ch[h]) THEN 0 ELSE ch[h][i + 1]
    <3> DEFINE At(b, m) ==
                 /\ ch[b][m] \in U /\ Hash[x.str[ch[b][m]].text] = b
                 /\ x.str[ch[b][m]].next = IF m = Len(ch[b]) THEN 0 ELSE ch[b][m + 1]
    <3>1. \A b \in Buckets, m \in Nat : m \in 1..Len(ch[b]) => At(b, m)
      BY <1>nexts
    <3> HIDE DEF s, n, next, At
    <3>2. At(h, i)
      BY <2>1, <3>1
    <3>3. QED
      BY <3>2 DEF At
  <2>3. QED
    BY <2>2
<1>8. \A i, j \in 1..n : s[i] = s[j] => i = j
  BY <1>2, <1>once
<1> HIDE DEF s, n
<1>9. next = IF k = n THEN 0 ELSE s[k + 1]
  BY <1>4, <1>7
<1>10. \A i \in 1..n : s[i] # o <=> i # k
  BY <1>4, <1>8
<1>11. x.bucket[h] = s[1] /\ (x.bucket[h] = o <=> k = 1)
  <2>1. s # <<>> /\ 1 \in 1..n
    BY <1>2, <1>4 DEF n
  <2>2. x.bucket[h] = s[1]
    BY <1>2, <1>firsts, <2>1 DEF s
  <2>3. QED
    BY <1>10, <2>1, <2>2
<1>12. ASSUME NEW i \in 1..n, i # k
       PROVE  y.str[s[i]].next = IF i = n THEN 0 ELSE IF i + 1 = k THEN next ELSE s[i + 1]
  <2>1. s[i] \in Cells \ {o} /\ s[i] \in Range(Chain(x, h)) /\ x.str[s[i]].next = IF i = n THEN 0 ELSE s[i + 1]
    BY <1>2, <1>3, <1>7, <1>10, <1>12
  <2>2. i # n => i + 1 \in 1..n
    BY <1>2
  <2>3. x.str[s[i]].next = o <=> i # n /\ i + 1 = k
    BY <1>2, <1>4, <1>10, <2>1, <2>2
  <2>4. i + 1 = k => k # 1
    BY <1>2
  <2>5. y.str[s[i]].next = IF x.bucket[h] # o /\ x.str[s[i]].next = o THEN next ELSE x.str[s[i]].next
    BY <2>1 DEF LeavesChain
  <2> HIDE DEF next
  <2>6. QED
    BY <1>11, <2>1, <2>3, <2>4, <2>5
<1> HIDE DEF next
<1>13. \A b \in Buckets : y.bucket[b] = IF c[b] = <<>> THEN 0 ELSE c[b][1]
  <2> TAKE b \in Buckets
  <2>1. CASE b # h
    <3>1. c[b] = ch[b] /\ y.bucket[b] = x.bucket[b]
      BY <1>2, <1>6, <2>1 DEF LeavesChain
    <3>2. QED
      BY <1>firsts, <3>1
  <2>2. CASE b = h /\ k = 1
    <3>1. y.bucket[h] = next
      BY <1>2, <1>11, <2>2 DEF next, LeavesChain
    <3>2. CASE n = 1
      <4>1. t = <<>> /\ next = 0
        BY <1>2, <1>5, <1>9, <2>2, <3>2
      <4>2. QED
        BY <1>6, <2>2, <3>1, <4>1
    <3>3. CASE n # 1
      <4>1. 1 \in 1..(n - 1) /\ ~ (1 < k) /\ k # n /\ k + 1 = 1 + 1
        BY <1>2, <1>4, <2>2, <3>3
      <4>2. t # <<>> /\ t[1] = next
        BY <1>5, <1>9, <4>1
      <4>3. QED
        BY <1>6, <2>2, <3>1, <4>2
    <3>4. QED
      BY <3>2, <3>3
  <2>3. CASE b = h /\ k # 1
    <3>1. y.bucket[h] = s[1]
      BY <1>11, <2>3 DEF LeavesChain
    <3>2. 1 \in 1..(n - 1) /\ 1 < k
      BY <1>2, <1>4, <2>3
    <3>3. t # <<>> /\ t[1] = s[1]
      BY <1>5, <3>2
    <3>4. QED
      BY <1>6, <2>3, <3>1, <3>3
  <2>4. QED
    BY <2>1, <2>2, <2>3
<1>14. ASSUME NEW p \in V
       PROVE  p \in Cells \ {o} /\ y.str[p].text = x.str[p].text
  BY <1>1 DEF LeavesChain
<1>15. ASSUME NEW i \in 1..(n - 1)
       PROVE  t[i] \in V /\ y.str[t[i]].next = IF i = n - 1 THEN 0 ELSE t[i + 1]
  <2>1. CASE i < k
    <3>1. i \in 1..n /\ i # k /\ i # n /\ t[i] = s[i]
      BY <1>2, <1>4, <1>5, <2>1
    <3>2. y.str[s[i]].next = IF i + 1 = k THEN next ELSE s[i + 1]
      BY <1>12, <3>1
    <3>3. CASE i + 1 = k
      <4>1. k = n <=> i = n - 1
        BY <1>2, <1>4, <3>3
      <4>2. i # n - 1 => i + 1 \in 1..(n - 1) /\ ~ (i + 1 < k) /\ (i + 1) + 1 = k + 1
        BY <1>2, <1>4, <3>3
      <4>3. i # n - 1 => t[i + 1] = s[k + 1]
        BY <1>5, <4>2
      <4>4. QED
        BY <1>7, <1>9, <1>10, <3>1, <3>2, <3>3, <4>1, <4>3
    <3>4. CASE i + 1 # k
      <4>1. i + 1 \in 1..(n - 1) /\ i + 1 < k /\ i # n - 1
        BY <1>2, <1>4, <2>1, <3>4
      <4>2. t[i + 1] = s[i + 1]
        BY <1>5, <4>1
      <4>3. QED
        BY <1>7, <1>10, <3>1, <3>2, <3>4, <4>1, <4>2
    <3>5. QED
      BY <3>3, <3>4
  <2>2. CASE ~ (i < k)
    <3> DEFINE j == i + 1
    <3>1. j \in 1..n /\ j # k /\ j + 1 # k /\ (j = n <=> i = n - 1) /\ t[i] = s[j]
      BY <1>2, <1>4, <1>5, <2>2
    <3>2. i # n - 1 => t[i + 1] = s[j + 1]
      <4>1. i # n - 1 => i + 1 \in 1..(n - 1) /\ ~ (i + 1 < k)
        BY <1>2, <1>4, <2>2
      <4>2. QED
        BY <1>5, <4>1
    <3> HIDE DEF j
    <3>3. y.str[s[j]].next = IF j = n THEN 0 ELSE s[j + 1]
      BY <1>12, <3>1
    <3>4. s[j] \in V
      BY <1>7, <1>10, <3>1
    <3>5. QED
      BY <3>1, <3>2, <3>3, <3>4
  <2>3. QED
    BY <2>1, <2>2
<1>16. ASSUME NEW b \in Buckets, NEW i \in Nat, i \in 1..Len(c[b])
       PROVE  /\ c[b][i] \in V /\ Hash[y.str[c[b][i]].text] = b
              /\ y.str[c[b][i]].next = IF i = Len(c[b]) THEN 0 ELSE c[b][i + 1]
  <2>1. CASE b # h
    <3> DEFINE p == ch[b][i]
    <3>1. c[b] = ch[b]
      BY <1>6, <2>1
    <3>2. p \in U /\ Hash[x.str[p].text] = b /\ x.str[p].next = IF i = Len(ch[b]) THEN 0 ELSE ch[b][i + 1]
      BY <1>nexts, <1>16, <3>1
    <3>3. p \notin Range(Chain(x, h)) /\ p # o
      BY <1>3, <1>7, <2>1, <3>2
    <3> HIDE DEF p
    <3>4. p \in V /\ y.str[p].text = x.str[p].text /\ y.str[p].next = x.str[p].next
      BY <1>1, <3>2, <3>3 DEF LeavesChain
    <3>5. QED
      BY <3>1, <3>2, <3>4 DEF p
  <2>2. CASE b = h
    <3>1. c[b] = t /\ i \in 1..(n - 1) /\ Len(c[b]) = n - 1
      BY <1>5, <1>6, <1>16, <2>2
    <3>2. t[i] \in V /\ y.str[t[i]].next = IF i = n - 1 THEN 0 ELSE t[i + 1]
      BY <1>15, <3>1
    <3>3. \E j \in 1..n : t[i] = s[j]
      <4>1. i \in 1..n /\ i + 1 \in 1..n
        BY <1>2, <3>1
      <4>2. QED
        BY <1>5, <3>1, <4>1
    <3>4. Hash[y.str[t[i]].text] = h
      BY <1>7, <1>14, <3>2, <3>3
    <3>5. QED
      BY <2>2, <3>1, <3>2, <3>4
  <2>3. QED
    BY <2>1, <2>2
<1>17. ASSUME NEW b \in Buckets, NEW i \in Nat, NEW j \in Nat,
              i \in 1..Len(c[b]), j \in 1..Len(c[b]), c[b][i] = c[b][j]
       PROVE  i = j
  <2>1. CASE b # h
    <3>1. c[b] = ch[b]
      BY <1>6, <2>1
    <3>2. QED
      BY <1>once, <1>17, <3>1
  <2>2. CASE b = h
    <3>1. i \in 1..(n - 1) /\ j \in 1..(n - 1) /\ t[i] = t[j]
      BY <1>5, <1>6, <1>17, <2>2
    <3> DEFINE I(z) == IF z < k THEN z ELSE z + 1
    <3>2. \A z \in 1..(n - 1) : I(z) \in 1..n /\ t[z] = s[I(z)]
      BY <1>2, <1>4, <1>5
    <3>3. I(i) = I(j)
      <4> HIDE DEF I
      <4>1. QED
        BY <1>8, <3>1, <3>2
    <3>4. QED
      BY <1>2, <1>4, <3>1, <3>3
  <2>3. QED
    BY <2>1, <2>2
<1>18. ASSUME NEW p \in V
       PROVE  /\ y.str[p].text \in Texts
              /\ \E i \in 1..Len(c[Hash[y.str[p].text]]) : c[Hash[y.str[p].text]][i] = p
  <2> DEFINE b == Hash[x.str[p].text]
  <2>1. y.str[p].text = x.str[p].text /\ x.str[p].text \in Texts /\ p \in U /\ p # o
    BY <1>14, <1>all
  <2>2. b \in Buckets
    BY <2>1, BucketOf
  <2>3. PICK i \in 1..Len(ch[b]) : ch[b][i] = p
    BY <1>all, <2>1
  <2> HIDE DEF b
  <2>4. CASE b # h
    <3>1. c[b] = ch[b]
      BY <1>6, <2>2, <2>4
    <3>2. QED
      BY <2>1, <2>3, <3>1 DEF b
  <2>5. CASE b = h
    <3>1. i \in 1..n /\ s[i] = p /\ i # k
      BY <1>10, <2>1, <2>3, <2>5 DEF s, n
    <3>2. CASE i < k
      <4>1. i \in 1..(n - 1) /\ t[i] = p
        BY <1>2, <1>4, <1>5, <3>1, <3>2
      <4>2. c[b][i] = p /\ i \in 1..Len(c[b])
        BY <1>5, <1>6, <2>5, <4>1
      <4>3. QED
        BY <2>1, <4>2 DEF b
    <3>3. CASE ~ (i < k)
      <4> DEFINE j == i - 1
      <4>1. j \in 1..(n - 1) /\ ~ (j < k) /\ j + 1 = i
        BY <1>2, <1>4, <3>1, <3>3
      <4> HIDE DEF j
      <4>2. t[j] = p
        BY <1>5, <3>1, <4>1
      <4>3. c[b][j] = p /\ j \in 1..Len(c[b])
        BY <1>5, <1>6, <2>5, <4>1, <4>2
      <4>4. QED
        BY <2>1, <4>3 DEF b
    <3>4. QED
      BY <3>2, <3>3
  <2>6. QED
    BY <2>4, <2>5
<1>19. V \subseteq Cells
  BY <1>1
<1> HIDE DEF V
<1>20. Chained(y, c, V)
  BY <1>6, <1>13, <1>16, <1>17, <1>18, <1>19 DEF Chained
<1>21. QED
  BY <1>20 DEF V

-----------------------------------------------------------------------------
\* The strings through every step of an operation.

StringSet == [text : Texts \cup {NoText}, extra : Cells \cup {0}, count : Nat, next : Cells \cup {0}]
StrType(x) == x.str \in [Cells -> StringSet] /\ x.bucket \in [Buckets -> Cells \cup {0}]

\* The strings with o as their prefix or language.
Owners(x, o) == {p \in InUse(x) : x.str[p].extra = o}

\* e is the string with the extra part of text s, or 0 if s has none.
IsExtra(x, s, e) ==
  IF Extra[s] = NoText THEN e = 0 ELSE e \in InUse(x) /\ x.str[e].text = Extra[s]

\* Cells without a string are empty, and no field holds them.
FreeOk(x, H) == \A o \in Cells \ InUse(x) : x.str[o] = Free /\ H[o] = 0

\* A string counts the fields that hold it, H[o], and the strings it is a part of.
CountsOk(x, H) ==
  \A o \in InUse(x) : /\ x.str[o].count = H[o] + Cardinality(Owners(x, o))
                      /\ x.str[o].count = 0 => o \in x.loose
ExtrasOk(x) == \A o \in InUse(x) : IsExtra(x, x.str[o].text, x.str[o].extra)

\* The strings in the chains have different texts.
TextsOk(x) == \A o, p \in Listed(x) : x.str[o].text = x.str[p].text => o = p
ChainsOk(x) == \E ch : Chained(x, ch, Listed(x))

\* A string in no chain is an extra part, and the strings it is a part of are of the
\* same bucket.
LostOk(x) ==
  \A o \in InUse(x) \ Listed(x) :
    /\ x.str[o].count = 1 /\ Extra[x.str[o].text] = NoText
    /\ \A p \in Owners(x, o) : Hash[x.str[p].text] = Hash[x.str[o].text]

\* The strings in the middle of an operation.
TableOk(x, H) ==
  /\ IsState(x) /\ StrType(x) /\ H \in [Cells -> Nat]
  /\ FreeOk(x, H) /\ CountsOk(x, H) /\ ExtrasOk(x) /\ TextsOk(x) /\ ChainsOk(x) /\ LostOk(x)

\* The fields hold only strings that are in the chains.
HeldListed(x, H) == \A o \in Cells : H[o] > 0 => o \in Listed(x)

StringsOk(x, H) == TableOk(x, H) /\ HeldListed(x, H)

More(H, o) == [H EXCEPT ![o] = @ + 1]
Less(H, o) == [H EXCEPT ![o] = @ - 1]

\* The same strings with the same chains; the counts may differ.
SameTexts(x, y) ==
  /\ y.bucket = x.bucket
  /\ \A o \in Cells : /\ y.str[o].text = x.str[o].text /\ y.str[o].extra = x.str[o].extra
                      /\ y.str[o].next = x.str[o].next

LEMMA TextsKept ==
  ASSUME NEW x, NEW y, SameTexts(x, y)
  PROVE  /\ InUse(y) = InUse(x) /\ \A o : Owners(y, o) = Owners(x, o)
         /\ ExtrasOk(x) => ExtrasOk(y)
         /\ ChainsOk(x) => ChainsOk(y) /\ Listed(y) = Listed(x) /\ Listed(x) \subseteq InUse(x)
         /\ ChainsOk(x) /\ TextsOk(x) => TextsOk(y)
         /\ ChainsOk(x) /\ LostOk(x) /\ (\A o \in InUse(x) \ Listed(x) : y.str[o].count = x.str[o].count)
              => LostOk(y)
<1>1. InUse(y) = InUse(x) /\ InUse(x) \subseteq Cells
  BY DEF InUse, SameTexts
<1>2. \A o : Owners(y, o) = Owners(x, o)
  BY <1>1 DEF Owners, SameTexts
<1>3. ExtrasOk(x) => ExtrasOk(y)
  BY <1>1 DEF ExtrasOk, IsExtra, SameTexts
<1>4. ASSUME ChainsOk(x)
      PROVE  ChainsOk(y) /\ Listed(y) = Listed(x) /\ Listed(x) \subseteq InUse(x)
  <2>1. PICK ch : Chained(x, ch, Listed(x))
    BY <1>4 DEF ChainsOk
  <2>2. Listed(x) \subseteq InUse(x)
    BY <2>1, RecordsAssumption DEF Chained, InUse
  <2>3. Chained(y, ch, Listed(x))
    BY <1>1, <2>1, <2>2, ChainedSame DEF SameTexts
  <2>4. QED
    BY <2>2, <2>3, ListedIs DEF ChainsOk
<1>5. ASSUME ChainsOk(x), TextsOk(x)
      PROVE  TextsOk(y)
  BY <1>1, <1>4, <1>5 DEF TextsOk, SameTexts
<1>6. ASSUME ChainsOk(x), LostOk(x), \A o \in InUse(x) \ Listed(x) : y.str[o].count = x.str[o].count
      PROVE  LostOk(y)
  <2> SUFFICES ASSUME NEW o \in InUse(x) \ Listed(x)
               PROVE  /\ y.str[o].count = 1 /\ Extra[y.str[o].text] = NoText
                      /\ \A p \in Owners(x, o) : Hash[y.str[p].text] = Hash[y.str[o].text]
    BY <1>1, <1>2, <1>4, <1>6 DEF LostOk
  <2>1. \A p \in InUse(x) : y.str[p].text = x.str[p].text
    BY <1>1 DEF SameTexts
  <2>2. Owners(x, o) \subseteq InUse(x)
    BY DEF Owners
  <2>3. QED
    BY <1>6, <2>1, <2>2 DEF LostOk
<1>7. QED
  BY <1>1, <1>2, <1>3, <1>4, <1>5, <1>6

LEMMA OwnersFinite ==
  ASSUME NEW x, NEW o
  PROVE  /\ IsFiniteSet(Owners(x, o)) /\ Cardinality(Owners(x, o)) \in Nat
         /\ Cardinality(Owners(x, o)) = 0 <=> Owners(x, o) = {}
<1>1. Owners(x, o) \subseteq Cells /\ IsFiniteSet(Cells)
  BY RecordsAssumption DEF Owners, InUse
<1>2. QED
  BY <1>1, FS_Subset, FS_CardinalityType, FS_EmptySet

LEMMA CountChanged ==
  ASSUME NEW s \in StringSet, NEW n \in Nat, NEW t, t = [s EXCEPT !.count = n]
  PROVE  /\ t \in StringSet /\ t.count = n
         /\ t.text = s.text /\ t.extra = s.extra /\ t.next = s.next
  BY DEF StringSet

\* Something starts to hold a string.
LEMMA HoldOk ==
  ASSUME NEW x, NEW H, TableOk(x, H), NEW o \in Listed(x)
  PROVE  TableOk(Hold(x, o), More(H, o)) /\ SameTexts(x, Hold(x, o))
<1> DEFINE y == Hold(x, o)
           G == More(H, o)
           a == [x.str EXCEPT ![o].count = @ + 1]
<1>0. o \in InUse(x)
  BY TextsKept DEF TableOk, SameTexts
<1>1. o \in Cells /\ x.str \in [Cells -> StringSet] /\ H \in [Cells -> Nat]
  BY <1>0 DEF TableOk, StrType, InUse
<1>2. /\ IsState(y) /\ y.str = a /\ y.bucket = x.bucket /\ y.loose = x.loose \ {o}
  <2> DEFINE l == x.loose \ {o}
  <2>1. y = [[x EXCEPT !.str = a] EXCEPT !.loose = l] /\ IsState(x)
    BY DEF Hold, TableOk
  <2> HIDE DEF y, a, l
  <2>2. QED
    BY <2>1 DEF IsState, l
<1>3. /\ a \in [Cells -> StringSet] /\ a[o].count = x.str[o].count + 1
      /\ a[o].text = x.str[o].text /\ a[o].extra = x.str[o].extra /\ a[o].next = x.str[o].next
      /\ \A p \in Cells : p # o => a[p] = x.str[p]
  <2>1. x.str[o] \in StringSet /\ x.str[o].count \in Nat /\ x.str[o].count + 1 \in Nat
    BY <1>1 DEF StringSet
  <2> DEFINE c == [x.str[o] EXCEPT !.count = @ + 1]
  <2>2. /\ c \in StringSet /\ c.count = x.str[o].count + 1
        /\ c.text = x.str[o].text /\ c.extra = x.str[o].extra /\ c.next = x.str[o].next
    BY <2>1, CountChanged
  <2> HIDE DEF c
  <2>3. a = [x.str EXCEPT ![o] = c]
    BY DEF c
  <2> HIDE DEF a
  <2>4. QED
    BY <1>1, <2>2, <2>3
<1> HIDE DEF y, a
<1>4. y.str[o].count = x.str[o].count + 1 /\ \A p \in Cells : p # o => y.str[p] = x.str[p]
  BY <1>1, <1>2, <1>3
<1>5. SameTexts(x, y)
  BY <1>2, <1>3 DEF SameTexts
<1>6. InUse(y) = InUse(x) /\ \A p : Owners(y, p) = Owners(x, p)
  BY <1>5, TextsKept
<1>7. G \in [Cells -> Nat] /\ G[o] = H[o] + 1 /\ \A p \in Cells : p # o => G[p] = H[p]
  BY <1>1 DEF More
<1>8. FreeOk(y, G)
  BY <1>0, <1>4, <1>6, <1>7 DEF FreeOk, TableOk
<1>9. CountsOk(y, G)
  <2> SUFFICES ASSUME NEW p \in InUse(x)
               PROVE  /\ y.str[p].count = G[p] + Cardinality(Owners(x, p))
                      /\ y.str[p].count = 0 => p \in y.loose
    BY <1>6 DEF CountsOk
  <2>1. /\ x.str[p].count = H[p] + Cardinality(Owners(x, p))
        /\ x.str[p].count = 0 => p \in x.loose
    BY DEF TableOk, CountsOk
  <2>2. p \in Cells
    BY DEF InUse
  <2>3. Cardinality(Owners(x, p)) \in Nat /\ H[p] \in Nat
    BY <1>1, <2>2, OwnersFinite
  <2>4. QED
    BY <1>2, <1>4, <1>7, <2>1, <2>2, <2>3
<1>10. ExtrasOk(y) /\ TextsOk(y) /\ ChainsOk(y) /\ LostOk(y)
  <2>1. \A p \in InUse(x) \ Listed(x) : y.str[p].count = x.str[p].count
    BY <1>4 DEF InUse
  <2>2. QED
    BY <1>5, <2>1, TextsKept DEF TableOk
<1>11. StrType(y)
  BY <1>2, <1>3 DEF StrType, TableOk
<1>12. TableOk(y, G)
  BY <1>2, <1>7, <1>8, <1>9, <1>10, <1>11 DEF TableOk
<1>13. QED
  BY <1>5, <1>12 DEF y

\* Something lets go of a string that something else still holds.
LEMMA DropKeeps ==
  ASSUME NEW x, NEW H, TableOk(x, H), NEW o \in InUse(x), H[o] > 0, x.str[o].count > 1
  PROVE  TableOk(Drop(x, o), Less(H, o)) /\ SameTexts(x, Drop(x, o))
<1> DEFINE y == Drop(x, o)
           G == Less(H, o)
           a == [x.str EXCEPT ![o].count = @ - 1]
<1>1. o \in Cells /\ x.str \in [Cells -> StringSet] /\ H \in [Cells -> Nat] /\ x.str[o].count \in Nat
  BY DEF TableOk, StrType, InUse, StringSet
<1>2. /\ IsState(y) /\ y.str = a /\ y.bucket = x.bucket /\ y.loose = x.loose
  <2>1. y = [x EXCEPT !.str = a] /\ IsState(x)
    BY DEF Drop, TableOk
  <2> HIDE DEF y, a
  <2>2. QED
    BY <2>1 DEF IsState
<1>3. /\ a \in [Cells -> StringSet] /\ a[o].count = x.str[o].count - 1
      /\ a[o].text = x.str[o].text /\ a[o].extra = x.str[o].extra /\ a[o].next = x.str[o].next
      /\ \A p \in Cells : p # o => a[p] = x.str[p]
  <2>1. x.str[o] \in StringSet /\ x.str[o].count \in Nat /\ x.str[o].count - 1 \in Nat
    BY <1>1 DEF StringSet
  <2> DEFINE c == [x.str[o] EXCEPT !.count = @ - 1]
  <2>2. /\ c \in StringSet /\ c.count = x.str[o].count - 1
        /\ c.text = x.str[o].text /\ c.extra = x.str[o].extra /\ c.next = x.str[o].next
    BY <2>1, CountChanged
  <2> HIDE DEF c
  <2>3. a = [x.str EXCEPT ![o] = c]
    BY DEF c
  <2> HIDE DEF a
  <2>4. QED
    BY <1>1, <2>2, <2>3
<1> HIDE DEF y, a
<1>4. y.str[o].count = x.str[o].count - 1 /\ \A p \in Cells : p # o => y.str[p] = x.str[p]
  BY <1>1, <1>2, <1>3
<1>5. SameTexts(x, y)
  BY <1>2, <1>3 DEF SameTexts
<1>6. InUse(y) = InUse(x) /\ \A p : Owners(y, p) = Owners(x, p)
  BY <1>5, TextsKept
<1>7. G \in [Cells -> Nat] /\ G[o] = H[o] - 1 /\ \A p \in Cells : p # o => G[p] = H[p]
  BY <1>1 DEF Less
<1>8. FreeOk(y, G)
  BY <1>4, <1>6, <1>7 DEF FreeOk, TableOk
<1>9. CountsOk(y, G)
  <2> SUFFICES ASSUME NEW p \in InUse(x)
               PROVE  /\ y.str[p].count = G[p] + Cardinality(Owners(x, p))
                      /\ y.str[p].count = 0 => p \in y.loose
    BY <1>6 DEF CountsOk
  <2>1. /\ x.str[p].count = H[p] + Cardinality(Owners(x, p))
        /\ x.str[p].count = 0 => p \in x.loose
    BY DEF TableOk, CountsOk
  <2>2. p \in Cells
    BY DEF InUse
  <2>3. Cardinality(Owners(x, p)) \in Nat /\ H[p] \in Nat
    BY <1>1, <2>2, OwnersFinite
  <2>4. QED
    BY <1>1, <1>2, <1>4, <1>7, <2>1, <2>2, <2>3
<1>10. ExtrasOk(y) /\ TextsOk(y) /\ ChainsOk(y) /\ LostOk(y)
  <2>1. \A p \in InUse(x) \ Listed(x) : y.str[p].count = x.str[p].count
    <3>1. \A p \in InUse(x) \ Listed(x) : p # o /\ p \in Cells
      BY DEF TableOk, LostOk, InUse
    <3>2. QED
      BY <1>4, <3>1
  <2>2. QED
    BY <1>5, <2>1, TextsKept DEF TableOk
<1>11. StrType(y)
  BY <1>2, <1>3 DEF StrType, TableOk
<1>12. TableOk(y, G)
  BY <1>2, <1>7, <1>8, <1>9, <1>10, <1>11 DEF TableOk
<1>13. QED
  BY <1>5, <1>12 DEF y

LEMMA NextChanged ==
  ASSUME NEW s \in StringSet, NEW n \in Cells \cup {0}, NEW t, t = [s EXCEPT !.next = n]
  PROVE  /\ t \in StringSet /\ t.next = n
         /\ t.text = s.text /\ t.extra = s.extra /\ t.count = s.count
  BY DEF StringSet

LEMMA StringParts ==
  ASSUME NEW s \in StringSet, NEW t \in StringSet, t.text = s.text, t.extra = s.extra,
         t.count = s.count, t.next = s.next
  PROVE  t = s
  BY DEF StringSet

LEMMA FreeIsString == Free \in StringSet /\ Free.next = 0 /\ Free.text = NoText
  BY DEF Free, StringSet

\* The strings of y are those of x without o.
Freed(x, o, y) ==
  /\ IsState(y) /\ y.str \in [Cells -> StringSet] /\ y.bucket \in [Buckets -> Cells \cup {0}]
  /\ y.bucket = IF x.bucket[Hash[x.str[o].text]] = o
                THEN [x.bucket EXCEPT ![Hash[x.str[o].text]] = x.str[o].next] ELSE x.bucket
  /\ y.str[o] = Free /\ y.loose = x.loose \ {o}
  /\ \A p \in Cells \ {o} :
       /\ y.str[p].text = x.str[p].text /\ y.str[p].extra = x.str[p].extra
       /\ y.str[p].count = x.str[p].count
       /\ y.str[p].next = IF /\ x.bucket[Hash[x.str[o].text]] # o
                             /\ p \in Range(Chain(x, Hash[x.str[o].text])) /\ x.str[p].next = o
                          THEN x.str[o].next ELSE x.str[p].next

LEMMA DropIsFreed ==
  ASSUME NEW x, IsState(x), StrType(x), NEW o \in InUse(x), ~ (x.str[o].count > 1)
  PROVE  Freed(x, o, Drop(x, o))
<1> DEFINE h == Hash[x.str[o].text]
           next == x.str[o].next
           R == Range(Chain(x, h))
           first == x.bucket[h] = o
           Behind(p) == IF p \in R /\ x.str[p].next = o THEN [x.str[p] EXCEPT !.next = next] ELSE x.str[p]
           b == IF first THEN [x.bucket EXCEPT ![h] = next] ELSE x.bucket
           a == IF first THEN x.str ELSE [p \in Cells |-> Behind(p)]
           z == Unchain(x, o)
           y == Drop(x, o)
<1>1. o \in Cells /\ x.str \in [Cells -> StringSet] /\ x.bucket \in [Buckets -> Cells \cup {0}] /\ next \in Cells \cup {0}
  BY DEF StrType, InUse, StringSet
<1>2. z = IF first THEN [x EXCEPT !.bucket[h] = next] ELSE [x EXCEPT !.str = [p \in Cells |-> Behind(p)]]
  BY DEF Unchain
<1>3. y = [z EXCEPT !.str[o] = Free, !.loose = @ \ {o}]
  BY DEF Drop
<1> HIDE DEF z, y, R, next, h
<1>4. b \in [Buckets -> Cells \cup {0}]
  BY <1>1
<1>5. ASSUME NEW p \in Cells
      PROVE  /\ Behind(p) \in StringSet /\ Behind(p).text = x.str[p].text /\ Behind(p).extra = x.str[p].extra
             /\ Behind(p).count = x.str[p].count
             /\ Behind(p).next = IF p \in R /\ x.str[p].next = o THEN next ELSE x.str[p].next
  <2> DEFINE c == [x.str[p] EXCEPT !.next = next]
  <2>1. x.str[p] \in StringSet
    BY <1>1
  <2>2. /\ c \in StringSet /\ c.next = next
        /\ c.text = x.str[p].text /\ c.extra = x.str[p].extra /\ c.count = x.str[p].count
    <3> DEFINE s == x.str[p]
    <3>1. s \in StringSet /\ next \in Cells \cup {0}
      BY <1>1, <2>1
    <3> HIDE DEF s
    <3>2. [s EXCEPT !.next = next] = c
      BY DEF s
    <3>3. QED
      BY <3>1, <3>2, NextChanged DEF s
  <2>3. Behind(p) = IF p \in R /\ x.str[p].next = o THEN c ELSE x.str[p]
    OBVIOUS
  <2> HIDE DEF c, Behind
  <2>4. QED
    BY <2>1, <2>2, <2>3
<1> HIDE DEF Behind
<1>6. /\ a \in [Cells -> StringSet]
      /\ \A p \in Cells :
           /\ a[p].text = x.str[p].text /\ a[p].extra = x.str[p].extra /\ a[p].count = x.str[p].count
           /\ a[p].next = IF ~ first /\ p \in R /\ x.str[p].next = o THEN next ELSE x.str[p].next
  <2>1. CASE first
    BY <1>1, <2>1
  <2>2. CASE ~ first
    <3>1. a = [p \in Cells |-> Behind(p)]
      BY <2>2
    <3> HIDE DEF a, first
    <3>2. QED
      BY <1>5, <2>2, <3>1
  <2>3. QED
    BY <2>1, <2>2
<1>7. IsState(z) /\ z.str = a /\ z.bucket = b /\ z.loose = x.loose
  <2>1. CASE first
    BY <1>2, <2>1 DEF IsState
  <2>2. CASE ~ first
    <3> DEFINE d == [p \in Cells |-> Behind(p)]
    <3>1. z = [x EXCEPT !.str = d] /\ a = d /\ b = x.bucket
      BY <1>2, <2>2
    <3> HIDE DEF a, b, d
    <3>2. QED
      BY <3>1 DEF IsState
  <2>3. QED
    BY <2>1, <2>2
<1> HIDE DEF a
<1>8. IsState(y) /\ y.str = [a EXCEPT ![o] = Free] /\ y.bucket = b /\ y.loose = x.loose \ {o}
  <2> DEFINE d == [a EXCEPT ![o] = Free]
             l == x.loose \ {o}
  <2>1. y = [[z EXCEPT !.str = d] EXCEPT !.loose = l]
    BY <1>3, <1>7 DEF IsState
  <2> HIDE DEF b, d, l
  <2>2. QED
    BY <1>7, <2>1 DEF IsState, d, l
<1>9. /\ y.str \in [Cells -> StringSet] /\ y.str[o] = Free
      /\ \A p \in Cells \ {o} : y.str[p] = a[p]
  BY <1>1, <1>6, <1>8, FreeIsString
<1>10. Freed(x, o, y)
  BY <1>4, <1>6, <1>8, <1>9 DEF Freed, h, next, R
<1>11. QED
  BY <1>10 DEF y

\* The last holder lets go of a string: it is freed, and a string that was part of it
\* is held by nothing in its place yet.
LEMMA DropFrees ==
  ASSUME NEW x, NEW H, TableOk(x, H), NEW o \in InUse(x), H[o] > 0, ~ (x.str[o].count > 1)
  PROVE  /\ Drop(x, o).str[o].text = NoText /\ Listed(Drop(x, o)) = Listed(x) \ {o}
         /\ x.str[o].extra = 0 => TableOk(Drop(x, o), Less(H, o))
         /\ x.str[o].extra # 0 =>
              /\ x.str[o].extra \in InUse(Drop(x, o)) /\ x.str[o].extra # o
              /\ Drop(x, o).str[x.str[o].extra].text = x.str[x.str[o].extra].text
              /\ TableOk(Drop(x, o), More(Less(H, o), x.str[o].extra))
<1> DEFINE y == Drop(x, o)
           e == x.str[o].extra
           G == IF e = 0 THEN Less(H, o) ELSE More(Less(H, o), e)
           U == Listed(x)
           h == Hash[x.str[o].text]
<1>1. /\ IsState(x) /\ StrType(x) /\ o \in Cells /\ H \in [Cells -> Nat] /\ x.str \in [Cells -> StringSet]
      /\ FreeOk(x, H) /\ CountsOk(x, H) /\ ExtrasOk(x) /\ TextsOk(x) /\ ChainsOk(x) /\ LostOk(x)
  BY DEF TableOk, StrType, InUse
<1>2. Freed(x, o, y)
  BY <1>1, DropIsFreed
<1> HIDE DEF y
<1>3. U \subseteq InUse(x) /\ h \in Buckets /\ \E ch : Chained(x, ch, U)
  <2>1. U \subseteq InUse(x)
    BY <1>1, TextsKept DEF SameTexts
  <2>2. x.str[o].text \in Texts
    BY <1>1 DEF StringSet, InUse
  <2>3. QED
    BY <1>1, <2>1, <2>2, BucketOf DEF ChainsOk
<1>4. Owners(x, o) = {} /\ H[o] = 1 /\ e # o
  <2>1. x.str[o].count = H[o] + Cardinality(Owners(x, o)) /\ x.str[o].count \in Nat /\ H[o] \in Nat
    BY <1>1 DEF CountsOk, StringSet
  <2>2. Cardinality(Owners(x, o)) = 0 /\ H[o] = 1
    BY <2>1, OwnersFinite
  <2>3. Owners(x, o) = {}
    BY <2>2, OwnersFinite
  <2>4. QED
    BY <2>2, <2>3 DEF Owners
<1>5. /\ y.str[o] = Free /\ y.loose = x.loose \ {o} /\ y.str \in [Cells -> StringSet]
      /\ \A p \in Cells : p # o => /\ y.str[p].text = x.str[p].text /\ y.str[p].extra = x.str[p].extra
                                   /\ y.str[p].count = x.str[p].count
  BY <1>2 DEF Freed
<1>6. InUse(y) = InUse(x) \ {o} /\ InUse(y) \subseteq Cells /\ InUse(x) \subseteq Cells
  BY <1>1, <1>5, FreeIsString DEF InUse
<1>7. \A p : Owners(y, p) = Owners(x, p) \ {o}
  BY <1>5, <1>6 DEF Owners
<1>8. e # 0 => e \in InUse(x) /\ e \in Cells
  BY <1>1, <1>6 DEF ExtrasOk, IsExtra
<1>9. /\ G \in [Cells -> Nat] /\ G[o] = 0
      /\ \A p \in Cells : p # o => G[p] = IF p = e THEN H[p] + 1 ELSE H[p]
  <2>1. \A p \in Cells : p # 0
    BY RecordsAssumption
  <2>2. CASE e = 0
    BY <1>1, <1>4, <2>1, <2>2 DEF Less
  <2>3. CASE e # 0
    <3> DEFINE K == Less(H, o)
    <3>1. K \in [Cells -> Nat] /\ K[o] = 0 /\ \A p \in Cells : p # o => K[p] = H[p]
      BY <1>1, <1>4 DEF Less
    <3>2. G = More(K, e)
      BY <2>3
    <3> HIDE DEF K, G, e
    <3>3. QED
      BY <1>4, <1>8, <2>3, <3>1, <3>2 DEF More
  <2>4. QED
    BY <2>2, <2>3
<1> HIDE DEF G, e
<1>10. FreeOk(y, G)
  <2> SUFFICES ASSUME NEW p \in Cells \ InUse(y) PROVE y.str[p] = Free /\ G[p] = 0
    BY DEF FreeOk
  <2>1. CASE p = o
    BY <1>5, <1>9, <2>1
  <2>2. CASE p # o
    <3>1. p \in Cells \ InUse(x) /\ x.str[p] = Free /\ H[p] = 0
      BY <1>1, <1>6, <2>2 DEF FreeOk
    <3>2. p \notin Range(Chain(x, h))
      BY <1>3, <3>1 DEF Listed
    <3>3. y.str[p].next = x.str[p].next
      BY <1>2, <2>2, <3>1, <3>2 DEF Freed
    <3>4. y.str[p] = x.str[p]
      BY <1>1, <1>5, <2>2, <3>1, <3>3, StringParts
    <3>5. G[p] = H[p]
      BY <1>8, <1>9, <2>2, <3>1, RecordsAssumption
    <3>6. QED
      BY <3>1, <3>4, <3>5
  <2>3. QED
    BY <2>1, <2>2
<1>11. CountsOk(y, G)
  <2> SUFFICES ASSUME NEW p \in InUse(y)
               PROVE  /\ y.str[p].count = G[p] + Cardinality(Owners(y, p))
                      /\ y.str[p].count = 0 => p \in y.loose
    BY DEF CountsOk
  <2>1. p \in InUse(x) /\ p \in Cells /\ p # o
    BY <1>6
  <2>2. /\ x.str[p].count = H[p] + Cardinality(Owners(x, p)) /\ H[p] \in Nat
        /\ x.str[p].count = 0 => p \in x.loose
    BY <1>1, <2>1 DEF CountsOk
  <2>3. Cardinality(Owners(x, p) \ {o}) = IF p = e THEN Cardinality(Owners(x, p)) - 1 ELSE Cardinality(Owners(x, p))
    <3>1. o \in Owners(x, p) <=> p = e
      BY DEF Owners, e
    <3>2. QED
      BY <3>1, OwnersFinite, FS_RemoveElement
  <2>4. Cardinality(Owners(x, p)) \in Nat
    BY OwnersFinite
  <2>5. Owners(y, p) = Owners(x, p) \ {o} /\ G[p] = IF p = e THEN H[p] + 1 ELSE H[p]
    BY <1>7, <1>9, <2>1
  <2>6. G[p] + Cardinality(Owners(y, p)) = x.str[p].count
    BY <2>2, <2>3, <2>4, <2>5
  <2>7. QED
    BY <1>5, <2>1, <2>2, <2>6
<1>12. ExtrasOk(y)
  <2> SUFFICES ASSUME NEW p \in InUse(y) PROVE IsExtra(y, y.str[p].text, y.str[p].extra)
    BY DEF ExtrasOk
  <2>1. p \in InUse(x) /\ p \in Cells /\ p # o
    BY <1>6
  <2>2. IsExtra(x, x.str[p].text, x.str[p].extra) /\ x.str[p].extra # o
    BY <1>1, <1>4, <2>1 DEF ExtrasOk, Owners
  <2>3. QED
    BY <1>5, <1>6, <2>1, <2>2 DEF IsExtra
<1>13. Listed(y) = U \ {o} /\ ChainsOk(y)
  <2>1. PICK ch : Chained(x, ch, U)
    BY <1>3
  <2>2. LeavesChain(x, h, o, y)
    BY <1>2 DEF Freed, LeavesChain
  <2>3. x.bucket \in [Buckets -> Cells \cup {0}] /\ h = Hash[x.str[o].text]
    BY <1>1 DEF StrType
  <2> HIDE DEF U, h
  <2>4. \E c : Chained(y, c, U \ {o})
    <3>1. CASE o \in U
      BY <2>1, <2>2, <2>3, <3>1, ChainedLeave
    <3>2. CASE o \notin U
      <4>1. ASSUME NEW p \in U
            PROVE  y.str[p].text = x.str[p].text /\ y.str[p].next = x.str[p].next
        <5> DEFINE b == Hash[x.str[p].text]
        <5>1. b \in Buckets /\ \E i \in 1..Len(ch[b]) : ch[b][i] = p
          BY <2>1, BucketOf DEF Chained
        <5> HIDE DEF b
        <5>2. PICK i \in 1..Len(ch[b]) : ch[b][i] = p
          BY <5>1
        <5>3. ch[b] \in Seq(Cells) /\ i \in Nat
          BY <2>1, <5>1 DEF Chained
        <5>4. x.str[p].next = IF i = Len(ch[b]) THEN 0 ELSE ch[b][i + 1]
          BY <2>1, <5>1, <5>2, <5>3 DEF Chained
        <5>5. i # Len(ch[b]) => ch[b][i + 1] \in U
          <6>1. i # Len(ch[b]) => i + 1 \in 1..Len(ch[b]) /\ i + 1 \in Nat
            BY <5>3
          <6>2. QED
            BY <2>1, <5>1, <6>1 DEF Chained
        <5>6. x.str[p].next # o
          BY <1>1, <3>2, <5>4, <5>5, RecordsAssumption
        <5>7. p \in Cells \ {o}
          BY <2>1, <3>2 DEF Chained
        <5>8. QED
          BY <2>2, <5>6, <5>7 DEF LeavesChain
      <4>2. y.bucket = x.bucket
        <5>1. x.bucket[h] = IF ch[h] = <<>> THEN 0 ELSE ch[h][1]
          BY <1>3, <2>1 DEF Chained
        <5>2. ch[h] # <<>> => ch[h][1] \in U
          <6>1. ch[h] \in Seq(Cells)
            BY <1>3, <2>1 DEF Chained
          <6>2. ch[h] # <<>> => 1 \in 1..Len(ch[h]) /\ 1 \in Nat
            BY <6>1
          <6>3. QED
            BY <1>3, <2>1, <6>2 DEF Chained
        <5>3. x.bucket[h] # o
          BY <1>1, <3>2, <5>1, <5>2, RecordsAssumption
        <5>4. QED
          BY <2>2, <5>3 DEF LeavesChain
      <4>3. Chained(y, ch, U) /\ U \ {o} = U
        BY <2>1, <3>2, <4>1, <4>2, ChainedSame
      <4>4. QED
        BY <4>3
    <3>3. QED
      BY <3>1, <3>2
  <2>5. QED
    BY <2>4, ListedIs DEF ChainsOk
<1>14. TextsOk(y) /\ LostOk(y)
  <2>1. TextsOk(y)
    <3>1. \A p \in Listed(y) : p \in U /\ p \in Cells /\ p # o
      BY <1>3, <1>6, <1>13
    <3>2. QED
      BY <1>1, <1>5, <3>1 DEF TextsOk
  <2>2. LostOk(y)
    <3> SUFFICES ASSUME NEW p \in InUse(y) \ Listed(y)
                 PROVE  /\ y.str[p].count = 1 /\ Extra[y.str[p].text] = NoText
                        /\ \A q \in Owners(y, p) : Hash[y.str[q].text] = Hash[y.str[p].text]
      BY DEF LostOk
    <3>1. p \in InUse(x) \ U /\ p \in Cells /\ p # o
      BY <1>6, <1>13
    <3>2. /\ x.str[p].count = 1 /\ Extra[x.str[p].text] = NoText
          /\ \A q \in Owners(x, p) : Hash[x.str[q].text] = Hash[x.str[p].text]
      BY <1>1, <3>1 DEF LostOk
    <3>3. \A q \in Owners(y, p) : q \in Owners(x, p) /\ q # o /\ q \in Cells
      BY <1>6, <1>7 DEF Owners
    <3>4. QED
      BY <1>5, <3>1, <3>2, <3>3
  <2>3. QED
    BY <2>1, <2>2
<1>15. TableOk(y, G)
  BY <1>2, <1>9, <1>10, <1>11, <1>12, <1>13, <1>14 DEF TableOk, StrType, Freed
<1>16. y.str[o].text = NoText
  BY <1>5, FreeIsString
<1>17. e # 0 => e \in InUse(y) /\ e # o /\ y.str[e].text = x.str[e].text
  BY <1>4, <1>5, <1>6, <1>8
<1>18. QED
  BY <1>13, <1>15, <1>16, <1>17 DEF y, G, e

\* Something lets go of a string, which frees it, and maybe its prefix or language, if
\* nothing else holds it.
LEMMA ReleaseOk ==
  ASSUME NEW x, NEW H, StringsOk(x, H), NEW o \in InUse(x), H[o] > 0
  PROVE  StringsOk(Release(x, o), Less(H, o))
<1> DEFINE y == Drop(x, o)
           e == x.str[o].extra
           G == Less(H, o)
<1>1. Release(x, o) = IF y.str[o].text = NoText /\ e # 0 THEN Drop(y, e) ELSE y
  BY DEF Release
<1>2. o \in Cells /\ H \in [Cells -> Nat] /\ TableOk(x, H) /\ HeldListed(x, H)
  BY DEF StringsOk, TableOk, InUse
<1>listed. ASSUME NEW z, TableOk(z, G), \A q \in Listed(x) : q \in Listed(z) \/ z.str[q].text = NoText
           PROVE  HeldListed(z, G)
  <2> SUFFICES ASSUME NEW q \in Cells, G[q] > 0 PROVE q \in Listed(z)
    BY DEF HeldListed
  <2>1. H[q] > 0
    BY <1>2 DEF Less
  <2>2. q \in Listed(x)
    BY <1>2, <2>1 DEF HeldListed
  <2> HIDE DEF G
  <2>3. q \in InUse(z)
    BY <1>listed DEF TableOk, FreeOk
  <2>4. QED
    BY <1>listed, <2>2, <2>3 DEF InUse
<1>3. CASE x.str[o].count > 1
  <2>1. TableOk(y, G) /\ SameTexts(x, y)
    BY <1>2, <1>3, DropKeeps
  <2>2. y.str[o].text # NoText
    BY <1>2, <2>1 DEF SameTexts, InUse
  <2>3. Listed(y) = Listed(x)
    BY <1>2, <2>1, TextsKept DEF TableOk
  <2>4. HeldListed(y, G)
    BY <1>listed, <2>1, <2>3
  <2>5. QED
    BY <1>1, <2>1, <2>2, <2>4 DEF StringsOk
<1>4. CASE ~ (x.str[o].count > 1) /\ e = 0
  <2>1. TableOk(y, G) /\ y.str[o].text = NoText /\ Listed(y) = Listed(x) \ {o}
    BY <1>2, <1>4, DropFrees
  <2>2. HeldListed(y, G)
    BY <1>listed, <2>1
  <2>3. QED
    BY <1>1, <1>4, <2>1, <2>2 DEF StringsOk
<1>5. CASE ~ (x.str[o].count > 1) /\ e # 0
  <2> DEFINE K == More(G, e)
             z == Drop(y, e)
  <2>1. /\ y.str[o].text = NoText /\ e \in InUse(y) /\ e # o /\ y.str[e].text = x.str[e].text
        /\ TableOk(y, K) /\ Listed(y) = Listed(x) \ {o}
    BY <1>2, <1>5, DropFrees
  <2>2. Release(x, o) = z
    BY <1>1, <1>5, <2>1
  <2>3. e \in Cells /\ G \in [Cells -> Nat]
    <3>1. H[o] - 1 \in Nat
      BY <1>2
    <3>2. QED
      BY <1>2, <2>1, <3>1 DEF Less, InUse
  <2>4. K[e] = G[e] + 1 /\ K[e] > 0 /\ Less(K, e) = G
    <3> HIDE DEF G, e
    <3>1. K = [G EXCEPT ![e] = G[e] + 1]
      BY DEF More
    <3>2. K[e] = G[e] + 1 /\ G[e] \in Nat /\ (G[e] + 1) - 1 = G[e]
      BY <2>3, <3>1
    <3>3. Less(K, e) = [K EXCEPT ![e] = G[e]]
      BY <3>2 DEF Less
    <3>4. QED
      BY <2>3, <3>1, <3>2, <3>3
  <2>5. y.str[e].extra = 0
    <3>1. e \in InUse(x) /\ x.str[e].text = Extra[x.str[o].text] /\ Extra[x.str[o].text] # NoText
      BY <1>2, <1>5 DEF TableOk, ExtrasOk, IsExtra
    <3>2. x.str[o].text \in Texts
      BY <1>2 DEF TableOk, StrType, InUse, StringSet
    <3>3. Extra[y.str[e].text] = NoText
      BY <2>1, <3>1, <3>2, RecordsAssumption
    <3>4. QED
      BY <2>1, <3>3 DEF TableOk, ExtrasOk, IsExtra
  <2>freed. y.str[o].text = NoText /\ o \notin InUse(y)
    BY <2>1 DEF InUse
  <2> HIDE DEF y, K, G, e
  <2>6. CASE y.str[e].count > 1
    <3>1. TableOk(z, Less(K, e)) /\ SameTexts(y, z)
      BY <2>1, <2>4, <2>6, DropKeeps
    <3>2. Listed(z) = Listed(y)
      BY <2>1, <3>1, TextsKept DEF TableOk
    <3>3. z.str[o].text = NoText
      BY <1>2, <2>freed, <3>1 DEF SameTexts
    <3>4. HeldListed(z, G)
      BY <1>listed, <2>1, <2>4, <3>1, <3>2, <3>3 DEF G
    <3>5. QED
      BY <2>2, <2>4, <3>1, <3>4 DEF StringsOk, G
  <2>7. CASE ~ (y.str[e].count > 1)
    <3>1. TableOk(z, Less(K, e)) /\ z.str[e].text = NoText /\ Listed(z) = Listed(y) \ {e}
      BY <2>1, <2>4, <2>5, <2>7, DropFrees
    <3>2. z.str[o].text = NoText
      <4>1. Freed(y, e, z)
        BY <2>1, <2>7, DropIsFreed DEF TableOk
      <4>2. o \in Cells \ {e}
        BY <1>2, <2>1
      <4>3. QED
        BY <2>freed, <4>1, <4>2 DEF Freed
    <3>3. HeldListed(z, G)
      BY <1>listed, <2>1, <2>4, <3>1, <3>2 DEF G
    <3>4. QED
      BY <2>2, <2>4, <3>1, <3>3 DEF StringsOk, G
  <2>8. QED
    BY <2>6, <2>7
<1>6. QED
  BY <1>3, <1>4, <1>5

\* A new string is chained in, with its extra part if it has one.
Entered(x, new, s, e) ==
  WithStrings(x, [x.str EXCEPT ![new] = [text |-> s, extra |-> e, count |-> 0, next |-> x.bucket[Hash[s]]]],
              [x.bucket EXCEPT ![Hash[s]] = new], x.loose \cup {new})

LEMMA EnterOk ==
  ASSUME NEW x, NEW H, TableOk(x, H), NEW s \in Texts, \A o \in Listed(x) : x.str[o].text # s,
         NEW new \in Cells \ InUse(x), NEW e, IsExtra(x, s, e), e # 0 => H[e] > 0,
         e # 0 /\ e \notin Listed(x) => Hash[x.str[e].text] = Hash[s]
  PROVE  /\ Listed(Entered(x, new, s, e)) = Listed(x) \cup {new}
         /\ e = 0 => TableOk(Entered(x, new, s, e), H)
         /\ e # 0 => TableOk(Entered(x, new, s, e), Less(H, e))
<1> DEFINE y == Entered(x, new, s, e)
           h == Hash[s]
           cell == [text |-> s, extra |-> e, count |-> 0, next |-> x.bucket[h]]
           a == [x.str EXCEPT ![new] = cell]
           b == [x.bucket EXCEPT ![h] = new]
           l == x.loose \cup {new}
           G == IF e = 0 THEN H ELSE Less(H, e)
<1>1. /\ IsState(x) /\ StrType(x) /\ H \in [Cells -> Nat] /\ x.str \in [Cells -> StringSet]
      /\ x.bucket \in [Buckets -> Cells \cup {0}]
      /\ FreeOk(x, H) /\ CountsOk(x, H) /\ ExtrasOk(x) /\ TextsOk(x) /\ ChainsOk(x) /\ LostOk(x)
  BY DEF TableOk, StrType
<1>2. h \in Buckets /\ new # 0 /\ s # NoText /\ InUse(x) \subseteq Cells /\ Listed(x) \subseteq InUse(x)
  <2>1. Listed(x) \subseteq InUse(x)
    BY <1>1, TextsKept DEF SameTexts
  <2>2. QED
    BY <2>1, BucketOf, RecordsAssumption DEF InUse
<1>3. /\ IsState(y) /\ y.str = a /\ y.bucket = b /\ y.loose = l
  <2>1. y = WithStrings(x, a, b, l)
    BY DEF Entered
  <2> HIDE DEF y, a, b, l
  <2>2. QED
    BY <1>1, <2>1, WithStringsIs
<1> HIDE DEF y
<1>4. e # 0 => e \in InUse(x) /\ e \in Cells /\ e # new
  BY <1>2 DEF IsExtra
<1>5. /\ cell \in StringSet /\ cell.text = s /\ cell.extra = e /\ cell.count = 0 /\ cell.next = x.bucket[h]
  <2>1. e \in Cells \cup {0} /\ x.bucket[h] \in Cells \cup {0}
    BY <1>1, <1>2, <1>4
  <2>2. QED
    BY <2>1 DEF StringSet
<1> HIDE DEF cell
<1>6. /\ y.str \in [Cells -> StringSet] /\ y.str[new] = cell
      /\ \A p \in Cells : p # new => y.str[p] = x.str[p]
  BY <1>1, <1>3, <1>5
<1>7. y.bucket \in [Buckets -> Cells \cup {0}]
  BY <1>1, <1>2, <1>3
<1>8. InUse(y) = InUse(x) \cup {new} /\ new \notin InUse(x)
  BY <1>2, <1>5, <1>6 DEF InUse
<1>9. \A p : Owners(y, p) = IF p = e THEN Owners(x, p) \cup {new} ELSE Owners(x, p)
  <2> TAKE p
  <2>1. \A q \in InUse(x) : y.str[q] = x.str[q]
    BY <1>2, <1>6
  <2>2. y.str[new].extra = e
    BY <1>5, <1>6
  <2>3. QED
    BY <1>8, <2>1, <2>2 DEF Owners
<1>10. G \in [Cells -> Nat] /\ \A p \in Cells : G[p] = IF p = e THEN H[p] - 1 ELSE H[p]
  <2>1. \A p \in Cells : p # 0
    BY RecordsAssumption
  <2>2. CASE e = 0
    BY <1>1, <2>1, <2>2
  <2>3. CASE e # 0
    <3>1. H[e] - 1 \in Nat
      BY <1>1, <1>4, <2>3
    <3>2. QED
      BY <1>1, <1>4, <2>3, <3>1 DEF Less
  <2>4. QED
    BY <2>2, <2>3
<1> HIDE DEF G
<1>11. FreeOk(y, G)
  <2> SUFFICES ASSUME NEW p \in Cells \ InUse(y) PROVE y.str[p] = Free /\ G[p] = 0
    BY DEF FreeOk
  <2>1. p \in Cells \ InUse(x) /\ p # new
    BY <1>8
  <2>2. p # e
    BY <1>4, <2>1, RecordsAssumption
  <2>3. x.str[p] = Free /\ H[p] = 0
    BY <1>1, <2>1 DEF FreeOk
  <2>4. QED
    BY <1>6, <1>10, <2>1, <2>2, <2>3
<1>12. CountsOk(y, G)
  <2> SUFFICES ASSUME NEW p \in InUse(y)
               PROVE  /\ y.str[p].count = G[p] + Cardinality(Owners(y, p))
                      /\ y.str[p].count = 0 => p \in y.loose
    BY DEF CountsOk
  <2>1. CASE p = new
    <3>1. Owners(x, new) = {}
      <4>1. ASSUME NEW q \in InUse(x), x.str[q].extra = new PROVE FALSE
        <5>1. IsExtra(x, x.str[q].text, new)
          BY <1>1, <4>1 DEF ExtrasOk
        <5>2. QED
          BY <1>2, <1>8, <5>1 DEF IsExtra
      <4>2. QED
        BY <4>1 DEF Owners
    <3>2. H[new] = 0 /\ new # e
      BY <1>1, <1>2, <1>4 DEF FreeOk
    <3>3. Owners(y, new) = {} /\ G[new] = 0
      BY <1>9, <1>10, <3>1, <3>2
    <3>4. Cardinality(Owners(y, new)) = 0
      BY <3>3, OwnersFinite
    <3>5. QED
      BY <1>3, <1>5, <1>6, <2>1, <3>3, <3>4
  <2>2. CASE p # new
    <3>1. p \in InUse(x) /\ p \in Cells /\ y.str[p] = x.str[p]
      BY <1>2, <1>6, <1>8, <2>2
    <3>2. /\ x.str[p].count = H[p] + Cardinality(Owners(x, p)) /\ H[p] \in Nat
          /\ x.str[p].count = 0 => p \in x.loose
      BY <1>1, <3>1 DEF CountsOk
    <3>3. /\ Cardinality(Owners(x, p)) \in Nat
          /\ Cardinality(Owners(x, p) \cup {new}) = Cardinality(Owners(x, p)) + 1
      <4>1. new \notin Owners(x, p)
        BY <1>8 DEF Owners
      <4>2. QED
        BY <4>1, OwnersFinite, FS_AddElement
    <3>4. /\ Owners(y, p) = IF p = e THEN Owners(x, p) \cup {new} ELSE Owners(x, p)
          /\ G[p] = IF p = e THEN H[p] - 1 ELSE H[p]
      BY <1>9, <1>10, <3>1
    <3>5. G[p] + Cardinality(Owners(y, p)) = x.str[p].count
      BY <3>2, <3>3, <3>4
    <3>6. QED
      BY <1>3, <3>1, <3>2, <3>5
  <2>3. QED
    BY <2>1, <2>2
<1>13. ExtrasOk(y)
  <2> SUFFICES ASSUME NEW p \in InUse(y) PROVE IsExtra(y, y.str[p].text, y.str[p].extra)
    BY DEF ExtrasOk
  <2>1. ASSUME NEW t, NEW q, IsExtra(x, t, q) PROVE IsExtra(y, t, q)
    BY <1>2, <1>6, <1>8, <2>1 DEF IsExtra
  <2>2. CASE p = new
    BY <1>5, <1>6, <2>1, <2>2
  <2>3. CASE p # new
    <3>1. p \in InUse(x) /\ y.str[p] = x.str[p]
      BY <1>2, <1>6, <1>8, <2>3
    <3>2. QED
      BY <1>1, <2>1, <3>1 DEF ExtrasOk
  <2>4. QED
    BY <2>2, <2>3
<1>14. Listed(y) = Listed(x) \cup {new} /\ ChainsOk(y)
  <2> DEFINE U == Listed(x)
  <2>1. \E ch : Chained(x, ch, U)
    BY <1>1 DEF ChainsOk
  <2>2. /\ y.bucket = [x.bucket EXCEPT ![h] = new] /\ y.str[new].text = s /\ y.str[new].next = x.bucket[h]
        /\ \A o \in U : y.str[o].text = x.str[o].text /\ y.str[o].next = x.str[o].next
    <3>1. \A o \in U : o \in Cells /\ o # new
      BY <1>2
    <3>2. QED
      BY <1>3, <1>5, <1>6, <3>1
  <2>3. new \in Cells \ U /\ x.bucket \in [Buckets -> Cells \cup {0}] /\ h = Hash[s]
    BY <1>1, <1>2
  <2> HIDE DEF U, h, a, b, l
  <2>4. \E c : Chained(y, c, U \cup {new})
    BY <2>1, <2>2, <2>3, ChainedEnter
  <2>5. QED
    BY <2>4, ListedIs DEF ChainsOk, U
<1>15. TextsOk(y) /\ LostOk(y)
  <2>1. y.str[new].text = s /\ \A p \in InUse(x) : p # new /\ y.str[p] = x.str[p]
    <3>1. \A p \in InUse(x) : p \in Cells /\ p # new
      BY <1>2, <1>8
    <3>2. QED
      BY <1>5, <1>6, <3>1
  <2>2. TextsOk(y)
    BY <1>1, <1>2, <1>14, <2>1 DEF TextsOk
  <2>3. LostOk(y)
    <3> SUFFICES ASSUME NEW p \in InUse(y) \ Listed(y)
                 PROVE  /\ y.str[p].count = 1 /\ Extra[y.str[p].text] = NoText
                        /\ \A q \in Owners(y, p) : Hash[y.str[q].text] = Hash[y.str[p].text]
      BY DEF LostOk
    <3>1. p \in InUse(x) \ Listed(x) /\ y.str[p] = x.str[p]
      BY <1>8, <1>14, <2>1
    <3>2. /\ x.str[p].count = 1 /\ Extra[x.str[p].text] = NoText
          /\ \A q \in Owners(x, p) : Hash[x.str[q].text] = Hash[x.str[p].text]
      BY <1>1, <3>1 DEF LostOk
    <3>3. ASSUME NEW q \in Owners(y, p) PROVE Hash[y.str[q].text] = Hash[y.str[p].text]
      <4>1. CASE q = new
        <5>1. p = e /\ e # 0
          BY <1>2, <1>5, <1>6, <3>1, <4>1, RecordsAssumption DEF Owners
        <5>2. Hash[x.str[e].text] = Hash[s]
          BY <3>1, <5>1
        <5>3. QED
          BY <2>1, <3>1, <4>1, <5>1, <5>2
      <4>2. CASE q # new
        <5>1. q \in Owners(x, p) /\ y.str[q] = x.str[q]
          <6>1. q \in InUse(x)
            BY <1>8, <4>2 DEF Owners
          <6>2. QED
            BY <2>1, <6>1 DEF Owners
        <5>2. QED
          BY <3>1, <3>2, <5>1
      <4>3. QED
        BY <4>1, <4>2
    <3>4. QED
      BY <3>1, <3>2, <3>3
  <2>4. QED
    BY <2>2, <2>3
<1>16. TableOk(y, G)
  BY <1>3, <1>6, <1>7, <1>10, <1>11, <1>12, <1>13, <1>14, <1>15 DEF TableOk, StrType
<1>17. QED
  BY <1>14, <1>16 DEF y, G

\* A string that gets no place in the chains, and is held once.
Aside(x, new, t) ==
  WithStrings(x, [x.str EXCEPT ![new] = [text |-> t, extra |-> 0, count |-> 1, next |-> x.bucket[Hash[t]]]],
              x.bucket, x.loose \ {new})

LEMMA AsideOk ==
  ASSUME NEW x, NEW H, TableOk(x, H), NEW t \in Texts, Extra[t] = NoText, NEW new \in Cells \ InUse(x)
  PROVE  /\ TableOk(Aside(x, new, t), More(H, new)) /\ Listed(Aside(x, new, t)) = Listed(x)
         /\ InUse(Aside(x, new, t)) = InUse(x) \cup {new} /\ Aside(x, new, t).str[new].text = t
<1> DEFINE y == Aside(x, new, t)
           cell == [text |-> t, extra |-> 0, count |-> 1, next |-> x.bucket[Hash[t]]]
           a == [x.str EXCEPT ![new] = cell]
           l == x.loose \ {new}
           G == More(H, new)
           U == Listed(x)
<1>1. /\ IsState(x) /\ H \in [Cells -> Nat] /\ x.str \in [Cells -> StringSet]
      /\ x.bucket \in [Buckets -> Cells \cup {0}]
      /\ FreeOk(x, H) /\ CountsOk(x, H) /\ ExtrasOk(x) /\ TextsOk(x) /\ ChainsOk(x) /\ LostOk(x)
  BY DEF TableOk, StrType
<1>2. /\ new # 0 /\ t # NoText /\ Hash[t] \in Buckets /\ U \subseteq InUse(x) /\ InUse(x) \subseteq Cells
  <2>1. U \subseteq InUse(x)
    BY <1>1, TextsKept DEF SameTexts
  <2>2. QED
    BY <2>1, BucketOf, RecordsAssumption DEF InUse
<1>3. /\ IsState(y) /\ y.str = a /\ y.bucket = x.bucket /\ y.loose = l
  <2>1. y = WithStrings(x, a, x.bucket, l)
    BY DEF Aside
  <2> HIDE DEF y, a, l
  <2>2. QED
    BY <1>1, <2>1, WithStringsIs
<1> HIDE DEF y
<1>4. cell \in StringSet /\ cell.text = t /\ cell.extra = 0 /\ cell.count = 1
  <2>1. x.bucket[Hash[t]] \in Cells \cup {0}
    BY <1>1, <1>2
  <2>2. QED
    BY <2>1 DEF StringSet
<1> HIDE DEF cell, U
<1>5. /\ y.str \in [Cells -> StringSet] /\ y.str[new] = cell
      /\ \A p \in Cells : p # new => y.str[p] = x.str[p]
  BY <1>1, <1>3, <1>4
<1>6. InUse(y) = InUse(x) \cup {new} /\ \A p \in InUse(x) : p # new /\ y.str[p] = x.str[p]
  BY <1>2, <1>4, <1>5 DEF InUse
<1>7. (\A p \in Cells : Owners(y, p) = Owners(x, p)) /\ Owners(x, new) = {}
  <2>1. ASSUME NEW q \in InUse(x), x.str[q].extra = new PROVE FALSE
    <3>1. IsExtra(x, x.str[q].text, new)
      BY <1>1, <2>1 DEF ExtrasOk
    <3>2. QED
      BY <1>2, <3>1 DEF IsExtra
  <2>2. ASSUME NEW p \in Cells PROVE y.str[new].extra # p
    BY <1>4, <1>5, RecordsAssumption
  <2>3. QED
    BY <1>6, <2>1, <2>2 DEF Owners
<1>8. G \in [Cells -> Nat] /\ G[new] = 1 /\ \A p \in Cells : p # new => G[p] = H[p]
  BY <1>1 DEF More, FreeOk
<1> HIDE DEF G
<1>9. FreeOk(y, G)
  BY <1>1, <1>5, <1>6, <1>8 DEF FreeOk
<1>10. CountsOk(y, G)
  <2> SUFFICES ASSUME NEW p \in InUse(y)
               PROVE  /\ y.str[p].count = G[p] + Cardinality(Owners(y, p))
                      /\ y.str[p].count = 0 => p \in y.loose
    BY DEF CountsOk
  <2>1. CASE p = new
    <3>1. Cardinality(Owners(y, new)) = 0
      BY <1>7, OwnersFinite
    <3>2. QED
      BY <1>4, <1>5, <1>8, <2>1, <3>1
  <2>2. CASE p # new
    <3>1. p \in InUse(x) /\ p \in Cells /\ y.str[p] = x.str[p]
      BY <1>2, <1>6, <2>2
    <3>2. /\ x.str[p].count = H[p] + Cardinality(Owners(x, p))
          /\ x.str[p].count = 0 => p \in x.loose
      BY <1>1, <3>1 DEF CountsOk
    <3>3. QED
      BY <1>3, <1>7, <1>8, <2>2, <3>1, <3>2
  <2>3. QED
    BY <2>1, <2>2
<1>11. ExtrasOk(y)
  <2> SUFFICES ASSUME NEW p \in InUse(y) PROVE IsExtra(y, y.str[p].text, y.str[p].extra)
    BY DEF ExtrasOk
  <2>1. CASE p = new
    BY <1>4, <1>5, <2>1 DEF IsExtra
  <2>2. CASE p # new
    <3>1. p \in InUse(x) /\ y.str[p] = x.str[p] /\ IsExtra(x, x.str[p].text, x.str[p].extra)
      BY <1>1, <1>6, <2>2 DEF ExtrasOk
    <3>2. QED
      BY <1>6, <3>1 DEF IsExtra
  <2>3. QED
    BY <2>1, <2>2
<1>12. Listed(y) = U /\ ChainsOk(y)
  <2>1. PICK ch : Chained(x, ch, U)
    BY <1>1 DEF ChainsOk, U
  <2>2. \A o \in U : y.str[o].text = x.str[o].text /\ y.str[o].next = x.str[o].next
    BY <1>2, <1>6
  <2>3. Chained(y, ch, U)
    BY <1>3, <2>1, <2>2, ChainedSame
  <2>4. QED
    BY <2>3, ListedIs DEF ChainsOk
<1>13. TextsOk(y) /\ LostOk(y)
  <2>1. TextsOk(y)
    <3>1. \A o \in Listed(y) : o \in Listed(x) /\ y.str[o] = x.str[o]
      BY <1>2, <1>6, <1>12 DEF U
    <3>2. QED
      BY <1>1, <3>1 DEF TextsOk
  <2>2. LostOk(y)
    <3> SUFFICES ASSUME NEW p \in InUse(y) \ Listed(y)
                 PROVE  /\ y.str[p].count = 1 /\ Extra[y.str[p].text] = NoText
                        /\ \A q \in Owners(y, p) : Hash[y.str[q].text] = Hash[y.str[p].text]
      BY DEF LostOk
    <3>1. CASE p = new
      BY <1>4, <1>5, <1>7, <3>1
    <3>2. CASE p # new
      <4>1. p \in InUse(x) \ Listed(x) /\ p \in Cells /\ y.str[p] = x.str[p]
        BY <1>2, <1>6, <1>12, <3>2 DEF U
      <4>2. \A q \in Owners(y, p) : q \in Owners(x, p) /\ y.str[q] = x.str[q]
        <5>1. \A q \in Owners(x, p) : q \in InUse(x)
          BY DEF Owners
        <5>2. QED
          BY <1>6, <1>7, <4>1, <5>1
      <4>3. QED
        BY <1>1, <4>1, <4>2 DEF LostOk
    <3>3. QED
      BY <3>1, <3>2
  <2>3. QED
    BY <2>1, <2>2
<1>14. TableOk(y, G)
  BY <1>1, <1>3, <1>5, <1>8, <1>9, <1>10, <1>11, <1>12, <1>13 DEF TableOk, StrType
<1>15. QED
  BY <1>4, <1>5, <1>6, <1>12, <1>14 DEF y, G, U

\* The cell that a new string gets.
FirstFree(x) == CHOOSE o \in Cells \ InUse(x) : \A p \in Cells \ InUse(x) : o <= p

LEMMA FirstFreeIs ==
  ASSUME NEW x, Cells \ InUse(x) # {}
  PROVE  FirstFree(x) \in Cells \ InUse(x)
<1> DEFINE T == Cells \ InUse(x)
<1>1. T \subseteq Nat
  BY RecordsAssumption
<1> HIDE DEF T
<1>2. T # {} => \E m \in T : \A n \in T : m <= n
  BY <1>1, LeastElement
<1>3. QED
  BY <1>2 DEF T, FirstFree

LEMMA SameState ==
  ASSUME NEW x, IsState(x), NEW y, IsState(y), SameRecords(x, y), SameStrings(x, y),
         y.ix = x.ix, y.err = x.err
  PROVE  y = x
  BY DEF IsState, SameRecords, SameStrings

NewString(x, s, e) == [text |-> s, extra |-> e, count |-> 0, next |-> x.bucket[Hash[s]]]

\* y is x with the new string.
Enters(x, new, s, e, y) ==
  /\ IsState(y) /\ SameRecords(x, y) /\ y.err = x.err /\ y.ix = x.ix
  /\ y.bucket = [x.bucket EXCEPT ![Hash[s]] = new] /\ y.loose = x.loose \cup {new}
  /\ y.str = [x.str EXCEPT ![new] = NewString(x, s, e)]

LEMMA EnteredFrame ==
  ASSUME NEW x, IsState(x), NEW new, NEW s, NEW e
  PROVE  Enters(x, new, s, e, Entered(x, new, s, e))
<1> DEFINE a == [x.str EXCEPT ![new] = NewString(x, s, e)]
           b == [x.bucket EXCEPT ![Hash[s]] = new]
           l == x.loose \cup {new}
           y == Entered(x, new, s, e)
<1>1. y = WithStrings(x, a, b, l)
  BY DEF Entered, NewString
<1> HIDE DEF a, b, l, y
<1>2. /\ IsState(y) /\ SameRecords(x, y) /\ y.err = x.err
      /\ y.str = a /\ y.bucket = b /\ y.loose = l
  BY <1>1, WithStringsIs
<1>3. y.ix = x.ix
  BY <1>1 DEF IsState, WithStrings
<1>4. Enters(x, new, s, e, y)
  BY <1>2, <1>3 DEF a, b, l, Enters
<1>5. QED
  BY <1>4 DEF y

LEMMA InternedIs ==
  ASSUME NEW x, IsState(x), NEW s
  PROVE  Interned(x, s) = IF Found(x, s) # 0 THEN x ELSE Entered(x, FirstFree(x), s, 0)
  BY DEF Interned, IsState, WithStrings, Entered, FirstFree

LEMMA NotFound ==
  ASSUME NEW x, ChainsOk(x), NEW s \in Texts
  PROVE  /\ Found(x, s) # 0 => Found(x, s) \in Listed(x) /\ x.str[Found(x, s)].text = s
         /\ Found(x, s) = 0 => \A o \in Listed(x) : x.str[o].text # s
<1>1. PICK ch : Chained(x, ch, Listed(x))
  BY DEF ChainsOk
<1>2. QED
  BY <1>1, FoundIs

\* A string without extra part is encoded: it is found, or entered.
LEMMA InternedOk ==
  ASSUME NEW x, NEW H, TableOk(x, H), NEW s \in Texts, Extra[s] = NoText, Cells \ InUse(x) # {}
  PROVE  TableOk(Interned(x, s), H) /\ Listed(x) \subseteq Listed(Interned(x, s))
<1>1. IsState(x) /\ ChainsOk(x)
  BY DEF TableOk
<1>2. Interned(x, s) = IF Found(x, s) # 0 THEN x ELSE Entered(x, FirstFree(x), s, 0)
  BY <1>1, InternedIs
<1>3. CASE Found(x, s) # 0
  BY <1>2, <1>3
<1>4. CASE Found(x, s) = 0
  <2> DEFINE y == Entered(x, FirstFree(x), s, 0)
  <2>1. \A o \in Listed(x) : x.str[o].text # s
    BY <1>1, <1>4, NotFound
  <2>2. FirstFree(x) \in Cells \ InUse(x) /\ IsExtra(x, s, 0)
    BY FirstFreeIs DEF IsExtra
  <2>3. TableOk(y, H) /\ Listed(y) = Listed(x) \cup {FirstFree(x)}
    BY <2>1, <2>2, EnterOk
  <2>4. QED
    BY <1>2, <1>4, <2>3
<1>5. QED
  BY <1>3, <1>4

LEMMA StringFields ==
  ASSUME NEW a \in StringSet, NEW s \in Texts
  PROVE  /\ [a EXCEPT !.text = s] \in StringSet
         /\ [a EXCEPT !.text = s].text = s /\ [a EXCEPT !.text = s].next = a.next
  BY DEF StringSet

Holding(x, o, y) ==
  /\ IsState(y) /\ SameRecords(x, y) /\ y.err = x.err /\ y.ix = x.ix
  /\ y.bucket = x.bucket /\ y.loose = x.loose \ {o}
  /\ y.str = [x.str EXCEPT ![o].count = x.str[o].count + 1]

LEMMA HoldFrame ==
  ASSUME NEW x, IsState(x), NEW o
  PROVE  Holding(x, o, Hold(x, o))
<1> DEFINE a == [x.str EXCEPT ![o].count = x.str[o].count + 1]
           l == x.loose \ {o}
           y == Hold(x, o)
<1>1. y = [[x EXCEPT !.str = a] EXCEPT !.loose = l]
  BY DEF Hold
<1> HIDE DEF a, l, y
<1>2. Holding(x, o, y)
  BY <1>1 DEF IsState, SameRecords, a, l, Holding
<1>3. QED
  BY <1>2 DEF y

\* A string with an extra part is encoded: its cell is taken before the extra part is
\* looked up or entered, so the two never get the same cell.
LEMMA EncodedWithExtra ==
  ASSUME NEW x, NEW H, TableOk(x, H), NEW s \in Texts, Extra[s] # NoText, Found(x, s) = 0,
         Cells \ InUse(x) # {}, Cells \ (InUse(x) \cup {FirstFree(x)}) # {}
  PROVE  TableOk(Encoded(x, s), H) /\ Listed(x) \subseteq Listed(Encoded(x, s))
<1> DEFINE new == FirstFree(x)
           t == Extra[s]
           cell == [x.str[new] EXCEPT !.text = s]
           x0 == [x EXCEPT !.str = [x.str EXCEPT ![new] = cell]]
           new2 == FirstFree(x0)
           u == IF Found(x, t) # 0 THEN x ELSE Entered(x, new2, t, 0)
           y == Interned(x0, t)
           e == Found(y, t)
           z == Hold(y, e)
           head == x.bucket[Hash[s]]
           last == [text |-> s, extra |-> e, count |-> 0, next |-> head]
           w == WithStrings(z, [z.str EXCEPT ![new] = last], [z.bucket EXCEPT ![Hash[s]] = new], z.loose \cup {new})
<1>1. /\ IsState(x) /\ StrType(x) /\ H \in [Cells -> Nat] /\ x.str \in [Cells -> StringSet]
      /\ FreeOk(x, H) /\ ExtrasOk(x) /\ TextsOk(x) /\ ChainsOk(x) /\ Listed(x) \subseteq InUse(x)
  <2>1. ChainsOk(x)
    BY DEF TableOk
  <2>2. Listed(x) \subseteq InUse(x)
    BY <2>1, TextsKept DEF SameTexts
  <2>3. QED
    BY <2>2 DEF TableOk, StrType
<1>2. t \in Texts /\ Extra[t] = NoText /\ t # s /\ s # NoText /\ t # NoText
  BY RecordsAssumption
<1>3. new \in Cells \ InUse(x)
  BY FirstFreeIs
<1>4. (\A o \in Listed(x) : x.str[o].text # s) /\ \A o \in InUse(x) : o \in Cells /\ o # new
  BY <1>1, <1>3, NotFound DEF InUse
<1> HIDE DEF new, t
<1>5. /\ cell \in StringSet /\ cell.text = s /\ cell.next = x.str[new].next
  BY <1>1, <1>3, StringFields
<1> HIDE DEF cell
<1>6. /\ IsState(x0) /\ SameRecords(x, x0) /\ x0.ix = x.ix /\ x0.err = x.err
      /\ x0.bucket = x.bucket /\ x0.loose = x.loose
      /\ x0.str = [x.str EXCEPT ![new] = cell]
  <2> DEFINE a == [x.str EXCEPT ![new] = cell]
  <2> HIDE DEF a
  <2>1. QED
    BY <1>1 DEF IsState, SameRecords
<1> HIDE DEF x0
<1>7. /\ x0.str \in [Cells -> StringSet] /\ x0.str[new] = cell
      /\ \A p \in Cells : p # new => x0.str[p] = x.str[p]
  BY <1>1, <1>3, <1>5, <1>6
<1>8. InUse(x0) = InUse(x) \cup {new}
  BY <1>2, <1>3, <1>4, <1>5, <1>7 DEF InUse
<1>9. new2 \in Cells \ InUse(x) /\ new2 # new
  <2>1. new2 \in Cells \ InUse(x0)
    BY <1>8, FirstFreeIs DEF new
  <2>2. QED
    BY <1>8, <2>1
<1> HIDE DEF new2
<1>10. PICK ch : Chained(x, ch, Listed(x))
  BY <1>1 DEF ChainsOk
<1>11. Chained(x0, ch, Listed(x))
  <2>1. \A o \in Listed(x) : o \in Cells /\ o # new
    BY <1>1, <1>4
  <2>2. \A o \in Listed(x) : x0.str[o].text = x.str[o].text /\ x0.str[o].next = x.str[o].next
    BY <1>7, <2>1
  <2>3. QED
    BY <1>6, <1>10, <2>2, ChainedSame
<1>12. Found(x0, t) = 0 <=> Found(x, t) = 0
  <2>1. /\ Found(x, t) # 0 => Found(x, t) \in Listed(x) /\ x.str[Found(x, t)].text = t
        /\ Found(x, t) = 0 => \A o \in Listed(x) : x.str[o].text # t
    BY <1>2, <1>10, FoundIs
  <2>2. /\ Found(x0, t) # 0 => Found(x0, t) \in Listed(x) /\ x0.str[Found(x0, t)].text = t
        /\ Found(x0, t) = 0 => \A o \in Listed(x) : x0.str[o].text # t
    BY <1>2, <1>11, FoundIs
  <2>3. \A o \in Listed(x) : x0.str[o].text = x.str[o].text
    BY <1>1, <1>4, <1>7
  <2>4. QED
    BY <2>1, <2>2, <2>3
\* u is the state in which the extra part is there and the cell of s is still free.
<1>13. /\ TableOk(u, H) /\ SameRecords(x, u) /\ u.err = x.err /\ u.ix = x.ix
       /\ Listed(x) \subseteq Listed(u) /\ \E o \in Listed(u) : u.str[o].text = t
       /\ (\A o \in Listed(u) : u.str[o].text # s) /\ \A o \in InUse(u) : o # new
       /\ Found(x, t) # 0 \/ Hash[t] # Hash[s] => u.bucket[Hash[s]] = head
  <2>1. CASE Found(x, t) # 0
    <3>1. u = x
      BY <2>1
    <3>2. Found(x, t) \in Listed(x) /\ x.str[Found(x, t)].text = t
      BY <1>1, <1>2, <2>1, NotFound
    <3>3. QED
      BY <1>4, <3>1, <3>2 DEF SameRecords
  <2>2. CASE Found(x, t) = 0
    <3>1. u = Entered(x, new2, t, 0)
      BY <2>2
    <3> HIDE DEF u
    <3> DEFINE c2 == NewString(x, t, 0)
    <3>2. /\ SameRecords(x, u) /\ u.err = x.err /\ u.ix = x.ix
          /\ u.str = [x.str EXCEPT ![new2] = c2] /\ u.bucket = [x.bucket EXCEPT ![Hash[t]] = new2]
      <4>1. Enters(x, new2, t, 0, u)
        BY <1>1, <3>1, EnteredFrame
      <4>2. QED
        BY <4>1 DEF Enters
    <3>3. c2.text = t
      BY DEF NewString
    <3> HIDE DEF c2
    <3>4. TableOk(u, H) /\ Listed(u) = Listed(x) \cup {new2}
      <4>1. \A o \in Listed(x) : x.str[o].text # t
        BY <1>1, <1>2, <2>2, NotFound
      <4>2. IsExtra(x, t, 0)
        BY <1>2 DEF IsExtra
      <4>3. QED
        BY <1>2, <1>9, <3>1, <4>1, <4>2, EnterOk
    <3>5. u.str[new2].text = t /\ \A p \in Cells : p # new2 => u.str[p] = x.str[p]
      BY <1>1, <1>9, <3>2, <3>3
    <3>6. InUse(u) = InUse(x) \cup {new2}
      BY <1>2, <1>4, <1>9, <3>5 DEF InUse
    <3>7. (\A o \in Listed(u) : u.str[o].text # s) /\ \A o \in InUse(u) : o # new
      BY <1>1, <1>2, <1>4, <1>9, <3>4, <3>5, <3>6
    <3>8. Hash[t] # Hash[s] => u.bucket[Hash[s]] = head
      <4>1. Hash[s] \in Buckets /\ x.bucket \in [Buckets -> Cells \cup {0}]
        BY <1>1, BucketOf DEF StrType
      <4>2. QED
        BY <3>2, <4>1
    <3>9. QED
      BY <2>2, <3>2, <3>4, <3>5, <3>7, <3>8
  <2>3. QED
    BY <2>1, <2>2
<1>14. /\ IsState(y) /\ SameRecords(u, y) /\ y.err = u.err /\ y.ix = u.ix
       /\ y.bucket = u.bucket /\ y.loose = u.loose
       /\ y.str \in [Cells -> StringSet] /\ y.str[new] = cell
       /\ \A p \in Cells : p # new => y.str[p] = u.str[p]
  <2>1. y = IF Found(x0, t) # 0 THEN x0 ELSE Entered(x0, new2, t, 0)
    BY <1>6, InternedIs DEF new2
  <2>2. CASE Found(x, t) # 0
    <3>1. y = x0 /\ u = x
      BY <1>12, <2>1, <2>2
    <3>2. QED
      BY <1>6, <1>7, <3>1 DEF SameRecords
  <2>3. CASE Found(x, t) = 0
    <3>1. y = Entered(x0, new2, t, 0) /\ u = Entered(x, new2, t, 0)
      BY <1>12, <2>1, <2>3
    <3> HIDE DEF y, u
    <3> DEFINE c2 == NewString(x, t, 0)
    <3>2. /\ SameRecords(x, u) /\ u.err = x.err /\ u.ix = x.ix
          /\ u.bucket = [x.bucket EXCEPT ![Hash[t]] = new2] /\ u.loose = x.loose \cup {new2}
          /\ u.str = [x.str EXCEPT ![new2] = c2]
      <4>1. Enters(x, new2, t, 0, u)
        BY <1>1, <3>1, EnteredFrame
      <4>2. QED
        BY <4>1 DEF Enters
    <3>3. /\ IsState(y) /\ SameRecords(x0, y) /\ y.err = x0.err /\ y.ix = x0.ix
          /\ y.bucket = [x0.bucket EXCEPT ![Hash[t]] = new2] /\ y.loose = x0.loose \cup {new2}
          /\ y.str = [x0.str EXCEPT ![new2] = c2]
      <4>1. NewString(x0, t, 0) = c2
        BY <1>6 DEF NewString
      <4>2. Enters(x0, new2, t, 0, y)
        BY <1>6, <3>1, EnteredFrame
      <4>3. QED
        BY <4>1, <4>2 DEF Enters
    <3>4. c2 \in StringSet
      <4>1. x.bucket[Hash[t]] \in Cells \cup {0}
        BY <1>1, <1>2, BucketOf DEF StrType
      <4>2. QED
        BY <1>2, <4>1 DEF StringSet, NewString
    <3> HIDE DEF c2
    <3>5. SameRecords(u, y) /\ y.err = u.err /\ y.ix = u.ix /\ y.bucket = u.bucket /\ y.loose = u.loose
      BY <1>6, <3>2, <3>3 DEF SameRecords
    <3>6. y.str \in [Cells -> StringSet] /\ y.str[new] = cell
      BY <1>3, <1>7, <1>9, <3>3, <3>4
    <3>7. \A p \in Cells : p # new => y.str[p] = u.str[p]
      BY <1>1, <1>7, <1>9, <3>2, <3>3
    <3>8. QED
      BY <3>3, <3>5, <3>6, <3>7
  <2>4. QED
    BY <2>2, <2>3
<1> HIDE DEF y, u
<1>15. /\ StrType(u) /\ IsState(u) /\ FreeOk(u, H) /\ TextsOk(u) /\ ChainsOk(u) /\ InUse(u) \subseteq Cells
       /\ u.str \in [Cells -> StringSet] /\ Listed(u) \subseteq InUse(u)
  <2>1. ChainsOk(u)
    BY <1>13 DEF TableOk
  <2>2. Listed(u) \subseteq InUse(u)
    BY <2>1, TextsKept DEF SameTexts
  <2>3. QED
    BY <1>13, <2>2 DEF TableOk, StrType, InUse
<1>16. u.str[new] = Free /\ new \in Cells \ InUse(u)
  BY <1>3, <1>13, <1>15 DEF FreeOk
<1>17. e \in Listed(u) /\ u.str[e].text = t
  <2>1. PICK c : Chained(u, c, Listed(u))
    BY <1>15 DEF ChainsOk
  <2>2. \A o \in Listed(u) : y.str[o] = u.str[o]
    BY <1>13, <1>14, <1>15
  <2>3. Chained(y, c, Listed(u))
    BY <1>14, <2>1, <2>2, ChainedSame
  <2>4. /\ e # 0 => e \in Listed(u) /\ y.str[e].text = t
        /\ e = 0 => \A o \in Listed(u) : y.str[o].text # t
    BY <1>2, <2>3, FoundIs
  <2> HIDE DEF e
  <2>5. QED
    BY <1>13, <2>2, <2>4
<1> HIDE DEF e, head
<1>18. Encoded(x, s) = w
  <2>1. x0 = [x EXCEPT !.str[new].text = s]
    BY <1>1 DEF IsState, x0, cell
  <2>2. Encoded(x, s) = [z EXCEPT !.str[new] = last, !.bucket[Hash[s]] = new, !.loose = @ \cup {new}]
    BY <1>2, <2>1 DEF Encoded, new, t, y, e, FirstFree, head
  <2>3. IsState(z)
    BY <1>14, StringStepFrames
  <2> HIDE DEF z, last
  <2>4. QED
    BY <2>2, <2>3 DEF IsState, WithStrings
<1>19. /\ e \in Cells /\ e # 0 /\ e # new /\ y.str[e] = u.str[e] /\ u.str[e] \in StringSet
       /\ More(H, e)[e] > 0 /\ Less(More(H, e), e) = H
  <2>1. e \in Cells /\ e # 0 /\ e # new /\ y.str[e] = u.str[e] /\ u.str[e] \in StringSet
    BY <1>14, <1>15, <1>16, <1>17, RecordsAssumption
  <2> DEFINE n == H[e] + 1
  <2>2. More(H, e) = [H EXCEPT ![e] = n] /\ n - 1 = H[e] /\ n > 0
    BY <1>1, <2>1 DEF More
  <2> HIDE DEF n
  <2>3. QED
    BY <1>1, <2>1, <2>2 DEF Less
<1>20. /\ IsState(z) /\ SameRecords(u, z) /\ z.err = u.err /\ z.ix = u.ix
       /\ z.bucket = u.bucket /\ z.loose = u.loose \ {e}
       /\ z.str = [y.str EXCEPT ![e].count = u.str[e].count + 1]
  <2>1. Holding(y, e, z)
    BY <1>14, HoldFrame
  <2> HIDE DEF z
  <2>2. QED
    BY <1>14, <1>19, <2>1 DEF Holding, SameRecords
\* v is the state in which the extra part is held and the cell of s is still free: in the
\* chain that it was found in or entered, unless that chain is the one s is entered in.
<1> DEFINE IsBefore(v) ==
             /\ IsState(v) /\ SameRecords(v, z) /\ z.ix = v.ix /\ z.err = v.err /\ z.loose = v.loose
             /\ [z.bucket EXCEPT ![Hash[s]] = new] = [v.bucket EXCEPT ![Hash[s]] = new]
             /\ \A p \in Cells : p # new => z.str[p] = v.str[p]
             /\ z.str \in [Cells -> StringSet] /\ v.bucket[Hash[s]] = head
             /\ TableOk(v, More(H, e)) /\ new \in Cells \ InUse(v) /\ Listed(x) \subseteq Listed(v)
             /\ (\A o \in Listed(v) : v.str[o].text # s) /\ e \in InUse(v) /\ v.str[e].text = t
             /\ e \notin Listed(v) => Hash[t] = Hash[s]
<1>21. ASSUME Found(x, t) # 0 \/ Hash[t] # Hash[s] PROVE \E v : IsBefore(v)
  <2> DEFINE v == Hold(u, e)
  <2>1. TableOk(v, More(H, e)) /\ SameTexts(u, v)
    BY <1>13, <1>17, HoldOk
  <2>2. InUse(v) = InUse(u) /\ Listed(v) = Listed(u)
    BY <1>15, <2>1, TextsKept
  <2>3. /\ IsState(v) /\ SameRecords(u, v) /\ v.err = u.err /\ v.ix = u.ix
        /\ v.bucket = u.bucket /\ v.loose = u.loose \ {e}
        /\ v.str = [u.str EXCEPT ![e].count = u.str[e].count + 1]
    <3>1. Holding(u, e, v)
      BY <1>15, HoldFrame
    <3> HIDE DEF v
    <3>2. QED
      BY <3>1 DEF Holding
  <2> HIDE DEF v, z
  <2> DEFINE n == u.str[e].count + 1
             d == [u.str[e] EXCEPT !.count = n]
  <2>4. n \in Nat /\ d \in StringSet
    <3>1. n \in Nat
      BY <1>19 DEF StringSet
    <3> HIDE DEF n
    <3>2. QED
      BY <1>19, <3>1, CountChanged
  <2>5. z.str = [y.str EXCEPT ![e] = d] /\ v.str = [u.str EXCEPT ![e] = d]
    BY <1>19, <1>20, <2>3
  <2> HIDE DEF d, n
  <2>6. z.str \in [Cells -> StringSet] /\ \A p \in Cells : p # new => z.str[p] = v.str[p]
    BY <1>14, <1>15, <1>19, <2>4, <2>5
  <2>7. SameRecords(v, z) /\ z.ix = v.ix /\ z.err = v.err /\ z.loose = v.loose /\ z.bucket = v.bucket
    BY <1>20, <2>3 DEF SameRecords
  <2>8. /\ \A o \in Listed(v) : v.str[o].text # s
        /\ e \in Listed(v) /\ e \in InUse(v) /\ v.str[e].text = t
    BY <1>13, <1>15, <1>17, <2>1, <2>2 DEF SameTexts
  <2>9. v.bucket[Hash[s]] = head
    BY <1>13, <1>21, <2>3
  <2>10. IsBefore(v)
    BY <1>13, <1>16, <2>1, <2>2, <2>3, <2>6, <2>7, <2>8, <2>9
  <2> HIDE DEF IsBefore
  <2>11. QED
    BY <2>10
<1>22. ASSUME Found(x, t) = 0, Hash[t] = Hash[s] PROVE \E v : IsBefore(v)
  <2> DEFINE v == Aside(x, new2, t)
             d == [text |-> t, extra |-> 0, count |-> 1, next |-> x.bucket[Hash[t]]]
             l == x.loose \ {new2}
  <2>1. /\ TableOk(v, More(H, new2)) /\ Listed(v) = Listed(x) /\ InUse(v) = InUse(x) \cup {new2}
        /\ v.str[new2].text = t
    BY <1>2, <1>9, AsideOk
  <2>2. IsState(v) /\ SameRecords(x, v) /\ v.err = x.err /\ v.bucket = x.bucket /\ v.loose = l /\ v.ix = x.ix
    <3> DEFINE a == [x.str EXCEPT ![new2] = d]
    <3>1. v = WithStrings(x, a, x.bucket, l)
      BY DEF Aside
    <3> HIDE DEF v, a, l
    <3>2. /\ IsState(v) /\ SameRecords(x, v) /\ v.err = x.err /\ v.bucket = x.bucket /\ v.loose = l
      BY <1>1, <3>1, WithStringsIs
    <3>3. v.ix = x.ix
      BY <1>1, <3>1 DEF IsState, WithStrings
    <3>4. QED
      BY <3>2, <3>3
  <2>3. v.str = [x.str EXCEPT ![new2] = d]
    <3> DEFINE a == [x.str EXCEPT ![new2] = d]
    <3>1. v = WithStrings(x, a, x.bucket, l)
      BY DEF Aside
    <3> HIDE DEF v, a, l
    <3>2. QED
      BY <1>1, <3>1, WithStringsIs DEF a
  <2>4. /\ SameRecords(x, u) /\ u.err = x.err /\ u.ix = x.ix
        /\ u.bucket = [x.bucket EXCEPT ![Hash[t]] = new2] /\ u.loose = x.loose \cup {new2}
        /\ u.str = [x.str EXCEPT ![new2] = NewString(x, t, 0)]
    <3>1. u = Entered(x, new2, t, 0)
      BY <1>22 DEF u
    <3>2. Enters(x, new2, t, 0, u)
      BY <1>1, <3>1, EnteredFrame
    <3>3. QED
      BY <3>2 DEF Enters
  <2>5. e = new2
    <3>1. new2 \in Listed(u) /\ u.str[new2].text = t
      <4>1. u = Entered(x, new2, t, 0)
        BY <1>22 DEF u
      <4>2. (\A o \in Listed(x) : x.str[o].text # t) /\ IsExtra(x, t, 0)
        BY <1>1, <1>2, <1>22, NotFound DEF IsExtra
      <4>3. new2 \in Listed(u)
        BY <1>2, <1>9, <4>1, <4>2, EnterOk
      <4>4. u.str[new2].text = t
        BY <1>1, <1>9, <2>4 DEF NewString
      <4>5. QED
        BY <4>3, <4>4
    <3>2. QED
      BY <1>15, <1>17, <3>1 DEF TextsOk
  <2> HIDE DEF v, z
  <2>6. /\ u.str[e] = NewString(x, t, 0) /\ \A p \in Cells : p # e => u.str[p] = x.str[p]
    BY <1>1, <1>19, <2>4, <2>5
  <2>7. [u.str[e] EXCEPT !.count = u.str[e].count + 1] = d
    BY <2>6 DEF NewString
  <2>8. d \in StringSet
    <3>1. x.bucket[Hash[t]] \in Cells \cup {0}
      BY <1>1, <1>2, BucketOf DEF StrType
    <3>2. QED
      BY <1>2, <3>1 DEF StringSet
  <2> HIDE DEF d
  <2>9. z.str = [y.str EXCEPT ![e] = d]
    BY <1>19, <1>20, <2>7
  <2>10. z.str \in [Cells -> StringSet] /\ \A p \in Cells : p # new => z.str[p] = v.str[p]
    BY <1>1, <1>14, <1>19, <2>3, <2>5, <2>6, <2>8, <2>9
  <2>11. SameRecords(v, z) /\ z.ix = v.ix /\ z.err = v.err
    BY <1>20, <2>2, <2>4 DEF SameRecords
  <2>12. z.loose = v.loose
    BY <1>20, <2>2, <2>4, <2>5
  <2>13. [z.bucket EXCEPT ![Hash[s]] = new] = [v.bucket EXCEPT ![Hash[s]] = new] /\ v.bucket[Hash[s]] = head
    <3>1. x.bucket \in [Buckets -> Cells \cup {0}]
      BY <1>1 DEF StrType
    <3>2. z.bucket = [x.bucket EXCEPT ![Hash[s]] = new2]
      BY <1>20, <1>22, <2>4
    <3>3. QED
      BY <2>2, <3>1, <3>2 DEF head
  <2>14. new \in Cells \ InUse(v) /\ e \in InUse(v) /\ v.str[e].text = t
    BY <1>3, <1>9, <2>1, <2>5
  <2>15. \A o \in Listed(v) : v.str[o].text # s
    <3>1. \A o \in Listed(x) : v.str[o] = x.str[o]
      BY <1>1, <1>4, <1>9, <2>3
    <3>2. QED
      BY <1>4, <2>1, <3>1
  <2>16. IsBefore(v)
    BY <1>22, <2>1, <2>2, <2>5, <2>10, <2>11, <2>12, <2>13, <2>14, <2>15
  <2> HIDE DEF IsBefore
  <2>17. QED
    BY <2>16
<1>23. PICK v : IsBefore(v)
  <2> HIDE DEF IsBefore
  <2>1. QED
    BY <1>21, <1>22
<1> HIDE DEF z
<1> DEFINE q == Entered(v, new, s, e)
<1>24. TableOk(q, H) /\ Listed(q) = Listed(v) \cup {new}
  <2>1. IsExtra(v, s, e)
    BY <1>2, <1>23 DEF IsExtra, t
  <2>2. e # 0 /\ e \notin Listed(v) => Hash[v.str[e].text] = Hash[s]
    BY <1>23
  <2>3. More(H, e)[e] > 0 /\ e # 0 /\ Less(More(H, e), e) = H
    BY <1>19
  <2> DEFINE K == More(H, e)
  <2>4. TableOk(v, K) /\ (\A o \in Listed(v) : v.str[o].text # s) /\ new \in Cells \ InUse(v) /\ K[e] > 0
    BY <1>23, <2>3
  <2> HIDE DEF K, IsBefore
  <2>5. TableOk(q, Less(K, e)) /\ Listed(q) = Listed(v) \cup {new}
    BY <2>1, <2>2, <2>3, <2>4, EnterOk
  <2>6. QED
    BY <2>3, <2>5 DEF K
<1>25. w = q
  <2> DEFINE a == [z.str EXCEPT ![new] = last]
             b == [z.bucket EXCEPT ![Hash[s]] = new]
             l == z.loose \cup {new}
  <2>1. /\ IsState(w) /\ SameRecords(z, w) /\ w.err = z.err /\ w.ix = z.ix
        /\ w.bucket = b /\ w.loose = l /\ w.str = a
    <3>1. w = WithStrings(z, a, b, l)
      OBVIOUS
    <3> HIDE DEF w, a, b, l
    <3>2. /\ IsState(w) /\ SameRecords(z, w) /\ w.err = z.err /\ w.bucket = b /\ w.loose = l /\ w.str = a
      BY <1>20, <3>1, WithStringsIs
    <3>3. w.ix = z.ix
      BY <1>20, <3>1 DEF IsState, WithStrings
    <3>4. QED
      BY <3>2, <3>3
  <2>2. /\ IsState(q) /\ SameRecords(v, q) /\ q.err = v.err /\ q.ix = v.ix
        /\ q.bucket = [v.bucket EXCEPT ![Hash[s]] = new] /\ q.loose = v.loose \cup {new}
        /\ q.str = [v.str EXCEPT ![new] = NewString(v, s, e)]
    <3>1. IsState(v)
      BY <1>23
    <3>2. Enters(v, new, s, e, q)
      BY <3>1, EnteredFrame
    <3> HIDE DEF q
    <3>3. QED
      BY <3>2 DEF Enters
  <2>3. NewString(v, s, e) = last
    BY <1>23 DEF NewString
  <2> HIDE DEF w, q, last
  <2>4. w.str = q.str
    <3>1. v.str \in [Cells -> StringSet]
      BY <1>23 DEF TableOk, StrType
    <3>2. z.str \in [Cells -> StringSet] /\ \A p \in Cells : p # new => z.str[p] = v.str[p]
      BY <1>23
    <3>3. QED
      BY <2>1, <2>2, <2>3, <3>1, <3>2
  <2>5. w.bucket = q.bucket /\ w.loose = q.loose
    BY <1>23, <2>1, <2>2
  <2>6. SameRecords(q, w) /\ w.ix = q.ix /\ w.err = q.err
    BY <1>23, <2>1, <2>2 DEF SameRecords
  <2>7. QED
    BY <2>1, <2>2, <2>4, <2>5, <2>6, SameState DEF SameStrings
<1>26. QED
  BY <1>18, <1>23, <1>24, <1>25

\* Encoding a text keeps the strings in order; nothing holds the string yet.
LEMMA EncodedOk ==
  ASSUME NEW x, NEW H, StringsOk(x, H), NEW s \in Texts, Cardinality(Cells \ InUse(x)) > 1
  PROVE  StringsOk(Encoded(x, s), H)
<1> DEFINE T == Cells \ InUse(x)
           new == FirstFree(x)
<1>1. IsFiniteSet(T) /\ IsState(x) /\ TableOk(x, H) /\ HeldListed(x, H)
  BY RecordsAssumption, FS_Subset DEF StringsOk, TableOk
<1>2. T # {}
  BY FS_EmptySet
<1>3. Cells \ (InUse(x) \cup {new}) # {}
  <2> SUFFICES ASSUME Cells \ (InUse(x) \cup {new}) = {} PROVE FALSE
    OBVIOUS
  <2>1. T \ {new} = {} /\ new \in T
    BY <1>2, FirstFreeIs
  <2> HIDE DEF T, new
  <2>2. T = {new}
    BY <2>1
  <2>3. Cardinality(T) = 1
    BY <2>2, FS_Singleton
  <2>4. QED
    BY <2>3 DEF T
<1>4. Found(x, s) # 0 \/ Extra[s] = NoText => Encoded(x, s) = Interned(x, s)
  BY DEF Encoded
<1> DEFINE y == Encoded(x, s)
<1>5. TableOk(y, H) /\ Listed(x) \subseteq Listed(y)
  <2>1. CASE Found(x, s) # 0
    <3>1. Interned(x, s) = x
      BY <1>1, <2>1, InternedIs
    <3>2. QED
      BY <1>1, <1>4, <2>1, <3>1
  <2>2. CASE Extra[s] = NoText
    BY <1>1, <1>2, <1>4, <2>2, InternedOk
  <2>3. CASE Found(x, s) = 0 /\ Extra[s] # NoText
    <3> HIDE DEF y, T, new
    <3>1. TableOk(Encoded(x, s), H) /\ Listed(x) \subseteq Listed(Encoded(x, s))
      BY <1>1, <1>2, <1>3, <2>3, EncodedWithExtra DEF T, new
    <3>2. QED
      BY <3>1 DEF y
  <2>4. QED
    BY <2>1, <2>2, <2>3
<1> HIDE DEF y
<1>6. HeldListed(y, H)
  BY <1>1, <1>5 DEF HeldListed
<1>7. QED
  BY <1>5, <1>6 DEF StringsOk, y

LEMMA MoreLess ==
  ASSUME NEW H \in [Cells -> Nat], NEW o \in Cells
  PROVE  More(H, o)[o] > 0 /\ Less(More(H, o), o) = H
<1> DEFINE n == H[o] + 1
<1>1. n - 1 = H[o] /\ n > 0
  OBVIOUS
<1>2. More(H, o) = [H EXCEPT ![o] = n]
  BY DEF More
<1> HIDE DEF n
<1>3. QED
  BY <1>1, <1>2 DEF Less

\* wg_free_encoded: the string is held for the time of the call, so that only one that
\* nothing else holds is freed.
LEMMA FreeEncodedOk ==
  ASSUME NEW x, NEW H, StringsOk(x, H), NEW o \in InUse(x)
  PROVE  /\ StringsOk(Release(Hold(x, o), o), H)
         /\ o \notin Listed(x) => SameTexts(x, Release(Hold(x, o), o))
<1> DEFINE y == Hold(x, o)
           G == More(H, o)
<1>1. /\ TableOk(x, H) /\ HeldListed(x, H) /\ IsState(x) /\ H \in [Cells -> Nat] /\ o \in Cells
      /\ x.str \in [Cells -> StringSet] /\ x.str[o].text # NoText
  BY DEF StringsOk, TableOk, StrType, InUse
<1>2. G \in [Cells -> Nat] /\ G[o] > 0 /\ Less(G, o) = H /\ \A p \in Cells : p # o => G[p] = H[p]
  <2>1. G[o] > 0 /\ Less(G, o) = H
    BY <1>1, MoreLess
  <2>2. G \in [Cells -> Nat] /\ \A p \in Cells : p # o => G[p] = H[p]
    BY <1>1 DEF More
  <2>3. QED
    BY <2>1, <2>2
<1> HIDE DEF G
<1>3. CASE o \in Listed(x)
  <2>1. TableOk(y, G) /\ SameTexts(x, y)
    BY <1>1, <1>3, HoldOk DEF G
  <2>2. InUse(y) = InUse(x) /\ Listed(y) = Listed(x)
    BY <1>1, <2>1, TextsKept DEF TableOk
  <2> HIDE DEF y
  <2>3. HeldListed(y, G)
    BY <1>1, <1>2, <1>3, <2>2 DEF HeldListed
  <2>4. StringsOk(Release(y, o), Less(G, o))
    BY <1>2, <2>1, <2>2, <2>3, ReleaseOk DEF StringsOk
  <2>5. QED
    BY <1>2, <1>3, <2>4 DEF y
<1>4. CASE o \notin Listed(x)
  <2> DEFINE z == Release(y, o)
             d == [x.str[o] EXCEPT !.count = 2]
             a == [x.str EXCEPT ![o] = d]
             l == x.loose \ {o}
  <2>1. x.str[o].count = 1 /\ H[o] = 0
    <3>1. H[o] \in Nat /\ ~ (H[o] > 0)
      BY <1>1, <1>4 DEF HeldListed
    <3>2. QED
      BY <1>1, <1>4, <3>1 DEF TableOk, LostOk
  <2>2. d.count = 2 /\ d.text = x.str[o].text /\ [d EXCEPT !.count = 1] = x.str[o]
    BY <1>1, <2>1 DEF StringSet
  <2>3. y.str = a /\ y.bucket = x.bucket /\ y.loose = l /\ IsState(y)
    <3>1. Holding(x, o, y)
      BY <1>1, HoldFrame
    <3> HIDE DEF y
    <3>2. QED
      BY <2>1, <3>1 DEF Holding
  <2> HIDE DEF y, d, l
  <2>4. y.str[o] = d /\ [y.str EXCEPT ![o].count = d.count - 1] = x.str
    <3>1. a[o] = d
      BY <1>1
    <3>2. [a EXCEPT ![o] = x.str[o]] = x.str
      BY <1>1
    <3>3. [a EXCEPT ![o].count = 1] = [a EXCEPT ![o] = x.str[o]]
      BY <2>2, <3>1
    <3> HIDE DEF a
    <3>4. QED
      BY <2>2, <2>3, <3>1, <3>2, <3>3
  <2> HIDE DEF a
  <2>5. Drop(y, o) = [y EXCEPT !.str = x.str]
    <3>1. Drop(y, o) = [y EXCEPT !.str[o].count = @ - 1]
      BY <2>2, <2>4 DEF Drop
    <3>2. [y EXCEPT !.str[o].count = @ - 1] = [y EXCEPT !.str = [y.str EXCEPT ![o].count = y.str[o].count - 1]]
      BY <2>3 DEF IsState
    <3>3. QED
      BY <2>4, <3>1, <3>2
  <2>6. IsState(z) /\ z.str = x.str /\ z.bucket = x.bucket /\ z.loose = l
    <3>1. Drop(y, o).str = x.str
      BY <2>3, <2>5 DEF IsState
    <3>2. z = Drop(y, o)
      BY <1>1, <3>1 DEF Release
    <3> HIDE DEF z
    <3>3. QED
      BY <2>3, <2>5, <3>2 DEF IsState
  <2> HIDE DEF z
  <2>7. SameTexts(x, z)
    BY <2>6 DEF SameTexts
  <2>8. /\ InUse(z) = InUse(x) /\ (\A p : Owners(z, p) = Owners(x, p)) /\ ExtrasOk(z) /\ TextsOk(z)
        /\ ChainsOk(z) /\ Listed(z) = Listed(x) /\ LostOk(z)
    BY <1>1, <2>6, <2>7, TextsKept DEF TableOk
  <2>9. FreeOk(z, H) /\ CountsOk(z, H) /\ StrType(z)
    <3>1. FreeOk(z, H) /\ StrType(z)
      BY <1>1, <2>6, <2>8 DEF TableOk, FreeOk, StrType
    <3>2. CountsOk(z, H)
      <4> SUFFICES ASSUME NEW p \in InUse(x)
                   PROVE  /\ x.str[p].count = H[p] + Cardinality(Owners(x, p))
                          /\ x.str[p].count = 0 => p \in l
        BY <2>6, <2>8 DEF CountsOk
      <4>1. /\ x.str[p].count = H[p] + Cardinality(Owners(x, p))
            /\ x.str[p].count = 0 => p \in x.loose
        BY <1>1 DEF TableOk, CountsOk
      <4>2. QED
        BY <2>1, <4>1 DEF l
    <3>3. QED
      BY <3>1, <3>2
  <2>10. HeldListed(z, H)
    BY <1>1, <2>8 DEF HeldListed
  <2>11. StringsOk(z, H)
    BY <1>1, <2>6, <2>8, <2>9, <2>10 DEF TableOk, StringsOk
  <2>12. QED
    BY <2>7, <2>11 DEF y, z
<1>5. QED
  BY <1>3, <1>4

-----------------------------------------------------------------------------
\* The fields that hold a string.

HoldersIn(f, E, o) == {e \in E : f[e[1]][e[2]] = Str(o)}
HeldBy(f, E) == [o \in Cells |-> Cardinality(HoldersIn(f, E, o))]

\* The count of the string v, if v is one, with one field more and one less.
Plus(H, v) == IF Holds(v, "str") THEN More(H, v[2]) ELSE H
Minus(H, v) == IF Holds(v, "str") THEN Less(H, v[2]) ELSE H
InCells(v) == Holds(v, "str") => v[2] \in Cells

CellsHeld(f) == \A e \in FieldsOf(f) : InCells(f[e[1]][e[2]])

LEMMA FieldsFinite ==
  ASSUME NEW E, E \subseteq AllFields
  PROVE  IsFiniteSet(E)
<1>1. IsFiniteSet(AllFields)
  BY RecordsAssumption, FS_Product DEF AllFields
<1>2. QED
  BY <1>1, FS_Subset

LEMMA HoldersFinite ==
  ASSUME NEW f, NEW E, E \subseteq AllFields, NEW o
  PROVE  /\ IsFiniteSet(HoldersIn(f, E, o)) /\ Cardinality(HoldersIn(f, E, o)) \in Nat
<1>1. HoldersIn(f, E, o) \subseteq E /\ IsFiniteSet(E)
  BY FieldsFinite DEF HoldersIn
<1>2. QED
  BY <1>1, FS_Subset, FS_CardinalityType

LEMMA HeldType ==
  ASSUME NEW f, NEW E, E \subseteq AllFields
  PROVE  HeldBy(f, E) \in [Cells -> Nat] /\ \A o \in Cells : HeldBy(f, E)[o] = Cardinality(HoldersIn(f, E, o))
<1>1. \A o \in Cells : Cardinality(HoldersIn(f, E, o)) \in Nat
  BY HoldersFinite
<1>2. QED
  BY <1>1 DEF HeldBy

\* One field more or less.
LEMMA HeldField ==
  ASSUME NEW f, NEW E, E \subseteq AllFields, NEW e \in E, NEW v, v = f[e[1]][e[2]],
         IsValue(v), InCells(v)
  PROVE  /\ HeldBy(f, E) = Plus(HeldBy(f, E \ {e}), v)
         /\ HeldBy(f, E \ {e}) = Minus(HeldBy(f, E), v)
         /\ Holds(v, "str") => HeldBy(f, E)[v[2]] > 0
<1> DEFINE D == E \ {e}
           H == HeldBy(f, E)
           G == HeldBy(f, D)
<1>1. D \subseteq AllFields
  OBVIOUS
<1>2. /\ H \in [Cells -> Nat] /\ \A o \in Cells : H[o] = Cardinality(HoldersIn(f, E, o))
  BY HeldType
<1>3. /\ G \in [Cells -> Nat] /\ \A o \in Cells : G[o] = Cardinality(HoldersIn(f, D, o))
  BY <1>1, HeldType
<1> HIDE DEF H, G
<1>4. \A o \in Cells : v = Str(o) => H[o] = G[o] + 1
  <2> SUFFICES ASSUME NEW o \in Cells, v = Str(o) PROVE H[o] = G[o] + 1
    OBVIOUS
  <2>1. HoldersIn(f, E, o) = HoldersIn(f, D, o) \cup {e} /\ e \notin HoldersIn(f, D, o)
    BY DEF HoldersIn
  <2>2. Cardinality(HoldersIn(f, D, o) \cup {e}) = Cardinality(HoldersIn(f, D, o)) + 1
    BY <1>1, <2>1, HoldersFinite, FS_AddElement
  <2>3. QED
    BY <1>2, <1>3, <2>1, <2>2
<1>5. \A o \in Cells : v # Str(o) => H[o] = G[o]
  <2> SUFFICES ASSUME NEW o \in Cells, v # Str(o) PROVE H[o] = G[o]
    OBVIOUS
  <2>1. HoldersIn(f, E, o) = HoldersIn(f, D, o)
    BY DEF HoldersIn
  <2>2. QED
    BY <1>2, <1>3, <2>1
<1>6. CASE Holds(v, "str")
  <2> DEFINE p == v[2]
  <2>1. p \in Cells /\ \A o : v = Str(o) <=> o = p
    BY <1>6, ValueKinds, ValueFacts DEF InCells
  <2> HIDE DEF p
  <2>2. H[p] = G[p] + 1 /\ G[p] \in Nat /\ H[p] - 1 = G[p] /\ H[p] > 0
    BY <1>3, <1>4, <2>1
  <2>3. \A o \in Cells : o # p => H[o] = G[o]
    BY <1>5, <2>1
  <2>4. Less(H, p) = [H EXCEPT ![p] = G[p]] /\ More(G, p) = [G EXCEPT ![p] = H[p]]
    BY <2>2 DEF Less, More
  <2>5. H = More(G, p)
    BY <1>2, <1>3, <2>1, <2>3, <2>4
  <2>6. G = Less(H, p)
    BY <1>2, <1>3, <2>1, <2>3, <2>4
  <2>7. QED
    BY <1>6, <2>2, <2>5, <2>6 DEF Plus, Minus, H, G, D, p
<1>7. CASE ~ Holds(v, "str")
  <2>1. \A o : v # Str(o)
    BY <1>7, ValueKinds
  <2>2. H = G
    BY <1>2, <1>3, <1>5, <2>1
  <2>3. QED
    BY <1>7, <2>2 DEF Plus, Minus, H, G, D
<1>8. QED
  BY <1>6, <1>7

LEMMA HeldSame ==
  ASSUME NEW f, NEW g, NEW E, \A e \in E : g[e[1]][e[2]] = f[e[1]][e[2]]
  PROVE  HeldBy(g, E) = HeldBy(f, E)
<1>1. \A o \in Cells : HoldersIn(g, E, o) = HoldersIn(f, E, o)
  BY DEF HoldersIn
<1>2. QED
  BY <1>1 DEF HeldBy

\* The string that the application stores is one that is found through its bucket.
StringIn(x, v) == Holds(v, "str") => v[2] \in Listed(x)

\* A field starts to hold a string, or lets it go.
LEMMA ReferredOk ==
  ASSUME NEW x, NEW H, StringsOk(x, H), NEW v, StringIn(x, v), InCells(v)
  PROVE  StringsOk(Referred(x, v), Plus(H, v))
<1>1. CASE Holds(v, "str")
  <2> DEFINE p == v[2]
             y == Hold(x, p)
             G == More(H, p)
  <2>1. /\ p \in Listed(x) /\ p \in Cells /\ TableOk(x, H) /\ HeldListed(x, H) /\ H \in [Cells -> Nat]
    BY <1>1 DEF StringsOk, TableOk, StringIn, InCells
  <2> HIDE DEF p
  <2>2. TableOk(y, G) /\ SameTexts(x, y)
    BY <2>1, HoldOk
  <2>3. Listed(y) = Listed(x)
    BY <2>1, <2>2, TextsKept DEF TableOk
  <2>4. HeldListed(y, G)
    <3> SUFFICES ASSUME NEW q \in Cells, G[q] > 0, q # p PROVE q \in Listed(x)
      BY <2>1, <2>3 DEF HeldListed
    <3>1. G[q] = H[q]
      BY <2>1 DEF More
    <3> HIDE DEF G
    <3>2. QED
      BY <2>1, <3>1 DEF HeldListed
  <2>5. StringsOk(y, G)
    BY <2>2, <2>4 DEF StringsOk
  <2>6. QED
    BY <1>1, <2>5 DEF Referred, Plus, p
<1>2. CASE ~ Holds(v, "str")
  BY <1>2 DEF Referred, Plus
<1>3. QED
  BY <1>1, <1>2

LEMMA UnreferredOk ==
  ASSUME NEW x, NEW H, StringsOk(x, H), NEW v, InCells(v), Holds(v, "str") => H[v[2]] > 0
  PROVE  StringsOk(Unreferred(x, v), Minus(H, v))
<1>1. CASE Holds(v, "str")
  <2> DEFINE p == v[2]
  <2>1. p \in Cells /\ H[p] > 0
    BY <1>1 DEF InCells
  <2> HIDE DEF p
  <2>2. p \in InUse(x)
    BY <2>1 DEF StringsOk, TableOk, FreeOk
  <2>3. StringsOk(Release(x, p), Less(H, p))
    BY <2>1, <2>2, ReleaseOk
  <2>4. QED
    BY <1>1, <2>3 DEF Unreferred, Minus, p
<1>2. CASE ~ Holds(v, "str")
  BY <1>2 DEF Unreferred, Minus
<1>3. QED
  BY <1>1, <1>2

LEMMA StringsKept ==
  ASSUME NEW x, NEW H, StringsOk(x, H), NEW y, IsState(y), SameStrings(x, y)
  PROVE  StringsOk(y, H) /\ Listed(y) = Listed(x)
<1>1. TableOk(x, H) /\ HeldListed(x, H) /\ y.str = x.str /\ y.bucket = x.bucket /\ y.loose = x.loose
  BY DEF StringsOk, SameStrings
<1>2. SameTexts(x, y)
  BY <1>1 DEF SameTexts
<1>3. /\ InUse(y) = InUse(x) /\ (\A o : Owners(y, o) = Owners(x, o)) /\ ExtrasOk(y) /\ TextsOk(y)
      /\ ChainsOk(y) /\ Listed(y) = Listed(x) /\ LostOk(y)
  BY <1>1, <1>2, TextsKept DEF TableOk
<1>4. FreeOk(y, H) /\ CountsOk(y, H) /\ StrType(y) /\ H \in [Cells -> Nat]
  BY <1>1, <1>3 DEF TableOk, FreeOk, CountsOk, StrType
<1>5. HeldListed(y, H)
  BY <1>1, <1>3 DEF HeldListed
<1>6. QED
  BY <1>3, <1>4, <1>5 DEF StringsOk, TableOk

\* Every string of x counts the fields that hold it.
HoldersOk(x) == CellsHeld(x.rec) /\ StringsOk(x, HeldBy(x.rec, FieldsOf(x.rec)))

StringsIInv == LinksIInv /\ HoldersOk(Now)

LEMMA HoldersBecome ==
  ASSUME NEW x, Become(x), HoldersOk(x)
  PROVE  HoldersOk(Now)'
<1> DEFINE y == Now'
           H == HeldBy(x.rec, FieldsOf(x.rec))
<1>1. IsState(y) /\ y.rec = x.rec /\ y.str = x.str /\ y.bucket = x.bucket /\ y.loose = x.loose
  <2>1. rec' = x.rec /\ str' = x.str /\ bucket' = x.bucket /\ loose' = x.loose
    BY BecomeFacts
  <2>2. QED
    BY <2>1 DEF Now, IsState
<1> HIDE DEF y
<1>2. StringsOk(x, H) /\ CellsHeld(x.rec)
  BY DEF HoldersOk
<1> HIDE DEF H
<1>3. StringsOk(y, H)
  BY <1>1, <1>2, StringsKept DEF SameStrings
<1>4. HoldersOk(y)
  BY <1>1, <1>2, <1>3 DEF HoldersOk, H
<1>5. QED
  BY <1>4 DEF y

\* A field of record r of the table f gets the value v.
StoresIn(f, r, c, v, g) ==
  /\ IsTable(f) /\ f[r] # <<>> /\ CellsHeld(f)
  /\ IsValue(v) /\ InCells(v) /\ g = [f EXCEPT ![r][c] = v]

LEMMA HeldStored ==
  ASSUME NEW f, NEW r \in Ids, NEW c \in Columns, NEW v, NEW g, StoresIn(f, r, c, v, g)
  PROVE  /\ CellsHeld(g) /\ IsValue(f[r][c]) /\ InCells(f[r][c])
         /\ HeldBy(g, FieldsOf(g)) = Minus(Plus(HeldBy(f, FieldsOf(f)), v), f[r][c])
         /\ Holds(f[r][c], "str") => Plus(HeldBy(f, FieldsOf(f)), v)[f[r][c][2]] > 0
<1> DEFINE E == FieldsOf(f)
           e == <<r, c>>
           D == E \ {e}
           H == HeldBy(f, E)
           G == HeldBy(f, D)
           K == HeldBy(g, E)
           old == f[r][c]
<1>1. /\ f = [p \in Ids |-> f[p]] /\ f[r] = [d \in Columns |-> f[r][d]]
      /\ \A p \in Ids : f[p] = <<>> \/ f[p] = [d \in Columns |-> f[p][d]]
      /\ \A a \in E : IsValue(f[a[1]][a[2]]) /\ InCells(f[a[1]][a[2]])
      /\ IsValue(v) /\ InCells(v) /\ f[r] # <<>>
  BY DEF StoresIn, IsTable, CellsHeld
<1>2. /\ g[r] = [d \in Columns |-> IF d = c THEN v ELSE f[r][d]]
      /\ \A p \in Ids : p # r => g[p] = f[p]
  BY <1>1 DEF StoresIn
<1>3. g[r] # <<>> /\ g[r][c] = v /\ \A d \in Columns : d # c => g[r][d] = f[r][d]
  <2>1. c \in DOMAIN g[r]
    BY <1>2
  <2>2. QED
    BY <1>2, <2>1
<1>4. e \in E /\ e \notin D /\ D \subseteq AllFields /\ E \subseteq AllFields /\ e[1] = r /\ e[2] = c
  BY <1>1, FieldsOfFacts DEF FieldsOf
<1>5. FieldsOf(g) = E
  <2>1. \A p \in Ids : g[p] # <<>> <=> f[p] # <<>>
    BY <1>1, <1>2, <1>3
  <2> HIDE DEF E
  <2>2. QED
    BY <2>1 DEF FieldsOf, AllFields, E
<1> HIDE DEF E
<1>6. \A a \in D : g[a[1]][a[2]] = f[a[1]][a[2]]
  <2> TAKE a \in D
  <2>1. a[1] \in Ids /\ a[2] \in Columns /\ a = <<a[1], a[2]>>
    BY <1>4 DEF AllFields
  <2>2. a[1] = r => a[2] # c
    BY <2>1
  <2>3. QED
    BY <1>2, <1>3, <2>1, <2>2
<1>7. CellsHeld(g)
  <2>1. \A a \in E : InCells(g[a[1]][a[2]])
    BY <1>1, <1>3, <1>4, <1>6
  <2>2. QED
    BY <1>5, <2>1 DEF CellsHeld
<1>8. IsValue(old) /\ InCells(old) /\ old = f[e[1]][e[2]] /\ v = g[e[1]][e[2]]
  <2>1. old = f[e[1]][e[2]] /\ v = g[e[1]][e[2]]
    BY <1>3, <1>4
  <2>2. QED
    BY <1>1, <1>4, <2>1
<1> HIDE DEF old, e
<1>9. /\ H = Plus(G, old) /\ G = Minus(H, old)
      /\ Holds(old, "str") => H[old[2]] > 0
  BY <1>4, <1>8, HeldField
<1>10. HeldBy(g, D) = G
  BY <1>6, HeldSame
<1>11. K = Plus(G, v)
  <2>1. K = Plus(HeldBy(g, D), v)
    BY <1>1, <1>4, <1>8, HeldField
  <2>2. QED
    BY <1>10, <2>1
<1>12. H \in [Cells -> Nat]
  BY <1>4, HeldType
<1> HIDE DEF H, G, K, D
<1>13. K = Minus(Plus(H, v), old) /\ (Holds(old, "str") => Plus(H, v)[old[2]] > 0)
  <2>1. CASE ~ Holds(old, "str")
    BY <1>9, <1>11, <2>1 DEF Minus
  <2>2. CASE Holds(old, "str") /\ ~ Holds(v, "str")
    BY <1>9, <1>11, <1>12, <2>2 DEF Plus
  <2>3. CASE Holds(old, "str") /\ Holds(v, "str")
    <3> DEFINE o == old[2]
               p == v[2]
    <3>1. /\ o \in Cells /\ p \in Cells /\ H[o] > 0 /\ H[o] \in Nat /\ H[p] \in Nat
          /\ K = More(Less(H, o), p)
      BY <1>1, <1>8, <1>9, <1>11, <1>12, <2>3 DEF InCells, Minus, Plus
    <3>2. Plus(H, v) = More(H, p) /\ Minus(Plus(H, v), old) = Less(More(H, p), o)
      BY <2>3 DEF Plus, Minus
    <3> HIDE DEF o, p
    <3>3. More(Less(H, o), p) = Less(More(H, p), o) /\ More(H, p)[o] > 0
      <4>1. CASE o = p
        <5> DEFINE n == H[o] - 1
                   m == H[o] + 1
        <5>1. n + 1 = H[o] /\ m - 1 = H[o] /\ m > 0
          BY <3>1
        <5>2. Less(H, o) = [H EXCEPT ![o] = n] /\ More(H, o) = [H EXCEPT ![o] = m]
          BY DEF Less, More
        <5> HIDE DEF n, m
        <5>3. More(Less(H, o), o) = H /\ Less(More(H, o), o) = H /\ More(H, o)[o] > 0
          BY <1>12, <3>1, <5>1, <5>2 DEF More, Less
        <5>4. QED
          BY <4>1, <5>3
      <4>2. CASE o # p
        <5> DEFINE n == H[o] - 1
                   m == H[p] + 1
        <5>1. Less(H, o) = [H EXCEPT ![o] = n] /\ More(H, p) = [H EXCEPT ![p] = m]
          BY DEF Less, More
        <5>2. [H EXCEPT ![o] = n][p] = H[p] /\ [H EXCEPT ![p] = m][o] = H[o]
          BY <1>12, <3>1, <4>2
        <5>3. /\ More(Less(H, o), p) = [[H EXCEPT ![o] = n] EXCEPT ![p] = m]
              /\ Less(More(H, p), o) = [[H EXCEPT ![p] = m] EXCEPT ![o] = n]
          BY <5>1, <5>2 DEF More, Less
        <5> HIDE DEF n, m
        <5>4. QED
          BY <1>12, <3>1, <4>2, <5>1, <5>2, <5>3
      <4>3. QED
        BY <4>1, <4>2
    <3>4. QED
      BY <3>1, <3>2, <3>3 DEF o
  <2>4. QED
    BY <2>1, <2>2, <2>3
<1>14. QED
  BY <1>5, <1>7, <1>8, <1>13 DEF K, H, old, E

LEMMA SameStringsChain ==
  ASSUME NEW x, NEW y, NEW z, SameStrings(x, y), SameStrings(y, z)
  PROVE  SameStrings(x, z)
  BY DEF SameStrings

LEMMA LinkedType ==
  ASSUME NEW ls \in [Ids -> Seq(Ids)], NEW r \in Ids, NEW v, IsValue(v)
  PROVE  Linked(ls, v, r) \in [Ids -> Seq(Ids)]
<1>1. CASE Holds(v, "rec")
  <2>1. v[2] \in Ids
    BY <1>1, ValueKinds
  <2> DEFINE q == v[2]
  <2>2. q \in Ids /\ Append(ls[q], r) \in Seq(Ids)
    BY <2>1
  <2> HIDE DEF q
  <2>3. [ls EXCEPT ![q] = Append(ls[q], r)] \in [Ids -> Seq(Ids)]
    BY <2>2
  <2>4. QED
    BY <1>1, <2>3 DEF Linked, q
<1>2. CASE ~ Holds(v, "rec")
  BY <1>2 DEF Linked
<1>3. QED
  BY <1>1, <1>2

LEMMA TermStrings ==
  ASSUME StringsIInv, NEW r \in Ids, NEW c \in Columns, NEW v \in Stores[r][c], Ready(v)
  PROVE  StringIn(Now, Term(v)) /\ InCells(Term(v))
<1>1. ChainsOk(Now)
  BY DEF StringsIInv, HoldersOk, StringsOk, TableOk
<1>2. CASE Holds(v, "text")
  <2>1. v[2] \in Texts
    <3>1. \/ v = Null
          \/ Holds(v, "int")
          \/ Holds(v, "rec")
          \/ v[2] \in Texts
      BY RecordsAssumption
    <3>2. QED
      BY <1>2, <3>1 DEF Holds, Null
  <2>2. Term(v) = Str(Found(Now, v[2])) /\ Found(Now, v[2]) # 0
    BY <1>2 DEF Term, Ready, Holds
  <2>3. Found(Now, v[2]) \in Listed(Now) /\ Found(Now, v[2]) \in Cells
    BY <1>1, <2>1, <2>2, NotFound DEF Listed
  <2>4. QED
    BY <2>2, <2>3, ValueFacts DEF StringIn, InCells
<1>3. CASE ~ Holds(v, "text")
  <2>1. Term(v) = v
    BY <1>3 DEF Term
  <2>2. ~ Holds(v, "str")
    <3>1. v = Null \/ Holds(v, "int") \/ Holds(v, "rec")
      BY <1>3, RecordsAssumption
    <3>2. QED
      BY <3>1 DEF Holds, Null
  <2>3. QED
    BY <2>1, <2>2 DEF StringIn, InCells
<1>4. QED
  BY <1>2, <1>3

\* The strings of the old table and of the table with one field stored.
LEMMA HoldersStored ==
  ASSUME NEW f, NEW r \in Ids, NEW c \in Columns, NEW v, NEW g, StoresIn(f, r, c, v, g),
         NEW x, StringsOk(x, HeldBy(f, FieldsOf(f))), StringIn(x, v)
  PROVE  /\ StringsOk(Referred(x, v), Plus(HeldBy(f, FieldsOf(f)), v))
         /\ StringsOk(Unreferred(Referred(x, v), f[r][c]), HeldBy(g, FieldsOf(g)))
<1> DEFINE old == f[r][c]
           H == HeldBy(f, FieldsOf(f))
           y == Referred(x, v)
<1>1. /\ InCells(old) /\ HeldBy(g, FieldsOf(g)) = Minus(Plus(H, v), old)
      /\ Holds(old, "str") => Plus(H, v)[old[2]] > 0
  BY HeldStored
<1> HIDE DEF old, H
<1>2. StringsOk(y, Plus(H, v))
  <2>1. InCells(v)
    BY DEF StoresIn
  <2>2. QED
    BY <2>1, ReferredOk DEF H
<1>3. StringsOk(Unreferred(y, old), Minus(Plus(H, v), old))
  BY <1>1, <1>2, UnreferredOk
<1>4. QED
  BY <1>1, <1>2, <1>3 DEF H, old, y

LEMMA SetNewFieldHolders ==
  ASSUME StringsIInv, NEW r \in Ids, NEW c \in Columns, NEW v, SetNewField(r, c, v),
         IsValue(v), InCells(v), StringIn(Now, v)
  PROVE  HoldersOk(Now)'
<1> DEFINE f == [rec EXCEPT ![r][c] = v]
           g == [fresh EXCEPT ![r] = @ \ {c}]
           x == [Now EXCEPT !.rec[r][c] = v, !.fresh[r] = @ \ {c}]
           a == Referred(x, v)
           b == AddField(a, r, c)
           d == WithLink(b, v, r)
           z == PutBack(d, r)
           H == HeldBy(rec, FieldsOf(rec))
           G == HeldBy(f, FieldsOf(f))
<1>1. IsState(x) /\ x.rec = f /\ x.links = links /\ SameStrings(Now, x)
  <2>1. x = [[Now EXCEPT !.rec = f] EXCEPT !.fresh = g]
    BY DEF Now
  <2> HIDE DEF x, f, g
  <2>2. QED
    BY <2>1 DEF Now, IsState, SameStrings
<1>2. /\ rec[r] # <<>> /\ rec[r][c] = Null /\ links \in [Ids -> Seq(Ids)] /\ IsTable(rec)
  BY NowFacts DEF StringsIInv, LinksIInv, RecordsOk, SetNewField, Exists, LinkInv
<1>3. Become(z)
  BY DEF SetNewField
<1>4. StoresIn(rec, r, c, v, f) /\ StringsOk(Now, H) /\ CellsHeld(f)
  <2>1. StoresIn(rec, r, c, v, f) /\ StringsOk(Now, H)
    BY <1>2, NowFacts DEF StoresIn, StringsIInv, HoldersOk
  <2> HIDE DEF f
  <2>2. CellsHeld(f)
    BY <2>1, HeldStored
  <2>3. QED
    BY <2>1, <2>2
<1> HIDE DEF x, f, g
<1>5. IsState(a) /\ SameRecords(x, a)
  BY <1>1, ReferredFrames
<1>6. StringsOk(a, G)
  <2>1. StringsOk(x, H) /\ Listed(x) = Listed(Now)
    BY <1>1, <1>4, StringsKept
  <2>2. StringIn(x, v)
    BY <2>1 DEF StringIn
  <2>3. StringsOk(Unreferred(a, Null), G)
    BY <1>2, <1>4, <2>1, <2>2, HoldersStored
  <2>4. Unreferred(a, Null) = a
    BY ValueFacts DEF Unreferred
  <2>5. QED
    BY <2>3, <2>4
<1> HIDE DEF a, G, H
<1>7. IsState(b) /\ SameRecords(a, b) /\ SameStrings(a, b)
  BY <1>5, AddFieldReindexes DEF Reindexed
<1> HIDE DEF b
<1>8. IsState(d) /\ d.links = Linked(b.links, v, r) /\ d.rec = b.rec /\ SameStrings(b, d)
  BY <1>7, WithLinkFrame
<1> HIDE DEF d
<1>9. d.links \in [Ids -> Seq(Ids)]
  BY <1>1, <1>2, <1>5, <1>7, <1>8, LinkedType DEF SameRecords
<1>10. IsState(z) /\ SameRecords(d, z) /\ SameStrings(d, z)
  BY <1>8, <1>9, TakeOutReindexes DEF Reindexed
<1> HIDE DEF z
<1>11. z.rec = f
  BY <1>1, <1>5, <1>7, <1>8, <1>10 DEF SameRecords
<1>12. StringsOk(z, G)
  <2>1. SameStrings(a, z)
    BY <1>7, <1>8, <1>10, SameStringsChain
  <2>2. QED
    BY <1>6, <1>10, <2>1, StringsKept
<1>13. HoldersOk(z)
  BY <1>4, <1>11, <1>12 DEF HoldersOk, G
<1>14. QED
  BY <1>3, <1>13, HoldersBecome

LEMMA SetFieldHolders ==
  ASSUME StringsIInv, NEW r \in Ids, NEW c \in Columns, NEW v, NEW strict, SetField(r, c, v, strict),
         IsValue(v), InCells(v), StringIn(Now, v)
  PROVE  HoldersOk(Now)'
<1> DEFINE old == rec[r][c]
           a == DelField(Now, r, c, strict)
           out == TakeOut(a, r, strict)
           b == WithoutLink(out, old, r)
           d == Referred(b, v)
           x == Unreferred(d, old)
           f == [rec EXCEPT ![r][c] = v]
           e == [x EXCEPT !.rec[r][c] = v]
           g == AddField(e, r, c)
           y == WithLink(g, v, r)
           z == PutBack(y, r)
           H == HeldBy(rec, FieldsOf(rec))
           G == HeldBy(f, FieldsOf(f))
<1>1. /\ Now.rec = rec /\ Now.links = links /\ Now.fresh = fresh /\ IsState(Now)
      /\ links \in [Ids -> Seq(Ids)] /\ LinkInv(rec, links, FieldsOf(rec)) /\ IsTable(rec)
  BY NowFacts DEF StringsIInv, LinksIInv, RecordsOk, LinkInv
<1>2. rec[r] # <<>> /\ StringsOk(Now, H) /\ CellsHeld(rec)
  BY <1>1 DEF SetField, Exists, StringsIInv, HoldersOk
<1>3. Become(IF out.err THEN out ELSE z)
  BY DEF SetField
<1>4. StoresIn(rec, r, c, v, f)
  BY <1>1, <1>2 DEF StoresIn
<1>5. CellsHeld(f)
  <2> HIDE DEF f
  <2>1. QED
    BY <1>4, HeldStored
<1>6. Unlinked(links, old, r) \in [Ids -> Seq(Ids)]
  <2>1. <<r, c>> \in FieldsOf(rec)
    BY <1>2, FieldsOfFacts
  <2>2. IsValue(rec[r][c])
    BY <1>1, <2>1 DEF IsTable
  <2>3. LinkInv(rec, Unlinked(links, old, r), FieldsOf(rec) \ {<<r, c>>})
    BY <1>1, <2>1, <2>2, LinkTaken
  <2>4. QED
    BY <2>3 DEF LinkInv
<1> HIDE DEF f
<1>7. IsState(a) /\ SameRecords(Now, a) /\ SameStrings(Now, a)
  BY <1>1, DelFieldReindexes DEF Reindexed
<1> HIDE DEF a
<1>8. IsState(out) /\ SameRecords(a, out) /\ SameStrings(a, out)
  BY <1>1, <1>7, TakeOutReindexes DEF Reindexed, SameRecords
<1> HIDE DEF out
<1>9. SameRecords(Now, out) /\ SameStrings(Now, out)
  BY <1>7, <1>8, SameStringsChain DEF SameRecords
<1> HIDE DEF H
<1>10. StringsOk(out, H)
  BY <1>2, <1>8, <1>9, StringsKept
<1>11. CASE out.err
  <2>1. HoldersOk(out)
    BY <1>1, <1>2, <1>9, <1>10 DEF HoldersOk, SameRecords, H
  <2>2. QED
    BY <1>3, <1>11, <2>1, HoldersBecome
<1>12. CASE ~ out.err
  <2>1. IsState(b) /\ b.links = Unlinked(links, old, r) /\ b.rec = rec /\ SameStrings(out, b)
    BY <1>1, <1>8, <1>9, WithoutLinkFrame DEF SameRecords
  <2> HIDE DEF b
  <2>2. StringsOk(b, H) /\ StringIn(b, v)
    <3>1. StringsOk(b, H)
      BY <1>10, <2>1, StringsKept
    <3>2. SameStrings(Now, b)
      BY <1>9, <2>1, SameStringsChain
    <3>3. StringIn(b, v)
      <4>1. Listed(b) = Listed(Now)
        BY <1>2, <2>1, <3>2, StringsKept
      <4>2. QED
        BY <4>1 DEF StringIn
    <3>4. QED
      BY <3>1, <3>3
  <2>3. StringsOk(x, G)
    BY <1>4, <2>2, HoldersStored DEF H
  <2> HIDE DEF G, old
  <2>4. IsState(d) /\ SameRecords(b, d)
    BY <2>1, ReferredFrames
  <2> HIDE DEF d
  <2>5. IsState(x) /\ SameRecords(d, x)
    BY <2>4, ReferredFrames
  <2> HIDE DEF x
  <2>6. IsState(x) /\ x.links = Unlinked(links, old, r) /\ x.rec = rec
    BY <2>1, <2>4, <2>5 DEF SameRecords
  <2>7. IsState(e) /\ e.rec = f /\ e.links = x.links /\ SameStrings(x, e)
    <3>1. e = [x EXCEPT !.rec = f]
      BY <2>6 DEF IsState, f
    <3> HIDE DEF e
    <3>2. QED
      BY <2>6, <3>1 DEF IsState, SameStrings
  <2> HIDE DEF e
  <2>8. IsState(g) /\ SameRecords(e, g) /\ SameStrings(e, g)
    BY <2>7, AddFieldReindexes DEF Reindexed
  <2> HIDE DEF g
  <2>9. IsState(y) /\ y.links = Linked(x.links, v, r) /\ y.rec = f /\ SameStrings(g, y)
    BY <2>7, <2>8, WithLinkFrame DEF SameRecords
  <2> HIDE DEF y
  <2>10. y.links \in [Ids -> Seq(Ids)]
    BY <1>6, <2>6, <2>9, LinkedType DEF old
  <2>11. IsState(z) /\ SameRecords(y, z) /\ SameStrings(y, z)
    BY <2>9, <2>10, TakeOutReindexes DEF Reindexed
  <2> HIDE DEF z
  <2>12. StringsOk(z, G)
    <3>1. SameStrings(x, z)
      BY <2>7, <2>8, <2>9, <2>11, SameStringsChain
    <3>2. QED
      BY <2>3, <2>11, <3>1, StringsKept
  <2>13. HoldersOk(z)
    <3>1. z.rec = f
      BY <2>9, <2>11 DEF SameRecords
    <3>2. QED
      BY <1>5, <2>12, <3>1 DEF HoldersOk, G
  <2>14. QED
    BY <1>3, <1>12, <2>13, HoldersBecome
<1>13. QED
  BY <1>11, <1>12

\* Two tables with the same strings in the same fields.
LEMMA SameHolders ==
  ASSUME NEW f, NEW g, CellsHeld(f), NEW E, E \subseteq FieldsOf(f), NEW D, D = FieldsOf(g), E \subseteq D,
         \A e \in E : g[e[1]][e[2]] = f[e[1]][e[2]],
         \A e \in D : e \notin E => g[e[1]][e[2]] = Null
  PROVE  CellsHeld(g) /\ HeldBy(g, D) = HeldBy(f, E)
<1>1. CellsHeld(g)
  BY ValueFacts DEF CellsHeld, InCells
<1>2. \A o : HoldersIn(g, D, o) = HoldersIn(f, E, o)
  BY ValueFacts DEF HoldersIn
<1>3. QED
  BY <1>1, <1>2 DEF HeldBy

LEMMA CreateHolders ==
  ASSUME StringsIInv, NEW r \in Ids, CreateRaw(r) \/ Create(r)
  PROVE  HoldersOk(Now)'
<1> DEFINE row == [c \in Columns |-> Null]
           f == [rec EXCEPT ![r] = row]
           E == FieldsOf(rec)
           D == FieldsOf(f)
           x == NewRecord(r)
           y == [x EXCEPT !.fresh[r] = Columns]
           z == AddFields(x, Row(r))
           H == HeldBy(rec, E)
           G == HeldBy(f, D)
<1>1. /\ IsTable(rec) /\ rec[r] = <<>> /\ CellsHeld(rec) /\ StringsOk(Now, H)
      /\ Become(y) \/ Become(z)
  BY NowFacts DEF StringsIInv, LinksIInv, RecordsOk, HoldersOk, CreateRaw, Create, Exists
<1>2. f[r] = row /\ \A p \in Ids : p # r => f[p] = rec[p]
  BY <1>1 DEF IsTable
<1>3. /\ IsState(x) /\ x.rec = f /\ SameStrings(Now, x)
      /\ IsState(y) /\ y.rec = f /\ SameStrings(Now, y)
  <2> DEFINE ls == [links EXCEPT ![r] = <<>>]
             g == [fresh EXCEPT ![r] = {}]
  <2>1. x = [[[Now EXCEPT !.rec = f] EXCEPT !.links = ls] EXCEPT !.fresh = g]
    BY DEF NewRecord, Now
  <2> HIDE DEF x, f, ls, g
  <2>2. IsState(x) /\ x.rec = f /\ SameStrings(Now, x)
    BY <2>1 DEF Now, IsState, SameStrings
  <2>3. IsState(y) /\ y.rec = f /\ SameStrings(Now, y)
    BY <2>2 DEF IsState, SameStrings
  <2>4. QED
    BY <2>2, <2>3
<1> HIDE DEF f, x, y
<1>4. CellsHeld(f) /\ G = H
  <2>1. \A e \in E : e[1] \in Ids /\ e[1] # r
    BY <1>1 DEF FieldsOf, AllFields
  <2>2. E \subseteq D /\ \A e \in E : f[e[1]][e[2]] = rec[e[1]][e[2]]
    BY <1>2, <2>1 DEF FieldsOf
  <2>3. \A e \in D : e \notin E => f[e[1]][e[2]] = Null
    <3> TAKE e \in D
    <3> HAVE e \notin E
    <3>1. e \in AllFields /\ e[1] \in Ids /\ e[2] \in Columns
      BY DEF FieldsOf, AllFields
    <3>2. e[1] = r
      BY <1>2, <3>1 DEF FieldsOf
    <3>3. QED
      BY <1>2, <3>1, <3>2
  <2> HIDE DEF E, D
  <2>4. QED
    BY <1>1, <2>2, <2>3, SameHolders DEF E, D
<1> HIDE DEF H, G
<1>5. HoldersOk(y)
  <2>1. StringsOk(y, H)
    BY <1>1, <1>3, StringsKept
  <2>2. QED
    BY <1>3, <1>4, <2>1 DEF HoldersOk, G
<1>6. HoldersOk(z)
  <2>1. IsState(z) /\ SameRecords(x, z) /\ SameStrings(x, z)
    BY <1>3, RowReindexes DEF Reindexed
  <2> HIDE DEF z
  <2>2. SameStrings(Now, z)
    BY <1>3, <2>1, SameStringsChain
  <2>3. StringsOk(z, H)
    BY <1>1, <2>1, <2>2, StringsKept
  <2>4. QED
    BY <1>3, <1>4, <2>1, <2>3 DEF HoldersOk, SameRecords, G
<1>7. QED
  BY <1>1, <1>5, <1>6, HoldersBecome

\* The fields of r let go of their strings one after the other.
LEMMA LetGoHolders ==
  ASSUME StringsIInv, NEW r \in Ids, Exists(r), NEW out, IsState(out), SameStrings(Now, out),
         NEW n \in Nat, Columns = 1..n, NEW at, LetsGo(out, rec[r], r, n, at), NEW k \in 0..n
  PROVE  StringsOk(at[k], HeldBy(rec, FieldsLeft(r, k)))
<1> DEFINE P(j) == StringsOk(at[j], HeldBy(rec, FieldsLeft(r, j)))
           T == {j \in 0..n : ~ P(j)}
<1>1. /\ at[0] = out
      /\ \A j \in 1..n : at[j] = Unreferred(WithoutLink(at[j - 1], rec[r][j], r), rec[r][j])
  BY DEF LetsGo
<1>2. /\ IsTable(rec) /\ rec[r] # <<>> /\ CellsHeld(rec) /\ StringsOk(Now, HeldBy(rec, FieldsOf(rec)))
  BY NowFacts DEF StringsIInv, LinksIInv, RecordsOk, HoldersOk, Exists
<1>3. P(0)
  <2>1. FieldsLeft(r, 0) = FieldsOf(rec)
    <3>1. \A e \in FieldsOf(rec) : e[2] > 0
      BY DEF FieldsOf, AllFields
    <3>2. QED
      BY <3>1 DEF FieldsLeft
  <2>2. StringsOk(out, HeldBy(rec, FieldsOf(rec)))
    BY <1>2, StringsKept
  <2>3. QED
    BY <1>1, <2>1, <2>2
<1>4. ASSUME NEW j \in 1..n, P(j - 1)
      PROVE  P(j)
  <2> DEFINE e == <<r, j>>
             v == rec[r][j]
             b == WithoutLink(at[j - 1], v, r)
             E == FieldsLeft(r, j - 1)
             H == HeldBy(rec, E)
  <2>1. StringsOk(at[j - 1], H)
    BY <1>4
  <2>2. E \subseteq AllFields /\ e \in E /\ v = rec[e[1]][e[2]] /\ IsValue(v) /\ InCells(v)
    BY <1>2, FieldsOfFacts DEF IsTable, CellsHeld, FieldsLeft, FieldsOf
  <2>3. E \ {e} = FieldsLeft(r, j)
    <3>1. ASSUME NEW a \in FieldsOf(rec)
          PROVE  (a[1] = r => a[2] > j - 1) /\ a # <<r, j>> <=> (a[1] = r => a[2] > j)
      <4>1. a = <<a[1], a[2]>> /\ a[2] \in 1..n
        BY DEF FieldsOf, AllFields
      <4>2. a = <<r, j>> <=> a[1] = r /\ a[2] = j
        BY <4>1
      <4>3. a[2] > j - 1 /\ a[2] # j <=> a[2] > j
        BY <4>1
      <4>4. QED
        BY <4>2, <4>3
    <3>2. QED
      BY <3>1 DEF FieldsLeft
  <2> HIDE DEF E, e, v
  <2>4. IsState(b) /\ SameStrings(at[j - 1], b)
    <3>1. IsState(at[j - 1])
      BY <2>1 DEF StringsOk, TableOk
    <3> DEFINE a == at[j - 1]
    <3> HIDE DEF a, H
    <3>2. IsState(WithoutLink(a, v, r)) /\ SameStrings(a, WithoutLink(a, v, r))
      BY <3>1, WithoutLinkFrame DEF a
    <3>3. QED
      BY <3>2 DEF a
  <2> HIDE DEF b, H
  <2>5. StringsOk(b, H)
    BY <2>1, <2>4, StringsKept
  <2>6. HeldBy(rec, E \ {e}) = Minus(H, v) /\ (Holds(v, "str") => H[v[2]] > 0)
    <3>1. /\ HeldBy(rec, E \ {e}) = Minus(HeldBy(rec, E), v)
          /\ Holds(v, "str") => HeldBy(rec, E)[v[2]] > 0
      <4> HIDE DEF P, T
      <4>1. E \subseteq AllFields /\ e \in E /\ v = rec[e[1]][e[2]] /\ IsValue(v) /\ InCells(v)
        BY <2>2
      <4>2. QED
        BY <4>1, HeldField, SMTT(30)
    <3>2. QED
      BY <3>1 DEF H
  <2>7. StringsOk(Unreferred(b, v), Minus(H, v))
    BY <2>2, <2>5, <2>6, UnreferredOk
  <2>8. at[j] = Unreferred(b, v)
    BY <1>1 DEF b, v
  <2>9. QED
    BY <2>3, <2>6, <2>7, <2>8
<1> HIDE DEF P
<1>5. T = {}
  <2> SUFFICES ASSUME T # {} PROVE FALSE
    OBVIOUS
  <2>1. PICK j \in T : \A i \in T : j <= i
    <3>1. T \subseteq Nat
      OBVIOUS
    <3> HIDE DEF T
    <3>2. QED
      BY <3>1, LeastElement
  <2>2. j \in 0..n /\ ~ P(j)
    OBVIOUS
  <2>3. j # 0
    BY <1>3, <2>2
  <2>4. j - 1 \in 0..n /\ ~ (j <= j - 1) /\ j \in 1..n
    BY <2>2, <2>3
  <2>5. P(j - 1)
    BY <2>1, <2>4
  <2>6. QED
    BY <1>4, <2>2, <2>4, <2>5
<1>6. P(k)
  BY <1>5
<1>7. QED
  BY <1>6 DEF P

LEMMA DeleteHolders ==
  ASSUME StringsIInv, NEW r \in Ids, NEW strict, Delete(r, strict)
  PROVE  HoldersOk(Now)'
<1> DEFINE out == DelFields(Now, Row(r), strict)
           x == LetGo(out, r, rec[r])
           f == [rec EXCEPT ![r] = <<>>]
           z == [x EXCEPT !.rec[r] = <<>>]
           E == FieldsOf(rec)
           D == FieldsOf(f)
           H == HeldBy(rec, E)
           G == HeldBy(f, D)
<1>1. Exists(r) /\ Become(IF out.err THEN out ELSE z)
  BY DEF Delete
<1>2. /\ IsState(Now) /\ Now.rec = rec /\ IsTable(rec) /\ CellsHeld(rec) /\ StringsOk(Now, H) /\ LinksIInv
  BY NowFacts DEF StringsIInv, LinksIInv, RecordsOk, HoldersOk
<1>3. IsState(out) /\ SameRecords(Now, out) /\ SameStrings(Now, out)
  BY <1>2, RowReindexes DEF Reindexed
<1> HIDE DEF out
<1>4. CASE out.err
  <2>1. out.rec = rec
    BY <1>2, <1>3 DEF SameRecords
  <2> HIDE DEF H
  <2>2. StringsOk(out, H)
    BY <1>2, <1>3, StringsKept
  <2>3. HoldersOk(out)
    BY <1>2, <2>1, <2>2 DEF HoldersOk, H
  <2>4. QED
    BY <1>1, <1>4, <2>3, HoldersBecome
<1>5. CASE ~ out.err
  <2>1. PICK n \in Nat : Columns = 1..n
    BY ColumnsAre
  <2>2. rec[r] # <<>> /\ DOMAIN rec[r] = 1..n
    BY <1>1, <1>2, <2>1 DEF Exists, IsTable
  <2>3. PICK at : LetsGo(out, rec[r], r, n, at)
    BY <2>2, LetGoSteps
  <2>4. x = at[n] /\ n \in 0..n
    BY <2>3 DEF LetsGo
  <2> HIDE DEF x
  <2>5. IsState(x) /\ x.rec = rec
    BY <1>1, <1>2, <1>3, <2>1, <2>3, <2>4, LetGoLinks
  <2>6. StringsOk(x, HeldBy(rec, FieldsLeft(r, n)))
    BY <1>1, <1>3, <2>1, <2>3, <2>4, LetGoHolders
  <2>7. f[r] = <<>> /\ \A p \in Ids : p # r => f[p] = rec[p]
    BY <1>2 DEF IsTable
  <2>8. IsState(z) /\ z.rec = f /\ SameStrings(x, z)
    <3>1. z = [x EXCEPT !.rec = f]
      BY <2>5 DEF IsState
    <3> HIDE DEF z, f
    <3>2. QED
      BY <2>5, <3>1 DEF IsState, SameStrings
  <2> HIDE DEF f, z
  <2>9. FieldsLeft(r, n) = D
    <3>1. ASSUME NEW e \in AllFields
          PROVE  rec[e[1]] # <<>> /\ (e[1] = r => e[2] > n) <=> f[e[1]] # <<>>
      <4>1. e[1] \in Ids /\ e[2] \in 1..n /\ ~ (e[2] > n)
        BY <2>1 DEF AllFields
      <4>2. QED
        BY <2>7, <4>1
    <3>2. QED
      BY <3>1 DEF FieldsLeft, FieldsOf
  <2>10. \A e \in D : e \in E /\ f[e[1]][e[2]] = rec[e[1]][e[2]]
    <3> TAKE e \in D
    <3>1. e \in AllFields /\ f[e[1]] # <<>> /\ e[1] \in Ids
      BY DEF FieldsOf, AllFields
    <3>2. f[e[1]] = rec[e[1]]
      BY <2>7, <3>1
    <3>3. QED
      BY <3>1, <3>2 DEF FieldsOf
  <2>11. CellsHeld(f) /\ G = HeldBy(rec, D)
    <3>1. CellsHeld(f)
      BY <1>2, <2>10 DEF CellsHeld
    <3>2. G = HeldBy(rec, D)
      <4> HIDE DEF D
      <4>1. QED
        BY <2>10, HeldSame
    <3>3. QED
      BY <3>1, <3>2
  <2> HIDE DEF G
  <2>12. StringsOk(z, G)
    BY <2>6, <2>8, <2>9, <2>11, StringsKept
  <2>13. HoldersOk(z)
    BY <2>8, <2>11, <2>12 DEF HoldersOk, G
  <2>14. QED
    BY <1>1, <1>5, <2>13, HoldersBecome
<1>6. QED
  BY <1>4, <1>5

LEMMA StringsInitial ==
  ASSUME Init
  PROVE  HoldersOk(Now)
<1> DEFINE E == FieldsOf(rec)
           H == HeldBy(rec, E)
           ch == [h \in Buckets |-> <<>>]
<1>1. /\ Now.rec = rec /\ Now.str = [o \in Cells |-> Free] /\ Now.bucket = [h \in Buckets |-> 0]
      /\ IsState(Now) /\ rec = [r \in Ids |-> <<>>]
  BY NowFacts DEF Init, Buckets
<1>2. E = {} /\ E \subseteq AllFields
  BY <1>1 DEF FieldsOf, AllFields
<1>3. InUse(Now) = {} /\ (\A o \in Cells : Now.str[o] = Free /\ Now.str[o].next = 0)
  BY <1>1, FreeIsString DEF InUse
<1>4. H \in [Cells -> Nat] /\ \A o \in Cells : H[o] = 0
  <2>1. \A o \in Cells : HoldersIn(rec, E, o) = {}
    BY <1>2 DEF HoldersIn
  <2>2. QED
    BY <1>2, <2>1, HeldType, FS_EmptySet
<1>5. StrType(Now)
  BY <1>1, FreeIsString DEF StrType
<1>6. Chained(Now, ch, {})
  <2>1. ch \in [Buckets -> Seq(Cells)] /\ \A h \in Buckets : ch[h] = <<>> /\ 1..Len(ch[h]) = {}
    OBVIOUS
  <2> HIDE DEF ch
  <2>2. \A h \in Buckets : Now.bucket[h] = 0
    BY <1>1
  <2>3. \A h \in Buckets : Now.bucket[h] = IF ch[h] = <<>> THEN 0 ELSE ch[h][1]
    BY <2>1, <2>2
  <2>4. QED
    BY <1>3, <2>1, <2>3 DEF Chained
<1> HIDE DEF H, ch
<1>7. /\ FreeOk(Now, H) /\ CountsOk(Now, H) /\ ExtrasOk(Now) /\ TextsOk(Now) /\ ChainsOk(Now)
      /\ LostOk(Now) /\ HeldListed(Now, H)
  <2>1. FreeOk(Now, H)
    BY <1>3, <1>4 DEF FreeOk
  <2>2. Listed(Now) = {}
    BY <1>6, ListedIs
  <2>3. CountsOk(Now, H) /\ ExtrasOk(Now) /\ TextsOk(Now) /\ LostOk(Now)
    BY <1>3, <2>2 DEF CountsOk, ExtrasOk, TextsOk, LostOk
  <2>4. ChainsOk(Now)
    BY <1>6, <2>2 DEF ChainsOk
  <2>5. HeldListed(Now, H)
    BY <1>4 DEF HeldListed
  <2>6. QED
    BY <2>1, <2>3, <2>4, <2>5
<1>8. CellsHeld(rec)
  BY <1>2 DEF CellsHeld
<1>9. StringsOk(Now, H)
  BY <1>1, <1>4, <1>5, <1>7 DEF StringsOk, TableOk
<1>10. QED
  BY <1>1, <1>8, <1>9 DEF HoldersOk, H

LEMMA StringsStep ==
  ASSUME StringsIInv, [Next]_vars
  PROVE  StringsIInv'
<1> DEFINE x == Now
           H == HeldBy(rec, FieldsOf(rec))
<1>1. /\ LinksIInv /\ HoldersOk(x) /\ IsState(x) /\ x.rec = rec /\ StringsOk(x, H) /\ CellsHeld(rec)
  BY NowFacts DEF StringsIInv, HoldersOk
<1> HIDE DEF x, H
<1>2. LinksIInv'
  BY <1>1, LinksStep
<1>3. ASSUME NEW y, Become(y), StringsOk(y, H), y.rec = rec
      PROVE  HoldersOk(Now)'
  BY <1>1, <1>3, HoldersBecome DEF HoldersOk, H
<1>4. ASSUME NEW s \in Texts, Encode(s) PROVE HoldersOk(Now)'
  <2>1. Become(Encoded(x, s)) /\ Cardinality(Cells \ InUse(x)) > 1
    BY <1>4 DEF Encode, x
  <2>2. StringsOk(Encoded(x, s), H)
    BY <1>1, <2>1, EncodedOk
  <2>3. Encoded(x, s).rec = rec
    BY <1>1, EncodedFrame DEF SameRecords
  <2>4. QED
    BY <1>3, <2>1, <2>2, <2>3
<1>5. ASSUME NEW o \in Cells, FreeEncoded(o) PROVE HoldersOk(Now)'
  <2> DEFINE y == Hold(x, o)
             z == Release(y, o)
  <2>1. Become(z) /\ o \in InUse(x)
    BY <1>5 DEF FreeEncoded, x
  <2>2. StringsOk(z, H)
    BY <1>1, <2>1, FreeEncodedOk
  <2>3. z.rec = rec
    <3>1. IsState(y) /\ SameRecords(x, y)
      BY <1>1, StringStepFrames
    <3> HIDE DEF y
    <3>2. SameRecords(y, z)
      BY <3>1, StringStepFrames
    <3> HIDE DEF z
    <3>3. QED
      BY <1>1, <3>1, <3>2 DEF SameRecords
  <2> HIDE DEF z
  <2>4. QED
    BY <1>3, <2>1, <2>2, <2>3
<1>6. ASSUME NEW r \in Ids, NEW c \in Columns, NEW v \in Stores[r][c], Ready(v),
             SetNewField(r, c, Term(v)) \/ \E strict \in BOOLEAN : SetField(r, c, Term(v), strict)
      PROVE  HoldersOk(Now)'
  BY <1>6, TermFacts, TermStrings, SetNewFieldHolders, SetFieldHolders
<1>7. ASSUME UNCHANGED vars PROVE HoldersOk(Now)'
  <2>1. Now' = x
    BY <1>7 DEF vars, Now, x
  <2> DEFINE y == Now'
  <2>2. HoldersOk(y)
    BY <1>1, <2>1
  <2>3. QED
    BY <2>2
<1>8. HoldersOk(Now)'
  BY <1>4, <1>5, <1>6, <1>7, CreateHolders, DeleteHolders DEF Next
<1>9. QED
  BY <1>2, <1>8 DEF StringsIInv

\* The invariant that carries Records.StringsExact: a string counts the fields that hold
\* it and the strings it is a part of; the chains hold every string that a field holds,
\* under different texts; and a string that is in no chain is an extra part that was
\* lost to a string of its own bucket, which alone holds it (find_create_longstr,
\* dbdata.c:3092 and 3191-3193).
THEOREM StringsSound == Spec => []StringsIInv
<1>1. Init => StringsIInv
  BY LinksInitial, StringsInitial DEF StringsIInv
<1>2. StringsIInv /\ [Next]_vars => StringsIInv'
  BY StringsStep
<1>3. QED
  BY <1>1, <1>2, PTL DEF Spec

LEMMA ChainHolds ==
  ASSUME NEW x, NEW ch, NEW U, Chained(x, ch, U), NEW h \in Buckets
  PROVE  /\ Range(ch[h]) = {o \in U : Hash[x.str[o].text] = h}
         /\ Len(ch[h]) = Cardinality(Range(ch[h]))
<1> DEFINE s == ch[h]
           n == Len(s)
           T == Range(s)
<1>1. s \in Seq(Cells) /\ n \in Nat /\ DOMAIN s = 1..n /\ \A i \in 1..n : i \in Nat
  BY DEF Chained
<1>2. /\ \A i \in 1..n : s[i] \in U /\ Hash[x.str[s[i]].text] = h
      /\ \A i, j \in 1..n : s[i] = s[j] => i = j
  BY <1>1 DEF Chained
<1>3. \A o \in U : Hash[x.str[o].text] = h => \E i \in 1..n : s[i] = o
  BY DEF Chained
<1> HIDE DEF s
<1>4. T = {o \in U : Hash[x.str[o].text] = h}
  BY <1>1, <1>2, <1>3 DEF Range
<1>5. n = Cardinality(T)
  <2>1. IsFiniteSet(1..n) /\ Cardinality(1..n) = n
    <3>1. IsFiniteSet(1..n) /\ Cardinality(1..n) = IF 1 > n THEN 0 ELSE n - 1 + 1
      BY <1>1, FS_Interval
    <3>2. QED
      BY <1>1, <3>1
  <2>2. s \in [1..n -> T] /\ \A o \in T : \E i \in 1..n : s[i] = o
    BY <1>1 DEF Range
  <2> DEFINE S == 1..n
  <2>3. \A i, j \in S : s[i] = s[j] => i = j
    BY <1>2
  <2> HIDE DEF S, T
  <2>4. Cardinality(S) = Cardinality(T)
    BY <2>1, <2>2, <2>3, SameCardinality DEF S
  <2>5. QED
    BY <2>1, <2>4 DEF S
<1>6. QED
  BY <1>4, <1>5 DEF s

LEMMA StringsIInvExact ==
  ASSUME StringsIInv
  PROVE  StringsExact
<1> DEFINE E == FieldsOf(rec)
           H == HeldBy(rec, E)
           Used == InUse(Now)
           L == Listed(Now)
<1>1. /\ IsTable(rec) /\ CellsHeld(rec) /\ StringsOk(Now, H) /\ Now.str = str /\ Now.loose = loose
      /\ Now.bucket = bucket
  BY NowFacts DEF StringsIInv, LinksIInv, RecordsOk, HoldersOk
<1>2. Fields = E /\ E \subseteq AllFields
  BY DEF Fields, FieldsOf, AllFields, Exists
<1>3. /\ FreeOk(Now, H) /\ CountsOk(Now, H) /\ ExtrasOk(Now) /\ TextsOk(Now) /\ ChainsOk(Now)
      /\ LostOk(Now) /\ StrType(Now) /\ H \in [Cells -> Nat] /\ HeldListed(Now, H)
  BY <1>1 DEF StringsOk, TableOk
<1>4. \A o \in Cells : H[o] = Holders(Str(o))
  <2>1. \A o \in Cells : H[o] = Cardinality(HoldersIn(rec, E, o))
    BY <1>2, HeldType
  <2>2. QED
    BY <1>2, <2>1 DEF Holders, HoldersIn
<1>5. ASSUME NEW e \in Fields, Holds(rec[e[1]][e[2]], "str")
      PROVE  rec[e[1]][e[2]][2] \in L
  <2> DEFINE v == rec[e[1]][e[2]]
  <2>1. e \in E /\ IsValue(v) /\ InCells(v)
    BY <1>1, <1>2 DEF IsTable, CellsHeld
  <2>2. v = rec[e[1]][e[2]]
    OBVIOUS
  <2> HIDE DEF v, E
  <2>3. Holds(v, "str") => H[v[2]] > 0
    BY <1>2, <2>1, <2>2, HeldField
  <2>4. v[2] \in Cells /\ H[v[2]] > 0
    BY <1>5, <2>1, <2>2, <2>3 DEF InCells
  <2> HIDE DEF H
  <2>5. v[2] \in L
    BY <1>3, <2>4 DEF HeldListed
  <2>6. QED
    BY <2>2, <2>5
<1>6. DOMAIN bucket = Buckets
  BY <1>1, <1>3 DEF StrType
<1>7. L = UNION {Range(Chain(Now, h)) : h \in DOMAIN bucket} /\ L \subseteq Used /\ L \subseteq Cells
  <2>1. PICK ch : Chained(Now, ch, L)
    BY <1>3 DEF ChainsOk
  <2>2. \A h \in Buckets : Range(Chain(Now, h)) \subseteq Cells
    <3>1. \A h \in Buckets : Chain(Now, h) = ch[h] /\ Range(ch[h]) = {o \in L : Hash[Now.str[o].text] = h}
      BY <2>1, ChainIs, ChainHolds
    <3>2. QED
      BY <3>1 DEF Listed
  <2>3. L = UNION {Range(Chain(Now, h)) : h \in Buckets}
    BY <2>2 DEF Listed
  <2>4. L \subseteq Used
    BY <1>3, TextsKept DEF SameTexts
  <2>5. QED
    BY <1>6, <2>3, <2>4 DEF Listed
<1> HIDE DEF H, E, L
<1>8. ASSUME NEW o \in Used
      PROVE  /\ str[o].count = Holders(Str(o)) + Cardinality({p \in Used : str[p].extra = o})
             /\ str[o].count = 0 => o \in loose
             /\ str[o].extra # 0 => str[o].extra \in Used
  <2>1. o \in Cells
    BY DEF InUse
  <2>2. Owners(Now, o) = {p \in Used : str[p].extra = o}
    BY <1>1 DEF Owners
  <2>3. /\ str[o].count = H[o] + Cardinality(Owners(Now, o))
        /\ str[o].count = 0 => o \in loose
    BY <1>1, <1>3 DEF CountsOk
  <2>4. str[o].extra # 0 => str[o].extra \in Used
    BY <1>1, <1>3 DEF ExtrasOk, IsExtra
  <2>5. QED
    BY <1>4, <2>1, <2>2, <2>3, <2>4
<1>9. ASSUME NEW o \in Used, o \notin L
      PROVE  /\ str[o].count = 1
             /\ \E p \in L : str[p].extra = o /\ Hash[str[p].text] = Hash[str[o].text]
  <2>1. /\ o \in Cells /\ str[o].count = 1 /\ Extra[str[o].text] = NoText
        /\ \A p \in Owners(Now, o) : Hash[str[p].text] = Hash[str[o].text]
    <3>1. \A p \in InUse(Now) : Now.str[p] = str[p]
      BY <1>1
    <3>2. /\ Now.str[o].count = 1 /\ Extra[Now.str[o].text] = NoText
          /\ \A p \in Owners(Now, o) : Hash[Now.str[p].text] = Hash[Now.str[o].text]
      BY <1>3, <1>9 DEF LostOk, L
    <3>3. QED
      BY <1>1, <3>2 DEF InUse
  <2>2. H[o] = 0
    <3>1. H[o] \in Nat /\ ~ (H[o] > 0)
      BY <1>3, <1>9, <2>1 DEF HeldListed, L
    <3>2. QED
      BY <3>1
  <2>3. Cardinality(Owners(Now, o)) = 1
    <3>1. str[o].count = H[o] + Cardinality(Owners(Now, o)) /\ Cardinality(Owners(Now, o)) \in Nat
      BY <1>1, <1>3, OwnersFinite DEF CountsOk
    <3>2. QED
      BY <2>1, <2>2, <3>1
  <2>4. PICK p \in Owners(Now, o) : TRUE
    BY <2>3, FS_EmptySet
  <2>5. p \in Used /\ str[p].extra = o
    BY <1>1, <2>4 DEF Owners
  <2>6. p \in L
    <3>1. IsExtra(Now, str[p].text, o) /\ o # 0
      BY <1>1, <1>3, <2>1, <2>5, RecordsAssumption DEF ExtrasOk
    <3>2. Extra[str[p].text] # NoText
      BY <3>1 DEF IsExtra
    <3>3. QED
      BY <1>1, <1>3, <2>5, <3>2 DEF LostOk, L
  <2>7. QED
    BY <2>1, <2>4, <2>5, <2>6
<1>10. ASSUME NEW o \in L, NEW p \in L, str[o].text = str[p].text
       PROVE  o = p
  BY <1>1, <1>3, <1>10 DEF TextsOk, L
<1>11. ASSUME NEW h \in DOMAIN bucket
       PROVE  /\ \A o \in Range(Chain(Now, h)) : o \in Used /\ Hash[str[o].text] = h
              /\ Len(Chain(Now, h)) = Cardinality(Range(Chain(Now, h)))
  <2>1. h \in Buckets
    BY <1>6
  <2>2. PICK ch : Chained(Now, ch, L)
    BY <1>3 DEF ChainsOk, L
  <2>3. Chain(Now, h) = ch[h]
    BY <2>1, <2>2, ChainIs
  <2>4. /\ Range(ch[h]) = {o \in L : Hash[Now.str[o].text] = h}
        /\ Len(ch[h]) = Cardinality(Range(ch[h]))
    BY <2>1, <2>2, ChainHolds
  <2>5. QED
    BY <1>1, <1>7, <2>3, <2>4
<1> HIDE DEF Used
<1>12. QED
  BY <1>5, <1>7, <1>8, <1>9, <1>10, <1>11 DEF StringsExact, Used

\* Whatever is encoded, stored, changed and deleted: a string counts exactly what holds
\* it, is freed with the last of them, and is found through its bucket until then, its
\* text no second time.  The exception is an extra part that find_create_longstr lost
\* from the chain to the string that it was encoded for: only that string has it.
THEOREM StringTableExact == Spec => []StringsExact
  BY StringsSound, StringsIInvExact, PTL
=============================================================================
