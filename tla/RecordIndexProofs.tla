-------------------------- MODULE RecordIndexProofs --------------------------
(***************************************************************************)
(* Proofs about the index entries of Records: until the application stores *)
(* a link without care (CarefulLink), every set field has exactly one row  *)
(* in its index, under the key that it has now, and no call fails.         *)
(*                                                                         *)
(* The key of a field depends on the records below it, to the depth of the *)
(* comparison.  The argument: records form a forest, so every ancestor is  *)
(* reached in one way and no field is taken out or put back twice; what is *)
(* taken out is there; a field that is not an ancestor of the changed one, *)
(* to that depth, keeps its key; and the ancestors are the same before and *)
(* after the change.                                                       *)
(***************************************************************************)
EXTENDS RecordsProofs

-----------------------------------------------------------------------------
\* Who reaches whom.

\* e is a field that holds the record q.
HoldsLink(f, e, q) == e \in FieldsOf(f) /\ f[e[1]][e[2]] = Link(q)

Closed(f, S) == \A e, q : HoldsLink(f, e, q) /\ e[1] \in S => q \in S

LEMMA HoldsLinkType ==
  ASSUME NEW f, IsTable(f), NEW e, NEW q, HoldsLink(f, e, q)
  PROVE  /\ e \in AllFields /\ e[1] \in Ids /\ e[2] \in Columns /\ q \in Ids
         /\ e = <<e[1], e[2]>> /\ f[e[1]] # <<>>
<1>1. /\ e \in AllFields /\ f[e[1]] # <<>> /\ f[e[1]][e[2]] = Link(q) /\ IsValue(Link(q))
  BY DEF HoldsLink, FieldsOf, IsTable
<1>2. q \in Ids
  BY <1>1, ValueKinds, ValueFacts
<1>3. e[1] \in Ids /\ e[2] \in Columns /\ e = <<e[1], e[2]>>
  BY <1>1 DEF AllFields
<1>4. QED
  BY <1>1, <1>2, <1>3

LEMMA ReachesIs ==
  ASSUME NEW f, IsTable(f), NEW p, NEW q
  PROVE  Reaches(f, p, q) <=> \A S \in SUBSET Ids : p \in S /\ Closed(f, S) => q \in S
<1> DEFINE Keeps(S) == \A o \in S : \A c \in DOMAIN f[o] : Holds(f[o][c], "rec") => f[o][c][2] \in S
<1>1. ASSUME NEW S \in SUBSET Ids
      PROVE  Closed(f, S) <=> Keeps(S)
  <2>1. ASSUME Closed(f, S), NEW o \in S, NEW c \in DOMAIN f[o], Holds(f[o][c], "rec")
        PROVE  f[o][c][2] \in S
    <3>1. f[o] # <<>> /\ c \in Columns
      BY <2>1 DEF IsTable
    <3>2. <<o, c>> \in FieldsOf(f)
      BY <3>1, FieldsOfFacts
    <3>3. IsValue(f[o][c])
      BY <3>2 DEF IsTable
    <3>4. f[o][c] = Link(f[o][c][2])
      BY <2>1, <3>3, ValueKinds
    <3>5. HoldsLink(f, <<o, c>>, f[o][c][2])
      BY <3>2, <3>4 DEF HoldsLink
    <3>6. QED
      BY <2>1, <3>5 DEF Closed
  <2>2. ASSUME Keeps(S), NEW e, NEW w, HoldsLink(f, e, w), e[1] \in S
        PROVE  w \in S
    <3>1. f[e[1]] # <<>> /\ e[1] \in Ids /\ e[2] \in Columns /\ f[e[1]][e[2]] = Link(w)
      BY <2>2, HoldsLinkType DEF HoldsLink
    <3>2. e[2] \in DOMAIN f[e[1]]
      BY <3>1 DEF IsTable
    <3>3. Holds(f[e[1]][e[2]], "rec") /\ f[e[1]][e[2]][2] = w
      BY <3>1, ValueFacts
    <3>4. QED
      BY <2>2, <3>2, <3>3
  <2>3. QED
    BY <2>1, <2>2 DEF Closed
<1>2. QED
  BY <1>1 DEF Reaches

LEMMA ReachSelf ==
  ASSUME NEW f, NEW p
  PROVE  Reaches(f, p, p)
BY DEF Reaches

LEMMA ReachFurther ==
  ASSUME NEW f, IsTable(f), NEW p, NEW q, NEW z, Reaches(f, p, q), Reaches(f, q, z)
  PROVE  Reaches(f, p, z)
BY ReachesIs

LEMMA ReachHeld ==
  ASSUME NEW f, IsTable(f), NEW e, NEW q, HoldsLink(f, e, q)
  PROVE  Reaches(f, e[1], q)
BY ReachesIs DEF Closed

LEMMA LinkFrom ==
  ASSUME NEW f, IsTable(f), NEW p, NEW c, NEW q, HoldsLink(f, <<p, c>>, q)
  PROVE  p \in Ids /\ c \in Columns /\ q \in Ids /\ Reaches(f, p, q)
<1> DEFINE e == <<p, c>>
<1>1. e[1] = p /\ e[2] = c /\ HoldsLink(f, e, q)
  OBVIOUS
<1> HIDE DEF e
<1>2. QED
  BY <1>1, HoldsLinkType, ReachHeld

\* What p reaches, but itself, it reaches through a record that it holds.
LEMMA ReachFirst ==
  ASSUME NEW f, IsTable(f), NEW p \in Ids, NEW q, Reaches(f, p, q), p # q
  PROVE  \E e, w : HoldsLink(f, e, w) /\ e[1] = p /\ Reaches(f, w, q)
<1> DEFINE S == {z \in Ids : z = p \/ \E e, w : HoldsLink(f, e, w) /\ e[1] = p /\ Reaches(f, w, z)}
<1>1. Closed(f, S)
  <2> SUFFICES ASSUME NEW e, NEW w, HoldsLink(f, e, w), e[1] \in S PROVE w \in S
    BY DEF Closed
  <2>1. w \in Ids
    BY HoldsLinkType
  <2>2. CASE e[1] = p
    BY <2>1, <2>2, ReachSelf
  <2>3. CASE e[1] # p
    <3>1. PICK d, u : HoldsLink(f, d, u) /\ d[1] = p /\ Reaches(f, u, e[1])
      BY <2>3
    <3>2. Reaches(f, e[1], w)
      BY ReachHeld
    <3>3. Reaches(f, u, w)
      BY <3>1, <3>2, ReachFurther
    <3>4. QED
      BY <2>1, <3>1, <3>3
  <2>4. QED
    BY <2>2, <2>3
<1>2. q \in S
  <2>1. S \in SUBSET Ids /\ p \in S
    OBVIOUS
  <2> HIDE DEF S
  <2>2. QED
    BY <1>1, <2>1, ReachesIs
<1>3. QED
  BY <1>2

\* Fewer links.
Fewer(f, g) == \A e, q : HoldsLink(g, e, q) => HoldsLink(f, e, q)

LEMMA ReachFewer ==
  ASSUME NEW f, IsTable(f), NEW g, IsTable(g), Fewer(f, g), NEW p, NEW q, Reaches(g, p, q)
  PROVE  Reaches(f, p, q)
<1>1. \A S : Closed(f, S) => Closed(g, S)
  BY DEF Closed, Fewer
<1>2. QED
  BY <1>1, ReachesIs

\* One link more, from r to w.
OneMore(f, g, d, w) == \A e, q : HoldsLink(g, e, q) <=> HoldsLink(f, e, q) \/ (e = d /\ q = w)

LEMMA ReachMore ==
  ASSUME NEW f, IsTable(f), NEW g, IsTable(g), NEW d, NEW w, OneMore(f, g, d, w),
         NEW p \in Ids, NEW q, Reaches(g, p, q)
  PROVE  Reaches(f, p, q) \/ (Reaches(f, p, d[1]) /\ Reaches(f, w, q))
<1> DEFINE S == {z \in Ids : Reaches(f, p, z) \/ (Reaches(f, p, d[1]) /\ Reaches(f, w, z))}
<1>1. Closed(g, S)
  <2> SUFFICES ASSUME NEW e, NEW u, HoldsLink(g, e, u), e[1] \in S PROVE u \in S
    BY DEF Closed
  <2>1. u \in Ids
    BY HoldsLinkType
  <2>2. CASE HoldsLink(f, e, u)
    <3>1. Reaches(f, e[1], u)
      BY <2>2, ReachHeld
    <3>2. QED
      BY <2>1, <3>1, ReachFurther
  <2>3. CASE e = d /\ u = w
    <3>1. Reaches(f, p, d[1])
      BY <2>3
    <3>2. QED
      BY <2>1, <2>3, <3>1, ReachSelf
  <2>4. QED
    BY <2>2, <2>3 DEF OneMore
<1>2. S \in SUBSET Ids /\ p \in S
  BY ReachSelf
<1>3. q \in S
  <2> HIDE DEF S
  <2>1. QED
    BY <1>1, <1>2, ReachesIs
<1>4. QED
  BY <1>3

\* No record reaches another one, or itself, in two ways.
Tree(f) ==
  \A e, q : HoldsLink(f, e, q) =>
    /\ ~ Reaches(f, q, e[1])
    /\ \A d : \A p \in Ids :
         HoldsLink(f, d, q) /\ Reaches(f, p, e[1]) /\ Reaches(f, p, d[1]) => d = e

LEMMA TreeFewer ==
  ASSUME NEW f, IsTable(f), NEW g, IsTable(g), Fewer(f, g), Tree(f)
  PROVE  Tree(g)
<1>1. ASSUME NEW e, NEW q, HoldsLink(g, e, q)
      PROVE  ~ Reaches(g, q, e[1])
  BY <1>1, ReachFewer DEF Tree, Fewer
<1>2. ASSUME NEW e, NEW q, HoldsLink(g, e, q), NEW d, NEW p \in Ids, HoldsLink(g, d, q),
             Reaches(g, p, e[1]), Reaches(g, p, d[1])
      PROVE  d = e
  <2>1. HoldsLink(f, e, q) /\ HoldsLink(f, d, q) /\ Reaches(f, p, e[1]) /\ Reaches(f, p, d[1])
    BY <1>2, ReachFewer DEF Fewer
  <2>2. QED
    BY <2>1 DEF Tree
<1>3. QED
  BY <1>1, <1>2 DEF Tree

\* What CarefulLink asks of a careful application: nothing above r reaches what is below w.
Apart(f, r, w) ==
  \A p, q \in Ids : Reaches(f, p, r) /\ Reaches(f, w, q) => ~ Reaches(f, p, q)

LEMMA TreeMore ==
  ASSUME NEW f, IsTable(f), NEW g, IsTable(g), NEW d0, NEW w \in Ids, OneMore(f, g, d0, w),
         d0[1] \in Ids, Tree(f), Apart(f, d0[1], w)
  PROVE  Tree(g)
<1> DEFINE r == d0[1]
<1>1. ASSUME NEW p \in Ids, NEW q, Reaches(g, p, q)
      PROVE  Reaches(f, p, q) \/ (Reaches(f, p, r) /\ Reaches(f, w, q))
  BY <1>1, ReachMore
<1>2. ~ Reaches(f, w, r)
  BY ReachSelf DEF Apart
<1>3. ASSUME NEW e, NEW q, HoldsLink(f, e, q)
      PROVE  e[1] \in Ids /\ q \in Ids /\ Reaches(f, e[1], q)
  BY <1>3, HoldsLinkType, ReachHeld
<1>4. ASSUME NEW e, NEW q, HoldsLink(f, e, q), Reaches(f, w, e[1])
      PROVE  Reaches(f, w, q) /\ q # w
  <2>1. Reaches(f, w, q)
    BY <1>3, <1>4, ReachFurther
  <2>2. q # w
    BY <1>4 DEF Tree
  <2>3. QED
    BY <2>1, <2>2
<1>5. ASSUME NEW e, NEW q, HoldsLink(g, e, q), Reaches(g, q, e[1])
      PROVE  FALSE
  <2>1. CASE HoldsLink(f, e, q)
    <3>1. q \in Ids /\ ~ Reaches(f, q, e[1])
      BY <1>3, <2>1 DEF Tree
    <3>2. Reaches(f, q, r) /\ Reaches(f, w, e[1])
      BY <1>1, <1>5, <3>1
    <3>3. Reaches(f, w, q)
      BY <1>4, <2>1, <3>2
    <3>4. QED
      BY <3>1, <3>2, <3>3, ReachSelf DEF Apart
  <2>2. CASE e = d0 /\ q = w
    BY <1>1, <1>2, <1>5, <2>2
  <2>3. QED
    BY <1>5, <2>1, <2>2 DEF OneMore
\* An old field d and the new one.
<1>6. ASSUME NEW d, HoldsLink(f, d, w), NEW p \in Ids, Reaches(g, p, r), Reaches(g, p, d[1])
      PROVE  FALSE
  <2>1. d[1] \in Ids /\ Reaches(f, d[1], w) /\ ~ Reaches(f, w, d[1])
    BY <1>3, <1>6 DEF Tree
  <2>3. Reaches(f, p, r) /\ Reaches(f, p, d[1])
    BY <1>1, <1>6, <2>1
  <2>4. Reaches(f, p, w)
    BY <2>1, <2>3, ReachFurther
  <2>5. QED
    BY <1>6, <2>3, <2>4, ReachSelf DEF Apart
<1>7. ASSUME NEW e, NEW q, HoldsLink(f, e, q), NEW d, HoldsLink(f, d, q), NEW p \in Ids,
             Reaches(f, p, e[1]), Reaches(f, p, r), Reaches(f, w, d[1])
      PROVE  FALSE
  <2>1. Reaches(f, p, q) /\ Reaches(f, w, q) /\ q \in Ids
    BY <1>3, <1>4, <1>7, ReachFurther
  <2>2. QED
    BY <1>7, <2>1 DEF Apart
<1>8. ASSUME NEW e, NEW q, HoldsLink(g, e, q), NEW d, HoldsLink(g, d, q), NEW p \in Ids,
             Reaches(g, p, e[1]), Reaches(g, p, d[1])
      PROVE  d = e
  <2>1. CASE HoldsLink(f, e, q) /\ HoldsLink(f, d, q)
    <3>1. Reaches(f, p, e[1]) \/ (Reaches(f, p, r) /\ Reaches(f, w, e[1]))
      BY <1>1, <1>8
    <3>2. Reaches(f, p, d[1]) \/ (Reaches(f, p, r) /\ Reaches(f, w, d[1]))
      BY <1>1, <1>8
    <3>3. CASE Reaches(f, p, e[1]) /\ Reaches(f, p, d[1])
      BY <1>8, <2>1, <3>3 DEF Tree
    <3>4. CASE Reaches(f, w, e[1]) /\ Reaches(f, w, d[1])
      BY <2>1, <3>4 DEF Tree
    <3>5. QED
      BY <1>7, <1>8, <2>1, <3>1, <3>2, <3>3, <3>4
  <2>2. CASE HoldsLink(f, d, q) /\ e = d0 /\ q = w
    BY <1>6, <1>8, <2>2
  <2>3. CASE HoldsLink(f, e, q) /\ d = d0 /\ q = w
    BY <1>6, <1>8, <2>3
  <2>4. QED
    BY <1>8, <2>1, <2>2, <2>3 DEF OneMore
<1>9. QED
  BY <1>5, <1>8 DEF Tree

-----------------------------------------------------------------------------
\* What is in a sequence, and whether it is there once.

Once(s) == \A i, j \in DOMAIN s : s[i] = s[j] => i = j

LEMMA ConcatFacts ==
  ASSUME NEW S, NEW s \in Seq(S), NEW t \in Seq(S)
  PROVE  /\ s \o t \in Seq(S)
         /\ Range(s \o t) = Range(s) \cup Range(t)
         /\ Once(s) /\ Once(t) /\ Range(s) \cap Range(t) = {} => Once(s \o t)
<1> DEFINE u == s \o t
           m == Len(s)
           n == Len(t)
<1>1. /\ u \in Seq(S) /\ m \in Nat /\ n \in Nat
      /\ DOMAIN s = 1..m /\ DOMAIN t = 1..n /\ DOMAIN u = 1..(m + n)
      /\ \A i \in 1..(m + n) : u[i] = IF i <= m THEN s[i] ELSE t[i - m]
  <2>1. u \in Seq(S) /\ Len(u) = m + n /\ \A i \in 1..(m + n) : u[i] = IF i <= m THEN s[i] ELSE t[i - m]
    BY ConcatProperties
  <2> HIDE DEF u
  <2>2. DOMAIN u = 1..(m + n)
    BY <2>1
  <2>3. QED
    BY <2>1, <2>2
<1> HIDE DEF u, m, n
<1>2. \A i \in 1..m : i \in 1..(m + n) /\ u[i] = s[i]
  BY <1>1
<1>3. \A i \in 1..n : i + m \in 1..(m + n) /\ u[i + m] = t[i]
  BY <1>1
<1>4. \A i \in 1..(m + n) : (i \in 1..m /\ u[i] = s[i]) \/ (i - m \in 1..n /\ u[i] = t[i - m] /\ ~ (i <= m))
  BY <1>1
<1>5. Range(u) = Range(s) \cup Range(t)
  <2>1. \A a \in Range(u) : a \in Range(s) \cup Range(t)
    BY <1>1, <1>4 DEF Range
  <2>2. \A a \in Range(s) : a \in Range(u)
    BY <1>1, <1>2 DEF Range
  <2>3. \A a \in Range(t) : a \in Range(u)
    BY <1>1, <1>3 DEF Range
  <2>4. QED
    BY <2>1, <2>2, <2>3
<1>6. ASSUME Once(s), Once(t), Range(s) \cap Range(t) = {}
      PROVE  Once(u)
  <2> SUFFICES ASSUME NEW i \in 1..(m + n), NEW j \in 1..(m + n), u[i] = u[j]
               PROVE  i = j
    BY <1>1 DEF Once
  <2>1. \A a \in 1..m, b \in 1..n : s[a] # t[b]
    <3>1. \A a \in 1..m : s[a] \in Range(s)
      BY <1>1 DEF Range
    <3>2. \A b \in 1..n : t[b] \in Range(t)
      BY <1>1 DEF Range
    <3>3. QED
      BY <1>6, <3>1, <3>2
  <2>2. \/ i \in 1..m /\ j \in 1..m /\ s[i] = s[j]
        \/ i - m \in 1..n /\ j - m \in 1..n /\ t[i - m] = t[j - m]
    BY <1>4, <2>1
  <2>3. CASE i \in 1..m /\ j \in 1..m /\ s[i] = s[j]
    BY <1>1, <1>6, <2>3 DEF Once
  <2>4. CASE i - m \in 1..n /\ j - m \in 1..n /\ t[i - m] = t[j - m]
    <3>1. i - m = j - m
      BY <1>1, <1>6, <2>4 DEF Once
    <3>2. QED
      BY <1>1, <3>1
  <2>5. QED
    BY <2>2, <2>3, <2>4
<1>7. QED
  BY <1>1, <1>5, <1>6 DEF u

\* A flattened sequence has what its parts have, and once if the parts share nothing.
LEMMA FlattenFacts ==
  ASSUME NEW S, NEW ss \in Seq(Seq(S))
  PROVE  /\ \A a : a \in Range(FlattenSeq(ss)) <=> \E k \in DOMAIN ss : a \in Range(ss[k])
         /\ /\ \A k \in DOMAIN ss : Once(ss[k])
            /\ \A j, k \in DOMAIN ss : j # k => Range(ss[j]) \cap Range(ss[k]) = {}
            => Once(FlattenSeq(ss))
<1> DEFINE n == Len(ss)
           parts == /\ \A k \in DOMAIN ss : Once(ss[k])
                    /\ \A j, k \in DOMAIN ss : j # k => Range(ss[j]) \cap Range(ss[k]) = {}
<1>1. n \in Nat /\ DOMAIN ss = 1..n /\ \A k \in 1..n : ss[k] \in Seq(S)
  OBVIOUS
<1>2. CASE n = 0
  <2>1. ss = <<>>
    BY <1>2
  <2>2. FlattenSeq(ss) = ss
    BY <1>2 DEF FlattenSeq
  <2>3. DOMAIN ss = {}
    BY <1>1, <1>2
  <2>4. QED
    BY <2>2, <2>3 DEF Range, Once
<1>3. CASE n # 0
  <2>1. n \in Nat \ {0}
    BY <1>1, <1>3
  <2>2. PICK at : /\ at[1] = ss[1] /\ FlattenSeq(ss) = at[n]
                  /\ \A k \in 2..n : at[k] = at[k - 1] \o ss[k]
    BY <2>1, FlattenSteps
  <2> HIDE DEF n
  <2> DEFINE Good(k) == /\ at[k] \in Seq(S)
                        /\ \A a : a \in Range(at[k]) <=> \E j \in 1..k : a \in Range(ss[j])
                        /\ parts => Once(at[k])
             T == {k \in 1..n : ~ Good(k)}
  <2>3. T = {}
    <3> SUFFICES ASSUME T # {} PROVE FALSE
      OBVIOUS
    <3>1. PICK k \in T : \A j \in T : k <= j
      <4>1. T \subseteq Nat
        BY <2>1
      <4> HIDE DEF T
      <4>2. QED
        BY <4>1, LeastElement
    <3>2. k \in 1..n /\ ~ Good(k)
      OBVIOUS
    <3> HIDE DEF parts
    <3>3. k # 1
      <4> SUFFICES ASSUME k = 1 PROVE FALSE
        OBVIOUS
      <4>1. at[1] = ss[1] /\ ss[1] \in Seq(S)
        BY <1>1, <2>1, <2>2
      <4>2. \A a : a \in Range(at[1]) <=> \E j \in 1..1 : a \in Range(ss[j])
        BY <4>1
      <4>3. parts => Once(at[1])
        BY <1>1, <2>1, <4>1 DEF parts
      <4>4. QED
        BY <3>2, <4>1, <4>2, <4>3
    <3>4. k \in 2..n /\ k - 1 \in 1..n /\ ~ (k <= k - 1)
      BY <2>1, <3>2, <3>3
    <3>5. Good(k - 1)
      BY <3>1, <3>4
    <3> DEFINE s == at[k - 1]
               t == ss[k]
    <3>6. at[k] = s \o t /\ s \in Seq(S) /\ t \in Seq(S)
      BY <1>1, <2>2, <3>2, <3>4, <3>5
    <3>7. \A a : a \in Range(s) <=> \E j \in 1..(k - 1) : a \in Range(ss[j])
      BY <3>5
    <3>8. parts => Once(s)
      BY <3>5
    <3> HIDE DEF s
    <3>9. at[k] \in Seq(S) /\ Range(at[k]) = Range(s) \cup Range(t)
      BY <3>6, ConcatFacts
    <3>10. \A j : j \in 1..k <=> j \in 1..(k - 1) \/ j = k
      BY <2>1, <3>4
    <3>11. \A a : a \in Range(at[k]) <=> \E j \in 1..k : a \in Range(ss[j])
      BY <3>7, <3>9, <3>10
    <3>12. ASSUME parts
           PROVE  Once(at[k])
      <4>1. Once(s) /\ Once(t)
        BY <1>1, <3>2, <3>8, <3>12 DEF parts
      <4>2. \A j \in 1..(k - 1) : j \in DOMAIN ss /\ j # k
        BY <1>1, <2>1, <3>4
      <4>3. \A j \in 1..(k - 1) : Range(ss[j]) \cap Range(t) = {}
        BY <1>1, <3>2, <3>12, <4>2 DEF parts
      <4>4. Range(s) \cap Range(t) = {}
        BY <3>7, <4>3
      <4>5. QED
        BY <3>6, <4>1, <4>4, ConcatFacts
    <3>13. QED
      BY <3>2, <3>9, <3>11, <3>12
  <2>4. Good(n)
    <3>1. n \in 1..n
      BY <2>1
    <3> HIDE DEF Good
    <3>2. QED
      BY <2>3, <3>1
  <2>5. /\ \A a : a \in Range(at[n]) <=> \E j \in 1..n : a \in Range(ss[j])
        /\ parts => Once(at[n])
    BY <2>4
  <2>6. DOMAIN ss = 1..n /\ FlattenSeq(ss) = at[n]
    BY <1>1, <2>2 DEF n
  <2> HIDE DEF T, Good
  <2>7. QED
    BY <2>5, <2>6
<1>4. QED
  BY <1>2, <1>3

-----------------------------------------------------------------------------
\* The ancestors that Above lists.

\* The ancestors of q to the depth d, from those of its parents.
Level(x, above, d, q) ==
  /\ above[d][q] \in Seq(Ids \X Ids)
  /\ d = 0 => above[d][q] = <<>>
  /\ d > 0 =>
       \A t : t \in Range(above[d][q]) <=>
         \E p \in Range(x.links[q]) : t = <<p, q>> \/ t \in Range(above[d - 1][p])

\* The parents of q are different, and share no ancestors in g, nor have q among them.
Sparse(x, g, q) ==
  /\ Once(x.links[q])
  /\ \A p \in Range(x.links[q]) : Once(g[p])
  /\ \A p, u \in Range(x.links[q]) : <<p, q>> \notin Range(g[u])
  /\ \A p, u \in Range(x.links[q]) : p # u => Range(g[p]) \cap Range(g[u]) = {}

LEMMA ParentsFlattened ==
  ASSUME NEW x, x.links \in [Ids -> Seq(Ids)], NEW q \in Ids, NEW g,
         \A p \in Ids : g[p] \in Seq(Ids \X Ids)
  PROVE  LET all == FlattenSeq([i \in DOMAIN x.links[q] |-> <<<<x.links[q][i], q>>>> \o g[x.links[q][i]]])
         IN /\ all \in Seq(Ids \X Ids)
            /\ \A t : t \in Range(all) <=>
                 \E p \in Range(x.links[q]) : t = <<p, q>> \/ t \in Range(g[p])
            /\ Sparse(x, g, q) => Once(all)
<1> DEFINE l == x.links[q]
           S == Ids \X Ids
           Part(p) == <<<<p, q>>>> \o g[p]
           ss == [i \in DOMAIN l |-> Part(l[i])]
<1>1. l \in Seq(Ids)
  OBVIOUS
<1>2. ss = [i \in DOMAIN x.links[q] |-> <<<<x.links[q][i], q>>>> \o g[x.links[q][i]]]
  OBVIOUS
<1> HIDE DEF l
<1>3. DOMAIN l = 1..Len(l) /\ Len(l) \in Nat /\ \A i \in DOMAIN l : l[i] \in Ids
  BY <1>1
<1>4. Range(l) \subseteq Ids
  BY <1>3 DEF Range
<1>5. ASSUME NEW p \in Ids
      PROVE  /\ Part(p) \in Seq(S)
             /\ \A t : t \in Range(Part(p)) <=> t = <<p, q>> \/ t \in Range(g[p])
             /\ Once(g[p]) /\ <<p, q>> \notin Range(g[p]) => Once(Part(p))
  <2> DEFINE s == <<<<p, q>>>>
  <2>1. s \in Seq(S) /\ g[p] \in Seq(S)
    OBVIOUS
  <2>2. Range(s) = {<<p, q>>} /\ Once(s)
    <3>1. DOMAIN s = {1} /\ s[1] = <<p, q>>
      OBVIOUS
    <3> HIDE DEF s
    <3>2. QED
      BY <3>1 DEF Range, Once
  <2> HIDE DEF S, s
  <2> DEFINE u == g[p]
  <2>3. u \in Seq(S)
    BY <2>1
  <2> HIDE DEF u
  <2>4. /\ s \o u \in Seq(S) /\ Range(s \o u) = Range(s) \cup Range(u)
        /\ Once(s) /\ Once(u) /\ Range(s) \cap Range(u) = {} => Once(s \o u)
    BY <2>1, <2>3, ConcatFacts
  <2>5. Part(p) = s \o u
    BY DEF s, u
  <2>6. <<p, q>> \notin Range(u) => Range(s) \cap Range(u) = {}
    BY <2>2
  <2> HIDE DEF Part
  <2>7. QED
    BY <2>2, <2>4, <2>5, <2>6 DEF u
<1> HIDE DEF S, Part
<1>6. \A i \in DOMAIN l : ss[i] \in Seq(S)
  BY <1>3, <1>5
<1>7. ss \in Seq(Seq(S)) /\ DOMAIN ss = DOMAIN l /\ \A i \in DOMAIN l : ss[i] = Part(l[i])
  BY <1>3, <1>6, IsASeq
<1> HIDE DEF ss
<1> DEFINE all == FlattenSeq(ss)
<1>8. all \in Seq(S)
  BY <1>7, FlattenType
<1>9. /\ \A t : t \in Range(all) <=> \E i \in DOMAIN l : t \in Range(Part(l[i]))
      /\ /\ \A i \in DOMAIN l : Once(Part(l[i]))
         /\ \A i, j \in DOMAIN l : i # j => Range(Part(l[i])) \cap Range(Part(l[j])) = {}
         => Once(all)
  <2>1. /\ \A t : t \in Range(all) <=> \E i \in DOMAIN ss : t \in Range(ss[i])
        /\ /\ \A i \in DOMAIN ss : Once(ss[i])
           /\ \A i, j \in DOMAIN ss : i # j => Range(ss[i]) \cap Range(ss[j]) = {}
           => Once(all)
    BY <1>7, FlattenFacts
  <2> HIDE DEF all
  <2>2. QED
    BY <1>7, <2>1
<1> HIDE DEF all
<1>10. \A t : t \in Range(all) <=> \E p \in Range(l) : t = <<p, q>> \/ t \in Range(g[p])
  <2>1. \A p : p \in Range(l) <=> \E i \in DOMAIN l : p = l[i]
    BY DEF Range
  <2>2. QED
    BY <1>3, <1>5, <1>9, <2>1
<1>11. ASSUME Sparse(x, g, q)
       PROVE  Once(all)
  <2>1. /\ Once(l) /\ \A p \in Range(l) : Once(g[p])
        /\ \A p, u \in Range(l) : <<p, q>> \notin Range(g[u])
        /\ \A p, u \in Range(l) : p # u => Range(g[p]) \cap Range(g[u]) = {}
    BY <1>11 DEF Sparse, l
  <2>2. \A i \in DOMAIN l : l[i] \in Range(l)
    BY DEF Range
  <2>3. \A i \in DOMAIN l : Once(Part(l[i]))
    BY <1>3, <1>5, <2>1, <2>2
  <2>4. ASSUME NEW i \in DOMAIN l, NEW j \in DOMAIN l, i # j
        PROVE  Range(Part(l[i])) \cap Range(Part(l[j])) = {}
    <3>1. l[i] # l[j]
      BY <2>1, <2>4 DEF Once
    <3>2. \A t : t \in Range(Part(l[i])) <=> t = <<l[i], q>> \/ t \in Range(g[l[i]])
      BY <1>3, <1>5
    <3>3. \A t : t \in Range(Part(l[j])) <=> t = <<l[j], q>> \/ t \in Range(g[l[j]])
      BY <1>3, <1>5
    <3>4. Range(g[l[i]]) \cap Range(g[l[j]]) = {}
      BY <2>1, <2>2, <3>1
    <3>5. <<l[i], q>> # <<l[j], q>> /\ <<l[i], q>> \notin Range(g[l[j]]) /\ <<l[j], q>> \notin Range(g[l[i]])
      BY <2>1, <2>2, <3>1
    <3>6. QED
      BY <3>2, <3>3, <3>4, <3>5
  <2>5. QED
    BY <1>9, <2>3, <2>4
<1>12. QED
  BY <1>2, <1>8, <1>10, <1>11 DEF all, S, l

LEMMA AboveLevel ==
  ASSUME NEW x, x.links \in [Ids -> Seq(Ids)], NEW r \in Ids, NEW above, AboveLevels(x, r, above)
  PROVE  \A d \in 0..Depth, q \in Ids :
           /\ Level(x, above, d, q)
           /\ d > 0 => (Sparse(x, above[d - 1], q) => Once(above[d][q]))
<1> DEFINE E(g, q) == FlattenSeq([i \in DOMAIN x.links[q] |-> <<<<x.links[q][i], q>>>> \o g[x.links[q][i]]])
           Good(d) == \A q \in Ids :
                        /\ Level(x, above, d, q)
                        /\ d > 0 => (Sparse(x, above[d - 1], q) => Once(above[d][q]))
           T == {d \in 0..Depth : ~ Good(d)}
<1>1. Depth \in Nat
  BY RecordsAssumption
<1>2. \A d \in 0..Depth, q \in Ids : above[d][q] = IF d = 0 THEN <<>> ELSE E(above[d - 1], q)
  BY DEF AboveLevels
<1>3. ASSUME NEW g, NEW q \in Ids, \A p \in Ids : g[p] \in Seq(Ids \X Ids)
      PROVE  /\ E(g, q) \in Seq(Ids \X Ids)
             /\ \A t : t \in Range(E(g, q)) <=>
                  \E p \in Range(x.links[q]) : t = <<p, q>> \/ t \in Range(g[p])
             /\ Sparse(x, g, q) => Once(E(g, q))
  BY <1>3, ParentsFlattened
<1> HIDE DEF E
<1>4. T = {}
  <2> SUFFICES ASSUME T # {} PROVE FALSE
    OBVIOUS
  <2>1. PICK d \in T : \A e \in T : d <= e
    <3>1. T \subseteq Nat
      BY <1>1
    <3> HIDE DEF T
    <3>2. QED
      BY <3>1, LeastElement
  <2>2. d \in 0..Depth /\ ~ Good(d)
    OBVIOUS
  <2>3. CASE d = 0
    <3>1. \A q \in Ids : above[d][q] = <<>>
      BY <1>2, <2>2, <2>3
    <3>2. \A q \in Ids : Level(x, above, d, q)
      <4>1. <<>> \in Seq(Ids \X Ids) /\ ~ (d > 0)
        BY <2>3
      <4>2. QED
        BY <2>3, <3>1, <4>1, Zenon DEF Level
    <3>3. ~ (d > 0)
      BY <2>3
    <3>4. Good(d)
      BY <3>2, <3>3
    <3>5. QED
      BY <2>2, <3>4
  <2>4. CASE d # 0
    <3>1. d > 0 /\ d - 1 \in 0..Depth /\ ~ (d <= d - 1)
      BY <1>1, <2>2, <2>4
    <3>2. Good(d - 1)
      BY <2>1, <3>1
    <3> DEFINE g == above[d - 1]
    <3>3. \A p \in Ids : g[p] \in Seq(Ids \X Ids)
      BY <3>2 DEF Level
    <3>4. \A q \in Ids : above[d][q] = E(g, q)
      BY <1>2, <2>2, <2>4
    <3>5. ASSUME NEW q \in Ids
          PROVE  Level(x, above, d, q) /\ (Sparse(x, g, q) => Once(above[d][q]))
      <4> HIDE DEF g
      <4>1. above[d][q] = E(g, q)
        BY <3>4
      <4>2. /\ E(g, q) \in Seq(Ids \X Ids)
            /\ \A t : t \in Range(E(g, q)) <=>
                 \E p \in Range(x.links[q]) : t = <<p, q>> \/ t \in Range(g[p])
            /\ Sparse(x, g, q) => Once(E(g, q))
        BY <1>3, <3>3
      <4>3. QED
        BY <2>4, <4>1, <4>2 DEF Level, g
    <3>6. Good(d)
      BY <3>5
    <3>7. QED
      BY <2>2, <3>6
  <2>5. QED
    BY <2>3, <2>4
<1>5. QED
  BY <1>4

\* A depth that lacks something, only if the depth before it does.
LEMMA Descent ==
  ASSUME NEW T, T \subseteq 0..Depth, \A d \in T : d # 0 /\ (d - 1 \in 0..Depth => d - 1 \in T)
  PROVE  T = {}
<1> SUFFICES ASSUME T # {} PROVE FALSE
  OBVIOUS
<1>1. Depth \in Nat
  BY RecordsAssumption
<1>2. T \subseteq Nat
  BY <1>1
<1>3. PICK d \in T : \A e \in T : d <= e
  BY <1>2, LeastElement
<1>4. d - 1 \in 0..Depth /\ ~ (d <= d - 1)
  BY <1>1
<1>5. QED
  BY <1>3, <1>4

\* The back links of x are its fields, and they are a forest.
Forest(x) ==
  /\ IsTable(x.rec) /\ Tree(x.rec) /\ x.links \in [Ids -> Seq(Ids)]
  /\ \A q \in Ids :
       /\ Once(x.links[q])
       /\ \A p : p \in Range(x.links[q]) <=> \E c : HoldsLink(x.rec, <<p, c>>, q)

LEMMA ForestIs ==
  ASSUME NEW x, RecordsOk(x), Tree(x.rec)
  PROVE  Forest(x)
<1> DEFINE f == x.rec
           E == FieldsOf(f)
<1>1. IsTable(f) /\ x.links \in [Ids -> Seq(Ids)]
      /\ \A q, p \in Ids : Count(x.links[q], p) = Cardinality(Kids(f, E, p, Link(q)))
  BY DEF RecordsOk, LinkInv
<1> HIDE DEF f
<1>2. ASSUME NEW q \in Ids
      PROVE  /\ Once(x.links[q])
             /\ \A p : p \in Range(x.links[q]) <=> \E c : HoldsLink(f, <<p, c>>, q)
  <2> DEFINE s == x.links[q]
             At(p) == {i \in DOMAIN s : s[i] = p}
             K(p) == Kids(f, E, p, Link(q))
  <2>1. s \in Seq(Ids) /\ DOMAIN s = 1..Len(s) /\ Len(s) \in Nat /\ \A i \in DOMAIN s : s[i] \in Ids
    BY <1>1
  <2>2. \A p \in Ids : Cardinality(At(p)) = Cardinality(K(p))
    BY <1>1 DEF Count
  <2> HIDE DEF s
  <2>3. \A p : IsFiniteSet(At(p))
    <3>1. IsFiniteSet(DOMAIN s)
      BY <2>1, FS_Interval
    <3>2. \A p : At(p) \subseteq DOMAIN s
      OBVIOUS
    <3> HIDE DEF At
    <3>3. QED
      BY <3>1, <3>2, FS_Subset
  <2>4. \A p : K(p) = {c \in Columns : HoldsLink(f, <<p, c>>, q)}
    BY DEF Kids, HoldsLink
  <2>5. \A p : IsFiniteSet(K(p))
    BY <2>4, RecordsAssumption, FS_Subset
  <2> HIDE DEF K
  <2>6. ASSUME NEW p \in Ids
        PROVE  At(p) # {} <=> K(p) # {}
    <3>1. Cardinality(At(p)) = 0 <=> At(p) = {}
      BY <2>3, FS_EmptySet
    <3>2. Cardinality(K(p)) = 0 <=> K(p) = {}
      BY <2>5, FS_EmptySet
    <3>3. QED
      BY <2>2, <3>1, <3>2
  <2>7. ASSUME NEW p, NEW c, HoldsLink(f, <<p, c>>, q)
        PROVE  p \in Ids /\ c \in K(p)
    BY <1>1, <2>4, <2>7, HoldsLinkType
  <2>8. \A p : p \in Range(s) <=> \E c : HoldsLink(f, <<p, c>>, q)
    <3> SUFFICES ASSUME NEW p PROVE p \in Range(s) <=> \E c : HoldsLink(f, <<p, c>>, q)
      OBVIOUS
    <3>1. p \in Range(s) <=> At(p) # {}
      BY DEF Range
    <3>2. p \in Range(s) => p \in Ids
      BY <2>1 DEF Range
    <3>3. QED
      BY <2>4, <2>6, <2>7, <3>1, <3>2
  <2>9. Once(s)
    <3> SUFFICES ASSUME NEW i \in DOMAIN s, NEW j \in DOMAIN s, s[i] = s[j], i # j PROVE FALSE
      BY DEF Once
    <3> DEFINE p == s[i]
    <3>1. p \in Ids /\ {i, j} \subseteq At(p)
      BY <2>1
    <3>2. Cardinality({i, j}) = 2
      <4>1. IsFiniteSet({i}) /\ Cardinality({i}) = 1 /\ j \notin {i}
        BY FS_Singleton
      <4>2. Cardinality({i} \cup {j}) = 2
        BY <4>1, FS_AddElement
      <4>3. {i, j} = {i} \cup {j}
        OBVIOUS
      <4>4. QED
        BY <4>2, <4>3
    <3> HIDE DEF p, At
    <3>3. 2 <= Cardinality(At(p))
      BY <2>3, <3>1, <3>2, FS_Subset
    <3>4. 2 <= Cardinality(K(p))
      BY <2>2, <3>1, <3>3
    <3>5. PICK c : c \in K(p)
      <4>1. K(p) # {}
        BY <3>4, FS_EmptySet
      <4>2. QED
        BY <4>1
    <3>6. PICK d \in K(p) : d # c
      <4>1. K(p) # {c}
        BY <3>4, FS_Singleton
      <4>2. QED
        BY <3>5, <4>1
    <3>7. HoldsLink(f, <<p, c>>, q) /\ HoldsLink(f, <<p, d>>, q)
      BY <2>4, <3>5, <3>6
    <3>8. Reaches(f, p, <<p, c>>[1]) /\ Reaches(f, p, <<p, d>>[1])
      BY ReachSelf
    <3>9. <<p, d>> = <<p, c>>
      BY <3>1, <3>7, <3>8 DEF Tree, f
    <3>10. QED
      BY <3>6, <3>9
  <2>10. QED
    BY <2>8, <2>9 DEF s
<1>3. QED
  BY <1>1, <1>2 DEF Forest, f

\* What is listed is a parent of a record from which q is reached.
LEMMA AboveSound ==
  ASSUME NEW x, Forest(x), NEW r \in Ids, NEW above, AboveLevels(x, r, above),
         NEW d \in 0..Depth, NEW q \in Ids, NEW t \in Range(above[d][q])
  PROVE  t \in Ids \X Ids /\ t[1] \in Range(x.links[t[2]]) /\ Reaches(x.rec, t[2], q)
<1> DEFINE Sound(v, w) == v \in Ids \X Ids /\ v[1] \in Range(x.links[v[2]]) /\ Reaches(x.rec, v[2], w)
           Good(k) == \A w \in Ids : \A v \in Range(above[k][w]) : Sound(v, w)
           T == {k \in 0..Depth : ~ Good(k)}
<1>1. IsTable(x.rec) /\ x.links \in [Ids -> Seq(Ids)]
  BY DEF Forest
<1>2. \A k \in 0..Depth, w \in Ids : Level(x, above, k, w)
  BY <1>1, AboveLevel
<1>3. Depth \in Nat
  BY RecordsAssumption
<1>4. ASSUME NEW k \in T
      PROVE  k # 0 /\ (k - 1 \in 0..Depth => k - 1 \in T)
  <2> SUFFICES ASSUME k # 0 => k - 1 \in 0..Depth /\ Good(k - 1) PROVE Good(k)
    BY <1>3
  <2> SUFFICES ASSUME NEW w \in Ids, NEW v \in Range(above[k][w]) PROVE Sound(v, w)
    OBVIOUS
  <2>1. k \in 0..Depth
    OBVIOUS
  <2> HIDE DEF T
  <2>2. k > 0
    <3>1. Range(<<>>) = {}
      BY DEF Range
    <3>2. QED
      BY <1>2, <1>3, <2>1, <3>1 DEF Level
  <2>3. PICK p \in Range(x.links[w]) : v = <<p, w>> \/ v \in Range(above[k - 1][p])
    <3>1. Level(x, above, k, w)
      BY <1>2, <2>1
    <3>2. QED
      BY <2>2, <3>1 DEF Level
  <2>4. PICK c : HoldsLink(x.rec, <<p, c>>, w)
    BY <2>3 DEF Forest
  <2>5. p \in Ids /\ Reaches(x.rec, p, w)
    BY <1>1, <2>4, LinkFrom
  <2>6. CASE v = <<p, w>>
    BY <2>3, <2>5, <2>6, ReachSelf
  <2>7. CASE v \in Range(above[k - 1][p])
    <3>1. Sound(v, p)
      BY <2>2, <2>5, <2>7
    <3>2. QED
      BY <1>1, <2>5, <3>1, ReachFurther
  <2>8. QED
    BY <2>3, <2>6, <2>7
<1>5. T = {}
  <2>1. T \subseteq 0..Depth
    OBVIOUS
  <2> HIDE DEF T
  <2>2. QED
    BY <1>4, <2>1, Descent
<1>6. QED
  BY <1>5

LEMMA AboveOnce ==
  ASSUME NEW x, Forest(x), NEW r \in Ids, NEW above, AboveLevels(x, r, above),
         NEW d \in 0..Depth, NEW q \in Ids
  PROVE  Once(above[d][q])
<1> DEFINE f == x.rec
           Good(k) == \A w \in Ids : Once(above[k][w])
           T == {k \in 0..Depth : ~ Good(k)}
<1>1. IsTable(f) /\ Tree(f) /\ x.links \in [Ids -> Seq(Ids)]
  BY DEF Forest
<1>2. \A k \in 0..Depth, w \in Ids :
        /\ Level(x, above, k, w)
        /\ k > 0 => (Sparse(x, above[k - 1], w) => Once(above[k][w]))
  BY <1>1, AboveLevel
<1>3. Depth \in Nat
  BY RecordsAssumption
<1>4. ASSUME NEW k \in T
      PROVE  k # 0 /\ (k - 1 \in 0..Depth => k - 1 \in T)
  <2> SUFFICES ASSUME k # 0 => k - 1 \in 0..Depth /\ Good(k - 1) PROVE Good(k)
    BY <1>3
  <2> SUFFICES ASSUME NEW w \in Ids PROVE Once(above[k][w])
    OBVIOUS
  <2>1. k \in 0..Depth
    OBVIOUS
  <2> HIDE DEF T
  <2>2. CASE k = 0
    <3>1. above[k][w] = <<>>
      BY <1>2, <2>1, <2>2 DEF Level
    <3>2. Once(<<>>)
      BY DEF Once
    <3>3. QED
      BY <3>1, <3>2
  <2>3. CASE k # 0
    <3> DEFINE g == above[k - 1]
    <3>1. k > 0 /\ k - 1 \in 0..Depth /\ \A p \in Ids : Once(g[p])
      BY <1>3, <2>1, <2>3
    <3>2. \A p \in Ids : \A v \in Range(g[p]) :
            v \in Ids \X Ids /\ v[1] \in Range(x.links[v[2]]) /\ Reaches(f, v[2], p)
      BY <3>1, AboveSound
    <3> HIDE DEF g
    <3>3. ASSUME NEW p \in Range(x.links[w])
          PROVE  p \in Ids /\ \E c : HoldsLink(f, <<p, c>>, w)
      <4>1. PICK c : HoldsLink(f, <<p, c>>, w)
        BY DEF Forest
      <4>2. QED
        BY <1>1, <4>1, LinkFrom
    <3>4. \A p, u \in Range(x.links[w]) : <<p, w>> \notin Range(g[u])
      <4> SUFFICES ASSUME NEW p \in Range(x.links[w]), NEW u \in Range(x.links[w]), <<p, w>> \in Range(g[u])
                   PROVE  FALSE
        OBVIOUS
      <4>1. PICK c : HoldsLink(f, <<u, c>>, w)
        BY <3>3
      <4>2. Reaches(f, w, u)
        BY <3>2, <3>3
      <4>3. QED
        BY <1>1, <4>1, <4>2 DEF Tree
    <3>5. \A p, u \in Range(x.links[w]) : p # u => Range(g[p]) \cap Range(g[u]) = {}
      <4> SUFFICES ASSUME NEW p \in Range(x.links[w]), NEW u \in Range(x.links[w]),
                          NEW v, v \in Range(g[p]), v \in Range(g[u])
                   PROVE  p = u
        OBVIOUS
      <4>1. PICK c : HoldsLink(f, <<u, c>>, w)
        BY <3>3
      <4>2. PICK b : HoldsLink(f, <<p, b>>, w)
        BY <3>3
      <4>3. v[2] \in Ids /\ Reaches(f, v[2], p) /\ Reaches(f, v[2], u)
        BY <3>2, <3>3
      <4>4. <<u, c>> = <<p, b>>
        BY <1>1, <4>1, <4>2, <4>3 DEF Tree
      <4>5. QED
        BY <4>4
    <3>6. Once(x.links[w])
      BY DEF Forest
    <3>7. Sparse(x, g, w)
      BY <3>1, <3>3, <3>4, <3>5, <3>6 DEF Sparse
    <3>8. QED
      BY <1>2, <2>1, <3>1, <3>7 DEF g
  <2>4. QED
    BY <2>2, <2>3
<1>5. T = {}
  <2>1. T \subseteq 0..Depth
    OBVIOUS
  <2> HIDE DEF T
  <2>2. QED
    BY <1>4, <2>1, Descent
<1>6. QED
  BY <1>5

\* The parents of a listed record are listed one level higher.
LEMMA AboveUp ==
  ASSUME NEW x, x.links \in [Ids -> Seq(Ids)], NEW r \in Ids, NEW above, AboveLevels(x, r, above),
         NEW d \in 1..Depth, NEW q \in Ids, NEW z \in Ids, NEW w, <<z, w>> \in Range(above[d - 1][q]),
         NEW p \in Range(x.links[z])
  PROVE  <<p, z>> \in Range(above[d][q])
<1> DEFINE Good(k) == k # 0 => \A u \in Ids : \A y :
                        <<z, y>> \in Range(above[k - 1][u]) => <<p, z>> \in Range(above[k][u])
           T == {k \in 0..Depth : ~ Good(k)}
<1>1. \A k \in 0..Depth, u \in Ids : Level(x, above, k, u)
  BY AboveLevel
<1>2. Depth \in Nat
  BY RecordsAssumption
<1>3. ASSUME NEW u \in Ids, NEW v \in Range(x.links[u])
      PROVE  v \in Ids
  BY <1>3 DEF Range
<1>4. ASSUME NEW k \in T
      PROVE  k # 0 /\ (k - 1 \in 0..Depth => k - 1 \in T)
  <2> SUFFICES ASSUME k - 1 \in 0..Depth => Good(k - 1) PROVE Good(k)
    BY <1>2
  <2> SUFFICES ASSUME k # 0, NEW u \in Ids, NEW y, <<z, y>> \in Range(above[k - 1][u])
               PROVE  <<p, z>> \in Range(above[k][u])
    OBVIOUS
  <2>1. k \in 0..Depth /\ k > 0 /\ k - 1 \in 0..Depth
    BY <1>2
  <2> HIDE DEF T
  <2>2. k - 1 > 0 /\ k - 2 = (k - 1) - 1
    <3>1. Range(<<>>) = {}
      BY DEF Range
    <3>2. above[0][u] = <<>>
      <4>1. 0 \in 0..Depth
        BY <1>2
      <4>2. Level(x, above, 0, u)
        BY <1>1, <4>1
      <4>3. QED
        BY <4>2 DEF Level
    <3>3. QED
      BY <1>2, <2>1, <3>1, <3>2
  <2>3. PICK v \in Range(x.links[u]) : <<z, y>> = <<v, u>> \/ <<z, y>> \in Range(above[(k - 1) - 1][v])
    <3>1. Level(x, above, k - 1, u)
      BY <1>1, <2>1
    <3>2. QED
      BY <2>2, <3>1 DEF Level
  <2>4. v \in Ids
    BY <1>3
  <2>5. <<p, z>> \in Range(above[k - 1][v])
    <3>1. CASE z = v
      <4>1. Level(x, above, k - 1, v)
        BY <1>1, <2>1, <2>4
      <4>2. QED
        BY <2>2, <3>1, <4>1 DEF Level
    <3>2. CASE <<z, y>> \in Range(above[(k - 1) - 1][v])
      <4>1. Good(k - 1)
        BY <2>1
      <4>2. k - 1 # 0
        BY <2>2
      <4>3. QED
        BY <2>4, <3>2, <4>1, <4>2
    <3>3. QED
      BY <2>3, <3>1, <3>2
  <2>6. Level(x, above, k, u)
    BY <1>1, <2>1
  <2>7. QED
    BY <2>1, <2>5, <2>6 DEF Level
<1>5. T = {}
  <2>1. T \subseteq 0..Depth
    OBVIOUS
  <2> HIDE DEF T
  <2>2. QED
    BY <1>4, <2>1, Descent
<1>6. d \in 0..Depth /\ d # 0
  BY <1>2
<1>7. QED
  BY <1>5, <1>6

\* The fields of p that hold q, each once.
LEMMA FieldsWithFacts ==
  ASSUME NEW x, NEW p \in Ids, NEW q
  PROVE  /\ FieldsWith(x, p, q) \in Seq(AllFields)
         /\ \A e : e \in Range(FieldsWith(x, p, q)) <=> \E c \in Columns : e = <<p, c>> /\ x.rec[p][c] = Link(q)
         /\ Once(FieldsWith(x, p, q))
<1> DEFINE ss == [c \in Columns |-> IF x.rec[p][c] = Link(q) THEN <<<<p, c>>>> ELSE <<>>]
<1>1. PICK n \in Nat : Columns = 1..n
  BY ColumnsAre
<1>2. ASSUME NEW c \in Columns
      PROVE  /\ ss[c] \in Seq(AllFields) /\ Once(ss[c])
             /\ \A e : e \in Range(ss[c]) <=> e = <<p, c>> /\ x.rec[p][c] = Link(q)
  <2> DEFINE s == <<<<p, c>>>>
  <2>1. <<p, c>> \in AllFields
    BY DEF AllFields
  <2>2. s \in Seq(AllFields) /\ DOMAIN s = {1} /\ s[1] = <<p, c>>
    BY <2>1
  <2>3. ss[c] = IF x.rec[p][c] = Link(q) THEN s ELSE <<>>
    OBVIOUS
  <2> HIDE DEF s, ss
  <2>4. Once(s) /\ \A e : e \in Range(s) <=> e = <<p, c>>
    BY <2>2 DEF Once, Range
  <2>5. <<>> \in Seq(AllFields) /\ Once(<<>>) /\ Range(<<>>) = {}
    BY DEF Once, Range
  <2>6. QED
    BY <2>2, <2>3, <2>4, <2>5
<1>3. ss \in Seq(Seq(AllFields)) /\ DOMAIN ss = Columns
  <2>1. \A c \in Columns : ss[c] \in Seq(AllFields)
    BY <1>2
  <2>2. DOMAIN ss = 1..n
    BY <1>1
  <2>3. ss \in Seq(Seq(AllFields))
    BY <1>1, <2>1, IsASeq
  <2>4. QED
    BY <1>1, <2>2, <2>3
<1>4. FieldsWith(x, p, q) = FlattenSeq(ss)
  BY DEF FieldsWith
<1> HIDE DEF ss
<1>5. FieldsWith(x, p, q) \in Seq(AllFields)
  BY <1>3, <1>4, FlattenType
<1>6. /\ \A e : e \in Range(FieldsWith(x, p, q)) <=> \E c \in Columns : e \in Range(ss[c])
      /\ /\ \A c \in Columns : Once(ss[c])
         /\ \A b, c \in Columns : b # c => Range(ss[b]) \cap Range(ss[c]) = {}
         => Once(FieldsWith(x, p, q))
  BY <1>3, <1>4, FlattenFacts
<1>7. \A b, c \in Columns : b # c => Range(ss[b]) \cap Range(ss[c]) = {}
  <2> SUFFICES ASSUME NEW b \in Columns, NEW c \in Columns, NEW e, e \in Range(ss[b]), e \in Range(ss[c])
               PROVE  b = c
    OBVIOUS
  <2>1. <<p, b>> = <<p, c>>
    BY <1>2
  <2>2. QED
    BY <2>1
<1>8. QED
  BY <1>2, <1>5, <1>6, <1>7

\* The fields that are taken out and put back are those that hold r, or an ancestor
\* of r, not too far up; and they are taken out once.
LEMMA AffectedFacts ==
  ASSUME NEW x, Forest(x), NEW r \in Ids, NEW above, AboveLevels(x, r, above)
  PROVE  /\ Affected(x, r) \in Seq(AllFields) /\ Once(Affected(x, r))
         /\ \A e : e \in Range(Affected(x, r)) <=>
              \E q : HoldsLink(x.rec, e, q) /\ <<e[1], q>> \in Range(above[Depth][r])
<1> DEFINE f == x.rec
           A == Above(x, r)
           Part(t) == FieldsWith(x, t[1], t[2])
           ss == [i \in DOMAIN A |-> Part(A[i])]
<1>1. Depth \in 0..Depth
  BY RecordsAssumption
<1>2. IsTable(f) /\ x.links \in [Ids -> Seq(Ids)]
  BY DEF Forest
<1>3. A = above[Depth][r]
  BY DEF AboveLevels
<1>4. A \in Seq(Ids \X Ids) /\ Once(A)
  BY <1>1, <1>2, <1>3, AboveOnce, AboveType
<1>5. Affected(x, r) = FlattenSeq(ss)
  BY DEF Affected
<1> HIDE DEF A
<1>6. ASSUME NEW t \in Range(A)
      PROVE  /\ t \in Ids \X Ids /\ t[1] \in Ids /\ Part(t) \in Seq(AllFields) /\ Once(Part(t))
             /\ \A e : e \in Range(Part(t)) <=> HoldsLink(f, e, t[2]) /\ e[1] = t[1]
  <2>1. t \in Ids \X Ids /\ t[1] \in Range(x.links[t[2]])
    BY <1>1, <1>3, AboveSound
  <2>2. t[1] \in Ids /\ t[2] \in Ids
    BY <2>1
  <2>3. PICK b : HoldsLink(f, <<t[1], b>>, t[2])
    BY <2>1, <2>2 DEF Forest
  <2>4. f[t[1]] # <<>>
    BY <1>2, <2>3, HoldsLinkType
  <2>5. /\ Part(t) \in Seq(AllFields) /\ Once(Part(t))
        /\ \A e : e \in Range(Part(t)) <=> \E c \in Columns : e = <<t[1], c>> /\ f[t[1]][c] = Link(t[2])
    <3> DEFINE p == t[1]
               w == t[2]
    <3>1. p \in Ids
      BY <2>2
    <3> HIDE DEF p, w
    <3>2. /\ FieldsWith(x, p, w) \in Seq(AllFields)
          /\ \A e : e \in Range(FieldsWith(x, p, w)) <=> \E c \in Columns : e = <<p, c>> /\ x.rec[p][c] = Link(w)
          /\ Once(FieldsWith(x, p, w))
      BY <3>1, FieldsWithFacts, Zenon
    <3>3. QED
      BY <3>2, Zenon DEF p, w
  <2>6. \A e : HoldsLink(f, e, t[2]) /\ e[1] = t[1] <=> \E c \in Columns : e = <<t[1], c>> /\ f[t[1]][c] = Link(t[2])
    BY <2>2, <2>4 DEF HoldsLink, FieldsOf, AllFields
  <2> HIDE DEF Part
  <2>7. QED
    BY <2>1, <2>2, <2>5, <2>6
<1> HIDE DEF Part, f
<1>7. DOMAIN A = 1..Len(A) /\ Len(A) \in Nat /\ \A i \in DOMAIN A : A[i] \in Range(A)
  BY <1>4 DEF Range
<1>8. \A i \in DOMAIN A : ss[i] \in Seq(AllFields)
  BY <1>6, <1>7
<1>9. ss \in Seq(Seq(AllFields)) /\ DOMAIN ss = DOMAIN A /\ \A i \in DOMAIN A : ss[i] = Part(A[i])
  BY <1>7, <1>8, IsASeq
<1> HIDE DEF ss
<1>10. Affected(x, r) \in Seq(AllFields)
  BY <1>5, <1>9, FlattenType
<1>11. /\ \A e : e \in Range(Affected(x, r)) <=> \E i \in DOMAIN ss : e \in Range(ss[i])
       /\ /\ \A i \in DOMAIN ss : Once(ss[i])
          /\ \A i, j \in DOMAIN ss : i # j => Range(ss[i]) \cap Range(ss[j]) = {}
          => Once(Affected(x, r))
  BY <1>5, <1>9, FlattenFacts
<1>12. \A e : e \in Range(Affected(x, r)) <=> \E q : HoldsLink(f, e, q) /\ <<e[1], q>> \in Range(A)
  <2> SUFFICES ASSUME NEW e
               PROVE  e \in Range(Affected(x, r)) <=> \E q : HoldsLink(f, e, q) /\ <<e[1], q>> \in Range(A)
    OBVIOUS
  <2>1. ASSUME NEW i \in DOMAIN A, e \in Range(Part(A[i]))
        PROVE  \E q : HoldsLink(f, e, q) /\ <<e[1], q>> \in Range(A)
    <3>1. A[i] \in Ids \X Ids /\ A[i] \in Range(A) /\ HoldsLink(f, e, A[i][2]) /\ e[1] = A[i][1]
      BY <1>6, <1>7, <2>1
    <3>2. A[i] = <<e[1], A[i][2]>>
      BY <3>1
    <3>3. QED
      BY <3>1, <3>2
  <2>2. ASSUME NEW q, HoldsLink(f, e, q), <<e[1], q>> \in Range(A)
        PROVE  \E i \in DOMAIN A : e \in Range(Part(A[i]))
    <3> DEFINE t == <<e[1], q>>
    <3>1. t \in Range(A) /\ t[1] = e[1] /\ t[2] = q
      BY <2>2
    <3> HIDE DEF t
    <3>2. e \in Range(Part(t))
      BY <1>6, <2>2, <3>1
    <3>3. PICK i \in DOMAIN A : A[i] = t
      BY <3>1 DEF Range
    <3>4. QED
      BY <3>2, <3>3
  <2>3. e \in Range(Affected(x, r)) <=> \E i \in DOMAIN A : e \in Range(Part(A[i]))
    <3>1. e \in Range(Affected(x, r)) <=> \E i \in DOMAIN ss : e \in Range(ss[i])
      BY <1>11
    <3>2. QED
      BY <1>9, <3>1
  <2>4. QED
    BY <2>1, <2>2, <2>3
<1>13. Once(Affected(x, r))
  <2>1. \A i \in DOMAIN ss : Once(ss[i])
    BY <1>6, <1>7, <1>9
  <2>2. \A i, j \in DOMAIN ss : i # j => Range(ss[i]) \cap Range(ss[j]) = {}
    <3> SUFFICES ASSUME NEW i \in DOMAIN A, NEW j \in DOMAIN A, NEW e, e \in Range(Part(A[i])), e \in Range(Part(A[j]))
                 PROVE  i = j
      BY <1>9
    <3>1. A[i] \in Ids \X Ids /\ HoldsLink(f, e, A[i][2]) /\ e[1] = A[i][1]
      BY <1>6, <1>7
    <3>2. A[j] \in Ids \X Ids /\ HoldsLink(f, e, A[j][2]) /\ e[1] = A[j][1]
      BY <1>6, <1>7
    <3>3. Link(A[i][2]) = Link(A[j][2])
      BY <3>1, <3>2 DEF HoldsLink
    <3>4. A[i][2] = A[j][2]
      BY <3>3 DEF Link
    <3>5. A[i] = A[j]
      <4>1. A[i][1] = A[j][1]
        BY <3>1, <3>2
      <4>2. \A s, t \in Ids \X Ids : s[1] = t[1] /\ s[2] = t[2] => s = t
        OBVIOUS
      <4>3. QED
        BY <3>1, <3>2, <3>4, <4>1, <4>2, Zenon
    <3>6. QED
      BY <1>4, <3>5 DEF Once
  <2>3. QED
    BY <1>11, <2>1, <2>2
<1>14. QED
  BY <1>3, <1>10, <1>12, <1>13 DEF f

\* Nothing that is affected is a field of r.
LEMMA AffectedElsewhere ==
  ASSUME NEW x, Forest(x), NEW r \in Ids, NEW e \in Range(Affected(x, r))
  PROVE  /\ e \in AllFields /\ e \in FieldsOf(x.rec) /\ e[1] # r
         /\ x.rec[e[1]][e[2]] # Null /\ \E q : HoldsLink(x.rec, e, q)
<1>1. PICK above : AboveLevels(x, r, above)
  BY AboveSteps
<1>2. PICK q : HoldsLink(x.rec, e, q) /\ <<e[1], q>> \in Range(above[Depth][r])
  BY <1>1, AffectedFacts
<1>3. Depth \in 0..Depth
  BY RecordsAssumption
<1> DEFINE t == <<e[1], q>>
<1>4. t \in Range(above[Depth][r]) /\ t[2] = q
  BY <1>2
<1> HIDE DEF t
<1>5. Reaches(x.rec, q, r)
  BY <1>1, <1>3, <1>4, AboveSound
<1>6. e[1] # r
  BY <1>2, <1>5 DEF Forest, Tree
<1>7. e \in AllFields /\ e \in FieldsOf(x.rec) /\ x.rec[e[1]][e[2]] = Link(q)
  BY <1>2 DEF HoldsLink, FieldsOf
<1>8. QED
  BY <1>2, <1>6, <1>7, ValueFacts

\* A record without parents.
LEMMA AffectedNone ==
  ASSUME NEW x, Forest(x), NEW r \in Ids, x.links[r] = <<>>
  PROVE  Affected(x, r) = <<>>
<1>1. PICK above : AboveLevels(x, r, above)
  BY AboveSteps
<1>2. Depth \in 0..Depth /\ Depth \in Nat
  BY RecordsAssumption
<1>3. Level(x, above, Depth, r)
  BY <1>1, <1>2, AboveLevel DEF Forest
<1>4. Range(<<>>) = {}
  BY DEF Range
<1>5. Range(above[Depth][r]) = {}
  <2>1. CASE Depth = 0
    BY <1>3, <1>4, <2>1 DEF Level
  <2>2. CASE Depth > 0
    BY <1>3, <1>4, <2>2 DEF Level
  <2>3. QED
    BY <1>2, <2>1, <2>2
<1> DEFINE s == Affected(x, r)
<1>6. s \in Seq(AllFields) /\ Range(s) = {}
  BY <1>1, <1>5, AffectedFacts
<1> HIDE DEF s
<1>7. s = <<>>
  <2>1. DOMAIN s = 1..Len(s) /\ Len(s) \in Nat /\ DOMAIN s = {}
    <3>1. \A i \in DOMAIN s : s[i] \in Range(s)
      BY DEF Range
    <3>2. DOMAIN s = 1..Len(s) /\ Len(s) \in Nat
      BY <1>6
    <3>3. QED
      BY <1>6, <3>1, <3>2, Zenon
  <2>2. Len(s) = 0
    BY <2>1
  <2>3. QED
    BY <1>6, <2>2
<1>8. QED
  BY <1>7 DEF s

\* Below the ancestors of r the back links may change, and r itself: the same fields
\* are affected.
LEMMA AffectedSame ==
  ASSUME NEW x, Forest(x), NEW r \in Ids, NEW y,
         \A q \in Ids : Reaches(x.rec, q, r) => y.links[q] = x.links[q],
         \A p \in Ids : p # r => y.rec[p] = x.rec[p]
  PROVE  Affected(y, r) = Affected(x, r)
<1> DEFINE f == x.rec
           E(l, q, g) == [i \in DOMAIN l |-> <<<<l[i], q>>>> \o g[l[i]]]
<1>1. IsTable(f) /\ x.links \in [Ids -> Seq(Ids)] /\ Depth \in Nat
  BY RecordsAssumption DEF Forest
<1>2. PICK a : AboveLevels(x, r, a)
  BY AboveSteps
<1>3. PICK b : AboveLevels(y, r, b)
  BY AboveSteps
<1>4. \A d \in 0..Depth, q \in Ids : a[d][q] = IF d = 0 THEN <<>> ELSE FlattenSeq(E(x.links[q], q, a[d - 1]))
  BY <1>2 DEF AboveLevels
<1>5. \A d \in 0..Depth, q \in Ids : b[d][q] = IF d = 0 THEN <<>> ELSE FlattenSeq(E(y.links[q], q, b[d - 1]))
  BY <1>3 DEF AboveLevels
<1>6. ASSUME NEW q \in Ids, Reaches(f, q, r), NEW i \in DOMAIN x.links[q]
      PROVE  x.links[q][i] \in Ids /\ Reaches(f, x.links[q][i], r)
  <2> DEFINE p == x.links[q][i]
  <2>1. p \in Range(x.links[q])
    BY <1>6 DEF Range
  <2>2. PICK c : HoldsLink(f, <<p, c>>, q)
    BY <2>1 DEF Forest
  <2>3. p \in Ids /\ Reaches(f, p, q)
    BY <1>1, <2>2, LinkFrom
  <2>4. QED
    BY <1>1, <1>6, <2>3, ReachFurther
<1> HIDE DEF f
<1>7. ASSUME NEW l, NEW q, NEW g, NEW h, \A i \in DOMAIN l : g[l[i]] = h[l[i]]
      PROVE  E(l, q, g) = E(l, q, h)
  BY <1>7
<1> HIDE DEF E
<1> DEFINE Same(d) == \A q \in Ids : Reaches(f, q, r) => a[d][q] = b[d][q]
           T == {d \in 0..Depth : ~ Same(d)}
<1>8. ASSUME NEW d \in T
      PROVE  d # 0 /\ (d - 1 \in 0..Depth => d - 1 \in T)
  <2> SUFFICES ASSUME d # 0 => d - 1 \in 0..Depth /\ Same(d - 1) PROVE Same(d)
    BY <1>1
  <2> SUFFICES ASSUME NEW q \in Ids, Reaches(f, q, r) PROVE a[d][q] = b[d][q]
    OBVIOUS
  <2>1. d \in 0..Depth
    OBVIOUS
  <2> HIDE DEF T
  <2>2. y.links[q] = x.links[q]
    BY DEF f
  <2>3. CASE d = 0
    BY <1>4, <1>5, <2>1, <2>3
  <2>4. CASE d # 0
    <3> DEFINE l == x.links[q]
               g == a[d - 1]
               h == b[d - 1]
    <3>1. \A i \in DOMAIN l : g[l[i]] = h[l[i]]
      BY <1>6, <2>4
    <3>2. E(l, q, g) = E(l, q, h)
      <4> HIDE DEF l, g, h
      <4>1. QED
        BY <1>7, <3>1
    <3>3. QED
      BY <1>4, <1>5, <2>1, <2>2, <2>4, <3>2
  <2>5. QED
    BY <2>3, <2>4
<1>9. T = {}
  <2>1. T \subseteq 0..Depth
    OBVIOUS
  <2> HIDE DEF T
  <2>2. QED
    BY <1>8, <2>1, Descent
<1> DEFINE A == Above(x, r)
<1>10. Above(y, r) = A
  <2>1. Depth \in 0..Depth /\ Reaches(f, r, r)
    BY <1>1, ReachSelf
  <2>2. a[Depth][r] = b[Depth][r]
    BY <1>9, <2>1
  <2>3. QED
    BY <1>2, <1>3, <2>2 DEF AboveLevels
<1>11. \A i \in DOMAIN A : FieldsWith(y, A[i][1], A[i][2]) = FieldsWith(x, A[i][1], A[i][2])
  <2> SUFFICES ASSUME NEW i \in DOMAIN A
               PROVE  FieldsWith(y, A[i][1], A[i][2]) = FieldsWith(x, A[i][1], A[i][2])
    OBVIOUS
  <2> DEFINE t == A[i]
  <2>1. t \in Range(a[Depth][r]) /\ Depth \in 0..Depth
    BY <1>1, <1>2 DEF AboveLevels, Range
  <2> HIDE DEF t, A
  <2>2. t \in Ids \X Ids /\ t[1] \in Range(x.links[t[2]]) /\ Reaches(f, t[2], r)
    BY <1>2, <2>1, AboveSound DEF f
  <2>3. t[1] \in Ids /\ t[2] \in Ids
    BY <2>2
  <2>4. PICK c : HoldsLink(f, <<t[1], c>>, t[2])
    BY <2>2, <2>3 DEF Forest, f
  <2>5. t[1] # r
    <3>1. Tree(f)
      BY DEF Forest, f
    <3> DEFINE e == <<t[1], c>>
    <3>2. HoldsLink(f, e, t[2]) /\ e[1] = t[1]
      BY <2>4
    <3> HIDE DEF e
    <3>3. QED
      BY <2>2, <3>1, <3>2 DEF Tree
  <2>6. y.rec[t[1]] = x.rec[t[1]]
    BY <2>3, <2>5
  <2>7. FieldsWith(y, t[1], t[2]) = FieldsWith(x, t[1], t[2])
    BY <2>6 DEF FieldsWith
  <2>8. QED
    BY <2>7 DEF t
<1>12. [i \in DOMAIN A |-> FieldsWith(y, A[i][1], A[i][2])] = [i \in DOMAIN A |-> FieldsWith(x, A[i][1], A[i][2])]
  <2> HIDE DEF A
  <2>1. QED
    BY <1>11
<1>13. QED
  BY <1>10, <1>12 DEF Affected

-----------------------------------------------------------------------------
\* Keys.

FieldValues(x) == UNION {Range(x.rec[r]) : r \in Ids}

\* The keys to depth d, from those one level less deep.
KeyLevel(x, f, d) ==
  [w \in FieldValues(x) |->
    IF Holds(w, "str") THEN <<"str", x.str[w[2]].text>>
    ELSE IF Holds(w, "rec") /\ d > 0 THEN <<"rec", [c \in Columns |-> f[d - 1][x.rec[w[2]][c]]]>>
    ELSE w]

KeyLevels(x, key) ==
  /\ \A v : KeyOf(x, v) = key[Depth][v]
  /\ \A d \in 0..Depth : key[d] = KeyLevel(x, key, d)

LEMMA KeySteps ==
  ASSUME NEW x
  PROVE  \E key : KeyLevels(x, key)
<1> DEFINE At(f, d) == KeyLevel(x, f, d)
           Fun(m) == \E f : f = [d \in 0..m |-> At(f, d)]
           T == {m \in Nat : ~ Fun(m)}
           F == CHOOSE f : f = [d \in 0..Depth |-> At(f, d)]
<1>1. Depth \in Nat
  BY RecordsAssumption
<1>2. \A v : KeyOf(x, v) = F[Depth][v]
  BY DEF KeyOf, KeyLevel, FieldValues
<1>3. ASSUME NEW f, NEW g, NEW d \in Nat, d # 0 => f[d - 1] = g[d - 1]
      PROVE  At(f, d) = At(g, d)
  <2>1. d > 0 => f[d - 1] = g[d - 1]
    BY <1>3
  <2>2. \A w \in FieldValues(x) : At(f, d)[w] = At(g, d)[w]
    BY <2>1 DEF KeyLevel
  <2>3. At(f, d) = [w \in FieldValues(x) |-> At(f, d)[w]] /\ At(g, d) = [w \in FieldValues(x) |-> At(g, d)[w]]
    BY DEF KeyLevel
  <2> HIDE DEF At
  <2>4. QED
    BY <2>2, <2>3
<1> HIDE DEF At
<1>4. T = {}
  <2> SUFFICES ASSUME T # {} PROVE FALSE
    OBVIOUS
  <2>1. PICK m \in T : \A j \in T : m <= j
    <3>1. T \subseteq Nat
      OBVIOUS
    <3> HIDE DEF T
    <3>2. QED
      BY <3>1, LeastElement
  <2>2. m \in Nat /\ ~ Fun(m)
    OBVIOUS
  <2>3. CASE m = 0
    <3> DEFINE f == [d \in 0..0 |-> At(<<>>, d)]
    <3>1. f = [d \in 0..0 |-> At(f, d)]
      <4>1. \A d \in 0..0 : At(f, d) = At(<<>>, d)
        <5> SUFFICES ASSUME NEW d \in 0..0 PROVE At(f, d) = At(<<>>, d)
          OBVIOUS
        <5>1. d = 0 /\ d \in Nat
          OBVIOUS
        <5> HIDE DEF f
        <5>2. QED
          BY <1>3, <5>1
      <4>2. QED
        BY <4>1
    <3> HIDE DEF f
    <3>2. Fun(0)
      BY <3>1
    <3>3. QED
      BY <2>2, <2>3, <3>2
  <2>4. CASE m # 0
    <3>1. m - 1 \in Nat /\ Fun(m - 1)
      <4> HIDE DEF Fun
      <4>1. m - 1 \in Nat /\ ~ (m <= m - 1)
        BY <2>2, <2>4
      <4>2. m - 1 \notin T
        BY <2>1, <4>1
      <4>3. QED
        BY <4>1, <4>2
    <3>2. PICK g : g = [d \in 0..(m - 1) |-> At(g, d)]
      BY <3>1
    <3> DEFINE f == [d \in 0..m |-> IF d = m THEN At(g, m) ELSE g[d]]
    <3>3. \A d \in 0..m : f[d] = At(f, d)
      <4> SUFFICES ASSUME NEW d \in 0..m PROVE f[d] = At(f, d)
        OBVIOUS
      <4>1. d \in Nat /\ (d # 0 => d - 1 \in 0..m /\ d - 1 # m)
        BY <2>2
      <4>2. d # 0 => f[d - 1] = g[d - 1]
        BY <4>1
      <4> HIDE DEF f
      <4>3. At(f, d) = At(g, d)
        BY <1>3, <4>1, <4>2
      <4>4. CASE d = m
        BY <4>3, <4>4 DEF f
      <4>5. CASE d # m
        <5>1. d \in 0..(m - 1) /\ f[d] = g[d]
          BY <2>2, <4>5 DEF f
        <5>2. g[d] = At(g, d)
          BY <3>2, <5>1
        <5>3. QED
          BY <5>1, <5>2, <4>3
      <4>6. QED
        BY <4>4, <4>5
    <3>4. f = [d \in 0..m |-> f[d]]
      OBVIOUS
    <3> HIDE DEF f
    <3>5. f = [d \in 0..m |-> At(f, d)]
      BY <3>3, <3>4
    <3>6. Fun(m)
      BY <3>5
    <3>7. QED
      BY <2>2, <3>6
  <2>5. QED
    BY <2>3, <2>4
<1>5. F = [d \in 0..Depth |-> At(F, d)]
  <2>1. Fun(Depth)
    BY <1>1, <1>4
  <2>2. QED
    BY <2>1
<1> HIDE DEF F
<1>6. \A d \in 0..Depth : F[d] = At(F, d)
  BY <1>5
<1>7. QED
  <2> WITNESS F
  <2>1. QED
    BY <1>2, <1>6 DEF At, KeyLevels

\* The records that x holds are there.
Sound(x) == IsTable(x.rec) /\ \A e, q : HoldsLink(x.rec, e, q) => x.rec[q] # <<>>

LEMMA FieldValuesAre ==
  ASSUME NEW x, IsTable(x.rec)
  PROVE  \A w : w \in FieldValues(x) <=> \E e \in FieldsOf(x.rec) : w = x.rec[e[1]][e[2]]
<1> DEFINE f == x.rec
<1>1. \A r \in Ids : f[r] = <<>> \/ f[r] = [c \in Columns |-> f[r][c]]
  BY DEF IsTable
<1>2. \A w : w \in FieldValues(x) <=> \E r \in Ids : w \in Range(f[r])
  BY DEF FieldValues
<1> HIDE DEF f
<1>3. ASSUME NEW r \in Ids, NEW w
      PROVE  w \in Range(f[r]) <=> f[r] # <<>> /\ \E c \in Columns : w = f[r][c]
  <2>1. CASE f[r] = <<>>
    BY <2>1 DEF Range
  <2>2. CASE f[r] # <<>>
    <3>1. DOMAIN f[r] = Columns
      BY <1>1, <2>2
    <3>2. QED
      BY <2>2, <3>1 DEF Range
  <2>3. QED
    BY <2>1, <2>2
<1>4. ASSUME NEW w, NEW r \in Ids, NEW c \in Columns, f[r] # <<>>, w = f[r][c]
      PROVE  \E e \in FieldsOf(f) : w = f[e[1]][e[2]]
  <2>1. <<r, c>> \in FieldsOf(f)
    BY <1>4, FieldsOfFacts
  <2>2. QED
    BY <1>4, <2>1
<1>5. \A e \in FieldsOf(f) : e[1] \in Ids /\ e[2] \in Columns /\ f[e[1]] # <<>>
  BY DEF FieldsOf, AllFields
<1>6. ASSUME NEW w
      PROVE  w \in FieldValues(x) <=> \E e \in FieldsOf(f) : w = f[e[1]][e[2]]
  <2>1. w \in FieldValues(x) => \E r \in Ids, c \in Columns : f[r] # <<>> /\ w = f[r][c]
    BY <1>2, <1>3
  <2>2. w \in FieldValues(x) => \E e \in FieldsOf(f) : w = f[e[1]][e[2]]
    BY <1>4, <2>1
  <2>3. ASSUME NEW e \in FieldsOf(f), w = f[e[1]][e[2]]
        PROVE  w \in FieldValues(x)
    BY <1>2, <1>3, <1>5, <2>3
  <2>4. QED
    BY <2>2, <2>3
<1>7. QED
  BY <1>6 DEF f

LEMMA KeyLevelIs ==
  ASSUME NEW x, NEW key, KeyLevels(x, key), NEW d \in 0..Depth, NEW w \in FieldValues(x)
  PROVE  key[d][w] = IF Holds(w, "str") THEN <<"str", x.str[w[2]].text>>
                     ELSE IF Holds(w, "rec") /\ d > 0
                          THEN <<"rec", [c \in Columns |-> key[d - 1][x.rec[w[2]][c]]]>>
                          ELSE w
<1>1. key[d] = KeyLevel(x, key, d)
  BY DEF KeyLevels
<1>2. QED
  BY Zenon, <1>1 DEF KeyLevel

\* The records that changed, and those that hold them to a depth, are in N: a field that
\* holds none of them keeps its key.
Spoils(x, y, N) ==
  \A d \in 1..Depth :
    /\ \A p \in Ids : y.rec[p] # x.rec[p] => p \in N[d]
    /\ \A e, q : HoldsLink(x.rec, e, q) /\ q \in N[d - 1] => e[1] \in N[d]

SameHeldTexts(x, y) ==
  \A o : Str(o) \in FieldValues(x) \cap FieldValues(y) => y.str[o].text = x.str[o].text

LEMMA KeysSpared ==
  ASSUME NEW x, Sound(x), NEW y, Sound(y), SameHeldTexts(x, y), NEW N, Spoils(x, y, N),
         NEW w \in FieldValues(x) \cap FieldValues(y), \A q : w = Link(q) => q \notin N[Depth]
  PROVE  KeyOf(y, w) = KeyOf(x, w)
<1>1. PICK a : KeyLevels(x, a)
  BY KeySteps
<1>2. PICK b : KeyLevels(y, b)
  BY KeySteps
<1> DEFINE Vs == FieldValues(x) \cap FieldValues(y)
           Same(d) == \A v \in Vs : (\A q : v = Link(q) => q \notin N[d]) => b[d][v] = a[d][v]
           T == {d \in 0..Depth : ~ Same(d)}
<1>3. ASSUME NEW v \in Vs
      PROVE  IsValue(v)
  <2>1. PICK e \in FieldsOf(x.rec) : v = x.rec[e[1]][e[2]]
    BY FieldValuesAre DEF Sound
  <2>2. QED
    BY <2>1 DEF Sound, IsTable
<1>4. ASSUME NEW q, Link(q) \in Vs, NEW c \in Columns, y.rec[q] = x.rec[q]
      PROVE  /\ q \in Ids /\ x.rec[q][c] \in Vs /\ <<q, c>> \in FieldsOf(x.rec)
  <2>1. PICK e \in FieldsOf(x.rec) : Link(q) = x.rec[e[1]][e[2]]
    BY <1>4, FieldValuesAre DEF Sound
  <2>2. HoldsLink(x.rec, e, q)
    BY <2>1 DEF HoldsLink
  <2>3. q \in Ids /\ x.rec[q] # <<>>
    BY <2>2, HoldsLinkType DEF Sound
  <2> DEFINE d == <<q, c>>
  <2>4. d \in FieldsOf(x.rec) /\ d \in FieldsOf(y.rec) /\ d[1] = q /\ d[2] = c
    BY <1>4, <2>3, FieldsOfFacts
  <2> HIDE DEF d
  <2>5. x.rec[q][c] \in FieldValues(x) /\ y.rec[q][c] \in FieldValues(y)
    BY <2>4, FieldValuesAre DEF Sound
  <2>6. QED
    BY <1>4, <2>3, <2>4, <2>5 DEF d
<1>5. ASSUME NEW d \in T
      PROVE  d # 0 /\ (d - 1 \in 0..Depth => d - 1 \in T)
  <2> SUFFICES ASSUME d # 0 => d - 1 \in 0..Depth /\ Same(d - 1) PROVE Same(d)
    BY RecordsAssumption
  <2>1. d \in 0..Depth
    OBVIOUS
  <2> SUFFICES ASSUME NEW v \in Vs, \A q : v = Link(q) => q \notin N[d] PROVE b[d][v] = a[d][v]
    OBVIOUS
  <2>2. /\ a[d][v] = IF Holds(v, "str") THEN <<"str", x.str[v[2]].text>>
                     ELSE IF Holds(v, "rec") /\ d > 0
                          THEN <<"rec", [c \in Columns |-> a[d - 1][x.rec[v[2]][c]]]>> ELSE v
        /\ b[d][v] = IF Holds(v, "str") THEN <<"str", y.str[v[2]].text>>
                     ELSE IF Holds(v, "rec") /\ d > 0
                          THEN <<"rec", [c \in Columns |-> b[d - 1][y.rec[v[2]][c]]]>> ELSE v
    BY <1>1, <1>2, <2>1, KeyLevelIs
  <2>3. CASE Holds(v, "str")
    <3>1. v = Str(v[2])
      BY <1>3, <2>3, ValueKinds
    <3>2. y.str[v[2]].text = x.str[v[2]].text
      BY <3>1 DEF SameHeldTexts
    <3>3. QED
      BY <2>2, <2>3, <3>2
  <2>4. CASE Holds(v, "rec") /\ d > 0
    <3> DEFINE q == v[2]
    <3>1. q \in Ids /\ v = Link(q) /\ ~ Holds(v, "str")
      BY <1>3, <2>4, ValueKinds, ValueFacts
    <3>2. d \in 1..Depth /\ d # 0
      BY <2>1, <2>4
    <3>3. y.rec[q] = x.rec[q]
      BY <3>1, <3>2 DEF Spoils
    <3>4. ASSUME NEW c \in Columns
          PROVE  b[d - 1][y.rec[q][c]] = a[d - 1][x.rec[q][c]]
      <4> DEFINE u == x.rec[q][c]
      <4>1. u \in Vs /\ <<q, c>> \in FieldsOf(x.rec)
        BY <1>4, <3>1, <3>3
      <4>2. ASSUME NEW z, u = Link(z)
            PROVE  z \notin N[d - 1]
        <5> DEFINE e == <<q, c>>
        <5>1. HoldsLink(x.rec, e, z) /\ e[1] = q
          BY <4>1, <4>2 DEF HoldsLink
        <5> HIDE DEF e, q
        <5>2. q \notin N[d]
          BY <3>1
        <5>3. QED
          BY <3>2, <5>1, <5>2 DEF Spoils
      <4>3. Same(d - 1)
        BY <3>2
      <4>4. b[d - 1][u] = a[d - 1][u]
        BY <4>1, <4>2, <4>3
      <4>5. QED
        BY <3>3, <4>4
    <3>5. [c \in Columns |-> b[d - 1][y.rec[q][c]]] = [c \in Columns |-> a[d - 1][x.rec[q][c]]]
      BY <3>4
    <3>6. QED
      BY <2>2, <2>4, <3>1, <3>5
  <2>5. CASE ~ Holds(v, "str") /\ ~ (Holds(v, "rec") /\ d > 0)
    BY <2>2, <2>5
  <2>6. QED
    BY <2>3, <2>4, <2>5
<1>6. T = {}
  <2>1. T \subseteq 0..Depth
    OBVIOUS
  <2> HIDE DEF T
  <2>2. QED
    BY <1>5, <2>1, Descent
<1>7. Same(Depth)
  <2>1. Depth \in 0..Depth
    BY RecordsAssumption
  <2>2. QED
    BY <1>6, <2>1
<1>8. b[Depth][w] = a[Depth][w]
  BY <1>7
<1>9. QED
  BY <1>1, <1>2, <1>8 DEF KeyLevels

\* The records above a changed one, as far as the ancestors that Above lists.
LEMMA AboveSpoils ==
  ASSUME NEW x, Forest(x), NEW r \in Ids, NEW above, AboveLevels(x, r, above),
         NEW y, \A p \in Ids : p # r => y.rec[p] = x.rec[p],
         NEW N, N = [d \in 0..Depth |->
                      {q \in Ids : d > 0 /\ (q = r \/ \E z : <<q, z>> \in Range(above[d - 1][r]))}]
  PROVE  /\ Spoils(x, y, N)
         /\ \A e, q : HoldsLink(x.rec, e, q) /\ q \in N[Depth] => e \in Range(Affected(x, r))
<1>1. Depth \in Nat /\ IsTable(x.rec) /\ x.links \in [Ids -> Seq(Ids)]
  BY RecordsAssumption DEF Forest
<1>2. \A d \in 0..Depth : \A q : q \in N[d] <=>
        q \in Ids /\ d > 0 /\ (q = r \/ \E z : <<q, z>> \in Range(above[d - 1][r]))
  OBVIOUS
<1>3. ASSUME NEW d \in 1..Depth, NEW e, NEW q, HoldsLink(x.rec, e, q), q \in N[d]
      PROVE  <<e[1], q>> \in Range(above[d][r])
  <2> DEFINE p == e[1]
  <2>1. q \in Ids /\ p \in Ids /\ e = <<p, e[2]>>
    BY <1>1, <1>3, HoldsLinkType
  <2>2. p \in Range(x.links[q])
    BY <1>3, <2>1 DEF Forest
  <2>3. d \in 0..Depth /\ d > 0
    BY <1>1
  <2> HIDE DEF p
  <2>4. CASE q = r
    <3>1. Level(x, above, d, r)
      BY <1>1, <2>3, AboveLevel
    <3>2. <<p, q>> \in Range(above[d][r])
      BY <2>2, <2>3, <2>4, <3>1 DEF Level
    <3>3. QED
      BY <3>2 DEF p
  <2>5. CASE \E z : <<q, z>> \in Range(above[d - 1][r])
    <3>1. PICK z : <<q, z>> \in Range(above[d - 1][r])
      BY <2>5
    <3>2. <<p, q>> \in Range(above[d][r])
      BY <1>1, <2>1, <2>2, <3>1, AboveUp
    <3>3. QED
      BY <3>2 DEF p
  <2>6. QED
    BY <1>2, <1>3, <2>3, <2>4, <2>5
<1>4. ASSUME NEW d \in 1..Depth
      PROVE  /\ \A p \in Ids : y.rec[p] # x.rec[p] => p \in N[d]
             /\ \A e, q : HoldsLink(x.rec, e, q) /\ q \in N[d - 1] => e[1] \in N[d]
  <2>1. d \in 0..Depth /\ d > 0 /\ d - 1 \in 0..Depth
    BY <1>1
  <2>2. \A p \in Ids : y.rec[p] # x.rec[p] => p \in N[d]
    BY <1>2, <2>1
  <2>3. ASSUME NEW e, NEW q, HoldsLink(x.rec, e, q), q \in N[d - 1]
        PROVE  e[1] \in N[d]
    <3>1. d - 1 \in 1..Depth
      BY <1>1, <1>2, <2>1, <2>3
    <3>2. <<e[1], q>> \in Range(above[d - 1][r])
      BY <1>3, <2>3, <3>1
    <3>3. e[1] \in Ids
      BY <1>1, <2>3, HoldsLinkType
    <3>4. QED
      BY <1>2, <2>1, <3>2, <3>3
  <2>4. QED
    BY <2>2, <2>3
<1>5. ASSUME NEW e, NEW q, HoldsLink(x.rec, e, q), q \in N[Depth]
      PROVE  e \in Range(Affected(x, r))
  <2>1. Depth \in 1..Depth
    BY <1>1, <1>2, <1>5
  <2>2. <<e[1], q>> \in Range(above[Depth][r])
    BY <1>3, <1>5, <2>1
  <2>3. QED
    BY <1>5, <2>2, AffectedFacts
<1>6. QED
  BY <1>4, <1>5 DEF Spoils

\* A field that the upkeep of the indexes does not touch keeps its key.
LEMMA KeysStay ==
  ASSUME NEW x, Forest(x), Sound(x), NEW y, Sound(y), SameHeldTexts(x, y), NEW r \in Ids,
         \A p \in Ids : p # r => y.rec[p] = x.rec[p],
         NEW e \in FieldsOf(x.rec), e \in FieldsOf(y.rec),
         y.rec[e[1]][e[2]] = x.rec[e[1]][e[2]], e \notin Range(Affected(x, r))
  PROVE  KeyOf(y, y.rec[e[1]][e[2]]) = KeyOf(x, x.rec[e[1]][e[2]])
<1> DEFINE w == x.rec[e[1]][e[2]]
<1>1. PICK above : AboveLevels(x, r, above)
  BY AboveSteps
<1> DEFINE N == [d \in 0..Depth |->
                  {q \in Ids : d > 0 /\ (q = r \/ \E z : <<q, z>> \in Range(above[d - 1][r]))}]
<1>2. N = [d \in 0..Depth |->
            {q \in Ids : d > 0 /\ (q = r \/ \E z : <<q, z>> \in Range(above[d - 1][r]))}]
  OBVIOUS
<1> HIDE DEF N
<1>3. /\ Spoils(x, y, N)
      /\ \A d, q : HoldsLink(x.rec, d, q) /\ q \in N[Depth] => d \in Range(Affected(x, r))
  BY <1>1, <1>2, AboveSpoils
<1>4. w \in FieldValues(x) \cap FieldValues(y)
  BY FieldValuesAre DEF Sound
<1>5. \A q : w = Link(q) => q \notin N[Depth]
  BY <1>3 DEF HoldsLink
<1> HIDE DEF w
<1>6. KeyOf(y, w) = KeyOf(x, w)
  BY <1>3, <1>4, <1>5, KeysSpared
<1>7. QED
  BY <1>6 DEF w

\* Nor does a key change when only the strings change that no field holds.
LEMMA KeysUntouched ==
  ASSUME NEW x, Sound(x), NEW y, y.rec = x.rec, SameHeldTexts(x, y), NEW e \in FieldsOf(x.rec)
  PROVE  KeyOf(y, y.rec[e[1]][e[2]]) = KeyOf(x, x.rec[e[1]][e[2]])
<1> DEFINE w == x.rec[e[1]][e[2]]
           N == [d \in 0..Depth |-> {}]
<1>1. Sound(y)
  BY DEF Sound
<1>2. Spoils(x, y, N) /\ \A q : q \notin N[Depth]
  BY RecordsAssumption DEF Spoils
<1>3. w \in FieldValues(x) \cap FieldValues(y)
  BY <1>1, FieldValuesAre DEF Sound
<1> HIDE DEF w, N
<1>4. KeyOf(y, w) = KeyOf(x, w)
  BY <1>1, <1>2, <1>3, KeysSpared
<1>5. QED
  BY <1>4 DEF w

\* Keys depend on the fields and the strings only.
LEMMA SameKeys ==
  ASSUME NEW x, Sound(x), NEW y, y.rec = x.rec, y.str = x.str, NEW w \in FieldValues(x)
  PROVE  KeyOf(y, w) = KeyOf(x, w)
<1> DEFINE N == [d \in 0..Depth |-> {}]
<1>1. Sound(y) /\ SameHeldTexts(x, y) /\ FieldValues(y) = FieldValues(x)
  BY DEF Sound, SameHeldTexts, FieldValues
<1>2. Spoils(x, y, N) /\ \A q : q \notin N[Depth]
  BY RecordsAssumption DEF Spoils
<1> HIDE DEF N
<1>3. QED
  BY <1>1, <1>2, KeysSpared

-----------------------------------------------------------------------------
\* Entries of an index.

\* The entries of x are those of the fields in E, each with its key in K.
IndexOn(x, E, K) ==
  /\ x.ix = [c \in Columns |-> [r \in Ids |-> x.ix[c][r]]]
  /\ \A c \in Columns, r \in Ids :
       x.ix[c][r] = IF c \in Indexed /\ <<r, c>> \in E THEN <<K[<<r, c>>]>> ELSE <<>>

WithEntry(x, c, r, s) == [x EXCEPT !.ix[c][r] = s]

\* y is x with another entry.
EntryIs(x, c, r, s, y) ==
  /\ y.ix = [d \in Columns |-> [q \in Ids |-> y.ix[d][q]]] /\ y.err = x.err
  /\ y.ix[c][r] = s
  /\ \A d \in Columns, q \in Ids : <<q, d>> # <<r, c>> => y.ix[d][q] = x.ix[d][q]

LEMMA EntryChanged ==
  ASSUME NEW x, IsState(x), NEW E, NEW K, IndexOn(x, E, K), NEW r \in Ids, NEW c \in Columns, NEW s
  PROVE  EntryIs(x, c, r, s, WithEntry(x, c, r, s))
<1> DEFINE y == WithEntry(x, c, r, s)
            a == x.ix
           b == [a EXCEPT ![c][r] = s]
<1>1. a = [d \in Columns |-> [q \in Ids |-> a[d][q]]]
  BY DEF IndexOn
<1>2. y.ix = b /\ y.err = x.err
  BY DEF IsState, WithEntry
<1> HIDE DEF a, y
<1>3. b = [d \in Columns |-> IF d = c THEN [a[c] EXCEPT ![r] = s] ELSE a[d]]
  BY <1>1
<1>4. a[c] = [q \in Ids |-> a[c][q]]
  BY <1>1
<1>5. [a[c] EXCEPT ![r] = s] = [q \in Ids |-> IF q = r THEN s ELSE a[c][q]]
  BY <1>4
<1>6. b = [d \in Columns |-> IF d = c THEN [q \in Ids |-> IF q = r THEN s ELSE a[c][q]] ELSE a[d]]
  BY <1>3, <1>5
<1> HIDE DEF b
<1>7. \A d \in Columns : b[d] = [q \in Ids |-> b[d][q]]
  BY <1>1, <1>6
<1>8. b = [d \in Columns |-> b[d]]
  BY <1>6
<1>9. b = [d \in Columns |-> [q \in Ids |-> b[d][q]]]
  BY <1>7, <1>8
<1>10. b[c][r] = s /\ \A d \in Columns, q \in Ids : <<q, d>> # <<r, c>> => b[d][q] = a[d][q]
  BY <1>6
<1>11. EntryIs(x, c, r, s, y)
  BY <1>2, <1>9, <1>10 DEF a, EntryIs
<1>12. QED
  BY <1>11 DEF y

NoError(x) == x.err = FALSE

\* The key of e in K is the one that it has in x.
KeyIn(K, x, e) == K[e] = KeyOf(x, x.rec[e[1]][e[2]])

\* The only row of a record goes.
LEMMA OneRemoved ==
  ASSUME NEW k
  PROVE  k \in Range(<<k>>) /\ RemoveFirst(<<k>>, k) = <<>>
<1> DEFINE s == <<k>>
           I == {i \in 1..Len(s) : s[i] = k}
           t == RemoveAt(s, 1)
<1>1. s \in Seq({k}) /\ Len(s) = 1 /\ s[1] = k /\ DOMAIN s = {1} /\ 1..Len(s) = {1}
  OBVIOUS
<1>2. k \in Range(s)
  BY <1>1 DEF Range
<1> HIDE DEF s
<1>3. I = {1} /\ \E i \in 1..Len(s) : s[i] = k
  BY <1>1
<1>4. Min(I) = 1
  BY <1>3 DEF Min
<1>5. RemoveFirst(s, k) = t
  <2>1. SelectInSeq(s, LAMBDA v : v = k) = 1
    BY <1>3, <1>4 DEF SelectInSeq
  <2>2. RemoveFirst(s, k) = RemoveAt(s, SelectInSeq(s, LAMBDA v : v = k))
    BY <1>3 DEF RemoveFirst
  <2>3. QED
    BY <2>1, <2>2
<1>6. t \in Seq({k}) /\ Len(t) = 0
  <2> DEFINE S == {k}
  <2>1. s \in Seq(S) /\ 1 \in 1..Len(s) /\ Len(s) = 1
    BY <1>1
  <2> HIDE DEF S
  <2>2. RemoveAt(s, 1) \in Seq(S) /\ Len(RemoveAt(s, 1)) = Len(s) - 1
    BY <2>1, RemoveAtIs
  <2>3. QED
    BY <2>1, <2>2 DEF S
<1>7. t = <<>>
  BY <1>6
<1>8. QED
  BY <1>2, <1>5, <1>7 DEF s

LEMMA DelFieldOn ==
  ASSUME NEW x, IsState(x), NEW E, E \subseteq AllFields, NEW K, IndexOn(x, E, K), NoError(x),
         NEW e \in E, KeyIn(K, x, e), NEW strict
  PROVE  /\ IndexOn(DelField(x, e[1], e[2], strict), E \ {e}, K)
         /\ NoError(DelField(x, e[1], e[2], strict))
<1> DEFINE r == e[1]
           c == e[2]
           y == DelField(x, e[1], e[2], strict)
<1>1. r \in Ids /\ c \in Columns /\ e = <<r, c>>
  BY DEF AllFields
<1> SUFFICES IndexOn(y, E \ {e}, K) /\ NoError(y)
  BY DEF y, r, c
<1> HIDE DEF r, c
<1> DEFINE key == KeyOf(x, x.rec[r][c])
<1>2. y = IF c \notin Indexed \/ x.err THEN x ELSE IF key \notin Range(x.ix[c][r]) THEN [x EXCEPT !.err = strict]
          ELSE [x EXCEPT !.ix[c][r] = RemoveFirst(@, key)]
  BY DEF DelField, r, c
<1>key. key = K[e]
  BY DEF KeyIn, r, c
<1> HIDE DEF key
<1> HIDE DEF y
<1>3. CASE c \notin Indexed
  BY <1>1, <1>2, <1>3 DEF IndexOn, NoError
<1>4. CASE c \in Indexed
  <2>1. x.ix[c][r] = <<K[e]>>
    BY <1>1, <1>4 DEF IndexOn
  <2>2. K[e] \in Range(<<K[e]>>) /\ RemoveFirst(<<K[e]>>, K[e]) = <<>>
    BY OneRemoved
  <2>3. y = WithEntry(x, c, r, <<>>)
    BY <1>2, <1>key, <1>4, <2>1, <2>2 DEF WithEntry, NoError
  <2>4. EntryIs(x, c, r, <<>>, y)
    BY <1>1, <2>3, EntryChanged
  <2>5. ASSUME NEW d \in Columns, NEW q \in Ids
        PROVE  y.ix[d][q] = IF d \in Indexed /\ <<q, d>> \in E \ {e} THEN <<K[<<q, d>>]>> ELSE <<>>
    <3>1. CASE <<q, d>> = e
      <4>1. d = c /\ q = r
        BY <1>1, <3>1
      <4>2. QED
        BY <2>4, <3>1, <4>1 DEF EntryIs
    <3>2. CASE <<q, d>> # e
      <4>1. y.ix[d][q] = x.ix[d][q]
        BY <1>1, <2>4, <3>2 DEF EntryIs
      <4>2. QED
        BY <3>2, <4>1 DEF IndexOn
    <3>3. QED
      BY <3>1, <3>2
  <2>6. QED
    BY <2>4, <2>5 DEF IndexOn, EntryIs, NoError
<1>5. QED
  BY <1>3, <1>4

LEMMA AddFieldOn ==
  ASSUME NEW x, IsState(x), NEW E, NEW K, IndexOn(x, E, K), NEW e \in AllFields, e \notin E,
         KeyIn(K, x, e)
  PROVE  /\ IndexOn(AddField(x, e[1], e[2]), E \cup {e}, K)
         /\ AddField(x, e[1], e[2]).err = x.err
<1> DEFINE r == e[1]
           c == e[2]
           y == AddField(x, e[1], e[2])
<1>1. r \in Ids /\ c \in Columns /\ e = <<r, c>>
  BY DEF AllFields
<1> SUFFICES IndexOn(y, E \cup {e}, K) /\ y.err = x.err
  BY DEF y, r, c
<1> HIDE DEF r, c
<1>2. y = IF c \in Indexed THEN [x EXCEPT !.ix[c][r] = Append(@, K[e])] ELSE x
  BY DEF AddField, r, c, KeyIn
<1> HIDE DEF y
<1>3. CASE c \notin Indexed
  BY <1>1, <1>2, <1>3 DEF IndexOn
<1>4. CASE c \in Indexed
  <2>1. x.ix[c][r] = <<>>
    BY <1>1 DEF IndexOn
  <2>2. Append(<<>>, K[e]) = <<K[e]>>
    OBVIOUS
  <2>3. y = WithEntry(x, c, r, <<K[e]>>)
    BY <1>2, <1>4, <2>1, <2>2 DEF WithEntry
  <2>4. EntryIs(x, c, r, <<K[e]>>, y)
    BY <1>1, <2>3, EntryChanged
  <2>5. ASSUME NEW d \in Columns, NEW q \in Ids
        PROVE  y.ix[d][q] = IF d \in Indexed /\ <<q, d>> \in E \cup {e} THEN <<K[<<q, d>>]>> ELSE <<>>
    <3>1. CASE <<q, d>> = e
      <4>1. d = c /\ q = r
        BY <1>1, <3>1
      <4>2. QED
        BY <1>4, <2>4, <3>1, <4>1 DEF EntryIs
    <3>2. CASE <<q, d>> # e
      <4>1. y.ix[d][q] = x.ix[d][q]
        BY <1>1, <2>4, <3>2 DEF EntryIs
      <4>2. QED
        BY <3>2, <4>1 DEF IndexOn
    <3>3. QED
      BY <3>1, <3>2
  <2>6. QED
    BY <2>4, <2>5 DEF IndexOn, EntryIs
<1>5. QED
  BY <1>3, <1>4

\* The first k members of a sequence.
FirstOf(s, k) == {s[i] : i \in 1..k}

LEMMA FirstOfFacts ==
  ASSUME NEW S, NEW s \in Seq(S)
  PROVE  /\ Len(s) \in Nat /\ DOMAIN s = 1..Len(s) /\ FirstOf(s, 0) = {} /\ FirstOf(s, Len(s)) = Range(s)
         /\ \A k \in 1..Len(s) :
              /\ s[k] \in Range(s) /\ FirstOf(s, k) = FirstOf(s, k - 1) \cup {s[k]}
              /\ Once(s) => s[k] \notin FirstOf(s, k - 1)
<1>1. Len(s) \in Nat /\ DOMAIN s = 1..Len(s)
  OBVIOUS
<1>2. FirstOf(s, 0) = {} /\ FirstOf(s, Len(s)) = Range(s)
  BY <1>1 DEF FirstOf, Range
<1>3. ASSUME NEW k \in 1..Len(s)
      PROVE  /\ s[k] \in Range(s) /\ FirstOf(s, k) = FirstOf(s, k - 1) \cup {s[k]}
             /\ Once(s) => s[k] \notin FirstOf(s, k - 1)
  <2>1. s[k] \in Range(s)
    BY <1>1 DEF Range
  <2>2. \A i : i \in 1..k <=> i \in 1..(k - 1) \/ i = k
    BY <1>1
  <2>3. FirstOf(s, k) = FirstOf(s, k - 1) \cup {s[k]}
    BY <2>2 DEF FirstOf
  <2>4. \A i \in 1..(k - 1) : i \in DOMAIN s /\ k \in DOMAIN s /\ i # k
    BY <1>1
  <2>5. Once(s) => s[k] \notin FirstOf(s, k - 1)
    BY <2>4 DEF FirstOf, Once
  <2>6. QED
    BY <2>1, <2>3, <2>5
<1>4. QED
  BY <1>1, <1>2, <1>3

\* Rows that are there are taken out without an error.
LEMMA DelFieldsOn ==
  ASSUME NEW x, IsState(x), NoError(x), NEW E, E \subseteq AllFields, NEW K, IndexOn(x, E, K),
         NEW fields \in Seq(AllFields), Once(fields), Range(fields) \subseteq E, NEW strict,
         Sound(x), \A e \in Range(fields) : e \in FieldsOf(x.rec) /\ KeyIn(K, x, e),
         NEW y, y = DelFields(x, fields, strict)
  PROVE  IndexOn(y, E \ Range(fields), K) /\ NoError(y)
<1> DEFINE n == Len(fields)
           F(k) == FirstOf(fields, k)
<1>1. /\ n \in Nat /\ DOMAIN fields = 1..n /\ F(0) = {} /\ F(n) = Range(fields)
      /\ \A k \in 1..n : /\ fields[k] \in Range(fields) /\ F(k) = F(k - 1) \cup {fields[k]}
                         /\ fields[k] \notin F(k - 1)
  BY FirstOfFacts
<1> HIDE DEF n, F
<1>2. PICK at : DeletesOf(x, fields, strict, n, at)
  BY <1>1, DelFieldsSteps
<1>3. /\ at[0] = x /\ y = at[n]
      /\ \A k \in 1..n : at[k] = DelField(at[k - 1], fields[k][1], fields[k][2], strict)
  BY <1>2 DEF DeletesOf
<1> DEFINE P(k) == Reindexed(x, at[k]) /\ IndexOn(at[k], E \ F(k), K) /\ NoError(at[k])
           T == {k \in 0..n : ~ P(k)}
<1>4. T = {}
  <2> SUFFICES ASSUME T # {} PROVE FALSE
    OBVIOUS
  <2>1. PICK k \in T : \A j \in T : k <= j
    <3>1. T \subseteq Nat
      OBVIOUS
    <3> HIDE DEF T
    <3>2. QED
      BY <3>1, LeastElement
  <2>2. k \in 0..n /\ ~ P(k)
    OBVIOUS
  <2>3. k # 0
    <3>1. E \ F(0) = E /\ Reindexed(x, x)
      BY <1>1 DEF Reindexed, SameRecords, SameStrings
    <3>2. P(0)
      BY <1>3, <3>1
    <3>3. QED
      BY <2>2, <3>2
  <2>4. k - 1 \in 0..n /\ ~ (k <= k - 1) /\ k \in 1..n
    BY <1>1, <2>2, <2>3
  <2>5. P(k - 1)
    BY <2>1, <2>4
  <2> DEFINE e == fields[k]
             D == E \ F(k - 1)
             u == at[k - 1]
  <2>6. e \in D /\ D \subseteq AllFields /\ D \ {e} = E \ F(k)
    BY <1>1, <2>4
  <2>7. at[k] = DelField(u, e[1], e[2], strict)
    BY <1>3, <2>4
  <2>8. IsState(u) /\ Reindexed(x, u) /\ IndexOn(u, D, K) /\ NoError(u)
    BY <2>5 DEF Reindexed
  <2>key. e \in FieldsOf(x.rec) /\ KeyIn(K, x, e)
    BY <1>1, <2>4
  <2> HIDE DEF e, D, u
  <2>held. x.rec[e[1]][e[2]] \in FieldValues(x)
    BY <2>key, FieldValuesAre DEF Sound
  <2>same. u.rec = x.rec /\ u.str = x.str
    BY <2>8 DEF Reindexed, SameRecords, SameStrings
  <2>in. KeyIn(K, u, e)
    BY <2>key, <2>held, <2>same, SameKeys DEF KeyIn
  <2>9. Reindexed(x, at[k]) /\ IndexOn(at[k], D \ {e}, K) /\ NoError(at[k])
    <3> DEFINE z == at[k]
    <3>1. z = DelField(u, e[1], e[2], strict)
      BY <2>7
    <3> HIDE DEF z
    <3>2. IndexOn(z, D \ {e}, K) /\ NoError(z)
      BY <2>6, <2>8, <2>in, <3>1, DelFieldOn
    <3>3. Reindexed(u, z)
      BY <2>8, <3>1, DelFieldReindexes
    <3>4. Reindexed(x, z)
      BY <2>8, <3>3 DEF Reindexed, SameRecords, SameStrings
    <3>5. QED
      BY <3>2, <3>4 DEF z
  <2>10. QED
    BY <2>2, <2>6, <2>9
<1>5. n \in 0..n
  BY <1>1
<1>6. P(n)
  BY <1>4, <1>5
<1>7. QED
  BY <1>1, <1>3, <1>6

\* Rows that are not there are put in under the keys of the fields.
LEMMA AddFieldsOn ==
  ASSUME NEW x, IsState(x), Sound(x), NEW E, NEW K, IndexOn(x, E, K),
         NEW fields \in Seq(AllFields), Once(fields), Range(fields) \cap E = {},
         \A e \in Range(fields) : e \in FieldsOf(x.rec) /\ KeyIn(K, x, e),
         NEW y, y = AddFields(x, fields)
  PROVE  IndexOn(y, E \cup Range(fields), K) /\ y.err = x.err
<1> DEFINE n == Len(fields)
           F(k) == FirstOf(fields, k)
<1>1. /\ n \in Nat /\ DOMAIN fields = 1..n /\ F(0) = {} /\ F(n) = Range(fields)
      /\ \A k \in 1..n : /\ fields[k] \in Range(fields) /\ F(k) = F(k - 1) \cup {fields[k]}
                         /\ fields[k] \notin F(k - 1)
  BY FirstOfFacts
<1> HIDE DEF n, F
<1>2. PICK at : AddsOf(x, fields, n, at)
  BY <1>1, AddFieldsSteps
<1>3. /\ at[0] = x /\ y = at[n]
      /\ \A k \in 1..n : at[k] = AddField(at[k - 1], fields[k][1], fields[k][2])
  BY <1>2 DEF AddsOf
<1> DEFINE P(k) == Reindexed(x, at[k]) /\ IndexOn(at[k], E \cup F(k), K) /\ at[k].err = x.err
           T == {k \in 0..n : ~ P(k)}
<1>4. T = {}
  <2> SUFFICES ASSUME T # {} PROVE FALSE
    OBVIOUS
  <2>1. PICK k \in T : \A j \in T : k <= j
    <3>1. T \subseteq Nat
      OBVIOUS
    <3> HIDE DEF T
    <3>2. QED
      BY <3>1, LeastElement
  <2>2. k \in 0..n /\ ~ P(k)
    OBVIOUS
  <2>3. k # 0
    <3>1. E \cup F(0) = E /\ Reindexed(x, x)
      BY <1>1 DEF Reindexed, SameRecords, SameStrings
    <3>2. P(0)
      BY <1>3, <3>1
    <3>3. QED
      BY <2>2, <3>2
  <2>4. k - 1 \in 0..n /\ ~ (k <= k - 1) /\ k \in 1..n
    BY <1>1, <2>2, <2>3
  <2>5. P(k - 1)
    BY <2>1, <2>4
  <2> DEFINE e == fields[k]
             D == E \cup F(k - 1)
             u == at[k - 1]
  <2>6. e \notin D /\ D \cup {e} = E \cup F(k)
    BY <1>1, <2>4
  <2>7. at[k] = AddField(u, e[1], e[2])
    BY <1>3, <2>4
  <2>8. IsState(u) /\ Reindexed(x, u) /\ IndexOn(u, D, K) /\ u.err = x.err
    BY <2>5 DEF Reindexed
  <2>9. e \in FieldsOf(x.rec) /\ e \in AllFields /\ KeyIn(K, x, e)
    BY <1>1, <2>4 DEF FieldsOf
  <2> HIDE DEF e, D, u
  <2>10. x.rec[e[1]][e[2]] \in FieldValues(x)
    BY <2>9, FieldValuesAre DEF Sound
  <2>11. u.rec = x.rec /\ u.str = x.str
    BY <2>8 DEF Reindexed, SameRecords, SameStrings
  <2>12. KeyIn(K, u, e)
    BY <2>9, <2>10, <2>11, SameKeys DEF KeyIn
  <2>13. IndexOn(at[k], D \cup {e}, K) /\ at[k].err = x.err
    <3> DEFINE z == at[k]
    <3>1. z = AddField(u, e[1], e[2])
      BY <2>7
    <3> HIDE DEF z
    <3>2. IndexOn(z, D \cup {e}, K) /\ z.err = u.err
      BY <2>6, <2>8, <2>9, <2>12, <3>1, AddFieldOn
    <3>3. QED
      BY <2>8, <3>2 DEF z
  <2>14. Reindexed(u, at[k])
    BY <2>7, <2>8, AddFieldReindexes
  <2>15. Reindexed(x, at[k])
    BY <2>8, <2>14 DEF Reindexed, SameRecords, SameStrings
  <2>16. QED
    BY <2>2, <2>6, <2>13, <2>15
<1>5. n \in 0..n
  BY <1>1
<1>6. P(n)
  BY <1>4, <1>5
<1>7. QED
  BY <1>1, <1>3, <1>6

LEMMA IndexKept ==
  ASSUME NEW x, NEW E, NEW K, IndexOn(x, E, K), NEW L, \A e \in E : L[e] = K[e], NEW y, y.ix = x.ix
  PROVE  IndexOn(y, E, L)
<1>1. \A c \in Columns, r \in Ids : <<r, c>> \in E => L[<<r, c>>] = K[<<r, c>>]
  OBVIOUS
<1>2. QED
  BY <1>1 DEF IndexOn

-----------------------------------------------------------------------------
\* What strings do to keys.

\* A string of x is in y with the same text, or not at all.
OnlyLoses(x, y) == \A o \in Cells : y.str[o].text = x.str[o].text \/ y.str[o].text = NoText

LEMMA StringStepsEntries ==
  ASSUME NEW x, IsState(x), NEW o
  PROVE  Hold(x, o).ix = x.ix /\ Release(x, o).ix = x.ix
<1>1. Hold(x, o).ix = x.ix
  BY HoldFrame DEF Holding
<1>2. ASSUME NEW y, IsState(y), NEW p
      PROVE  IsState(Drop(y, p)) /\ Drop(y, p).ix = y.ix
  <2> DEFINE z == Unchain(y, p)
  <2>1. IsState(z) /\ z.ix = y.ix
    <3>1. z.ix = y.ix
      BY <1>2 DEF IsState, Unchain
    <3>2. QED
      BY <1>2, <3>1, StringStepFrames
  <2> HIDE DEF z
  <2>2. CASE y.str[p].count > 1
    BY <1>2, <2>2 DEF IsState, Drop
  <2>3. CASE ~ (y.str[p].count > 1)
    <3>1. Drop(y, p) = [z EXCEPT !.str[p] = Free, !.loose = @ \ {p}]
      BY <2>3 DEF Drop, z
    <3>2. QED
      BY <2>1, <3>1 DEF IsState
  <2>4. QED
    BY <2>2, <2>3
<1>3. Release(x, o).ix = x.ix
  <2> DEFINE y == Drop(x, o)
             e == x.str[o].extra
  <2>1. IsState(y) /\ y.ix = x.ix
    BY <1>2
  <2>2. Drop(y, e).ix = y.ix
    BY <1>2, <2>1
  <2>3. Release(x, o) \in {y, Drop(y, e)}
    BY DEF Release
  <2> HIDE DEF y, e
  <2>4. QED
    BY <2>1, <2>2, <2>3
<1>4. QED
  BY <1>1, <1>3

LEMMA ReferredEntries ==
  ASSUME NEW x, IsState(x), NEW v
  PROVE  Referred(x, v).ix = x.ix /\ Unreferred(x, v).ix = x.ix
  BY StringStepsEntries DEF Referred, Unreferred

LEMMA DropLoses ==
  ASSUME NEW x, NEW H, TableOk(x, H), NEW o \in InUse(x), H[o] > 0
  PROVE  OnlyLoses(x, Drop(x, o))
<1>1. CASE x.str[o].count > 1
  BY <1>1, DropKeeps DEF SameTexts, OnlyLoses
<1>2. CASE ~ (x.str[o].count > 1)
  <2>1. Freed(x, o, Drop(x, o))
    BY <1>2, DropIsFreed DEF TableOk
  <2>2. Drop(x, o).str[o].text = NoText
    BY <2>1, FreeIsString DEF Freed
  <2>3. QED
    BY <2>1, <2>2 DEF Freed, OnlyLoses
<1>3. QED
  BY <1>1, <1>2

LEMMA LosesMore ==
  ASSUME NEW x, NEW y, NEW z, OnlyLoses(x, y), OnlyLoses(y, z)
  PROVE  OnlyLoses(x, z)
  BY DEF OnlyLoses

LEMMA ReleaseLoses ==
  ASSUME NEW x, NEW H, TableOk(x, H), NEW o \in InUse(x), H[o] > 0
  PROVE  OnlyLoses(x, Release(x, o))
<1> DEFINE y == Drop(x, o)
           e == x.str[o].extra
           G == Less(H, o)
<1>1. Release(x, o) = IF y.str[o].text = NoText /\ e # 0 THEN Drop(y, e) ELSE y
  BY DEF Release
<1>2. OnlyLoses(x, y)
  BY DropLoses
<1>3. CASE ~ (y.str[o].text = NoText /\ e # 0)
  BY <1>1, <1>2, <1>3
<1>4. CASE y.str[o].text = NoText /\ e # 0
  <2>1. ~ (x.str[o].count > 1)
    <3>1. x.str[o].text # NoText /\ o \in Cells
      BY DEF InUse
    <3>2. QED
      BY <1>4, <3>1, DropKeeps DEF SameTexts
  <2>2. e \in InUse(y) /\ TableOk(y, More(G, e))
    BY <1>4, <2>1, DropFrees
  <2>3. G \in [Cells -> Nat]
    <3>1. o \in Cells /\ H \in [Cells -> Nat]
      BY DEF InUse, TableOk
    <3>2. H[o] - 1 \in Nat
      BY <3>1
    <3>3. QED
      BY <3>1, <3>2 DEF Less
  <2>4. More(G, e)[e] > 0
    <3>1. e \in Cells
      BY <2>2 DEF InUse
    <3> HIDE DEF G, e
    <3>2. QED
      BY <2>3, <3>1, MoreLess
  <2>5. OnlyLoses(y, Drop(y, e))
    <3> HIDE DEF y, e, G
    <3>1. QED
      BY <2>2, <2>4, DropLoses
  <2>6. QED
    BY <1>1, <1>2, <1>4, <2>5, LosesMore
<1>5. QED
  BY <1>3, <1>4

LEMMA ReferredLoses ==
  ASSUME NEW x, NEW H, StringsOk(x, H), NEW v
  PROVE  /\ StringIn(x, v) => OnlyLoses(x, Referred(x, v))
         /\ InCells(v) /\ (Holds(v, "str") => H[v[2]] > 0) => OnlyLoses(x, Unreferred(x, v))
<1>1. CASE Holds(v, "str")
  <2> DEFINE p == v[2]
  <2>1. Referred(x, v) = Hold(x, p) /\ Unreferred(x, v) = Release(x, p) /\ TableOk(x, H)
    BY <1>1 DEF Referred, Unreferred, StringsOk
  <2>2. p \in Listed(x) => OnlyLoses(x, Hold(x, p))
    BY <2>1, HoldOk DEF SameTexts, OnlyLoses
  <2>3. InCells(v) /\ H[p] > 0 => p \in InUse(x)
    BY <1>1, <2>1 DEF InCells, TableOk, FreeOk
  <2>4. p \in InUse(x) /\ H[p] > 0 => OnlyLoses(x, Release(x, p))
    BY <2>1, ReleaseLoses
  <2>5. QED
    BY <1>1, <2>1, <2>2, <2>3, <2>4 DEF StringIn
<1>2. CASE ~ Holds(v, "str")
  BY <1>2 DEF Referred, Unreferred, OnlyLoses
<1>3. QED
  BY <1>1, <1>2

\* A string of x is in y with the same text.
KeepsTexts(x, y) == \A o \in InUse(x) : y.str[o].text = x.str[o].text

OnCells(a) == a = [o \in Cells |-> a[o]]

LEMMA TextStays ==
  ASSUME NEW a, OnCells(a), NEW new, NEW s, NEW o \in Cells, o # new
  PROVE  OnCells([a EXCEPT ![new] = s]) /\ [a EXCEPT ![new] = s][o] = a[o]
<1> DEFINE b == [a EXCEPT ![new] = s]
<1>1. b = [p \in Cells |-> IF p = new THEN s ELSE a[p]]
  BY DEF OnCells
<1> HIDE DEF b
<1>2. b = [p \in Cells |-> b[p]] /\ b[o] = a[o]
  BY <1>1
<1>3. QED
  BY <1>2 DEF b, OnCells

LEMMA InternedKeeps ==
  ASSUME NEW x, IsState(x), OnCells(x.str), NEW s,
         NEW P, P \subseteq Cells, Found(x, s) # 0 \/ FirstFree(x) \notin P
  PROVE  /\ Interned(x, s).ix = x.ix
         /\ P # {} => OnCells(Interned(x, s).str)
         /\ \A o \in P : Interned(x, s).str[o] = x.str[o]
<1> DEFINE y == Interned(x, s)
           new == FirstFree(x)
           w == Entered(x, new, s, 0)
<1>1. y = IF Found(x, s) # 0 THEN x ELSE w
  BY InternedIs
<1>2. Enters(x, new, s, 0, w)
  BY EnteredFrame
<1> HIDE DEF y, w
<1>3. w.ix = x.ix /\ w.str = [x.str EXCEPT ![new] = NewString(x, s, 0)]
  BY <1>2 DEF Enters
<1>4. CASE Found(x, s) # 0
  BY <1>1, <1>4 DEF y
<1>5. CASE Found(x, s) = 0
  <2>1. y = w /\ new \notin P
    BY <1>1, <1>5
  <2> HIDE DEF new
  <2>2. ASSUME NEW o \in P
        PROVE  OnCells(y.str) /\ y.str[o] = x.str[o]
    <3>1. o \in Cells /\ o # new
      BY <2>1
    <3> DEFINE n == NewString(x, s, 0)
    <3>2. y.str = [x.str EXCEPT ![new] = n]
      BY <1>3, <2>1
    <3> HIDE DEF n
    <3>3. QED
      BY <3>1, <3>2, TextStays
  <2>3. QED
    BY <1>3, <2>1, <2>2 DEF y
<1>6. QED
  BY <1>4, <1>5

LEMMA EncodedKeeps ==
  ASSUME NEW x, NEW H, StringsOk(x, H), NEW s \in Texts, Cardinality(Cells \ InUse(x)) > 1
  PROVE  Encoded(x, s).ix = x.ix /\ KeepsTexts(x, Encoded(x, s))
<1> DEFINE U == InUse(x)
           new == FirstFree(x)
           t == Extra[s]
           cell == [x.str[new] EXCEPT !.text = s]
           x0 == [x EXCEPT !.str = [x.str EXCEPT ![new] = cell]]
           y == Interned(x0, t)
           e == Found(y, t)
           z == Hold(y, e)
           last == [text |-> s, extra |-> e, count |-> 0, next |-> x.bucket[Hash[s]]]
           w == WithStrings(z, [z.str EXCEPT ![new] = last], [z.bucket EXCEPT ![Hash[s]] = new], z.loose \cup {new})
           T == Cells \ U
<1>1. /\ IsState(x) /\ StrType(x) /\ x.str \in [Cells -> StringSet] /\ U \subseteq Cells
      /\ OnCells(x.str)
  BY DEF StringsOk, TableOk, StrType, InUse, OnCells
<1>2. IsFiniteSet(T)
  BY RecordsAssumption, FS_Subset
<1>3. T # {}
  BY FS_EmptySet
<1>4. new \in T
  BY <1>3, FirstFreeIs
<1>5. T \ {new} # {}
  <2> SUFFICES ASSUME T \ {new} = {} PROVE FALSE
    OBVIOUS
  <2> HIDE DEF T, new
  <2>1. T = {new}
    BY <1>4
  <2>2. Cardinality(T) = 1
    BY <2>1, FS_Singleton
  <2>3. QED
    BY <2>2 DEF T
<1> HIDE DEF new
<1>6. CASE Extra[s] = NoText \/ Found(x, s) # 0
  <2>1. Encoded(x, s) = Interned(x, s)
    BY <1>6 DEF Encoded
  <2>2. new \notin U
    BY <1>4
  <2>3. /\ Interned(x, s).ix = x.ix
        /\ \A o \in U : Interned(x, s).str[o] = x.str[o]
    <3> HIDE DEF U
    <3>1. QED
      BY <1>1, <2>2, InternedKeeps DEF new
  <2>4. QED
    BY <2>1, <2>3 DEF KeepsTexts
<1>7. CASE ~ (Extra[s] = NoText \/ Found(x, s) # 0)
  <2>1. t # NoText /\ t \in Texts /\ s # NoText
    BY <1>7, RecordsAssumption
  <2> HIDE DEF t
  <2>2. cell \in StringSet /\ cell.text = s
    BY <1>1, <1>4, StringFields
  <2> HIDE DEF cell
  <2> DEFINE a == [x.str EXCEPT ![new] = cell]
  <2>3. a \in [Cells -> StringSet] /\ a[new] = cell /\ \A o \in Cells : o # new => a[o] = x.str[o]
    BY <1>1, <1>4, <2>2
  <2> HIDE DEF a
  <2>4. IsState(x0) /\ x0.ix = x.ix /\ x0.str = a
    BY <1>1 DEF IsState, a
  <2>5. x0 = [x EXCEPT !.str[new].text = s]
    BY <1>1 DEF IsState, x0, cell
  <2> HIDE DEF x0
  <2>6. InUse(x0) = U \cup {new}
    BY <1>4, <2>1, <2>2, <2>3, <2>4 DEF InUse
  <2>7. FirstFree(x0) \notin U
    <3>1. Cells \ InUse(x0) # {}
      BY <1>5, <2>6
    <3>2. FirstFree(x0) \in Cells \ InUse(x0)
      BY <3>1, FirstFreeIs
    <3>3. QED
      BY <2>6, <3>2
  <2>8. /\ y.ix = x.ix
        /\ U # {} => OnCells(y.str)
        /\ \A o \in U : y.str[o] = x.str[o] /\ y.str[o] \in StringSet
    <3>1. OnCells(x0.str)
      BY <2>3, <2>4 DEF OnCells
    <3>2. /\ y.ix = x0.ix
          /\ U # {} => OnCells(y.str)
          /\ \A o \in U : y.str[o] = x0.str[o]
      <4> HIDE DEF U
      <4>1. QED
        BY <1>1, <2>4, <2>7, <3>1, InternedKeeps
    <3>3. \A o \in U : o \in Cells /\ o # new
      BY <1>1, <1>4
    <3>4. QED
      BY <1>1, <2>3, <2>4, <3>2, <3>3
  <2>9. IsState(y)
    BY <2>4, InternedFrame
  <2> HIDE DEF y, e, U
  <2>10. Holding(y, e, z)
    BY <2>9, HoldFrame
  <2>11. Encoded(x, s) = [z EXCEPT !.str[new] = [text |-> s, extra |-> e, count |-> 0, next |-> x.bucket[Hash[s]]],
                                   !.bucket[Hash[s]] = new, !.loose = @ \cup {new}]
    BY <1>7, <2>5 DEF Encoded, new, t, y, e, FirstFree
  <2>12. IsState(z) /\ z.ix = y.ix /\ z.bucket = y.bucket
         /\ z.str = [y.str EXCEPT ![e].count = y.str[e].count + 1]
    BY <2>10 DEF Holding
  <2> HIDE DEF z
  <2>13. Encoded(x, s) = w
    BY <2>11, <2>12 DEF IsState, WithStrings
  <2> HIDE DEF last
  <2>14. w.ix = z.ix /\ w.str = [z.str EXCEPT ![new] = last]
    BY <2>12 DEF IsState, WithStrings
  <2> HIDE DEF w
  <2>16. ASSUME NEW o \in U
         PROVE  w.str[o].text = x.str[o].text
    <3>1. o \in Cells /\ o # new
      BY <1>1, <1>4 DEF U
    <3>2. OnCells(y.str) /\ y.str[o] = x.str[o] /\ y.str[o] \in StringSet
      BY <2>8
    <3> DEFINE n == y.str[e].count + 1
               c == [y.str[e] EXCEPT !.count = n]
    <3>3. z.str = [y.str EXCEPT ![e] = c]
      BY <2>12
    <3>4. e = o => c.text = y.str[o].text
      <4> HIDE DEF n
      <4>1. QED
        BY <3>2 DEF StringSet
    <3> HIDE DEF c, n
    <3>5. z.str = [p \in Cells |-> IF p = e THEN c ELSE y.str[p]]
      BY <3>2, <3>3 DEF OnCells
    <3>6. OnCells(z.str) /\ z.str[o].text = x.str[o].text
      BY <3>1, <3>2, <3>4, <3>5 DEF OnCells
    <3>7. w.str[o] = z.str[o]
      BY <2>14, <3>1, <3>6, TextStays
    <3>8. QED
      BY <3>6, <3>7
  <2>17. QED
    BY <2>8, <2>12, <2>13, <2>14, <2>16 DEF KeepsTexts, U
<1>8. QED
  BY <1>6, <1>7

-----------------------------------------------------------------------------
\* The invariant of the indexes.

LEMMA SoundIs ==
  ASSUME NEW x, RecordsOk(x)
  PROVE  Sound(x)
<1>1. IsTable(x.rec) /\ LinkInv(x.rec, x.links, FieldsOf(x.rec))
  BY DEF RecordsOk
<1>2. ASSUME NEW e, NEW q, HoldsLink(x.rec, e, q)
      PROVE  x.rec[q] # <<>>
  <2>1. q \in Ids
    BY <1>1, <1>2, HoldsLinkType
  <2>2. QED
    BY <1>1, <1>2, <2>1 DEF LinkInv, HoldsLink
<1>3. QED
  BY <1>1, <1>2 DEF Sound

LEMMA HeldInUse ==
  ASSUME NEW x, IsTable(x.rec), HoldersOk(x), NEW o, Str(o) \in FieldValues(x)
  PROVE  o \in InUse(x)
<1> DEFINE f == x.rec
           E == FieldsOf(f)
           H == HeldBy(f, E)
<1>1. PICK e \in E : Str(o) = f[e[1]][e[2]]
  BY FieldValuesAre
<1>2. StringsOk(x, H) /\ CellsHeld(f)
  BY DEF HoldersOk
<1>3. E \subseteq AllFields
  BY DEF FieldsOf
<1> DEFINE v == Str(o)
<1>4. v = f[e[1]][e[2]] /\ InCells(v) /\ IsValue(v) /\ Holds(v, "str") /\ v[2] = o
  BY <1>1, <1>2, ValueFacts DEF CellsHeld, IsValue
<1> HIDE DEF v, f, E
<1>5. H[v[2]] > 0
  BY <1>1, <1>3, <1>4, HeldField
<1> HIDE DEF H
<1>6. o \in Cells /\ H[o] > 0
  BY <1>4, <1>5 DEF InCells
<1>7. QED
  BY <1>2, <1>6 DEF StringsOk, TableOk, FreeOk

LEMMA HeldTextsStay ==
  ASSUME NEW x, IsTable(x.rec), HoldersOk(x), NEW y, IsTable(y.rec), HoldersOk(y),
         OnlyLoses(x, y) \/ KeepsTexts(x, y)
  PROVE  SameHeldTexts(x, y)
<1> SUFFICES ASSUME NEW o, Str(o) \in FieldValues(x), Str(o) \in FieldValues(y)
             PROVE  y.str[o].text = x.str[o].text
  BY DEF SameHeldTexts
<1>1. o \in InUse(x) /\ o \in InUse(y)
  BY HeldInUse
<1>2. QED
  BY <1>1 DEF OnlyLoses, KeepsTexts, InUse

\* The fields that are set, and the key of each field.
SetFields(x) == {e \in FieldsOf(x.rec) : e[2] \notin x.fresh[e[1]]}
Keys(x) == [e \in AllFields |-> KeyOf(x, x.rec[e[1]][e[2]])]

IndexesOk(x) == IndexOn(x, SetFields(x), Keys(x))

\* A record with a field still to be set is held by none.
Unheld(x) == \A q \in Ids : x.fresh[q] # {} => \A e : ~ HoldsLink(x.rec, e, q)

IndexIInv == StringsIInv /\ ~ failed /\ Tree(rec) /\ Unheld(Now) /\ IndexesOk(Now)

\* y is a state with the index entries that it should have.
IndexedIn(y, K) ==
  /\ NoError(y) /\ Tree(y.rec) /\ Unheld(y)
  /\ IndexOn(y, SetFields(y), K) /\ \A e \in SetFields(y) : KeyIn(K, y, e)

LEMMA IndexBecome ==
  ASSUME StringsIInv', ~ failed, NEW x, Become(x), NEW K, IndexedIn(x, K)
  PROVE  IndexIInv'
<1> DEFINE y == Now'
<1>1. /\ y.rec = x.rec /\ y.fresh = x.fresh /\ y.str = x.str /\ y.ix = x.ix /\ rec' = x.rec
      /\ failed' = (failed \/ x.err)
  BY DEF Become, Now
<1>2. Sound(y)
  <2>1. LinksIInv'
    BY DEF StringsIInv
  <2>2. RecordsOk(y)
    BY <2>1 DEF LinksIInv, RecordsOk, IsState
  <2> HIDE DEF y
  <2>3. QED
    BY <2>2, SoundIs
<1> HIDE DEF y
<1>3. ~ failed'
  BY <1>1 DEF IndexedIn, NoError
<1>4. SetFields(y) = SetFields(x) /\ Sound(x) /\ Unheld(y) /\ Tree(rec')
  BY <1>1, <1>2 DEF SetFields, Sound, Unheld, IndexedIn
<1>5. ASSUME NEW e \in SetFields(x)
      PROVE  Keys(y)[e] = K[e]
  <2>1. e \in FieldsOf(x.rec) /\ e \in AllFields
    BY DEF SetFields, FieldsOf
  <2>2. x.rec[e[1]][e[2]] \in FieldValues(x)
    BY <1>4, <2>1, FieldValuesAre DEF Sound
  <2>3. KeyOf(y, x.rec[e[1]][e[2]]) = KeyOf(x, x.rec[e[1]][e[2]])
    BY <1>1, <1>4, <2>2, SameKeys
  <2>4. QED
    BY <1>1, <2>1, <2>3 DEF IndexedIn, KeyIn, Keys
<1>6. IndexesOk(y)
  BY <1>1, <1>4, <1>5, IndexKept DEF IndexedIn, IndexesOk
<1>7. Unheld(Now)' /\ IndexesOk(Now)'
  BY <1>4, <1>6 DEF y
<1>8. QED
  BY <1>3, <1>4, <1>7 DEF IndexIInv

LEMMA IndexFacts ==
  ASSUME IndexIInv
  PROVE  /\ IsState(Now) /\ RecordsOk(Now) /\ HoldersOk(Now) /\ Forest(Now) /\ Sound(Now)
         /\ NoError(Now) /\ Tree(rec) /\ Unheld(Now) /\ ~ failed
         /\ IndexOn(Now, SetFields(Now), Keys(Now)) /\ Now.ix = ix /\ Now.rec = rec
         /\ Now.fresh = fresh /\ Now.links = links /\ SetFields(Now) \subseteq AllFields
<1>1. RecordsOk(Now) /\ HoldersOk(Now) /\ Now.rec = rec
  BY NowFacts DEF IndexIInv, StringsIInv, LinksIInv
<1>2. Sound(Now) /\ Forest(Now)
  BY <1>1, SoundIs, ForestIs DEF IndexIInv
<1>3. NoError(Now) /\ Now.ix = ix
  BY DEF Now, NoError
<1>4. SetFields(Now) \subseteq AllFields
  BY DEF SetFields, FieldsOf
<1>5. QED
  BY <1>1, <1>2, <1>3, <1>4, NowFacts DEF IndexIInv, IndexesOk

-----------------------------------------------------------------------------
\* The steps.

LEMMA StringsOnly ==
  ASSUME IndexIInv, NEW x, IsState(x), SameRecords(Now, x), x.ix = Now.ix, NoError(x), SameHeldTexts(Now, x)
  PROVE  IndexedIn(x, Keys(Now))
<1> DEFINE y == Now
           K == Keys(y)
<1>1. /\ Sound(y) /\ Tree(rec) /\ Unheld(y) /\ y.rec = rec /\ SetFields(y) \subseteq AllFields
      /\ IndexOn(y, SetFields(y), K)
  BY IndexFacts
<1>2. SameRecords(y, x) /\ SameHeldTexts(y, x) /\ x.ix = y.ix
  OBVIOUS
<1>3. \A e \in AllFields : K[e] = KeyOf(y, y.rec[e[1]][e[2]])
  BY DEF Keys
<1> HIDE DEF y, K
<1>4. SetFields(x) = SetFields(y) /\ Unheld(x) /\ Tree(x.rec) /\ x.rec = y.rec
  BY <1>1, <1>2 DEF SameRecords, SetFields, Unheld
<1>5. IndexOn(x, SetFields(x), K)
  BY <1>1, <1>2, <1>4, IndexKept
<1>6. ASSUME NEW e \in SetFields(x)
      PROVE  KeyIn(K, x, e)
  <2>1. e \in FieldsOf(y.rec) /\ e \in AllFields
    BY <1>4 DEF SetFields, FieldsOf
  <2>2. KeyOf(x, x.rec[e[1]][e[2]]) = KeyOf(y, y.rec[e[1]][e[2]])
    BY <1>1, <1>2, <1>4, <2>1, KeysUntouched
  <2>3. QED
    BY <1>3, <2>1, <2>2 DEF KeyIn
<1>7. QED
  BY <1>4, <1>5, <1>6 DEF IndexedIn, y, K

LEMMA EncodeIndexes ==
  ASSUME IndexIInv, StringsIInv', NEW s \in Texts, Encode(s)
  PROVE  IndexIInv'
<1> DEFINE x == Now
           y == Encoded(x, s)
           H == HeldBy(x.rec, FieldsOf(x.rec))
<1>1. IsState(x) /\ IsTable(x.rec) /\ HoldersOk(x) /\ NoError(x) /\ ~ failed /\ StringsOk(x, H) /\ CellsHeld(x.rec)
  BY IndexFacts DEF Sound, HoldersOk
<1>2. Become(y) /\ Cardinality(Cells \ InUse(x)) > 1
  BY DEF Encode
<1> HIDE DEF x, H
<1>3. IsState(y) /\ SameRecords(x, y) /\ y.err = x.err
  BY <1>1, EncodedFrame
<1>4. StringsOk(y, H) /\ y.ix = x.ix /\ KeepsTexts(x, y)
  BY <1>1, <1>2, EncodedOk, EncodedKeeps
<1> HIDE DEF y
<1>5. HoldersOk(y) /\ IsTable(y.rec) /\ NoError(y)
  BY <1>1, <1>3, <1>4 DEF HoldersOk, SameRecords, NoError, H
<1>6. SameHeldTexts(x, y)
  BY <1>1, <1>4, <1>5, HeldTextsStay
<1>7. IndexedIn(y, Keys(Now))
  BY <1>3, <1>4, <1>5, <1>6, StringsOnly DEF x
<1>8. QED
  BY <1>1, <1>2, <1>7, IndexBecome

LEMMA FreeEncodedIndexes ==
  ASSUME IndexIInv, StringsIInv', NEW o \in Cells, FreeEncoded(o)
  PROVE  IndexIInv'
<1> DEFINE x == Now
           z == Hold(x, o)
           y == Release(z, o)
           H == HeldBy(x.rec, FieldsOf(x.rec))
<1>1. IsState(x) /\ IsTable(x.rec) /\ HoldersOk(x) /\ NoError(x) /\ ~ failed /\ StringsOk(x, H) /\ CellsHeld(x.rec)
  BY IndexFacts DEF Sound, HoldersOk
<1>2. Become(y) /\ o \in InUse(x)
  BY DEF FreeEncoded
<1> HIDE DEF x, H
<1>3. StringsOk(y, H)
  BY <1>1, <1>2, FreeEncodedOk
<1>4. OnlyLoses(x, y)
  <2>1. CASE o \in Listed(x)
    <3>1. TableOk(x, H) /\ H \in [Cells -> Nat] /\ o \in Cells
      BY <1>1, <1>2 DEF StringsOk, TableOk, InUse
    <3>2. TableOk(z, More(H, o)) /\ SameTexts(x, z)
      BY <2>1, <3>1, HoldOk
    <3>3. o \in InUse(z) /\ More(H, o)[o] > 0
      BY <1>2, <3>1, <3>2, TextsKept, MoreLess
    <3> HIDE DEF z
    <3>4. OnlyLoses(z, y)
      BY <3>2, <3>3, ReleaseLoses
    <3>5. QED
      BY <3>2, <3>4 DEF OnlyLoses, SameTexts
  <2>2. CASE o \notin Listed(x)
    BY <1>1, <1>2, <2>2, FreeEncodedOk DEF OnlyLoses, SameTexts
  <2>3. QED
    BY <2>1, <2>2
<1>5. IsState(z) /\ SameRecords(x, z) /\ z.err = x.err /\ z.ix = x.ix
  BY <1>1, StringStepFrames, StringStepsEntries
<1> HIDE DEF z
<1>6. IsState(y) /\ SameRecords(z, y) /\ y.err = z.err /\ y.ix = z.ix
  BY <1>5, StringStepFrames, StringStepsEntries
<1> HIDE DEF y
<1>7. SameRecords(x, y) /\ y.ix = x.ix /\ NoError(y)
  BY <1>1, <1>5, <1>6, SameRecordsChain DEF NoError
<1>8. HoldersOk(y) /\ IsTable(y.rec)
  BY <1>1, <1>3, <1>7 DEF HoldersOk, SameRecords, H
<1>9. SameHeldTexts(x, y)
  BY <1>1, <1>4, <1>8, HeldTextsStay
<1>10. IndexedIn(y, Keys(Now))
  BY <1>6, <1>7, <1>9, StringsOnly DEF x
<1>11. QED
  BY <1>1, <1>2, <1>10, IndexBecome

\* The last part of every operation: the entries are put back.
LEMMA ReindexedIn ==
  ASSUME NEW z, Sound(z), Tree(z.rec), Unheld(z), NEW y, Reindexed(z, y), NoError(y),
         IndexOn(y, SetFields(z), Keys(z))
  PROVE  IndexedIn(y, Keys(z))
<1>1. y.rec = z.rec /\ y.fresh = z.fresh /\ y.str = z.str
  BY DEF Reindexed, SameRecords, SameStrings
<1>2. SetFields(y) = SetFields(z) /\ Unheld(y) /\ Tree(y.rec)
  BY <1>1 DEF SetFields, Unheld
<1>3. ASSUME NEW e \in SetFields(y)
      PROVE  KeyIn(Keys(z), y, e)
  <2>1. e \in FieldsOf(z.rec) /\ e \in AllFields
    BY <1>2 DEF SetFields, FieldsOf
  <2>2. z.rec[e[1]][e[2]] \in FieldValues(z)
    BY <2>1, FieldValuesAre DEF Sound
  <2>3. KeyOf(y, z.rec[e[1]][e[2]]) = KeyOf(z, z.rec[e[1]][e[2]])
    BY <1>1, <2>2, SameKeys
  <2>4. QED
    BY <1>1, <2>1, <2>3 DEF KeyIn, Keys
<1>4. QED
  BY <1>2, <1>3 DEF IndexedIn

LEMMA NoneAffected ==
  ASSUME NEW x, Forest(x), NEW r \in Ids, \A e : ~ HoldsLink(x.rec, e, r)
  PROVE  Affected(x, r) = <<>>
<1> DEFINE s == x.links[r]
<1>1. s \in Seq(Ids) /\ \A p : p \notin Range(s)
  BY DEF Forest
<1> HIDE DEF s
<1>2. s = <<>>
  <2>1. Len(s) \in Nat /\ \A i \in 1..Len(s) : s[i] \in Range(s)
    BY <1>1 DEF Range
  <2>2. Len(s) = 0
    BY <1>1, <2>1
  <2>3. QED
    BY <1>1, <2>2
<1>3. QED
  BY <1>2, AffectedNone DEF s

\* Nobody holds r, whose fields change: the other fields keep their keys.
LEMMA KeysBeside ==
  ASSUME NEW x, Forest(x), Sound(x), NEW y, Sound(y), SameHeldTexts(x, y), NEW r \in Ids,
         \A e : ~ HoldsLink(x.rec, e, r), \A p \in Ids : p # r => y.rec[p] = x.rec[p],
         NEW e \in FieldsOf(x.rec), e \in FieldsOf(y.rec), y.rec[e[1]][e[2]] = x.rec[e[1]][e[2]]
  PROVE  Keys(y)[e] = Keys(x)[e]
<1>1. Affected(x, r) = <<>>
  BY NoneAffected
<1>2. e \notin Range(Affected(x, r)) /\ e \in AllFields
  BY <1>1 DEF Range, FieldsOf
<1>3. KeyOf(y, y.rec[e[1]][e[2]]) = KeyOf(x, x.rec[e[1]][e[2]])
  BY <1>2, KeysStay
<1>4. QED
  BY <1>2, <1>3 DEF Keys

LEMMA RowFacts ==
  ASSUME NEW r \in Ids
  PROVE  /\ Row(r) \in Seq(AllFields) /\ Once(Row(r))
         /\ \A e : e \in Range(Row(r)) <=> e \in AllFields /\ e[1] = r
<1>1. PICK n \in Nat : Columns = 1..n
  BY ColumnsAre
<1>2. Row(r) = [c \in 1..n |-> <<r, c>>] /\ \A c \in 1..n : <<r, c>> \in AllFields
  BY <1>1 DEF Row, AllFields
<1>3. Row(r) \in Seq(AllFields)
  BY <1>2
<1>4. Once(Row(r))
  BY <1>2 DEF Once
<1>5. \A e : e \in Range(Row(r)) <=> \E c \in Columns : e = <<r, c>>
  BY <1>1, <1>2 DEF Range
<1>6. \A e : e \in AllFields /\ e[1] = r <=> \E c \in Columns : e = <<r, c>>
  BY DEF AllFields
<1>7. QED
  BY <1>3, <1>4, <1>5, <1>6

\* z is the state with a new record r, whose fields in C are still to be set.
NewIn(r, C, z) ==
  /\ z.rec = [rec EXCEPT ![r] = [c \in Columns |-> Null]] /\ z.fresh = [fresh EXCEPT ![r] = C]
  /\ z.ix = ix /\ z.str = str /\ NoError(z) /\ IsState(z)

LEMMA NewRecordIs ==
  ASSUME LinksIInv, NEW r \in Ids, NEW C
  PROVE  NewIn(r, {}, NewRecord(r)) /\ NewIn(r, C, [NewRecord(r) EXCEPT !.fresh[r] = C])
<1> DEFINE f == [rec EXCEPT ![r] = [c \in Columns |-> Null]]
           l == [links EXCEPT ![r] = <<>>]
           g == [fresh EXCEPT ![r] = {}]
           y == NewRecord(r)
           x == [NewRecord(r) EXCEPT !.fresh[r] = C]
<1>1. fresh = [q \in Ids |-> fresh[q]]
  BY NowFacts DEF LinksIInv, RecordsOk
<1>2. y = [[[Now EXCEPT !.rec = f] EXCEPT !.links = l] EXCEPT !.fresh = g]
  BY DEF NewRecord, Now
<1> DEFINE h == [g EXCEPT ![r] = C]
<1>3. h = [fresh EXCEPT ![r] = C]
  BY <1>1
<1> HIDE DEF y, f, l, g
<1>4. y.rec = f /\ y.fresh = g /\ y.ix = ix /\ y.str = str /\ y.err = FALSE /\ IsState(y)
  BY <1>2 DEF Now, IsState
<1>5. x = [y EXCEPT !.fresh = h]
  BY <1>4 DEF y
<1> HIDE DEF h, x
<1>6. x.rec = f /\ x.fresh = h /\ x.ix = ix /\ x.str = str /\ x.err = FALSE /\ IsState(x)
  BY <1>4, <1>5 DEF IsState
<1>7. NewIn(r, {}, y)
  BY <1>4 DEF NewIn, NoError, f, g
<1>8. NewIn(r, C, x)
  BY <1>3, <1>6 DEF NewIn, NoError, f
<1>9. QED
  BY <1>7, <1>8 DEF x, y

LEMMA NewRecordIndexes ==
  ASSUME IndexIInv, NEW r \in Ids, ~ Exists(r), NEW C, C \subseteq Columns, NEW z, NewIn(r, C, z), RecordsOk(z)
  PROVE  /\ Sound(z) /\ Tree(z.rec) /\ Unheld(z) /\ NoError(z) /\ IsState(z)
         /\ IndexOn(z, SetFields(Now), Keys(z))
         /\ SetFields(z) = SetFields(Now) \cup {e \in AllFields : e[1] = r /\ e[2] \notin C}
         /\ \A e \in SetFields(Now) : e[1] # r
         /\ \A e \in AllFields : e[1] = r => e \in FieldsOf(z.rec)
<1> DEFINE x == Now
           f == rec
           g == z.rec
           row == [c \in Columns |-> Null]
<1>1. /\ Forest(x) /\ Sound(x) /\ Tree(f) /\ Unheld(x) /\ IndexOn(x, SetFields(x), Keys(x))
      /\ x.rec = f /\ x.fresh = fresh /\ x.ix = ix /\ x.str = str /\ RecordsOk(x)
  BY IndexFacts, NowFacts
<1>2. /\ IsTable(f) /\ f = [q \in Ids |-> f[q]] /\ f[r] = <<>> /\ fresh \in [Ids -> SUBSET Columns]
  BY <1>1 DEF Sound, IsTable, Exists, RecordsOk
<1>3. Sound(z) /\ IsTable(g) /\ NoError(z) /\ IsState(z) /\ z.ix = ix /\ z.str = str
  BY SoundIs DEF Sound, NewIn
<1>4. g[r] = row /\ \A q \in Ids : q # r => g[q] = f[q]
  BY <1>2 DEF NewIn
<1>5. z.fresh[r] = C /\ \A q \in Ids : q # r => z.fresh[q] = fresh[q]
  BY <1>2 DEF NewIn
<1> HIDE DEF x, f, g, row
<1>6. ASSUME NEW c \in Columns
      PROVE  row # <<>> /\ row[c] = Null
  <2>1. row[c] = Null /\ c \in DOMAIN row
    BY DEF row
  <2>2. QED
    BY <2>1
<1>7. \A e \in AllFields : e[1] \in Ids /\ e[2] \in Columns
  BY DEF AllFields
<1>8. \A e \in AllFields : e[1] = r => e \in FieldsOf(g) /\ e \notin FieldsOf(f) /\ g[e[1]][e[2]] = Null
  BY <1>2, <1>4, <1>6, <1>7 DEF FieldsOf
<1>9. \A e \in AllFields : e[1] # r => (e \in FieldsOf(g) <=> e \in FieldsOf(f)) /\ g[e[1]] = f[e[1]]
  BY <1>4, <1>7 DEF FieldsOf
<1>10. \A e, q : HoldsLink(g, e, q) <=> HoldsLink(f, e, q)
  <2> SUFFICES ASSUME NEW e, NEW q PROVE HoldsLink(g, e, q) <=> HoldsLink(f, e, q)
    OBVIOUS
  <2>1. HoldsLink(g, e, q) \/ HoldsLink(f, e, q) => e \in AllFields
    BY DEF HoldsLink, FieldsOf
  <2>2. CASE e \in AllFields /\ e[1] = r
    BY <1>8, <2>2, ValueFacts DEF HoldsLink
  <2>3. CASE e \in AllFields /\ e[1] # r
    BY <1>9, <2>3 DEF HoldsLink
  <2>4. QED
    BY <2>1, <2>2, <2>3
<1>11. Tree(g)
  BY <1>1, <1>2, <1>3, <1>10, TreeFewer DEF Fewer
<1>12. \A e : ~ HoldsLink(f, e, r)
  BY <1>1, <1>2 DEF Sound
<1>13. Unheld(z)
  <2> SUFFICES ASSUME NEW q \in Ids, z.fresh[q] # {}, NEW e PROVE ~ HoldsLink(g, e, q)
    BY DEF Unheld, g
  <2>1. CASE q = r
    BY <1>10, <1>12, <2>1
  <2>2. CASE q # r
    BY <1>1, <1>5, <1>10, <2>2 DEF Unheld
  <2>3. QED
    BY <2>1, <2>2
<1>14. SetFields(x) \subseteq FieldsOf(f) /\ FieldsOf(f) \subseteq AllFields
  BY <1>1 DEF SetFields, FieldsOf
<1>15. \A e \in SetFields(x) : e[1] # r
  BY <1>8, <1>14
<1>16. SetFields(z) = SetFields(x) \cup {e \in AllFields : e[1] = r /\ e[2] \notin C}
  <2>1. \A e : e \in SetFields(z) <=> e \in FieldsOf(g) /\ e[2] \notin z.fresh[e[1]]
    BY DEF SetFields, g
  <2>2. \A e : e \in SetFields(x) <=> e \in FieldsOf(f) /\ e[2] \notin fresh[e[1]]
    BY <1>1 DEF SetFields
  <2>3. FieldsOf(g) \subseteq AllFields
    BY DEF FieldsOf
  <2>4. QED
    BY <1>5, <1>7, <1>8, <1>9, <1>14, <2>1, <2>2, <2>3
<1>17. SameHeldTexts(x, z)
  BY <1>1, <1>3 DEF SameHeldTexts
<1>18. ASSUME NEW e \in SetFields(x)
       PROVE  Keys(z)[e] = Keys(x)[e]
  <2>1. e \in FieldsOf(x.rec) /\ e \in FieldsOf(z.rec) /\ z.rec[e[1]][e[2]] = x.rec[e[1]][e[2]]
    BY <1>1, <1>9, <1>14, <1>15 DEF g
  <2>2. (\A d : ~ HoldsLink(x.rec, d, r)) /\ \A p \in Ids : p # r => z.rec[p] = x.rec[p]
    BY <1>1, <1>4, <1>12 DEF g
  <2>3. QED
    BY <1>1, <1>3, <1>17, <2>1, <2>2, KeysBeside
<1>19. IndexOn(z, SetFields(x), Keys(z))
  BY <1>1, <1>3, <1>18, IndexKept
<1>20. QED
  BY <1>3, <1>8, <1>11, <1>13, <1>15, <1>16, <1>19 DEF x, g

LEMMA CreateIndexes ==
  ASSUME IndexIInv, StringsIInv', NEW r \in Ids, CreateRaw(r) \/ Create(r)
  PROVE  IndexIInv'
<1>1. /\ LinksIInv /\ ~ Exists(r) /\ ~ failed /\ Columns \subseteq Columns /\ {} \subseteq Columns
  BY DEF CreateRaw, Create, IndexIInv, StringsIInv
<1>2. CASE CreateRaw(r)
  <2> DEFINE z == [NewRecord(r) EXCEPT !.fresh[r] = Columns]
  <2>1. Become(z)
    BY <1>2 DEF CreateRaw
  <2>2. NewIn(r, Columns, z) /\ RecordsOk(z)
    BY <1>1, NewRecordIs, NewRecordLinks
  <2> HIDE DEF z
  <2>3. /\ Sound(z) /\ Tree(z.rec) /\ Unheld(z) /\ NoError(z) /\ IsState(z)
        /\ IndexOn(z, SetFields(Now), Keys(z))
        /\ SetFields(z) = SetFields(Now) \cup {e \in AllFields : e[1] = r /\ e[2] \notin Columns}
    BY <1>1, <2>2, NewRecordIndexes
  <2>4. SetFields(z) = SetFields(Now)
    BY <2>3 DEF AllFields
  <2>5. Reindexed(z, z)
    BY <2>3 DEF Reindexed, SameRecords, SameStrings
  <2>6. IndexedIn(z, Keys(z))
    BY <2>3, <2>4, <2>5, ReindexedIn
  <2>7. QED
    BY <1>1, <2>1, <2>6, IndexBecome
<1>3. CASE Create(r)
  <2> DEFINE z == NewRecord(r)
             y == AddFields(z, Row(r))
             S == SetFields(Now)
             R == Range(Row(r))
  <2>1. Become(y)
    BY <1>3 DEF Create
  <2>2. NewIn(r, {}, z)
    BY <1>1, NewRecordIs
  <2>3. RecordsOk(z)
    <3> DEFINE u == [NewRecord(r) EXCEPT !.fresh[r] = {}]
    <3>1. NewIn(r, {}, u) /\ RecordsOk(u)
      BY <1>1, NewRecordIs, NewRecordLinks
    <3>2. z.links = u.links
      BY DEF NewRecord, Now
    <3> HIDE DEF u, z
    <3>3. SameRecords(u, z) /\ IsState(z)
      BY <2>2, <3>1, <3>2 DEF NewIn, SameRecords
    <3>4. QED
      BY <3>1, <3>3, RecordsKept
  <2> HIDE DEF z
  <2>4. /\ Sound(z) /\ Tree(z.rec) /\ Unheld(z) /\ NoError(z) /\ IsState(z)
        /\ IndexOn(z, S, Keys(z))
        /\ SetFields(z) = S \cup {e \in AllFields : e[1] = r /\ e[2] \notin {}}
        /\ (\A e \in S : e[1] # r) /\ \A e \in AllFields : e[1] = r => e \in FieldsOf(z.rec)
    BY <1>1, <2>2, <2>3, NewRecordIndexes
  <2>5. /\ Row(r) \in Seq(AllFields) /\ Once(Row(r))
        /\ \A e : e \in R <=> e \in AllFields /\ e[1] = r
    BY RowFacts
  <2> HIDE DEF S, R
  <2>6. R \cap S = {} /\ S \cup R = SetFields(z)
    BY <2>4, <2>5
  <2>7. \A e \in R : e \in FieldsOf(z.rec) /\ KeyIn(Keys(z), z, e)
    BY <2>4, <2>5 DEF KeyIn, Keys
  <2>8. IndexOn(y, S \cup R, Keys(z)) /\ y.err = z.err
    BY <2>4, <2>5, <2>6, <2>7, AddFieldsOn DEF R
  <2>9. Reindexed(z, y)
    BY <2>4, RowReindexes
  <2> HIDE DEF y
  <2>10. NoError(y)
    BY <2>4, <2>8 DEF NoError
  <2>11. IndexedIn(y, Keys(z))
    BY <2>4, <2>6, <2>8, <2>9, <2>10, ReindexedIn
  <2>12. QED
    BY <1>1, <2>1, <2>11, IndexBecome
<1>4. QED
  BY <1>2, <1>3

\* The state after an operation satisfies what was proved of every state.
LEMMA NextSound ==
  ASSUME StringsIInv', NEW x, Become(x), IsState(x)
  PROVE  RecordsOk(x) /\ Sound(x) /\ HoldersOk(x)
<1> DEFINE y == Now'
<1>1. /\ y.rec = x.rec /\ y.links = x.links /\ y.fresh = x.fresh
      /\ y.str = x.str /\ y.bucket = x.bucket /\ y.loose = x.loose
  BY DEF Become, Now
<1>2. RecordsOk(y) /\ HoldersOk(y)
  BY DEF StringsIInv, LinksIInv
<1> HIDE DEF y
<1>3. RecordsOk(x)
  BY <1>1, <1>2, RecordsKept DEF SameRecords
<1>4. HoldersOk(x)
  <2> DEFINE H == HeldBy(y.rec, FieldsOf(y.rec))
  <2>1. CellsHeld(y.rec) /\ StringsOk(y, H)
    BY <1>2 DEF HoldersOk
  <2> HIDE DEF H
  <2>2. StringsOk(x, H)
    BY <1>1, <2>1, StringsKept DEF SameStrings
  <2>3. QED
    BY <1>1, <2>1, <2>2 DEF HoldersOk, H
<1>5. QED
  BY <1>3, <1>4, SoundIs

LEMMA LetGoEntries ==
  ASSUME StringsIInv, NEW r \in Ids, Exists(r), NEW out, IsState(out), SameRecords(Now, out),
         SameStrings(Now, out),
         NEW n \in Nat, Columns = 1..n, NEW at, LetsGo(out, rec[r], r, n, at), NEW k \in 0..n
  PROVE  at[k].ix = out.ix /\ at[k].err = out.err /\ OnlyLoses(out, at[k])
<1> DEFINE P(j) == at[j].ix = out.ix /\ at[j].err = out.err /\ OnlyLoses(out, at[j])
           T == {j \in 0..n : ~ P(j)}
<1>1. /\ at[0] = out
      /\ \A j \in 1..n : at[j] = Unreferred(WithoutLink(at[j - 1], rec[r][j], r), rec[r][j])
  BY DEF LetsGo
<1>2. IsTable(rec) /\ rec[r] # <<>> /\ CellsHeld(rec) /\ LinksIInv
  BY NowFacts DEF StringsIInv, LinksIInv, RecordsOk, HoldersOk, Exists
<1>3. P(0)
  BY <1>1 DEF OnlyLoses
<1>4. ASSUME NEW j \in 1..n, P(j - 1)
      PROVE  P(j)
  <2> DEFINE e == <<r, j>>
             v == rec[r][j]
             a == at[j - 1]
             b == WithoutLink(a, v, r)
             E == FieldsLeft(r, j - 1)
             H == HeldBy(rec, E)
  <2>1. j - 1 \in 0..n
    OBVIOUS
  <2>2. StringsOk(a, H)
    BY <1>2, <2>1, LetGoHolders
  <2>3. E \subseteq AllFields /\ e \in E /\ v = rec[e[1]][e[2]] /\ IsValue(v) /\ InCells(v)
    BY <1>2, FieldsOfFacts DEF IsTable, CellsHeld, FieldsLeft, FieldsOf
  <2>4. a.ix = out.ix /\ a.err = out.err /\ OnlyLoses(out, a)
    BY <1>4
  <2>5. at[j] = Unreferred(b, v)
    BY <1>1
  <2> HIDE DEF E, e, v, a, P, T
  <2>6. Holds(v, "str") => H[v[2]] > 0
    <3>1. /\ HeldBy(rec, E) = Plus(HeldBy(rec, E \ {e}), v)
          /\ HeldBy(rec, E \ {e}) = Minus(HeldBy(rec, E), v)
          /\ Holds(v, "str") => HeldBy(rec, E)[v[2]] > 0
      BY <2>3, HeldField, SMTT(30)
    <3>2. QED
      BY <3>1
  <2> HIDE DEF H
  <2>7. IsState(a)
    BY <2>2 DEF StringsOk, TableOk
  <2>8. IsState(b) /\ SameStrings(a, b) /\ b.ix = a.ix /\ b.err = a.err
    BY <2>7, WithoutLinkFrame
  <2> HIDE DEF b
  <2>9. StringsOk(b, H)
    BY <2>2, <2>8, StringsKept
  <2>10. OnlyLoses(b, Unreferred(b, v))
    BY <2>3, <2>6, <2>9, ReferredLoses
  <2>11. Unreferred(b, v).ix = b.ix /\ Unreferred(b, v).err = b.err
    BY <2>8, ReferredEntries, ReferredFrames
  <2>12. OnlyLoses(a, b)
    BY <2>8 DEF OnlyLoses, SameStrings
  <2>13. OnlyLoses(out, Unreferred(b, v))
    BY <2>4, <2>10, <2>12, LosesMore
  <2>14. QED
    BY <2>4, <2>5, <2>8, <2>11, <2>13 DEF P
<1> HIDE DEF P
<1>5. T = {}
  <2> SUFFICES ASSUME T # {} PROVE FALSE
    OBVIOUS
  <2>1. PICK j \in T : \A i \in T : j <= i
    <3>1. T \subseteq Nat
      OBVIOUS
    <3> HIDE DEF T
    <3>2. QED
      BY <3>1, LeastElement
  <2>2. j \in 0..n /\ ~ P(j)
    OBVIOUS
  <2>3. j # 0
    BY <1>3, <2>2
  <2>4. j - 1 \in 0..n /\ ~ (j <= j - 1) /\ j \in 1..n
    BY <2>2, <2>3
  <2>5. P(j - 1)
    BY <2>1, <2>4
  <2>6. QED
    BY <1>4, <2>2, <2>4, <2>5
<1>6. P(k)
  BY <1>5
<1>7. QED
  BY <1>6 DEF P

\* What is left when the fields of r are gone.
LEMMA RecordGone ==
  ASSUME IndexIInv, NEW r \in Ids, \A e : ~ HoldsLink(rec, e, r),
         NEW f, IsTable(f), f[r] = <<>>, \A p \in Ids : p # r => f[p] = rec[p],
         NEW z, Sound(z), z.rec = f, z.fresh = fresh, SameHeldTexts(Now, z), NoError(z),
         NEW R, \A e : e \in R <=> e \in AllFields /\ e[1] = r,
         IndexOn(z, SetFields(Now) \ R, Keys(Now))
  PROVE  IndexedIn(z, Keys(Now))
<1> DEFINE x == Now
<1>1. /\ Forest(x) /\ Sound(x) /\ Tree(rec) /\ Unheld(x) /\ IsTable(rec)
      /\ x.rec = rec /\ x.fresh = fresh
  BY IndexFacts, NowFacts DEF Sound
<1> HIDE DEF x
<1>2. \A e : e \in FieldsOf(f) => e \in FieldsOf(rec) /\ e \in AllFields /\ e[1] # r /\ f[e[1]] = rec[e[1]]
  BY DEF FieldsOf, AllFields
<1>3. \A e : e \in FieldsOf(rec) /\ e[1] # r => e \in FieldsOf(f)
  BY DEF FieldsOf, AllFields
<1>4. Fewer(rec, f)
  BY <1>2 DEF Fewer, HoldsLink
<1>5. Tree(z.rec)
  BY <1>1, <1>4, TreeFewer
<1>6. Unheld(z)
  BY <1>1, <1>4 DEF Unheld, Fewer
<1>7. SetFields(z) = SetFields(x) \ R
  <2>1. \A e : e \in SetFields(z) <=> e \in FieldsOf(f) /\ e[2] \notin fresh[e[1]]
    BY DEF SetFields
  <2>2. \A e : e \in SetFields(x) <=> e \in FieldsOf(rec) /\ e \in AllFields /\ e[2] \notin fresh[e[1]]
    BY <1>1 DEF SetFields, FieldsOf
  <2>3. QED
    BY <1>2, <1>3, <2>1, <2>2
<1>8. ASSUME NEW e \in SetFields(z)
      PROVE  KeyIn(Keys(x), z, e)
  <2>1. e \in FieldsOf(x.rec) /\ e \in FieldsOf(z.rec) /\ z.rec[e[1]][e[2]] = x.rec[e[1]][e[2]] /\ e \in AllFields
    BY <1>1, <1>2 DEF SetFields
  <2>2. (\A d : ~ HoldsLink(x.rec, d, r)) /\ \A p \in Ids : p # r => z.rec[p] = x.rec[p]
    BY <1>1
  <2>3. Keys(z)[e] = Keys(x)[e]
    BY <1>1, <2>1, <2>2, KeysBeside DEF x
  <2>4. QED
    BY <2>1, <2>3 DEF KeyIn, Keys
<1>9. QED
  BY <1>5, <1>6, <1>7, <1>8 DEF IndexedIn, x

LEMMA DeleteIndexes ==
  ASSUME IndexIInv, StringsIInv', NEW r \in Ids, NEW strict, Delete(r, strict)
  PROVE  IndexIInv'
<1> DEFINE w == Now
           out == DelFields(w, Row(r), strict)
           x == LetGo(out, r, rec[r])
           f == [rec EXCEPT ![r] = <<>>]
           z == [x EXCEPT !.rec[r] = <<>>]
           S == SetFields(w)
           R == Range(Row(r))
           K == Keys(w)
<1>1. Exists(r) /\ fresh[r] = {} /\ links[r] = <<>> /\ Become(IF out.err THEN out ELSE z)
  BY DEF Delete
<1>2. /\ IsState(w) /\ Forest(w) /\ Sound(w) /\ IsTable(rec) /\ NoError(w) /\ HoldersOk(w) /\ ~ failed
      /\ IndexOn(w, S, K) /\ w.rec = rec /\ w.links = links /\ w.fresh = fresh /\ S \subseteq AllFields
      /\ StringsIInv /\ LinksIInv
  BY IndexFacts, NowFacts DEF Sound, IndexIInv, StringsIInv
<1>3. \A e : ~ HoldsLink(rec, e, r)
  <2>1. \A p : p \in Range(links[r]) <=> \E c : HoldsLink(rec, <<p, c>>, r)
    BY <1>2 DEF Forest
  <2>2. \A p : p \notin Range(links[r])
    BY <1>1 DEF Range
  <2>3. ASSUME NEW e, HoldsLink(rec, e, r) PROVE FALSE
    <3>1. e = <<e[1], e[2]>>
      BY <1>2, <2>3, HoldsLinkType
    <3>2. HoldsLink(rec, <<e[1], e[2]>>, r)
      BY <2>3, <3>1
    <3>3. QED
      BY <2>1, <2>2, <3>2
  <2>4. QED
    BY <2>3
<1>4. Row(r) \in Seq(AllFields) /\ Once(Row(r)) /\ \A e : e \in R <=> e \in AllFields /\ e[1] = r
  BY RowFacts
<1>5. R \subseteq S
  BY <1>1, <1>2, <1>4 DEF SetFields, FieldsOf, Exists
<1>keys. \A e \in R : e \in FieldsOf(w.rec) /\ KeyIn(K, w, e)
  BY <1>2, <1>5 DEF SetFields, FieldsOf, Keys, KeyIn
<1> HIDE DEF w, S, K, R
<1>6. IndexOn(out, S \ R, K) /\ NoError(out)
  BY <1>2, <1>4, <1>5, <1>keys, DelFieldsOn DEF R
<1>7. IsState(out) /\ SameRecords(w, out) /\ SameStrings(w, out)
  BY <1>2, RowReindexes DEF Reindexed
<1> HIDE DEF out
<1>8. PICK n \in Nat : Columns = 1..n
  BY ColumnsAre
<1>9. DOMAIN rec[r] = 1..n
  BY <1>1, <1>2, <1>8 DEF Exists, IsTable
<1>10. PICK at : LetsGo(out, rec[r], r, n, at)
  BY <1>9, LetGoSteps
<1>11. x = at[n] /\ n \in 0..n
  BY <1>10 DEF LetsGo
<1> HIDE DEF x
<1>12. SameRecords(Now, out) /\ SameStrings(Now, out)
  BY <1>7 DEF w
<1>13. IsState(x) /\ x.rec = rec /\ x.fresh = fresh
  BY <1>1, <1>2, <1>7, <1>8, <1>10, <1>11, <1>12, LetGoLinks
<1>14. x.ix = out.ix /\ x.err = out.err /\ OnlyLoses(out, x)
  BY <1>1, <1>2, <1>7, <1>8, <1>10, <1>11, <1>12, LetGoEntries
<1>15. IsState(z) /\ z.rec = f /\ z.fresh = fresh /\ SameStrings(x, z) /\ z.ix = x.ix /\ z.err = x.err
  <2>1. z = [x EXCEPT !.rec = f]
    BY <1>13 DEF IsState
  <2> HIDE DEF z, f
  <2>2. QED
    BY <1>13, <2>1 DEF IsState, SameStrings
<1>16. f[r] = <<>> /\ \A p \in Ids : p # r => f[p] = rec[p]
  BY <1>2 DEF IsTable
<1> HIDE DEF z, f
<1>17. Become(z)
  BY <1>1, <1>6 DEF NoError
<1>18. Sound(z) /\ HoldersOk(z) /\ IsTable(f) /\ IsTable(z.rec)
  BY <1>15, <1>17, NextSound DEF Sound
<1>19. NoError(z)
  BY <1>6, <1>14, <1>15 DEF NoError
<1>20. OnlyLoses(w, z)
  BY <1>7, <1>14, <1>15 DEF OnlyLoses, SameStrings
<1>21. SameHeldTexts(w, z)
  BY <1>2, <1>18, <1>20, HeldTextsStay
<1>22. IndexOn(z, S \ R, K)
  BY <1>6, <1>14, <1>15, IndexKept
<1>23. IndexedIn(z, Keys(Now))
  BY <1>3, <1>4, <1>15, <1>16, <1>18, <1>19, <1>21, <1>22, RecordGone DEF w, S, K
<1>24. QED
  BY <1>2, <1>17, <1>23, IndexBecome

-----------------------------------------------------------------------------
\* A field gets a value.

WithCell(f, r, c, v) == [f EXCEPT ![r][c] = v]

LEMMA CellStored ==
  ASSUME NEW f, IsTable(f), NEW r \in Ids, NEW c \in Columns, f[r] # <<>>, NEW v, IsValue(v),
         NEW g, g = WithCell(f, r, c, v)
  PROVE  /\ IsTable(g) /\ FieldsOf(g) = FieldsOf(f) /\ <<r, c>> \in FieldsOf(f)
         /\ IsValue(f[r][c]) /\ g[r][c] = v /\ g[r] # <<>>
         /\ \A p \in Ids : p # r => g[p] = f[p]
         /\ \A e \in FieldsOf(f) : e # <<r, c>> => g[e[1]][e[2]] = f[e[1]][e[2]]
<1>1. /\ f = [p \in Ids |-> f[p]] /\ f[r] = [d \in Columns |-> f[r][d]]
      /\ \A p \in Ids : f[p] = <<>> \/ f[p] = [d \in Columns |-> f[p][d]]
      /\ \A e \in FieldsOf(f) : IsValue(f[e[1]][e[2]])
  BY DEF IsTable
<1>2. <<r, c>> \in FieldsOf(f)
  BY FieldsOfFacts
<1>3. IsValue(f[r][c])
  BY <1>1, <1>2
<1> DEFINE row == [f[r] EXCEPT ![c] = v]
<1>4. row = [d \in Columns |-> row[d]] /\ row[c] = v /\ \A d \in Columns : d # c => row[d] = f[r][d]
  BY <1>1
<1>5. g = [f EXCEPT ![r] = row]
  BY DEF WithCell
<1> HIDE DEF row
<1>6. g = [p \in Ids |-> g[p]] /\ g[r] = row /\ \A p \in Ids : p # r => g[p] = f[p]
  BY <1>1, <1>5
<1>7. row # <<>>
  BY <1>4
<1>8. FieldsOf(g) = FieldsOf(f)
  <2>1. \A e \in AllFields : e[1] \in Ids
    BY DEF AllFields
  <2>2. QED
    BY <1>6, <1>7, <2>1 DEF FieldsOf
<1>9. ASSUME NEW e \in FieldsOf(f), e # <<r, c>>
      PROVE  g[e[1]][e[2]] = f[e[1]][e[2]]
  <2>1. e = <<e[1], e[2]>> /\ e[1] \in Ids /\ e[2] \in Columns
    BY <1>9 DEF FieldsOf, AllFields
  <2>2. CASE e[1] = r
    <3>1. e[2] # c
      BY <1>9, <2>1, <2>2
    <3>2. QED
      BY <1>4, <1>6, <2>1, <2>2, <3>1
  <2>3. CASE e[1] # r
    BY <1>6, <2>1, <2>3
  <2>4. QED
    BY <2>2, <2>3
<1>10. IsTable(g)
  <2>1. \A p \in Ids : g[p] = <<>> \/ g[p] = [d \in Columns |-> g[p][d]]
    BY <1>1, <1>4, <1>6
  <2>2. ASSUME NEW e \in FieldsOf(g)
        PROVE  IsValue(g[e[1]][e[2]])
    <3>1. CASE e = <<r, c>>
      <4>1. g[e[1]][e[2]] = v
        BY <1>4, <1>6, <3>1
      <4>2. QED
        BY <4>1
    <3>2. CASE e # <<r, c>>
      BY <1>1, <1>8, <1>9, <3>2
    <3>3. QED
      BY <3>1, <3>2
  <2>3. QED
    BY <1>6, <2>1, <2>2 DEF IsTable
<1>11. QED
  BY <1>2, <1>3, <1>4, <1>6, <1>7, <1>8, <1>9, <1>10

LEMMA LinkStored ==
  ASSUME NEW f, IsTable(f), NEW r \in Ids, NEW c \in Columns, f[r] # <<>>, NEW v, IsValue(v),
         NEW g, g = WithCell(f, r, c, v), NEW e, NEW q
  PROVE  HoldsLink(g, e, q) <=> IF e = <<r, c>> THEN v = Link(q) ELSE HoldsLink(f, e, q)
<1>1. /\ FieldsOf(g) = FieldsOf(f) /\ <<r, c>> \in FieldsOf(f) /\ g[r][c] = v
      /\ \A d \in FieldsOf(f) : d # <<r, c>> => g[d[1]][d[2]] = f[d[1]][d[2]]
  BY CellStored
<1>2. CASE e = <<r, c>>
  <2>1. g[e[1]][e[2]] = v /\ e \in FieldsOf(g)
    BY <1>1, <1>2
  <2>2. QED
    BY <1>2, <2>1 DEF HoldsLink
<1>3. CASE e # <<r, c>>
  BY <1>1, <1>3 DEF HoldsLink
<1>4. QED
  BY <1>2, <1>3

\* The table f before a store, h without the field, g after it: no cycle, and no record
\* reached in two ways, and neither the record that the field held nor the one that it
\* holds now reaches r.
LEMMA TreeStored ==
  ASSUME NEW f, IsTable(f), Tree(f), NEW r \in Ids, NEW c \in Columns, f[r] # <<>>,
         NEW v, IsValue(v), NEW h, h = WithCell(f, r, c, Null), NEW g, g = WithCell(f, r, c, v),
         \A w \in Ids : v = Link(w) => Apart(h, r, w)
  PROVE  /\ Tree(g)
         /\ \A q \in Ids : v = Link(q) \/ f[r][c] = Link(q) => ~ Reaches(f, q, r)
<1> DEFINE d == <<r, c>>
           old == f[r][c]
<1>1. IsValue(Null)
  BY DEF IsValue
<1>2. IsTable(h) /\ IsTable(g) /\ IsValue(old) /\ d \in FieldsOf(f)
  BY <1>1, CellStored
<1>3. \A e, q : HoldsLink(h, e, q) <=> e # d /\ HoldsLink(f, e, q)
  <2>1. \A e, q : HoldsLink(h, e, q) <=> IF e = d THEN Null = Link(q) ELSE HoldsLink(f, e, q)
    BY <1>1, LinkStored
  <2>2. QED
    BY <2>1, ValueFacts
<1>4. \A e, q : HoldsLink(g, e, q) <=> IF e = d THEN v = Link(q) ELSE HoldsLink(f, e, q)
  BY LinkStored
<1>5. \A q : HoldsLink(f, d, q) <=> old = Link(q)
  BY <1>2 DEF HoldsLink
<1>6. d[1] = r
  OBVIOUS
<1> HIDE DEF d, old
<1>7. Fewer(f, h)
  BY <1>3 DEF Fewer
<1>8. Tree(h)
  BY <1>2, <1>7, TreeFewer
<1>9. Tree(g)
  <2>1. CASE \E w \in Ids : v = Link(w)
    <3>1. PICK w \in Ids : v = Link(w)
      BY <2>1
    <3>2. \A q : v = Link(q) <=> q = w
      BY <3>1, ValueFacts
    <3>3. OneMore(h, g, d, w)
      BY <1>3, <1>4, <3>2 DEF OneMore
    <3>4. Apart(h, d[1], w)
      BY <1>6, <3>1
    <3>5. QED
      BY <1>2, <1>6, <1>8, <3>3, <3>4, TreeMore
  <2>2. CASE ~ \E w \in Ids : v = Link(w)
    <3>1. \A q : v # Link(q)
      BY <2>2, ValueKinds, ValueFacts
    <3>2. Fewer(h, g)
      BY <1>3, <1>4, <3>1 DEF Fewer
    <3>3. QED
      BY <1>2, <1>8, <3>2, TreeFewer
  <2>3. QED
    BY <2>1, <2>2
<1>10. ASSUME NEW q \in Ids, old = Link(q)
       PROVE  ~ Reaches(f, q, r)
  BY <1>5, <1>6, <1>10 DEF Tree
<1>11. ASSUME NEW w \in Ids, v = Link(w), Reaches(f, w, r)
       PROVE  FALSE
  <2>1. Reaches(h, w, r)
    <3>1. CASE \E q \in Ids : old = Link(q)
      <4>1. PICK q \in Ids : old = Link(q)
        BY <3>1
      <4>2. \A p : old = Link(p) <=> p = q
        BY <4>1, ValueFacts
      <4>3. OneMore(h, f, d, q)
        BY <1>3, <1>5, <4>2 DEF OneMore
      <4>4. Reaches(h, w, r) \/ (Reaches(h, w, d[1]) /\ Reaches(h, q, r))
        BY <1>2, <1>11, <4>3, ReachMore
      <4>5. QED
        BY <1>6, <4>4
    <3>2. CASE ~ \E q \in Ids : old = Link(q)
      <4>1. \A q : old # Link(q)
        BY <1>2, <3>2, ValueKinds, ValueFacts
      <4>2. Fewer(h, f)
        BY <1>3, <1>5, <4>1 DEF Fewer
      <4>3. QED
        BY <1>2, <1>11, <4>2, ReachFewer
    <3>3. QED
      BY <3>1, <3>2
  <2>2. Apart(h, r, w) /\ Reaches(h, r, r)
    BY <1>11, ReachSelf
  <2>3. QED
    BY <2>1, <2>2 DEF Apart
<1>12. QED
  BY <1>9, <1>10, <1>11 DEF old

LEMMA MayLinkApart ==
  ASSUME ~ misused', NEW r \in Ids, NEW c \in Columns, NEW v, MayLink(r, c, v), NEW w \in Ids, v = Link(w)
  PROVE  fresh[w] = {} /\ Apart(WithCell(rec, r, c, Null), r, w)
<1> DEFINE others == [rec EXCEPT ![r][c] = Null]
<1>1. Holds(v, "rec") /\ v[2] = w
  BY ValueFacts
<1>2. fresh[w] = {} /\ LET above == {p \in Ids : Reaches(others, p, r)}
                           below == {q \in Ids : Reaches(others, v[2], q)}
                       IN \A p \in above, q \in below : ~ Reaches(others, p, q)
  BY <1>1 DEF MayLink, CarefulLink
<1> HIDE DEF others
<1>3. Apart(others, r, w)
  BY <1>1, <1>2 DEF Apart
<1>4. QED
  BY <1>2, <1>3 DEF others, WithCell

\* The ancestors of r are those that it had before.
LEMMA AffectedStored ==
  ASSUME NEW x, Forest(x), NEW r \in Ids, NEW old, NEW v, IsValue(old), IsValue(v),
         \A q \in Ids : v = Link(q) \/ old = Link(q) => ~ Reaches(x.rec, q, r),
         NEW y, y.links = Linked(Unlinked(x.links, old, r), v, r),
         \A p \in Ids : p # r => y.rec[p] = x.rec[p]
  PROVE  Affected(y, r) = Affected(x, r)
<1> DEFINE ls == Unlinked(x.links, old, r)
<1>1. x.links \in [Ids -> Seq(Ids)]
  BY DEF Forest
<1>2. DOMAIN ls = Ids /\ \A q \in Ids : old # Link(q) => ls[q] = x.links[q]
  <2>1. Holds(old, "rec") => old = Link(old[2])
    BY ValueKinds
  <2>2. QED
    BY <1>1, <2>1 DEF Unlinked
<1>3. y.links = Linked(ls, v, r)
  OBVIOUS
<1> HIDE DEF ls
<1>4. \A q \in Ids : v # Link(q) => y.links[q] = ls[q]
  <2>1. Holds(v, "rec") => v = Link(v[2])
    BY ValueKinds
  <2>2. QED
    BY <1>2, <1>3, <2>1 DEF Linked
<1>5. \A q \in Ids : Reaches(x.rec, q, r) => y.links[q] = x.links[q]
  BY <1>2, <1>4
<1>6. QED
  BY <1>5, AffectedSame

LEMMA UnheldStored ==
  ASSUME NEW x, IsTable(x.rec), Unheld(x), NEW r \in Ids, NEW c \in Columns, x.rec[r] # <<>>,
         NEW v, IsValue(v), \A q \in Ids : v = Link(q) => x.fresh[q] = {},
         NEW z, z.rec = WithCell(x.rec, r, c, v), \A q \in Ids : z.fresh[q] # {} => x.fresh[q] # {}
  PROVE  Unheld(z)
<1> DEFINE f == x.rec
           g == z.rec
<1>1. IsTable(f) /\ f[r] # <<>> /\ g = WithCell(f, r, c, v)
  OBVIOUS
<1> HIDE DEF f, g
<1>2. \A e, q : HoldsLink(g, e, q) => v = Link(q) \/ HoldsLink(f, e, q)
  BY <1>1, LinkStored
<1>3. QED
  BY <1>2 DEF Unheld, f, g

LEMMA SetNewFieldIndexes ==
  ASSUME ~ misused', IndexIInv, StringsIInv', NEW r \in Ids, NEW c \in Columns, NEW v,
         SetNewField(r, c, v), IsValue(v), InCells(v), StringIn(Now, v)
  PROVE  IndexIInv'
<1> DEFINE w == Now
           f == [rec EXCEPT ![r][c] = v]
           g == [fresh EXCEPT ![r] = @ \ {c}]
           x == [w EXCEPT !.rec[r][c] = v, !.fresh[r] = @ \ {c}]
           a == Referred(x, v)
           b == AddField(a, r, c)
           d == WithLink(b, v, r)
           z == PutBack(d, r)
           S == SetFields(w)
           K == Keys(w)
           L == Keys(z)
           H == HeldBy(rec, FieldsOf(rec))
           e == <<r, c>>
<1>1. /\ rec[r] # <<>> /\ c \in fresh[r] /\ MayLink(r, c, v) /\ Become(z)
  BY DEF SetNewField, Exists
<1>2. /\ IsState(w) /\ Forest(w) /\ Sound(w) /\ IsTable(rec) /\ Tree(rec) /\ Unheld(w) /\ NoError(w)
      /\ HoldersOk(w) /\ ~ failed /\ IndexOn(w, S, K) /\ S \subseteq AllFields
      /\ w.rec = rec /\ w.links = links /\ w.fresh = fresh /\ StringsOk(w, H)
      /\ fresh \in [Ids -> SUBSET Columns] /\ rec[r][c] = Null /\ links \in [Ids -> Seq(Ids)]
  <2>1. RecordsOk(w) /\ w.rec = rec /\ w.fresh = fresh /\ HoldersOk(w) /\ Forest(w) /\ w.links = links
    BY IndexFacts, NowFacts
  <2>2. fresh \in [Ids -> SUBSET Columns] /\ rec[r][c] = Null /\ StringsOk(w, H)
    BY <1>1, <2>1 DEF RecordsOk, HoldersOk
  <2>3. QED
    BY <2>1, <2>2, IndexFacts DEF Sound, Forest
<1>3. \A d0 : ~ HoldsLink(rec, d0, r)
  BY <1>1, <1>2 DEF Unheld
<1>4. IsState(x) /\ x.rec = f /\ x.fresh = g /\ x.links = links /\ x.ix = w.ix /\ x.err = w.err /\ SameStrings(w, x)
  <2>1. x = [[w EXCEPT !.rec = f] EXCEPT !.fresh = g]
    BY <1>2
  <2> HIDE DEF x, f, g
  <2>2. QED
    BY <1>2, <2>1 DEF IsState, SameStrings
<1>5. g[r] = fresh[r] \ {c} /\ \A q \in Ids : g[q] \subseteq fresh[q] /\ (q # r => g[q] = fresh[q])
  BY <1>2
<1>6. f = WithCell(rec, r, c, v)
  BY DEF WithCell
<1>7. \A q \in Ids : v = Link(q) => fresh[q] = {} /\ Apart(WithCell(rec, r, c, Null), r, q)
  BY <1>1, MayLinkApart
<1> HIDE DEF x, f, g, w, H
<1>8. Tree(f) /\ \A q \in Ids : v = Link(q) \/ rec[r][c] = Link(q) => ~ Reaches(rec, q, r)
  BY <1>1, <1>2, <1>6, <1>7, TreeStored
<1>9. /\ FieldsOf(f) = FieldsOf(rec) /\ e \in FieldsOf(rec) /\ (\A p \in Ids : p # r => f[p] = rec[p])
      /\ \A d0 \in FieldsOf(rec) : d0 # e => f[d0[1]][d0[2]] = rec[d0[1]][d0[2]]
  BY <1>1, <1>2, <1>6, CellStored
<1>10. IsState(a) /\ SameRecords(x, a) /\ a.err = x.err /\ a.ix = x.ix
  BY <1>4, ReferredFrames, ReferredEntries
<1>11. OnlyLoses(w, a)
  <2>1. StringsOk(x, H)
    BY <1>2, <1>4, StringsKept
  <2>2. StringIn(x, v)
    BY <1>2, <1>4, StringsKept DEF StringIn, w
  <2>3. OnlyLoses(x, a)
    BY <2>1, <2>2, ReferredLoses
  <2>4. QED
    BY <1>4, <2>3 DEF OnlyLoses, SameStrings
<1> HIDE DEF a
<1>12. IsState(b) /\ SameRecords(a, b) /\ SameStrings(a, b)
  BY <1>10, AddFieldReindexes DEF Reindexed
<1>13. b = AddField(a, e[1], e[2])
  OBVIOUS
<1> HIDE DEF b
<1>14. IsState(d) /\ d.links = Linked(b.links, v, r) /\ d.rec = b.rec /\ d.fresh = b.fresh /\ SameStrings(b, d)
       /\ d.ix = b.ix /\ d.err = b.err
  BY <1>12, WithLinkFrame
<1> HIDE DEF d
<1>15. d.rec = f /\ d.fresh = g /\ d.links = Linked(links, v, r) /\ a.rec = f
  BY <1>4, <1>10, <1>12, <1>14 DEF SameRecords
<1>16. z = AddFields(d, Affected(d, r))
  BY DEF PutBack
<1>17. Affected(d, r) = <<>>
  <2>1. Affected(w, r) = <<>>
    BY <1>2, <1>3, NoneAffected
  <2>2. Unlinked(links, Null, r) = links /\ IsValue(Null)
    BY ValueFacts DEF Unlinked, IsValue
  <2>3. d.links = Linked(Unlinked(w.links, Null, r), v, r) /\ \A p \in Ids : p # r => d.rec[p] = w.rec[p]
    BY <1>2, <1>9, <1>15, <2>2
  <2>4. \A q \in Ids : v = Link(q) \/ Null = Link(q) => ~ Reaches(w.rec, q, r)
    BY <1>2, <1>8
  <2>5. Affected(d, r) = Affected(w, r)
    <3> DEFINE none == Null
    <3>1. IsValue(none) /\ d.links = Linked(Unlinked(w.links, none, r), v, r)
      BY <2>2, <2>3
    <3>2. \A q \in Ids : v = Link(q) \/ none = Link(q) => ~ Reaches(w.rec, q, r)
      BY <2>4
    <3>3. Forest(w) /\ \A p \in Ids : p # r => d.rec[p] = w.rec[p]
      BY <1>2, <2>3
    <3> HIDE DEF none
    <3>4. QED
      BY <3>1, <3>2, <3>3, AffectedStored
  <2>6. QED
    BY <2>1, <2>5
<1>18. Reindexed(d, z)
  <2>1. d.links \in [Ids -> Seq(Ids)]
    <3>1. links \in [Ids -> Seq(Ids)] /\ d.links = Linked(links, v, r)
      BY <1>2, <1>15
    <3>2. QED
      BY <3>1, LinkedType
  <2>2. QED
    BY <1>14, <2>1, TakeOutReindexes
<1> HIDE DEF z
<1>19. IsState(z) /\ z.rec = f /\ z.fresh = g /\ SameStrings(a, z)
  BY <1>12, <1>14, <1>15, <1>18, SameStringsChain DEF Reindexed, SameRecords
<1>20. Sound(z) /\ HoldersOk(z) /\ IsTable(z.rec)
  BY <1>1, <1>19, NextSound DEF Sound
<1>21. OnlyLoses(w, z)
  BY <1>11, <1>19 DEF OnlyLoses, SameStrings
<1>22. SameHeldTexts(w, z)
  BY <1>2, <1>20, <1>21, HeldTextsStay
<1>23. e \in AllFields /\ e \notin S /\ SetFields(z) = S \cup {e}
  <2>1. \A d0 : d0 \in SetFields(z) <=> d0 \in FieldsOf(rec) /\ d0[2] \notin g[d0[1]]
    BY <1>9, <1>19 DEF SetFields
  <2>2. \A d0 : d0 \in S <=> d0 \in FieldsOf(rec) /\ d0[2] \notin fresh[d0[1]]
    BY <1>2 DEF SetFields
  <2>3. \A d0 \in FieldsOf(rec) : d0 \in AllFields /\ d0[1] \in Ids /\ d0 = <<d0[1], d0[2]>>
    BY DEF FieldsOf, AllFields
  <2>4. e[1] = r /\ e[2] = c
    OBVIOUS
  <2> HIDE DEF S
  <2>5. \A d0 \in FieldsOf(rec) : d0 = e <=> d0[1] = r /\ d0[2] = c
    BY <2>3
  <2> HIDE DEF e
  <2>6. QED
    BY <1>1, <1>5, <1>9, <2>1, <2>2, <2>3, <2>4, <2>5
<1> HIDE DEF S, e
<1>24. ASSUME NEW d0 \in S
       PROVE  L[d0] = K[d0]
  <2>1. d0 \in FieldsOf(w.rec) /\ d0 \in FieldsOf(z.rec) /\ z.rec[d0[1]][d0[2]] = w.rec[d0[1]][d0[2]]
    BY <1>2, <1>9, <1>19, <1>23 DEF S, SetFields
  <2>2. (\A d1 : ~ HoldsLink(w.rec, d1, r)) /\ \A p \in Ids : p # r => z.rec[p] = w.rec[p]
    BY <1>2, <1>3, <1>9, <1>19
  <2>3. QED
    BY <1>2, <1>20, <1>22, <2>1, <2>2, KeysBeside
<1>25. KeyIn(L, a, e)
  <2>1. a.rec[e[1]][e[2]] \in FieldValues(a) /\ Sound(a)
    <3>1. e \in FieldsOf(a.rec) /\ Sound(a)
      BY <1>9, <1>15, <1>19, <1>20 DEF Sound
    <3>2. QED
      BY <3>1, FieldValuesAre DEF Sound
  <2>2. KeyOf(z, a.rec[e[1]][e[2]]) = KeyOf(a, a.rec[e[1]][e[2]])
    BY <1>15, <1>19, <2>1, SameKeys DEF SameStrings
  <2>3. QED
    BY <1>15, <1>19, <1>23, <2>2 DEF KeyIn, Keys
<1> HIDE DEF K
<1>26. IndexOn(a, S, L)
  <2> HIDE DEF L
  <2>1. QED
    BY <1>2, <1>4, <1>10, <1>24, IndexKept
<1>27. (\A d0 \in SetFields(z) : KeyIn(L, z, d0))
  BY <1>9, <1>19 DEF KeyIn, Keys, SetFields, FieldsOf
<1> HIDE DEF L
<1>28. IndexOn(b, S \cup {e}, L) /\ b.err = a.err
  BY <1>10, <1>13, <1>23, <1>25, <1>26, AddFieldOn
<1>29. IndexOn(z, S \cup {e}, L) /\ z.err = d.err
  <2> DEFINE none == Affected(d, r)
             E == S \cup {e}
  <2>1. none \in Seq(AllFields) /\ Once(none) /\ Range(none) = {}
    BY <1>17 DEF Once, Range
  <2>2. IndexOn(d, E, L)
    BY <1>14, <1>28, IndexKept
  <2>3. Sound(d)
    BY <1>15, <1>19, <1>20 DEF Sound
  <2>4. z = AddFields(d, none)
    BY <1>16
  <2> HIDE DEF none, E
  <2>5. IndexOn(z, E \cup Range(none), L) /\ z.err = d.err
    <3>1. Range(none) \cap E = {} /\ \A d0 \in Range(none) : d0 \in FieldsOf(d.rec) /\ KeyIn(L, d, d0)
      BY <2>1
    <3>2. IsState(d) /\ none \in Seq(AllFields) /\ Once(none)
      BY <1>14, <2>1
    <3>3. QED
      BY <2>2, <2>3, <2>4, <3>1, <3>2, AddFieldsOn
  <2>6. QED
    BY <2>1, <2>5 DEF E
<1>30. NoError(z)
  BY <1>2, <1>4, <1>10, <1>14, <1>28, <1>29 DEF NoError
<1>31. Unheld(z)
  <2>1. (\A q \in Ids : v = Link(q) => w.fresh[q] = {}) /\ \A q \in Ids : z.fresh[q] # {} => w.fresh[q] # {}
    BY <1>2, <1>5, <1>7, <1>19
  <2>2. z.rec = WithCell(w.rec, r, c, v) /\ IsTable(w.rec) /\ w.rec[r] # <<>>
    BY <1>1, <1>2, <1>6, <1>19
  <2>3. QED
    BY <1>2, <2>1, <2>2, UnheldStored
<1>32. IndexedIn(z, L)
  BY <1>8, <1>19, <1>23, <1>27, <1>29, <1>30, <1>31 DEF IndexedIn
<1>33. QED
  BY <1>1, <1>2, <1>32, IndexBecome

\* Before a field changes, its entry and those of the ancestors are taken out.  They
\* are all there.
LEMMA TakenOut ==
  ASSUME IndexIInv, NEW r \in Ids, NEW c \in Columns, Exists(r), c \notin fresh[r], NEW strict,
         NEW out, out = TakeOut(DelField(Now, r, c, strict), r, strict),
         NEW A, A = Affected(Now, r)
  PROVE  /\ A \in Seq(AllFields) /\ Once(A) /\ Range(A) \subseteq SetFields(Now) \ {<<r, c>>}
         /\ <<r, c>> \in SetFields(Now)
         /\ IsState(out) /\ SameRecords(Now, out) /\ SameStrings(Now, out) /\ NoError(out)
         /\ IndexOn(out, (SetFields(Now) \ {<<r, c>>}) \ Range(A), Keys(Now))
<1> DEFINE w == Now
           a == DelField(w, r, c, strict)
           S == SetFields(w)
           K == Keys(w)
           e == <<r, c>>
           E == S \ {e}
<1>1. /\ IsState(w) /\ Forest(w) /\ NoError(w) /\ IndexOn(w, S, K) /\ S \subseteq AllFields /\ Sound(w)
      /\ w.rec = rec /\ w.links = links /\ w.fresh = fresh /\ links \in [Ids -> Seq(Ids)]
      /\ \A p \in Ids : \A d \in fresh[p] : rec[p][d] = Null
  <2>1. RecordsOk(w) /\ Forest(w) /\ w.rec = rec /\ w.fresh = fresh /\ w.links = links
    BY IndexFacts, NowFacts
  <2>2. (\A p \in Ids : \A d \in fresh[p] : rec[p][d] = Null) /\ links \in [Ids -> Seq(Ids)]
    BY <2>1 DEF RecordsOk, Forest
  <2>3. QED
    BY <2>1, <2>2, IndexFacts
<1> HIDE DEF w
<1>2. e \in S /\ e[1] = r /\ e[2] = c
  BY <1>1, FieldsOfFacts DEF SetFields, Exists
<1>3. PICK above : AboveLevels(w, r, above)
  BY AboveSteps
<1>4. A \in Seq(AllFields) /\ Once(A)
  BY <1>1, <1>3, AffectedFacts DEF w
<1>5. Range(A) \subseteq E
  <2> SUFFICES ASSUME NEW d \in Range(A) PROVE d \in E
    OBVIOUS
  <2>1. d \in FieldsOf(rec) /\ d \in AllFields /\ d[1] # r /\ rec[d[1]][d[2]] # Null
    BY <1>1, AffectedElsewhere DEF w
  <2>2. d[1] \in Ids
    BY <2>1 DEF AllFields
  <2>3. d[2] \notin fresh[d[1]]
    BY <1>1, <2>1, <2>2
  <2>4. QED
    BY <1>1, <1>2, <2>1, <2>3 DEF SetFields
<1>6. a = DelField(w, e[1], e[2], strict)
  BY <1>2
<1>7. Reindexed(w, a)
  BY <1>1, DelFieldReindexes
<1>keys. \A d \in S : d \in FieldsOf(w.rec) /\ KeyIn(K, w, d)
  BY <1>1 DEF SetFields, FieldsOf, Keys, KeyIn
<1> HIDE DEF S, K, e, a
<1>8. IndexOn(a, E, K) /\ NoError(a)
  BY <1>1, <1>2, <1>6, <1>keys, DelFieldOn
<1>9. IsState(a) /\ SameRecords(w, a) /\ SameStrings(w, a)
  BY <1>7 DEF Reindexed
<1>10. Affected(a, r) = A
  <2>1. \A q \in Ids : Reaches(w.rec, q, r) => a.links[q] = w.links[q]
    BY <1>9 DEF SameRecords
  <2>2. \A p \in Ids : p # r => a.rec[p] = w.rec[p]
    BY <1>9 DEF SameRecords
  <2>3. Affected(a, r) = Affected(w, r)
    BY <1>1, <2>1, <2>2, AffectedSame
  <2>4. QED
    BY <2>3 DEF w
<1>11. out = DelFields(a, A, strict)
  BY <1>10 DEF TakeOut, a, w
<1>12. a.links \in [Ids -> Seq(Ids)]
  BY <1>1, <1>9 DEF SameRecords
<1>13. Reindexed(a, out)
  <2>1. out = TakeOut(a, r, strict)
    BY DEF a, w
  <2>2. QED
    BY <1>9, <1>12, <2>1, TakeOutReindexes
<1>14. E \subseteq AllFields /\ Sound(a) /\ \A d \in E : d \in FieldsOf(a.rec) /\ KeyIn(K, a, d)
  <2>1. a.rec = w.rec /\ a.str = w.str
    BY <1>9 DEF SameRecords, SameStrings
  <2>2. ASSUME NEW d \in S
        PROVE  KeyIn(K, a, d)
    <3>1. w.rec[d[1]][d[2]] \in FieldValues(w)
      BY <1>1, <1>keys, FieldValuesAre DEF Sound
    <3>2. QED
      BY <1>1, <1>keys, <2>1, <3>1, SameKeys DEF KeyIn
  <2>3. QED
    BY <1>1, <1>keys, <2>1, <2>2 DEF Sound
<1> HIDE DEF E
<1>15. IndexOn(out, E \ Range(A), K) /\ NoError(out)
  BY <1>4, <1>5, <1>8, <1>9, <1>11, <1>14, DelFieldsOn
<1>16. IsState(out) /\ SameRecords(w, out) /\ SameStrings(w, out)
  BY <1>9, <1>13 DEF Reindexed, SameRecords, SameStrings
<1>17. QED
  BY <1>2, <1>4, <1>5, <1>15, <1>16 DEF E, e, S, K, w

\* The value of a field is exchanged: no string gets another text.
LEMMA ExchangeLoses ==
  ASSUME NEW f, NEW r \in Ids, NEW c \in Columns, NEW v, NEW g, StoresIn(f, r, c, v, g),
         NEW x, StringsOk(x, HeldBy(f, FieldsOf(f))), StringIn(x, v)
  PROVE  OnlyLoses(x, Unreferred(Referred(x, v), f[r][c]))
<1> DEFINE H == HeldBy(f, FieldsOf(f))
           old == f[r][c]
           y == Referred(x, v)
<1>1. StringsOk(y, Plus(H, v)) /\ InCells(old) /\ (Holds(old, "str") => Plus(H, v)[old[2]] > 0)
  BY HoldersStored, HeldStored
<1>2. StringsOk(x, H)
  OBVIOUS
<1> HIDE DEF H, old
<1>3. OnlyLoses(x, y)
  BY <1>2, ReferredLoses
<1> HIDE DEF y
<1>4. OnlyLoses(y, Unreferred(y, old))
  BY <1>1, ReferredLoses
<1>5. QED
  BY <1>3, <1>4, LosesMore DEF y, old

LEMMA SetFieldIndexes ==
  ASSUME ~ misused', IndexIInv, StringsIInv', NEW r \in Ids, NEW c \in Columns, NEW v, NEW strict,
         SetField(r, c, v, strict), IsValue(v), InCells(v), StringIn(Now, v)
  PROVE  IndexIInv'
<1> DEFINE w == Now
           old == rec[r][c]
           out == TakeOut(DelField(w, r, c, strict), r, strict)
           b == WithoutLink(out, old, r)
           d == Referred(b, v)
           x == Unreferred(d, old)
           f == [rec EXCEPT ![r][c] = v]
           u == [x EXCEPT !.rec[r][c] = v]
           g == AddField(u, r, c)
           y == WithLink(g, v, r)
           z == PutBack(y, r)
           S == SetFields(w)
           K == Keys(w)
           L == Keys(z)
           e == <<r, c>>
           A == Affected(w, r)
           E == (S \ {e}) \ Range(A)
           H == HeldBy(rec, FieldsOf(rec))
<1>1. /\ rec[r] # <<>> /\ c \notin fresh[r] /\ MayLink(r, c, v)
      /\ Become(IF out.err THEN out ELSE z)
  BY DEF SetField, Exists
<1>2. /\ IsState(w) /\ Forest(w) /\ Sound(w) /\ IsTable(rec) /\ Tree(rec) /\ Unheld(w) /\ NoError(w)
      /\ HoldersOk(w) /\ ~ failed /\ S \subseteq AllFields /\ StringsOk(w, H) /\ CellsHeld(rec)
      /\ w.rec = rec /\ w.links = links /\ w.fresh = fresh
      /\ fresh \in [Ids -> SUBSET Columns] /\ links \in [Ids -> Seq(Ids)]
  <2>1. RecordsOk(w) /\ w.rec = rec /\ w.fresh = fresh /\ HoldersOk(w) /\ Forest(w) /\ w.links = links
    BY IndexFacts, NowFacts
  <2>2. fresh \in [Ids -> SUBSET Columns] /\ StringsOk(w, H) /\ CellsHeld(rec)
    BY <2>1 DEF RecordsOk, HoldersOk
  <2>3. QED
    BY <2>1, <2>2, IndexFacts DEF Sound, Forest
<1>3. /\ A \in Seq(AllFields) /\ Once(A) /\ Range(A) \subseteq S \ {e} /\ e \in S
      /\ IsState(out) /\ SameRecords(w, out) /\ SameStrings(w, out) /\ NoError(out)
      /\ IndexOn(out, E, K)
  BY <1>1, TakenOut DEF Exists
<1>4. f = WithCell(rec, r, c, v) /\ StoresIn(rec, r, c, v, f)
  BY <1>1, <1>2 DEF WithCell, StoresIn
<1>5. \A q \in Ids : v = Link(q) => fresh[q] = {} /\ Apart(WithCell(rec, r, c, Null), r, q)
  BY <1>1, MayLinkApart
<1>6. StringIn(w, v) /\ Become(z)
  BY <1>1, <1>3 DEF NoError
<1> HIDE DEF w, f, out, H
<1>7. Tree(f) /\ \A q \in Ids : v = Link(q) \/ old = Link(q) => ~ Reaches(rec, q, r)
  BY <1>1, <1>2, <1>4, <1>5, TreeStored
<1>8. /\ FieldsOf(f) = FieldsOf(rec) /\ e \in FieldsOf(rec) /\ (\A p \in Ids : p # r => f[p] = rec[p])
      /\ IsValue(old) /\ \A d0 \in FieldsOf(rec) : d0 # e => f[d0[1]][d0[2]] = rec[d0[1]][d0[2]]
  BY <1>1, <1>2, <1>4, CellStored
<1>9. /\ IsState(b) /\ b.links = Unlinked(links, old, r) /\ b.rec = rec /\ b.fresh = fresh
      /\ SameStrings(w, b) /\ b.ix = out.ix /\ NoError(b)
  <2> DEFINE v0 == old
  <2> HIDE DEF v0
  <2>1. LET b0 == WithoutLink(out, v0, r) IN
          /\ IsState(b0) /\ b0.links = Unlinked(out.links, v0, r) /\ b0.rec = out.rec
          /\ b0.fresh = out.fresh /\ SameStrings(out, b0) /\ b0.err = out.err /\ b0.ix = out.ix
    BY <1>3, WithoutLinkFrame
  <2>2. QED
    BY <1>2, <1>3, <2>1 DEF SameRecords, SameStrings, NoError, v0
<1> HIDE DEF b
<1>10. OnlyLoses(b, x)
  <2>1. StringsOk(b, H) /\ StringIn(b, v)
    BY <1>2, <1>6, <1>9, StringsKept DEF StringIn
  <2>2. QED
    BY <1>4, <2>1, ExchangeLoses DEF H
<1>11. f = [rec EXCEPT ![r][c] = v]
  BY DEF f
<1> HIDE DEF old
<1>12. IsState(d) /\ SameRecords(b, d) /\ d.ix = b.ix /\ d.err = b.err
  BY <1>9, ReferredFrames, ReferredEntries
<1> HIDE DEF d
<1>13. IsState(x) /\ SameRecords(d, x) /\ x.ix = d.ix /\ x.err = d.err
  BY <1>12, ReferredFrames, ReferredEntries
<1> HIDE DEF x
<1>14. /\ IsState(x) /\ x.links = Unlinked(links, old, r) /\ x.rec = rec /\ x.fresh = fresh
       /\ x.ix = out.ix /\ NoError(x) /\ OnlyLoses(w, x)
  BY <1>9, <1>10, <1>12, <1>13 DEF SameRecords, NoError, OnlyLoses, SameStrings
<1>15. /\ IsState(u) /\ u.rec = f /\ u.links = x.links /\ u.fresh = fresh /\ u.ix = x.ix
       /\ u.err = x.err /\ SameStrings(x, u)
  <2>1. u = [x EXCEPT !.rec = f]
    BY <1>11, <1>14 DEF IsState
  <2> HIDE DEF u
  <2>2. QED
    BY <1>14, <2>1 DEF IsState, SameStrings
<1>16. g = AddField(u, e[1], e[2])
  OBVIOUS
<1> HIDE DEF u
<1>17. IsState(g) /\ SameRecords(u, g) /\ SameStrings(u, g)
  BY <1>15, AddFieldReindexes DEF Reindexed
<1> HIDE DEF g
<1>18. /\ IsState(y) /\ y.links = Linked(x.links, v, r) /\ y.rec = f /\ y.fresh = fresh
       /\ SameStrings(g, y) /\ y.ix = g.ix /\ y.err = g.err
  BY <1>15, <1>17, WithLinkFrame DEF SameRecords
<1> HIDE DEF y
<1>19. Affected(y, r) = A
  <2>1. y.links = Linked(Unlinked(w.links, old, r), v, r) /\ Forest(w)
    BY <1>2, <1>14, <1>18
  <2>2. (\A q \in Ids : v = Link(q) \/ old = Link(q) => ~ Reaches(w.rec, q, r)) /\ IsValue(old)
    BY <1>2, <1>7, <1>8
  <2>3. \A p \in Ids : p # r => y.rec[p] = w.rec[p]
    BY <1>2, <1>8, <1>18
  <2>4. QED
    BY <2>1, <2>2, <2>3, AffectedStored
<1>20. z = AddFields(y, A)
  BY <1>19 DEF PutBack
<1>21. Reindexed(y, z)
  <2>1. Unlinked(links, old, r) \in [Ids -> Seq(Ids)]
    <3>1. Holds(old, "rec") => old[2] \in Ids
      BY <1>8, ValueKinds
    <3>2. LinkInv(rec, links, FieldsOf(rec))
      BY <1>2, IndexFacts DEF RecordsOk, w
    <3>3. LinkInv(rec, Unlinked(links, old, r), FieldsOf(rec) \ {e})
      BY <1>8, <3>2, LinkTaken DEF old
    <3>4. QED
      BY <3>3 DEF LinkInv
  <2>2. y.links \in [Ids -> Seq(Ids)]
    BY <1>14, <1>18, <2>1, LinkedType
  <2>3. QED
    BY <1>18, <2>2, TakeOutReindexes
<1> HIDE DEF z
<1>22. IsState(z) /\ z.rec = f /\ z.fresh = fresh /\ SameStrings(x, z) /\ SameStrings(u, z) /\ SameStrings(y, z)
  BY <1>15, <1>17, <1>18, <1>21, SameStringsChain DEF Reindexed, SameRecords
<1>23. Sound(z) /\ HoldersOk(z) /\ IsTable(z.rec)
  BY <1>6, <1>22, NextSound DEF Sound
<1>24. OnlyLoses(w, z)
  BY <1>14, <1>22 DEF OnlyLoses, SameStrings
<1>25. SameHeldTexts(w, z)
  BY <1>2, <1>23, <1>24, HeldTextsStay
<1>26. SetFields(z) = S
  BY <1>2, <1>8, <1>22 DEF SetFields
<1>27. \A d0 \in S : d0 \in FieldsOf(rec) /\ d0 \in AllFields
  BY <1>2 DEF SetFields, FieldsOf
<1> HIDE DEF S, e, A
<1>28. ASSUME NEW d0 \in E
       PROVE  L[d0] = K[d0]
  <2>1. d0 \in S /\ d0 # e /\ d0 \notin Range(A)
    OBVIOUS
  <2>2. d0 \in FieldsOf(w.rec) /\ d0 \in FieldsOf(z.rec) /\ z.rec[d0[1]][d0[2]] = w.rec[d0[1]][d0[2]] /\ d0 \in AllFields
    BY <1>2, <1>8, <1>22, <1>27, <2>1
  <2>3. \A p \in Ids : p # r => z.rec[p] = w.rec[p]
    BY <1>2, <1>8, <1>22
  <2>4. d0 \notin Range(Affected(w, r))
    BY <2>1 DEF A
  <2>5. KeyOf(z, z.rec[d0[1]][d0[2]]) = KeyOf(w, w.rec[d0[1]][d0[2]])
    <3>1. Forest(w) /\ Sound(w) /\ Sound(z) /\ SameHeldTexts(w, z)
      BY <1>2, <1>23, <1>25
    <3>2. QED
      BY <2>2, <2>3, <2>4, <3>1, KeysStay
  <2>6. QED
    BY <2>2, <2>5 DEF Keys
<1>29. ASSUME NEW s, s.rec = f, SameStrings(s, z), NEW d0 \in S
       PROVE  d0 \in FieldsOf(s.rec) /\ KeyIn(L, s, d0) /\ Sound(s)
  <2>1. Sound(s) /\ d0 \in FieldsOf(s.rec) /\ d0 \in AllFields
    BY <1>8, <1>22, <1>23, <1>27, <1>29 DEF Sound
  <2>2. s.rec[d0[1]][d0[2]] \in FieldValues(s)
    BY <2>1, FieldValuesAre DEF Sound
  <2>3. KeyOf(z, s.rec[d0[1]][d0[2]]) = KeyOf(s, s.rec[d0[1]][d0[2]])
    BY <1>22, <1>29, <2>1, <2>2, SameKeys DEF SameStrings
  <2>4. QED
    BY <1>22, <1>29, <2>1, <2>3 DEF KeyIn, Keys
<1>30. \A d0 \in S : KeyIn(L, z, d0)
  BY <1>22, <1>29 DEF SameStrings
<1> HIDE DEF L, K
<1>31. IndexOn(u, E, L)
  <2> HIDE DEF E
  <2>1. u.ix = out.ix /\ IndexOn(out, E, K)
    BY <1>3, <1>14, <1>15
  <2>2. QED
    BY <1>28, <2>1, IndexKept
<1>32. e \in AllFields /\ e \notin E /\ KeyIn(L, u, e)
  BY <1>3, <1>15, <1>22, <1>27, <1>29
<1>33. (E \cup {e}) \cup Range(A) = S /\ Range(A) \cap (E \cup {e}) = {}
  BY <1>3
<1> HIDE DEF E
<1>34. IndexOn(g, E \cup {e}, L) /\ g.err = u.err
  BY <1>15, <1>16, <1>31, <1>32, AddFieldOn
<1>35. IndexOn(z, S, L) /\ z.err = y.err
  <2> DEFINE D == E \cup {e}
  <2>1. IndexOn(y, D, L) /\ Range(A) \cap D = {}
    BY <1>18, <1>33, <1>34, IndexKept
  <2>2. Sound(y) /\ \A d0 \in Range(A) : d0 \in FieldsOf(y.rec) /\ KeyIn(L, y, d0)
    BY <1>3, <1>18, <1>22, <1>29
  <2>3. D \cup Range(A) = S
    BY <1>33
  <2> HIDE DEF D
  <2>4. IsState(y) /\ A \in Seq(AllFields) /\ Once(A)
    BY <1>3, <1>18
  <2>5. IndexOn(z, D \cup Range(A), L) /\ z.err = y.err
    BY <1>20, <2>1, <2>2, <2>4, AddFieldsOn
  <2>6. QED
    BY <2>3, <2>5
<1>36. NoError(z)
  BY <1>14, <1>15, <1>18, <1>34, <1>35 DEF NoError
<1>37. Unheld(z)
  <2>1. (\A q \in Ids : v = Link(q) => w.fresh[q] = {}) /\ \A q \in Ids : z.fresh[q] # {} => w.fresh[q] # {}
    BY <1>2, <1>5, <1>22
  <2>2. z.rec = WithCell(w.rec, r, c, v) /\ IsTable(w.rec) /\ w.rec[r] # <<>>
    BY <1>1, <1>2, <1>4, <1>22
  <2>3. QED
    BY <1>2, <2>1, <2>2, UnheldStored
<1>38. IndexedIn(z, L)
  BY <1>7, <1>22, <1>26, <1>30, <1>35, <1>36, <1>37 DEF IndexedIn
<1>39. QED
  BY <1>2, <1>6, <1>38, IndexBecome

-----------------------------------------------------------------------------
\* The theorems.

LEMMA IndexInitial ==
  ASSUME Init
  PROVE  IndexIInv
<1> DEFINE x == Now
<1>1. StringsIInv /\ ~ failed
  BY LinksInitial, StringsInitial DEF StringsIInv, Init
<1>2. /\ rec = [r \in Ids |-> <<>>] /\ ix = [c \in Columns |-> [r \in Ids |-> <<>>]]
      /\ x.rec = rec /\ x.ix = ix
  BY NowFacts DEF Init, Now
<1> HIDE DEF x
<1>3. FieldsOf(rec) = {}
  BY <1>2 DEF FieldsOf, AllFields
<1>4. \A e, q : ~ HoldsLink(rec, e, q)
  BY <1>3 DEF HoldsLink
<1>5. Tree(rec) /\ Unheld(x)
  BY <1>2, <1>4 DEF Tree, Unheld
<1>6. SetFields(x) = {}
  BY <1>2, <1>3 DEF SetFields
<1>7. IndexOn(x, {}, Keys(x))
  BY <1>2 DEF IndexOn
<1>8. IndexesOk(x)
  BY <1>6, <1>7 DEF IndexesOk
<1>9. QED
  BY <1>1, <1>5, <1>8 DEF IndexIInv, x

LEMMA IndexStep ==
  ASSUME ~ misused', IndexIInv, [Next]_vars
  PROVE  IndexIInv'
<1>1. StringsIInv
  BY DEF IndexIInv
<1>2. StringsIInv'
  BY <1>1, StringsStep
<1>3. ASSUME NEW r \in Ids, NEW c \in Columns, NEW v \in Stores[r][c], Ready(v),
             SetNewField(r, c, Term(v)) \/ \E strict \in BOOLEAN : SetField(r, c, Term(v), strict)
      PROVE  IndexIInv'
  <2>1. IsValue(Term(v)) /\ InCells(Term(v)) /\ StringIn(Now, Term(v))
    BY <1>1, <1>3, TermFacts, TermStrings
  <2> DEFINE u == Term(v)
  <2>2. CASE SetNewField(r, c, u)
    <3> HIDE DEF u
    <3>1. IsValue(u) /\ InCells(u) /\ StringIn(Now, u)
      BY <2>1 DEF u
    <3>2. QED
      BY <1>2, <2>2, <3>1, SetNewFieldIndexes
  <2>3. ASSUME NEW strict, SetField(r, c, u, strict)
        PROVE  IndexIInv'
    <3> HIDE DEF u
    <3>1. IsValue(u) /\ InCells(u) /\ StringIn(Now, u)
      BY <2>1 DEF u
    <3>2. QED
      BY <1>2, <2>3, <3>1, SetFieldIndexes
  <2>4. QED
    BY <1>3, <2>2, <2>3
<1>4. ASSUME UNCHANGED vars PROVE IndexIInv'
  <2> DEFINE x == Now
             y == Now'
  <2>1. y = x /\ rec' = rec /\ failed' = failed
    BY <1>4 DEF vars, Now
  <2>2. Unheld(x) /\ IndexesOk(x) /\ Tree(rec) /\ ~ failed
    BY DEF IndexIInv
  <2> HIDE DEF x
  <2>3. Unheld(y) /\ IndexesOk(y)
    BY <2>1, <2>2
  <2>4. QED
    BY <1>2, <2>1, <2>2, <2>3 DEF IndexIInv
<1>5. CASE Next
  <2>1. CASE \E s \in Texts : Encode(s)
    BY <1>2, <2>1, EncodeIndexes
  <2>2. CASE \E o \in Cells : FreeEncoded(o)
    BY <1>2, <2>2, FreeEncodedIndexes
  <2>3. CASE \E r \in Ids : CreateRaw(r) \/ Create(r)
    BY <1>2, <2>3, CreateIndexes
  <2>4. CASE \E r \in Ids, strict \in BOOLEAN : Delete(r, strict)
    BY <1>2, <2>4, DeleteIndexes
  <2>5. QED
    BY <1>3, <1>5, <2>1, <2>2, <2>3, <2>4 DEF Next
<1>6. QED
  BY <1>4, <1>5

\* The inductive invariant, until a link is stored without care (CarefulLink): no call
\* fails, no record reaches another one, or itself, in two ways, a record with a field
\* still to be set is held by none, and every index has the rows it should have.
THEOREM IndexesSound == Spec => [](~ misused => IndexIInv)
<1> DEFINE I == StringsIInv /\ (~ misused => IndexIInv)
<1>1. Init => I
  BY IndexInitial DEF IndexIInv
<1>2. I /\ [Next]_vars => I'
  <2> SUFFICES ASSUME I, [Next]_vars PROVE I'
    OBVIOUS
  <2>1. StringsIInv'
    BY StringsStep
  <2>2. misused => misused'
    <3>1. CASE UNCHANGED vars
      BY <3>1 DEF vars
    <3>2. ASSUME NEW r, NEW c, NEW v, MayLink(r, c, v) PROVE misused => misused'
      BY <3>2 DEF MayLink
    <3>3. CASE Next
      <4>1. CASE UNCHANGED misused
        BY <4>1
      <4>2. ASSUME NEW r \in Ids, NEW c \in Columns, NEW v \in Stores[r][c],
                   SetNewField(r, c, Term(v)) \/ \E strict \in BOOLEAN : SetField(r, c, Term(v), strict)
            PROVE  misused => misused'
        BY <3>2, <4>2 DEF SetNewField, SetField
      <4>3. QED
        BY <3>3, <4>1, <4>2 DEF Next
    <3>4. QED
      BY <3>1, <3>3
  <2>3. ASSUME ~ misused' PROVE IndexIInv'
    BY <2>2, <2>3, IndexStep
  <2>4. QED
    BY <2>1, <2>3
<1>3. QED
  BY <1>1, <1>2, PTL DEF Spec

LEMMA IndexIInvExact ==
  ASSUME IndexIInv
  PROVE  IndexExact /\ ~ failed
<1> DEFINE x == Now
           S == SetFields(x)
           K == Keys(x)
<1>1. IndexOn(x, S, K) /\ x.ix = ix /\ x.rec = rec /\ x.fresh = fresh /\ ~ failed
  BY IndexFacts
<1> HIDE DEF x
<1>2. ASSUME NEW c \in Indexed, NEW r \in Ids
      PROVE  ix[c][r] = IF Exists(r) /\ c \notin fresh[r] THEN <<KeyOf(x, rec[r][c])>> ELSE <<>>
  <2> DEFINE e == <<r, c>>
  <2>1. c \in Columns /\ e \in AllFields /\ e[1] = r /\ e[2] = c
    BY RecordsAssumption DEF AllFields
  <2>2. e \in S <=> Exists(r) /\ c \notin fresh[r]
    BY <1>1, <2>1 DEF SetFields, FieldsOf, Exists
  <2>3. K[e] = KeyOf(x, rec[r][c])
    BY <1>1, <2>1 DEF Keys
  <2> HIDE DEF S, K
  <2>4. ix[c][r] = IF c \in Indexed /\ <<r, c>> \in S THEN <<K[<<r, c>>]>> ELSE <<>>
    BY <1>1, <2>1 DEF IndexOn
  <2>5. QED
    BY <2>2, <2>3, <2>4
<1>3. QED
  BY <1>1, <1>2 DEF IndexExact, x

\* A change in a record moves the rows of all the records above it, to the depth of the
\* comparison: until a link is stored without care (CarefulLink) each set field has
\* exactly one row, under the key it has now, and none of the calls has missed a row.
THEOREM RowsExact == Spec => [](~ misused => IndexExact /\ ~ failed)
  BY IndexesSound, IndexIInvExact, PTL
=============================================================================
