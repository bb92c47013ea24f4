-------------------------- MODULE AllocatorProofs ---------------------------
(***************************************************************************)
(* Proofs about the segment allocator, for any sizes of the segment, its   *)
(* subareas, objects and buckets, and any requests: over any sequence of   *)
(* splits, merges, reuses and extensions the pieces tile the subareas, the *)
(* lists hold just the free objects, and objects in use never overlap.     *)
(***************************************************************************)
EXTENDS Allocator, FiniteSetTheorems, SequenceTheorems, TLAPS

-----------------------------------------------------------------------------
\* Numbers.

LEMMA ConstantsNat ==
  /\ Base \in Nat \ {0} /\ SegSize \in Nat /\ Min \in Nat \ {0} /\ Exact \in Nat \ {0}
  /\ VarBuckets \in Nat \ {0} /\ MaxSubareas \in Nat \ {0} /\ Subarea \in Nat \ {0}
  /\ FixLen \in Nat \ {0}
  BY AllocAssumption

\* A set of natural numbers that is not empty has a least element.
LEMMA LeastElement ==
  ASSUME NEW T, T \subseteq Nat, T # {}
  PROVE  \E m \in T : \A n \in T : m <= n
<1> DEFINE R == OpToRel(<, Nat)
<1>1. IsWellFoundedOn(R, Nat)
  BY NatLessThanWellFounded
<1>2. \A x, y \in Nat : y < x => <<y, x>> \in R
  BY DEF OpToRel
<1> HIDE DEF R
<1>3. PICK m \in T : \A y \in T : ~ (<<y, m>> \in R)
  BY <1>1, WFMin
<1>4. \A n \in T : ~ (n < m)
  BY <1>2, <1>3
<1>5. QED
  BY <1>4

\* A set of natural numbers that is not empty and has a bound has a greatest element.
LEMMA GreatestElement ==
  ASSUME NEW T, T \subseteq Nat, T # {}, NEW u \in Nat, \A n \in T : n <= u
  PROVE  \E m \in T : \A n \in T : m >= n
<1> DEFINE V == {k \in Nat : \A n \in T : n <= k}
<1>1. PICK m \in V : \A k \in V : m <= k
  <2>1. u \in V /\ V \subseteq Nat
    OBVIOUS
  <2>2. QED
    BY <2>1, LeastElement
<1>2. CASE m \in T
  BY <1>2
<1>3. CASE m \notin T
  <2>1. PICK n \in T : TRUE
    OBVIOUS
  <2>2. n < m /\ n \in Nat /\ m \in Nat
    BY <1>3
  <2>3. m - 1 \in V
    <3>1. \A k \in T : k <= m - 1
      BY <1>3, <2>2
    <3>2. QED
      BY <2>2, <3>1
  <2>4. QED
    BY <1>1, <2>2, <2>3
<1>4. QED
  BY <1>2, <1>3

\* Every size that the segment has room for has a bucket, and a small size has one
\* of its own.
LEMMA IndexFacts ==
  ASSUME NEW n \in 0..SegSize
  PROVE  /\ Index(n) \in Buckets
         /\ n < Exact => Index(n) = n
         /\ n >= Exact => Index(n) >= Exact
<1>1. CASE n < Exact
  BY <1>1, ConstantsNat DEF Index, Buckets
<1>2. CASE ~ (n < Exact)
  <2> DEFINE P(i) == n < Exact * 2^(i + 1) /\ (i = 0 \/ n >= Exact * 2^i)
             c == CHOOSE i \in 0..(VarBuckets - 1) : P(i)
  <2>1. n \in Exact..SegSize
    BY <1>2, ConstantsNat
  <2>2. \E i \in 0..(VarBuckets - 1) : P(i)
    BY <2>1, AllocAssumption
  <2>3. Index(n) = Exact + c
    BY <1>2 DEF Index
  <2> HIDE DEF P
  <2>4. c \in 0..(VarBuckets - 1)
    BY <2>2
  <2> HIDE DEF c
  <2>5. QED
    BY <1>2, <2>3, <2>4, ConstantsNat DEF Buckets
<1>3. QED
  BY <1>1, <1>2

-----------------------------------------------------------------------------
\* The inductive invariant.

Subareas == [at : Nat, size : Nat]

\* Heads at some offsets.
HeadMaps == UNION {[D -> Heads] : D \in SUBSET Nat}

Memory == [free : Nat, subs : [var : Seq(Subareas), fix : Seq(Subareas)], obj : HeadMaps,
           bucket : [Buckets -> Nat], dv : Nat, dvsize : Nat, freelist : Seq(Nat),
           full : BOOLEAN]

EndOf(s) == s.at + s.size - (s.size % Min)

\* The heads f and the cells C are pieces of the segment up to offset end that do
\* not overlap; behind a piece other than an end marker there is a piece; and each
\* subarea has its two markers.
Space(f, end, subs, C) ==
  /\ Base <= end
  /\ \A o \in DOMAIN f : f[o].size >= Min /\ o >= Base /\ o + f[o].size <= end
  /\ \A o, y \in DOMAIN f : o < y => o + f[o].size <= y
  /\ \A o \in DOMAIN f : f[o].mark # "end" => o + f[o].size \in DOMAIN f
  /\ \A i \in DOMAIN subs :
       /\ subs[i].at \in DOMAIN f /\ f[subs[i].at].mark = "start"
       /\ EndOf(subs[i]) - Min \in DOMAIN f
       /\ f[EndOf(subs[i]) - Min].mark = "end" /\ f[EndOf(subs[i]) - Min].size = Min
       /\ subs[i].at + Min < EndOf(subs[i]) /\ EndOf(subs[i]) <= end
       /\ \A o \in DOMAIN f :
            subs[i].at <= o /\ o < EndOf(subs[i]) /\ f[o].mark = "end" => o = EndOf(subs[i]) - Min
  /\ \A c \in C : Base <= c /\ c + FixLen <= end
  /\ \A c, d \in C : c < d => c + FixLen <= d
  /\ \A c \in C, o \in DOMAIN f : o + f[o].size <= c \/ c + FixLen <= o

\* The sequence s is a list of bucket b: of free objects, each once, that know the
\* next one and, but for the first, the one before.
Chain(f, s, b, limbo) ==
  \A i \in DOMAIN s :
    /\ s[i] \in DOMAIN f /\ s[i] \notin limbo
    /\ f[s[i]].mark = "free" /\ Index(f[s[i]].size) = b
    /\ f[s[i]].next = IF i = Len(s) THEN 0 ELSE s[i + 1]
    /\ i > 1 => f[s[i]].prev = s[i - 1]
    /\ \A j \in DOMAIN s : s[i] = s[j] => i = j

\* L has the list of every bucket, and together these are the free objects but
\* those in limbo, which were taken out of their lists and have still the mark.
Lists(f, bucket, L, limbo) ==
  /\ L \in [Buckets -> Seq(Nat)]
  /\ \A b \in Buckets : Chain(f, L[b], b, limbo)
  /\ \A b \in Buckets : bucket[b] = IF L[b] = <<>> THEN 0 ELSE L[b][1]
  /\ \A o \in DOMAIN f : f[o].mark = "free" /\ o \notin limbo =>
       /\ Index(f[o].size) \in Buckets
       /\ \E i \in DOMAIN L[Index(f[o].size)] : L[Index(f[o].size)][i] = o

\* The victim is the one special piece.
Victim(g) ==
  /\ g.dv = 0 => g.dvsize = 0
  /\ g.dv # 0 => /\ g.dv \in DOMAIN g.obj
                 /\ g.obj[g.dv].mark = "special" /\ g.obj[g.dv].size = g.dvsize
  /\ \A o \in DOMAIN g.obj : g.obj[o].mark = "special" => o = g.dv

\* The objects of the users and those of failed calls are the used ones.
InUse(f, freelist, out, gone) ==
  /\ out \subseteq [at : Nat, size : Nat]
  /\ \A x, y \in out : x.at = y.at => x = y
  /\ \A x \in out : IF x.at \in DOMAIN f
                    THEN f[x.at].mark = "used" /\ f[x.at].size = x.size /\ x.at \notin gone
                    ELSE x.size = FixLen /\ x.at \notin Range(freelist)
  /\ \A o \in gone : o \in DOMAIN f /\ f[o].mark = "used"
  /\ \A o \in DOMAIN f : f[o].mark = "used" => o \in gone \/ \E x \in out : x.at = o
  /\ \A i, j \in DOMAIN freelist : freelist[i] = freelist[j] => i = j

\* The cells of a fixed length, free or handed out.
CellUsers(f, out) == {x \in out : x.at \notin DOMAIN f}
CellsOf(f, freelist, out) == Range(freelist) \cup {x.at : x \in CellUsers(f, out)}

Linked(g) == \E L : Lists(g.obj, g.bucket, L, {})

\* The cells that the subareas for a fixed length have room for.
CellSums(s) ==
  LET f[i \in 0..Len(s)] == IF i = 0 THEN 0 ELSE f[i - 1] + (s[i].size \div FixLen) IN f
CellCount(s) == CellSums(s)[Len(s)]

\* The memory g, the objects the users have and those of failed calls.
Sound(g, out, gone) ==
  /\ g \in Memory /\ ~ g.full /\ g.free <= SegSize
  /\ Space(g.obj, g.free, g.subs["var"], CellsOf(g.obj, g.freelist, out))
  /\ Linked(g)
  /\ Victim(g)
  /\ InUse(g.obj, g.freelist, out, gone)
  /\ Len(g.subs["var"]) \in 1..MaxSubareas
  /\ IsFiniteSet(out)
  /\ Cardinality(CellUsers(g.obj, out)) + Len(g.freelist) = CellCount(g.subs["fix"])

IInv == Sound(h, live, lost)


-----------------------------------------------------------------------------
\* The lists.

\* A sequence with one more element before it.
LEMMA Prepended ==
  ASSUME NEW S, NEW s \in Seq(S), NEW x \in S
  PROVE  LET t == <<x>> \o s IN
           /\ t \in Seq(S) /\ Len(t) = Len(s) + 1 /\ DOMAIN t = 1..(Len(s) + 1)
           /\ t # <<>> /\ t[1] = x /\ \A i \in 1..Len(s) : t[i + 1] = s[i]
           /\ \A i \in 1..(Len(s) + 1) : i > 1 => t[i] = s[i - 1]
<1> DEFINE t == <<x>> \o s
<1>1. Len(s) \in Nat /\ DOMAIN s = 1..Len(s) /\ <<x>> \in Seq(S) /\ Len(<<x>>) = 1
  OBVIOUS
<1>2. t \in Seq(S) /\ Len(t) = Len(s) + 1 /\ t[1] = x /\ \A i \in 1..Len(s) : t[i + 1] = s[i]
  BY <1>1
<1>3. DOMAIN t = 1..(Len(s) + 1) /\ t # <<>>
  BY <1>1, <1>2
<1> HIDE DEF t
<1>4. \A i \in 1..(Len(s) + 1) : i > 1 => t[i] = s[i - 1]
  <2> SUFFICES ASSUME NEW i \in 1..(Len(s) + 1), i > 1 PROVE t[i] = s[i - 1]
    OBVIOUS
  <2>1. i - 1 \in 1..Len(s) /\ (i - 1) + 1 = i
    BY <1>1
  <2>2. QED
    BY <1>2, <2>1
<1>5. QED
  BY <1>2, <1>3, <1>4 DEF t

\* A sequence without its first element.
LEMMA Tailed ==
  ASSUME NEW S, NEW s \in Seq(S), s # <<>>
  PROVE  LET t == Tail(s) IN
           /\ t \in Seq(S) /\ Len(t) = Len(s) - 1 /\ DOMAIN t = 1..(Len(s) - 1)
           /\ Len(s) \in Nat \ {0} /\ DOMAIN s = 1..Len(s)
           /\ \A i \in 1..(Len(s) - 1) : t[i] = s[i + 1]
           /\ t = <<>> <=> Len(s) = 1
<1> DEFINE t == Tail(s)
<1>1. Len(s) \in Nat \ {0} /\ DOMAIN s = 1..Len(s)
  BY EmptySeq
<1>2. t \in Seq(S) /\ Len(t) = Len(s) - 1 /\ \A i \in 1..(Len(s) - 1) : t[i] = s[i + 1]
  BY <1>1, HeadTailProperties
<1> HIDE DEF t
<1>3. DOMAIN t = 1..Len(t) /\ (t = <<>> <=> Len(t) = 0)
  BY <1>2, EmptySeq
<1>4. QED
  BY <1>1, <1>2, <1>3 DEF t

\* A sequence without its element at j.
Without(s, j) == [i \in 1..(Len(s) - 1) |-> IF i < j THEN s[i] ELSE s[i + 1]]

LEMMA WithoutFacts ==
  ASSUME NEW S, NEW s \in Seq(S), NEW j \in 1..Len(s)
  PROVE  LET t == Without(s, j) IN
           /\ t \in Seq(S) /\ Len(t) = Len(s) - 1 /\ DOMAIN t = 1..(Len(s) - 1)
           /\ Len(s) \in Nat \ {0} /\ DOMAIN s = 1..Len(s)
           /\ \A i \in 1..(Len(s) - 1) : t[i] = IF i < j THEN s[i] ELSE s[i + 1]
           /\ t = <<>> <=> Len(s) = 1
<1>1. Len(s) \in Nat \ {0} /\ DOMAIN s = 1..Len(s)
  OBVIOUS
<1>2. \A i \in 1..(Len(s) - 1) : (IF i < j THEN s[i] ELSE s[i + 1]) \in S
  BY <1>1
<1> DEFINE t == Without(s, j)
<1>3. t \in Seq(S) /\ t \in [1..(Len(s) - 1) -> S] /\ Len(s) - 1 \in Nat
  BY <1>1, <1>2 DEF Without
<1>4. \A i \in 1..(Len(s) - 1) : t[i] = IF i < j THEN s[i] ELSE s[i + 1]
  BY DEF Without
<1> HIDE DEF t
<1>5. DOMAIN t = 1..(Len(s) - 1) /\ Len(t) = Len(s) - 1 /\ (t = <<>> <=> Len(t) = 0)
  BY <1>3, EmptySeq, LenProperties
<1>6. QED
  BY <1>1, <1>3, <1>4, <1>5 DEF t

\* What makes a head the same for the lists.
Same(e, d) == e.mark = d.mark /\ e.size = d.size /\ e.next = d.next /\ e.prev = d.prev

\* A list in which the heads are the same is the same.
LEMMA ChainSame ==
  ASSUME NEW f, NEW k, NEW s \in Seq(Nat), NEW b, NEW limbo, NEW limbo2,
         Chain(f, s, b, limbo),
         \A i \in DOMAIN s : s[i] \in DOMAIN k /\ s[i] \notin limbo2 /\ Same(k[s[i]], f[s[i]])
  PROVE  Chain(k, s, b, limbo2)
  BY DEF Chain, Same

\* The lists do not change if the free objects do not.
Kept(f, k, limbo, limbo2) ==
  /\ \A x \in DOMAIN f : f[x].mark = "free" /\ x \notin limbo =>
       x \in DOMAIN k /\ x \notin limbo2 /\ Same(k[x], f[x])
  /\ \A x \in DOMAIN k : k[x].mark = "free" /\ x \notin limbo2 =>
       x \in DOMAIN f /\ x \notin limbo /\ Same(k[x], f[x])

LEMMA ListsSame ==
  ASSUME NEW f, NEW k, NEW bk, NEW L, NEW limbo, NEW limbo2,
         Lists(f, bk, L, limbo), Kept(f, k, limbo, limbo2)
  PROVE  Lists(k, bk, L, limbo2)
<1> USE DEF Kept
<1>1. ASSUME NEW b \in Buckets
      PROVE  Chain(k, L[b], b, limbo2)
  <2>1. L[b] \in Seq(Nat) /\ Chain(f, L[b], b, limbo)
    BY DEF Lists
  <2>2. \A i \in DOMAIN L[b] : /\ L[b][i] \in DOMAIN f /\ L[b][i] \notin limbo
                               /\ f[L[b][i]].mark = "free"
    BY <2>1 DEF Chain
  <2>3. QED
    BY <2>1, <2>2, ChainSame
<1>2. ASSUME NEW o \in DOMAIN k, k[o].mark = "free", o \notin limbo2
      PROVE  /\ Index(k[o].size) \in Buckets
             /\ \E i \in DOMAIN L[Index(k[o].size)] : L[Index(k[o].size)][i] = o
  <2>1. o \in DOMAIN f /\ o \notin limbo /\ f[o].mark = "free" /\ k[o].size = f[o].size
    BY <1>2 DEF Same
  <2>2. QED
    BY <2>1 DEF Lists
<1>3. QED
  BY <1>1, <1>2 DEF Lists

\* From the heads f and the buckets bk to k and bk2, the object o, which was in no
\* list, becomes the first in bucket b and leaves limbo.
Pushed(f, k, bk, bk2, limbo, limbo2, o, b) ==
  /\ bk \in [Buckets -> Nat] /\ bk2 = [bk EXCEPT ![b] = o]
  /\ o \in Nat \ {0} /\ b \in Buckets /\ limbo2 = limbo \ {o}
  /\ o \in limbo \/ o \notin DOMAIN f \/ f[o].mark # "free"
  /\ 0 \notin DOMAIN f
  /\ DOMAIN k = DOMAIN f \cup {o}
  /\ k[o].mark = "free" /\ Index(k[o].size) = b /\ k[o].next = bk[b]
  /\ \A x \in DOMAIN f : x # o =>
       /\ k[x].mark = f[x].mark /\ k[x].size = f[x].size /\ k[x].next = f[x].next
       /\ k[x].prev = IF x = bk[b] THEN o ELSE f[x].prev

LEMMA ListsPush ==
  ASSUME NEW f, NEW k, NEW bk, NEW bk2, NEW limbo, NEW limbo2, NEW o, NEW b, NEW L,
         Lists(f, bk, L, limbo), Pushed(f, k, bk, bk2, limbo, limbo2, o, b)
  PROVE  \E M : Lists(k, bk2, M, limbo2)
<1> USE DEF Pushed
<1> DEFINE s == L[b]
           t == <<o>> \o s
           M == [L EXCEPT ![b] = <<o>> \o @]
<1>1. /\ L \in [Buckets -> Seq(Nat)] /\ s \in Seq(Nat)
      /\ \A c \in Buckets : Chain(f, L[c], c, limbo)
      /\ bk[b] = IF s = <<>> THEN 0 ELSE s[1]
  BY DEF Lists
<1>2. /\ t \in Seq(Nat) /\ Len(t) = Len(s) + 1 /\ DOMAIN t = 1..(Len(s) + 1)
      /\ t # <<>> /\ t[1] = o /\ \A i \in 1..Len(s) : t[i + 1] = s[i]
      /\ \A i \in 1..(Len(s) + 1) : i > 1 => t[i] = s[i - 1]
  BY <1>1, Prepended
<1>3. /\ Len(s) \in Nat /\ DOMAIN s = 1..Len(s) /\ (s = <<>> <=> Len(s) = 0)
  BY <1>1
<1>4. M \in [Buckets -> Seq(Nat)] /\ M[b] = t /\ \A c \in Buckets : c # b => M[c] = L[c]
  BY <1>1, <1>2
<1>5. \A c \in Buckets : \A i \in DOMAIN L[c] :
        /\ L[c][i] # o /\ L[c][i] \in DOMAIN f /\ L[c][i] \notin limbo
        /\ f[L[c][i]].mark = "free" /\ Index(f[L[c][i]].size) = c
  BY <1>1 DEF Chain
<1>13. \A i \in DOMAIN s :
         /\ s[i] \in DOMAIN f /\ s[i] \notin limbo
         /\ f[s[i]].mark = "free" /\ Index(f[s[i]].size) = b
         /\ f[s[i]].next = IF i = Len(s) THEN 0 ELSE s[i + 1]
         /\ i > 1 => f[s[i]].prev = s[i - 1]
         /\ \A j \in DOMAIN s : s[i] = s[j] => i = j
  <2> HIDE DEF Pushed, s
  <2>1. Chain(f, s, b, limbo)
    BY <1>1 DEF Pushed, s
  <2>2. QED
    BY <2>1 DEF Chain
<1> HIDE DEF t, M
<1>6. ASSUME NEW c \in Buckets, c # b
      PROVE  Chain(k, M[c], c, limbo2)
  <2>1. L[c] \in Seq(Nat) /\ Chain(f, L[c], c, limbo)
    BY <1>1
  <2>2. ASSUME NEW i \in DOMAIN L[c]
        PROVE  L[c][i] \in DOMAIN k /\ L[c][i] \notin limbo2 /\ Same(k[L[c][i]], f[L[c][i]])
    <3>1. L[c][i] # bk[b]
      <4>1. CASE s = <<>>
        BY <1>1, <1>5, <4>1
      <4>2. CASE s # <<>>
        <5>1. bk[b] = s[1] /\ 1 \in DOMAIN s
          BY <1>1, <1>3, <4>2
        <5>2. Index(f[s[1]].size) = b /\ Index(f[L[c][i]].size) = c
          BY <1>5, <5>1
        <5>3. QED
          BY <1>6, <5>1, <5>2
      <4>3. QED
        BY <4>1, <4>2
    <3>2. QED
      BY <1>5, <3>1 DEF Same
  <2>3. QED
    BY <1>4, <1>6, <2>1, <2>2, ChainSame
<1>7. Chain(k, t, b, limbo2)
  <2> SUFFICES ASSUME NEW i \in DOMAIN t
               PROVE  /\ t[i] \in DOMAIN k /\ t[i] \notin limbo2
                      /\ k[t[i]].mark = "free" /\ Index(k[t[i]].size) = b
                      /\ k[t[i]].next = IF i = Len(t) THEN 0 ELSE t[i + 1]
                      /\ i > 1 => k[t[i]].prev = t[i - 1]
                      /\ \A j \in DOMAIN t : t[i] = t[j] => i = j
    BY DEF Chain
  <2>1. \A j \in DOMAIN t : j = 1 \/ (j - 1 \in DOMAIN s /\ t[j] = s[j - 1] /\ t[j] # o)
    <3> SUFFICES ASSUME NEW j \in DOMAIN t, j # 1
                 PROVE  j - 1 \in DOMAIN s /\ t[j] = s[j - 1] /\ t[j] # o
      OBVIOUS
    <3>1. \A q \in DOMAIN s : s[q] # o
      BY <1>5
    <3> HIDE DEF Pushed, s
    <3>2. j \in 1..(Len(s) + 1) /\ j > 1 /\ j - 1 \in DOMAIN s
      BY <1>2, <1>3
    <3>3. t[j] = s[j - 1]
      BY <1>2, <3>2
    <3>4. QED
      BY <3>1, <3>2, <3>3
  <2>2. CASE i = 1
    <3>1. t[i] = o
      BY <1>2, <2>2
    <3>2. k[o].next = IF i = Len(t) THEN 0 ELSE t[i + 1]
      BY <1>1, <1>2, <1>3, <2>2
    <3>3. \A j \in DOMAIN t : t[i] = t[j] => i = j
      BY <2>1, <2>2, <3>1
    <3>4. QED
      BY <2>2, <3>1, <3>2, <3>3
  <2>3. CASE i # 1
    <3> DEFINE x == s[i - 1]
    <3>1. i - 1 \in DOMAIN s /\ t[i] = x /\ x # o
      BY <2>1, <2>3
    <3>2. /\ x \in DOMAIN f /\ x \notin limbo
          /\ f[x].mark = "free" /\ Index(f[x].size) = b
          /\ f[x].next = IF i - 1 = Len(s) THEN 0 ELSE s[i]
          /\ i - 1 > 1 => f[x].prev = s[(i - 1) - 1]
          /\ \A j \in DOMAIN s : x = s[j] => i - 1 = j
      <4>1. (i - 1) + 1 = i /\ i - 1 \in DOMAIN s /\ t[i] = x
        BY <1>2, <3>1
      <4>2. QED
        BY <1>13, <4>1
    <3> HIDE DEF x
    <3>3. /\ k[x].mark = "free" /\ Index(k[x].size) = b /\ k[x].next = f[x].next
          /\ k[x].prev = IF x = bk[b] THEN o ELSE f[x].prev
      BY <3>1, <3>2
    <3>4. k[x].next = IF i = Len(t) THEN 0 ELSE t[i + 1]
      <4>1. CASE i = Len(t)
        BY <1>2, <1>3, <3>2, <3>3, <4>1
      <4>2. CASE i # Len(t)
        <5>1. i \in 1..Len(s) /\ i - 1 # Len(s)
          <6>1. i \in 1..(Len(s) + 1) /\ i # Len(s) + 1 /\ Len(s) \in Nat
            BY <1>2, <1>3, <4>2
          <6> HIDE DEF Pushed, s
          <6>2. QED
            BY <6>1
        <5>2. t[i + 1] = s[i]
          BY <1>2, <5>1
        <5> HIDE DEF Pushed, s
        <5>3. QED
          BY <3>2, <3>3, <4>2, <5>1, <5>2
      <4>3. QED
        BY <4>1, <4>2
    <3>5. k[x].prev = t[i - 1]
      <4>1. CASE i = 2
        <5>1. x = s[1] /\ bk[b] = s[1]
          BY <1>1, <1>3, <3>1, <4>1 DEF x
        <5>2. QED
          BY <1>2, <3>3, <4>1, <5>1
      <4>2. CASE i # 2
        <5>1. i \in Nat /\ i > 2 /\ 1 \in DOMAIN s /\ i - 1 # 1 /\ i - 1 \in 1..(Len(s) + 1)
          <6>1. i \in 1..(Len(s) + 1) /\ Len(s) \in Nat /\ i - 1 \in 1..Len(s) /\ DOMAIN s = 1..Len(s)
            BY <1>2, <1>3, <3>1
          <6> HIDE DEF Pushed, s
          <6>2. QED
            BY <2>3, <4>2, <6>1
        <5>2. x # s[1] /\ bk[b] = s[1]
          <6>1. x = s[1] => i - 1 = 1
            BY <3>2, <5>1
          <6>2. s # <<>>
            BY <1>3, <5>1
          <6>3. QED
            BY <1>1, <5>1, <6>1, <6>2
        <5>3. t[i - 1] = s[(i - 1) - 1]
          BY <1>2, <5>1
        <5>4. QED
          BY <3>2, <3>3, <5>1, <5>2, <5>3
      <4>3. QED
        BY <4>1, <4>2
    <3>6. \A j \in DOMAIN t : t[i] = t[j] => i = j
      <4> SUFFICES ASSUME NEW j \in DOMAIN t, t[i] = t[j] PROVE i = j
        OBVIOUS
      <4>1. j # 1 /\ j - 1 \in DOMAIN s /\ t[j] = s[j - 1]
        BY <1>2, <2>1, <3>1
      <4>2. i - 1 = j - 1
        BY <3>1, <3>2, <4>1
      <4>3. QED
        BY <1>2, <1>3, <4>2
    <3>7. QED
      BY <3>1, <3>2, <3>3, <3>4, <3>5, <3>6
  <2>4. QED
    BY <2>2, <2>3
<1>8. \A c \in Buckets : bk2[c] = IF M[c] = <<>> THEN 0 ELSE M[c][1]
  <2>1. \A c \in Buckets : bk[c] = IF L[c] = <<>> THEN 0 ELSE L[c][1]
    BY DEF Lists
  <2> SUFFICES ASSUME NEW c \in Buckets
               PROVE  bk2[c] = IF M[c] = <<>> THEN 0 ELSE M[c][1]
    OBVIOUS
  <2>2. CASE c = b
    <3>1. bk2[b] = o
      OBVIOUS
    <3>2. (IF M[b] = <<>> THEN 0 ELSE M[b][1]) = o
      BY <1>2, <1>4
    <3>3. QED
      BY <2>2, <3>1, <3>2
  <2>3. CASE c # b
    <3>1. bk2[c] = bk[c]
      BY <2>3
    <3>2. M[c] = L[c]
      BY <1>4, <2>3
    <3>3. QED
      BY <2>1, <3>1, <3>2
  <2>4. QED
    BY <2>2, <2>3
<1>9. ASSUME NEW x \in DOMAIN k, k[x].mark = "free", x \notin limbo2
      PROVE  /\ Index(k[x].size) \in Buckets
             /\ \E i \in DOMAIN M[Index(k[x].size)] : M[Index(k[x].size)][i] = x
  <2>1. CASE x = o
    <3>1. 1 \in DOMAIN t
      BY <1>2, <1>3
    <3>2. QED
      BY <1>2, <1>4, <2>1, <3>1
  <2>2. CASE x # o
    <3> DEFINE c == Index(f[x].size)
    <3>1. x \in DOMAIN f /\ f[x].mark = "free" /\ x \notin limbo /\ k[x].size = f[x].size
      BY <1>9, <2>2
    <3>2. c \in Buckets /\ \E i \in DOMAIN L[c] : L[c][i] = x
      BY <3>1 DEF Lists
    <3> HIDE DEF c
    <3>3. PICK i \in DOMAIN L[c] : L[c][i] = x
      BY <3>2
    <3>4. CASE c = b
      <4>1. i \in 1..Len(s) /\ i + 1 \in DOMAIN t /\ t[i + 1] = x
        <5>1. i \in DOMAIN s /\ s[i] = x
          BY <3>3, <3>4
        <5>2. QED
          BY <1>2, <1>3, <5>1
      <4>2. \E j \in DOMAIN M[c] : M[c][j] = x
        BY <1>4, <3>4, <4>1
      <4>3. QED
        BY <3>1, <3>2, <4>2 DEF c
    <3>5. CASE c # b
      <4>1. \E j \in DOMAIN M[c] : M[c][j] = x
        BY <1>4, <3>2, <3>5
      <4>2. QED
        BY <3>1, <3>2, <4>1 DEF c
    <3>6. QED
      BY <3>4, <3>5
  <2>3. QED
    BY <2>1, <2>2
<1>10. \A c \in Buckets : Chain(k, M[c], c, limbo2)
  BY <1>4, <1>6, <1>7
<1>11. Lists(k, bk2, M, limbo2)
  BY <1>4, <1>8, <1>9, <1>10 DEF Lists
<1>12. QED
  BY <1>11

\* From the heads f and the buckets bk to k and bk2, the object o leaves the list s of
\* bucket b, where it was the one at j: it gets another mark or comes into limbo.
Removed(f, k, bk, bk2, limbo, limbo2, o, b, s, j) ==
  /\ bk \in [Buckets -> Nat] /\ bk2 = IF j = 1 THEN [bk EXCEPT ![b] = f[o].next] ELSE bk
  /\ 0 \notin DOMAIN f /\ b \in Buckets /\ j \in 1..Len(s) /\ o = s[j]
  /\ DOMAIN k = DOMAIN f
  /\ o \in limbo2 \/ k[o].mark # "free"
  /\ limbo \subseteq limbo2 /\ limbo2 \subseteq limbo \cup {o}
  /\ \A x \in DOMAIN f : x # o =>
       /\ k[x].mark = f[x].mark /\ k[x].size = f[x].size
       /\ k[x].next = IF j > 1 /\ x = s[j - 1] THEN f[o].next ELSE f[x].next
       /\ x # f[o].next => k[x].prev = f[x].prev
       /\ j > 1 /\ x = f[o].next => k[x].prev = f[o].prev

LEMMA ListsRemove ==
  ASSUME NEW f, NEW k, NEW bk, NEW bk2, NEW limbo, NEW limbo2, NEW o, NEW b, NEW j, NEW L,
         Lists(f, bk, L, limbo), Removed(f, k, bk, bk2, limbo, limbo2, o, b, L[b], j)
  PROVE  \E M : Lists(k, bk2, M, limbo2)
<1> USE DEF Removed
<1> DEFINE s == L[b]
           t == Without(s, j)
           n == Len(s)
           M == [L EXCEPT ![b] = Without(@, j)]
<1>1. /\ L \in [Buckets -> Seq(Nat)] /\ s \in Seq(Nat)
      /\ \A c \in Buckets : Chain(f, L[c], c, limbo)
      /\ \A c \in Buckets : bk[c] = IF L[c] = <<>> THEN 0 ELSE L[c][1]
  BY DEF Lists
<1>2. /\ t \in Seq(Nat) /\ Len(t) = n - 1 /\ DOMAIN t = 1..(n - 1)
      /\ n \in Nat \ {0} /\ DOMAIN s = 1..n
      /\ \A i \in 1..(n - 1) : t[i] = IF i < j THEN s[i] ELSE s[i + 1]
      /\ t = <<>> <=> n = 1
  BY <1>1, WithoutFacts
<1>3. M \in [Buckets -> Seq(Nat)] /\ M[b] = t /\ \A c \in Buckets : c # b => M[c] = L[c]
  BY <1>1, <1>2
<1>4. \A c \in Buckets : \A i \in DOMAIN L[c] :
        /\ L[c][i] \in DOMAIN f /\ L[c][i] \notin limbo
        /\ f[L[c][i]].mark = "free" /\ Index(f[L[c][i]].size) = c
  BY <1>1 DEF Chain
<1>5. \A i \in 1..n :
        /\ s[i] \in DOMAIN f /\ s[i] \notin limbo
        /\ f[s[i]].mark = "free" /\ Index(f[s[i]].size) = b
        /\ f[s[i]].next = IF i = n THEN 0 ELSE s[i + 1]
        /\ i > 1 => f[s[i]].prev = s[i - 1]
        /\ \A q \in 1..n : s[i] = s[q] => i = q
  <2>1. Chain(f, s, b, limbo)
    BY <1>1
  <2>2. QED
    BY <1>2, <2>1 DEF Chain
<1>6. s[j] = o /\ j \in 1..n
  OBVIOUS
<1> HIDE DEF t, M, n
<1>7. ASSUME NEW c \in Buckets, c # b
      PROVE  Chain(k, M[c], c, limbo2)
  <2>1. L[c] \in Seq(Nat) /\ Chain(f, L[c], c, limbo)
    BY <1>1
  <2>2. ASSUME NEW i \in DOMAIN L[c]
        PROVE  L[c][i] \in DOMAIN k /\ L[c][i] \notin limbo2 /\ Same(k[L[c][i]], f[L[c][i]])
    <3> DEFINE x == L[c][i]
    <3>1. x \in DOMAIN f /\ x \notin limbo /\ Index(f[x].size) = c
      BY <1>4, <2>2
    <3> HIDE DEF x
    <3>2. \A q \in 1..n : x # s[q]
      BY <1>5, <1>7, <3>1
    <3>3. x # o /\ (j > 1 => x # s[j - 1]) /\ x # f[o].next
      <4>1. j > 1 => j - 1 \in 1..n
        BY <1>2
      <4>2. f[o].next = 0 \/ \E q \in 1..n : f[o].next = s[q]
        BY <1>2, <1>5, <1>6
      <4>3. QED
        BY <1>6, <3>1, <3>2, <4>1, <4>2
    <3>4. x \in DOMAIN k /\ x \notin limbo2 /\ Same(k[x], f[x])
      BY <3>1, <3>3 DEF Same
    <3>5. QED
      BY <3>4 DEF x
  <2>3. QED
    BY <1>3, <1>7, <2>1, <2>2, ChainSame
<1>8. Chain(k, t, b, limbo2)
  <2> SUFFICES ASSUME NEW i \in DOMAIN t
               PROVE  /\ t[i] \in DOMAIN k /\ t[i] \notin limbo2
                      /\ k[t[i]].mark = "free" /\ Index(k[t[i]].size) = b
                      /\ k[t[i]].next = IF i = Len(t) THEN 0 ELSE t[i + 1]
                      /\ i > 1 => k[t[i]].prev = t[i - 1]
                      /\ \A q \in DOMAIN t : t[i] = t[q] => i = q
    BY DEF Chain
  <2> DEFINE u == IF i < j THEN i ELSE i + 1
  <2>0. i \in 1..(n - 1) /\ j \in 1..n /\ n \in Nat \ {0}
    BY <1>2, <1>6
  <2>1. /\ u \in 1..n /\ u # j /\ t[i] = s[u] /\ i \in 1..(n - 1)
    <3>1. u \in 1..n /\ u # j
      BY <2>0
    <3>2. t[i] = IF i < j THEN s[i] ELSE s[i + 1]
      BY <1>2, <2>0
    <3>3. QED
      BY <2>0, <3>1, <3>2
  <2> DEFINE x == s[u]
  <2>2. /\ x \in DOMAIN f /\ x \notin limbo
        /\ f[x].mark = "free" /\ Index(f[x].size) = b
        /\ f[x].next = IF u = n THEN 0 ELSE s[u + 1]
        /\ u > 1 => f[x].prev = s[u - 1]
        /\ \A q \in 1..n : x = s[q] => u = q
    BY <1>5, <2>1
  <2>3. x # o
    BY <1>6, <2>1, <2>2
  <2>4. f[o].next = (IF j = n THEN 0 ELSE s[j + 1]) /\ (j > 1 => f[o].prev = s[j - 1])
    BY <1>5, <1>6
  <2>5. /\ k[x].mark = "free" /\ Index(k[x].size) = b
        /\ k[x].next = IF j > 1 /\ x = s[j - 1] THEN f[o].next ELSE f[x].next
        /\ x # f[o].next => k[x].prev = f[x].prev
        /\ j > 1 /\ x = f[o].next => k[x].prev = f[o].prev
    BY <2>2, <2>3
  <2> HIDE DEF x
  <2>6. k[x].next = IF i = Len(t) THEN 0 ELSE t[i + 1]
    <3>1. CASE i = j - 1
      <4>1. j > 1 /\ u = j - 1 /\ k[x].next = f[o].next
        BY <1>2, <2>1, <2>5, <3>1 DEF x
      <4>2. i # n - 1 => t[i + 1] = s[j + 1]
        <5> HIDE DEF Removed, s, u
        <5>1. i # n - 1 => i + 1 \in 1..(n - 1) /\ ~ (i + 1 < j) /\ (i + 1) + 1 = j + 1
          BY <2>0, <3>1
        <5>2. QED
          BY <1>2, <5>1
      <4>3. i = n - 1 <=> j = n
        BY <1>2, <2>1, <3>1
      <4>4. QED
        BY <1>2, <2>4, <4>1, <4>2, <4>3
    <3>2. CASE i # j - 1
      <4>1. k[x].next = f[x].next
        <5>1. j > 1 => j - 1 \in 1..n /\ u # j - 1
          BY <2>0, <3>2
        <5> HIDE DEF Removed, s, u
        <5>2. j > 1 => x # s[j - 1]
          BY <2>2, <5>1
        <5>3. QED
          BY <2>5, <5>2
      <4>2. u = n <=> i = n - 1
        BY <1>2, <2>1, <3>2
      <4>3. i # n - 1 => t[i + 1] = s[u + 1]
        <5> SUFFICES ASSUME i # n - 1 PROVE t[i + 1] = s[u + 1]
          OBVIOUS
        <5>1. i + 1 \in 1..(n - 1)
          <6> HIDE DEF Removed, s, u
          <6>1. i # n - 1
            OBVIOUS
          <6>2. QED
            BY <2>0, <6>1
        <5>2. CASE i < j
          <6>1. i + 1 < j /\ u = i
            BY <2>0, <3>2, <5>2
          <6>2. QED
            BY <1>2, <5>1, <6>1
        <5>3. CASE ~ (i < j)
          <6>1. ~ (i + 1 < j) /\ u = i + 1
            BY <2>0, <5>3
          <6>2. QED
            BY <1>2, <5>1, <6>1
        <5>4. QED
          BY <5>2, <5>3
      <4>4. QED
        BY <1>2, <2>2, <4>1, <4>2, <4>3
    <3>3. QED
      BY <3>1, <3>2
  <2>7. i > 1 => k[x].prev = t[i - 1]
    <3> SUFFICES ASSUME i > 1 PROVE k[x].prev = t[i - 1]
      OBVIOUS
    <3>1. i - 1 \in 1..(n - 1)
      <4> HIDE DEF Removed, s, u, x
      <4>1. QED
        BY <2>0
    <3>2. CASE i = j
      <4>1. u = j + 1 /\ j # n /\ j > 1
        BY <1>2, <2>1, <3>2
      <4>2. x = f[o].next /\ f[o].prev = s[j - 1]
        BY <2>4, <4>1 DEF x
      <4>3. t[i - 1] = s[j - 1]
        BY <1>2, <3>1, <3>2
      <4>4. QED
        BY <2>5, <4>1, <4>2, <4>3
    <3>3. CASE i # j
      <4>1. x # f[o].next
        <5>1. j # n => j + 1 \in 1..n /\ u # j + 1
          BY <1>2, <2>1, <3>3
        <5>2. x # 0
          BY <2>2
        <5>3. QED
          BY <2>2, <2>4, <5>1, <5>2
      <4>2. u > 1 /\ t[i - 1] = s[u - 1]
        <5>1. CASE i < j
          <6>1. i - 1 < j /\ u = i
            BY <2>0, <5>1
          <6>2. QED
            BY <1>2, <3>1, <6>1
        <5>2. CASE ~ (i < j)
          <6>1. ~ (i - 1 < j) /\ u = i + 1 /\ (i - 1) + 1 = u - 1 /\ u > 1
            BY <2>0, <3>3, <5>2
          <6>2. t[i - 1] = s[(i - 1) + 1]
            BY <1>2, <3>1, <6>1
          <6>3. QED
            BY <6>1, <6>2
        <5>3. QED
          BY <5>1, <5>2
      <4>3. QED
        BY <2>2, <2>5, <4>1, <4>2
    <3>4. QED
      BY <3>2, <3>3
  <2>8. \A q \in DOMAIN t : t[i] = t[q] => i = q
    <3> SUFFICES ASSUME NEW q \in DOMAIN t, t[i] = t[q] PROVE i = q
      OBVIOUS
    <3> DEFINE v == IF q < j THEN q ELSE q + 1
    <3>1. v \in 1..n /\ t[q] = s[v] /\ q \in 1..(n - 1)
      <4>1. q \in 1..(n - 1)
        BY <1>2
      <4>2. t[q] = IF q < j THEN s[q] ELSE s[q + 1]
        BY <1>2, <4>1
      <4>3. v \in 1..n
        <5> HIDE DEF Removed, s, u, x
        <5>1. QED
          BY <2>0, <4>1
      <4>4. QED
        BY <4>1, <4>2, <4>3
    <3>2. u = v
      BY <2>1, <2>2, <3>1 DEF x
    <3>3. j \in Int /\ i \in Int /\ q \in Int
      BY <2>0, <3>1
    <3>4. QED
      BY <2>1, <3>1, <3>2, <3>3
  <2>9. x \notin limbo2
    BY <2>2, <2>3
  <2>10. t[i] = x
    BY <2>1 DEF x
  <2>11. QED
    BY <2>2, <2>5, <2>6, <2>7, <2>8, <2>9, <2>10
<1>9. ASSUME NEW c \in Buckets
      PROVE  bk2[c] = IF M[c] = <<>> THEN 0 ELSE M[c][1]
  <2>1. CASE c # b
    <3>1. bk2[c] = bk[c]
      BY <2>1
    <3>2. M[c] = L[c]
      BY <1>3, <2>1
    <3>3. QED
      BY <1>1, <3>1, <3>2
  <2>2. CASE c = b /\ j = 1
    <3>1. bk2[b] = f[o].next
      BY <2>2
    <3>2. f[o].next = IF n = 1 THEN 0 ELSE s[2]
      <4>1. f[s[1]].next = IF 1 = n THEN 0 ELSE s[1 + 1]
        BY <1>5, <1>6, <2>2
      <4>2. 1 + 1 = 2
        OBVIOUS
      <4>3. QED
        BY <1>6, <2>2, <4>1, <4>2
    <3>3. n # 1 => t[1] = s[2]
      <4>1. n # 1 => 1 \in 1..(n - 1) /\ ~ (1 < j)
        BY <1>2, <2>2
      <4>2. QED
        BY <1>2, <4>1
    <3>4. (IF t = <<>> THEN 0 ELSE t[1]) = f[o].next
      BY <1>2, <3>2, <3>3
    <3>5. QED
      BY <1>3, <2>2, <3>1, <3>4
  <2>3. CASE c = b /\ j # 1
    <3>1. bk2[b] = bk[b]
      BY <2>3
    <3>2. n # 1 /\ 1 \in 1..(n - 1) /\ 1 < j
      BY <1>2, <1>6, <2>3
    <3>3. t # <<>> /\ t[1] = s[1] /\ s # <<>>
      BY <1>2, <3>2
    <3>4. bk[b] = s[1]
      BY <1>1, <3>3
    <3>5. (IF t = <<>> THEN 0 ELSE t[1]) = s[1]
      BY <3>3
    <3>6. QED
      BY <1>3, <2>3, <3>1, <3>4, <3>5
  <2>4. QED
    BY <2>1, <2>2, <2>3
<1>10. ASSUME NEW x \in DOMAIN k, k[x].mark = "free", x \notin limbo2
       PROVE  /\ Index(k[x].size) \in Buckets
              /\ \E i \in DOMAIN M[Index(k[x].size)] : M[Index(k[x].size)][i] = x
  <2> DEFINE c == Index(f[x].size)
  <2>1. /\ x # o /\ x \in DOMAIN f /\ f[x].mark = "free" /\ x \notin limbo
        /\ k[x].size = f[x].size
    BY <1>10
  <2>2. c \in Buckets /\ \E i \in DOMAIN L[c] : L[c][i] = x
    BY <2>1 DEF Lists
  <2> HIDE DEF c
  <2>3. PICK i \in DOMAIN L[c] : L[c][i] = x
    BY <2>2
  <2>4. CASE c = b
    <3>1. i \in 1..n /\ s[i] = x
      BY <1>2, <2>3, <2>4
    <3>2. i # j
      BY <1>6, <2>1, <3>1
    <3>3. CASE i < j
      <4>1. i \in 1..(n - 1) /\ t[i] = x
        BY <1>2, <1>6, <3>1, <3>3
      <4>2. c \in Buckets /\ M[c] = t /\ i \in DOMAIN t
        BY <1>2, <1>3, <2>2, <2>4, <4>1
      <4>3. QED
        BY <2>1, <4>1, <4>2 DEF c
    <3>4. CASE i > j
      <4>1. i - 1 \in 1..(n - 1) /\ ~ (i - 1 < j) /\ (i - 1) + 1 = i
        BY <1>2, <1>6, <3>1, <3>4
      <4>2. t[i - 1] = x
        BY <1>2, <3>1, <4>1
      <4>3. c \in Buckets /\ M[c] = t /\ i - 1 \in DOMAIN t
        BY <1>2, <1>3, <2>2, <2>4, <4>1
      <4>4. QED
        BY <2>1, <4>2, <4>3 DEF c
    <3>5. QED
      BY <1>2, <1>6, <3>1, <3>2, <3>3, <3>4
  <2>5. CASE c # b
    <3>1. \E q \in DOMAIN M[c] : M[c][q] = x
      BY <1>3, <2>2, <2>5
    <3>2. QED
      BY <2>1, <2>2, <3>1 DEF c
  <2>6. QED
    BY <2>4, <2>5
<1>11. \A c \in Buckets : Chain(k, M[c], c, limbo2)
  BY <1>3, <1>7, <1>8
<1>12. Lists(k, bk2, M, limbo2)
  BY <1>3, <1>9, <1>10, <1>11 DEF Lists
<1>13. QED
  BY <1>12

-----------------------------------------------------------------------------
\* The space.

LEMMA HeadMapFacts ==
  ASSUME NEW f \in HeadMaps
  PROVE  /\ DOMAIN f \subseteq Nat
         /\ f \in [DOMAIN f -> Heads]
         /\ \A o \in DOMAIN f : /\ o \in Nat /\ f[o] \in Heads
                                /\ f[o].size \in Nat /\ f[o].next \in Nat /\ f[o].prev \in Int
  BY DEF HeadMaps, Heads

LEMMA IsHeadMap ==
  ASSUME NEW D, D \subseteq Nat, NEW f \in [D -> Heads]
  PROVE  f \in HeadMaps /\ DOMAIN f = D
  BY DEF HeadMaps

LEMMA EndOfInt == \A s \in Subareas : EndOf(s) \in Int /\ s.at \in Nat /\ s.size \in Nat
  BY ConstantsNat DEF EndOf, Subareas

\* No piece lies within another one.
LEMMA SpaceApart ==
  ASSUME NEW f \in HeadMaps, NEW end, NEW subs, NEW C, Space(f, end, subs, C),
         NEW o \in DOMAIN f, NEW y
  PROVE  o < y /\ y < o + f[o].size => y \notin DOMAIN f
<1> SUFFICES ASSUME o < y, y < o + f[o].size, y \in DOMAIN f PROVE FALSE
  OBVIOUS
<1>1. o + f[o].size <= y
  BY DEF Space
<1>2. o \in Nat /\ y \in Nat /\ f[o].size \in Nat
  BY HeadMapFacts
<1>3. QED
  BY <1>1, <1>2

\* Marks do not matter but those of the markers.
Marker(e) == e.mark \in {"start", "end"}

\* What is the same for the space.
SameExtent(e, d) ==
  /\ e.size = d.size
  /\ Marker(e) \/ Marker(d) => e.mark = d.mark

LEMMA SpaceSame ==
  ASSUME NEW f, NEW k, NEW end, NEW subs, NEW C, Space(f, end, subs, C),
         DOMAIN k = DOMAIN f,
         \A x \in DOMAIN f : SameExtent(k[x], f[x])
  PROVE  Space(k, end, subs, C)
<1>1. \A x \in DOMAIN f : /\ k[x].size = f[x].size
                          /\ k[x].mark = "end" <=> f[x].mark = "end"
                          /\ k[x].mark = "start" <=> f[x].mark = "start"
  BY DEF SameExtent, Marker
<1>2. QED
  BY <1>1 DEF Space

\* A piece is split in two.
LEMMA SpaceSplit ==
  ASSUME NEW f \in HeadMaps, NEW k \in HeadMaps, NEW end \in Nat, NEW subs \in Seq(Subareas),
         NEW C \in SUBSET Nat, Space(f, end, subs, C),
         NEW o \in DOMAIN f, NEW n \in Nat, n >= Min, f[o].size >= n + Min,
         DOMAIN k = DOMAIN f \cup {o + n},
         ~ Marker(f[o]), ~ Marker(k[o]), ~ Marker(k[o + n]),
         k[o].size = n, k[o + n].size = f[o].size - n,
         \A x \in DOMAIN f : x # o => SameExtent(k[x], f[x])
  PROVE  Space(k, end, subs, C) /\ o + n \notin DOMAIN f
<1>1. \A x \in DOMAIN f : x \in Nat /\ f[x].size \in Nat
  BY HeadMapFacts
<1>2. Min \in Nat \ {0} /\ FixLen \in Nat \ {0} /\ Base \in Nat
  BY ConstantsNat
<1>3. o + n \notin DOMAIN f
  BY <1>1, <1>2, SpaceApart
<1>4. \A x \in DOMAIN f : x # o => /\ k[x].size = f[x].size
                                   /\ k[x].mark = "end" <=> f[x].mark = "end"
                                   /\ k[x].mark = "start" <=> f[x].mark = "start"
  BY DEF SameExtent, Marker
<1>5. /\ f[o].mark # "end" /\ f[o].mark # "start" /\ k[o].mark # "end" /\ k[o].mark # "start"
      /\ k[o + n].mark # "end" /\ k[o + n].mark # "start"
  BY DEF Marker
<1>6. /\ \A x \in DOMAIN f : f[x].size >= Min /\ x >= Base /\ x + f[x].size <= end
      /\ \A x, y \in DOMAIN f : x < y => x + f[x].size <= y
      /\ \A x \in DOMAIN f : f[x].mark # "end" => x + f[x].size \in DOMAIN f
      /\ \A c \in C, x \in DOMAIN f : x + f[x].size <= c \/ c + FixLen <= x
  BY DEF Space
<1>7. \A x \in DOMAIN k : k[x].size >= Min /\ x >= Base /\ x + k[x].size <= end
  <2> SUFFICES ASSUME NEW x \in DOMAIN k
               PROVE  k[x].size >= Min /\ x >= Base /\ x + k[x].size <= end
    OBVIOUS
  <2>1. o \in Nat /\ f[o].size \in Nat /\ o >= Base /\ o + f[o].size <= end
    BY <1>1, <1>6
  <2>2. CASE x = o
    BY <1>2, <2>1, <2>2
  <2>3. CASE x = o + n
    BY <1>2, <2>1, <2>3
  <2>4. CASE x \in DOMAIN f /\ x # o
    BY <1>4, <1>6, <2>4
  <2>5. QED
    BY <2>2, <2>3, <2>4
<1>8. \A x, y \in DOMAIN k : x < y => x + k[x].size <= y
  <2> SUFFICES ASSUME NEW x \in DOMAIN k, NEW y \in DOMAIN k, x < y PROVE x + k[x].size <= y
    OBVIOUS
  <2>1. CASE x = o
    <3>1. y = o + n \/ (y \in DOMAIN f /\ o + f[o].size <= y)
      BY <1>6, <2>1
    <3>2. QED
      BY <1>1, <1>2, <2>1, <3>1
  <2>2. CASE x = o + n
    <3>1. y \in DOMAIN f /\ o < y
      BY <1>1, <1>2, <2>2
    <3>2. o + f[o].size <= y
      BY <1>6, <3>1
    <3>3. QED
      BY <1>1, <2>2, <3>2
  <2>3. CASE x # o /\ x # o + n
    <3>1. x \in DOMAIN f /\ k[x].size = f[x].size
      BY <1>4, <2>3
    <3>2. CASE y \in DOMAIN f
      BY <1>6, <3>1, <3>2
    <3>3. CASE y = o + n
      <4>1. x < o
        <5>1. CASE o < x
          BY <1>1, <1>2, <1>6, <3>1, <3>3, <5>1
        <5>2. QED
          BY <1>1, <2>3, <3>1, <5>1
      <4>2. x + f[x].size <= o
        BY <1>6, <3>1, <4>1
      <4>3. QED
        BY <1>1, <3>1, <3>3, <4>2
    <3>4. QED
      BY <3>2, <3>3
  <2>4. QED
    BY <2>1, <2>2, <2>3
<1>9. \A x \in DOMAIN k : k[x].mark # "end" => x + k[x].size \in DOMAIN k
  <2> SUFFICES ASSUME NEW x \in DOMAIN k, k[x].mark # "end" PROVE x + k[x].size \in DOMAIN k
    OBVIOUS
  <2>1. CASE x = o
    BY <2>1
  <2>2. CASE x = o + n
    <3>1. x + k[x].size = o + f[o].size
      BY <1>1, <2>2
    <3>2. QED
      BY <1>5, <1>6, <3>1
  <2>3. CASE x # o /\ x # o + n
    BY <1>4, <1>6, <2>3
  <2>4. QED
    BY <2>1, <2>2, <2>3
<1>10. \A i \in DOMAIN subs :
         /\ subs[i].at \in DOMAIN k /\ k[subs[i].at].mark = "start"
         /\ EndOf(subs[i]) - Min \in DOMAIN k
         /\ k[EndOf(subs[i]) - Min].mark = "end" /\ k[EndOf(subs[i]) - Min].size = Min
         /\ subs[i].at + Min < EndOf(subs[i]) /\ EndOf(subs[i]) <= end
         /\ \A x \in DOMAIN k :
              subs[i].at <= x /\ x < EndOf(subs[i]) /\ k[x].mark = "end" => x = EndOf(subs[i]) - Min
  <2> SUFFICES ASSUME NEW i \in DOMAIN subs
               PROVE  /\ subs[i].at \in DOMAIN k /\ k[subs[i].at].mark = "start"
                      /\ EndOf(subs[i]) - Min \in DOMAIN k
                      /\ k[EndOf(subs[i]) - Min].mark = "end" /\ k[EndOf(subs[i]) - Min].size = Min
                      /\ subs[i].at + Min < EndOf(subs[i]) /\ EndOf(subs[i]) <= end
                      /\ \A x \in DOMAIN k :
                           subs[i].at <= x /\ x < EndOf(subs[i]) /\ k[x].mark = "end"
                              => x = EndOf(subs[i]) - Min
    OBVIOUS
  <2> DEFINE a == subs[i].at
             z == EndOf(subs[i])
  <2>1. /\ a \in DOMAIN f /\ f[a].mark = "start"
        /\ z - Min \in DOMAIN f /\ f[z - Min].mark = "end" /\ f[z - Min].size = Min
        /\ a + Min < z /\ z <= end
        /\ \A x \in DOMAIN f : a <= x /\ x < z /\ f[x].mark = "end" => x = z - Min
    BY DEF Space
  <2> HIDE DEF a, z
  <2>2. a # o /\ z - Min # o
    BY <1>5, <2>1
  <2>3. /\ a \in DOMAIN k /\ k[a].mark = "start"
        /\ z - Min \in DOMAIN k /\ k[z - Min].mark = "end" /\ k[z - Min].size = Min
        /\ a + Min < z /\ z <= end
        /\ \A x \in DOMAIN k : a <= x /\ x < z /\ k[x].mark = "end" => x = z - Min
    BY <1>4, <1>5, <2>1, <2>2
  <2>4. QED
    BY <2>3 DEF a, z
<1>11. \A c \in C, x \in DOMAIN k : x + k[x].size <= c \/ c + FixLen <= x
  <2> SUFFICES ASSUME NEW c \in C, NEW x \in DOMAIN k
               PROVE  x + k[x].size <= c \/ c + FixLen <= x
    OBVIOUS
  <2>1. o + f[o].size <= c \/ c + FixLen <= o
    BY <1>6
  <2>2. x = o \/ x = o + n \/ (x \in DOMAIN f /\ k[x].size = f[x].size)
    BY <1>4
  <2>3. CASE x = o \/ x = o + n
    <3>1. c \in Nat /\ o \in Nat /\ f[o].size \in Nat
      BY <1>1
    <3>2. QED
      BY <1>2, <2>1, <2>3, <3>1
  <2>4. CASE x \in DOMAIN f /\ k[x].size = f[x].size
    BY <1>6, <2>4
  <2>5. QED
    BY <2>2, <2>3, <2>4
<1>12. QED
  BY <1>3, <1>7, <1>8, <1>9, <1>10, <1>11 DEF Space

\* Two pieces become one.
LEMMA SpaceJoin ==
  ASSUME NEW f \in HeadMaps, NEW k \in HeadMaps, NEW end \in Nat, NEW subs \in Seq(Subareas),
         NEW C \in SUBSET Nat, Space(f, end, subs, C),
         NEW a \in DOMAIN f, NEW c \in DOMAIN f, a + f[a].size = c,
         DOMAIN k = DOMAIN f \ {c},
         ~ Marker(f[a]), ~ Marker(f[c]), ~ Marker(k[a]),
         k[a].size = f[a].size + f[c].size,
         \A x \in DOMAIN f : x # a /\ x # c => SameExtent(k[x], f[x])
  PROVE  Space(k, end, subs, C)
<1>1. \A x \in DOMAIN f : x \in Nat /\ f[x].size \in Nat
  BY HeadMapFacts
<1>2. Min \in Nat \ {0} /\ FixLen \in Nat \ {0} /\ Base \in Nat
  BY ConstantsNat
<1>3. \A x \in DOMAIN f : x # a /\ x # c =>
        /\ k[x].size = f[x].size
        /\ k[x].mark = "end" <=> f[x].mark = "end"
        /\ k[x].mark = "start" <=> f[x].mark = "start"
  BY DEF SameExtent, Marker
<1>4. /\ f[a].mark # "end" /\ f[a].mark # "start" /\ k[a].mark # "end" /\ k[a].mark # "start"
      /\ f[c].mark # "end" /\ f[c].mark # "start"
  BY DEF Marker
<1>5. /\ \A x \in DOMAIN f : f[x].size >= Min /\ x >= Base /\ x + f[x].size <= end
      /\ \A x, y \in DOMAIN f : x < y => x + f[x].size <= y
      /\ \A x \in DOMAIN f : f[x].mark # "end" => x + f[x].size \in DOMAIN f
      /\ \A d \in C, x \in DOMAIN f : x + f[x].size <= d \/ d + FixLen <= x
  BY DEF Space
<1>6. a # c /\ a < c /\ a \in DOMAIN k /\ \A x \in DOMAIN k : x \in DOMAIN f /\ x # c
  BY <1>1, <1>2, <1>5
<1>7. \A x \in DOMAIN k : k[x].size >= Min /\ x >= Base /\ x + k[x].size <= end
  <2> SUFFICES ASSUME NEW x \in DOMAIN k
               PROVE  k[x].size >= Min /\ x >= Base /\ x + k[x].size <= end
    OBVIOUS
  <2>1. CASE x = a
    <3>1. x + k[x].size = c + f[c].size
      BY <1>1, <2>1
    <3>2. QED
      BY <1>1, <1>2, <1>5, <2>1, <3>1
  <2>2. CASE x # a
    BY <1>3, <1>5, <1>6, <2>2
  <2>3. QED
    BY <2>1, <2>2
<1>8. \A x, y \in DOMAIN k : x < y => x + k[x].size <= y
  <2> SUFFICES ASSUME NEW x \in DOMAIN k, NEW y \in DOMAIN k, x < y PROVE x + k[x].size <= y
    OBVIOUS
  <2>1. CASE x = a
    <3>1. y \in DOMAIN f /\ y # c /\ a + f[a].size <= y
      BY <1>5, <1>6, <2>1
    <3>2. c < y
      BY <1>1, <3>1
    <3>3. c + f[c].size <= y
      BY <1>5, <3>1, <3>2
    <3>4. QED
      BY <1>1, <2>1, <3>3
  <2>2. CASE x # a
    BY <1>3, <1>5, <1>6, <2>2
  <2>3. QED
    BY <2>1, <2>2
<1>9. \A x \in DOMAIN k : k[x].mark # "end" => x + k[x].size \in DOMAIN k
  <2> SUFFICES ASSUME NEW x \in DOMAIN k, k[x].mark # "end" PROVE x + k[x].size \in DOMAIN k
    OBVIOUS
  <2>1. CASE x = a
    <3>1. x + k[x].size = c + f[c].size
      BY <1>1, <2>1
    <3>2. c + f[c].size \in DOMAIN f /\ c + f[c].size # c
      BY <1>1, <1>2, <1>4, <1>5
    <3>3. QED
      BY <3>1, <3>2
  <2>2. CASE x # a
    <3>1. x \in DOMAIN f /\ x # c /\ k[x].size = f[x].size /\ f[x].mark # "end"
      BY <1>3, <1>6, <2>2
    <3>2. x + f[x].size \in DOMAIN f
      BY <1>5, <3>1
    <3>3. x + f[x].size # c
      <4>1. CASE x < a
        <5>1. x + f[x].size <= a
          BY <1>5, <3>1, <4>1
        <5>2. QED
          BY <1>1, <1>6, <3>2, <5>1
      <4>2. CASE a < x
        <5>1. c <= x
          BY <1>5, <3>1, <4>2
        <5>2. QED
          BY <1>1, <3>1, <5>1
      <4>3. QED
        BY <1>1, <2>2, <3>1, <4>1, <4>2
    <3>4. QED
      BY <3>1, <3>2, <3>3
  <2>3. QED
    BY <2>1, <2>2
<1>10. \A i \in DOMAIN subs :
         /\ subs[i].at \in DOMAIN k /\ k[subs[i].at].mark = "start"
         /\ EndOf(subs[i]) - Min \in DOMAIN k
         /\ k[EndOf(subs[i]) - Min].mark = "end" /\ k[EndOf(subs[i]) - Min].size = Min
         /\ subs[i].at + Min < EndOf(subs[i]) /\ EndOf(subs[i]) <= end
         /\ \A x \in DOMAIN k :
              subs[i].at <= x /\ x < EndOf(subs[i]) /\ k[x].mark = "end" => x = EndOf(subs[i]) - Min
  <2> SUFFICES ASSUME NEW i \in DOMAIN subs
               PROVE  /\ subs[i].at \in DOMAIN k /\ k[subs[i].at].mark = "start"
                      /\ EndOf(subs[i]) - Min \in DOMAIN k
                      /\ k[EndOf(subs[i]) - Min].mark = "end" /\ k[EndOf(subs[i]) - Min].size = Min
                      /\ subs[i].at + Min < EndOf(subs[i]) /\ EndOf(subs[i]) <= end
                      /\ \A x \in DOMAIN k :
                           subs[i].at <= x /\ x < EndOf(subs[i]) /\ k[x].mark = "end"
                              => x = EndOf(subs[i]) - Min
    OBVIOUS
  <2> DEFINE s == subs[i].at
             z == EndOf(subs[i])
  <2>1. /\ s \in DOMAIN f /\ f[s].mark = "start"
        /\ z - Min \in DOMAIN f /\ f[z - Min].mark = "end" /\ f[z - Min].size = Min
        /\ s + Min < z /\ z <= end
        /\ \A x \in DOMAIN f : s <= x /\ x < z /\ f[x].mark = "end" => x = z - Min
    BY DEF Space
  <2> HIDE DEF s, z
  <2>2. s # a /\ z - Min # a /\ s # c /\ z - Min # c
    BY <1>4, <2>1
  <2>3. /\ s \in DOMAIN k /\ k[s].mark = "start"
        /\ z - Min \in DOMAIN k /\ k[z - Min].mark = "end" /\ k[z - Min].size = Min
        /\ s + Min < z /\ z <= end
        /\ \A x \in DOMAIN k : s <= x /\ x < z /\ k[x].mark = "end" => x = z - Min
    BY <1>3, <1>4, <1>6, <2>1, <2>2
  <2>4. QED
    BY <2>3 DEF s, z
<1>11. \A d \in C, x \in DOMAIN k : x + k[x].size <= d \/ d + FixLen <= x
  <2> SUFFICES ASSUME NEW d \in C, NEW x \in DOMAIN k
               PROVE  x + k[x].size <= d \/ d + FixLen <= x
    OBVIOUS
  <2>1. CASE x = a
    <3>1. (a + f[a].size <= d \/ d + FixLen <= a) /\ (c + f[c].size <= d \/ d + FixLen <= c)
      BY <1>5
    <3>2. QED
      BY <1>1, <1>2, <2>1, <3>1
  <2>2. CASE x # a
    BY <1>3, <1>5, <1>6, <2>2
  <2>3. QED
    BY <2>1, <2>2
<1>12. QED
  BY <1>7, <1>8, <1>9, <1>10, <1>11 DEF Space

-----------------------------------------------------------------------------
\* The memory.

\* What a part of the code about the variable area leaves alone.
Others(k, g) == k.free = g.free /\ k.subs = g.subs /\ k.freelist = g.freelist /\ k.full = g.full

\* The heads that two memories have in common, but for those in O.
Alike(f, k, O) ==
  \A x : x \notin O => /\ x \in DOMAIN f <=> x \in DOMAIN k
                       /\ x \in DOMAIN f => k[x].mark = f[x].mark /\ k[x].size = f[x].size

LEMMA AlikeTrans ==
  ASSUME NEW f, NEW k, NEW j, NEW O, NEW P, Alike(f, k, O), Alike(k, j, P)
  PROVE  Alike(f, j, O \cup P)
  BY DEF Alike

\* The pieces and the lists, whatever the victim.
Mem(g, C) ==
  /\ g \in Memory /\ g.free <= SegSize
  /\ Space(g.obj, g.free, g.subs["var"], C)
  /\ Linked(g)

\* The same, where the objects in limbo were taken out of their lists.
Loose(g, C, limbo) ==
  /\ g \in Memory /\ g.free <= SegSize
  /\ Space(g.obj, g.free, g.subs["var"], C)
  /\ \E L : Lists(g.obj, g.bucket, L, limbo)

LEMMA MemoryFields ==
  ASSUME NEW g \in Memory
  PROVE  /\ g.free \in Nat /\ g.subs \in [var : Seq(Subareas), fix : Seq(Subareas)]
         /\ g.subs["var"] \in Seq(Subareas) /\ g.subs["fix"] \in Seq(Subareas)
         /\ g.obj \in HeadMaps /\ g.bucket \in [Buckets -> Nat]
         /\ g.dv \in Nat /\ g.dvsize \in Nat /\ g.freelist \in Seq(Nat) /\ g.full \in BOOLEAN
  BY DEF Memory

\* A memory with other heads and another victim.
LEMMA MemoryWith ==
  ASSUME NEW g \in Memory, NEW f \in HeadMaps, NEW b \in [Buckets -> Nat],
         NEW v \in Nat, NEW n \in Nat
  PROVE  LET k == [g EXCEPT !.obj = f, !.bucket = b, !.dv = v, !.dvsize = n] IN
           /\ k \in Memory /\ Others(k, g)
           /\ k.obj = f /\ k.bucket = b /\ k.dv = v /\ k.dvsize = n
  BY DEF Memory, Others

LEMMA MemFacts ==
  ASSUME NEW g, NEW C, Mem(g, C)
  PROVE  /\ 0 \notin DOMAIN g.obj
         /\ \A o \in DOMAIN g.obj :
              /\ o \in Nat \ {0} /\ g.obj[o] \in Heads
              /\ g.obj[o].size \in 0..SegSize /\ g.obj[o].size >= Min
              /\ Index(g.obj[o].size) \in Buckets
<1>1. g.obj \in HeadMaps /\ g.free \in Nat /\ g.free <= SegSize
  BY MemoryFields DEF Mem
<1>2. \A o \in DOMAIN g.obj : g.obj[o].size >= Min /\ o >= Base /\ o + g.obj[o].size <= g.free
  BY DEF Mem, Space
<1>3. 0 \notin DOMAIN g.obj
  BY <1>2, ConstantsNat
<1>4. ASSUME NEW o \in DOMAIN g.obj
      PROVE  g.obj[o].size \in 0..SegSize
  <2>1. o \in Nat /\ g.obj[o].size \in Nat
    BY <1>1, HeadMapFacts
  <2>2. QED
    BY <1>1, <1>2, <2>1, ConstantsNat
<1>5. QED
  BY <1>1, <1>2, <1>3, <1>4, HeadMapFacts, IndexFacts

\* What Push does.
LEMMA PushFields ==
  ASSUME NEW g \in Memory, NEW o \in Nat, NEW n \in 0..SegSize
  PROVE  LET k == Push(g, o, n)
             b == Index(n)
         IN /\ k \in Memory /\ Others(k, g) /\ k.dv = g.dv /\ k.dvsize = g.dvsize
            /\ DOMAIN k.obj = DOMAIN g.obj \cup {o}
            /\ k.obj[o].mark = "free" /\ k.obj[o].size = n /\ k.obj[o].next = g.bucket[b]
            /\ \A x \in DOMAIN g.obj : x # o =>
                 /\ k.obj[x].mark = g.obj[x].mark /\ k.obj[x].size = g.obj[x].size
                 /\ k.obj[x].next = g.obj[x].next
                 /\ k.obj[x].prev = IF x = g.bucket[b] THEN o ELSE g.obj[x].prev
            /\ k.bucket = [g.bucket EXCEPT ![b] = o]
<1> DEFINE b == Index(n)
           first == g.bucket[b]
           head == [mark |-> "free", prevfree |-> FALSE, size |-> n, next |-> first,
                    prev |-> AddressOf(b)]
           f == g.obj
           F == [x \in DOMAIN f \cup {o} |->
                   IF x = o THEN head ELSE IF x = first THEN [f[x] EXCEPT !.prev = o] ELSE f[x]]
           B == [g.bucket EXCEPT ![b] = o]
           k == Push(g, o, n)
<1>1. b \in Buckets /\ b \in Int
  BY IndexFacts, ConstantsNat DEF Buckets
<1>2. f \in HeadMaps /\ g.bucket \in [Buckets -> Nat] /\ first \in Nat /\ g.dv \in Nat /\ g.dvsize \in Nat
  BY <1>1, MemoryFields
<1>3. head \in Heads
  <2>1. AddressOf(b) \in Int /\ n \in Nat
    BY <1>1, ConstantsNat DEF AddressOf
  <2>2. QED
    BY <1>2, <2>1 DEF Heads
<1>4. k = [g EXCEPT !.obj = F, !.bucket = B]
  BY DEF Push
<1>5. B \in [Buckets -> Nat]
  BY <1>1, <1>2
<1>6. /\ head.mark = "free" /\ head.size = n /\ head.next = first
  OBVIOUS
<1>7. \A x \in DOMAIN f : f[x] \in Heads /\ [f[x] EXCEPT !.prev = o] \in Heads
  BY <1>2, HeadMapFacts DEF Heads
<1>8. \A x \in DOMAIN f : LET e == [f[x] EXCEPT !.prev = o] IN
         e.mark = f[x].mark /\ e.size = f[x].size /\ e.next = f[x].next /\ e.prev = o
  BY <1>7 DEF Heads
<1> HIDE DEF head
<1>9. F \in [DOMAIN f \cup {o} -> Heads] /\ DOMAIN f \cup {o} \subseteq Nat
  BY <1>2, <1>3, <1>7, HeadMapFacts
<1>10. F \in HeadMaps /\ DOMAIN F = DOMAIN f \cup {o}
  BY <1>9, IsHeadMap
<1>11. /\ F[o] = head
       /\ \A x \in DOMAIN f : x # o => F[x] = IF x = first THEN [f[x] EXCEPT !.prev = o] ELSE f[x]
  OBVIOUS
<1> HIDE DEF F, B
<1>12. k \in Memory /\ Others(k, g) /\ k.obj = F /\ k.bucket = B /\ k.dv = g.dv /\ k.dvsize = g.dvsize
  BY <1>4, <1>5, <1>10 DEF Memory, Others
<1> HIDE DEF f, first, b, k
<1>13. \A x \in DOMAIN f : x # o =>
         /\ F[x].mark = f[x].mark /\ F[x].size = f[x].size /\ F[x].next = f[x].next
         /\ F[x].prev = IF x = first THEN o ELSE f[x].prev
  BY <1>8, <1>11
<1>14. F[o].mark = "free" /\ F[o].size = n /\ F[o].next = first
  BY <1>6, <1>11
<1>15. QED
  BY <1>10, <1>12, <1>13, <1>14 DEF f, first, b, k, B

\* The heads after Push, whose list begins with first.
PushedHeads(f, first, o, n) ==
  [x \in DOMAIN f \cup {o} |->
     IF x = o THEN [mark |-> "free", prevfree |-> FALSE, size |-> n, next |-> first,
                    prev |-> AddressOf(Index(n))]
     ELSE IF x = first THEN [f[x] EXCEPT !.prev = o] ELSE f[x]]

\* Push reads and writes nothing but heads and buckets.
LEMMA PushAlike ==
  ASSUME NEW g \in Memory, NEW c \in Memory, c.obj = g.obj, c.bucket = g.bucket, NEW o, NEW n
  PROVE  /\ Push(c, o, n).obj = Push(g, o, n).obj
         /\ Push(c, o, n).bucket = Push(g, o, n).bucket
<1>1. \A k \in Memory : /\ Push(k, o, n).obj = PushedHeads(k.obj, k.bucket[Index(n)], o, n)
                        /\ Push(k, o, n).bucket = [k.bucket EXCEPT ![Index(n)] = o]
  BY DEF Push, PushedHeads, Memory
<1>2. QED
  BY <1>1

\* An object that is in no list goes to one.
LEMMA PushMem ==
  ASSUME NEW g, NEW C, Mem(g, C), NEW o \in DOMAIN g.obj,
         ~ Marker(g.obj[o]), g.obj[o].mark # "free", NEW n, n = g.obj[o].size
  PROVE  LET k == Push(g, o, n) IN
           /\ Mem(k, C) /\ Others(k, g) /\ k.dv = g.dv /\ k.dvsize = g.dvsize
           /\ Alike(g.obj, k.obj, {o})
           /\ o \in DOMAIN k.obj /\ k.obj[o].mark = "free" /\ k.obj[o].size = n
<1> DEFINE k == Push(g, o, n)
           b == Index(n)
<1>1. g \in Memory /\ g.bucket \in [Buckets -> Nat] /\ o \in Nat \ {0} /\ n \in 0..SegSize
  /\ b \in Buckets /\ 0 \notin DOMAIN g.obj
  BY MemFacts, MemoryFields DEF Mem
<1>2. /\ k \in Memory /\ Others(k, g) /\ k.dv = g.dv /\ k.dvsize = g.dvsize
      /\ DOMAIN k.obj = DOMAIN g.obj \cup {o}
      /\ k.obj[o].mark = "free" /\ k.obj[o].size = n /\ k.obj[o].next = g.bucket[b]
      /\ \A x \in DOMAIN g.obj : x # o =>
           /\ k.obj[x].mark = g.obj[x].mark /\ k.obj[x].size = g.obj[x].size
           /\ k.obj[x].next = g.obj[x].next
           /\ k.obj[x].prev = IF x = g.bucket[b] THEN o ELSE g.obj[x].prev
      /\ k.bucket = [g.bucket EXCEPT ![b] = o]
  BY <1>1, PushFields
<1> HIDE DEF k
<1>3. PICK L : Lists(g.obj, g.bucket, L, {})
  BY DEF Mem, Linked
<1>4. Index(k.obj[o].size) = b
  BY <1>2
<1> HIDE DEF b
<1>6. Pushed(g.obj, k.obj, g.bucket, k.bucket, {}, {}, o, b)
  BY <1>1, <1>2, <1>4 DEF Pushed
<1>7. Linked(k)
  BY <1>3, <1>6, ListsPush DEF Linked
<1>8. Space(k.obj, k.free, k.subs["var"], C)
  <2>1. DOMAIN k.obj = DOMAIN g.obj /\ \A x \in DOMAIN g.obj : SameExtent(k.obj[x], g.obj[x])
    BY <1>2 DEF SameExtent, Marker
  <2>2. Space(k.obj, g.free, g.subs["var"], C)
    BY <2>1, SpaceSame DEF Mem
  <2>3. QED
    BY <1>2, <2>2 DEF Others
<1>9. Mem(k, C)
  BY <1>2, <1>7, <1>8 DEF Mem, Others
<1>10. Alike(g.obj, k.obj, {o})
  BY <1>2 DEF Alike
<1>11. QED
  BY <1>2, <1>9, <1>10 DEF k

\* Only the bits about the neighbour change.
LEMMA MarkPrevMem ==
  ASSUME NEW g, NEW C, Mem(g, C), NEW o \in DOMAIN g.obj, NEW free \in BOOLEAN
  PROVE  LET k == MarkPrev(g, o, free) IN
           /\ Mem(k, C) /\ Others(k, g) /\ k.dv = g.dv /\ k.dvsize = g.dvsize
           /\ DOMAIN k.obj = DOMAIN g.obj
           /\ \A x \in DOMAIN g.obj : Same(k.obj[x], g.obj[x])
           /\ Alike(g.obj, k.obj, {})
<1> DEFINE f == g.obj
           F == [f EXCEPT ![o].prevfree = free]
           k == MarkPrev(g, o, free)
<1>1. g \in Memory /\ f \in HeadMaps /\ f \in [DOMAIN f -> Heads] /\ DOMAIN f \subseteq Nat
  BY MemoryFields, HeadMapFacts DEF Mem
<1>2. F \in [DOMAIN f -> Heads] /\ \A x \in DOMAIN f : Same(F[x], f[x])
  <2>1. f[o] \in Heads
    BY <1>1
  <2>2. [f[o] EXCEPT !.prevfree = free] \in Heads /\ Same([f[o] EXCEPT !.prevfree = free], f[o])
    BY <2>1 DEF Heads, Same
  <2>3. F = [f EXCEPT ![o] = [f[o] EXCEPT !.prevfree = free]]
    BY <1>1
  <2>4. \A x \in DOMAIN f : Same(f[x], f[x])
    BY DEF Same
  <2>5. QED
    BY <1>1, <2>2, <2>3, <2>4
<1>3. F \in HeadMaps /\ DOMAIN F = DOMAIN f
  BY <1>1, <1>2, IsHeadMap
<1>4. k = g \/ k = [g EXCEPT !.obj = F]
  BY DEF MarkPrev
<1> HIDE DEF F, k, f
<1>5. /\ k \in Memory /\ Others(k, g) /\ k.dv = g.dv /\ k.dvsize = g.dvsize /\ k.bucket = g.bucket
      /\ (k.obj = f \/ k.obj = F)
  <2>1. CASE k = g
    BY <1>1, <2>1 DEF Others, f
  <2>2. CASE k = [g EXCEPT !.obj = F]
    BY <1>1, <1>3, <2>2 DEF Others, Memory
  <2>3. QED
    BY <1>4, <2>1, <2>2
<1>6. DOMAIN k.obj = DOMAIN f /\ \A x \in DOMAIN f : Same(k.obj[x], f[x])
  BY <1>2, <1>3, <1>5 DEF Same
<1>7. Linked(k)
  <2>1. PICK L : Lists(f, g.bucket, L, {})
    BY DEF Mem, Linked, f
  <2>2. Lists(k.obj, g.bucket, L, {})
    <3>1. Kept(f, k.obj, {}, {})
      BY <1>6 DEF Kept
    <3>2. QED
      BY <2>1, <3>1, ListsSame
  <2>3. QED
    BY <1>5, <2>2 DEF Linked
<1>8. Space(k.obj, k.free, k.subs["var"], C)
  <2>1. \A x \in DOMAIN f : SameExtent(k.obj[x], f[x])
    BY <1>6 DEF SameExtent, Same
  <2>2. Space(k.obj, g.free, g.subs["var"], C)
    BY <1>6, <2>1, SpaceSame DEF Mem, f
  <2>3. QED
    BY <1>5, <2>2 DEF Others
<1>9. Mem(k, C)
  BY <1>5, <1>7, <1>8 DEF Mem, Others
<1>10. Alike(f, k.obj, {})
  BY <1>6 DEF Alike, Same
<1>11. QED
  BY <1>5, <1>6, <1>9, <1>10 DEF k, f

\* The first object of a list that is not empty.
LEMMA FirstOf ==
  ASSUME NEW g, NEW C, Mem(g, C), NEW b \in Buckets, g.bucket[b] # 0
  PROVE  LET o == g.bucket[b] IN
           /\ o \in DOMAIN g.obj /\ g.obj[o].mark = "free" /\ Index(g.obj[o].size) = b
           /\ \E L : /\ Lists(g.obj, g.bucket, L, {})
                     /\ 1 \in 1..Len(L[b]) /\ L[b][1] = o
<1>1. PICK L : Lists(g.obj, g.bucket, L, {})
  BY DEF Mem, Linked
<1>2. L[b] \in Seq(Nat) /\ Chain(g.obj, L[b], b, {}) /\ L[b] # <<>> /\ g.bucket[b] = L[b][1]
  BY <1>1 DEF Lists
<1>3. Len(L[b]) \in Nat \ {0} /\ DOMAIN L[b] = 1..Len(L[b])
  BY <1>2, EmptySeq
<1>4. 1 \in DOMAIN L[b]
  BY <1>3
<1>5. /\ L[b][1] \in DOMAIN g.obj /\ g.obj[L[b][1]].mark = "free"
      /\ Index(g.obj[L[b][1]].size) = b
  BY <1>2, <1>4 DEF Chain
<1>6. QED
  BY <1>1, <1>2, <1>3, <1>4, <1>5

\* A list without its first object, which is not free any more.
LEMMA FirstLeaves ==
  ASSUME NEW g, NEW C, Mem(g, C), NEW b \in Buckets, g.bucket[b] # 0,
         NEW f, DOMAIN f = DOMAIN g.obj, f[g.bucket[b]].mark # "free",
         \A x \in DOMAIN g.obj : x # g.bucket[b] =>
            /\ f[x].mark = g.obj[x].mark /\ f[x].size = g.obj[x].size
            /\ f[x].next = g.obj[x].next
            /\ x # g.obj[g.bucket[b]].next => f[x].prev = g.obj[x].prev
  PROVE  \E L : Lists(f, [g.bucket EXCEPT ![b] = g.obj[g.bucket[b]].next], L, {})
<1> DEFINE o == g.bucket[b]
           bk2 == [g.bucket EXCEPT ![b] = g.obj[o].next]
<1>1. PICK L : /\ Lists(g.obj, g.bucket, L, {}) /\ 1 \in 1..Len(L[b]) /\ o = L[b][1]
  BY FirstOf
<1>2. 0 \notin DOMAIN g.obj /\ g.bucket \in [Buckets -> Nat]
  BY MemFacts, MemoryFields DEF Mem
<1>3. Removed(g.obj, f, g.bucket, bk2, {}, {}, o, b, L[b], 1)
  BY <1>1, <1>2 DEF Removed
<1> HIDE DEF bk2, o
<1>4. \E M : Lists(f, bk2, M, {})
  BY <1>1, <1>3, ListsRemove
<1>5. QED
  BY <1>4 DEF bk2, o

\* Two neighbours, in no list, become one object with head e.
Joinable(f, a, c, e, limbo) ==
  /\ a \in DOMAIN f /\ c \in DOMAIN f /\ a + f[a].size = c
  /\ ~ Marker(f[a]) /\ ~ Marker(f[c]) /\ ~ Marker(e) /\ e.mark # "free"
  /\ e \in Heads /\ e.size = f[a].size + f[c].size
  /\ limbo \subseteq {a, c}
  /\ f[a].mark = "free" => a \in limbo
  /\ f[c].mark = "free" => c \in limbo

Joined(k, g, C, a, c, e) ==
  /\ Mem(k, C) /\ Others(k, g) /\ k.dv = g.dv /\ k.dvsize = g.dvsize
  /\ Alike(g.obj, k.obj, {a, c})
  /\ a \in DOMAIN k.obj /\ c \notin DOMAIN k.obj /\ k.obj[a] = e /\ a # c

LEMMA JoinMem ==
  ASSUME NEW g, NEW C \in SUBSET Nat, NEW a, NEW c, NEW e, NEW limbo,
         Loose(g, C, limbo), Joinable(g.obj, a, c, e, limbo)
  PROVE  Joined(Merge(g, {c}, a, e), g, C, a, c, e)
<1> DEFINE f == g.obj
           F == [x \in (DOMAIN f \ {c}) \cup {a} |-> IF x = a THEN e ELSE f[x]]
           k == Merge(g, {c}, a, e)
<1>1. /\ g \in Memory /\ f \in HeadMaps /\ f \in [DOMAIN f -> Heads] /\ DOMAIN f \subseteq Nat
      /\ g.free \in Nat /\ g.subs["var"] \in Seq(Subareas)
  BY MemoryFields, HeadMapFacts DEF Loose
<1>2. /\ a \in DOMAIN f /\ c \in DOMAIN f /\ a + f[a].size = c
      /\ ~ Marker(f[a]) /\ ~ Marker(f[c]) /\ ~ Marker(e) /\ e.mark # "free"
      /\ e \in Heads /\ e.size = f[a].size + f[c].size
      /\ limbo \subseteq {a, c}
      /\ f[a].mark = "free" => a \in limbo
      /\ f[c].mark = "free" => c \in limbo
  BY DEF Joinable
<1>3. a # c
  <2>1. a \in Nat /\ f[a].size \in Nat /\ f[a].size >= Min /\ Min \in Nat \ {0}
    BY <1>1, <1>2, HeadMapFacts, ConstantsNat DEF Loose, Space
  <2>2. QED
    BY <1>2, <2>1
<1>4. /\ F \in [DOMAIN f \ {c} -> Heads] /\ DOMAIN f \ {c} \subseteq Nat
      /\ F[a] = e /\ \A x \in DOMAIN f : x # a /\ x # c => F[x] = f[x]
  BY <1>1, <1>2, <1>3
<1>5. F \in HeadMaps /\ DOMAIN F = DOMAIN f \ {c}
  BY <1>4, IsHeadMap
<1>6. k = [g EXCEPT !.obj = F]
  BY DEF Merge
<1> HIDE DEF F, k
<1>7. /\ k \in Memory /\ Others(k, g) /\ k.dv = g.dv /\ k.dvsize = g.dvsize /\ k.bucket = g.bucket
      /\ k.obj = F
  BY <1>1, <1>5, <1>6 DEF Others, Memory
<1> HIDE DEF f
<1>8. Linked(k)
  <2>1. PICK L : Lists(f, g.bucket, L, limbo)
    BY DEF Loose, f
  <2>2. Kept(f, F, limbo, {})
    <3>1. \A x \in DOMAIN f : f[x].mark = "free" /\ x \notin limbo =>
            x \in DOMAIN F /\ x \notin {} /\ Same(F[x], f[x])
      BY <1>2, <1>4, <1>5 DEF Same
    <3>2. \A x \in DOMAIN F : F[x].mark = "free" /\ x \notin {} =>
            x \in DOMAIN f /\ x \notin limbo /\ Same(F[x], f[x])
      BY <1>2, <1>4, <1>5 DEF Same
    <3>3. QED
      BY <3>1, <3>2 DEF Kept
  <2>3. Lists(F, g.bucket, L, {})
    BY <2>1, <2>2, ListsSame
  <2>4. QED
    BY <1>7, <2>3 DEF Linked
<1>9. Space(F, g.free, g.subs["var"], C)
  <2>1. Space(f, g.free, g.subs["var"], C)
    BY DEF Loose, f
  <2>2. \A x \in DOMAIN f : x # a /\ x # c => SameExtent(F[x], f[x])
    BY <1>4 DEF SameExtent
  <2>3. QED
    BY <1>1, <1>2, <1>4, <1>5, <2>1, <2>2, SpaceJoin DEF f
<1>10. Mem(k, C)
  BY <1>7, <1>8, <1>9 DEF Mem, Others, Loose
<1>11. Alike(f, F, {a, c})
  BY <1>4, <1>5 DEF Alike
<1>12. QED
  BY <1>2, <1>3, <1>4, <1>5, <1>7, <1>10, <1>11 DEF k, f, Joined

\* A free object is in the list of its size, between the two it points to.
LEMMA InList ==
  ASSUME NEW g, NEW C, Mem(g, C), NEW o \in DOMAIN g.obj, g.obj[o].mark = "free"
  PROVE  LET b == Index(g.obj[o].size) IN
           \E L : /\ Lists(g.obj, g.bucket, L, {}) /\ b \in Buckets
                  /\ \E j \in 1..Len(L[b]) :
                       /\ L[b][j] = o
                       /\ g.bucket[b] = o <=> j = 1
                       /\ j > 1 => g.obj[o].prev = L[b][j - 1] /\ L[b][j - 1] # g.obj[o].next
<1> DEFINE f == g.obj
           b == Index(g.obj[o].size)
<1>1. PICK L : Lists(f, g.bucket, L, {})
  BY DEF Mem, Linked
<1>2. b \in Buckets /\ \E i \in DOMAIN L[b] : L[b][i] = o
  <2>1. o \notin {}
    OBVIOUS
  <2>2. QED
    BY <1>1, <2>1 DEF Lists
<1>3. PICK j \in DOMAIN L[b] : L[b][j] = o
  BY <1>2
<1> HIDE DEF b
<1>4. L[b] \in Seq(Nat) /\ Chain(f, L[b], b, {}) /\ g.bucket[b] = IF L[b] = <<>> THEN 0 ELSE L[b][1]
  BY <1>1, <1>2 DEF Lists
<1> HIDE DEF f
<1> DEFINE s == L[b]
           n == Len(s)
<1>5. n \in Nat /\ DOMAIN s = 1..n /\ j \in 1..n /\ s # <<>> /\ 1 \in 1..n /\ g.bucket[b] = s[1]
  <2>1. n \in Nat /\ DOMAIN s = 1..n /\ j \in 1..n
    BY <1>3, <1>4
  <2>2. s # <<>> /\ 1 \in 1..n
    BY <2>1, <1>4, EmptySeq
  <2>3. QED
    BY <1>4, <2>1, <2>2
<1>6. \A i \in DOMAIN s :
        /\ f[s[i]].next = IF i = n THEN 0 ELSE s[i + 1]
        /\ i > 1 => f[s[i]].prev = s[i - 1]
        /\ \A q \in DOMAIN s : s[i] = s[q] => i = q
        /\ s[i] \in DOMAIN f
  BY <1>4 DEF Chain
<1> HIDE DEF s, n
<1>7. s[j] = o
  BY <1>3 DEF s
<1>8. g.bucket[b] = o <=> j = 1
  BY <1>5, <1>6, <1>7
<1>9. j > 1 => f[o].prev = s[j - 1] /\ s[j - 1] # f[o].next
  <2> SUFFICES ASSUME j > 1 PROVE f[o].prev = s[j - 1] /\ s[j - 1] # f[o].next
    OBVIOUS
  <2>1. f[o].prev = s[j - 1] /\ f[o].next = IF j = n THEN 0 ELSE s[j + 1]
    BY <1>5, <1>6, <1>7
  <2>2. j - 1 \in DOMAIN s /\ (j # n => j + 1 \in DOMAIN s) /\ j - 1 # j + 1
    BY <1>5
  <2>3. s[j - 1] \in DOMAIN f /\ (j # n => s[j - 1] # s[j + 1])
    BY <1>6, <2>2
  <2>4. 0 \notin DOMAIN f
    BY MemFacts DEF f
  <2>5. QED
    BY <2>1, <2>3, <2>4
<1>10. QED
  BY <1>1, <1>2, <1>5, <1>7, <1>8, <1>9 DEF f, b, s, n

\* Unlink takes one object out of its list.
LEMMA UnlinkLoose ==
  ASSUME NEW g, NEW C, Mem(g, C), NEW o \in DOMAIN g.obj, g.obj[o].mark = "free"
  PROVE  LET k == Unlink(g, o) IN
           /\ Loose(k, C, {o}) /\ Others(k, g) /\ k.dv = g.dv /\ k.dvsize = g.dvsize
           /\ DOMAIN k.obj = DOMAIN g.obj
           /\ \A x \in DOMAIN g.obj : k.obj[x].mark = g.obj[x].mark /\ k.obj[x].size = g.obj[x].size
<1> DEFINE f == g.obj
           b == Index(f[o].size)
           next == f[o].next
           prev == f[o].prev
           first == g.bucket[b] = o
           B == [g.bucket EXCEPT ![b] = IF first THEN next ELSE @]
           F == [x \in DOMAIN f |->
                   IF x = next THEN [f[x] EXCEPT !.prev = prev]
                   ELSE IF ~first /\ x = prev THEN [f[x] EXCEPT !.next = next] ELSE f[x]]
           k == Unlink(g, o)
<1>1. /\ g \in Memory /\ f \in HeadMaps /\ f \in [DOMAIN f -> Heads] /\ DOMAIN f \subseteq Nat
      /\ g.bucket \in [Buckets -> Nat] /\ 0 \notin DOMAIN f
      /\ next \in Nat /\ prev \in Int
  BY MemoryFields, HeadMapFacts, MemFacts DEF Mem
<1>2. PICK L : /\ Lists(f, g.bucket, L, {}) /\ b \in Buckets
               /\ \E j \in 1..Len(L[b]) :
                       /\ L[b][j] = o
                       /\ first <=> j = 1
                       /\ j > 1 => prev = L[b][j - 1] /\ L[b][j - 1] # next
  BY InList
<1>3. PICK j \in 1..Len(L[b]) : /\ L[b][j] = o /\ (first <=> j = 1)
                                /\ j > 1 => prev = L[b][j - 1] /\ L[b][j - 1] # next
  BY <1>2
<1>4. k = [g EXCEPT !.bucket = B, !.obj = F]
  BY <1>1 DEF Unlink, Memory
<1>5. B \in [Buckets -> Nat] /\ B = IF first THEN [g.bucket EXCEPT ![b] = next] ELSE g.bucket
  BY <1>1, <1>2
<1>6. \A x \in DOMAIN f :
        /\ [f[x] EXCEPT !.prev = prev] \in Heads /\ [f[x] EXCEPT !.next = next] \in Heads /\ f[x] \in Heads
  BY <1>1 DEF Heads
<1>7. \A x \in DOMAIN f :
        /\ LET e == [f[x] EXCEPT !.prev = prev] IN
             e.mark = f[x].mark /\ e.size = f[x].size /\ e.next = f[x].next /\ e.prev = prev
        /\ LET e == [f[x] EXCEPT !.next = next] IN
             e.mark = f[x].mark /\ e.size = f[x].size /\ e.next = next /\ e.prev = f[x].prev
  BY <1>6 DEF Heads
<1>8. F \in [DOMAIN f -> Heads]
  BY <1>6
<1>9. F \in HeadMaps /\ DOMAIN F = DOMAIN f
  BY <1>1, <1>8, IsHeadMap
<1>10. \A x \in DOMAIN f :
         F[x] = IF x = next THEN [f[x] EXCEPT !.prev = prev]
                ELSE IF ~first /\ x = prev THEN [f[x] EXCEPT !.next = next] ELSE f[x]
  OBVIOUS
<1> HIDE DEF F, B, k
<1>11. /\ k \in Memory /\ Others(k, g) /\ k.dv = g.dv /\ k.dvsize = g.dvsize
       /\ k.obj = F /\ k.bucket = B
  BY <1>1, <1>4, <1>5, <1>9 DEF Others, Memory
<1> HIDE DEF first, next, prev, b
<1>12. \A x \in DOMAIN f :
         /\ F[x].mark = f[x].mark /\ F[x].size = f[x].size
         /\ F[x].next = IF ~first /\ x = prev /\ x # next THEN next ELSE f[x].next
         /\ F[x].prev = IF x = next THEN prev ELSE f[x].prev
  BY <1>7, <1>10
<1>13. j \in Int /\ (j = 1 \/ j > 1)
  OBVIOUS
<1>14. Removed(f, F, g.bucket, B, {}, {o}, o, b, L[b], j)
  <2>1. \A x \in DOMAIN f : x # o =>
          /\ F[x].mark = f[x].mark /\ F[x].size = f[x].size
          /\ F[x].next = IF j > 1 /\ x = L[b][j - 1] THEN next ELSE f[x].next
          /\ x # next => F[x].prev = f[x].prev
          /\ j > 1 /\ x = next => F[x].prev = prev
    BY <1>3, <1>12, <1>13
  <2>2. B = IF j = 1 THEN [g.bucket EXCEPT ![b] = next] ELSE g.bucket
    BY <1>3, <1>5
  <2>3. QED
    BY <1>1, <1>2, <1>3, <1>9, <2>1, <2>2 DEF Removed, next, prev
<1>15. \E M : Lists(F, B, M, {o})
  BY <1>2, <1>14, ListsRemove
<1>16. Space(F, g.free, g.subs["var"], C)
  <2>1. \A x \in DOMAIN f : SameExtent(F[x], f[x])
    BY <1>12 DEF SameExtent
  <2>2. QED
    BY <1>9, <2>1, SpaceSame DEF Mem
<1>17. Loose(k, C, {o})
  BY <1>11, <1>15, <1>16 DEF Loose, Others, Mem
<1>18. QED
  BY <1>9, <1>11, <1>12, <1>17 DEF k

\* The victim does not matter for the pieces and the lists.
SetVictim(g, v, n) == [g EXCEPT !.dv = v, !.dvsize = n]

VictimSet(k, g, C, limbo, v, n) ==
  /\ Loose(k, C, limbo) /\ Others(k, g) /\ k.obj = g.obj /\ k.bucket = g.bucket
  /\ k.dv = v /\ k.dvsize = n

LEMMA VictimLoose ==
  ASSUME NEW g, NEW C, NEW limbo, Loose(g, C, limbo), NEW v \in Nat, NEW n \in Nat
  PROVE  VictimSet(SetVictim(g, v, n), g, C, limbo, v, n)
<1> DEFINE k == SetVictim(g, v, n)
<1>1. g \in Memory
  BY DEF Loose
<1>2. /\ k \in Memory /\ Others(k, g) /\ k.obj = g.obj /\ k.bucket = g.bucket
      /\ k.dv = v /\ k.dvsize = n
  BY <1>1 DEF Memory, Others, SetVictim
<1> HIDE DEF k
<1>3. Loose(k, C, limbo)
  <2>1. PICK L : Lists(g.obj, g.bucket, L, limbo)
    BY DEF Loose
  <2>2. Lists(k.obj, k.bucket, L, limbo)
    BY <1>2, <2>1
  <2>3. k.free = g.free /\ k.subs = g.subs
    BY <1>2 DEF Others
  <2>4. Space(k.obj, k.free, k.subs["var"], C) /\ k.free <= SegSize
    BY <1>2, <2>3 DEF Loose
  <2>5. QED
    BY <1>2, <2>2, <2>4 DEF Loose
<1>4. QED
  BY <1>2, <1>3 DEF k, VictimSet

LEMMA MemLoose ==
  ASSUME NEW g, NEW C
  PROVE  Mem(g, C) <=> Loose(g, C, {})
  BY DEF Mem, Loose, Linked

\* The heads that are written.
LEMMA NewHeads ==
  ASSUME NEW n \in Nat
  PROVE  /\ Used(n) \in Heads /\ Used(n).mark = "used" /\ Used(n).size = n /\ ~ Marker(Used(n))
         /\ Special(n) \in Heads /\ Special(n).mark = "special" /\ Special(n).size = n
         /\ ~ Marker(Special(n))
<1> DEFINE e == [mark |-> "used", prevfree |-> FALSE, size |-> n, next |-> 0, prev |-> 0]
<1>1. Used(n) = e
  BY DEF Used
<1>2. e \in Heads /\ e.mark = "used" /\ e.size = n
  BY DEF Heads
<1>3. Special(n) = [e EXCEPT !.mark = "special"]
  BY <1>1 DEF Special
<1> HIDE DEF e
<1>4. Special(n) \in Heads /\ Special(n).mark = "special" /\ Special(n).size = n
  BY <1>2, <1>3 DEF Heads
<1>5. QED
  BY <1>1, <1>2, <1>4 DEF Marker

\* An object in no list gets another head, of the same size.
SetHead(g, o, e, v, n) == [g EXCEPT !.dv = v, !.dvsize = n, !.obj[o] = e]

LEMMA SetMem ==
  ASSUME NEW g, NEW C, Mem(g, C), NEW o \in DOMAIN g.obj,
         g.obj[o].mark # "free", ~ Marker(g.obj[o]),
         NEW e \in Heads, e.mark # "free", ~ Marker(e), e.size = g.obj[o].size,
         NEW v \in Nat, NEW n \in Nat
  PROVE  LET k == SetHead(g, o, e, v, n) IN
           /\ Mem(k, C) /\ Others(k, g) /\ k.dv = v /\ k.dvsize = n
           /\ DOMAIN k.obj = DOMAIN g.obj /\ k.obj[o] = e /\ Alike(g.obj, k.obj, {o})
<1> DEFINE f == g.obj
           F == [f EXCEPT ![o] = e]
           k == SetHead(g, o, e, v, n)
<1>1. g \in Memory /\ f \in HeadMaps /\ f \in [DOMAIN f -> Heads] /\ DOMAIN f \subseteq Nat
  BY MemoryFields, HeadMapFacts DEF Mem
<1>2. F \in [DOMAIN f -> Heads] /\ F[o] = e /\ \A x \in DOMAIN f : x # o => F[x] = f[x]
  BY <1>1
<1>3. F \in HeadMaps /\ DOMAIN F = DOMAIN f
  BY <1>1, <1>2, IsHeadMap
<1>4. k = [g EXCEPT !.dv = v, !.dvsize = n, !.obj = F]
  BY <1>1 DEF Memory, SetHead
<1> HIDE DEF F, k
<1>5. /\ k \in Memory /\ Others(k, g) /\ k.dv = v /\ k.dvsize = n /\ k.bucket = g.bucket
      /\ k.obj = F
  BY <1>1, <1>3, <1>4 DEF Memory, Others
<1>6. Linked(k)
  <2>1. PICK L : Lists(f, g.bucket, L, {})
    BY DEF Mem, Linked
  <2>2. Kept(f, F, {}, {})
    BY <1>2, <1>3 DEF Kept, Same
  <2>3. Lists(F, g.bucket, L, {})
    BY <2>1, <2>2, ListsSame
  <2>4. QED
    BY <1>5, <2>3 DEF Linked
<1>7. Space(F, g.free, g.subs["var"], C)
  <2>1. \A x \in DOMAIN f : SameExtent(F[x], f[x])
    BY <1>2 DEF SameExtent
  <2>2. QED
    BY <1>3, <2>1, SpaceSame DEF Mem
<1>8. Mem(k, C)
  BY <1>5, <1>6, <1>7 DEF Mem, Others
<1>9. Alike(f, F, {o})
  BY <1>2, <1>3 DEF Alike
<1>10. QED
  BY <1>2, <1>3, <1>5, <1>8, <1>9 DEF k

\* The first object of a list is taken.
LEMMA PopMem ==
  ASSUME NEW g, NEW C, Mem(g, C), NEW b \in Buckets, g.bucket[b] # 0
  PROVE  LET k == Pop(g, b)
             o == g.bucket[b]
         IN /\ Mem(k, C) /\ Others(k, g) /\ k.dv = g.dv /\ k.dvsize = g.dvsize
            /\ DOMAIN k.obj = DOMAIN g.obj /\ Alike(g.obj, k.obj, {o})
            /\ o \in DOMAIN g.obj /\ k.obj[o].mark = "used" /\ k.obj[o].size = g.obj[o].size
<1> DEFINE f == g.obj
           o == g.bucket[b]
           next == f[o].next
           F == [x \in DOMAIN f |->
                   IF x = o THEN Used(f[x].size)
                   ELSE IF x = next THEN [f[x] EXCEPT !.prev = AddressOf(b)] ELSE f[x]]
           B == [g.bucket EXCEPT ![b] = next]
           k == Pop(g, b)
<1>1. /\ g \in Memory /\ f \in HeadMaps /\ f \in [DOMAIN f -> Heads] /\ DOMAIN f \subseteq Nat
      /\ g.bucket \in [Buckets -> Nat]
  BY MemoryFields, HeadMapFacts DEF Mem
<1>2. o \in DOMAIN f /\ f[o].mark = "free" /\ o # 0
  BY FirstOf
<1>3. next \in Nat /\ f[o].size \in Nat
  BY <1>1, <1>2, HeadMapFacts
<1>4. k = [g EXCEPT !.bucket = B, !.obj = F]
  BY <1>1 DEF Pop, Memory
<1>5. B \in [Buckets -> Nat]
  BY <1>1, <1>3
<1>6. AddressOf(b) \in Int
  BY ConstantsNat DEF AddressOf, Buckets
<1>7. \A x \in DOMAIN f :
        LET e == [f[x] EXCEPT !.prev = AddressOf(b)] IN
        /\ e \in Heads /\ f[x] \in Heads
        /\ e.mark = f[x].mark /\ e.size = f[x].size /\ e.next = f[x].next
  BY <1>1, <1>6 DEF Heads
<1>8. Used(f[o].size) \in Heads /\ Used(f[o].size).mark = "used" /\ Used(f[o].size).size = f[o].size
  BY <1>3, NewHeads
<1>9. F \in [DOMAIN f -> Heads]
  BY <1>7, <1>8
<1>10. F \in HeadMaps /\ DOMAIN F = DOMAIN f
  BY <1>1, <1>9, IsHeadMap
<1>11. \A x \in DOMAIN f :
         F[x] = IF x = o THEN Used(f[x].size)
                ELSE IF x = next THEN [f[x] EXCEPT !.prev = AddressOf(b)] ELSE f[x]
  OBVIOUS
<1> HIDE DEF F, B, k
<1>12. /\ k \in Memory /\ Others(k, g) /\ k.dv = g.dv /\ k.dvsize = g.dvsize /\ k.bucket = B
       /\ k.obj = F
  BY <1>1, <1>4, <1>5, <1>10 DEF Memory, Others
<1> HIDE DEF next, o
<1>13. /\ F[o].mark = "used" /\ F[o].size = f[o].size
       /\ \A x \in DOMAIN f : x # o =>
            /\ F[x].mark = f[x].mark /\ F[x].size = f[x].size /\ F[x].next = f[x].next
            /\ x # next => F[x].prev = f[x].prev
  BY <1>2, <1>7, <1>8, <1>11
<1>14. \E L : Lists(F, B, L, {})
  BY <1>2, <1>10, <1>13, FirstLeaves DEF B, next, o
<1>15. Space(F, g.free, g.subs["var"], C)
  <2>1. \A x \in DOMAIN f : SameExtent(F[x], f[x])
    BY <1>2, <1>13 DEF SameExtent, Marker
  <2>2. QED
    BY <1>10, <2>1, SpaceSame DEF Mem
<1>16. Mem(k, C)
  BY <1>12, <1>14, <1>15 DEF Mem, Linked, Others
<1>17. Alike(f, F, {o})
  BY <1>10, <1>13 DEF Alike
<1>18. QED
  BY <1>2, <1>10, <1>12, <1>13, <1>16, <1>17 DEF k, o

\* The first object of a list is split: n gints are taken, the rest goes to a list.
LEMMA SplitMem ==
  ASSUME NEW g, NEW C \in SUBSET Nat, Mem(g, C), NEW b \in Buckets, g.bucket[b] # 0,
         NEW n \in Nat, n >= Min, g.obj[g.bucket[b]].size >= n + Min
  PROVE  LET k == Split(g, b, n)
             o == g.bucket[b]
         IN /\ Mem(k, C) /\ Others(k, g) /\ k.dv = g.dv /\ k.dvsize = g.dvsize
            /\ Alike(g.obj, k.obj, {o, o + n})
            /\ o \in DOMAIN g.obj /\ o \in DOMAIN k.obj /\ k.obj[o].mark = "used" /\ k.obj[o].size = n
            /\ o + n \notin DOMAIN g.obj /\ o + n \in DOMAIN k.obj /\ k.obj[o + n].mark = "free"
<1> DEFINE f == g.obj
           o == g.bucket[b]
           next == f[o].next
           rest == f[o].size - n
           F == [f EXCEPT ![o] = Used(n)]
           B == [g.bucket EXCEPT ![b] = next]
           g1 == [g EXCEPT !.bucket[b] = next, !.obj[o] = Used(n)]
           k == Split(g, b, n)
<1>1. /\ g \in Memory /\ f \in HeadMaps /\ f \in [DOMAIN f -> Heads] /\ DOMAIN f \subseteq Nat
      /\ g.bucket \in [Buckets -> Nat] /\ g.free \in Nat /\ g.subs["var"] \in Seq(Subareas)
      /\ 0 \notin DOMAIN f
  BY MemoryFields, HeadMapFacts, MemFacts DEF Mem
<1>2. o \in DOMAIN f /\ f[o].mark = "free" /\ o # 0
  BY FirstOf
<1>3. next \in Nat /\ f[o].size \in 0..SegSize /\ o \in Nat \ {0} /\ rest \in 0..SegSize /\ o + n \in Nat \ {0}
  <2>1. next \in Nat /\ f[o].size \in 0..SegSize /\ o \in Nat /\ f[o].size >= n + Min
    BY <1>1, <1>2, HeadMapFacts, MemFacts
  <2>2. QED
    BY <1>2, <2>1, ConstantsNat
<1>4. Used(n) \in Heads /\ Used(n).mark = "used" /\ Used(n).size = n
  BY NewHeads
<1>5. F \in [DOMAIN f -> Heads] /\ F[o] = Used(n) /\ \A x \in DOMAIN f : x # o => F[x] = f[x]
  BY <1>1, <1>2, <1>4
<1>6. F \in HeadMaps /\ DOMAIN F = DOMAIN f
  BY <1>1, <1>5, IsHeadMap
<1>7. g1 = [g EXCEPT !.bucket = B, !.obj = F]
  BY <1>1 DEF Memory
<1>8. B \in [Buckets -> Nat]
  BY <1>1, <1>3
<1>9. k = Push(g1, o + n, rest)
  BY DEF Split
<1> HIDE DEF F, g1, k
<1>10. /\ g1 \in Memory /\ Others(g1, g) /\ g1.dv = g.dv /\ g1.dvsize = g.dvsize
       /\ g1.obj = F /\ g1.bucket = B
  BY <1>1, <1>6, <1>7, <1>8 DEF Memory, Others
<1>11. PICK L : Lists(F, B, L, {})
  <2>1. F[o].mark # "free" /\ \A x \in DOMAIN f : x # o =>
            /\ F[x].mark = f[x].mark /\ F[x].size = f[x].size
            /\ F[x].next = f[x].next /\ F[x].prev = f[x].prev
    BY <1>4, <1>5
  <2>2. \E L : Lists(F, B, L, {})
    BY <1>2, <1>6, <2>1, FirstLeaves
  <2>3. QED
    BY <2>2
<1> HIDE DEF B
<1> DEFINE c == Index(rest)
<1>12. /\ k \in Memory /\ Others(k, g1) /\ k.dv = g1.dv /\ k.dvsize = g1.dvsize
       /\ DOMAIN k.obj = DOMAIN F \cup {o + n}
       /\ k.obj[o + n].mark = "free" /\ k.obj[o + n].size = rest /\ k.obj[o + n].next = B[c]
       /\ \A x \in DOMAIN F : x # o + n =>
            /\ k.obj[x].mark = F[x].mark /\ k.obj[x].size = F[x].size
            /\ k.obj[x].next = F[x].next
            /\ k.obj[x].prev = IF x = B[c] THEN o + n ELSE F[x].prev
       /\ k.bucket = [B EXCEPT ![c] = o + n]
  <2> DEFINE p == o + n
  <2>1. p \in Nat /\ rest \in 0..SegSize
    BY <1>3
  <2> HIDE DEF p, rest
  <2>2. k = Push(g1, p, rest)
    BY <1>9 DEF p
  <2> HIDE DEF c
  <2>3. /\ k \in Memory /\ Others(k, g1) /\ k.dv = g1.dv /\ k.dvsize = g1.dvsize
        /\ DOMAIN k.obj = DOMAIN g1.obj \cup {p}
        /\ k.obj[p].mark = "free" /\ k.obj[p].size = rest /\ k.obj[p].next = g1.bucket[c]
        /\ \A x \in DOMAIN g1.obj : x # p =>
             /\ k.obj[x].mark = g1.obj[x].mark /\ k.obj[x].size = g1.obj[x].size
             /\ k.obj[x].next = g1.obj[x].next
             /\ k.obj[x].prev = IF x = g1.bucket[c] THEN p ELSE g1.obj[x].prev
        /\ k.bucket = [g1.bucket EXCEPT ![c] = p]
    BY <1>10, <2>1, <2>2, PushFields DEF c
  <2>4. QED
    BY <1>10, <2>3 DEF p
<1>13. c \in Buckets
  BY <1>3, IndexFacts
<1>14. Index(k.obj[o + n].size) = c
  BY <1>12
<1> HIDE DEF c, rest, next
<1>15. o + n \notin DOMAIN f
  <2>1. o < o + n /\ o + n < o + f[o].size
    BY <1>3, ConstantsNat
  <2>2. Space(f, g.free, g.subs["var"], C)
    BY DEF Mem
  <2>3. QED
    BY <1>1, <1>2, <2>1, <2>2, SpaceApart
<1>16. Pushed(F, k.obj, B, k.bucket, {}, {}, o + n, c)
  <2> HIDE DEF o
  <2>1. o + n \in Nat \ {0} /\ o + n \notin DOMAIN F /\ 0 \notin DOMAIN F
    BY <1>1, <1>3, <1>6, <1>15
  <2> DEFINE p == o + n
  <2> HIDE DEF p
  <2>2. /\ p \in Nat \ {0} /\ p \notin DOMAIN F /\ 0 \notin DOMAIN F
        /\ DOMAIN k.obj = DOMAIN F \cup {p}
        /\ k.obj[p].mark = "free" /\ Index(k.obj[p].size) = c /\ k.obj[p].next = B[c]
        /\ \A x \in DOMAIN F : x # p =>
             /\ k.obj[x].mark = F[x].mark /\ k.obj[x].size = F[x].size
             /\ k.obj[x].next = F[x].next
             /\ k.obj[x].prev = IF x = B[c] THEN p ELSE F[x].prev
        /\ k.bucket = [B EXCEPT ![c] = p]
    BY <1>12, <1>14, <2>1 DEF p
  <2>3. Pushed(F, k.obj, B, k.bucket, {}, {}, p, c)
    BY <1>8, <1>13, <2>2 DEF Pushed
  <2>4. QED
    BY <2>3 DEF p
<1>17. Linked(k)
  BY <1>11, <1>16, ListsPush DEF Linked
<1>18. /\ DOMAIN k.obj = DOMAIN f \cup {o + n} /\ o + n \notin DOMAIN f
       /\ k.obj[o].mark = "used" /\ k.obj[o].size = n
       /\ k.obj[o + n].mark = "free" /\ k.obj[o + n].size = f[o].size - n
       /\ \A x \in DOMAIN f : x # o => k.obj[x].mark = f[x].mark /\ k.obj[x].size = f[x].size
  <2>1. k.obj[o + n].size = f[o].size - n
    BY <1>12 DEF rest
  <2>2. \A x \in DOMAIN f : x # o + n
    BY <1>15
  <2>3. QED
    BY <1>2, <1>4, <1>5, <1>6, <1>12, <1>15, <2>1, <2>2
<1> HIDE DEF o
<1>19. Space(k.obj, g.free, g.subs["var"], C)
  <2>1. ~ Marker(f[o]) /\ ~ Marker(k.obj[o]) /\ ~ Marker(k.obj[o + n])
    BY <1>2, <1>18 DEF Marker
  <2>2. \A x \in DOMAIN f : x # o => SameExtent(k.obj[x], f[x])
    BY <1>18 DEF SameExtent
  <2>3. k.obj \in HeadMaps /\ Space(f, g.free, g.subs["var"], C) /\ f[o].size >= n + Min
    BY <1>12, MemoryFields DEF Mem, o
  <2>4. QED
    BY <1>1, <1>2, <1>18, <2>1, <2>2, <2>3, SpaceSplit
<1>20. Others(k, g)
  BY <1>10, <1>12 DEF Others
<1>21. Mem(k, C)
  BY <1>12, <1>17, <1>19, <1>20 DEF Mem, Others
<1>22. Alike(f, k.obj, {o, o + n})
  BY <1>18 DEF Alike
<1>23. QED
  BY <1>2, <1>10, <1>12, <1>18, <1>20, <1>21, <1>22 DEF k, o

\* An object is cut off the beginning of the victim.
LEMMA CutMem ==
  ASSUME NEW g, NEW C \in SUBSET Nat, Mem(g, C),
         g.dv \in DOMAIN g.obj, g.obj[g.dv].mark = "special", g.obj[g.dv].size = g.dvsize,
         NEW n \in Nat, n >= Min, n + Min <= g.dvsize
  PROVE  LET k == Cut(g, n)
             o == g.dv
         IN /\ Mem(k, C) /\ Others(k, g) /\ k.dv = o + n /\ k.dvsize = g.dvsize - n
            /\ Alike(g.obj, k.obj, {o, o + n})
            /\ o \in DOMAIN k.obj /\ k.obj[o].mark = "used" /\ k.obj[o].size = n
            /\ o + n \notin DOMAIN g.obj /\ o + n \in DOMAIN k.obj
            /\ k.obj[o + n].mark = "special" /\ k.obj[o + n].size = g.dvsize - n
            /\ o + n # 0
<1> DEFINE f == g.obj
           o == g.dv
           rest == g.dvsize - n
           p == o + n
           F == [x \in DOMAIN f \cup {p} |->
                   IF x = p THEN Special(rest) ELSE IF x = o THEN Used(n) ELSE f[x]]
           k == Cut(g, n)
<1>1. /\ g \in Memory /\ f \in HeadMaps /\ f \in [DOMAIN f -> Heads] /\ DOMAIN f \subseteq Nat
      /\ g.free \in Nat /\ g.subs["var"] \in Seq(Subareas) /\ 0 \notin DOMAIN f
      /\ g.dv \in Nat /\ g.dvsize \in Nat
  BY MemoryFields, HeadMapFacts, MemFacts DEF Mem
<1>2. o \in Nat \ {0} /\ p \in Nat \ {0} /\ rest \in Nat /\ o # p
  BY <1>1, ConstantsNat
<1>3. /\ Used(n) \in Heads /\ Used(n).mark = "used" /\ Used(n).size = n
      /\ Special(rest) \in Heads /\ Special(rest).mark = "special" /\ Special(rest).size = rest
  BY <1>2, NewHeads
<1>4. F \in [DOMAIN f \cup {p} -> Heads] /\ DOMAIN f \cup {p} \subseteq Nat
  BY <1>1, <1>2, <1>3
<1>5. F \in HeadMaps /\ DOMAIN F = DOMAIN f \cup {p}
  BY <1>4, IsHeadMap
<1>6. /\ F[p] = Special(rest) /\ F[o] = Used(n)
      /\ \A x \in DOMAIN f : x # o /\ x # p => F[x] = f[x]
  BY <1>2
<1>7. k = [g EXCEPT !.dv = p, !.dvsize = rest, !.obj = F]
  <2> DEFINE g1 == [g EXCEPT !.dv = @ + n, !.dvsize = @ - n, !.obj[g.dv] = Used(n)]
  <2>1. k = Merge(g1, {}, p, Special(rest))
    BY DEF Cut
  <2>2. g1 = [g EXCEPT !.dv = p, !.dvsize = rest, !.obj = [f EXCEPT ![o] = Used(n)]]
    BY <1>1 DEF Memory
  <2> DEFINE F1 == [f EXCEPT ![o] = Used(n)]
  <2>3. DOMAIN F1 = DOMAIN f /\ F1[o] = Used(n) /\ \A x \in DOMAIN f : x # o => F1[x] = f[x]
    BY <1>1
  <2>4. [x \in (DOMAIN F1 \ {}) \cup {p} |-> IF x = p THEN Special(rest) ELSE F1[x]] = F
    <3> HIDE DEF F1, rest
    <3>1. (DOMAIN F1 \ {}) \cup {p} = DOMAIN f \cup {p}
      BY <2>3
    <3>2. \A x \in DOMAIN f \cup {p} :
            (IF x = p THEN Special(rest) ELSE F1[x])
              = (IF x = p THEN Special(rest) ELSE IF x = o THEN Used(n) ELSE f[x])
      BY <2>3
    <3>3. QED
      BY <3>1, <3>2
  <2> HIDE DEF F, F1, rest, p, k
  <2>5. g1.obj = F1
    BY <1>1, <2>2 DEF Memory, F1
  <2>6. k = [g1 EXCEPT !.obj = [x \in (DOMAIN g1.obj \ {}) \cup {p} |-> IF x = p THEN Special(rest) ELSE g1.obj[x]]]
    BY <2>1 DEF Merge
  <2>7. k = [g1 EXCEPT !.obj = F]
    BY <2>4, <2>5, <2>6
  <2>8. QED
    BY <1>1, <2>2, <2>7 DEF Memory, F1
<1> HIDE DEF F, k
<1>8. /\ k \in Memory /\ Others(k, g) /\ k.dv = p /\ k.dvsize = rest /\ k.bucket = g.bucket
      /\ k.obj = F
  <2> HIDE DEF p, rest
  <2>1. QED
    BY <1>1, <1>2, <1>5, <1>7 DEF Memory, Others
<1>9. p \notin DOMAIN f
  <2>1. o < p /\ p < o + f[o].size
    BY <1>1, ConstantsNat
  <2>2. Space(f, g.free, g.subs["var"], C)
    BY DEF Mem
  <2> HIDE DEF p
  <2>3. QED
    BY <1>1, <2>1, <2>2, SpaceApart
<1>10. Linked(k)
  <2> HIDE DEF p
  <2>1. PICK L : Lists(f, g.bucket, L, {})
    BY DEF Mem, Linked
  <2>2. Kept(f, F, {}, {})
    <3>1. \A x \in DOMAIN f : f[x].mark = "free" => x \in DOMAIN F /\ Same(F[x], f[x])
      BY <1>5, <1>6, <1>9 DEF Same
    <3>2. \A x \in DOMAIN F : F[x].mark = "free" => x \in DOMAIN f /\ Same(F[x], f[x])
      BY <1>3, <1>5, <1>6 DEF Same
    <3>3. QED
      BY <3>1, <3>2 DEF Kept
  <2>3. Lists(F, g.bucket, L, {})
    BY <2>1, <2>2, ListsSame
  <2>4. QED
    BY <1>8, <2>3 DEF Linked
<1>11. Space(F, g.free, g.subs["var"], C)
  <2>1. ~ Marker(f[o]) /\ ~ Marker(F[o]) /\ ~ Marker(F[p])
    BY <1>3, <1>6 DEF Marker
  <2>2. \A x \in DOMAIN f : x # o => SameExtent(F[x], f[x])
    BY <1>6, <1>9 DEF SameExtent
  <2>3. /\ F[o].size = n /\ F[p].size = f[o].size - n /\ f[o].size >= n + Min
        /\ Space(f, g.free, g.subs["var"], C)
    BY <1>1, <1>3, <1>6, ConstantsNat DEF Mem
  <2>4. QED
    BY <1>1, <1>5, <2>1, <2>2, <2>3, SpaceSplit
<1>12. Mem(k, C)
  BY <1>8, <1>10, <1>11 DEF Mem, Others
<1>13. Alike(f, F, {o, p})
  BY <1>5, <1>6 DEF Alike
<1>14. QED
  BY <1>2, <1>3, <1>5, <1>6, <1>8, <1>9, <1>12, <1>13 DEF k

-----------------------------------------------------------------------------
\* What is freed.

UsedAt(f, o) == o \in DOMAIN f /\ f[o].mark = "used"

\* The used objects are the same ones, but for those in O.
UsedAlike(f, k, O) ==
  \A x : x \notin O => /\ UsedAt(f, x) <=> UsedAt(k, x)
                       /\ UsedAt(f, x) => k[x].size = f[x].size

LEMMA AlikeUsed ==
  ASSUME NEW f, NEW k, NEW O, NEW P, Alike(f, k, O),
         \A x \in O \ P : ~ UsedAt(f, x) /\ ~ UsedAt(k, x)
  PROVE  UsedAlike(f, k, P)
  BY DEF Alike, UsedAlike, UsedAt

LEMMA UsedTrans ==
  ASSUME NEW f, NEW k, NEW j, NEW O, NEW P, UsedAlike(f, k, O), UsedAlike(k, j, P)
  PROVE  UsedAlike(f, j, O \cup P)
  BY DEF UsedAlike

\* From g to k, the used object at o stops being one, and nothing else happens that the
\* users see.
Gone(k, g, C, o) ==
  /\ Mem(k, C) /\ Victim(k) /\ Others(k, g)
  /\ UsedAlike(g.obj, k.obj, {o}) /\ ~ UsedAt(k.obj, o)

\* An object that is not an end marker has one behind it.
LEMMA NextObject ==
  ASSUME NEW g, NEW C, Mem(g, C), NEW o \in DOMAIN g.obj, g.obj[o].mark # "end"
  PROVE  o + g.obj[o].size \in DOMAIN g.obj /\ o + g.obj[o].size # o
<1>1. Space(g.obj, g.free, g.subs["var"], C)
  BY DEF Mem
<1>2. o \in Nat /\ g.obj[o].size \in Nat /\ g.obj[o].size >= Min /\ Min \in Nat \ {0}
  BY MemFacts, ConstantsNat
<1>3. QED
  BY <1>1, <1>2 DEF Space

\* The old victim goes to a list.
LEMMA RetireMem ==
  ASSUME NEW g, NEW C, Mem(g, C), Victim(g)
  PROVE  LET k == Retire(g) IN
           /\ Mem(k, C) /\ Others(k, g)
           /\ Alike(g.obj, k.obj, {g.dv}) /\ DOMAIN k.obj = DOMAIN g.obj
           /\ \A x \in DOMAIN k.obj : k.obj[x].mark # "special"
           /\ g.dv \in DOMAIN k.obj => k.obj[g.dv].mark = "free"
<1> DEFINE k == Retire(g)
           m == MarkPrev(g, g.dv + g.dvsize, TRUE)
<1>1. CASE g.dv = 0
  <2>1. k = g
    BY <1>1 DEF Retire
  <2>2. \A x \in DOMAIN g.obj : g.obj[x].mark # "special"
    BY <1>1, MemFacts DEF Victim
  <2>3. g.dv \notin DOMAIN g.obj
    BY <1>1, MemFacts
  <2>4. QED
    BY <2>1, <2>2, <2>3 DEF Others, Alike
<1>2. CASE g.dv # 0
  <2>1. /\ g.dv \in DOMAIN g.obj /\ g.obj[g.dv].mark = "special" /\ g.obj[g.dv].size = g.dvsize
        /\ \A x \in DOMAIN g.obj : g.obj[x].mark = "special" => x = g.dv
    BY <1>2 DEF Victim
  <2>2. g.dv + g.dvsize \in DOMAIN g.obj
    BY <2>1, NextObject
  <2>3. /\ Mem(m, C) /\ Others(m, g) /\ m.dv = g.dv /\ m.dvsize = g.dvsize
        /\ DOMAIN m.obj = DOMAIN g.obj
        /\ Alike(g.obj, m.obj, {})
    BY <2>2, MarkPrevMem
  <2>4. k = Push(m, g.dv, g.dvsize)
    BY <1>2 DEF Retire
  <2> HIDE DEF m, k
  <2>5. \A x \in DOMAIN g.obj : m.obj[x].mark = g.obj[x].mark /\ m.obj[x].size = g.obj[x].size
    <3>1. \A x : x \notin {}
      OBVIOUS
    <3>2. QED
      BY <2>3, <3>1 DEF Alike
  <2>6. /\ g.dv \in DOMAIN m.obj /\ ~ Marker(m.obj[g.dv]) /\ m.obj[g.dv].mark # "free"
        /\ m.obj[g.dv].size = g.dvsize
    BY <2>1, <2>3, <2>5 DEF Marker
  <2>7. /\ Mem(k, C) /\ Others(k, m) /\ Alike(m.obj, k.obj, {g.dv})
        /\ g.dv \in DOMAIN k.obj /\ k.obj[g.dv].mark = "free"
    BY <2>3, <2>4, <2>6, PushMem
  <2>8. Others(k, g)
    BY <2>3, <2>7 DEF Others
  <2>9. \A x \in DOMAIN g.obj : x # g.dv => x \in DOMAIN k.obj /\ k.obj[x].mark = g.obj[x].mark
                                            /\ k.obj[x].size = g.obj[x].size
    BY <2>3, <2>5, <2>7 DEF Alike
  <2>10. \A x \in DOMAIN k.obj : x \in DOMAIN g.obj
    BY <2>1, <2>3, <2>7 DEF Alike
  <2>11. DOMAIN k.obj = DOMAIN g.obj
    BY <2>1, <2>7, <2>9, <2>10
  <2>12. Alike(g.obj, k.obj, {g.dv})
    BY <2>9, <2>10 DEF Alike
  <2>13. \A x \in DOMAIN k.obj : k.obj[x].mark # "special"
    BY <2>1, <2>7, <2>9, <2>10
  <2>14. QED
    BY <2>7, <2>8, <2>11, <2>12, <2>13 DEF k
<1>3. QED
  BY <1>1, <1>2

\* The last part of wg_free_object.
LEMMA StoreMem ==
  ASSUME NEW g, NEW C, Mem(g, C), Victim(g), NEW o, UsedAt(g.obj, o)
  PROVE  Gone(Store(g, o, g.obj[o].size), g, C, o)
<1> DEFINE n == g.obj[o].size
           k == Store(g, o, n)
<1>1. /\ o \in DOMAIN g.obj /\ g.obj[o].mark = "used" /\ o \in Nat \ {0} /\ n \in Nat
      /\ ~ Marker(g.obj[o]) /\ o # g.dv
  BY MemFacts DEF UsedAt, Marker, Victim
<1>2. CASE n > g.dvsize
  <2> DEFINE r == Retire(g)
             m == MarkPrev(r, o + n, FALSE)
  <2>1. /\ Mem(r, C) /\ Others(r, g)
        /\ Alike(g.obj, r.obj, {g.dv}) /\ DOMAIN r.obj = DOMAIN g.obj
        /\ \A x \in DOMAIN r.obj : r.obj[x].mark # "special"
        /\ g.dv \in DOMAIN r.obj => r.obj[g.dv].mark = "free"
    BY RetireMem
  <2>2. k = SetHead(m, o, Special(n), o, n)
    BY <1>2 DEF Store, SetHead
  <2> HIDE DEF r
  <2>3. o \in DOMAIN r.obj /\ r.obj[o].mark = "used" /\ r.obj[o].size = n
    BY <1>1, <2>1 DEF Alike
  <2>4. o + n \in DOMAIN r.obj
    BY <2>1, <2>3, NextObject
  <2>5. /\ Mem(m, C) /\ Others(m, r) /\ DOMAIN m.obj = DOMAIN r.obj
        /\ \A x \in DOMAIN r.obj : Same(m.obj[x], r.obj[x])
    BY <2>1, <2>4, MarkPrevMem
  <2> HIDE DEF m, n, k
  <2>6. o \in DOMAIN m.obj /\ m.obj[o].mark = "used" /\ m.obj[o].size = n /\ ~ Marker(m.obj[o])
    BY <2>3, <2>5 DEF Same, Marker
  <2>7. /\ Special(n) \in Heads /\ Special(n).mark = "special" /\ Special(n).size = n
        /\ ~ Marker(Special(n))
    BY <1>1, NewHeads
  <2>8. /\ Mem(k, C) /\ Others(k, m) /\ k.dv = o /\ k.dvsize = n
        /\ DOMAIN k.obj = DOMAIN m.obj /\ k.obj[o] = Special(n) /\ Alike(m.obj, k.obj, {o})
    <3> DEFINE e == Special(n)
    <3>1. /\ Mem(m, C) /\ o \in DOMAIN m.obj /\ m.obj[o].mark # "free" /\ ~ Marker(m.obj[o])
          /\ o \in Nat /\ n \in Nat /\ k = SetHead(m, o, e, o, n)
      BY <1>1, <2>2, <2>5, <2>6
    <3>2. /\ e \in Heads /\ e.mark # "free" /\ ~ Marker(e) /\ e.size = m.obj[o].size
      BY <2>6, <2>7
    <3> HIDE DEF e
    <3>3. LET j == SetHead(m, o, e, o, n) IN
            /\ Mem(j, C) /\ Others(j, m) /\ j.dv = o /\ j.dvsize = n
            /\ DOMAIN j.obj = DOMAIN m.obj /\ j.obj[o] = e /\ Alike(m.obj, j.obj, {o})
      BY <3>1, <3>2, SetMem
    <3>4. QED
      BY <3>1, <3>3 DEF e
  <2>9. \A x \in DOMAIN g.obj : x # o => k.obj[x].mark = r.obj[x].mark /\ k.obj[x].size = r.obj[x].size
    BY <2>1, <2>5, <2>8 DEF Alike, Same
  <2>10. Victim(k)
    <3>1. \A x \in DOMAIN k.obj : k.obj[x].mark = "special" => x = o
      BY <2>1, <2>5, <2>8, <2>9
    <3>2. QED
      BY <1>1, <2>6, <2>7, <2>8, <3>1 DEF Victim
  <2>11. UsedAlike(g.obj, k.obj, {o})
    <3>1. \A x \in DOMAIN g.obj : x # o /\ x # g.dv =>
             k.obj[x].mark = g.obj[x].mark /\ k.obj[x].size = g.obj[x].size
      BY <2>1, <2>9 DEF Alike
    <3>2. ~ UsedAt(g.obj, g.dv)
      <4>1. g.dv \in DOMAIN g.obj => g.dv # 0
        BY MemFacts
      <4>2. QED
        BY <4>1 DEF UsedAt, Victim
    <3>3. ~ UsedAt(k.obj, g.dv)
      <4> SUFFICES ASSUME g.dv \in DOMAIN k.obj PROVE k.obj[g.dv].mark # "used"
        BY DEF UsedAt
      <4>1. g.dv \in DOMAIN g.obj /\ g.dv # 0 /\ g.dv # o
        BY <1>1, <2>1, <2>5, <2>8, MemFacts
      <4>2. k.obj[g.dv].mark = r.obj[g.dv].mark
        BY <2>9, <4>1
      <4>3. r.obj[g.dv].mark = "free"
        BY <2>1, <4>1
      <4>4. QED
        BY <4>2, <4>3
    <3>4. DOMAIN k.obj = DOMAIN g.obj
      BY <2>1, <2>5, <2>8
    <3>5. QED
      BY <3>1, <3>2, <3>3, <3>4 DEF UsedAlike, UsedAt
  <2>12. ~ UsedAt(k.obj, o)
    BY <2>7, <2>8 DEF UsedAt
  <2>13. Others(k, g)
    BY <2>1, <2>5, <2>8 DEF Others
  <2>14. QED
    BY <2>8, <2>10, <2>11, <2>12, <2>13 DEF Gone, k, n
<1>3. CASE ~ (n > g.dvsize)
  <2>1. k = Push(g, o, n)
    BY <1>3 DEF Store
  <2>2. /\ Mem(k, C) /\ Others(k, g) /\ k.dv = g.dv /\ k.dvsize = g.dvsize
        /\ Alike(g.obj, k.obj, {o})
        /\ o \in DOMAIN k.obj /\ k.obj[o].mark = "free" /\ k.obj[o].size = n
    BY <1>1, <2>1, PushMem
  <2> HIDE DEF k
  <2>3. ~ UsedAt(k.obj, o)
    BY <2>2 DEF UsedAt
  <2>4. UsedAlike(g.obj, k.obj, {o})
    BY <2>2, AlikeUsed
  <2>5. Victim(k)
    BY <1>1, <2>2 DEF Alike, Victim
  <2>6. QED
    BY <2>2, <2>3, <2>4, <2>5 DEF Gone, k, n
<1>4. QED
  BY <1>2, <1>3

LEMMA GoneTrans ==
  ASSUME NEW g, NEW m, NEW k, NEW C, NEW o,
         Others(m, g), UsedAlike(g.obj, m.obj, {o}), Gone(k, m, C, o)
  PROVE  Gone(k, g, C, o)
<1>1. UsedAlike(g.obj, k.obj, {o})
  BY DEF UsedAlike, Gone
<1>2. Others(k, g)
  BY DEF Others, Gone
<1>3. QED
  BY <1>1, <1>2 DEF Gone

\* The victim stays the victim.
LEMMA SameVictim ==
  ASSUME NEW g, NEW k, NEW O, Victim(g), k.dv = g.dv, k.dvsize = g.dvsize, g.dv \notin O,
         Alike(g.obj, k.obj, O),
         \A x \in O : x \in DOMAIN k.obj => k.obj[x].mark # "special"
  PROVE  Victim(k)
<1>1. g.dv # 0 => g.dv \in DOMAIN k.obj /\ k.obj[g.dv].mark = "special" /\ k.obj[g.dv].size = g.dvsize
  BY DEF Alike, Victim
<1>2. \A x \in DOMAIN k.obj : k.obj[x].mark = "special" => x = g.dv
  BY DEF Alike, Victim
<1>3. QED
  BY <1>1, <1>2 DEF Victim

\* A used object and a free one, x, next to it, at a and c, become a used one at a.
Neighbours(f, a, c, x, n) ==
  /\ a \in DOMAIN f /\ c \in DOMAIN f /\ a + f[a].size = c /\ n = f[a].size + f[c].size
  /\ \/ x = a /\ f[a].mark = "free" /\ f[c].mark = "used"
     \/ x = c /\ f[c].mark = "free" /\ f[a].mark = "used"

JoinedFree(k, g, C, a, c, n) ==
  /\ Mem(k, C) /\ Victim(k) /\ Others(k, g)
  /\ Alike(g.obj, k.obj, {a, c})
  /\ UsedAt(k.obj, a) /\ k.obj[a].size = n /\ c \notin DOMAIN k.obj /\ a # c

LEMMA JoinFree ==
  ASSUME NEW g, NEW C \in SUBSET Nat, Mem(g, C), Victim(g), NEW n \in Nat,
         NEW a, NEW c, NEW x, Neighbours(g.obj, a, c, x, n)
  PROVE  JoinedFree(Merge(Unlink(g, x), {c}, a, Used(n)), g, C, a, c, n)
<1> DEFINE u == Unlink(g, x)
           k == Merge(u, {c}, a, Used(n))
<1>0. /\ a \in DOMAIN g.obj /\ c \in DOMAIN g.obj /\ a + g.obj[a].size = c
      /\ n = g.obj[a].size + g.obj[c].size
      /\ x \in {a, c} /\ g.obj[x].mark = "free"
      /\ \A y \in {a, c} : y # x => g.obj[y].mark = "used"
  BY DEF Neighbours
<1> USE <1>0
<1>1. /\ Loose(u, C, {x}) /\ Others(u, g) /\ u.dv = g.dv /\ u.dvsize = g.dvsize
      /\ DOMAIN u.obj = DOMAIN g.obj
      /\ \A y \in DOMAIN g.obj : u.obj[y].mark = g.obj[y].mark /\ u.obj[y].size = g.obj[y].size
  BY UnlinkLoose
<1>2. /\ Used(n) \in Heads /\ Used(n).mark = "used" /\ Used(n).size = n /\ ~ Marker(Used(n))
  BY NewHeads
<1> HIDE DEF u
<1>3. Joinable(u.obj, a, c, Used(n), {x})
  <2>1. \A y \in {a, c} : u.obj[y].mark \in {"free", "used"} /\ (u.obj[y].mark = "free" => y = x)
    BY <1>1
  <2>2. u.obj[a].size = g.obj[a].size /\ u.obj[c].size = g.obj[c].size
    BY <1>1
  <2>3. \A y \in {a, c} : ~ Marker(u.obj[y])
    BY <2>1 DEF Marker
  <2>4. QED
    BY <1>1, <1>2, <2>1, <2>2, <2>3 DEF Joinable
<1>4. /\ Mem(k, C) /\ Others(k, u) /\ k.dv = u.dv /\ k.dvsize = u.dvsize
      /\ Alike(u.obj, k.obj, {a, c})
      /\ a \in DOMAIN k.obj /\ c \notin DOMAIN k.obj /\ k.obj[a] = Used(n) /\ a # c
  <2> DEFINE limbo == {x}
             e == Used(n)
  <2>1. Loose(u, C, limbo) /\ Joinable(u.obj, a, c, e, limbo)
    BY <1>1, <1>3
  <2>2. k = Merge(u, {c}, a, e)
    OBVIOUS
  <2> HIDE DEF limbo, e, k
  <2>3. Joined(Merge(u, {c}, a, e), u, C, a, c, e)
    BY <2>1, JoinMem
  <2>4. QED
    BY <2>2, <2>3 DEF Joined, e
<1> HIDE DEF k
<1>5. Alike(g.obj, k.obj, {a, c})
  BY <1>1, <1>4 DEF Alike
<1>6. Victim(k)
  <2>1. g.dv \notin {a, c}
    <3>1. g.dv \in DOMAIN g.obj => g.obj[g.dv].mark = "special"
      BY MemFacts DEF Victim
    <3>2. QED
      BY <3>1
  <2>2. \A y \in {a, c} : y \in DOMAIN k.obj => k.obj[y].mark # "special"
    BY <1>2, <1>4
  <2> DEFINE O == {a, c}
  <2>3. /\ Victim(g) /\ k.dv = g.dv /\ k.dvsize = g.dvsize /\ g.dv \notin O
        /\ Alike(g.obj, k.obj, O)
        /\ \A y \in O : y \in DOMAIN k.obj => k.obj[y].mark # "special"
    BY <1>1, <1>4, <1>5, <2>1, <2>2
  <2> HIDE DEF O
  <2>4. QED
    BY <2>3, SameVictim
<1>7. Others(k, g)
  BY <1>1, <1>4 DEF Others
<1>8. QED
  BY <1>2, <1>4, <1>5, <1>6, <1>7 DEF UsedAt, JoinedFree, k, u

\* The victim and a used object next to it, at a and c, become the victim at a.
LEMMA JoinVictim ==
  ASSUME NEW g, NEW C \in SUBSET Nat, Mem(g, C), Victim(g),
         NEW a \in DOMAIN g.obj, NEW c \in DOMAIN g.obj, a + g.obj[a].size = c,
         g.dv \in {a, c}, NEW o \in {a, c}, o # g.dv, g.obj[o].mark = "used",
         NEW n \in Nat, n = g.obj[a].size + g.obj[c].size
  PROVE  Gone(Merge(SetVictim(g, a, n), {c}, a, Special(n)), g, C, o)
<1> DEFINE u == SetVictim(g, a, n)
           k == Merge(u, {c}, a, Special(n))
<1>1. a \in Nat \ {0} /\ c \in Nat \ {0}
  BY MemFacts
<1>2. /\ g.obj[g.dv].mark = "special"
      /\ \A y \in DOMAIN g.obj : g.obj[y].mark = "special" => y = g.dv
  BY <1>1 DEF Victim
<1>3. Loose(u, C, {}) /\ Others(u, g) /\ u.obj = g.obj /\ u.dv = a /\ u.dvsize = n
  <2>1. Loose(g, C, {}) /\ a \in Nat
    BY <1>1, MemLoose
  <2> DEFINE limbo == {}
  <2>2. Loose(g, C, limbo)
    BY <2>1
  <2> HIDE DEF limbo
  <2>3. Loose(u, C, limbo) /\ Others(u, g) /\ u.obj = g.obj /\ u.dv = a /\ u.dvsize = n
    <3>1. VictimSet(SetVictim(g, a, n), g, C, limbo, a, n)
      BY <2>1, <2>2, VictimLoose
    <3>2. QED
      BY <3>1 DEF VictimSet
  <2>4. QED
    BY <2>3 DEF limbo
<1>4. /\ Special(n) \in Heads /\ Special(n).mark = "special" /\ Special(n).size = n
      /\ ~ Marker(Special(n))
  BY NewHeads
<1> HIDE DEF u
<1>5. Joinable(u.obj, a, c, Special(n), {})
  <2>1. \A y \in {a, c} : g.obj[y].mark \in {"special", "used"}
    BY <1>2
  <2>2. \A y \in {a, c} : g.obj[y].mark # "free" /\ ~ Marker(g.obj[y])
    BY <2>1 DEF Marker
  <2>3. QED
    BY <1>3, <1>4, <2>2 DEF Joinable
<1>6. /\ Mem(k, C) /\ Others(k, u) /\ k.dv = u.dv /\ k.dvsize = u.dvsize
      /\ Alike(u.obj, k.obj, {a, c})
      /\ a \in DOMAIN k.obj /\ c \notin DOMAIN k.obj /\ k.obj[a] = Special(n) /\ a # c
  <2> DEFINE limbo == {}
             e == Special(n)
  <2>1. Loose(u, C, limbo) /\ Joinable(u.obj, a, c, e, limbo)
    BY <1>3, <1>5
  <2>2. k = Merge(u, {c}, a, e)
    OBVIOUS
  <2> HIDE DEF limbo, e, k
  <2>3. Joined(Merge(u, {c}, a, e), u, C, a, c, e)
    BY <2>1, JoinMem
  <2>4. QED
    BY <2>2, <2>3 DEF Joined, e
<1> HIDE DEF k
<1>7. Victim(k)
  <2>1. \A x \in DOMAIN k.obj : k.obj[x].mark = "special" => x = a
    BY <1>2, <1>3, <1>6 DEF Alike
  <2>2. QED
    BY <1>1, <1>3, <1>4, <1>6, <2>1 DEF Victim
<1>8. \A x \in {a, c} : ~ UsedAt(k.obj, x)
  BY <1>4, <1>6 DEF UsedAt
<1>9. UsedAlike(g.obj, k.obj, {o})
  <2>1. \A x \in {a, c} \ {o} : ~ UsedAt(g.obj, x) /\ ~ UsedAt(k.obj, x)
    BY <1>2, <1>8 DEF UsedAt
  <2>2. QED
    BY <1>3, <1>6, <2>1, AlikeUsed
<1>10. Others(k, g)
  BY <1>3, <1>6 DEF Others
<1>11. QED
  BY <1>6, <1>7, <1>8, <1>9, <1>10 DEF Gone, k, u

\* The part of wg_free_object from the merge with the next object on.
LEMMA MergeNextMem ==
  ASSUME NEW g, NEW C \in SUBSET Nat, Mem(g, C), Victim(g), NEW o, UsedAt(g.obj, o),
         NEW n, n = g.obj[o].size
  PROVE  Gone(MergeNext(g, o, n), g, C, o)
<1> DEFINE x == o + n
           m == g.obj[x].size
           k == MergeNext(g, o, n)
<1>1. o \in DOMAIN g.obj /\ g.obj[o].mark = "used" /\ n \in Nat
  BY MemFacts DEF UsedAt
<1>2. x \in DOMAIN g.obj /\ x # o /\ m \in Nat
  <2>1. x \in DOMAIN g.obj /\ x # o
    BY <1>1, NextObject
  <2>2. QED
    BY <2>1, MemFacts
<1>3. CASE g.obj[x].mark = "free"
  <2> DEFINE g1 == Merge(Unlink(g, x), {x}, o, Used(n + m))
  <2>1. k = Store(g1, o, n + m)
    BY <1>3 DEF MergeNext
  <2>2. n + m \in Nat
    BY <1>1, <1>2
  <2> HIDE DEF x, m, k
  <2>3. /\ Mem(g1, C) /\ Victim(g1) /\ Others(g1, g)
        /\ Alike(g.obj, g1.obj, {o, x})
        /\ UsedAt(g1.obj, o) /\ g1.obj[o].size = n + m /\ x \notin DOMAIN g1.obj
    <3>1. o + g.obj[o].size = x /\ n + m = g.obj[o].size + g.obj[x].size
      BY DEF x, m
    <3> DEFINE z == n + m
    <3>2. Neighbours(g.obj, o, x, x, z) /\ z \in Nat
      BY <1>1, <1>2, <1>3, <2>2, <3>1 DEF Neighbours
    <3> HIDE DEF z
    <3>3. JoinedFree(Merge(Unlink(g, x), {x}, o, Used(z)), g, C, o, x, z)
      BY <3>2, JoinFree
    <3>4. QED
      BY <3>3 DEF z, JoinedFree
  <2> HIDE DEF g1
  <2>4. Gone(k, g1, C, o)
    BY <2>1, <2>3, StoreMem
  <2>5. UsedAlike(g.obj, g1.obj, {o})
    <3>1. \A y \in {o, x} \ {o} : ~ UsedAt(g.obj, y) /\ ~ UsedAt(g1.obj, y)
      BY <1>3, <2>3 DEF UsedAt
    <3>2. QED
      BY <2>3, <3>1, AlikeUsed
  <2>6. QED
    BY <2>3, <2>4, <2>5, GoneTrans DEF k
<1>4. CASE g.obj[x].mark = "special" /\ x = g.dv
  <2>1. k = Merge([g EXCEPT !.dv = o, !.dvsize = n + @], {x}, o, Special(n + g.dvsize))
    BY <1>4 DEF MergeNext
  <2>2. m = g.dvsize /\ n + m \in Nat
    BY <1>1, <1>2, <1>4, MemFacts DEF Victim
  <2>3. k = Merge(SetVictim(g, o, n + m), {x}, o, Special(n + m))
    <3>1. [g EXCEPT !.dv = o, !.dvsize = n + @] = SetVictim(g, o, n + m)
      <4>1. g \in Memory
        BY DEF Mem
      <4> HIDE DEF m
      <4>2. QED
        BY <2>2, <4>1 DEF Memory, SetVictim
    <3>2. QED
      BY <2>1, <2>2, <3>1
  <2>4. o + g.obj[o].size = x /\ n + m = g.obj[o].size + g.obj[x].size
    OBVIOUS
  <2> HIDE DEF x, m, k
  <2>5. Gone(k, g, C, o)
    BY <1>1, <1>2, <1>4, <2>2, <2>3, <2>4, JoinVictim
  <2>6. QED
    BY <2>5 DEF k
<1>5. CASE ~ (g.obj[x].mark = "free") /\ ~ (g.obj[x].mark = "special" /\ x = g.dv)
  <2> DEFINE g1 == MarkPrev(g, x, TRUE)
  <2>1. k = Store(g1, o, n)
    BY <1>5 DEF MergeNext
  <2> HIDE DEF x, m, k
  <2>2. /\ Mem(g1, C) /\ Others(g1, g) /\ g1.dv = g.dv /\ g1.dvsize = g.dvsize
        /\ DOMAIN g1.obj = DOMAIN g.obj
        /\ \A y \in DOMAIN g.obj : Same(g1.obj[y], g.obj[y])
        /\ Alike(g.obj, g1.obj, {})
    BY <1>2, MarkPrevMem
  <2> HIDE DEF g1
  <2>3. Victim(g1)
    BY <2>2 DEF Victim, Same
  <2>4. UsedAt(g1.obj, o) /\ g1.obj[o].size = n
    BY <1>1, <2>2 DEF UsedAt, Same
  <2>5. Gone(k, g1, C, o)
    BY <2>1, <2>2, <2>3, <2>4, StoreMem
  <2>6. UsedAlike(g.obj, g1.obj, {o})
    BY <2>2 DEF UsedAlike, UsedAt, Same
  <2>7. QED
    BY <2>2, <2>5, <2>6, GoneTrans DEF k
<1>6. QED
  BY <1>3, <1>4, <1>5

\* A call of wg_free_object that does not fail.
LEMMA FreedMem ==
  ASSUME NEW C \in SUBSET Nat, Mem(h, C), Victim(h), NEW o, UsedAt(h.obj, o), ~ Refused(o)
  PROVE  Gone(Freed(o), h, C, o)
<1> DEFINE n == h.obj[o].size
           p == CHOOSE p \in Before(h, o) : TRUE
           m == h.obj[p].size
           k == Freed(o)
<1>1. o \in DOMAIN h.obj /\ h.obj[o].mark = "used" /\ n \in Nat
  BY MemFacts DEF UsedAt
<1>2. CASE h.obj[o].prevfree
  <2> DEFINE g1 == Merge(Unlink(h, p), {o}, p, Used(m + n))
  <2>1. p \in Before(h, o)
    BY <1>2 DEF Refused
  <2>2. k = MergeNext(g1, p, m + n)
    BY <1>2 DEF Freed
  <2>3. p \in DOMAIN h.obj /\ h.obj[p].mark = "free" /\ p + m = o
    BY <2>1 DEF Before
  <2> HIDE DEF p
  <2>4. m \in Nat /\ m + n \in Nat
    BY <1>1, <2>3, MemFacts
  <2> HIDE DEF m, n, k
  <2>5. /\ Mem(g1, C) /\ Victim(g1) /\ Others(g1, h)
        /\ Alike(h.obj, g1.obj, {p, o})
        /\ UsedAt(g1.obj, p) /\ g1.obj[p].size = m + n /\ o \notin DOMAIN g1.obj /\ p # o
    <3>1. p + h.obj[p].size = o /\ m + n = h.obj[p].size + h.obj[o].size
      BY <2>3 DEF m, n
    <3> DEFINE z == m + n
    <3>2. Neighbours(h.obj, p, o, p, z) /\ z \in Nat
      BY <1>1, <2>3, <2>4, <3>1 DEF Neighbours
    <3> HIDE DEF z
    <3>3. JoinedFree(Merge(Unlink(h, p), {o}, p, Used(z)), h, C, p, o, z)
      BY <3>2, JoinFree
    <3>4. QED
      BY <3>3 DEF z, JoinedFree
  <2> HIDE DEF g1
  <2>6. Gone(k, g1, C, p)
    BY <2>2, <2>5, MergeNextMem
  <2>7. UsedAlike(h.obj, k.obj, {o})
    <3>1. UsedAlike(h.obj, g1.obj, {p, o})
      BY <2>5, AlikeUsed
    <3>2. ~ UsedAt(h.obj, p) /\ ~ UsedAt(k.obj, p)
      BY <2>3, <2>6 DEF UsedAt, Gone
    <3>3. UsedAlike(g1.obj, k.obj, {p})
      BY <2>6 DEF Gone
    <3>4. QED
      BY <3>1, <3>2, <3>3 DEF UsedAlike
  <2>8. ~ UsedAt(k.obj, o)
    <3>1. ~ UsedAt(g1.obj, o) /\ UsedAlike(g1.obj, k.obj, {p})
      BY <2>5, <2>6 DEF UsedAt, Gone
    <3>2. QED
      BY <2>5, <3>1 DEF UsedAlike
  <2>9. QED
    BY <2>5, <2>6, <2>7, <2>8 DEF Gone, Others, k
<1>3. CASE ~ h.obj[o].prevfree /\ h.dv # 0 /\ h.dv + h.dvsize = o
  <2> DEFINE v == h.dv
             z == h.dvsize + n
  <2>1. /\ v \in DOMAIN h.obj /\ h.obj[v].mark = "special" /\ h.obj[v].size = h.dvsize
        /\ v \in Nat /\ h.dvsize \in Nat /\ h \in Memory
    BY <1>3, MemoryFields DEF Victim, Mem
  <2>2. k = Merge([h EXCEPT !.dvsize = @ + n], {o}, v, Special(z))
    BY <1>3 DEF Freed, Grow
  <2>3. z \in Nat
    BY <1>1, <2>1
  <2>4. [h EXCEPT !.dvsize = @ + n] = SetVictim(h, v, z)
    <3> HIDE DEF n
    <3>1. QED
      BY <2>1 DEF Memory, SetVictim
  <2>5. k = Merge(SetVictim(h, v, z), {o}, v, Special(z))
    BY <2>2, <2>4
  <2>6. v + h.obj[v].size = o /\ z = h.obj[v].size + h.obj[o].size /\ o # h.dv
    BY <1>1, <1>3, <2>1
  <2>7. v \in {v, o} /\ o \in {v, o}
    OBVIOUS
  <2> HIDE DEF z, n, k
  <2>8. Gone(k, h, C, o)
    BY <1>1, <2>1, <2>3, <2>5, <2>6, <2>7, JoinVictim
  <2>9. QED
    BY <2>8 DEF k
<1>4. CASE ~ h.obj[o].prevfree /\ ~ (h.dv # 0 /\ h.dv + h.dvsize = o)
  <2>1. k = MergeNext(h, o, n)
    BY <1>4 DEF Freed
  <2>2. QED
    BY <2>1, MergeNextMem
<1>5. QED
  BY <1>2, <1>3, <1>4

-----------------------------------------------------------------------------
\* What is handed out.

\* From g to k, n gints at the object at are taken into use, and nothing else happens that
\* the users see.
Taken(k, g, C, at, n) ==
  /\ Mem(k, C) /\ Victim(k) /\ Others(k, g)
  /\ UsedAlike(g.obj, k.obj, {at})
  /\ at \in DOMAIN g.obj /\ ~ UsedAt(g.obj, at)
  /\ UsedAt(k.obj, at) /\ k.obj[at].size = n

LEMMA PopTaken ==
  ASSUME NEW g, NEW C, Mem(g, C), Victim(g), NEW b \in Buckets, g.bucket[b] # 0
  PROVE  Taken(Pop(g, b), g, C, g.bucket[b], g.obj[g.bucket[b]].size)
<1> DEFINE k == Pop(g, b)
           o == g.bucket[b]
           n == g.obj[o].size
<1>1. o \in DOMAIN g.obj /\ g.obj[o].mark = "free"
  BY FirstOf
<1>2. /\ Mem(k, C) /\ Others(k, g) /\ k.dv = g.dv /\ k.dvsize = g.dvsize
      /\ DOMAIN k.obj = DOMAIN g.obj /\ Alike(g.obj, k.obj, {o})
      /\ k.obj[o].mark = "used" /\ k.obj[o].size = n
  BY PopMem
<1> HIDE DEF k, o, n
<1>3. Victim(k)
  <2>1. g.dv # o
    <3>1. g.dv \in DOMAIN g.obj => g.obj[g.dv].mark = "special"
      BY MemFacts DEF Victim
    <3>2. QED
      BY <1>1, <3>1
  <2>2. QED
    BY <1>2, <2>1, SameVictim
<1>4. UsedAlike(g.obj, k.obj, {o})
  BY <1>2, AlikeUsed
<1>5. ~ UsedAt(g.obj, o) /\ UsedAt(k.obj, o)
  BY <1>1, <1>2 DEF UsedAt
<1>6. Taken(k, g, C, o, n)
  BY <1>1, <1>2, <1>3, <1>4, <1>5 DEF Taken
<1>7. QED
  BY <1>6 DEF k, o, n

LEMMA MarkTaken ==
  ASSUME NEW g, NEW k, NEW C, NEW at, NEW n, Taken(k, g, C, at, n), NEW x \in DOMAIN k.obj
  PROVE  Taken(MarkPrev(k, x, FALSE), g, C, at, n)
<1> DEFINE m == MarkPrev(k, x, FALSE)
<1>1. Mem(k, C)
  BY DEF Taken
<1>2. /\ Mem(m, C) /\ Others(m, k) /\ m.dv = k.dv /\ m.dvsize = k.dvsize
      /\ DOMAIN m.obj = DOMAIN k.obj
      /\ \A y \in DOMAIN k.obj : Same(m.obj[y], k.obj[y])
  BY <1>1, MarkPrevMem
<1> HIDE DEF m
<1>3. Victim(m)
  BY <1>2 DEF Taken, Victim, Same
<1>4. Others(m, g)
  BY <1>2 DEF Others, Taken
<1>5. \A y : (UsedAt(m.obj, y) <=> UsedAt(k.obj, y)) /\ (UsedAt(k.obj, y) => m.obj[y].size = k.obj[y].size)
  BY <1>2 DEF UsedAt, Same
<1>6. UsedAlike(g.obj, m.obj, {at})
  BY <1>5 DEF Taken, UsedAlike
<1>7. UsedAt(m.obj, at) /\ m.obj[at].size = n
  BY <1>5 DEF Taken
<1>8. QED
  BY <1>2, <1>3, <1>4, <1>6, <1>7 DEF Taken, m

LEMMA SplitTaken ==
  ASSUME NEW g, NEW C \in SUBSET Nat, Mem(g, C), Victim(g), NEW b \in Buckets, g.bucket[b] # 0,
         NEW n \in Nat, n >= Min, g.obj[g.bucket[b]].size >= n + Min
  PROVE  Taken(Split(g, b, n), g, C, g.bucket[b], n)
<1> DEFINE k == Split(g, b, n)
           o == g.bucket[b]
           p == o + n
<1>1. o \in DOMAIN g.obj /\ g.obj[o].mark = "free"
  BY FirstOf
<1>2. /\ Mem(k, C) /\ Others(k, g) /\ k.dv = g.dv /\ k.dvsize = g.dvsize
      /\ Alike(g.obj, k.obj, {o, p})
      /\ o \in DOMAIN k.obj /\ k.obj[o].mark = "used" /\ k.obj[o].size = n
      /\ p \notin DOMAIN g.obj /\ p \in DOMAIN k.obj /\ k.obj[p].mark = "free"
  BY SplitMem
<1> HIDE DEF k, o, p
<1>3. Victim(k)
  <2> DEFINE O == {o, p}
  <2>1. g.dv \notin O
    <3>1. g.dv \in DOMAIN g.obj => g.obj[g.dv].mark = "special"
      BY MemFacts DEF Victim
    <3>2. CASE g.dv = 0
      <4>1. 0 \notin DOMAIN g.obj /\ 0 \notin DOMAIN k.obj
        BY <1>2, MemFacts
      <4>2. QED
        BY <1>1, <1>2, <3>2, <4>1
    <3>3. CASE g.dv # 0
      <4>1. g.dv \in DOMAIN g.obj
        BY <3>3 DEF Victim
      <4>2. QED
        BY <1>1, <1>2, <3>1, <4>1
    <3>4. QED
      BY <3>2, <3>3
  <2>2. Alike(g.obj, k.obj, O) /\ \A x \in O : x \in DOMAIN k.obj => k.obj[x].mark # "special"
    BY <1>2
  <2> HIDE DEF O
  <2>3. QED
    BY <1>2, <2>1, <2>2, SameVictim
<1>4. UsedAlike(g.obj, k.obj, {o})
  <2>1. \A x \in {o, p} \ {o} : ~ UsedAt(g.obj, x) /\ ~ UsedAt(k.obj, x)
    BY <1>2 DEF UsedAt
  <2>2. QED
    BY <1>2, <2>1, AlikeUsed
<1>5. ~ UsedAt(g.obj, o) /\ UsedAt(k.obj, o)
  BY <1>1, <1>2 DEF UsedAt
<1>6. Taken(k, g, C, o, n)
  BY <1>1, <1>2, <1>3, <1>4, <1>5 DEF Taken
<1>7. QED
  BY <1>6 DEF k, o

LEMMA CutTaken ==
  ASSUME NEW g, NEW C \in SUBSET Nat, Mem(g, C), Victim(g), g.dv # 0,
         NEW n \in Nat, n >= Min, n + Min <= g.dvsize
  PROVE  Taken(Cut(g, n), g, C, g.dv, n)
<1> DEFINE k == Cut(g, n)
           o == g.dv
           p == o + n
<1>1. /\ o \in DOMAIN g.obj /\ g.obj[o].mark = "special" /\ g.obj[o].size = g.dvsize
      /\ \A x \in DOMAIN g.obj : g.obj[x].mark = "special" => x = o
  BY DEF Victim
<1>2. /\ Mem(k, C) /\ Others(k, g) /\ k.dv = p /\ k.dvsize = g.dvsize - n
      /\ Alike(g.obj, k.obj, {o, p})
      /\ o \in DOMAIN k.obj /\ k.obj[o].mark = "used" /\ k.obj[o].size = n
      /\ p \notin DOMAIN g.obj /\ p \in DOMAIN k.obj
      /\ k.obj[p].mark = "special" /\ k.obj[p].size = g.dvsize - n
      /\ p # 0
  BY <1>1, CutMem
<1> HIDE DEF k, o, p
<1>3. Victim(k)
  <2>1. \A x \in DOMAIN k.obj : k.obj[x].mark = "special" => x = p
    BY <1>1, <1>2 DEF Alike
  <2>2. QED
    BY <1>2, <2>1 DEF Victim
<1>4. UsedAlike(g.obj, k.obj, {o})
  <2>1. \A x \in {o, p} \ {o} : ~ UsedAt(g.obj, x) /\ ~ UsedAt(k.obj, x)
    BY <1>2 DEF UsedAt
  <2>2. QED
    BY <1>2, <2>1, AlikeUsed
<1>5. ~ UsedAt(g.obj, o) /\ UsedAt(k.obj, o)
  BY <1>1, <1>2 DEF UsedAt
<1>6. Taken(k, g, C, o, n)
  BY <1>1, <1>2, <1>3, <1>4, <1>5 DEF Taken
<1>7. QED
  BY <1>6 DEF k, o

\* The victim is taken as it is.
LEMMA VictimTaken ==
  ASSUME NEW g, NEW C, Mem(g, C), Victim(g), g.dv # 0
  PROVE  Taken(SetHead(g, g.dv, Used(g.dvsize), 0, 0), g, C, g.dv, g.dvsize)
<1> DEFINE o == g.dv
           n == g.dvsize
           e == Used(n)
           k == SetHead(g, o, e, 0, 0)
<1>1. /\ o \in DOMAIN g.obj /\ g.obj[o].mark = "special" /\ g.obj[o].size = n
      /\ \A x \in DOMAIN g.obj : g.obj[x].mark = "special" => x = o
  BY DEF Victim
<1>2. n \in Nat /\ 0 \in Nat
  BY MemoryFields DEF Mem
<1>3. e \in Heads /\ e.mark = "used" /\ e.size = n /\ ~ Marker(e) /\ ~ Marker(g.obj[o])
  BY <1>1, <1>2, NewHeads DEF Marker
<1> HIDE DEF e
<1>4. /\ Mem(k, C) /\ Others(k, g) /\ k.dv = 0 /\ k.dvsize = 0
      /\ DOMAIN k.obj = DOMAIN g.obj /\ k.obj[o] = e /\ Alike(g.obj, k.obj, {o})
  BY <1>1, <1>2, <1>3, SetMem
<1> HIDE DEF k, o
<1>5. Victim(k)
  <2>1. \A x \in DOMAIN k.obj : k.obj[x].mark # "special"
    BY <1>1, <1>3, <1>4 DEF Alike
  <2>2. QED
    BY <1>4, <2>1 DEF Victim
<1>6. UsedAlike(g.obj, k.obj, {o})
  BY <1>4, AlikeUsed
<1>7. ~ UsedAt(g.obj, o) /\ UsedAt(k.obj, o)
  BY <1>1, <1>3, <1>4 DEF UsedAt
<1>8. Taken(k, g, C, o, n)
  BY <1>1, <1>3, <1>4, <1>5, <1>6, <1>7 DEF Taken
<1>9. QED
  BY <1>8 DEF k, o, e

\* What is found is a place of the size that was looked for.
LEMMA FindMem ==
  ASSUME NEW g, NEW C \in SUBSET Nat, Mem(g, C), Victim(g),
         NEW n \in Nat, n >= Min, Find(g, n).at # 0
  PROVE  Taken(Find(g, n).mem, g, C, Find(g, n).at, n)
<1> DEFINE b == CHOOSE b \in Suitable(g, n) : \A c \in Suitable(g, n) : b <= c
           o == g.bucket[b]
           small == n < Exact /\ g.bucket[n] # 0
           whole == g.dv # 0 /\ n = g.dvsize
           part == g.dv # 0 /\ n + Min <= g.dvsize
           r1 == [at |-> g.bucket[n], mem |-> MarkPrev(Pop(g, n), g.bucket[n] + n, FALSE)]
           r2 == [at |-> g.dv, mem |-> [g EXCEPT !.obj[g.dv] = Used(n), !.dv = 0, !.dvsize = 0]]
           r3 == [at |-> g.dv, mem |-> Cut(g, n)]
           r4 == IF Suitable(g, n) = {} THEN [at |-> 0, mem |-> g]
                 ELSE [at |-> o, mem |-> IF g.obj[o].size = n THEN Pop(g, b) ELSE Split(g, b, n)]
<1>6. Find(g, n) = CASE small -> r1 [] ~ small /\ whole -> r2 [] ~ small /\ part -> r3 [] OTHER -> r4
  BY DEF Find
<1>7. whole => ~ part
  BY ConstantsNat
<1> DEFINE r == Find(g, n)
<1>8. r.at # 0
  OBVIOUS
<1> SUFFICES Taken(r.mem, g, C, r.at, n)
  OBVIOUS
<1> HIDE DEF r1, r2, r3, r4
<1>9. /\ small => r = r1
      /\ ~ small /\ whole => r = r2
      /\ ~ small /\ part => r = r3
      /\ ~ small /\ ~ whole /\ ~ part => r = r4
  <2> HIDE DEF r, small, whole, part
  <2>1. r = CASE small -> r1 [] ~ small /\ whole -> r2 [] ~ small /\ part -> r3 [] OTHER -> r4
    BY <1>6 DEF r
  <2>2. QED
    BY <1>7, <2>1
<1> HIDE DEF r
<1>1. CASE small
  <2> DEFINE q == g.bucket[n]
             k == Pop(g, n)
  <2>1. r = [at |-> q, mem |-> MarkPrev(k, q + n, FALSE)]
    BY <1>1, <1>9 DEF r1
  <2>2. n \in Buckets /\ q # 0
    BY <1>1, ConstantsNat DEF Buckets
  <2>3. q \in DOMAIN g.obj /\ g.obj[q].mark = "free" /\ Index(g.obj[q].size) = n
    BY <2>2, FirstOf
  <2>4. g.obj[q].size = n
    <3>1. g.obj[q].size \in 0..SegSize
      BY <2>3, MemFacts
    <3>2. g.obj[q].size < Exact \/ g.obj[q].size >= Exact
      BY <3>1, ConstantsNat
    <3>3. n < Exact /\ ~ (n >= Exact)
      BY <1>1, ConstantsNat
    <3>4. QED
      BY <2>3, <3>1, <3>2, <3>3, IndexFacts
  <2>5. Taken(k, g, C, q, n)
    BY <2>2, <2>4, PopTaken
  <2> HIDE DEF q, k
  <2>6. q + n \in DOMAIN k.obj
    <3>1. Mem(k, C) /\ q \in DOMAIN k.obj /\ k.obj[q].mark = "used" /\ k.obj[q].size = n
      BY <2>5 DEF Taken, UsedAt
    <3>2. QED
      BY <3>1, NextObject
  <2>7. Taken(MarkPrev(k, q + n, FALSE), g, C, q, n)
    BY <2>5, <2>6, MarkTaken
  <2>8. QED
    BY <2>1, <2>7
<1>2. CASE ~ small /\ whole
  <2>1. r = [at |-> g.dv, mem |-> [g EXCEPT !.obj[g.dv] = Used(n), !.dv = 0, !.dvsize = 0]]
    BY <1>2, <1>9 DEF r2
  <2>2. [g EXCEPT !.obj[g.dv] = Used(n), !.dv = 0, !.dvsize = 0] = SetHead(g, g.dv, Used(n), 0, 0)
    <3>1. g \in Memory
      BY DEF Mem
    <3>2. QED
      BY <3>1 DEF SetHead, Memory
  <2>3. Taken(SetHead(g, g.dv, Used(n), 0, 0), g, C, g.dv, n)
    BY <1>2, VictimTaken
  <2>4. QED
    BY <2>1, <2>2, <2>3
<1>3. CASE ~ small /\ part
  <2>1. r = [at |-> g.dv, mem |-> Cut(g, n)]
    BY <1>3, <1>9 DEF r3
  <2>2. Taken(Cut(g, n), g, C, g.dv, n)
    BY <1>3, CutTaken
  <2>3. QED
    BY <2>1, <2>2
<1>4. CASE ~ small /\ ~ whole /\ ~ part
  <2>1. r = IF Suitable(g, n) = {} THEN [at |-> 0, mem |-> g]
                     ELSE [at |-> o, mem |-> IF g.obj[o].size = n THEN Pop(g, b) ELSE Split(g, b, n)]
    BY <1>4, <1>9 DEF r4
  <2>2. Suitable(g, n) # {}
    <3>1. Suitable(g, n) = {} => r.at = 0
      BY <2>1
    <3>2. QED
      BY <1>8, <3>1
  <2>3. b \in Suitable(g, n)
    <3>1. Suitable(g, n) \subseteq Nat
      BY ConstantsNat DEF Suitable, Buckets
    <3> DEFINE T == Suitable(g, n)
    <3> HIDE DEF T
    <3>2. \E c \in T : \A d \in T : c <= d
      BY <2>2, <3>1, LeastElement DEF T
    <3>3. QED
      BY <3>2 DEF T
  <2> HIDE DEF b
  <2>4. b \in Buckets /\ o # 0 /\ (g.obj[o].size = n \/ g.obj[o].size >= n + Min)
    BY <2>3 DEF Suitable
  <2>5. CASE g.obj[o].size = n
    <3>1. r = [at |-> o, mem |-> Pop(g, b)]
      BY <2>1, <2>2, <2>5
    <3>2. Taken(Pop(g, b), g, C, o, n)
      BY <2>4, <2>5, PopTaken
    <3>3. QED
      BY <3>1, <3>2
  <2>6. CASE g.obj[o].size # n
    <3>1. r = [at |-> o, mem |-> Split(g, b, n)]
      BY <2>1, <2>2, <2>6
    <3>2. Taken(Split(g, b, n), g, C, o, n)
      BY <2>4, <2>6, SplitTaken
    <3>3. QED
      BY <3>1, <3>2
  <2>7. QED
    BY <2>5, <2>6
<1>5. QED
  BY <1>1, <1>2, <1>3, <1>4

-----------------------------------------------------------------------------
\* New subareas.

\* A sequence with one more element at its end.
LEMMA Appended ==
  ASSUME NEW S, NEW s \in Seq(S), NEW x \in S
  PROVE  LET t == Append(s, x) IN
           /\ t \in Seq(S) /\ Len(t) = Len(s) + 1 /\ DOMAIN t = 1..(Len(s) + 1)
           /\ Len(s) \in Nat /\ DOMAIN s = 1..Len(s)
           /\ t[Len(s) + 1] = x /\ \A i \in 1..Len(s) : t[i] = s[i]
           /\ \A i \in DOMAIN t : i \in DOMAIN s \/ i = Len(s) + 1
<1> DEFINE t == Append(s, x)
<1>1. /\ t \in Seq(S) /\ Len(t) = Len(s) + 1 /\ Len(s) \in Nat /\ DOMAIN s = 1..Len(s)
      /\ t[Len(s) + 1] = x /\ \A i \in 1..Len(s) : t[i] = s[i]
  BY AppendProperties
<1> HIDE DEF t
<1>2. DOMAIN t = 1..(Len(s) + 1)
  BY <1>1
<1>3. \A i \in DOMAIN t : i \in DOMAIN s \/ i = Len(s) + 1
  BY <1>1, <1>2
<1>4. QED
  BY <1>1, <1>2, <1>3 DEF t

\* The part of a subarea that is used: whole objects of the least size.
LEMMA AlignedSize ==
  ASSUME NEW n \in Nat, n >= 3 * Min
  PROVE  LET m == n - (n % Min) IN m \in Nat /\ m >= 3 * Min /\ m <= n
<1>1. Min \in Nat \ {0}
  BY ConstantsNat
<1> DEFINE q == n \div Min
           r == n % Min
<1>2. q \in Int /\ r \in 0..(Min - 1) /\ n = Min * q + r
  BY <1>1
<1> HIDE DEF q, r
<1>3. q >= 3
  <2>1. q <= 2 => Min * q <= Min * 2
    BY <1>1, <1>2
  <2>2. QED
    BY <1>1, <1>2, <2>1
<1>4. Min * q >= Min * 3
  BY <1>1, <1>2, <1>3
<1>5. QED
  BY <1>1, <1>2, <1>4 DEF r

\* A new subarea behind everything: the marker at its start, the special piece and the
\* marker at its end.
Opened(f, k, end, n, al) ==
  /\ DOMAIN k = DOMAIN f \cup {end, end + Min, end + al - Min}
  /\ \A x \in DOMAIN f : k[x] = f[x]
  /\ k[end].mark = "start" /\ k[end].size = Min
  /\ k[end + Min].mark = "special" /\ k[end + Min].size = al - 2 * Min
  /\ k[end + al - Min].mark = "end" /\ k[end + al - Min].size = Min
  /\ al \in Nat /\ al >= 3 * Min /\ al <= n /\ EndOf([at |-> end, size |-> n]) = end + al

LEMMA SpaceExtend ==
  ASSUME NEW f \in HeadMaps, NEW k \in HeadMaps, NEW end \in Nat, NEW n \in Nat, NEW al,
         NEW subs \in Seq(Subareas), NEW C \in SUBSET Nat, Space(f, end, subs, C),
         Opened(f, k, end, n, al)
  PROVE  /\ Space(k, end + n, Append(subs, [at |-> end, size |-> n]), C)
         /\ \A x \in DOMAIN f : x < end
<1> DEFINE s == [at |-> end, size |-> n]
           t == Append(subs, s)
           p == end + Min
           z == end + al - Min
<1>1. /\ \A x \in DOMAIN f : x \in Nat /\ f[x].size \in Nat
      /\ \A x \in DOMAIN k : x \in Nat /\ k[x].size \in Nat
      /\ Min \in Nat \ {0} /\ FixLen \in Nat \ {0} /\ Base \in Nat
  BY HeadMapFacts, ConstantsNat
<1>2. /\ DOMAIN k = DOMAIN f \cup {end, p, z}
      /\ \A x \in DOMAIN f : k[x] = f[x]
      /\ k[end].mark = "start" /\ k[end].size = Min
      /\ k[p].mark = "special" /\ k[p].size = al - 2 * Min
      /\ k[z].mark = "end" /\ k[z].size = Min
      /\ al \in Nat /\ al >= 3 * Min /\ al <= n
  BY DEF Opened
<1>3. /\ Base <= end
      /\ \A x \in DOMAIN f : f[x].size >= Min /\ x >= Base /\ x + f[x].size <= end
      /\ \A x, y \in DOMAIN f : x < y => x + f[x].size <= y
      /\ \A x \in DOMAIN f : f[x].mark # "end" => x + f[x].size \in DOMAIN f
      /\ \A c \in C : Base <= c /\ c + FixLen <= end
      /\ \A c, d \in C : c < d => c + FixLen <= d
      /\ \A c \in C, x \in DOMAIN f : x + f[x].size <= c \/ c + FixLen <= x
  BY DEF Space
<1>4. s \in Subareas /\ s.at = end /\ EndOf(s) = end + al
  BY DEF Subareas, Opened
<1>5. /\ DOMAIN t = 1..(Len(subs) + 1) /\ t[Len(subs) + 1] = s
      /\ \A i \in DOMAIN subs : t[i] = subs[i]
      /\ \A i \in DOMAIN t : i \in DOMAIN subs \/ i = Len(subs) + 1
  BY <1>4, Appended
<1> HIDE DEF s, t, p, z
<1>6. /\ p \in Nat /\ z \in Nat /\ p = end + Min /\ z = end + al - Min
      /\ end < p /\ p < z /\ p + (al - 2 * Min) = z /\ z + Min = end + al
      /\ end + al <= end + n /\ end + n \in Nat
  BY <1>1, <1>2 DEF p, z
<1>7. \A x \in DOMAIN f : x < end
  BY <1>1, <1>3
<1>8. \A x \in DOMAIN k : k[x].size >= Min /\ x >= Base /\ x + k[x].size <= end + n
  <2> SUFFICES ASSUME NEW x \in DOMAIN k
               PROVE  k[x].size >= Min /\ x >= Base /\ x + k[x].size <= end + n
    OBVIOUS
  <2>1. CASE x \in DOMAIN f
    <3>1. k[x] = f[x]
      BY <1>2, <2>1
    <3>2. f[x].size >= Min /\ x >= Base /\ x + f[x].size <= end
      BY <1>3, <2>1
    <3>3. x + f[x].size <= end + n
      BY <1>1, <2>1, <3>2
    <3>4. QED
      BY <3>1, <3>2, <3>3
  <2>2. CASE x \in {end, p, z}
    <3>1. k[end].size = Min /\ k[p].size = al - 2 * Min /\ k[z].size = Min
      BY <1>2
    <3>2. k[end].size >= Min /\ end >= Base /\ end + k[end].size <= end + n
      BY <1>1, <1>6, <1>3, <3>1
    <3>3. k[p].size >= Min /\ p >= Base /\ p + k[p].size <= end + n
      <4>1. al \in Nat /\ al >= 3 * Min /\ Base <= end
        BY <1>2, <1>3
      <4>2. k[p].size >= Min
        BY <1>1, <4>1, <3>1
      <4>3. p >= Base
        BY <1>1, <1>6, <4>1
      <4>4. p + k[p].size = z
        BY <1>6, <3>1
      <4>5. z <= end + n
        BY <1>1, <1>6
      <4>6. QED
        BY <4>2, <4>3, <4>4, <4>5
    <3>4. k[z].size >= Min /\ z >= Base /\ z + k[z].size <= end + n
      BY <1>1, <1>6, <1>3, <3>1
    <3>5. QED
      BY <2>2, <3>2, <3>3, <3>4
  <2>3. QED
    BY <1>2, <2>1, <2>2
<1>9. \A x, y \in DOMAIN k : x < y => x + k[x].size <= y
  <2> SUFFICES ASSUME NEW x \in DOMAIN k, NEW y \in DOMAIN k, x < y PROVE x + k[x].size <= y
    OBVIOUS
  <2>1. CASE x \in DOMAIN f
    <3>1. CASE y \in DOMAIN f
      BY <1>2, <1>3, <2>1, <3>1
    <3>2. CASE y \in {end, p, z}
      <4>1. x + k[x].size <= end /\ x \in Nat /\ k[x].size \in Nat
        BY <1>1, <1>2, <1>3, <2>1
      <4>2. end <= y /\ y \in Nat
        BY <1>6, <3>2
      <4>3. QED
        BY <4>1, <4>2
    <3>3. QED
      BY <1>2, <3>1, <3>2
  <2>2. CASE x \in {end, p, z}
    <3>1. y \in {end, p, z}
      <4>1. y \in DOMAIN f => y < end
        BY <1>7
      <4>2. y \notin DOMAIN f
        BY <1>1, <1>6, <2>2, <4>1
      <4>3. QED
        BY <1>2, <4>2
    <3>2. QED
      BY <1>1, <1>2, <1>6, <2>2, <3>1
  <2>3. QED
    BY <1>2, <2>1, <2>2
<1>10. \A x \in DOMAIN k : k[x].mark # "end" => x + k[x].size \in DOMAIN k
  <2> SUFFICES ASSUME NEW x \in DOMAIN k, k[x].mark # "end" PROVE x + k[x].size \in DOMAIN k
    OBVIOUS
  <2>1. CASE x \in DOMAIN f
    BY <1>2, <1>3, <2>1
  <2>2. CASE x = end
    BY <1>2, <1>6, <2>2
  <2>3. CASE x = p
    BY <1>2, <1>6, <2>3
  <2>4. QED
    BY <1>2, <2>1, <2>2, <2>3
<1>11. ASSUME NEW i \in DOMAIN t
       PROVE  /\ t[i].at \in DOMAIN k /\ k[t[i].at].mark = "start"
              /\ EndOf(t[i]) - Min \in DOMAIN k
              /\ k[EndOf(t[i]) - Min].mark = "end" /\ k[EndOf(t[i]) - Min].size = Min
              /\ t[i].at + Min < EndOf(t[i]) /\ EndOf(t[i]) <= end + n
              /\ \A x \in DOMAIN k :
                   t[i].at <= x /\ x < EndOf(t[i]) /\ k[x].mark = "end" => x = EndOf(t[i]) - Min
  <2>1. CASE i \in DOMAIN subs
    <3> DEFINE a == subs[i].at
               e == EndOf(subs[i])
    <3>1. t[i].at = a /\ EndOf(t[i]) = e
      BY <1>5, <2>1
    <3>2. /\ a \in DOMAIN f /\ f[a].mark = "start"
          /\ e - Min \in DOMAIN f /\ f[e - Min].mark = "end" /\ f[e - Min].size = Min
          /\ a + Min < e /\ e <= end
          /\ \A x \in DOMAIN f : a <= x /\ x < e /\ f[x].mark = "end" => x = e - Min
      BY <2>1 DEF Space
    <3>3. a \in Nat /\ e \in Int
      BY <2>1, EndOfInt
    <3> HIDE DEF a, e
    <3>4. \A x \in DOMAIN k : x < e => x \in DOMAIN f
      <4>1. e <= end /\ end <= p /\ end <= z
        BY <1>6, <3>2
      <4>2. ~ (end < e) /\ ~ (p < e) /\ ~ (z < e)
        BY <1>6, <3>3, <4>1
      <4>3. QED
        BY <1>2, <4>2
    <3>5. e <= end + n
      BY <1>6, <3>2, <3>3
    <3>6. QED
      BY <1>2, <3>1, <3>2, <3>4, <3>5
  <2>2. CASE i = Len(subs) + 1
    <3>1. t[i].at = end /\ EndOf(t[i]) = end + al
      BY <1>4, <1>5, <2>2
    <3>2. (end + al) - Min = z /\ end + Min < end + al
      BY <1>1, <1>2, <1>6
    <3>3. \A x \in DOMAIN k : end <= x /\ k[x].mark = "end" => x = z
      <4> SUFFICES ASSUME NEW x \in DOMAIN k, end <= x, k[x].mark = "end" PROVE x = z
        OBVIOUS
      <4>1. x \notin DOMAIN f
        BY <1>1, <1>7
      <4>2. QED
        BY <1>2, <4>1
    <3>4. \A x \in DOMAIN k : end <= x /\ x < end + al /\ k[x].mark = "end" => x = z
      BY <3>3
    <3>5. end \in DOMAIN k /\ k[end].mark = "start" /\ z \in DOMAIN k /\ k[z].mark = "end" /\ k[z].size = Min
      BY <1>2
    <3> DEFINE a == t[i].at
               e == EndOf(t[i])
    <3>6. a = end /\ e = end + al /\ e - Min = z /\ a + Min < e /\ e <= end + n
      BY <1>6, <3>1, <3>2
    <3> HIDE DEF a, e
    <3>7. \A x \in DOMAIN k : a <= x /\ x < e /\ k[x].mark = "end" => x = e - Min
      BY <3>4, <3>6
    <3>8. a \in DOMAIN k /\ k[a].mark = "start" /\ e - Min \in DOMAIN k /\ k[e - Min].mark = "end"
          /\ k[e - Min].size = Min
      BY <3>5, <3>6
    <3>9. QED
      BY <3>6, <3>7, <3>8 DEF a, e
  <2>3. QED
    BY <1>5, <2>1, <2>2
<1>12. \A c \in C : Base <= c /\ c + FixLen <= end + n
  BY <1>1, <1>3
<1>13. \A c \in C, x \in DOMAIN k : x + k[x].size <= c \/ c + FixLen <= x
  <2> SUFFICES ASSUME NEW c \in C, NEW x \in DOMAIN k PROVE x + k[x].size <= c \/ c + FixLen <= x
    OBVIOUS
  <2>1. CASE x \in DOMAIN f
    BY <1>2, <1>3, <2>1
  <2>2. CASE x \in {end, p, z}
    BY <1>1, <1>3, <1>6, <2>2
  <2>3. QED
    BY <1>2, <2>1, <2>2
<1>14. Base <= end + n
  BY <1>1, <1>3
<1>15. Space(k, end + n, t, C)
  BY <1>3, <1>8, <1>9, <1>10, <1>11, <1>12, <1>13, <1>14 DEF Space
<1>16. QED
  BY <1>7, <1>15 DEF s, t

\* An area that can be extended is not extended beyond the array of its subareas, nor
\* beyond the segment.
LEMMA NextSizeFacts ==
  ASSUME NEW g, NEW area, NEW minsize \in Nat, NextSize(g, area, minsize) # 0
  PROVE  LET n == NextSize(g, area, minsize) IN
           /\ n \in Nat /\ n >= minsize /\ g.free + n < SegSize
           /\ Len(g.subs[area]) # MaxSubareas
<1> DEFINE last == LastSize(g, area)
           Enough == {k \in 1..8 : last * 2^k >= minsize}
           top == CHOOSE k \in Enough : \A j \in Enough : k <= j
           T == {n \in minsize..SegSize : ChunkFits(g, n) /\ \E j \in 0..8 : n = (last * 2^top) \div 2^j}
           c == CHOOSE n \in T : \A m \in T : n >= m
<1>1. NextSize(g, area, minsize) = IF Len(g.subs[area]) = MaxSubareas \/ T = {} THEN 0 ELSE c
  BY DEF NextSize
<1>2. T \subseteq minsize..SegSize /\ \A n \in T : ChunkFits(g, n)
  OBVIOUS
<1> HIDE DEF T
<1>3. Len(g.subs[area]) # MaxSubareas /\ T # {} /\ NextSize(g, area, minsize) = c
  BY <1>1
<1>4. \E n \in T : \A m \in T : n >= m
  <2>1. SegSize \in Nat /\ T \subseteq Nat /\ \A n \in T : n <= SegSize
    BY <1>2, ConstantsNat
  <2>2. QED
    BY <1>3, <2>1, GreatestElement
<1>5. c \in T
  BY <1>4
<1> HIDE DEF c
<1>6. c \in Nat /\ c >= minsize /\ g.free + c < SegSize
  BY <1>2, <1>5, ConstantsNat DEF ChunkFits
<1>7. QED
  BY <1>3, <1>6

\* From g to k, the area got one more subarea, and nothing else happens that the
\* users see.
Grown(k, g, C) ==
  /\ Mem(k, C) /\ Victim(k) /\ UsedAlike(g.obj, k.obj, {})
  /\ k.freelist = g.freelist /\ k.full = g.full
  /\ k.subs["fix"] = g.subs["fix"] /\ Len(k.subs["var"]) = Len(g.subs["var"]) + 1

\* A list gets the old victim.
LEMMA PutVictim ==
  ASSUME NEW g, NEW C, Mem(g, C), Victim(g)
  PROVE  LET k == IF g.dv # 0 THEN Push(g, g.dv, g.dvsize) ELSE g IN
           /\ Mem(k, C) /\ Others(k, g)
           /\ UsedAlike(g.obj, k.obj, {})
           /\ \A x \in DOMAIN k.obj : k.obj[x].mark # "special"
<1> DEFINE k == IF g.dv # 0 THEN Push(g, g.dv, g.dvsize) ELSE g
<1>1. CASE g.dv = 0
  <2>1. k = g
    BY <1>1
  <2>2. \A x \in DOMAIN g.obj : g.obj[x].mark # "special"
    BY <1>1, MemFacts DEF Victim
  <2>3. QED
    BY <2>1, <2>2 DEF Others, UsedAlike
<1>2. CASE g.dv # 0
  <2> DEFINE v == g.dv
             n == g.dvsize
             p == Push(g, v, n)
  <2>1. /\ v \in DOMAIN g.obj /\ g.obj[v].mark = "special" /\ n = g.obj[v].size
        /\ ~ Marker(g.obj[v]) /\ g.obj[v].mark # "free"
    BY <1>2 DEF Victim, Marker
  <2>2. /\ Mem(p, C) /\ Others(p, g) /\ Alike(g.obj, p.obj, {v})
        /\ v \in DOMAIN p.obj /\ p.obj[v].mark = "free"
    <3>1. g.obj[v].mark # "free" /\ ~ Marker(g.obj[v]) /\ n = g.obj[v].size /\ v \in DOMAIN g.obj
      BY <2>1
    <3> HIDE DEF v, n, p
    <3>2. QED
      BY <3>1, PushMem DEF p
  <2>3. k = p
    BY <1>2
  <2> HIDE DEF p, k, n
  <2>4. UsedAlike(g.obj, p.obj, {})
    BY <2>1, <2>2, AlikeUsed DEF UsedAt
  <2>5. \A x \in DOMAIN p.obj : p.obj[x].mark # "special"
    BY <2>1, <2>2 DEF Alike, Victim
  <2>6. QED
    BY <2>2, <2>3, <2>4, <2>5 DEF k
<1>3. QED
  BY <1>1, <1>2

\* The markers.
LEMMA MarkerHeads ==
  ASSUME NEW n \in Nat, NEW m \in {"start", "end"}
  PROVE  LET e == [Used(n) EXCEPT !.mark = m] IN e \in Heads /\ e.mark = m /\ e.size = n
<1> DEFINE u == Used(n)
           e == [u EXCEPT !.mark = m]
<1>1. u \in Heads /\ u.size = n
  BY NewHeads
<1> HIDE DEF u
<1>2. e \in Heads /\ e.mark = m /\ e.size = n
  BY <1>1 DEF Heads
<1>3. QED
  BY <1>2 DEF u

\* A new subarea of the variable area.
LEMMA OpenMem ==
  ASSUME NEW g, NEW C \in SUBSET Nat, Mem(g, C), Victim(g),
         NEW n \in Nat, n >= 3 * Min, g.free + n <= SegSize
  PROVE  LET k == FreeSpace(Carved(g, "var", n), g.free, n) IN
           Grown(k, g, C) /\ k.free = g.free + n
<1> DEFINE end == g.free
           al == n - (n % Min)
           s == [at |-> end, size |-> n]
           subs == Append(g.subs["var"], s)
           p == IF g.dv # 0 THEN Push(g, g.dv, g.dvsize) ELSE g
           c == Carved(g, "var", n)
           put == IF c.dv # 0 /\ c.dvsize >= Min THEN Push(c, c.dv, c.dvsize) ELSE c
           N == {end, end + Min, end + al - Min}
           marked == [x \in N |-> IF x = end + Min THEN Special(al - 2 * Min)
                                  ELSE [Used(Min) EXCEPT !.mark = IF x = end THEN "start" ELSE "end"]]
           f == [x \in DOMAIN put.obj \cup DOMAIN marked |->
                            IF x \in DOMAIN marked THEN marked[x] ELSE put.obj[x]]
           k == [put EXCEPT !.obj = f, !.dv = end + Min, !.dvsize = al - 2 * Min]
<1>1. FreeSpace(c, end, n) = k
  BY DEF FreeSpace
<1>2. g \in Memory /\ end \in Nat /\ end + n <= SegSize /\ Min \in Nat \ {0}
  BY MemoryFields, ConstantsNat DEF Mem
<1>3. al \in Nat /\ al >= 3 * Min /\ al <= n
  BY <1>2, AlignedSize
<1>4. /\ Mem(p, C) /\ Others(p, g) /\ UsedAlike(g.obj, p.obj, {})
      /\ \A x \in DOMAIN p.obj : p.obj[x].mark # "special"
  BY PutVictim
<1>5. /\ p \in Memory /\ p.obj \in HeadMaps /\ g.subs["var"] \in Seq(Subareas)
      /\ Space(p.obj, end, g.subs["var"], C) /\ Linked(p)
  BY <1>2, <1>4, MemoryFields DEF Mem, Others
<1>6. s \in Subareas /\ EndOf(s) = end + al
  BY <1>2 DEF Subareas, EndOf
<1>7. subs \in Seq(Subareas) /\ Len(subs) = Len(g.subs["var"]) + 1
  BY <1>5, <1>6, Appended
<1>8. g.dv # 0 => g.dvsize >= Min
  BY MemFacts DEF Victim
<1>9. c = [g EXCEPT !.free = end + n, !.subs = [g.subs EXCEPT !["var"] = subs]]
  BY <1>2 DEF Carved, Memory
<1> HIDE DEF al, subs
<1>10. /\ c \in Memory /\ c.dv = g.dv /\ c.dvsize = g.dvsize /\ c.obj = g.obj /\ c.bucket = g.bucket
       /\ c.free = end + n /\ c.subs["var"] = subs /\ c.subs["fix"] = g.subs["fix"]
       /\ c.freelist = g.freelist /\ c.full = g.full
  <2> DEFINE ss == [g.subs EXCEPT !["var"] = subs]
             e == end + n
  <2>1. g.subs \in [var : Seq(Subareas), fix : Seq(Subareas)]
    BY <1>2, MemoryFields
  <2>2. /\ ss \in [var : Seq(Subareas), fix : Seq(Subareas)]
        /\ ss["var"] = subs /\ ss["fix"] = g.subs["fix"]
    BY <1>7, <2>1
  <2>3. c = [g EXCEPT !.free = e, !.subs = ss] /\ e \in Nat
    BY <1>2, <1>9
  <2> HIDE DEF ss, e
  <2>4. /\ c \in Memory /\ c.dv = g.dv /\ c.dvsize = g.dvsize /\ c.obj = g.obj /\ c.bucket = g.bucket
        /\ c.free = e /\ c.subs = ss /\ c.freelist = g.freelist /\ c.full = g.full
    <3>1. g \in Memory
      BY <1>2
    <3>2. QED
      BY <2>2, <2>3, <3>1 DEF Memory
  <2>5. QED
    BY <2>2, <2>4 DEF e
<1> HIDE DEF c
<1>11. /\ put \in Memory /\ put.obj = p.obj /\ put.bucket = p.bucket
       /\ put.free = end + n /\ put.subs["var"] = subs /\ put.subs["fix"] = g.subs["fix"]
       /\ put.freelist = g.freelist /\ put.full = g.full
  <2>1. CASE g.dv = 0
    BY <1>10, <2>1
  <2>2. CASE g.dv # 0
    <3> DEFINE v == g.dv
               m == g.dvsize
    <3>1. put = Push(c, v, m) /\ p = Push(g, v, m)
      BY <1>8, <1>10, <2>2
    <3>2. v \in Nat /\ m \in 0..SegSize
      BY <1>2, <2>2, MemFacts DEF Victim, Memory
    <3>3. Push(c, v, m) \in Memory /\ Others(Push(c, v, m), c)
      BY <1>10, <3>2, PushFields
    <3>4. Push(c, v, m).obj = Push(g, v, m).obj /\ Push(c, v, m).bucket = Push(g, v, m).bucket
      BY <1>2, <1>10, PushAlike
    <3>5. QED
      BY <1>10, <3>1, <3>3, <3>4 DEF Others
  <2>3. QED
    BY <2>1, <2>2
<1> HIDE DEF put, p
<1>12. /\ DOMAIN f = DOMAIN p.obj \cup N /\ \A x \in N : f[x] = marked[x]
       /\ \A x \in DOMAIN p.obj : x \notin N => f[x] = p.obj[x]
  BY <1>11
<1>13. /\ \A x \in N : x \in Nat /\ marked[x] \in Heads /\ marked[x].mark \in {"start", "special", "end"}
       /\ marked[end].mark = "start" /\ marked[end].size = Min
       /\ marked[end + Min].mark = "special" /\ marked[end + Min].size = al - 2 * Min
       /\ marked[end + al - Min].mark = "end" /\ marked[end + al - Min].size = Min
       /\ \A x \in N : marked[x].mark = "special" => x = end + Min
  <2>1. /\ end + Min \in Nat /\ end + al - Min \in Nat /\ al - 2 * Min \in Nat
        /\ end # end + Min /\ end # end + al - Min /\ end + Min # end + al - Min
    BY <1>2, <1>3
  <2>2. Special(al - 2 * Min) \in Heads /\ Special(al - 2 * Min).mark = "special"
        /\ Special(al - 2 * Min).size = al - 2 * Min
    BY <2>1, NewHeads
  <2>3. \A m \in {"start", "end"} :
           LET e == [Used(Min) EXCEPT !.mark = m] IN e \in Heads /\ e.mark = m /\ e.size = Min
    BY <1>2, MarkerHeads
  <2> DEFINE sp == Special(al - 2 * Min)
             E(m) == [Used(Min) EXCEPT !.mark = m]
  <2>4. marked = [x \in N |-> IF x = end + Min THEN sp ELSE E(IF x = end THEN "start" ELSE "end")]
    OBVIOUS
  <2>5. \A m \in {"start", "end"} : E(m) \in Heads /\ E(m).mark = m /\ E(m).size = Min
    BY <2>3
  <2>6. marked[end] = E("start") /\ marked[end + Min] = sp /\ marked[end + al - Min] = E("end")
    BY <2>1, <2>4
  <2> HIDE DEF E, sp, marked
  <2>7. sp \in Heads /\ sp.mark = "special" /\ sp.size = al - 2 * Min
    BY <2>2 DEF sp
  <2>8. QED
    BY <1>2, <2>1, <2>5, <2>6, <2>7
<1> HIDE DEF marked
<1>14. f \in HeadMaps
  <2>1. DOMAIN f \subseteq Nat
    BY <1>5, <1>12, <1>13, HeadMapFacts
  <2>2. \A x \in DOMAIN f : f[x] \in Heads
    BY <1>5, <1>12, <1>13, HeadMapFacts
  <2>3. f \in [DOMAIN f -> Heads]
    BY <2>2
  <2>4. QED
    BY <2>1, <2>3, IsHeadMap
<1>15. \A x \in DOMAIN p.obj : x < end
  <2>1. \A x \in DOMAIN p.obj : p.obj[x].size >= Min /\ x + p.obj[x].size <= end
    BY <1>5 DEF Space
  <2>2. QED
    BY <1>2, <1>5, <2>1, HeadMapFacts
<1>16. \A x \in DOMAIN p.obj : x \notin N
  <2>1. \A x \in N : x >= end
    BY <1>2, <1>3
  <2>2. QED
    BY <1>2, <1>13, <1>15, <2>1
<1>17. Opened(p.obj, f, end, n, al)
  BY <1>3, <1>6, <1>12, <1>13, <1>16 DEF Opened
<1>18. Space(f, end + n, subs, C)
  BY <1>2, <1>5, <1>14, <1>17, SpaceExtend DEF subs
<1>19. /\ k \in Memory /\ Others(k, put) /\ k.obj = f /\ k.bucket = p.bucket
       /\ k.dv = end + Min /\ k.dvsize = al - 2 * Min
  <2> DEFINE v == end + Min
             m == al - 2 * Min
             bk == put.bucket
  <2>1. k = [put EXCEPT !.obj = f, !.bucket = bk, !.dv = v, !.dvsize = m]
    BY <1>11 DEF Memory
  <2>2. bk \in [Buckets -> Nat]
    BY <1>11, MemoryFields
  <2>3. v \in Nat /\ m \in Nat
    BY <1>2, <1>3
  <2>4. bk = p.bucket
    BY <1>11
  <2> HIDE DEF f, k, v, m, bk
  <2>5. /\ k \in Memory /\ Others(k, put) /\ k.obj = f /\ k.bucket = bk
        /\ k.dv = v /\ k.dvsize = m
    <3>1. put \in Memory
      BY <1>11
    <3>2. QED
      BY <1>14, <2>1, <2>2, <2>3, <3>1 DEF Memory, Others
  <2>6. QED
    BY <2>1, <2>4, <2>5 DEF v, m
<1> HIDE DEF k
<1>20. Mem(k, C)
  <2>1. Kept(p.obj, f, {}, {})
    <3>1. \A x \in DOMAIN p.obj : x \in DOMAIN f /\ f[x] = p.obj[x]
      BY <1>12, <1>16
    <3>2. \A x \in DOMAIN f : f[x].mark = "free" => x \in DOMAIN p.obj
      BY <1>12, <1>13
    <3>3. QED
      BY <3>1, <3>2 DEF Kept, Same
  <2>2. PICK L : Lists(p.obj, p.bucket, L, {})
    BY <1>5 DEF Linked
  <2>3. Lists(f, p.bucket, L, {})
    BY <2>1, <2>2, ListsSame
  <2>4. QED
    BY <1>2, <1>11, <1>18, <1>19, <2>3 DEF Mem, Linked, Others
<1>21. Victim(k)
  <2>1. end + Min \in DOMAIN f /\ f[end + Min].mark = "special" /\ f[end + Min].size = al - 2 * Min
        /\ end + Min # 0
    BY <1>2, <1>12, <1>13
  <2>2. \A x \in DOMAIN f : f[x].mark = "special" => x = end + Min
    BY <1>4, <1>12, <1>13
  <2>3. QED
    BY <1>19, <2>1, <2>2 DEF Victim
<1>22. UsedAlike(g.obj, k.obj, {})
  <2>1. UsedAlike(p.obj, f, {})
    BY <1>12, <1>13, <1>16 DEF UsedAlike, UsedAt
  <2>2. QED
    BY <1>4, <1>19, <2>1, UsedTrans
<1>23. Grown(k, g, C) /\ k.free = end + n
  <2>1. k.free = end + n
    BY <1>11, <1>19 DEF Others
  <2>2. /\ k.freelist = g.freelist /\ k.full = g.full /\ k.subs["fix"] = g.subs["fix"]
        /\ Len(k.subs["var"]) = Len(g.subs["var"]) + 1
    BY <1>7, <1>11, <1>19 DEF Others
  <2>3. QED
    BY <1>20, <1>21, <1>22, <2>1, <2>2 DEF Grown
<1>24. QED
  BY <1>1, <1>23 DEF c

\* extend_varlen_area.
LEMMA ExtendVarMem ==
  ASSUME NEW g, NEW C \in SUBSET Nat, Mem(g, C), Victim(g), NEW n \in Nat
  PROVE  LET k == ExtendVar(g, n) IN
           \/ k = [g EXCEPT !.full = TRUE]
           \/ Grown(k, g, C) /\ Len(g.subs["var"]) # MaxSubareas
<1> DEFINE minsize == IF n + Align + 2 * Min < Subarea THEN Subarea ELSE n + Align + 2 * Min
           size == NextSize(g, "var", minsize)
           k == IF size = 0 THEN [g EXCEPT !.full = TRUE]
                ELSE FreeSpace(Carved(g, "var", size), g.free, size)
<1>1. ExtendVar(g, n) = k
  BY DEF ExtendVar
<1>2. minsize \in Nat /\ minsize >= Subarea
  BY ConstantsNat DEF Align
<1> HIDE DEF minsize
<1>3. size # 0 => /\ size \in Nat /\ size >= minsize /\ g.free + size < SegSize
                  /\ Len(g.subs["var"]) # MaxSubareas
  BY <1>2, NextSizeFacts
<1> HIDE DEF size
<1>4. CASE size # 0
  <2>1. /\ size \in Nat /\ size >= 3 * Min /\ g.free + size <= SegSize
    BY <1>2, <1>3, <1>4, ConstantsNat, AllocAssumption, MemoryFields DEF Mem
  <2>2. Grown(FreeSpace(Carved(g, "var", size), g.free, size), g, C)
    BY <2>1, OpenMem
  <2>3. QED
    BY <1>1, <1>3, <1>4, <2>2
<1>5. QED
  BY <1>1, <1>4

-----------------------------------------------------------------------------
\* The users.

\* The heads f, the cells that are free and the users' objects are those of a state
\* with the cells C, and k are other heads that stay out of these cells.
Users(f, k, freelist, out, gone, C) ==
  /\ InUse(f, freelist, out, gone) /\ C = CellsOf(f, freelist, out)
  /\ \A c \in C : c \notin DOMAIN k

\* No piece begins where a cell does.
LEMMA CellsApart ==
  ASSUME NEW g, NEW C \in SUBSET Nat, Mem(g, C)
  PROVE  \A c \in C : c \notin DOMAIN g.obj
<1> SUFFICES ASSUME NEW c \in C, c \in DOMAIN g.obj PROVE FALSE
  OBVIOUS
<1>1. c \in Nat /\ g.obj[c].size \in Nat /\ g.obj[c].size >= Min /\ Min \in Nat \ {0} /\ FixLen \in Nat \ {0}
  BY MemFacts, ConstantsNat
<1>2. c + g.obj[c].size <= c \/ c + FixLen <= c
  BY DEF Mem, Space
<1>3. QED
  BY <1>1, <1>2

\* What the users have when nothing changes that they see, when they get an object,
\* and when they give one back.
LEMMA UsersSame ==
  ASSUME NEW f, NEW k, NEW freelist, NEW out, NEW gone, NEW C, Users(f, k, freelist, out, gone, C),
         UsedAlike(f, k, {})
  PROVE  /\ InUse(k, freelist, out, gone) /\ CellsOf(k, freelist, out) = C
         /\ CellUsers(k, out) = CellUsers(f, out)
<1>1. ASSUME NEW x \in out
      PROVE  /\ x.at \in DOMAIN f <=> x.at \in DOMAIN k
             /\ x.at \in DOMAIN k => k[x.at].mark = "used" /\ k[x.at].size = f[x.at].size
  BY DEF Users, InUse, CellsOf, CellUsers, UsedAlike, UsedAt
<1>2. CellUsers(k, out) = CellUsers(f, out)
  BY <1>1 DEF CellUsers
<1>3. CellsOf(k, freelist, out) = C
  BY <1>2 DEF Users, CellsOf
<1>4. /\ \A o \in gone : o \in DOMAIN k /\ k[o].mark = "used"
      /\ \A o \in DOMAIN k : k[o].mark = "used" => o \in gone \/ \E x \in out : x.at = o
  BY DEF Users, InUse, UsedAlike, UsedAt
<1>5. \A x \in out : IF x.at \in DOMAIN k
                    THEN k[x.at].mark = "used" /\ k[x.at].size = x.size /\ x.at \notin gone
                    ELSE x.size = FixLen /\ x.at \notin Range(freelist)
  BY <1>1 DEF Users, InUse
<1>6. QED
  BY <1>2, <1>3, <1>4, <1>5 DEF Users, InUse

LEMMA UsersTaken ==
  ASSUME NEW f, NEW k, NEW freelist, NEW out, NEW gone, NEW C, Users(f, k, freelist, out, gone, C),
         NEW at \in Nat, NEW n \in Nat, UsedAlike(f, k, {at}), ~ UsedAt(f, at), UsedAt(k, at), k[at].size = n
  PROVE  LET now == out \cup {[at |-> at, size |-> n]} IN
           /\ InUse(k, freelist, now, gone) /\ CellsOf(k, freelist, now) = C
           /\ CellUsers(k, now) = CellUsers(f, out)
<1> DEFINE z == [at |-> at, size |-> n]
           now == out \cup {z}
<1>1. z.at = at /\ z.size = n /\ z \in [at : Nat, size : Nat]
  OBVIOUS
<1> HIDE DEF z
<1>2. at \in DOMAIN k /\ k[at].mark = "used"
  BY DEF UsedAt
<1>3. ASSUME NEW x \in out
      PROVE  /\ x.at # at /\ (x.at \in DOMAIN f <=> x.at \in DOMAIN k)
             /\ x.at \in DOMAIN k => k[x.at].mark = "used" /\ k[x.at].size = f[x.at].size
  <2>1. x.at \in DOMAIN f => UsedAt(f, x.at)
    BY DEF Users, InUse, UsedAt
  <2>2. x.at \notin DOMAIN f => x.at \in C
    BY DEF Users, CellsOf, CellUsers
  <2>3. x.at \notin DOMAIN f => x.at \notin DOMAIN k
    BY <2>2 DEF Users
  <2>4. x.at # at
    BY <1>2, <2>1, <2>3
  <2>5. QED
    BY <2>1, <2>3, <2>4 DEF UsedAlike, UsedAt
<1>4. CellUsers(k, now) = CellUsers(f, out)
  BY <1>1, <1>2, <1>3 DEF CellUsers
<1>5. CellsOf(k, freelist, now) = C
  BY <1>4 DEF Users, CellsOf
<1>6. \A o \in gone : o \in DOMAIN k /\ k[o].mark = "used" /\ o # at
  BY DEF Users, InUse, UsedAlike, UsedAt
<1>7. \A o \in DOMAIN k : k[o].mark = "used" => o \in gone \/ \E x \in now : x.at = o
  <2> SUFFICES ASSUME NEW o \in DOMAIN k, k[o].mark = "used", o # at
               PROVE  o \in gone \/ \E x \in out : x.at = o
    BY <1>1
  <2>1. UsedAt(f, o)
    BY DEF UsedAlike, UsedAt
  <2>2. QED
    BY <2>1 DEF Users, InUse, UsedAt
<1>8. \A x \in now : IF x.at \in DOMAIN k
                    THEN k[x.at].mark = "used" /\ k[x.at].size = x.size /\ x.at \notin gone
                    ELSE x.size = FixLen /\ x.at \notin Range(freelist)
  <2>1. \A x \in out : IF x.at \in DOMAIN k
                    THEN k[x.at].mark = "used" /\ k[x.at].size = x.size /\ x.at \notin gone
                    ELSE x.size = FixLen /\ x.at \notin Range(freelist)
    BY <1>3 DEF Users, InUse
  <2>2. QED
    BY <1>1, <1>2, <1>6, <2>1
<1>9. /\ now \subseteq [at : Nat, size : Nat]
      /\ \A x, y \in now : x.at = y.at => x = y
  BY <1>1, <1>3 DEF Users, InUse
<1>10. InUse(k, freelist, now, gone)
  BY <1>6, <1>7, <1>8, <1>9 DEF Users, InUse
<1>11. QED
  BY <1>4, <1>5, <1>10 DEF z

LEMMA UsersGone ==
  ASSUME NEW f, NEW k, NEW freelist, NEW out, NEW gone, NEW C, Users(f, k, freelist, out, gone, C),
         NEW z \in out, NEW at, at = z.at, UsedAlike(f, k, {at}), UsedAt(f, at), ~ UsedAt(k, at)
  PROVE  /\ InUse(k, freelist, out \ {z}, gone) /\ CellsOf(k, freelist, out \ {z}) = C
         /\ CellUsers(k, out \ {z}) = CellUsers(f, out)
<1> DEFINE now == out \ {z}
<1>1. ASSUME NEW x \in now
      PROVE  /\ x.at # at /\ (x.at \in DOMAIN f <=> x.at \in DOMAIN k)
             /\ x.at \in DOMAIN k => k[x.at].mark = "used" /\ k[x.at].size = f[x.at].size
  <2>1. x.at # at
    BY DEF Users, InUse
  <2>2. x.at \notin DOMAIN f => x.at \notin DOMAIN k
    BY DEF Users, CellsOf, CellUsers
  <2>3. x.at \in DOMAIN f => UsedAt(f, x.at)
    BY DEF Users, InUse, UsedAt
  <2>4. QED
    BY <2>1, <2>2, <2>3 DEF UsedAlike, UsedAt
<1>2. z.at \in DOMAIN f
  BY DEF UsedAt
<1>3. CellUsers(k, now) = CellUsers(f, out)
  BY <1>1, <1>2 DEF CellUsers
<1>4. CellsOf(k, freelist, now) = C
  BY <1>3 DEF Users, CellsOf
<1>5. at \notin gone
  BY <1>2 DEF Users, InUse
<1>6. \A o \in gone : o \in DOMAIN k /\ k[o].mark = "used"
  BY <1>5 DEF Users, InUse, UsedAlike, UsedAt
<1>7. \A o \in DOMAIN k : k[o].mark = "used" => o \in gone \/ \E x \in now : x.at = o
  <2> SUFFICES ASSUME NEW o \in DOMAIN k, k[o].mark = "used"
               PROVE  o \in gone \/ \E x \in now : x.at = o
    OBVIOUS
  <2>1. o # at
    BY DEF UsedAt
  <2>2. UsedAt(f, o)
    BY <2>1 DEF UsedAlike, UsedAt
  <2>3. QED
    BY <2>1, <2>2 DEF Users, InUse, UsedAt
<1>8. \A x \in now : IF x.at \in DOMAIN k
                    THEN k[x.at].mark = "used" /\ k[x.at].size = x.size /\ x.at \notin gone
                    ELSE x.size = FixLen /\ x.at \notin Range(freelist)
  BY <1>1 DEF Users, InUse
<1>9. InUse(k, freelist, now, gone)
  BY <1>6, <1>7, <1>8 DEF Users, InUse
<1>10. QED
  BY <1>3, <1>4, <1>9

-----------------------------------------------------------------------------
\* The steps.

\* The memory after k extensions is what one extension makes of the one before.
LEMMA ExtendedFacts ==
  ASSUME NEW n
  PROVE  LET f == Extended(n) IN
           f[0] = h /\ \A k \in 1..MaxSubareas : f[k] = ExtendVar(f[k - 1], n)
<1> DEFINE E(g) == ExtendVar(g, n)
           At(f, k) == IF k = 0 THEN h ELSE E(f[k - 1])
           Fun(m) == \E f : f = [k \in 0..m |-> At(f, k)]
           T == {m \in Nat : ~ Fun(m)}
           F == Extended(n)
<1> HIDE DEF E
<1>1. T = {}
  <2> SUFFICES ASSUME T # {} PROVE FALSE
    OBVIOUS
  <2>1. PICK m \in T : \A j \in T : m <= j
    <3>1. T \subseteq Nat
      OBVIOUS
    <3> HIDE DEF T
    <3>2. QED
      BY <3>1, LeastElement
  <2>2. m \in Nat /\ ~ Fun(m)
    OBVIOUS
  <2>3. CASE m = 0
    <3> DEFINE f == [k \in 0..0 |-> h]
    <3>1. f = [k \in 0..0 |-> At(f, k)]
      OBVIOUS
    <3> HIDE DEF f
    <3>2. Fun(0)
      BY <3>1
    <3>3. QED
      BY <2>2, <2>3, <3>2
  <2>4. CASE m # 0
    <3>1. m - 1 \in Nat /\ Fun(m - 1)
      <4> HIDE DEF Fun
      <4>1. m - 1 \in Nat /\ ~ (m <= m - 1)
        BY <2>2, <2>4
      <4>2. m - 1 \notin T
        BY <2>1, <4>1
      <4>3. QED
        BY <4>1, <4>2
    <3>2. PICK g : g = [k \in 0..(m - 1) |-> At(g, k)]
      BY <3>1
    <3> DEFINE f == [k \in 0..m |-> IF k = m THEN E(g[m - 1]) ELSE g[k]]
    <3>3. \A k \in 0..m : f[k] = At(f, k)
      <4> SUFFICES ASSUME NEW k \in 0..m PROVE f[k] = At(f, k)
        OBVIOUS
      <4>1. CASE k = m
        BY <2>2, <2>4, <4>1
      <4>2. CASE k # m
        <5>1. k \in 0..(m - 1) /\ f[k] = g[k]
          BY <2>2, <4>2
        <5>2. g[k] = At(g, k)
          BY <3>2, <5>1
        <5>3. k # 0 => f[k - 1] = g[k - 1]
          BY <2>2, <5>1
        <5>4. QED
          BY <5>1, <5>2, <5>3
      <4>3. QED
        BY <4>1, <4>2
    <3>4. f = [k \in 0..m |-> f[k]]
      OBVIOUS
    <3> HIDE DEF f
    <3>5. f = [k \in 0..m |-> At(f, k)]
      BY <3>3, <3>4
    <3>6. Fun(m)
      BY <3>5
    <3>7. QED
      BY <2>2, <3>6
  <2>5. QED
    BY <2>3, <2>4
<1>2. Fun(MaxSubareas)
  BY <1>1, ConstantsNat
<1>3. F = CHOOSE f : f = [k \in 0..MaxSubareas |-> At(f, k)]
  BY DEF Extended, E
<1>4. F = [k \in 0..MaxSubareas |-> At(F, k)]
  BY <1>2, <1>3
<1> HIDE DEF F
<1>5. F[0] = h /\ \A k \in 1..MaxSubareas : F[k] = E(F[k - 1])
  BY <1>4, ConstantsNat
<1>6. QED
  BY <1>5 DEF E, F

\* The memory g after k extensions of the area, or fewer if it could not be extended.
Later(g, k, C) ==
  /\ Mem(g, C) /\ Victim(g) /\ UsedAlike(h.obj, g.obj, {})
  /\ g.freelist = h.freelist /\ g.subs["fix"] = h.subs["fix"]
  /\ Len(g.subs["var"]) \in 1..MaxSubareas
  /\ g.full \/ Len(g.subs["var"]) = Len(h.subs["var"]) + k

\* The mark that an area cannot be extended is no part of the memory.
LEMMA FullMem ==
  ASSUME NEW g, NEW C, Mem(g, C), Victim(g), NEW v \in BOOLEAN
  PROVE  LET k == [g EXCEPT !.full = v] IN
           /\ Mem(k, C) /\ Victim(k) /\ k.full = v
           /\ k.obj = g.obj /\ k.subs = g.subs /\ k.freelist = g.freelist /\ k.free = g.free
<1> DEFINE k == [g EXCEPT !.full = v]
<1>1. g \in Memory
  BY DEF Mem
<1>2. /\ k \in Memory /\ k.full = v /\ k.obj = g.obj /\ k.subs = g.subs /\ k.freelist = g.freelist
      /\ k.free = g.free /\ k.bucket = g.bucket /\ k.dv = g.dv /\ k.dvsize = g.dvsize
  BY <1>1 DEF Memory
<1> HIDE DEF k
<1>3. Mem(k, C)
  BY <1>2 DEF Mem, Linked
<1>4. Victim(k)
  BY <1>2 DEF Victim
<1>5. QED
  BY <1>2, <1>3, <1>4 DEF k

LEMMA LaterStep ==
  ASSUME NEW C \in SUBSET Nat, NEW g, NEW k \in Nat, Later(g, k, C), NEW n \in Nat
  PROVE  Later(ExtendVar(g, n), k + 1, C)
<1> DEFINE x == ExtendVar(g, n)
           y == [g EXCEPT !.full = TRUE]
<1>1. Mem(g, C) /\ Victim(g) /\ g.full \in BOOLEAN /\ Len(g.subs["var"]) \in 1..MaxSubareas
  BY MemoryFields DEF Later, Mem
<1>2. CASE x = y
  <2>1. /\ Mem(y, C) /\ Victim(y) /\ y.full = TRUE
        /\ y.obj = g.obj /\ y.subs = g.subs /\ y.freelist = g.freelist /\ y.free = g.free
    BY <1>1, FullMem
  <2> HIDE DEF x, y
  <2>2. QED
    BY <1>2, <2>1 DEF Later, x
<1>3. CASE Grown(x, g, C) /\ Len(g.subs["var"]) # MaxSubareas
  <2> HIDE DEF x
  <2>1. UsedAlike(h.obj, x.obj, {})
    BY <1>3, UsedTrans DEF Later, Grown
  <2>2. /\ Len(x.subs["var"]) = Len(g.subs["var"]) + 1 /\ x.full = g.full
        /\ x.freelist = g.freelist /\ x.subs["fix"] = g.subs["fix"]
        /\ Mem(x, C) /\ Victim(x)
    BY <1>3 DEF Grown
  <2>3. Len(x.subs["var"]) \in 1..MaxSubareas
    BY <1>1, <1>3, <2>2, ConstantsNat
  <2>4. x.full \/ Len(x.subs["var"]) = Len(h.subs["var"]) + (k + 1)
    <3>1. CASE g.full
      BY <2>2, <3>1
    <3>2. CASE Len(g.subs["var"]) = Len(h.subs["var"]) + k
      <4> DEFINE a == Len(x.subs["var"])
                 b == Len(g.subs["var"])
                 c == Len(h.subs["var"])
      <4>1. a = b + 1 /\ b = c + k /\ b \in Nat /\ c \in Nat
        BY <1>1, <2>2, <3>2, ConstantsNat
      <4> HIDE DEF a, b, c
      <4>2. a = c + (k + 1)
        BY <4>1
      <4>3. QED
        BY <4>2 DEF a, c
    <3>3. QED
      BY <3>1, <3>2 DEF Later
  <2>5. QED
    BY <2>1, <2>2, <2>3, <2>4 DEF Later, x
<1>4. QED
  BY <1>1, <1>2, <1>3, ExtendVarMem

\* wg_alloc_gints and wg_alloc_fixlen_object find the memory as the last call left it.
LEMMA Ready ==
  ASSUME IInv
  PROVE  LET C == CellsOf(h.obj, h.freelist, live) IN
           /\ C \in SUBSET Nat /\ Mem(h, C) /\ Victim(h) /\ ~ h.full
           /\ InUse(h.obj, h.freelist, live, lost)
           /\ Later(h, 0, C)
<1> DEFINE C == CellsOf(h.obj, h.freelist, live)
<1>1. Mem(h, C) /\ Victim(h) /\ ~ h.full /\ InUse(h.obj, h.freelist, live, lost)
  BY DEF IInv, Sound, Mem
<1>2. C \in SUBSET Nat
  <2>1. h.freelist \in Seq(Nat)
    BY <1>1, MemoryFields DEF Mem
  <2>2. Range(h.freelist) \subseteq Nat
    BY <2>1 DEF Range
  <2>3. live \subseteq [at : Nat, size : Nat]
    BY <1>1 DEF InUse
  <2>4. QED
    BY <2>2, <2>3 DEF CellsOf, CellUsers
<1> HIDE DEF C
<1>3. UsedAlike(h.obj, h.obj, {})
  BY DEF UsedAlike
<1>4. Len(h.subs["var"]) \in 1..MaxSubareas
  BY DEF IInv, Sound
<1>5. Len(h.subs["var"]) = Len(h.subs["var"]) + 0
  BY <1>4, ConstantsNat
<1>6. Later(h, 0, C)
  BY <1>1, <1>3, <1>4, <1>5 DEF Later
<1>7. QED
  BY <1>1, <1>2, <1>6 DEF C

LEMMA ExtendedMem ==
  ASSUME IInv, NEW C, C = CellsOf(h.obj, h.freelist, live), NEW n \in Nat
  PROVE  \A k \in 0..MaxSubareas : Later(Extended(n)[k], k, C)
<1> DEFINE F == Extended(n)
           T == {k \in 0..MaxSubareas : ~ Later(F[k], k, C)}
<1>1. F[0] = h /\ \A k \in 1..MaxSubareas : F[k] = ExtendVar(F[k - 1], n)
  BY ExtendedFacts
<1>2. C \in SUBSET Nat /\ Later(h, 0, C)
  BY Ready
<1> HIDE DEF F
<1> SUFFICES ASSUME T # {} PROVE FALSE
  BY DEF F
<1>3. PICK m \in T : \A j \in T : m <= j
  <2>1. T \subseteq Nat
    BY ConstantsNat
  <2> HIDE DEF T
  <2>2. QED
    BY <2>1, LeastElement
<1>4. m \in 0..MaxSubareas /\ ~ Later(F[m], m, C)
  OBVIOUS
<1>5. m # 0
  BY <1>1, <1>2, <1>4
<1>6. m - 1 \in 0..MaxSubareas /\ m \in 1..MaxSubareas /\ ~ (m <= m - 1) /\ m - 1 \in Nat /\ (m - 1) + 1 = m
  BY <1>4, <1>5, ConstantsNat
<1>7. Later(F[m - 1], m - 1, C)
  BY <1>3, <1>6
<1>8. Later(F[m], m, C)
  <2> DEFINE g == F[m - 1]
             k == m - 1
  <2>1. F[m] = ExtendVar(g, n) /\ Later(g, k, C) /\ k \in Nat /\ k + 1 = m
    BY <1>1, <1>6, <1>7
  <2> HIDE DEF g, k
  <2>2. QED
    BY <1>2, <2>1, LaterStep
<1>9. QED
  BY <1>4, <1>8

\* The search ends: sooner or later the array of the subareas is full.
LEMMA SearchEnds ==
  ASSUME IInv, NEW n \in Nat
  PROVE  LET F == Extended(n)
             P(k) == F[k].full \/ Find(F[k], n).at # 0
             k == CHOOSE k \in 0..MaxSubareas :
                    /\ F[k].full \/ Find(F[k], n).at # 0
                    /\ \A j \in 0..(k - 1) : ~F[j].full /\ Find(F[j], n).at = 0
         IN k \in 0..MaxSubareas /\ (F[k].full \/ Find(F[k], n).at # 0)
<1> DEFINE F == Extended(n)
           P(k) == F[k].full \/ Find(F[k], n).at # 0
           T == {k \in 0..MaxSubareas : P(k)}
           C == CellsOf(h.obj, h.freelist, live)
<1> HIDE DEF F
<1>1. F[MaxSubareas].full
  <2> DEFINE g == F[MaxSubareas]
  <2>1. Later(g, MaxSubareas, C)
    BY ExtendedMem, ConstantsNat DEF F
  <2>2. Len(g.subs["var"]) \in 1..MaxSubareas /\ Len(h.subs["var"]) \in 1..MaxSubareas
    BY <2>1 DEF Later, IInv, Sound
  <2> DEFINE a == Len(g.subs["var"])
             b == Len(h.subs["var"])
  <2>3. g.full \/ a = b + MaxSubareas
    BY <2>1 DEF Later
  <2> HIDE DEF g, a, b
  <2>4. a # b + MaxSubareas
    BY <2>2, ConstantsNat DEF a, b
  <2>5. QED
    BY <2>3, <2>4 DEF g
<1>2. MaxSubareas \in T
  BY <1>1, ConstantsNat
<1>3. PICK m \in T : \A j \in T : m <= j
  <2>1. T \subseteq Nat
    BY ConstantsNat
  <2> HIDE DEF T
  <2>2. QED
    BY <1>2, <2>1, LeastElement
<1>4. m \in 0..MaxSubareas /\ P(m) /\ \A j \in 0..(m - 1) : ~ P(j)
  <2>1. m \in 0..MaxSubareas /\ P(m)
    OBVIOUS
  <2>2. \A j \in 0..(m - 1) : j \in 0..MaxSubareas /\ ~ (m <= j)
    BY <2>1, ConstantsNat
  <2> HIDE DEF P
  <2>3. QED
    BY <1>3, <2>1, <2>2
<1>5. \A j \in 0..(m - 1) : ~F[j].full /\ Find(F[j], n).at = 0
  BY <1>4
<1>6. QED
  BY <1>4, <1>5 DEF F

\* What a call of wg_alloc_gints does: an object of n gints is handed out at an offset,
\* or none is.
HandedOut(k, C, at, n) ==
  /\ Mem(k, C) /\ Victim(k) /\ ~ k.full
  /\ k.freelist = h.freelist /\ k.subs["fix"] = h.subs["fix"]
  /\ Len(k.subs["var"]) \in 1..MaxSubareas
  /\ at = 0 => UsedAlike(h.obj, k.obj, {}) /\ live' = live
  /\ at # 0 => /\ UsedAlike(h.obj, k.obj, {at})
               /\ ~ UsedAt(h.obj, at) /\ UsedAt(k.obj, at) /\ k.obj[at].size = n
               /\ live' = live \cup {[at |-> at, size |-> n]}

LEMMA AllocGintsMem ==
  ASSUME IInv, NEW r \in Requests, AllocGints(r),
         NEW C, C = CellsOf(h.obj, h.freelist, live)
  PROVE  \E at \in Nat, n \in Nat : n >= Min /\ HandedOut(h', C, at, n)
<1> DEFINE n == IF r <= Min THEN Min ELSE r
           F == Extended(n)
           c == CHOOSE k \in 0..MaxSubareas :
                    /\ F[k].full \/ Find(F[k], n).at # 0
                    /\ \A j \in 0..(k - 1) : ~F[j].full /\ Find(F[j], n).at = 0
           g == F[c]
           found == Find(g, n)
           k == [(IF g.full THEN g ELSE found.mem) EXCEPT !.full = FALSE]
<1>1. /\ h' = k
      /\ live' = IF g.full THEN live ELSE live \cup {[at |-> found.at, size |-> n]}
  BY DEF AllocGints
<1>2. n \in Nat /\ n >= Min
  BY ConstantsNat, AllocAssumption
<1> HIDE DEF n
<1>3. c \in 0..MaxSubareas /\ (g.full \/ found.at # 0)
  BY <1>2, SearchEnds
<1> HIDE DEF c
<1>4. Later(g, c, C)
  BY <1>2, <1>3, ExtendedMem
<1>5. C \in SUBSET Nat /\ ~ h.full
  BY Ready
<1> HIDE DEF g, found
<1>6. /\ Mem(g, C) /\ Victim(g) /\ UsedAlike(h.obj, g.obj, {})
      /\ g.freelist = h.freelist /\ g.subs["fix"] = h.subs["fix"]
      /\ Len(g.subs["var"]) \in 1..MaxSubareas
  BY <1>4 DEF Later
<1>7. CASE g.full
  <2> DEFINE x == [g EXCEPT !.full = FALSE]
  <2>1. x = h' /\ live' = live
    BY <1>1, <1>7
  <2>2. /\ Mem(x, C) /\ Victim(x) /\ x.full = FALSE
        /\ x.obj = g.obj /\ x.subs = g.subs /\ x.freelist = g.freelist
    BY <1>6, FullMem
  <2> HIDE DEF x, k
  <2>3. HandedOut(x, C, 0, n)
    BY <1>6, <2>1, <2>2 DEF HandedOut
  <2>4. QED
    BY <1>2, <2>1, <2>3
<1>8. CASE ~ g.full
  <2> DEFINE m == found.mem
             at == found.at
             x == [m EXCEPT !.full = FALSE]
  <2>1. x = h' /\ live' = live \cup {[at |-> at, size |-> n]} /\ at # 0
    BY <1>1, <1>3, <1>8
  <2>2. Taken(m, g, C, at, n)
    BY <1>2, <1>5, <1>6, <2>1, FindMem DEF found
  <2>3. /\ Mem(m, C) /\ Victim(m) /\ Others(m, g) /\ UsedAlike(g.obj, m.obj, {at})
        /\ at \in DOMAIN g.obj /\ ~ UsedAt(g.obj, at)
        /\ UsedAt(m.obj, at) /\ m.obj[at].size = n
    BY <2>2 DEF Taken
  <2> HIDE DEF m
  <2>4. /\ Mem(x, C) /\ Victim(x) /\ x.full = FALSE
        /\ x.obj = m.obj /\ x.subs = m.subs /\ x.freelist = m.freelist
    BY <2>3, FullMem
  <2>5. at \in Nat
    BY <1>6, <2>3, MemFacts
  <2> HIDE DEF x, k, at
  <2> DEFINE P == {at}
             E == {}
  <2>6. UsedAlike(h.obj, m.obj, P)
    <3>1. UsedAlike(h.obj, g.obj, E) /\ UsedAlike(g.obj, m.obj, P) /\ E \cup P = P
      BY <1>6, <2>3
    <3> HIDE DEF P, E
    <3>2. QED
      BY <3>1, UsedTrans
  <2>7. ~ UsedAt(h.obj, at)
    BY <1>6, <2>3 DEF UsedAlike
  <2>8. HandedOut(x, C, at, n)
    BY <1>6, <2>1, <2>3, <2>4, <2>6, <2>7 DEF HandedOut, Others
  <2>9. QED
    BY <1>2, <2>1, <2>5, <2>8
<1>9. QED
  BY <1>7, <1>8

LEMMA AllocGintsStep ==
  ASSUME IInv, NEW r \in Requests, AllocGints(r)
  PROVE  IInv'
<1> DEFINE C == CellsOf(h.obj, h.freelist, live)
<1>1. PICK at \in Nat, n \in Nat : n >= Min /\ HandedOut(h', C, at, n)
  BY AllocGintsMem
<1>2. C \in SUBSET Nat /\ InUse(h.obj, h.freelist, live, lost)
  BY Ready
<1>3. lost' = lost
  BY DEF AllocGints
<1>4. \A c \in C : c \notin DOMAIN h'.obj
  BY <1>1, <1>2, CellsApart DEF HandedOut
<1>5. Users(h.obj, h'.obj, h.freelist, live, lost, C)
  BY <1>2, <1>4 DEF Users
<1> HIDE DEF C
<1>6. h'.freelist = h.freelist /\ h'.subs["fix"] = h.subs["fix"]
  BY <1>1 DEF HandedOut
<1>7. /\ InUse(h'.obj, h.freelist, live', lost) /\ CellsOf(h'.obj, h.freelist, live') = C
      /\ CellUsers(h'.obj, live') = CellUsers(h.obj, live)
  <2>1. CASE at = 0
    BY <1>1, <1>5, <2>1, UsersSame DEF HandedOut
  <2>2. CASE at # 0
    <3> DEFINE k == h'.obj
               out == live'
               now == live \cup {[at |-> at, size |-> n]}
    <3>1. /\ UsedAlike(h.obj, k, {at}) /\ ~ UsedAt(h.obj, at) /\ UsedAt(k, at) /\ k[at].size = n
          /\ out = now /\ Users(h.obj, k, h.freelist, live, lost, C)
      BY <1>1, <1>5, <2>2 DEF HandedOut
    <3> HIDE DEF k, out
    <3>2. /\ InUse(k, h.freelist, now, lost) /\ CellsOf(k, h.freelist, now) = C
          /\ CellUsers(k, now) = CellUsers(h.obj, live)
      BY <3>1, UsersTaken
    <3>3. QED
      BY <3>1, <3>2 DEF k, out
  <2>3. QED
    BY <2>1, <2>2
<1>8. IsFiniteSet(live')
  <2>1. IsFiniteSet(live)
    BY DEF IInv, Sound
  <2>2. IsFiniteSet(live \cup {[at |-> at, size |-> n]})
    BY <2>1, FS_AddElement
  <2>3. QED
    BY <1>1, <2>1, <2>2 DEF HandedOut
<1>9. Cardinality(CellUsers(h'.obj, live')) + Len(h'.freelist) = CellCount(h'.subs["fix"])
  BY <1>6, <1>7 DEF IInv, Sound
<1>10. /\ Mem(h', C) /\ Victim(h') /\ ~ h'.full /\ Len(h'.subs["var"]) \in 1..MaxSubareas
  BY <1>1 DEF HandedOut
<1>11. QED
  BY <1>3, <1>6, <1>7, <1>8, <1>9, <1>10 DEF IInv, Sound, Mem

\* wg_free_object.
LEMMA FreeObjectStep ==
  ASSUME IInv, NEW x \in live, FreeObject(x)
  PROVE  IInv'
<1> DEFINE C == CellsOf(h.obj, h.freelist, live)
           o == x.at
<1>1. /\ C \in SUBSET Nat /\ Mem(h, C) /\ Victim(h) /\ ~ h.full
      /\ InUse(h.obj, h.freelist, live, lost)
  BY Ready
<1>2. UsedAt(h.obj, o) /\ live' = live \ {x}
  BY <1>1 DEF FreeObject, InUse, UsedAt
<1>3. IsFiniteSet(live')
  BY <1>2, FS_RemoveElement DEF IInv, Sound
<1>4. CASE Refused(o)
  <2>1. lost' = lost \cup {o} /\ h' = h
    BY <1>4 DEF FreeObject
  <2>2. CellUsers(h.obj, live') = CellUsers(h.obj, live)
    BY <1>2 DEF CellUsers, UsedAt
  <2>3. CellsOf(h.obj, h.freelist, live') = C
    BY <2>2 DEF CellsOf
  <2>4. InUse(h.obj, h.freelist, live', lost')
    <3>1. \A y \in live' : y \in live /\ y.at # o
      BY <1>1, <1>2 DEF InUse
    <3>2. \A y \in live' : IF y.at \in DOMAIN h.obj
                    THEN h.obj[y.at].mark = "used" /\ h.obj[y.at].size = y.size /\ y.at \notin lost'
                    ELSE y.size = FixLen /\ y.at \notin Range(h.freelist)
      BY <1>1, <2>1, <3>1 DEF InUse
    <3>3. \A z \in lost' : z \in DOMAIN h.obj /\ h.obj[z].mark = "used"
      BY <1>1, <1>2, <2>1 DEF InUse, UsedAt
    <3>4. \A z \in DOMAIN h.obj : h.obj[z].mark = "used" => z \in lost' \/ \E y \in live' : y.at = z
      BY <1>1, <1>2, <2>1 DEF InUse
    <3>5. QED
      BY <1>1, <3>1, <3>2, <3>3, <3>4 DEF InUse
  <2>5. QED
    BY <1>3, <2>1, <2>2, <2>3, <2>4 DEF IInv, Sound
<1>5. CASE ~ Refused(o)
  <2>1. lost' = lost /\ h' = Freed(o)
    BY <1>5 DEF FreeObject
  <2> DEFINE k == Freed(o)
  <2>2. Gone(k, h, C, o)
    BY <1>1, <1>2, <1>5, FreedMem
  <2> HIDE DEF k
  <2>3. /\ Mem(k, C) /\ Victim(k) /\ k.free = h.free /\ k.subs = h.subs /\ k.freelist = h.freelist
        /\ k.full = h.full /\ UsedAlike(h.obj, k.obj, {o}) /\ ~ UsedAt(k.obj, o)
    BY <2>2 DEF Gone, Others
  <2>4. \A c \in C : c \notin DOMAIN k.obj
    BY <1>1, <2>3, CellsApart
  <2>5. Users(h.obj, k.obj, h.freelist, live, lost, C)
    BY <1>1, <2>4 DEF Users
  <2> HIDE DEF C
  <2>6. /\ InUse(k.obj, h.freelist, live \ {x}, lost) /\ CellsOf(k.obj, h.freelist, live \ {x}) = C
        /\ CellUsers(k.obj, live \ {x}) = CellUsers(h.obj, live)
    BY <1>2, <2>3, <2>5, UsersGone
  <2>7. h' = k
    BY <2>1 DEF k
  <2>8. QED
    BY <1>1, <1>2, <1>3, <2>1, <2>3, <2>6, <2>7 DEF IInv, Sound, Mem
<1>6. QED
  BY <1>4, <1>5

\* The cells in the first subareas.
LEMMA CellSumsFacts ==
  ASSUME NEW s \in Seq(Subareas)
  PROVE  /\ CellSums(s)[0] = 0
         /\ \A i \in 1..Len(s) : CellSums(s)[i] = CellSums(s)[i - 1] + (s[i].size \div FixLen)
<1> DEFINE c(i) == s[i].size \div FixLen
           At(f, i) == IF i = 0 THEN 0 ELSE f[i - 1] + c(i)
           Fun(m) == \E f : f = [i \in 0..m |-> At(f, i)]
           T == {m \in Nat : ~ Fun(m)}
           F == CellSums(s)
<1> HIDE DEF c
<1>1. T = {}
  <2> SUFFICES ASSUME T # {} PROVE FALSE
    OBVIOUS
  <2>1. PICK m \in T : \A j \in T : m <= j
    <3>1. T \subseteq Nat
      OBVIOUS
    <3> HIDE DEF T
    <3>2. QED
      BY <3>1, LeastElement
  <2>2. m \in Nat /\ ~ Fun(m)
    OBVIOUS
  <2>3. CASE m = 0
    <3> DEFINE f == [i \in 0..0 |-> 0]
    <3>1. f = [i \in 0..0 |-> At(f, i)]
      OBVIOUS
    <3> HIDE DEF f
    <3>2. Fun(0)
      BY <3>1
    <3>3. QED
      BY <2>2, <2>3, <3>2
  <2>4. CASE m # 0
    <3>1. m - 1 \in Nat /\ Fun(m - 1)
      <4> HIDE DEF Fun
      <4>1. m - 1 \in Nat /\ ~ (m <= m - 1)
        BY <2>2, <2>4
      <4>2. m - 1 \notin T
        BY <2>1, <4>1
      <4>3. QED
        BY <4>1, <4>2
    <3>2. PICK g : g = [i \in 0..(m - 1) |-> At(g, i)]
      BY <3>1
    <3> DEFINE f == [i \in 0..m |-> IF i = m THEN g[m - 1] + c(m) ELSE g[i]]
    <3>3. \A i \in 0..m : f[i] = At(f, i)
      <4> SUFFICES ASSUME NEW i \in 0..m PROVE f[i] = At(f, i)
        OBVIOUS
      <4>1. CASE i = m
        BY <2>2, <2>4, <4>1
      <4>2. CASE i # m
        <5>1. i \in 0..(m - 1) /\ f[i] = g[i]
          BY <2>2, <4>2
        <5>2. g[i] = At(g, i)
          BY <3>2, <5>1
        <5>3. i # 0 => f[i - 1] = g[i - 1]
          BY <2>2, <5>1
        <5>4. QED
          BY <5>1, <5>2, <5>3
      <4>3. QED
        BY <4>1, <4>2
    <3>4. f = [i \in 0..m |-> f[i]]
      OBVIOUS
    <3> HIDE DEF f
    <3>5. f = [i \in 0..m |-> At(f, i)]
      BY <3>3, <3>4
    <3>6. Fun(m)
      BY <3>5
    <3>7. QED
      BY <2>2, <3>6
  <2>5. QED
    BY <2>3, <2>4
<1>2. Len(s) \in Nat
  OBVIOUS
<1>3. Fun(Len(s))
  BY <1>1, <1>2
<1>4. F = CHOOSE f : f = [i \in 0..Len(s) |-> At(f, i)]
  BY DEF CellSums, c
<1>5. F = [i \in 0..Len(s) |-> At(F, i)]
  BY <1>3, <1>4
<1> HIDE DEF F
<1>6. F[0] = 0 /\ \A i \in 1..Len(s) : F[i] = F[i - 1] + c(i)
  BY <1>2, <1>5
<1>7. QED
  BY <1>6 DEF c, F

\* One more subarea has its cells more.
LEMMA CellCountAppend ==
  ASSUME NEW s \in Seq(Subareas), NEW x \in Subareas
  PROVE  /\ CellCount(Append(s, x)) = CellCount(s) + (x.size \div FixLen)
         /\ CellCount(s) \in Nat
<1> DEFINE t == Append(s, x)
           F == CellSums(s)
           G == CellSums(t)
           n == Len(s)
           T == {i \in 0..n : ~ (F[i] \in Nat /\ G[i] = F[i])}
<1>1. /\ t \in Seq(Subareas) /\ Len(t) = n + 1 /\ n \in Nat
      /\ t[n + 1] = x /\ \A i \in 1..n : t[i] = s[i]
  BY Appended
<1> HIDE DEF t
<1>2. F[0] = 0 /\ \A i \in 1..n : F[i] = F[i - 1] + (s[i].size \div FixLen)
  BY CellSumsFacts
<1>3. G[0] = 0 /\ \A i \in 1..(n + 1) : G[i] = G[i - 1] + (t[i].size \div FixLen)
  BY <1>1, CellSumsFacts
<1>4. \A i \in 1..n : s[i].size \div FixLen \in Nat
  <2> SUFFICES ASSUME NEW i \in 1..n PROVE s[i].size \div FixLen \in Nat
    OBVIOUS
  <2>1. s[i] \in Subareas /\ FixLen \in Nat \ {0}
    BY ConstantsNat
  <2>2. s[i].size \in Nat
    BY <2>1 DEF Subareas
  <2>3. QED
    BY <2>1, <2>2
<1> HIDE DEF F, G, n
<1>5. T = {}
  <2> SUFFICES ASSUME T # {} PROVE FALSE
    OBVIOUS
  <2>1. PICK m \in T : \A j \in T : m <= j
    <3>1. T \subseteq Nat
      BY <1>1
    <3> HIDE DEF T
    <3>2. QED
      BY <3>1, LeastElement
  <2>2. m \in 0..n /\ m # 0
    BY <1>2, <1>3
  <2>3. m \in 1..n /\ m - 1 \in 0..n /\ ~ (m <= m - 1)
    BY <1>1, <2>2
  <2>4. F[m - 1] \in Nat /\ G[m - 1] = F[m - 1]
    BY <2>1, <2>3
  <2>5. F[m] = F[m - 1] + (s[m].size \div FixLen) /\ G[m] = G[m - 1] + (s[m].size \div FixLen)
    <3>1. m \in 1..(n + 1) /\ t[m] = s[m]
      BY <1>1, <2>3
    <3>2. QED
      BY <1>2, <1>3, <2>3, <3>1
  <2>6. F[m] \in Nat /\ G[m] = F[m]
    BY <1>4, <2>3, <2>4, <2>5
  <2>7. QED
    BY <2>6
<1>6. G[n] = F[n] /\ F[n] \in Nat
  BY <1>1, <1>5
<1>7. G[n + 1] = G[n] + (x.size \div FixLen)
  <2>1. n + 1 \in 1..(n + 1) /\ (n + 1) - 1 = n
    BY <1>1
  <2>2. QED
    BY <1>1, <1>3, <2>1
<1>8. QED
  BY <1>1, <1>6, <1>7 DEF CellCount, F, G, t, n

\* The cells of a new subarea follow each other and lie in it.
LEMMA NewCells ==
  ASSUME NEW n \in Nat
  PROVE  LET q == n \div FixLen IN
           /\ q \in Nat
           /\ n >= FixLen => q >= 1
           /\ \A i \in 1..q : (i - 1) * FixLen \in Nat /\ (i - 1) * FixLen + FixLen <= n
           /\ \A i, j \in 1..q : i < j => (i - 1) * FixLen + FixLen <= (j - 1) * FixLen
<1> DEFINE q == n \div FixLen
           r == n % FixLen
           w == FixLen
<1>1. w \in Nat \ {0}
  BY ConstantsNat
<1>2. q \in Nat /\ r \in 0..(w - 1) /\ n = w * q + r
  BY <1>1
<1> HIDE DEF q, r, w
<1>3. \A a, b \in Nat : a <= b => a * w <= b * w
  BY <1>1
<1>4. \A i \in 1..q : (i - 1) * w \in Nat /\ (i - 1) * w + w = i * w
  BY <1>1, <1>2
<1>5. q * w <= n
  BY <1>1, <1>2
<1>6. \A i \in 1..q : i * w <= q * w /\ i * w \in Nat /\ q * w \in Nat
  BY <1>1, <1>2, <1>3
<1>7. \A i \in 1..q : (i - 1) * w + w <= n
  BY <1>1, <1>2, <1>4, <1>5, <1>6
<1>8. \A i, j \in 1..q : i < j => (i - 1) * w + w <= (j - 1) * w
  <2> SUFFICES ASSUME NEW i \in 1..q, NEW j \in 1..q, i < j PROVE (i - 1) * w + w <= (j - 1) * w
    OBVIOUS
  <2>1. i \in Nat /\ j - 1 \in Nat /\ i <= j - 1
    BY <1>2
  <2>2. i * w <= (j - 1) * w
    BY <1>3, <2>1
  <2>3. QED
    BY <1>4, <2>2
<1>9. n >= w => q >= 1
  BY <1>1, <1>2
<1>10. QED
  BY <1>2, <1>4, <1>7, <1>8, <1>9 DEF q, w

\* The free list of a new subarea.
CellList(end, n) == [i \in 1..(n \div FixLen) |-> end + (i - 1) * FixLen]

LEMMA CellListFacts ==
  ASSUME NEW end \in Nat, NEW n \in Nat
  PROVE  LET s == CellList(end, n) IN
           /\ s \in Seq(Nat) /\ Len(s) = n \div FixLen
           /\ DOMAIN s = 1..(n \div FixLen) /\ n \div FixLen \in Nat
           /\ n >= FixLen => s # <<>>
           /\ \A i \in DOMAIN s : end <= s[i] /\ s[i] + FixLen <= end + n
           /\ \A i, j \in DOMAIN s : i < j => s[i] + FixLen <= s[j]
           /\ \A i, j \in DOMAIN s : s[i] = s[j] => i = j
<1> DEFINE q == n \div FixLen
           d == [i \in 1..q |-> (i - 1) * FixLen]
           s == [i \in 1..q |-> end + d[i]]
<1>1. CellList(end, n) = s
  BY DEF CellList
<1>2. /\ q \in Nat
      /\ n >= FixLen => q >= 1
      /\ \A i \in 1..q : d[i] \in Nat /\ d[i] + FixLen <= n
      /\ \A i, j \in 1..q : i < j => d[i] + FixLen <= d[j]
  BY NewCells
<1>3. FixLen \in Nat \ {0}
  BY ConstantsNat
<1> HIDE DEF q, d
<1>4. \A i \in 1..q : end + d[i] \in Nat
  BY <1>2
<1>5. /\ DOMAIN s = 1..q /\ s \in [1..q -> Nat]
      /\ \A i \in 1..q : s[i] = end + d[i]
  BY <1>4
<1> HIDE DEF s
<1>6. s \in Seq(Nat) /\ Len(s) = q
  BY <1>2, <1>5
<1>7. n >= FixLen => s # <<>>
  BY <1>2, <1>6
<1>8. \A i \in 1..q : end <= s[i] /\ s[i] + FixLen <= end + n
  <2> SUFFICES ASSUME NEW i \in 1..q PROVE end <= s[i] /\ s[i] + FixLen <= end + n
    OBVIOUS
  <2> DEFINE a == d[i]
  <2>1. s[i] = end + a /\ a \in Nat /\ a + FixLen <= n
    BY <1>2, <1>5
  <2> HIDE DEF a
  <2>2. QED
    BY <1>3, <2>1
<1>9. \A i, j \in 1..q : i < j => s[i] + FixLen <= s[j]
  <2> SUFFICES ASSUME NEW i \in 1..q, NEW j \in 1..q, i < j PROVE s[i] + FixLen <= s[j]
    OBVIOUS
  <2> DEFINE a == d[i]
             b == d[j]
  <2>1. s[i] = end + a /\ s[j] = end + b /\ a \in Nat /\ b \in Nat /\ a + FixLen <= b
    BY <1>2, <1>5
  <2> HIDE DEF a, b
  <2>2. QED
    BY <1>3, <2>1
<1>10. \A i, j \in 1..q : s[i] = s[j] => i = j
  <2> SUFFICES ASSUME NEW i \in 1..q, NEW j \in 1..q, i < j PROVE s[i] # s[j]
    BY <1>2
  <2>1. s[i] + FixLen <= s[j] /\ s[i] \in Nat /\ s[j] \in Nat
    BY <1>5, <1>9
  <2>2. QED
    BY <1>3, <2>1
<1>11. QED
  BY <1>1, <1>2, <1>5, <1>6, <1>7, <1>8, <1>9, <1>10 DEF q

\* The cells D of a new subarea for objects of a fixed length.
LEMMA SpaceCells ==
  ASSUME NEW f \in HeadMaps, NEW end \in Nat, NEW n \in Nat, NEW subs \in Seq(Subareas),
         NEW C \in SUBSET Nat, NEW D \in SUBSET Nat, Space(f, end, subs, C),
         \A d \in D : end <= d /\ d + FixLen <= end + n,
         \A c, d \in D : c < d => c + FixLen <= d
  PROVE  Space(f, end + n, subs, C \cup D)
<1>1. /\ \A x \in DOMAIN f : x \in Nat /\ f[x].size \in Nat
      /\ FixLen \in Nat \ {0} /\ Base \in Nat
  BY HeadMapFacts, ConstantsNat
<1>2. /\ Base <= end
      /\ \A x \in DOMAIN f : f[x].size >= Min /\ x >= Base /\ x + f[x].size <= end
      /\ \A c \in C : Base <= c /\ c + FixLen <= end
      /\ \A c, d \in C : c < d => c + FixLen <= d
      /\ \A c \in C, x \in DOMAIN f : x + f[x].size <= c \/ c + FixLen <= x
  BY DEF Space
<1>3. \A x \in DOMAIN f : x + f[x].size <= end + n
  BY <1>1, <1>2
<1>4. \A i \in DOMAIN subs : EndOf(subs[i]) <= end => EndOf(subs[i]) <= end + n
  BY EndOfInt
<1>5. \A c \in C \cup D : Base <= c /\ c + FixLen <= end + n
  BY <1>1, <1>2
<1>6. \A c, d \in C \cup D : c < d => c + FixLen <= d
  <2> SUFFICES ASSUME NEW c \in C \cup D, NEW d \in C \cup D, c < d PROVE c + FixLen <= d
    OBVIOUS
  <2>1. CASE c \in C /\ d \in C
    BY <1>2, <2>1
  <2>2. CASE c \in D /\ d \in D
    BY <2>2
  <2>3. CASE c \in C /\ d \in D
    BY <1>1, <1>2, <2>3
  <2>4. CASE c \in D /\ d \in C
    BY <1>1, <1>2, <2>4
  <2>5. QED
    BY <2>1, <2>2, <2>3, <2>4
<1>7. \A c \in C \cup D, x \in DOMAIN f : x + f[x].size <= c \/ c + FixLen <= x
  <2> SUFFICES ASSUME NEW c \in C \cup D, NEW x \in DOMAIN f
               PROVE  x + f[x].size <= c \/ c + FixLen <= x
    OBVIOUS
  <2>1. CASE c \in C
    BY <1>2, <2>1
  <2>2. CASE c \in D
    BY <1>1, <1>2, <2>2
  <2>3. QED
    BY <2>1, <2>2
<1>8. Base <= end + n
  BY <1>1, <1>2
<1>9. QED
  BY <1>3, <1>4, <1>5, <1>6, <1>7, <1>8 DEF Space

\* extend_fixedlen_area, when there is room.
LEMMA FixMem ==
  ASSUME NEW g, NEW out, NEW gone, Sound(g, out, gone), g.freelist = <<>>,
         NEW n \in Nat, n >= FixLen, g.free + n <= SegSize
  PROVE  LET k == Carved(Listed(g, n), "fix", n) IN Sound(k, out, gone) /\ k.freelist # <<>>
<1> DEFINE end == g.free
           s == [at |-> end, size |-> n]
           subs == Append(g.subs["fix"], s)
           new == CellList(end, n)
           C == CellsOf(g.obj, g.freelist, out)
           D == Range(new)
           k == Carved(Listed(g, n), "fix", n)
<1>1. g \in Memory
  BY DEF Sound
<1>2. /\ end \in Nat /\ g.subs \in [var : Seq(Subareas), fix : Seq(Subareas)]
      /\ g.subs["var"] \in Seq(Subareas) /\ g.subs["fix"] \in Seq(Subareas) /\ g.obj \in HeadMaps
  BY <1>1, MemoryFields
<1>3. /\ new \in Seq(Nat) /\ Len(new) = n \div FixLen /\ new # <<>>
      /\ \A i \in DOMAIN new : end <= new[i] /\ new[i] + FixLen <= end + n
      /\ \A i, j \in DOMAIN new : i < j => new[i] + FixLen <= new[j]
      /\ \A i, j \in DOMAIN new : new[i] = new[j] => i = j
      /\ DOMAIN new = 1..(n \div FixLen) /\ n \div FixLen \in Nat
  BY <1>2, CellListFacts
<1>4. s \in Subareas /\ subs \in Seq(Subareas)
  BY <1>2, Appended DEF Subareas
<1>5. CellCount(subs) = CellCount(g.subs["fix"]) + (n \div FixLen) /\ CellCount(g.subs["fix"]) \in Nat
  BY <1>2, <1>4, CellCountAppend
<1>6. /\ k \in Memory /\ k.free = end + n /\ k.obj = g.obj /\ k.bucket = g.bucket
      /\ k.dv = g.dv /\ k.dvsize = g.dvsize /\ k.full = g.full /\ k.freelist = new
      /\ k.subs["var"] = g.subs["var"] /\ k.subs["fix"] = subs
  <2> DEFINE ss == [g.subs EXCEPT !["fix"] = subs]
             e == end + n
  <2>1. k = [g EXCEPT !.freelist = new, !.free = e, !.subs = ss]
    BY <1>1 DEF Carved, Listed, CellList, Memory
  <2>2. ss \in [var : Seq(Subareas), fix : Seq(Subareas)] /\ ss["fix"] = subs /\ ss["var"] = g.subs["var"]
    BY <1>2, <1>4
  <2>3. e \in Nat /\ new \in Seq(Nat)
    BY <1>2, <1>3
  <2> HIDE DEF ss, e, new, k, subs
  <2>4. /\ k \in Memory /\ k.free = e /\ k.obj = g.obj /\ k.bucket = g.bucket
        /\ k.dv = g.dv /\ k.dvsize = g.dvsize /\ k.full = g.full /\ k.freelist = new
        /\ k.subs = ss
    BY <1>1, <2>1, <2>2, <2>3 DEF Memory
  <2>5. QED
    BY <2>2, <2>4 DEF e
<1> HIDE DEF k, new, subs
<1>7. C = {x.at : x \in CellUsers(g.obj, out)}
  BY DEF CellsOf, Range
<1>8. CellsOf(k.obj, k.freelist, out) = C \cup D
  BY <1>6, <1>7 DEF CellsOf
<1>9. C \in SUBSET Nat /\ D \in SUBSET Nat
  <2>1. out \subseteq [at : Nat, size : Nat]
    BY DEF Sound, InUse
  <2>2. C \in SUBSET Nat
    BY <1>7, <2>1 DEF CellUsers
  <2>3. D \in SUBSET Nat
    BY <1>3 DEF Range
  <2>4. QED
    BY <2>2, <2>3
<1>10. Space(g.obj, end, g.subs["var"], C)
  BY DEF Sound
<1>11. Space(g.obj, end + n, g.subs["var"], C \cup D)
  <2>1. \A d \in D : end <= d /\ d + FixLen <= end + n
    BY <1>3 DEF Range
  <2>2. \A c, d \in D : c < d => c + FixLen <= d
    <3> SUFFICES ASSUME NEW i \in DOMAIN new, NEW j \in DOMAIN new, new[i] < new[j]
                 PROVE  new[i] + FixLen <= new[j]
      BY DEF Range
    <3>1. ~ (j < i)
      <4>1. j < i => new[j] + FixLen <= new[i]
        BY <1>3
      <4>2. new[i] \in Nat /\ new[j] \in Nat /\ FixLen \in Nat
        BY <1>3, ConstantsNat
      <4>3. QED
        BY <4>1, <4>2
    <3>2. i # j /\ i \in Nat /\ j \in Nat
      <4>1. new[i] \in Nat /\ ~ (new[i] < new[i])
        BY <1>3
      <4>2. QED
        BY <1>3, <4>1
    <3>3. QED
      BY <1>3, <3>1, <3>2
  <2> HIDE DEF C, D
  <2>3. QED
    BY <1>2, <1>9, <1>10, <2>1, <2>2, SpaceCells
<1>12. InUse(k.obj, k.freelist, out, gone)
  <2>1. \A x \in out : x.at \notin DOMAIN g.obj => x.at \notin D
    <3> SUFFICES ASSUME NEW x \in out, x.at \notin DOMAIN g.obj, x.at \in D PROVE FALSE
      OBVIOUS
    <3> DEFINE a == x.at
    <3>1. a \in C
      BY <1>7 DEF CellUsers
    <3>2. a + FixLen <= end /\ a \in Nat
      BY <1>9, <1>10, <3>1 DEF Space
    <3>3. end <= a
      BY <1>3 DEF Range
    <3> HIDE DEF a
    <3>4. QED
      BY <1>2, <3>2, <3>3, ConstantsNat
  <2>2. InUse(g.obj, g.freelist, out, gone)
    BY DEF Sound
  <2>3. QED
    BY <1>3, <1>6, <2>1, <2>2 DEF InUse
<1>13. Cardinality(CellUsers(k.obj, out)) + Len(k.freelist) = CellCount(k.subs["fix"])
  <2> DEFINE a == Cardinality(CellUsers(g.obj, out))
  <2>1. a + 0 = CellCount(g.subs["fix"]) /\ a \in Nat
    <3>1. IsFiniteSet(CellUsers(g.obj, out))
      BY FS_Subset DEF Sound, CellUsers
    <3>2. a \in Nat
      BY <3>1, FS_CardinalityType
    <3>3. Len(g.freelist) = 0
      OBVIOUS
    <3>4. QED
      BY <3>2, <3>3 DEF Sound
  <2> HIDE DEF a
  <2>2. a + (n \div FixLen) = CellCount(subs)
    BY <1>3, <1>5, <2>1
  <2>3. QED
    BY <1>3, <1>6, <2>2 DEF a
<1>14. Sound(k, out, gone)
  <2>1. Linked(k)
    BY <1>6 DEF Sound, Linked
  <2>2. Victim(k)
    BY <1>6 DEF Sound, Victim
  <2>3. /\ ~ k.full /\ Len(k.subs["var"]) \in 1..MaxSubareas /\ IsFiniteSet(out)
        /\ k.free <= SegSize
    BY <1>6 DEF Sound
  <2>4. Space(k.obj, k.free, k.subs["var"], CellsOf(k.obj, k.freelist, out))
    BY <1>6, <1>8, <1>11
  <2>5. QED
    BY <1>6, <1>12, <1>13, <2>1, <2>2, <2>3, <2>4 DEF Sound
<1>15. QED
  BY <1>3, <1>6, <1>14 DEF k

\* The first cell of the free list is handed out.
LEMMA CellTaken ==
  ASSUME NEW g, NEW out, NEW gone, Sound(g, out, gone), g.freelist # <<>>
  PROVE  Sound([g EXCEPT !.freelist = Tail(@)],
               out \cup {[at |-> Head(g.freelist), size |-> FixLen]}, gone)
<1> DEFINE s == g.freelist
           t == Tail(s)
           at == Head(s)
           z == [at |-> at, size |-> FixLen]
           now == out \cup {z}
           k == [g EXCEPT !.freelist = Tail(@)]
           C == CellsOf(g.obj, s, out)
<1>1. g \in Memory /\ s \in Seq(Nat) /\ InUse(g.obj, s, out, gone) /\ Mem(g, C) /\ IsFiniteSet(out)
  BY MemoryFields DEF Sound, Mem
<1>2. /\ t \in Seq(Nat) /\ Len(t) = Len(s) - 1 /\ DOMAIN t = 1..(Len(s) - 1)
      /\ Len(s) \in Nat \ {0} /\ DOMAIN s = 1..Len(s) /\ \A i \in 1..(Len(s) - 1) : t[i] = s[i + 1]
  BY <1>1, Tailed
<1>3. at = s[1] /\ at \in Nat /\ 1 \in DOMAIN s
  BY <1>1, <1>2
<1>4. k = [g EXCEPT !.freelist = t]
  BY <1>1 DEF Memory
<1> HIDE DEF at, t, k
<1>5. /\ k \in Memory /\ k.free = g.free /\ k.obj = g.obj /\ k.bucket = g.bucket
      /\ k.dv = g.dv /\ k.dvsize = g.dvsize /\ k.full = g.full /\ k.freelist = t
      /\ k.subs = g.subs
  <2>1. t \in Seq(Nat) /\ g \in Memory
    BY <1>1, <1>2
  <2>2. QED
    BY <1>4, <2>1 DEF Memory
<1>6. Range(s) = Range(t) \cup {at} /\ at \notin Range(t)
  <2>1. \A i, j \in DOMAIN s : s[i] = s[j] => i = j
    BY <1>1 DEF InUse
  <2>2. \A i \in DOMAIN t : i + 1 \in DOMAIN s /\ i + 1 # 1 /\ t[i] = s[i + 1]
    BY <1>2
  <2>3. at \notin Range(t)
    BY <1>3, <2>1, <2>2 DEF Range
  <2>4. \A i \in DOMAIN s : i = 1 \/ (i - 1 \in DOMAIN t /\ (i - 1) + 1 = i)
    BY <1>2
  <2>5. \A i \in DOMAIN s : s[i] = at \/ s[i] \in Range(t)
    BY <1>3, <2>2, <2>4 DEF Range
  <2>6. QED
    BY <1>3, <2>2, <2>3, <2>5 DEF Range
<1>7. C \in SUBSET Nat
  <2>1. Range(s) \subseteq Nat /\ out \subseteq [at : Nat, size : Nat]
    BY <1>1 DEF Range, InUse
  <2>2. QED
    BY <2>1 DEF CellsOf, CellUsers
<1>8. at \notin DOMAIN g.obj
  <2>1. at \in C
    BY <1>6 DEF CellsOf
  <2> HIDE DEF C
  <2>2. QED
    BY <1>1, <1>7, <2>1, CellsApart
<1>9. z.at = at /\ z.size = FixLen /\ z \in [at : Nat, size : Nat]
  BY <1>3, ConstantsNat
<1> HIDE DEF z
<1>10. \A x \in out : x.at # at
  BY <1>1, <1>6, <1>8 DEF InUse
<1>11. CellUsers(k.obj, now) = CellUsers(g.obj, out) \cup {z} /\ z \notin CellUsers(g.obj, out)
  BY <1>5, <1>8, <1>9, <1>10 DEF CellUsers
<1>12. CellsOf(k.obj, k.freelist, now) = C
  <2>1. {x.at : x \in CellUsers(k.obj, now)} = {x.at : x \in CellUsers(g.obj, out)} \cup {at}
    BY <1>9, <1>11
  <2>2. QED
    BY <1>5, <1>6, <2>1 DEF CellsOf
<1>13. InUse(k.obj, k.freelist, now, gone)
  <2>1. /\ now \subseteq [at : Nat, size : Nat]
        /\ \A x, y \in now : x.at = y.at => x = y
    BY <1>1, <1>9, <1>10 DEF InUse
  <2>2. \A x \in now : IF x.at \in DOMAIN k.obj
                    THEN k.obj[x.at].mark = "used" /\ k.obj[x.at].size = x.size /\ x.at \notin gone
                    ELSE x.size = FixLen /\ x.at \notin Range(k.freelist)
    <3>1. \A x \in out : IF x.at \in DOMAIN k.obj
                    THEN k.obj[x.at].mark = "used" /\ k.obj[x.at].size = x.size /\ x.at \notin gone
                    ELSE x.size = FixLen /\ x.at \notin Range(k.freelist)
      BY <1>1, <1>5, <1>6 DEF InUse
    <3>2. QED
      BY <1>5, <1>6, <1>8, <1>9, <3>1
  <2>3. \A o \in gone : o \in DOMAIN k.obj /\ k.obj[o].mark = "used"
    BY <1>1, <1>5 DEF InUse
  <2>4. \A o \in DOMAIN k.obj : k.obj[o].mark = "used" => o \in gone \/ \E x \in now : x.at = o
    BY <1>1, <1>5 DEF InUse
  <2>5. \A i, j \in DOMAIN k.freelist : k.freelist[i] = k.freelist[j] => i = j
    <3> SUFFICES ASSUME NEW i \in DOMAIN t, NEW j \in DOMAIN t, t[i] = t[j] PROVE i = j
      BY <1>5
    <3>1. i + 1 \in DOMAIN s /\ j + 1 \in DOMAIN s /\ s[i + 1] = s[j + 1] /\ i \in Nat /\ j \in Nat
      <4>1. \A a \in DOMAIN t : a + 1 \in DOMAIN s /\ t[a] = s[a + 1] /\ a \in Nat
        BY <1>2
      <4>2. QED
        BY <4>1
    <3>2. i + 1 = j + 1
      <4>1. \A a, b \in DOMAIN s : s[a] = s[b] => a = b
        BY <1>1 DEF InUse
      <4>2. QED
        BY <3>1, <4>1
    <3>3. QED
      BY <3>1, <3>2
  <2>6. QED
    BY <2>1, <2>2, <2>3, <2>4, <2>5 DEF InUse
<1>14. IsFiniteSet(now)
  BY <1>1, FS_AddElement
<1>15. Cardinality(CellUsers(k.obj, now)) + Len(k.freelist) = CellCount(k.subs["fix"])
  <2> DEFINE U == CellUsers(g.obj, out)
             a == Cardinality(U)
  <2>1. IsFiniteSet(U)
    BY <1>1, FS_Subset DEF CellUsers
  <2>2. a \in Nat
    BY <2>1, FS_CardinalityType
  <2>3. Cardinality(CellUsers(k.obj, now)) = a + 1
    <3>1. z \notin U /\ CellUsers(k.obj, now) = U \cup {z}
      BY <1>11
    <3> HIDE DEF U
    <3>2. Cardinality(U \cup {z}) = Cardinality(U) + 1
      BY <2>1, <3>1, FS_AddElement
    <3>3. QED
      BY <3>1, <3>2
  <2>4. a + Len(s) = CellCount(g.subs["fix"])
    BY DEF Sound
  <2> HIDE DEF a
  <2>5. (a + 1) + Len(t) = a + Len(s)
    <3> DEFINE m == Len(s)
               l == Len(t)
    <3>1. l = m - 1 /\ m \in Nat
      BY <1>2
    <3> HIDE DEF l, m
    <3>2. (a + 1) + l = a + m
      BY <2>2, <3>1
    <3>3. QED
      BY <3>2 DEF l, m
  <2>6. QED
    BY <1>5, <2>3, <2>4, <2>5
<1>16. Linked(k) /\ Victim(k)
  BY <1>5 DEF Sound, Linked, Victim
<1>17. Sound(k, now, gone)
  BY <1>5, <1>12, <1>13, <1>14, <1>15, <1>16 DEF Sound
<1>18. QED
  BY <1>17 DEF k, z, at

\* wg_alloc_fixlen_object.
LEMMA AllocFixMem ==
  ASSUME IInv, AllocFix
  PROVE  /\ IInv'
         /\ \/ live' = live
            \/ \E at \in Nat : at \notin DOMAIN h'.obj /\ live' = live \cup {[at |-> at, size |-> FixLen]}
<1> DEFINE g == IF h.freelist = <<>> THEN ExtendFix(h) ELSE h
           size == NextSize(h, "fix", Subarea)
<1>1. /\ h' = IF g.full THEN h ELSE [g EXCEPT !.freelist = Tail(@)]
      /\ live' = IF g.full THEN live ELSE live \cup {[at |-> Head(g.freelist), size |-> FixLen]}
      /\ lost' = lost
  BY DEF AllocFix
<1>2. CASE g.full
  BY <1>1, <1>2 DEF IInv
<1>3. CASE ~ g.full
  <2>1. Sound(g, live, lost) /\ g.freelist # <<>>
    <3>1. CASE h.freelist # <<>>
      BY <3>1 DEF IInv
    <3>2. CASE h.freelist = <<>>
      <4> DEFINE k == [h EXCEPT !.full = TRUE]
      <4>1. h \in Memory /\ h.free <= SegSize /\ Sound(h, live, lost)
        BY DEF IInv, Sound
      <4>2. k.full
        BY <4>1 DEF Memory
      <4> HIDE DEF k
      <4>3. g = IF size = 0 THEN k ELSE Carved(Listed(h, size), "fix", size)
        BY <3>2 DEF ExtendFix, k
      <4>4. size # 0
        BY <1>3, <4>2, <4>3
      <4> HIDE DEF g
      <4>5. Subarea \in Nat /\ FixLen \in Nat /\ Subarea >= FixLen /\ h.free \in Nat /\ SegSize \in Nat
        BY <4>1, AllocAssumption, ConstantsNat, MemoryFields
      <4>6. size \in Nat /\ size >= Subarea /\ h.free + size < SegSize
        BY <4>4, <4>5, NextSizeFacts
      <4> HIDE DEF size
      <4>7. size \in Nat /\ size >= FixLen /\ h.free + size <= SegSize
        BY <4>5, <4>6
      <4>8. QED
        BY <3>2, <4>1, <4>3, <4>4, <4>7, FixMem
    <3>3. QED
      BY <3>1, <3>2
  <2> HIDE DEF g
  <2> DEFINE at == Head(g.freelist)
  <2>2. IInv'
    BY <1>1, <1>3, <2>1, CellTaken DEF IInv
  <2>3. at \in Nat
    <3>1. g.freelist \in Seq(Nat)
      BY <2>1, MemoryFields DEF Sound
    <3>2. QED
      BY <2>1, <3>1
  <2>4. at \notin DOMAIN h'.obj
    <3> DEFINE C == CellsOf(g.obj, g.freelist, live)
    <3>1. Mem(g, C) /\ g.freelist \in Seq(Nat) /\ live \subseteq [at : Nat, size : Nat]
      BY <2>1, MemoryFields DEF Sound, Mem, InUse
    <3>2. C \in SUBSET Nat
      BY <3>1 DEF CellsOf, CellUsers, Range
    <3>3. at \in C
      <4>1. g.freelist[1] = at /\ 1 \in DOMAIN g.freelist
        BY <2>1, <3>1
      <4>2. QED
        BY <4>1 DEF CellsOf, Range
    <3> HIDE DEF C
    <3>4. at \notin DOMAIN g.obj
      BY <3>1, <3>2, <3>3, CellsApart
    <3>5. h'.obj = g.obj
      BY <1>1, <1>3, <3>1 DEF Mem, Memory
    <3>6. QED
      BY <3>4, <3>5
  <2>5. QED
    BY <1>1, <1>3, <2>2, <2>3, <2>4
<1>4. QED
  BY <1>2, <1>3

\* wg_free_fixlen_object.
LEMMA FreeFixStep ==
  ASSUME IInv, NEW z \in live, FreeFix(z)
  PROVE  IInv'
<1> DEFINE s == h.freelist
           at == z.at
           t == <<at>> \o s
           now == live \ {z}
           k == [h EXCEPT !.freelist = t]
           C == CellsOf(h.obj, s, live)
<1>1. /\ h \in Memory /\ s \in Seq(Nat) /\ InUse(h.obj, s, live, lost) /\ IsFiniteSet(live)
      /\ Sound(h, live, lost)
  BY MemoryFields DEF IInv, Sound
<1>2. at \notin DOMAIN h.obj /\ h' = k /\ live' = now /\ lost' = lost
  BY <1>1 DEF FreeFix, Memory
<1>3. at \in Nat /\ z.size = FixLen /\ at \notin Range(s)
  BY <1>1, <1>2 DEF InUse
<1>4. /\ t \in Seq(Nat) /\ Len(t) = Len(s) + 1 /\ DOMAIN t = 1..(Len(s) + 1)
      /\ t[1] = at /\ \A i \in 1..Len(s) : t[i + 1] = s[i]
      /\ \A i \in 1..(Len(s) + 1) : i > 1 => t[i] = s[i - 1]
  BY <1>1, <1>3, Prepended
<1>5. DOMAIN s = 1..Len(s) /\ Len(s) \in Nat
  BY <1>1
<1> HIDE DEF t, k, at
<1>6. /\ k \in Memory /\ k.free = h.free /\ k.obj = h.obj /\ k.bucket = h.bucket
      /\ k.dv = h.dv /\ k.dvsize = h.dvsize /\ k.full = h.full /\ k.freelist = t
      /\ k.subs = h.subs
  <2>1. t \in Seq(Nat) /\ h \in Memory
    BY <1>1, <1>4
  <2>2. QED
    BY <2>1 DEF Memory, k
<1>7. /\ \A i \in DOMAIN t : t[i] = at \/ t[i] \in Range(s)
      /\ \A i \in DOMAIN t : t[i] = at => i = 1
      /\ \A i \in DOMAIN t : i = 1 \/ (i - 1 \in DOMAIN s /\ t[i] = s[i - 1] /\ i \in Nat)
  <2>1. \A i \in DOMAIN t : i = 1 \/ (i - 1 \in DOMAIN s /\ t[i] = s[i - 1] /\ i \in Nat)
    BY <1>4, <1>5
  <2>2. \A i \in DOMAIN s : s[i] \in Range(s)
    BY DEF Range
  <2>3. QED
    BY <1>3, <1>4, <2>1, <2>2
<1>8. Range(t) = Range(s) \cup {at}
  <2>1. \A i \in DOMAIN s : i + 1 \in DOMAIN t /\ t[i + 1] = s[i]
    BY <1>4, <1>5
  <2>2. 1 \in DOMAIN t /\ t[1] = at
    BY <1>4, <1>5
  <2>3. \A i \in DOMAIN t : t[i] \in Range(s) \cup {at}
    BY <1>7
  <2>4. Range(t) \subseteq Range(s) \cup {at}
    BY <2>3 DEF Range
  <2>5. \A i \in DOMAIN s : s[i] \in Range(t)
    BY <2>1 DEF Range
  <2>6. Range(s) \subseteq Range(t) /\ at \in Range(t)
    BY <2>2, <2>5 DEF Range
  <2>7. QED
    BY <2>4, <2>6
<1>9. \A x \in now : x \in live /\ x.at # at
  BY <1>1 DEF InUse, at
<1>10. CellUsers(k.obj, now) = CellUsers(h.obj, live) \ {z} /\ z \in CellUsers(h.obj, live)
  BY <1>2, <1>6 DEF CellUsers, at
<1>11. CellsOf(k.obj, t, now) = C
  <2>1. {x.at : x \in CellUsers(h.obj, live)} = {x.at : x \in CellUsers(k.obj, now)} \cup {at}
    BY <1>10 DEF at
  <2>2. QED
    BY <1>8, <2>1 DEF CellsOf
<1>12. InUse(k.obj, t, now, lost)
  <2>1. /\ now \subseteq [at : Nat, size : Nat]
        /\ \A x, y \in now : x.at = y.at => x = y
    BY <1>1 DEF InUse
  <2>2. \A x \in now : IF x.at \in DOMAIN k.obj
                    THEN k.obj[x.at].mark = "used" /\ k.obj[x.at].size = x.size /\ x.at \notin lost
                    ELSE x.size = FixLen /\ x.at \notin Range(t)
    BY <1>1, <1>6, <1>8, <1>9 DEF InUse
  <2>3. \A o \in lost : o \in DOMAIN k.obj /\ k.obj[o].mark = "used"
    BY <1>1, <1>6 DEF InUse
  <2>4. \A o \in DOMAIN k.obj : k.obj[o].mark = "used" => o \in lost \/ \E x \in now : x.at = o
    <3>1. \A o \in DOMAIN h.obj : h.obj[o].mark = "used" => o \in lost \/ \E x \in live : x.at = o
      BY <1>1 DEF InUse
    <3>2. \A o \in DOMAIN h.obj : \A x \in live : x.at = o => x \in now
      BY <1>2 DEF at
    <3>3. QED
      BY <1>6, <3>1, <3>2
  <2>5. \A i, j \in DOMAIN t : t[i] = t[j] => i = j
    <3> SUFFICES ASSUME NEW i \in DOMAIN t, NEW j \in DOMAIN t, t[i] = t[j] PROVE i = j
      OBVIOUS
    <3>1. CASE t[i] = at
      BY <1>7, <3>1
    <3>2. CASE t[i] # at
      <4>1. i # 1 /\ j # 1
        BY <1>4, <3>2
      <4>2. i - 1 \in DOMAIN s /\ j - 1 \in DOMAIN s /\ s[i - 1] = s[j - 1] /\ i \in Nat /\ j \in Nat
        BY <1>7, <4>1
      <4>3. \A a, b \in DOMAIN s : s[a] = s[b] => a = b
        BY <1>1 DEF InUse
      <4>4. i - 1 = j - 1
        BY <4>2, <4>3
      <4>5. QED
        BY <4>2, <4>4
    <3>3. QED
      BY <3>1, <3>2
  <2>6. QED
    BY <2>1, <2>2, <2>3, <2>4, <2>5 DEF InUse
<1>13. IsFiniteSet(now)
  BY <1>1, FS_RemoveElement
<1>14. Cardinality(CellUsers(k.obj, now)) + Len(t) = CellCount(k.subs["fix"])
  <2> DEFINE U == CellUsers(h.obj, live)
             a == Cardinality(U)
             b == Cardinality(CellUsers(k.obj, now))
             m == Len(s)
  <2>1. IsFiniteSet(U)
    BY <1>1, FS_Subset DEF CellUsers
  <2>2. a \in Nat /\ m \in Nat
    BY <1>5, <2>1, FS_CardinalityType
  <2>3. b = a - 1
    <3>1. z \in U /\ CellUsers(k.obj, now) = U \ {z}
      BY <1>10
    <3> HIDE DEF U
    <3>2. Cardinality(U \ {z}) = Cardinality(U) - 1
      BY <2>1, <3>1, FS_RemoveElement
    <3>3. QED
      BY <3>1, <3>2
  <2>4. a + m = CellCount(h.subs["fix"]) /\ Len(t) = m + 1
    BY <1>1, <1>4 DEF Sound
  <2> HIDE DEF a, b, m
  <2>5. b + (m + 1) = a + m
    BY <2>2, <2>3
  <2>6. QED
    BY <1>6, <2>4, <2>5 DEF b
<1>15. Linked(k) /\ Victim(k)
  BY <1>1, <1>6 DEF Sound, Linked, Victim
<1>16. Sound(k, now, lost)
  BY <1>1, <1>6, <1>11, <1>12, <1>13, <1>14, <1>15 DEF Sound
<1>17. QED
  BY <1>2, <1>16 DEF IInv

\* The header before the first subarea is a memory without pieces.
LEMMA NoMemorySound ==
  /\ Mem(NoMemory, {}) /\ Victim(NoMemory)
  /\ NoMemory.free = Base /\ NoMemory.subs["var"] = <<>> /\ NoMemory.subs["fix"] = <<>>
  /\ NoMemory.obj = <<>> /\ NoMemory.freelist = <<>> /\ ~ NoMemory.full
<1> DEFINE g == NoMemory
           z == [b \in Buckets |-> 0]
           e == <<>>
           noSubs == [var |-> <<>>, fix |-> <<>>]
           L == [b \in Buckets |-> <<>>]
<1>1. /\ g.free = Base /\ g.subs = noSubs /\ g.obj = e /\ g.bucket = z /\ g.dv = 0 /\ g.dvsize = 0
      /\ g.freelist = <<>> /\ g.full = FALSE
      /\ g = [free |-> Base, subs |-> noSubs, obj |-> e, bucket |-> z, dv |-> 0, dvsize |-> 0,
              freelist |-> <<>>, full |-> FALSE]
  BY DEF NoMemory
<1>2. DOMAIN e = {} /\ e \in HeadMaps
  <2>1. DOMAIN e = {}
    OBVIOUS
  <2>2. e = [x \in {} |-> e[x]]
    OBVIOUS
  <2> HIDE DEF e
  <2>3. e \in [{} -> Heads]
    BY <2>1, <2>2
  <2> DEFINE D == {}
  <2>4. D \subseteq Nat /\ e \in [D -> Heads]
    BY <2>3
  <2> HIDE DEF D
  <2>5. e \in HeadMaps
    BY <2>4, IsHeadMap
  <2>6. QED
    BY <2>1, <2>5
<1>3. noSubs \in [var : Seq(Subareas), fix : Seq(Subareas)]
      /\ noSubs["var"] = <<>> /\ noSubs["fix"] = <<>>
  OBVIOUS
<1>4. z \in [Buckets -> Nat] /\ \A b \in Buckets : z[b] = 0
  OBVIOUS
<1>5. Base \in Nat /\ SegSize \in Nat /\ Base <= SegSize
  BY ConstantsNat, AllocAssumption
<1>6. L \in [Buckets -> Seq(Nat)] /\ \A b \in Buckets : L[b] = <<>>
  OBVIOUS
<1> HIDE DEF z, noSubs, L
<1>7. g \in Memory
  <2>1. <<>> \in Seq(Nat)
    OBVIOUS
  <2> HIDE DEF e, g
  <2>2. QED
    BY <1>1, <1>2, <1>3, <1>4, <1>5, <2>1 DEF Memory
<1>8. Space(e, Base, <<>>, {})
  <2>1. Base <= Base
    BY <1>5
  <2>2. DOMAIN <<>> = {}
    OBVIOUS
  <2>3. QED
    BY <1>2, <2>1, <2>2 DEF Space
<1>9. Lists(e, z, L, {})
  <2>1. \A b \in Buckets : Chain(e, L[b], b, {})
    <3>1. DOMAIN <<>> = {}
      OBVIOUS
    <3>2. QED
      BY <1>6, <3>1 DEF Chain
  <2>2. \A b \in Buckets : z[b] = IF L[b] = <<>> THEN 0 ELSE L[b][1]
    BY <1>4, <1>6
  <2>3. QED
    BY <1>2, <1>6, <2>1, <2>2 DEF Lists
<1>10. Mem(g, {})
  BY <1>1, <1>3, <1>5, <1>7, <1>8, <1>9 DEF Mem, Linked
<1>11. Victim(g)
  BY <1>1, <1>2 DEF Victim
<1>12. QED
  BY <1>1, <1>3, <1>10, <1>11

\* wg_init_db_memsegment_with_kb.
LEMMA InitSound == Init => IInv
<1> SUFFICES ASSUME Init PROVE IInv
  OBVIOUS
<1> DEFINE n == Subarea
           no == NoMemory
           C == {}
           var == FreeSpace(Carved(no, "var", n), no.free, n)
<1>1. /\ Mem(no, C) /\ Victim(no) /\ no.free = Base /\ no.subs["var"] = <<>> /\ no.subs["fix"] = <<>>
      /\ no.obj = <<>> /\ no.freelist = <<>> /\ ~ no.full
  BY NoMemorySound
<1>2. h = Carved(Listed(var, n), "fix", n) /\ live = {} /\ lost = {}
  BY <1>1 DEF Init
<1>3. /\ n \in Nat /\ n >= 3 * Min /\ n >= FixLen /\ Base \in Nat /\ SegSize \in Nat
      /\ Base + n <= SegSize /\ (Base + n) + n <= SegSize
  BY ConstantsNat, AllocAssumption
<1> HIDE DEF no, C, n
<1>4. Grown(var, no, C) /\ var.free = Base + n
  <2>1. C \in SUBSET Nat /\ no.free + n <= SegSize
    BY <1>1, <1>3 DEF C
  <2>2. QED
    BY <1>1, <1>3, <2>1, OpenMem
<1> HIDE DEF var
<1>5. /\ Mem(var, C) /\ Victim(var) /\ UsedAlike(no.obj, var.obj, {}) /\ var.freelist = <<>>
      /\ ~ var.full /\ var.subs["fix"] = <<>> /\ Len(var.subs["var"]) = 1
  <2>1. Len(<<>>) = 0
    OBVIOUS
  <2>2. Len(var.subs["var"]) = Len(no.subs["var"]) + 1
    BY <1>4 DEF Grown
  <2>3. QED
    BY <1>1, <1>4, <2>1, <2>2 DEF Grown
<1> DEFINE none == {}
<1>6. Sound(var, none, none)
  <2>1. CellUsers(var.obj, none) = {} /\ Range(var.freelist) = {}
    BY <1>5 DEF CellUsers, Range
  <2>2. CellsOf(var.obj, var.freelist, none) = C
    BY <2>1 DEF CellsOf, C
  <2>3. InUse(var.obj, var.freelist, none, none)
    <3>1. \A o \in DOMAIN var.obj : var.obj[o].mark # "used"
      <4>1. \A o : ~ UsedAt(no.obj, o)
        BY <1>1 DEF UsedAt
      <4>2. QED
        BY <1>5, <4>1 DEF UsedAlike, UsedAt
    <3>2. QED
      BY <1>5, <3>1 DEF InUse
  <2>4. IsFiniteSet(none) /\ Cardinality(CellUsers(var.obj, none)) = 0
    BY <2>1, FS_EmptySet
  <2>5. CellCount(var.subs["fix"]) = 0
    <3> DEFINE s == <<>>
    <3>1. s \in Seq(Subareas) /\ Len(s) = 0 /\ var.subs["fix"] = s
      BY <1>5
    <3> HIDE DEF s
    <3>2. CellSums(s)[0] = 0
      BY <3>1, CellSumsFacts
    <3>3. QED
      BY <3>1, <3>2 DEF CellCount
  <2>6. Len(var.freelist) = 0
    BY <1>5
  <2>7. Len(var.subs["var"]) \in 1..MaxSubareas
    BY <1>5, ConstantsNat
  <2>8. Cardinality(CellUsers(var.obj, none)) + Len(var.freelist) = CellCount(var.subs["fix"])
    BY <2>4, <2>5, <2>6
  <2> HIDE DEF none
  <2>9. QED
    BY <1>5, <2>2, <2>3, <2>4, <2>7, <2>8 DEF Sound, Mem
<1> HIDE DEF none
<1>7. var.freelist = <<>> /\ var.free + n <= SegSize
  BY <1>3, <1>4, <1>5
<1>8. Sound(Carved(Listed(var, n), "fix", n), none, none)
  BY <1>3, <1>6, <1>7, FixMem
<1>9. QED
  BY <1>2, <1>8 DEF IInv, none

LEMMA Step == IInv /\ [Next]_vars => IInv'
<1> SUFFICES ASSUME IInv, [Next]_vars PROVE IInv'
  OBVIOUS
<1>1. CASE \E r \in Requests : AllocGints(r)
  BY <1>1, AllocGintsStep
<1>2. CASE \E x \in live : FreeObject(x)
  BY <1>2, FreeObjectStep
<1>3. CASE \E x \in live : FreeFix(x)
  BY <1>3, FreeFixStep
<1>4. CASE AllocFix
  BY <1>4, AllocFixMem
<1>5. CASE UNCHANGED vars
  BY <1>5 DEF vars, IInv
<1>6. QED
  BY <1>1, <1>2, <1>3, <1>4, <1>5 DEF Next

-----------------------------------------------------------------------------
\* What the invariant says of the memory as it is read.

\* A list is not longer than the segment has objects.
LEMMA ChainShort ==
  ASSUME NEW f \in HeadMaps, IsFiniteSet(DOMAIN f), NEW s \in Seq(Nat), NEW b, Chain(f, s, b, {})
  PROVE  Len(s) <= Cardinality(DOMAIN f) /\ Cardinality(DOMAIN f) \in Nat
<1> DEFINE n == Len(s)
           S == 1..n
           T == DOMAIN f
<1>1. n \in Nat /\ DOMAIN s = S
  OBVIOUS
<1>2. \A i \in DOMAIN s : s[i] \in T
  BY DEF Chain
<1>3. \A i, j \in DOMAIN s : s[i] = s[j] => i = j
  BY DEF Chain
<1>4. s \in [S -> T]
  BY <1>1, <1>2
<1>5. s \in Injection(S, T)
  BY <1>1, <1>3, <1>4 DEF Injection, IsInjective
<1>6. Cardinality(S) <= Cardinality(T)
  <2> HIDE DEF S, T
  <2>1. IsFiniteSet(T)
    BY DEF T
  <2>2. QED
    BY <1>5, <2>1, FS_Injection
<1>7. Cardinality(S) = n
  <2> HIDE DEF n
  <2>1. Cardinality(1..n) = IF 1 > n THEN 0 ELSE n - 1 + 1
    BY <1>1, FS_Interval
  <2>2. QED
    BY <1>1, <2>1
<1>8. Cardinality(T) \in Nat
  BY FS_CardinalityType
<1>9. QED
  BY <1>6, <1>7, <1>8

\* The pieces are finitely many.
LEMMA PiecesFinite ==
  ASSUME NEW g, NEW C, Mem(g, C)
  PROVE  IsFiniteSet(DOMAIN g.obj)
<1> DEFINE S == 0..SegSize
<1>1. \A o \in DOMAIN g.obj : o \in Nat /\ o + g.obj[o].size <= g.free /\ g.obj[o].size \in Nat
  BY MemFacts DEF Mem, Space
<1>2. g.free \in Nat /\ g.free <= SegSize /\ SegSize \in Nat
  BY MemoryFields, ConstantsNat DEF Mem
<1>3. DOMAIN g.obj \subseteq S
  BY <1>1, <1>2
<1>4. IsFiniteSet(S)
  BY <1>2, FS_Interval
<1>5. QED
  BY <1>3, <1>4, FS_Subset

\* The objects met from the bucket on are those of its list.
LEMMA ListOfFacts ==
  ASSUME NEW b \in Buckets, NEW s \in Seq(Nat), Chain(h.obj, s, b, {}),
         h.bucket[b] = IF s = <<>> THEN 0 ELSE s[1],
         0 \notin DOMAIN h.obj, Len(s) <= Cardinality(DOMAIN h.obj), Cardinality(DOMAIN h.obj) \in Nat
  PROVE  LET n == Cardinality(DOMAIN h.obj) IN
           /\ DOMAIN ListOf(b) = 0..n
           /\ \A k \in 0..n : ListOf(b)[k] = IF k < Len(s) THEN s[k + 1] ELSE 0
<1> DEFINE n == Cardinality(DOMAIN h.obj)
           m == Len(s)
           Next0(x) == IF x = 0 THEN 0 ELSE h.obj[x].next
           At(f, k) == IF k = 0 THEN h.bucket[b] ELSE Next0(f[k - 1])
           G == [k \in 0..n |-> IF k < m THEN s[k + 1] ELSE 0]
           F == ListOf(b)
<1>1. m \in Nat /\ DOMAIN s = 1..m /\ m <= n /\ n \in Nat /\ (s = <<>> <=> m = 0)
  OBVIOUS
<1>2. \A i \in 1..m : s[i] # 0 /\ Next0(s[i]) = IF i = m THEN 0 ELSE s[i + 1]
  BY <1>1 DEF Chain
<1> HIDE DEF n, m, Next0
<1>3. \A k \in 0..n : G[k] = At(G, k)
  <2> SUFFICES ASSUME NEW k \in 0..n PROVE G[k] = At(G, k)
    OBVIOUS
  <2>1. CASE k = 0
    <3>1. G[0] = IF 0 < m THEN s[1] ELSE 0
      BY <1>1
    <3>2. QED
      BY <1>1, <2>1, <3>1
  <2>2. CASE k # 0 /\ k <= m
    <3>1. k - 1 \in 0..n /\ k - 1 < m /\ (k - 1) + 1 = k /\ k \in 1..m
      BY <1>1, <2>2
    <3>2. G[k - 1] = s[k]
      BY <3>1
    <3>3. Next0(s[k]) = IF k = m THEN 0 ELSE s[k + 1]
      BY <1>2, <3>1
    <3>4. G[k] = IF k = m THEN 0 ELSE s[k + 1]
      BY <1>1, <2>2
    <3> HIDE DEF G
    <3>5. QED
      BY <2>2, <3>2, <3>3, <3>4
  <2>3. CASE k # 0 /\ ~ (k <= m)
    <3>1. k - 1 \in 0..n /\ ~ (k - 1 < m) /\ ~ (k < m)
      BY <1>1, <2>3
    <3>2. G[k - 1] = 0 /\ G[k] = 0
      BY <3>1
    <3>3. Next0(0) = 0
      BY DEF Next0
    <3> HIDE DEF G
    <3>4. QED
      BY <2>3, <3>2, <3>3
  <2>4. QED
    BY <2>1, <2>2, <2>3
<1>4. G = [k \in 0..n |-> G[k]]
  OBVIOUS
<1> HIDE DEF G
<1>5. G = [k \in 0..n |-> At(G, k)]
  BY <1>3, <1>4
<1>6. F = CHOOSE f : f = [k \in 0..n |-> At(f, k)]
  BY DEF ListOf, Next0, n
<1>7. F = [k \in 0..n |-> At(F, k)]
  BY <1>5, <1>6
<1> HIDE DEF F
<1> DEFINE T == {k \in 0..n : F[k] # G[k]}
<1>8. T = {}
  <2> SUFFICES ASSUME T # {} PROVE FALSE
    OBVIOUS
  <2>1. PICK k \in T : \A j \in T : k <= j
    <3>1. T \subseteq Nat
      BY <1>1
    <3> HIDE DEF T
    <3>2. QED
      BY <3>1, LeastElement
  <2>2. k \in 0..n /\ F[k] # G[k]
    OBVIOUS
  <2>3. F[k] = At(F, k) /\ G[k] = At(G, k)
    BY <1>3, <1>7, <2>2
  <2>4. k # 0
    BY <2>2, <2>3
  <2>5. k - 1 \in 0..n /\ ~ (k <= k - 1)
    BY <1>1, <2>2, <2>4
  <2>6. F[k - 1] = G[k - 1]
    BY <2>1, <2>5
  <2>7. QED
    BY <2>2, <2>3, <2>4, <2>6
<1>9. DOMAIN F = 0..n /\ \A k \in 0..n : F[k] = G[k]
  BY <1>7, <1>8
<1>10. \A k \in 0..n : G[k] = IF k < m THEN s[k + 1] ELSE 0
  BY DEF G
<1>11. QED
  BY <1>9, <1>10 DEF F, n, m

\* The pieces of a subarea follow each other from its start marker to its end marker.
LEMMA TiledHolds == IInv => Tiled
<1> SUFFICES ASSUME IInv, NEW i \in DOMAIN h.subs["var"]
             PROVE  LET s == h.subs["var"][i]
                        end == s.at + s.size - (s.size % Min)
                        In == {o \in DOMAIN h.obj : s.at <= o /\ o < end}
                    IN /\ s.at \in In /\ h.obj[s.at].mark = "start"
                       /\ \A o \in In : LET x == o + h.obj[o].size IN
                            /\ h.obj[o].size >= Min
                            /\ x = end \/ x \in In
                            /\ \A y \in In : ~(o < y /\ y < x)
                            /\ x = end <=> h.obj[o].mark = "end"
  BY DEF Tiled, Subs
<1> DEFINE f == h.obj
           s == h.subs["var"][i]
           a == s.at
           end == EndOf(s)
           last == end - Min
           In == {o \in DOMAIN f : a <= o /\ o < end}
<1>1. Mem(h, CellsOf(h.obj, h.freelist, live))
  BY DEF IInv, Sound, Mem
<1>2. Min \in Nat \ {0} /\ \A o \in DOMAIN f : o \in Nat /\ f[o].size \in Nat /\ f[o].size >= Min
  BY <1>1, MemFacts, ConstantsNat
<1>3. /\ \A o, y \in DOMAIN f : o < y => o + f[o].size <= y
      /\ \A o \in DOMAIN f : f[o].mark # "end" => o + f[o].size \in DOMAIN f
      /\ a \in DOMAIN f /\ f[a].mark = "start"
      /\ last \in DOMAIN f /\ f[last].mark = "end" /\ f[last].size = Min
      /\ a + Min < end
      /\ \A o \in DOMAIN f : a <= o /\ o < end /\ f[o].mark = "end" => o = last
  BY <1>1 DEF Mem, Space
<1>4. end \in Int /\ a \in Nat
  <2>1. s \in Subareas
    BY <1>1, MemoryFields DEF Mem
  <2>2. QED
    BY <2>1, EndOfInt
<1> HIDE DEF f, a, end
<1>5. last \in Nat /\ last + Min = end
  BY <1>2, <1>3, <1>4
<1> HIDE DEF last
<1>6. a \in In
  BY <1>2, <1>3, <1>4
<1>7. ASSUME NEW o \in In
      PROVE  LET x == o + f[o].size IN
               /\ f[o].size >= Min
               /\ x = end \/ x \in In
               /\ \A y \in In : ~(o < y /\ y < x)
               /\ x = end <=> f[o].mark = "end"
  <2> DEFINE x == o + f[o].size
  <2>1. o \in DOMAIN f /\ o \in Nat /\ f[o].size \in Nat /\ f[o].size >= Min /\ a <= o /\ o < end
    BY <1>2
  <2>2. x \in Nat /\ x > o
    BY <1>2, <2>1
  <2>3. \A y \in In : ~ (o < y /\ y < x)
    <3> SUFFICES ASSUME NEW y \in In, o < y, y < x PROVE FALSE
      OBVIOUS
    <3>1. y \in DOMAIN f /\ y \in Nat
      BY <1>2
    <3>2. x <= y
      BY <1>3, <2>1, <3>1
    <3> HIDE DEF x
    <3>3. QED
      BY <2>2, <3>1, <3>2
  <2>4. CASE o = last
    <3>1. x = end /\ f[o].mark = "end"
      BY <1>3, <1>5, <2>4
    <3>2. QED
      BY <2>1, <2>3, <3>1
  <2>5. CASE o # last
    <3>1. f[o].mark # "end"
      BY <1>3, <2>1, <2>5
    <3>2. x \in DOMAIN f
      BY <1>3, <2>1, <3>1
    <3>3. o < last
      <4>1. last < o => last + Min <= o
        BY <1>3, <2>1
      <4>2. QED
        BY <1>2, <1>4, <1>5, <2>1, <2>5, <4>1
    <3>4. x <= last
      BY <1>3, <2>1, <3>3
    <3> HIDE DEF x
    <3>5. x < end /\ a <= x
      BY <1>2, <1>4, <1>5, <2>1, <2>2, <3>4
    <3>6. x \in In /\ x # end
      BY <1>4, <2>2, <3>2, <3>5
    <3>7. QED
      BY <2>1, <2>3, <3>1, <3>6 DEF x
  <2>6. QED
    BY <2>4, <2>5
<1>8. QED
  BY <1>3, <1>6, <1>7 DEF f, a, end, EndOf

\* The lists as they are read from the buckets are those of the invariant.
LEMMA ListsHold == IInv => ListsExact
<1> SUFFICES ASSUME IInv PROVE ListsExact
  OBVIOUS
<1> DEFINE f == h.obj
           n == Cardinality(DOMAIN f)
<1>1. Mem(h, CellsOf(h.obj, h.freelist, live)) /\ Victim(h)
  BY DEF IInv, Sound, Mem
<1>2. f \in HeadMaps /\ 0 \notin DOMAIN f /\ IsFiniteSet(DOMAIN f)
  BY <1>1, MemoryFields, MemFacts, PiecesFinite DEF Mem
<1>3. PICK L : Lists(f, h.bucket, L, {})
  BY <1>1 DEF Mem, Linked
<1>4. ASSUME NEW b \in Buckets
      PROVE  LET F == ListOf(b) IN
         /\ F[n] = 0
         /\ {F[k] : k \in DOMAIN F} \ {0}
              = {o \in DOMAIN f : f[o].mark = "free" /\ Index(f[o].size) = b}
         /\ \A k \in DOMAIN F : k > 0 /\ F[k] # 0 => f[F[k]].prev = F[k - 1]
  <2> DEFINE s == L[b]
             F == ListOf(b)
             m == Len(s)
  <2>1. s \in Seq(Nat) /\ Chain(f, s, b, {}) /\ h.bucket[b] = IF s = <<>> THEN 0 ELSE s[1]
    BY <1>3 DEF Lists
  <2>2. m \in Nat /\ DOMAIN s = 1..m
    BY <2>1
  <2> HIDE DEF s
  <2>3. m <= n /\ n \in Nat
    BY <1>2, <2>1, ChainShort
  <2>4. DOMAIN F = 0..n /\ \A k \in 0..n : F[k] = IF k < m THEN s[k + 1] ELSE 0
    BY <1>2, <2>1, <2>3, ListOfFacts
  <2> HIDE DEF F, n, m
  <2>5. \A i \in 1..m : /\ s[i] \in DOMAIN f /\ f[s[i]].mark = "free" /\ Index(f[s[i]].size) = b
                        /\ i > 1 => f[s[i]].prev = s[i - 1]
    BY <1>2, <2>1, <2>2 DEF Chain
  <2>6. F[n] = 0
    BY <2>2, <2>3, <2>4
  <2>7. \A k \in 0..n : F[k] # 0 => k + 1 \in 1..m /\ F[k] = s[k + 1]
    BY <2>2, <2>3, <2>4
  <2>8. \A k \in DOMAIN F : k > 0 /\ F[k] # 0 => f[F[k]].prev = F[k - 1]
    <3> SUFFICES ASSUME NEW k \in 0..n, k > 0, F[k] # 0 PROVE f[F[k]].prev = F[k - 1]
      BY <2>4
    <3>1. k + 1 \in 1..m /\ F[k] = s[k + 1]
      BY <2>7
    <3>2. k - 1 \in 0..n /\ k - 1 < m /\ (k - 1) + 1 = k /\ (k + 1) - 1 = k /\ k + 1 > 1
      BY <2>2, <2>3, <3>1
    <3>3. F[k - 1] = s[k]
      BY <2>4, <3>2
    <3>4. f[s[k + 1]].prev = s[k]
      <4> DEFINE j == k + 1
      <4>1. j \in 1..m /\ j > 1 /\ j - 1 = k /\ F[k] = s[j]
        BY <3>1, <3>2
      <4> HIDE DEF j
      <4>2. f[s[j]].prev = s[j - 1]
        BY <2>5, <4>1
      <4>3. QED
        BY <4>1, <4>2 DEF j
    <3>5. QED
      BY <3>1, <3>3, <3>4
  <2>9. \A o \in DOMAIN f : f[o].mark = "free" /\ Index(f[o].size) = b => \E k \in 0..n : F[k] = o
    <3> SUFFICES ASSUME NEW o \in DOMAIN f, f[o].mark = "free", Index(f[o].size) = b
                 PROVE  \E k \in 0..n : F[k] = o
      OBVIOUS
    <3>1. PICK i \in DOMAIN s : s[i] = o
      BY <1>3 DEF Lists, s
    <3>2. i - 1 \in 0..n /\ i - 1 < m /\ (i - 1) + 1 = i
      BY <2>2, <2>3
    <3>3. F[i - 1] = o
      BY <2>4, <3>1, <3>2
    <3>4. QED
      BY <3>2, <3>3
  <2>10. {F[k] : k \in DOMAIN F} \ {0}
              = {o \in DOMAIN f : f[o].mark = "free" /\ Index(f[o].size) = b}
    <3>1. \A k \in DOMAIN F : F[k] # 0 =>
            F[k] \in DOMAIN f /\ f[F[k]].mark = "free" /\ Index(f[F[k]].size) = b
      BY <2>4, <2>5, <2>7
    <3>2. \A o \in DOMAIN f : o # 0
      BY <1>2
    <3> HIDE DEF f
    <3>3. QED
      BY <2>4, <2>9, <3>1, <3>2
  <2>11. QED
    BY <2>6, <2>8, <2>10 DEF F, n
<1>5. {o \in DOMAIN h.obj : h.obj[o].mark = "special"} = {h.dv} \ {0}
  BY <1>1, <1>2 DEF Victim
<1>6. h.dv # 0 => h.obj[h.dv].size = h.dvsize
  BY <1>1 DEF Victim
<1>7. QED
  BY <1>4, <1>5, <1>6 DEF ListsExact

\* No object or cell is lost.
LEMMA AccountedHolds == IInv => Accounted
<1> SUFFICES ASSUME IInv PROVE Accounted
  OBVIOUS
<1>1. InUse(h.obj, h.freelist, live, lost)
  BY DEF IInv, Sound
<1>2. {o \in DOMAIN h.obj : h.obj[o].mark = "used"}
       = {x.at : x \in {y \in live : y.at \in DOMAIN h.obj}} \cup lost
  BY <1>1 DEF InUse
<1>3. Cardinality({x \in live : x.at \notin DOMAIN h.obj}) + Len(h.freelist) = CellCount(h.subs["fix"])
  BY DEF IInv, Sound, CellUsers
<1>4. QED
  BY <1>2, <1>3 DEF Accounted, CellCount, CellSums

\* What the users have lies in the segment and does not overlap.
LEMMA UsersApart ==
  ASSUME NEW g, NEW out, NEW gone, Sound(g, out, gone)
  PROVE  /\ \A x \in out : /\ x = [at |-> x.at, size |-> x.size]
                           /\ x.at \in Nat /\ x.size \in Nat \ {0}
                           /\ Base <= x.at /\ x.at + x.size <= SegSize
         /\ \A x, y \in out : x # y => x.at + x.size <= y.at \/ y.at + y.size <= x.at
<1> DEFINE f == g.obj
           C == CellsOf(f, g.freelist, out)
<1>1. Mem(g, C) /\ InUse(f, g.freelist, out, gone)
  BY DEF Sound, Mem
<1>2. /\ g.free \in Nat /\ g.free <= SegSize /\ SegSize \in Nat /\ Base \in Nat
      /\ FixLen \in Nat \ {0} /\ Min \in Nat \ {0}
      /\ \A o \in DOMAIN f : o \in Nat /\ f[o].size \in Nat /\ f[o].size >= Min
  <2>1. \A o \in DOMAIN f : o \in Nat /\ f[o].size \in Nat /\ f[o].size >= Min
    <3> HIDE DEF C
    <3>1. QED
      BY <1>1, MemFacts, ConstantsNat
  <2>2. g \in Memory /\ g.free <= SegSize
    BY <1>1 DEF Mem
  <2>3. QED
    BY <2>1, <2>2, MemoryFields, ConstantsNat
<1>3. /\ \A o \in DOMAIN f : o >= Base /\ o + f[o].size <= g.free
      /\ \A o, y \in DOMAIN f : o < y => o + f[o].size <= y
      /\ \A c \in C : Base <= c /\ c + FixLen <= g.free
      /\ \A c, d \in C : c < d => c + FixLen <= d
      /\ \A c \in C, o \in DOMAIN f : o + f[o].size <= c \/ c + FixLen <= o
  BY <1>1 DEF Mem, Space
<1>4. \A x \in out : /\ x.at \in Nat /\ x = [at |-> x.at, size |-> x.size]
                     /\ x.at \in DOMAIN f => x.size = f[x.at].size
                     /\ x.at \notin DOMAIN f => x.size = FixLen /\ x.at \in C
  BY <1>1 DEF InUse, CellsOf, CellUsers
<1>5. \A x, y \in out : x # y => x.at # y.at
  BY <1>1 DEF InUse
<1> HIDE DEF f, C
<1>6. ASSUME NEW x \in out
      PROVE  /\ x.at \in Nat /\ x.size \in Nat \ {0}
             /\ Base <= x.at /\ x.at + x.size <= SegSize
  <2> DEFINE a == x.at
             n == x.size
  <2>1. a \in Nat /\ n \in Nat \ {0} /\ Base <= a /\ a + n <= g.free
    <3>1. CASE a \in DOMAIN f
      BY <1>2, <1>3, <1>4, <3>1
    <3>2. CASE a \notin DOMAIN f
      BY <1>2, <1>3, <1>4, <3>2
    <3>3. QED
      BY <3>1, <3>2
  <2> HIDE DEF a, n
  <2>2. a + n <= SegSize
    BY <1>2, <2>1
  <2>3. QED
    BY <2>1, <2>2 DEF a, n
<1>7. ASSUME NEW x \in out, NEW y \in out, x.at < y.at
      PROVE  x.at + x.size <= y.at
  <2> DEFINE a == x.at
             b == y.at
             n == x.size
  <2>1. a \in Nat /\ b \in Nat /\ a < b
    BY <1>4, <1>7
  <2>2. /\ a \in DOMAIN f => n = f[a].size
        /\ a \notin DOMAIN f => n = FixLen /\ a \in C
        /\ b \notin DOMAIN f => b \in C
    BY <1>4
  <2> SUFFICES a + n <= b
    OBVIOUS
  <2> HIDE DEF a, b, n
  <2>3. CASE a \in DOMAIN f /\ b \in DOMAIN f
    BY <1>3, <2>1, <2>2, <2>3
  <2>4. CASE a \notin DOMAIN f /\ b \notin DOMAIN f
    BY <1>3, <2>1, <2>2, <2>4
  <2>5. CASE a \in DOMAIN f /\ b \notin DOMAIN f
    BY <1>2, <1>3, <2>1, <2>2, <2>5
  <2>6. CASE a \notin DOMAIN f /\ b \in DOMAIN f
    BY <1>2, <1>3, <2>1, <2>2, <2>6
  <2>7. QED
    BY <2>3, <2>4, <2>5, <2>6
<1>8. \A x, y \in out : x # y => x.at + x.size <= y.at \/ y.at + y.size <= x.at
  <2> SUFFICES ASSUME NEW x \in out, NEW y \in out, x # y
               PROVE  x.at + x.size <= y.at \/ y.at + y.size <= x.at
    OBVIOUS
  <2>1. x.at < y.at \/ y.at < x.at
    <3> DEFINE a == x.at
               b == y.at
    <3>1. a \in Nat /\ b \in Nat /\ a # b
      BY <1>4, <1>5
    <3> HIDE DEF a, b
    <3>2. a < b \/ b < a
      BY <3>1
    <3>3. QED
      BY <3>2 DEF a, b
  <2>2. QED
    BY <1>7, <2>1
<1>9. QED
  BY <1>4, <1>6, <1>8

\* What a step does to the users' objects: one more, one less, or the same.
LEMMA LiveStep ==
  ASSUME IInv, [Next]_vars
  PROVE  \/ live' = live
         \/ \E z : z \notin live /\ live' = live \cup {z}
         \/ \E z \in live : live' = live \ {z}
<1>1. ASSUME NEW r \in Requests, AllocGints(r)
      PROVE  live' = live \/ \E z : live' = live \cup {z}
  <2>1. PICK at \in Nat, n \in Nat : HandedOut(h', CellsOf(h.obj, h.freelist, live), at, n)
    BY <1>1, AllocGintsMem
  <2>2. QED
    BY <2>1 DEF HandedOut
<1>2. ASSUME AllocFix PROVE live' = live \/ \E z : live' = live \cup {z}
  BY <1>2, AllocFixMem
<1>3. ASSUME NEW x \in live, FreeObject(x) \/ FreeFix(x) PROVE live' = live \ {x}
  BY <1>3 DEF FreeObject, FreeFix
<1>4. (\E z : live' = live \cup {z}) => live' = live \/ \E z : z \notin live /\ live' = live \cup {z}
  <2> SUFFICES ASSUME NEW z, live' = live \cup {z}
               PROVE  live' = live \/ (z \notin live /\ live' = live \cup {z})
    OBVIOUS
  <2>1. QED
    OBVIOUS
<1>5. UNCHANGED vars => live' = live
  BY DEF vars
<1>6. QED
  BY <1>1, <1>2, <1>3, <1>4, <1>5 DEF Next

\* Every step of the allocator is one of the heap, or none of it.
LEMMA HeapStep == IInv /\ IInv' /\ [Next]_vars => [H!Next]_live
<1> SUFFICES ASSUME IInv, IInv', [Next]_vars, live' # live PROVE H!Next
  OBVIOUS
<1>1. CASE \E z : z \notin live /\ live' = live \cup {z}
  <2>1. PICK z : z \notin live /\ live' = live \cup {z}
    BY <1>1
  <2>2. Sound(h', live', lost')
    BY DEF IInv
  <2> DEFINE out == live'
  <2>3. /\ \A x \in out : /\ x = [at |-> x.at, size |-> x.size]
                           /\ x.at \in Nat /\ x.size \in Nat \ {0}
                           /\ Base <= x.at /\ x.at + x.size <= SegSize
        /\ \A x, y \in out : x # y => x.at + x.size <= y.at \/ y.at + y.size <= x.at
    BY <2>2, UsersApart
  <2> HIDE DEF out
  <2>4. Base \in Nat /\ SegSize \in Nat
    BY ConstantsNat
  <2>5. z \in out /\ \A x \in live : x \in out /\ x # z
    BY <2>1 DEF out
  <2>6. z \in H!Object
    <3> DEFINE a == z.at
               n == z.size
    <3>1. a \in Nat /\ n \in Nat \ {0} /\ Base <= a /\ a + n <= SegSize /\ z = [at |-> a, size |-> n]
      BY <2>3, <2>5
    <3> HIDE DEF a, n
    <3>2. a \in Base..(SegSize - 1) /\ n \in 1..SegSize
      BY <2>4, <3>1
    <3>3. QED
      BY <3>1, <3>2 DEF H!Object
  <2>7. H!Cells(z) \subseteq Base..(SegSize - 1)
    <3> DEFINE a == z.at
               n == z.size
    <3>1. a \in Nat /\ n \in Nat \ {0} /\ Base <= a /\ a + n <= SegSize
      BY <2>3, <2>5
    <3>2. H!Cells(z) = a..(a + n - 1)
      BY DEF H!Cells
    <3> HIDE DEF a, n
    <3>3. a..(a + n - 1) \subseteq Base..(SegSize - 1)
      BY <2>4, <3>1
    <3>4. QED
      BY <3>2, <3>3
  <2>8. \A x \in live : H!Cells(x) \cap H!Cells(z) = {}
    <3> SUFFICES ASSUME NEW x \in live PROVE H!Cells(x) \cap H!Cells(z) = {}
      OBVIOUS
    <3> DEFINE a == z.at
               n == z.size
               b == x.at
               m == x.size
    <3>1. a \in Nat /\ n \in Nat /\ b \in Nat /\ m \in Nat /\ (b + m <= a \/ a + n <= b)
      BY <2>3, <2>5
    <3>2. H!Cells(z) = a..(a + n - 1) /\ H!Cells(x) = b..(b + m - 1)
      BY DEF H!Cells
    <3> HIDE DEF a, n, b, m
    <3>3. (b..(b + m - 1)) \cap (a..(a + n - 1)) = {}
      BY <3>1
    <3>4. QED
      BY <3>2, <3>3
  <2>9. H!Alloc(z)
    BY <2>1, <2>7, <2>8 DEF H!Alloc
  <2>10. QED
    BY <2>5, <2>6, <2>9 DEF H!Next, out
<1>2. CASE \E z \in live : live' = live \ {z}
  BY <1>2 DEF H!Next, H!Free
<1>3. QED
  BY <1>1, <1>2, LiveStep

-----------------------------------------------------------------------------
\* The theorems.

\* The pieces, the lists and the users' objects agree in every reachable state.
THEOREM Invariance == Spec => []IInv
  BY InitSound, Step, PTL DEF Spec

\* Over any sequence of splits, merges, reuses and extensions, the objects tile the
\* subareas, and the lists hold just the free ones (wg_alloc_gints, wg_free_object).
THEOREM SegmentStaysSound == Spec => []SegmentSound
<1>1. IInv => SegmentSound
  BY TiledHolds, ListsHold DEF SegmentSound
<1>2. QED
  BY <1>1, Invariance, PTL

\* Whatever is neither free nor handed out was lost by a call that said so.
THEOREM NothingLeaks == Spec => []Accounted
  BY AccountedHolds, Invariance, PTL

\* The allocator is a heap: what it hands out overlaps nothing that is in use.
THEOREM Refinement == Spec => ImplementsHeap
<1>1. Init => H!Init
  BY DEF Init, H!Init
<1>2. QED
  BY <1>1, HeapStep, Invariance, PTL DEF ImplementsHeap, H!Spec, Spec

=============================================================================
