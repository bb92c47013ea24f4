----------------------------- MODULE Allocator ------------------------------
(***************************************************************************)
(* The segment allocator of Db/dballoc.c: an area for objects of variable  *)
(* length (wg_alloc_gints, wg_free_object) and one for objects of a fixed  *)
(* length (wg_alloc_fixlen_object, wg_free_fixlen_object), which take      *)
(* their subareas from the same segment.                                   *)
(*                                                                         *)
(* An object of the variable area has a head with its size and two mark    *)
(* bits; a free one has its size at its end as well and is in the doubly   *)
(* linked list of a bucket: one bucket for each small size, then one for   *)
(* each power of two.  The designated victim is a piece that is neither in *)
(* use nor in a list; objects are cut off its beginning.  A used object    *)
(* knows by a mark bit that the object before it is free.                  *)
(*                                                                         *)
(* The unit is the gint of a 64 bit build, which is also the alignment of  *)
(* a subarea.  Offset 0 is the null reference.  h is the whole header and  *)
(* memory; the operators say what a part of the code makes of it.          *)
(***************************************************************************)
EXTENDS Integers, Sequences, FiniteSets

CONSTANTS
  Base,        \* dbh->free before the first subarea: the size of the header
  SegSize,     \* dbh->size
  Min,         \* MIN_VARLENOBJ_SIZE
  Exact,       \* EXACTBUCKETS_NR
  VarBuckets,  \* VARBUCKETS_NR
  MaxSubareas, \* SUBAREA_ARRAY_SIZE
  Subarea,     \* INITIAL_SUBAREA_SIZE, which is MINIMAL_SUBAREA_SIZE
  FixLen,      \* objlength of the area for objects of a fixed length
  Requests     \* the lengths wg_alloc_gints is called with

ASSUME AllocAssumption ==
  /\ {Base, SegSize, Min, Exact, VarBuckets, MaxSubareas, Subarea, FixLen} \subseteq Nat \ {0}
  /\ Requests \subseteq Nat
  /\ Subarea >= 3 * Min /\ Subarea >= FixLen
  /\ Base + 2 * Subarea < SegSize       \* else the segment is not created
  /\ \A n \in Exact..SegSize :            \* every size has a bucket
       \E i \in 0..(VarBuckets - 1) : n < Exact * 2^(i + 1) /\ (i = 0 \/ n >= Exact * 2^i)

VARIABLES
  h,       \* the header and the memory, see TypeOK
  live,    \* history: the objects handed out and not freed, with their sizes
  lost     \* history: the objects of failed calls of wg_free_object

vars == <<h, live, lost>>

Align == 1                        \* SUBAREA_ALIGNMENT_BYTES
Buckets == 0..(Exact + VarBuckets - 1)
AddressOf(b) == -1 - b            \* dbaddr(db, &freebuckets[b])

-----------------------------------------------------------------------------
\* Marks and lists.

Used(n) == [mark |-> "used", prevfree |-> FALSE, size |-> n, next |-> 0, prev |-> 0]
Special(n) == [Used(n) EXCEPT !.mark = "special"]

\* wg_freebuckets_index.
Index(n) ==
  IF n < Exact THEN n
  ELSE Exact + (CHOOSE i \in 0..(VarBuckets - 1) :
                  n < Exact * 2^(i + 1) /\ (i = 0 \/ n >= Exact * 2^i))

\* The object at o, if it is a used one, gets the mark prev-free or prev-used.
MarkPrev(g, o, free) ==
  IF g.obj[o].mark = "used" THEN [g EXCEPT !.obj[o].prevfree = free] ELSE g

\* An object becomes the first of its list.
Push(g, o, n) ==
  LET b == Index(n)
      first == g.bucket[b]
      head == [mark |-> "free", prevfree |-> FALSE, size |-> n, next |-> first, prev |-> AddressOf(b)]
  IN [g EXCEPT !.obj = [x \in DOMAIN @ \cup {o} |->
                          IF x = o THEN head
                          ELSE IF x = first THEN [@[x] EXCEPT !.prev = o] ELSE @[x]],
               !.bucket[b] = o]

\* Mutant: the object after a removed one keeps its pointer back.
UnlinkHalf(g, o) ==
  LET b == Index(g.obj[o].size) IN
  IF g.bucket[b] = o THEN [g EXCEPT !.bucket[b] = g.obj[o].next]
  ELSE [g EXCEPT !.obj[g.obj[o].prev].next = g.obj[o].next]

\* A free neighbour leaves its list.
Unlink(g, o) ==
  LET b == Index(g.obj[o].size)
      next == g.obj[o].next
      prev == g.obj[o].prev
      first == g.bucket[b] = o
  IN [g EXCEPT !.bucket[b] = IF first THEN next ELSE @,
               !.obj = [x \in DOMAIN @ |->
                          IF x = next THEN [@[x] EXCEPT !.prev = prev]
                          ELSE IF ~first /\ x = prev THEN [@[x] EXCEPT !.next = next] ELSE @[x]]]

-----------------------------------------------------------------------------
\* Subareas.

\* The objects at s become the object n at o.
Merge(g, s, o, n) ==
  [g EXCEPT !.obj = [x \in (DOMAIN @ \ s) \cup {o} |-> IF x = o THEN n ELSE @[x]]]

\* alloc_db_segmentchunk would not fail.
ChunkFits(g, n) == g.free + n < SegSize

\* init_db_subarea after alloc_db_segmentchunk: the area's new last subarea.
Carved(g, area, n) ==
  [g EXCEPT !.free = @ + n,
            !.subs[area] = Append(@, [at |-> g.free, size |-> n])]

LastSize(g, area) == g.subs[area][Len(g.subs[area])].size

\* make_subarea_freelist: every object of the new subarea, in order.
Listed(g, n) == [g EXCEPT !.freelist = [i \in 1..(n \div FixLen) |-> g.free + (i - 1) * FixLen]]

\* init_subarea_freespace: a marker at both ends, the rest is the victim; the
\* old victim goes to a list.
FreeSpace(g, at, n) ==
  LET size == n - (n % Min)                                  \* alignedsize
      put == IF g.dv # 0 /\ g.dvsize >= Min THEN Push(g, g.dv, g.dvsize) ELSE g
      marked == [x \in {at, at + Min, at + size - Min} |->
                   IF x = at + Min THEN Special(size - 2 * Min)
                   ELSE [Used(Min) EXCEPT !.mark = IF x = at THEN "start" ELSE "end"]]
  IN [put EXCEPT !.obj = [x \in DOMAIN @ \cup DOMAIN marked |->
                            IF x \in DOMAIN marked THEN marked[x] ELSE @[x]],
                 !.dv = at + Min, !.dvsize = size - 2 * Min]

\* The size of the next subarea: the last size doubled, doubled again until it is
\* large enough, and halved while the segment is too small for it; 0 if none.
NextSize(g, area, minsize) ==
  LET last == LastSize(g, area)
      Enough == {k \in 1..8 : last * 2^k >= minsize}
      top == CHOOSE k \in Enough : \A j \in Enough : k <= j
      Tries == {n \in minsize..SegSize : ChunkFits(g, n) /\ \E j \in 0..8 : n = (last * 2^top) \div 2^j}
  IN IF Len(g.subs[area]) = MaxSubareas \/ Tries = {} THEN 0
     ELSE CHOOSE n \in Tries : \A m \in Tries : n >= m

\* extend_varlen_area for an object of n gints.
ExtendVar(g, n) ==
  LET minsize == IF n + Align + 2 * Min < Subarea THEN Subarea ELSE n + Align + 2 * Min
      size == NextSize(g, "var", minsize)
  IN IF size = 0 THEN [g EXCEPT !.full = TRUE]
     ELSE FreeSpace(Carved(g, "var", size), g.free, size)

\* extend_fixedlen_area.
ExtendFix(g) ==
  LET size == NextSize(g, "fix", Subarea)
  IN IF size = 0 THEN [g EXCEPT !.full = TRUE] ELSE Carved(Listed(g, size), "fix", size)

NoMemory ==
  [free |-> Base, subs |-> [var |-> <<>>, fix |-> <<>>], obj |-> <<>>,
   bucket |-> [b \in Buckets |-> 0], dv |-> 0, dvsize |-> 0, freelist |-> <<>>, full |-> FALSE]

\* wg_init_db_memsegment_with_kb: the first subarea of both areas.
Init ==
  LET var == FreeSpace(Carved(NoMemory, "var", Subarea), Base, Subarea)
  IN /\ h = Carved(Listed(var, Subarea), "fix", Subarea)
     /\ live = {} /\ lost = {}

-----------------------------------------------------------------------------
\* wg_alloc_gints.

\* Mutant: the head of what is split off is not written.
SplitUnmarked(g, b, n) ==
  LET o == g.bucket[b]
      rest == g.obj[o].size - n
  IN Push([g EXCEPT !.bucket[b] = g.obj[o].next, !.obj[o].size = n], o + n, rest)

\* split_free: the first n gints of a list's first object are used, the rest
\* goes to the list of its size.  The pointer back of the second object in the
\* list is not changed.
Split(g, b, n) ==
  LET o == g.bucket[b]
      rest == g.obj[o].size - n
  IN Push([g EXCEPT !.bucket[b] = g.obj[o].next, !.obj[o] = Used(n)], o + n, rest)

\* An object cut off the beginning of the victim.
Cut(g, n) ==
  Merge([g EXCEPT !.dv = @ + n, !.dvsize = @ - n, !.obj[g.dv] = Used(n)],
        {}, g.dv + n, Special(g.dvsize - n))

\* The first object of a list is taken as it is.
Pop(g, b) ==
  LET o == g.bucket[b] IN
  [g EXCEPT !.bucket[b] = g.obj[o].next,
            !.obj = [x \in DOMAIN @ |->
                       IF x = o THEN Used(@[x].size)
                       ELSE IF x = g.obj[o].next THEN [@[x] EXCEPT !.prev = AddressOf(b)] ELSE @[x]]]

\* The lists from which an object of n gints could be taken or split off: only
\* the first object of each is looked at.
Suitable(g, n) ==
  {b \in Buckets : /\ b >= Index(n) /\ g.bucket[b] # 0
                   /\ LET s == g.obj[g.bucket[b]].size IN s = n \/ s >= n + Min}

\* The whole choice, in the order of the code: a list of just this size, the
\* victim, then the larger lists.  An object of a power-of-two list that has
\* just the right size does not clear the prev-free mark behind it.  The search
\* of the three nearest sizes never finds anything, as sizes are aligned.
Find(g, n) ==
  LET b == CHOOSE b \in Suitable(g, n) : \A c \in Suitable(g, n) : b <= c
      o == g.bucket[b]
  IN CASE n < Exact /\ g.bucket[n] # 0 ->
            [at |-> g.bucket[n], mem |-> MarkPrev(Pop(g, n), g.bucket[n] + n, FALSE)]
       [] ~(n < Exact /\ g.bucket[n] # 0) /\ g.dv # 0 /\ n = g.dvsize ->
            [at |-> g.dv, mem |-> [g EXCEPT !.obj[g.dv] = Used(n), !.dv = 0, !.dvsize = 0]]
       [] ~(n < Exact /\ g.bucket[n] # 0) /\ g.dv # 0 /\ n + Min <= g.dvsize ->
            [at |-> g.dv, mem |-> Cut(g, n)]
       [] OTHER ->
            IF Suitable(g, n) = {} THEN [at |-> 0, mem |-> g]
            ELSE [at |-> o, mem |-> IF g.obj[o].size = n THEN Pop(g, b) ELSE Split(g, b, n)]

\* The memory after k extensions.
Extended(n) == LET f[k \in 0..MaxSubareas] == IF k = 0 THEN h ELSE ExtendVar(f[k - 1], n) IN f

\* It looks, extends the area, and looks again, until it finds a place or the
\* area cannot be extended.
AllocGints(r) ==
  LET n == IF r <= Min THEN Min ELSE r                        \* usedbytes
      g == Extended(n)
      k == CHOOSE k \in 0..MaxSubareas :
             /\ g[k].full \/ Find(g[k], n).at # 0
             /\ \A j \in 0..(k - 1) : ~g[j].full /\ Find(g[j], n).at = 0
      found == Find(g[k], n)
  IN /\ h' = [(IF g[k].full THEN g[k] ELSE found.mem) EXCEPT !.full = FALSE]
     /\ live' = IF g[k].full THEN live ELSE live \cup {[at |-> found.at, size |-> n]}
     /\ UNCHANGED lost

-----------------------------------------------------------------------------
\* wg_free_object.

\* The free object whose end is at o, as the word before o tells.  If there is
\* none, that word is data of a used object; it is assumed not to pass the test.
Before(g, o) == {p \in DOMAIN g.obj : g.obj[p].mark = "free" /\ p + g.obj[p].size = o}

\* It should test that the head of the previous object repeats the size at its
\* end; it compares the size with the offset of the object.
PrevIsOk(g, p) == p = g.obj[p].size

\* The old victim goes to a list.
Retire(g) ==
  IF g.dv = 0 THEN g
  ELSE Push(MarkPrev(g, g.dv + g.dvsize, TRUE), g.dv, g.dvsize)

\* The last part: what is freed becomes the victim if it is larger, or is put
\* into a list.
Store(g, o, n) ==
  IF n > g.dvsize
  THEN [MarkPrev(Retire(g), o + n, FALSE) EXCEPT !.dv = o, !.dvsize = n, !.obj[o] = Special(n)]
  ELSE Push(g, o, n)

\* Mutant: the next object is merged but stays in its list.
MergeListed(g, o, n) ==
  LET x == o + n
      m == g.obj[x].size
  IN IF g.obj[x].mark = "free"
     THEN Store(Merge(g, {}, o, Used(n + m)), o, n + m)
     ELSE Store(MarkPrev(g, x, TRUE), o, n)

\* The part from the merge with the next object on, for what is freed: n gints at o.
MergeNext(g, o, n) ==
  LET x == o + n
      m == g.obj[x].size
  IN CASE g.obj[x].mark = "free" ->
            Store(Merge(Unlink(g, x), {x}, o, Used(n + m)), o, n + m)
       [] g.obj[x].mark = "special" /\ x = g.dv ->
            Merge([g EXCEPT !.dv = o, !.dvsize = n + @], {x}, o, Special(n + g.dvsize))
       [] OTHER -> Store(MarkPrev(g, x, TRUE), o, n)

\* The object follows the victim, which grows over it.
Grow(g, o, n) == Merge([g EXCEPT !.dvsize = @ + n], {o}, g.dv, Special(g.dvsize + n))

\* The memory after the object at o is freed; unchanged if the call fails.
Freed(o) ==
  LET n == h.obj[o].size
      p == CHOOSE p \in Before(h, o) : TRUE
      m == h.obj[p].size
  IN IF h.obj[o].prevfree
     THEN MergeNext(Merge(Unlink(h, p), {o}, p, Used(m + n)), p, m + n)
     ELSE IF h.dv # 0 /\ h.dv + h.dvsize = o THEN Grow(h, o, n)
     ELSE MergeNext(h, o, n)

\* The object is marked as one after a free object, but what is before it does not
\* pass the test: "notices corruption".
Refused(o) == h.obj[o].prevfree /\ ~ \E p \in Before(h, o) : PrevIsOk(h, p)

FreeObject(x) ==
  /\ x \in live /\ x.at \in DOMAIN h.obj
  /\ live' = live \ {x}
  /\ IF Refused(x.at)
     THEN lost' = lost \cup {x.at} /\ h' = h
     ELSE lost' = lost /\ h' = Freed(x.at)

-----------------------------------------------------------------------------
\* Objects of a fixed length.

\* wg_alloc_fixlen_object.
AllocFix ==
  LET g == IF h.freelist = <<>> THEN ExtendFix(h) ELSE h
      at == IF g.full THEN 0 ELSE Head(g.freelist)
  IN /\ h' = IF g.full THEN h ELSE [g EXCEPT !.freelist = Tail(@)]
     /\ live' = IF g.full THEN live ELSE live \cup {[at |-> at, size |-> FixLen]}
     /\ UNCHANGED lost

\* wg_free_fixlen_object and the functions for each of the areas.
FreeFix(x) ==
  /\ x \in live /\ x.at \notin DOMAIN h.obj
  /\ h' = [h EXCEPT !.freelist = <<x.at>> \o @]
  /\ live' = live \ {x}
  /\ UNCHANGED lost

Next ==
  \/ \E r \in Requests : AllocGints(r)
  \/ \E x \in live : FreeObject(x) \/ FreeFix(x)
  \/ AllocFix

Spec == Init /\ [][Next]_vars

-----------------------------------------------------------------------------
\* Properties.

Heads == [mark : {"used", "free", "special", "start", "end"}, prevfree : BOOLEAN,
          size : Nat, next : Nat, prev : Int]

Subs(area) == {h.subs[area][i] : i \in DOMAIN h.subs[area]}

\* Whatever was split and merged, the objects of the variable area tile its
\* subareas from the start marker to the end marker.
Tiled ==
  \A s \in Subs("var") :
    LET end == s.at + s.size - (s.size % Min)
        In == {o \in DOMAIN h.obj : s.at <= o /\ o < end}
    IN /\ s.at \in In /\ h.obj[s.at].mark = "start"
       /\ \A o \in In : LET x == o + h.obj[o].size IN
            /\ h.obj[o].size >= Min
            /\ x = end \/ x \in In
            /\ \A y \in In : ~(o < y /\ y < x)
            /\ x = end <=> h.obj[o].mark = "end"

\* The objects met from the bucket on.
ListOf(b) ==
  LET f[k \in 0..Cardinality(DOMAIN h.obj)] ==
        IF k = 0 THEN h.bucket[b] ELSE IF f[k - 1] = 0 THEN 0 ELSE h.obj[f[k - 1]].next
  IN f

\* The list of a bucket ends, holds just the free objects of its sizes, and every
\* object but the first points back to the one before it, which is what a merge
\* in the middle of the list relies on.  The victim is the one special piece.
ListsExact ==
  /\ \A b \in Buckets :
       LET f == ListOf(b) IN
         /\ f[Cardinality(DOMAIN h.obj)] = 0
         /\ {f[k] : k \in DOMAIN f} \ {0}
              = {o \in DOMAIN h.obj : h.obj[o].mark = "free" /\ Index(h.obj[o].size) = b}
         /\ \A k \in DOMAIN f : k > 0 /\ f[k] # 0 => h.obj[f[k]].prev = f[k - 1]
  /\ {o \in DOMAIN h.obj : h.obj[o].mark = "special"} = {h.dv} \ {0}
  /\ h.dv # 0 => h.obj[h.dv].size = h.dvsize

\* The tags, the tiles and the lists of free objects agree, over any sequence of
\* splits, merges, reuses and extensions.
SegmentSound == Tiled /\ ListsExact

\* No space is lost but by a call that said so: the used objects are those handed
\* out and those of failed calls; the cells of fixed length are free or handed out.
Accounted ==
  /\ {o \in DOMAIN h.obj : h.obj[o].mark = "used"}
       = {x.at : x \in {y \in live : y.at \in DOMAIN h.obj}} \cup lost
  /\ Cardinality({x \in live : x.at \notin DOMAIN h.obj}) + Len(h.freelist)
       = LET f[i \in 0..Len(h.subs["fix"])] ==
               IF i = 0 THEN 0 ELSE f[i - 1] + (h.subs["fix"][i].size \div FixLen)
         IN f[Len(h.subs["fix"])]

H == INSTANCE Heap WITH Segment <- Base..(SegSize - 1), Sizes <- 1..SegSize

\* Objects in use never overlap.
ImplementsHeap == H!Spec

\* "merges the freed object with free neighbours, if available" (the comment of
\* wg_free_object): freeing an object that was handed out succeeds.
FreeSucceeds == lost = {}
=============================================================================
