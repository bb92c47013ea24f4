-------------------------------- MODULE Heap --------------------------------
(***************************************************************************)
(* What the users of Db/dballoc.c rely on: an object that was handed out   *)
(* has at least the size that was asked for, lies in the segment, and      *)
(* overlaps no other object until it is freed.  A request may fail.        *)
(***************************************************************************)
EXTENDS Integers

CONSTANTS Segment,    \* the offsets that may be handed out
          Sizes       \* the sizes of objects

VARIABLE live         \* the objects handed out and not yet freed

Object == [at : Segment, size : Sizes]

Cells(o) == o.at .. (o.at + o.size - 1)

Init == live = {}

Alloc(o) ==
  /\ Cells(o) \subseteq Segment
  /\ \A x \in live : Cells(x) \cap Cells(o) = {}
  /\ live' = live \cup {o}

Free(o) == o \in live /\ live' = live \ {o}

Next ==
  \/ \E o \in Object \cap live' : Alloc(o)
  \/ \E o \in live : Free(o)

Spec == Init /\ [][Next]_live
=============================================================================
