-------------------------- MODULE SpinLocksProofs ---------------------------
(***************************************************************************)
(* The spin locks of SpinLocks for any number of processes, either          *)
(* protocol, with and without timeouts: the words agree with the processes, *)
(* readers of WPSPIN yield to the writers that were there first, and both   *)
(* locks implement RWLock.                                                  *)
(***************************************************************************)
EXTENDS SpinLocks, FiniteSetTheorems, TLAPS

\* The labels of the counted readers and of the announced writers.
InCount == {"r_test", "r_spin", "r_in"}
InWriters == {"w_try", "w_spin", "w_swap", "w_in", "w_out"}

\* A writer inside is alone.
Exclusive ==
  \A p, q \in Procs : pc[p] = "w_in" /\ q # p => pc[q] \notin {"w_in", "r_in"}

\* Each protocol uses its own part of the labels.
Lanes ==
  \A p \in Procs : /\ RP => pc[p] # "w_out"
                   /\ WP => pc[p] \notin {"r_add", "r_test", "r_spin"}

\* WPSPIN: the writers a reader must yield to are still announced, and there are
\* none once it has seen the word of the writers at zero.
Yielding ==
  WP => \A p \in Procs : /\ before[p] \subseteq Announced
                         /\ pc[p] \in {"r_read", "r_swap", "r_in"} => before[p] = {}

IInv == TypeOK /\ WordsAgree /\ Exclusive /\ Lanes /\ Yielding

-----------------------------------------------------------------------------
(* Counting. *)

LEMMA Finite ==
  /\ IsFiniteSet(Counted) /\ Cardinality(Counted) \in Nat
  /\ IsFiniteSet(Announced) /\ Cardinality(Announced) \in Nat
<1>1. Counted \in SUBSET Procs /\ Announced \in SUBSET Procs
  BY DEF Counted, Announced
<1>2. QED
  BY <1>1, SLAssumption, FS_Subset, FS_CardinalityType

\* A set of processes that p may join or leave.
LEMMA OneMore ==
  ASSUME NEW S, NEW T, NEW p, IsFiniteSet(S), Cardinality(S) \in Nat,
         T = S \cup {p} \/ T = S \ {p}
  PROVE  Cardinality(T) = IF p \in T THEN IF p \in S THEN Cardinality(S) ELSE Cardinality(S) + 1
                                     ELSE IF p \in S THEN Cardinality(S) - 1 ELSE Cardinality(S)
<1>1. CASE T = S \cup {p}
  BY <1>1, FS_AddElement
<1>2. CASE T = S \ {p}
  BY <1>2, FS_RemoveElement
<1>3. QED
  BY <1>1, <1>2

\* The sets of counted readers and announced writers after a step of p.
LEMMA Moves ==
  ASSUME NEW p \in Procs, NEW l \in Labels, pc \in [Procs -> Labels],
         pc' = [pc EXCEPT ![p] = l]
  PROVE  /\ Counted' = IF l \in InCount THEN Counted \cup {p} ELSE Counted \ {p}
         /\ Announced' = IF l \in InWriters THEN Announced \cup {p} ELSE Announced \ {p}
         /\ p \in Counted <=> pc[p] \in InCount
         /\ p \in Announced <=> pc[p] \in InWriters
         /\ Cardinality(Counted') =
              IF l \in InCount
              THEN IF pc[p] \in InCount THEN Cardinality(Counted) ELSE Cardinality(Counted) + 1
              ELSE IF pc[p] \in InCount THEN Cardinality(Counted) - 1 ELSE Cardinality(Counted)
         /\ Cardinality(Announced') =
              IF l \in InWriters
              THEN IF pc[p] \in InWriters THEN Cardinality(Announced) ELSE Cardinality(Announced) + 1
              ELSE IF pc[p] \in InWriters THEN Cardinality(Announced) - 1 ELSE Cardinality(Announced)
<1>1. pc'[p] = l /\ \A q \in Procs : q # p => pc'[q] = pc[q]
  OBVIOUS
<1>2. /\ p \in Counted <=> pc[p] \in InCount
      /\ p \in Announced <=> pc[p] \in InWriters
  BY DEF Counted, Announced, InCount, InWriters
<1>3. Counted' = IF l \in InCount THEN Counted \cup {p} ELSE Counted \ {p}
  BY <1>1 DEF Counted, InCount
<1>4. Announced' = IF l \in InWriters THEN Announced \cup {p} ELSE Announced \ {p}
  BY <1>1 DEF Announced, InWriters
<1>5. p \in Counted' <=> l \in InCount
  BY <1>3
<1>6. p \in Announced' <=> l \in InWriters
  BY <1>4
<1>7. QED
  <2>1. Counted' = Counted \cup {p} \/ Counted' = Counted \ {p}
    BY <1>3
  <2>2. Announced' = Announced \cup {p} \/ Announced' = Announced \ {p}
    BY <1>4
  <2>3. Cardinality(Counted') = IF p \in Counted' THEN IF p \in Counted THEN Cardinality(Counted) ELSE Cardinality(Counted) + 1
                                     ELSE IF p \in Counted THEN Cardinality(Counted) - 1 ELSE Cardinality(Counted)
    BY <2>1, Finite, OneMore
  <2>4. Cardinality(Announced') = IF p \in Announced' THEN IF p \in Announced THEN Cardinality(Announced) ELSE Cardinality(Announced) + 1
                                     ELSE IF p \in Announced THEN Cardinality(Announced) - 1 ELSE Cardinality(Announced)
    BY <2>2, Finite, OneMore
  <2>5. QED
    BY <1>2, <1>3, <1>4, <1>5, <1>6, <2>3, <2>4

-----------------------------------------------------------------------------
(* The invariant. *)

LEMMA InitInv == Init => IInv
<1> SUFFICES ASSUME Init PROVE IInv
  OBVIOUS
<1>1. Counted = {} /\ Announced = {} /\ Cardinality({}) = 0
  BY FS_EmptySet DEF Init, Counted, Announced
<1>2. TypeOK
  BY DEF Init, TypeOK, Labels, Free
<1>3. WordsAgree
  BY <1>1 DEF Init, WordsAgree, Free
<1>4. QED
  BY <1>2, <1>3 DEF Init, IInv, Exclusive, Lanes, Yielding

\* What a step of p has to show, when it leads from one label to another.
LEMMA Preserves ==
  ASSUME IInv, NEW p \in Procs, NEW l \in Labels,
         build' = build,
         gl' \in [active : BOOLEAN, readers : Nat], writers' \in Nat,
         readers' \in [Procs -> Nat],
         before' \in [Procs -> SUBSET Procs],
         pc' = [pc EXCEPT ![p] = l],
         gl'.active <=> l = "w_in" \/ (gl.active /\ pc[p] # "w_in"),
         gl'.readers = IF l \in InCount
                       THEN IF pc[p] \in InCount THEN gl.readers ELSE gl.readers + 1
                       ELSE IF pc[p] \in InCount THEN gl.readers - 1 ELSE gl.readers,
         RP => writers' = writers,
         WP => writers' = IF l \in InWriters
                          THEN IF pc[p] \in InWriters THEN writers ELSE writers + 1
                          ELSE IF pc[p] \in InWriters THEN writers - 1 ELSE writers,
         l = "w_in" => gl = Free,
         l = "r_in" => ~gl.active,
         RP => l # "w_out",
         WP => l \notin {"r_add", "r_test", "r_spin"},
         WP => \A q \in Procs :
                 \/ before'[q] \subseteq before[q] /\ (l \in InWriters \/ pc[p] \notin InWriters)
                 \/ before'[q] = before[q] \ {p}
                 \/ q = p /\ before'[q] \subseteq Announced /\ pc[p] \notin InWriters,
         WP /\ l \in {"r_read", "r_swap", "r_in"} => before'[p] = {}
  PROVE  IInv'
<1>1. pc \in [Procs -> Labels]
  BY DEF IInv, TypeOK
<1>2. pc'[p] = l /\ \A q \in Procs : q # p => pc'[q] = pc[q]
  BY <1>1
<1>3. TypeOK'
  BY <1>1 DEF IInv, TypeOK
<1>4. WordsAgree'
  <2>1. gl'.active <=> \E q \in Procs : pc'[q] = "w_in"
    BY <1>2 DEF IInv, WordsAgree, Exclusive, TypeOK
  <2>2. gl.readers = Cardinality(Counted) /\ writers = IF WP THEN Cardinality(Announced) ELSE 0
    BY DEF IInv, WordsAgree
  <2>3. RP \/ WP
    BY SLAssumption DEF IInv, TypeOK, RP, WP
  <2>4. WP' <=> WP
    BY DEF WP
  <2>5. gl'.readers = Cardinality(Counted')
    BY <1>1, <2>2, Moves
  <2>6. writers' = IF WP THEN Cardinality(Announced') ELSE 0
    BY <1>1, <2>2, <2>3, Moves
  <2>7. QED
    BY <2>1, <2>4, <2>5, <2>6 DEF WordsAgree
<1>5. Exclusive'
  <2>1. ASSUME gl = Free PROVE \A q \in Procs : pc[q] \notin {"w_in", "r_in"}
    <3>1. Counted = {}
      BY <2>1, Finite, FS_EmptySet DEF IInv, WordsAgree, Free
    <3>2. QED
      BY <2>1, <3>1 DEF IInv, WordsAgree, Free, Counted
  <2>2. ASSUME ~gl.active PROVE \A q \in Procs : pc[q] # "w_in"
    BY <2>2 DEF IInv, WordsAgree
  <2>3. QED
    BY <1>2, <2>1, <2>2 DEF IInv, Exclusive
<1>6. Lanes'
  BY <1>2 DEF IInv, Lanes, RP, WP
<1>7. Yielding'
  <2>1. SUFFICES ASSUME WP, NEW q \in Procs
                 PROVE  /\ before'[q] \subseteq Announced'
                        /\ pc'[q] \in {"r_read", "r_swap", "r_in"} => before'[q] = {}
    BY DEF Yielding, WP
  <2>2. /\ before[q] \subseteq Announced
        /\ pc[q] \in {"r_read", "r_swap", "r_in"} => before[q] = {}
    BY <2>1 DEF IInv, Yielding
  <2>3. Announced' = IF l \in InWriters THEN Announced \cup {p} ELSE Announced \ {p}
    BY <1>1, Moves
  <2>4. p \in Announced <=> pc[p] \in InWriters
    BY <1>1, Moves
  <2>5. CASE q = p
    BY <1>2, <2>1, <2>2, <2>3, <2>4, <2>5
  <2>6. CASE q # p
    BY <1>2, <2>1, <2>2, <2>3, <2>4, <2>6
  <2>7. QED
    BY <2>5, <2>6
<1>8. QED
  BY <1>3, <1>4, <1>5, <1>6, <1>7 DEF IInv
\* A process that is counted or announced is seen in the words, and a release
\* never takes them below zero.
LEMMA Counts ==
  ASSUME IInv, NEW p \in Procs
  PROVE  /\ pc[p] \in InCount => gl.readers >= 1
         /\ WP /\ pc[p] \in InWriters => writers >= 1
         /\ WP /\ writers = 0 => Announced = {}
<1>1. pc[p] \in InCount => Counted # {}
  BY DEF InCount, Counted
<1>2. pc[p] \in InWriters => Announced # {}
  BY DEF InWriters, Announced
<1>3. /\ gl.readers = Cardinality(Counted)
      /\ WP => writers = Cardinality(Announced)
  BY DEF IInv, WordsAgree
<1>4. /\ Counted # {} => Cardinality(Counted) >= 1
      /\ Announced # {} => Cardinality(Announced) >= 1
      /\ Cardinality(Announced) = 0 => Announced = {}
  BY Finite, FS_EmptySet
<1>5. QED
  BY <1>1, <1>2, <1>3, <1>4

LEMMA StepInv ==
  ASSUME IInv, NEW p \in Procs,
         \/ Step(p) \/ RequestWrite(p) \/ RequestRead(p)
         \/ GiveUpWrite(p) \/ GiveUpCount(p) \/ GiveUpRead(p)
  PROVE  IInv'
<1> USE DEF InCount, InWriters, Goto
<1>1. /\ build \in [proto : {"RPSPIN", "WPSPIN"}, timeouts : BOOLEAN]
      /\ gl \in [active : BOOLEAN, readers : Nat] /\ writers \in Nat
      /\ pc \in [Procs -> Labels] /\ readers \in [Procs -> Nat]
      /\ before \in [Procs -> SUBSET Procs]
  BY SLAssumption DEF IInv, TypeOK
<1>2. /\ RP => pc[p] # "w_out"
      /\ WP => pc[p] \notin {"r_add", "r_test", "r_spin"}
      /\ ~(RP /\ WP) /\ (RP \/ WP)
  BY <1>1 DEF IInv, Lanes, RP, WP
<1>3. WP => \A q \in Procs : /\ before[q] \subseteq Announced
                             /\ pc[q] \in {"r_read", "r_swap", "r_in"} => before[q] = {}
  BY DEF IInv, Yielding
<1>4. p \notin Announced <=> pc[p] \notin InWriters
  BY DEF Announced
<1>5. /\ pc[p] \in InCount => gl.readers >= 1
      /\ WP /\ pc[p] \in InWriters => writers >= 1
      /\ WP /\ writers = 0 => Announced = {}
  BY Counts
<1>6. /\ gl.active <=> \E q \in Procs : pc[q] = "w_in"
  BY DEF IInv, WordsAgree
<1>7. /\ {"idle", "w_try", "w_spin", "w_swap", "w_in", "w_out"} \subseteq Labels
      /\ {"r_add", "r_test", "r_spin", "r_look", "r_wait", "r_read", "r_swap", "r_in"} \subseteq Labels
  BY DEF Labels
\* A step that changes no word and no history.
<1>8. ASSUME NEW l \in Labels, pc' = [pc EXCEPT ![p] = l], build' = build, gl' = gl,
             writers' = writers, readers' \in [Procs -> Nat], before' = before,
             l \in InCount <=> pc[p] \in InCount,
             l \in InWriters <=> pc[p] \in InWriters,
             l # "w_in", pc[p] # "w_in", l # "w_out",
             l = "r_in" => ~gl.active,
             WP => l \notin {"r_test", "r_spin", "r_add"},
             WP /\ l \in {"r_read", "r_swap", "r_in"} => before[p] = {}
      PROVE  IInv'
  BY <1>1, <1>8, Preserves
<1>9. CASE RequestWrite(p)
  <2>1. /\ pc[p] = "idle" /\ pc' = [pc EXCEPT ![p] = "w_try"]
        /\ writers' \in Nat /\ writers' = IF WP THEN writers + 1 ELSE writers
        /\ UNCHANGED <<build, gl, readers, before>>
    BY <1>1, <1>9 DEF RequestWrite, AddWriter
  <2>2. QED
    BY <1>1, <1>2, <1>7, <2>1, Preserves
<1>10. CASE TryWrite(p)
  <2>1. CASE gl = Free
    <3>1. gl' = Active
      BY <1>10, <2>1 DEF TryWrite, CompareAndSwap
    <3>2. /\ pc[p] \in InWriters /\ pc[p] # "w_in" /\ pc' = [pc EXCEPT ![p] = "w_in"]
          /\ gl'.active = TRUE /\ gl'.readers = gl.readers /\ gl' \in [active : BOOLEAN, readers : Nat]
          /\ UNCHANGED <<build, writers, readers, before>>
      BY <1>1, <1>10, <2>1, <3>1 DEF TryWrite, CompareAndSwap, Free, Active
    <3>3. QED
      BY <1>1, <1>2, <1>7, <2>1, <3>2, Preserves
  <2>2. CASE gl # Free
    BY <1>1, <1>2, <1>7, <1>10, <2>2, <1>8 DEF TryWrite, CompareAndSwap
  <2>3. QED
    BY <2>1, <2>2
<1>11. CASE SpinWrite(p)
  BY <1>1, <1>7, <1>11, <1>8 DEF SpinWrite
<1>12. CASE SwapWrite(p)
  <2>1. CASE gl = Free
    <3>1. gl' = Active
      BY <1>12, <2>1 DEF SwapWrite, CompareAndSwap
    <3>2. /\ pc[p] \in InWriters /\ pc[p] # "w_in" /\ pc' = [pc EXCEPT ![p] = "w_in"]
          /\ gl'.active = TRUE /\ gl'.readers = gl.readers /\ gl' \in [active : BOOLEAN, readers : Nat]
          /\ UNCHANGED <<build, writers, readers, before>>
      BY <1>1, <1>12, <2>1, <3>1 DEF SwapWrite, CompareAndSwap, Free, Active
    <3>3. QED
      BY <1>1, <1>2, <1>7, <2>1, <3>2, Preserves
  <2>2. CASE gl # Free
    BY <1>1, <1>2, <1>7, <1>12, <2>2, <1>8 DEF SwapWrite, CompareAndSwap
  <2>3. QED
    BY <2>1, <2>2
<1>13. CASE ReleaseWrite(p)
  <2>1. ~ \E q \in Procs : q # p /\ pc[q] = "w_in"
    BY <1>13 DEF ReleaseWrite, IInv, Exclusive
  <2>2. CASE WP
    <3>1. /\ pc[p] = "w_in" /\ pc' = [pc EXCEPT ![p] = "w_out"]
          /\ gl'.active = FALSE /\ gl'.readers = gl.readers /\ gl' \in [active : BOOLEAN, readers : Nat]
          /\ UNCHANGED <<build, writers, readers, before>>
      BY <1>1, <1>13, <2>2 DEF ReleaseWrite, Goto
    <3>2. "w_out" \in InWriters /\ "w_in" \in InWriters
          /\ "w_out" \notin InCount /\ "w_in" \notin InCount
      BY DEF InWriters, InCount
    <3>3. QED
      BY <1>1, <1>2, <1>7, <2>2, <3>1, <3>2, Preserves
  <2>3. CASE RP
    <3>1. gl' = [gl EXCEPT !.active = FALSE] /\ before' = [q \in Procs |-> before[q] \ {p}]
      BY <1>2, <1>13, <2>3 DEF ReleaseWrite, Left
    <3>2. /\ pc[p] = "w_in" /\ pc' = [pc EXCEPT ![p] = "idle"]
          /\ gl'.active = FALSE /\ gl'.readers = gl.readers /\ gl' \in [active : BOOLEAN, readers : Nat]
          /\ before' \in [Procs -> SUBSET Procs]
          /\ UNCHANGED <<build, writers, readers>>
      BY <1>1, <1>2, <1>13, <2>3, <3>1 DEF ReleaseWrite
    <3>3. QED
      BY <1>1, <1>2, <1>7, <2>3, <3>2, Preserves
  <2>4. QED
    BY <1>2, <2>2, <2>3
<1>14. CASE Unannounce(p)
  <2>1. /\ pc[p] = "w_out" /\ pc' = [pc EXCEPT ![p] = "idle"]
        /\ writers' \in Nat /\ writers' = IF WP THEN writers - 1 ELSE writers
        /\ before' \in [Procs -> SUBSET Procs]
        /\ \A q \in Procs : before'[q] = before[q] \ {p}
        /\ UNCHANGED <<build, gl, readers>>
    BY <1>1, <1>2, <1>5, <1>14 DEF Unannounce, AddWriter, Left
  <2>2. QED
    BY <1>1, <1>2, <1>7, <2>1, Preserves
<1>15. CASE GiveUpWrite(p)
  <2>1. /\ pc[p] = "w_spin" /\ pc' = [pc EXCEPT ![p] = "idle"]
        /\ writers' \in Nat /\ writers' = IF WP THEN writers - 1 ELSE writers
        /\ before' \in [Procs -> SUBSET Procs]
        /\ \A q \in Procs : before'[q] = before[q] \ {p}
        /\ UNCHANGED <<build, gl, readers>>
    BY <1>1, <1>2, <1>5, <1>15 DEF GiveUpWrite, AddWriter, Left
  <2>2. QED
    BY <1>1, <1>2, <1>7, <2>1, Preserves
<1>16. CASE RequestRead(p)
  BY <1>1, <1>2, <1>7, <1>16, Preserves DEF RequestRead, Announced
<1>17. CASE CountReader(p)
  <2>1. /\ pc[p] = "r_add" /\ pc' = [pc EXCEPT ![p] = "r_test"]
        /\ gl'.active = gl.active /\ gl'.readers = gl.readers + 1 /\ gl' \in [active : BOOLEAN, readers : Nat]
        /\ UNCHANGED <<build, writers, readers, before>>
    BY <1>1, <1>17 DEF CountReader, AddReader
  <2>2. QED
    BY <1>1, <1>2, <1>7, <2>1, Preserves
<1>18. CASE TestFlag(p)
  BY <1>1, <1>2, <1>7, <1>18, <1>8 DEF TestFlag
<1>19. CASE GiveUpCount(p)
  <2>1. /\ pc[p] = "r_spin" /\ pc' = [pc EXCEPT ![p] = "idle"]
        /\ gl'.active = gl.active /\ gl'.readers = gl.readers - 1 /\ gl' \in [active : BOOLEAN, readers : Nat]
        /\ before' \in [Procs -> SUBSET Procs] /\ before'[p] = {}
        /\ \A q \in Procs : q # p => before'[q] = before[q]
        /\ UNCHANGED <<build, writers, readers>>
    BY <1>1, <1>5, <1>19 DEF GiveUpCount, AddReader
  <2>2. QED
    BY <1>1, <1>2, <1>7, <2>1, Preserves
<1>20. CASE LookForWriters(p)
  <2>1. WP /\ writers = 0 => before[p] = {}
    BY <1>3, <1>5
  <2>2. QED
    BY <1>1, <1>7, <1>20, <2>1, <1>8 DEF LookForWriters
<1>21. CASE ReadCount(p)
  BY <1>1, <1>3, <1>7, <1>21, <1>8 DEF ReadCount
<1>22. CASE SwapRead(p)
  <2>1. WP => before[p] = {}
    BY <1>3, <1>22 DEF SwapRead
  <2>2. CASE gl = [active |-> FALSE, readers |-> readers[p]]
    <3>1. gl' = [active |-> FALSE, readers |-> readers[p] + 1]
      BY <1>22, <2>2 DEF SwapRead, CompareAndSwap
    <3>2. /\ pc[p] = "r_swap" /\ pc' = [pc EXCEPT ![p] = "r_in"]
          /\ gl.active = FALSE /\ gl'.active = FALSE /\ gl'.readers = gl.readers + 1
          /\ gl' \in [active : BOOLEAN, readers : Nat] /\ readers' \in [Procs -> Nat]
          /\ UNCHANGED <<build, writers, before>>
      BY <1>1, <1>22, <2>2, <3>1 DEF SwapRead, CompareAndSwap
    <3>3. QED
      BY <1>1, <1>2, <1>7, <2>1, <3>2, Preserves
  <2>3. CASE gl # [active |-> FALSE, readers |-> readers[p]]
    BY <1>1, <1>2, <1>7, <1>22, <2>1, <2>3, <1>8 DEF SwapRead, CompareAndSwap
  <2>4. QED
    BY <2>2, <2>3
<1>23. CASE GiveUpRead(p)
  BY <1>1, <1>2, <1>7, <1>23, Preserves DEF GiveUpRead
<1>24. CASE ReleaseRead(p)
  <2>1. /\ pc[p] = "r_in" /\ pc' = [pc EXCEPT ![p] = "idle"]
        /\ gl'.active = gl.active /\ gl'.readers = gl.readers - 1 /\ gl' \in [active : BOOLEAN, readers : Nat]
        /\ before' \in [Procs -> SUBSET Procs] /\ before'[p] = {}
        /\ \A q \in Procs : q # p => before'[q] = before[q]
        /\ UNCHANGED <<build, writers, readers>>
    BY <1>1, <1>5, <1>24 DEF ReleaseRead, AddReader
  <2>2. QED
    BY <1>1, <1>2, <1>7, <2>1, Preserves
<1>25. QED
  BY <1>9, <1>10, <1>11, <1>12, <1>13, <1>14, <1>15, <1>16, <1>17, <1>18, <1>19, <1>20,
     <1>21, <1>22, <1>23, <1>24 DEF Step

LEMMA NextInv == IInv /\ [Next]_vars => IInv'
<1> SUFFICES ASSUME IInv, [Next]_vars PROVE IInv'
  OBVIOUS
<1>1. CASE Next
  BY <1>1, StepInv DEF Next
<1>2. CASE UNCHANGED vars
  BY <1>2 DEF vars, IInv, TypeOK, WordsAgree, Exclusive, Lanes, Yielding, Counted, Announced, RP, WP
<1>3. QED
  BY <1>1, <1>2

\* Every reachable state satisfies the invariant.
THEOREM Invariance == Spec => []IInv
<1>1. QED
  BY InitInv, NextInv, PTL DEF Spec

\* The variables keep their types.
THEOREM Typed == Spec => []TypeOK
<1>1. IInv => TypeOK
  BY DEF IInv
<1>2. QED
  BY <1>1, Invariance, PTL

\* The words agree with what the processes do: the flag is set exactly while a
\* writer is inside, and the counts are those of the readers and the writers.
THEOREM Words == Spec => []WordsAgree
<1>1. IInv => WordsAgree
  BY DEF IInv
<1>2. QED
  BY <1>1, Invariance, PTL

\* Under WPSPIN no reader gets in ahead of a writer that was waiting when the
\* reader came.
THEOREM Yield == Spec => []ReadersYield
<1>1. IInv => ReadersYield
  BY DEF IInv, Yielding, ReadersYield
<1>2. QED
  BY <1>1, Invariance, PTL

-----------------------------------------------------------------------------
(* The refinement. *)

\* A step of p is a grant that RWLock allows, a release, or nothing.
LEMMA StepRefines ==
  ASSUME IInv, IInv', NEW p \in Procs, NEW l \in Labels, pc' = [pc EXCEPT ![p] = l],
         pc[p] = "w_in" => l \notin {"w_in", "r_in"},
         pc[p] = "r_in" => l \notin {"w_in", "r_in"}
  PROVE  [RW!Next]_held
<1>1. pc \in [Procs -> Labels]
  BY DEF IInv, TypeOK
<1>2. /\ held \in [Procs -> {"none", "read", "write"}]
      /\ held' = [held EXCEPT ![p] = IF l = "w_in" THEN "write"
                                     ELSE IF l = "r_in" THEN "read" ELSE "none"]
      /\ \A q \in Procs : held[q] = "write" <=> pc[q] = "w_in"
      /\ \A q \in Procs : held[q] = "none" <=> pc[q] \notin {"w_in", "r_in"}
  BY <1>1 DEF held
<1>3. \A q, r \in Procs : pc'[q] = "w_in" /\ r # q => pc'[r] \notin {"w_in", "r_in"}
  BY DEF IInv, Exclusive
<1>4. pc'[p] = l /\ \A q \in Procs : q # p => pc'[q] = pc[q]
  BY <1>1
<1>5. CASE l = "w_in"
  <2>1. \A q \in Procs : held[q] = "none"
    BY <1>2, <1>3, <1>4, <1>5
  <2>2. RW!StartWrite(p)
    BY <1>2, <1>5, <2>1 DEF RW!StartWrite, RW!None, RW!Write
  <2>3. QED
    BY <2>2 DEF RW!Next
<1>6. CASE l = "r_in"
  <2>1. held[p] = "none" /\ \A q \in Procs : held[q] # "write"
    BY <1>2, <1>3, <1>4, <1>6
  <2>2. RW!StartRead(p)
    BY <1>2, <1>6, <2>1 DEF RW!StartRead, RW!None, RW!Read, RW!Write
  <2>3. QED
    BY <2>2 DEF RW!Next
<1>7. CASE l \notin {"w_in", "r_in"} /\ held[p] # "none"
  <2>1. RW!End(p)
    BY <1>2, <1>7 DEF RW!End, RW!None
  <2>2. QED
    BY <2>1 DEF RW!Next
<1>8. CASE l \notin {"w_in", "r_in"} /\ held[p] = "none"
  BY <1>2, <1>8
<1>9. QED
  BY <1>5, <1>6, <1>7, <1>8

LEMMA NextRefines ==
  ASSUME IInv, IInv', [Next]_vars
  PROVE  [RW!Next]_held
<1>1. pc \in [Procs -> Labels]
  BY DEF IInv, TypeOK
<1>2. CASE UNCHANGED vars
  BY <1>2 DEF vars, held
<1>3. ASSUME NEW p \in Procs,
             \/ Step(p) \/ RequestWrite(p) \/ RequestRead(p)
             \/ GiveUpWrite(p) \/ GiveUpCount(p) \/ GiveUpRead(p)
      PROVE  \E l \in Labels : /\ pc' = [pc EXCEPT ![p] = l]
                               /\ pc[p] \in {"w_in", "r_in"} => l \notin {"w_in", "r_in"}
  BY <1>3 DEF Step, RequestWrite, RequestRead, GiveUpWrite, GiveUpCount, GiveUpRead, TryWrite,
     SpinWrite, SwapWrite, ReleaseWrite, Unannounce, CountReader, TestFlag, LookForWriters,
     ReadCount, SwapRead, ReleaseRead, CompareAndSwap, Goto, Labels
<1>4. QED
  BY <1>2, <1>3, StepRefines DEF Next

\* Each spin lock is a shared/exclusive lock, for any number of processes and with
\* readers and writers that give up at any moment.
THEOREM Implementation == Spec => ImplementsRWLock
<1>1. Init => RW!Init
  BY DEF Init, held, RW!Init, RW!None
<1>2. IInv /\ IInv' /\ [Next]_vars => [RW!Next]_held
  BY NextRefines
<1>3. QED
  BY <1>1, <1>2, Invariance, PTL DEF Spec, ImplementsRWLock, RW!Spec
=============================================================================
