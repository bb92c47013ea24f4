-------------------------- MODULE TFQueueLockProofs --------------------------
(***************************************************************************)
(* Proofs about the task-fair queued lock, for any set of processes and    *)
(* any storage, with timeouts, signals and stale wakes at any moment.      *)
(*                                                                         *)
(* FUTEX_WAIT may let in a request that was not granted: at a signal, or   *)
(* at a wake meant for an earlier use of its cell.  From then on the lock  *)
(* does not exclude, as the run tfqueue_stale_wake shows; `early' records  *)
(* it.  What is about exclusion and order holds in every behaviour up to   *)
(* that moment; what is about cells and wakes holds beyond it.             *)
(***************************************************************************)
EXTENDS TFQueueLock, TLAPS

-----------------------------------------------------------------------------
\* The free list as a stack of distinct cells.

\* Popping a stack of distinct cells removes exactly its head.
LEMMA PopElements ==
  ASSUME NEW S, NEW s \in Seq(S), s # << >>, Distinct(s)
  PROVE  /\ Head(s) \in Elements(s)
         /\ Elements(Tail(s)) = Elements(s) \ {Head(s)}
         /\ Distinct(Tail(s))
         /\ Tail(s) \in Seq(S)
<1>1. Len(s) \in Nat /\ Len(s) > 0 /\ DOMAIN s = 1..Len(s)
  OBVIOUS
<1>2. Head(s) = s[1] /\ 1 \in DOMAIN s
  BY <1>1
<1>3. /\ Tail(s) \in Seq(S)
      /\ DOMAIN Tail(s) = 1..(Len(s) - 1)
      /\ \A i \in 1..(Len(s) - 1) : Tail(s)[i] = s[i+1] /\ i+1 \in DOMAIN s
  BY <1>1
<1>4. Elements(Tail(s)) = Elements(s) \ {Head(s)}
  <2>1. ASSUME NEW x \in Elements(Tail(s))
        PROVE  x \in Elements(s) \ {Head(s)}
    <3>1. PICK i \in 1..(Len(s) - 1) : x = s[i+1] /\ i+1 \in DOMAIN s
      BY <2>1, <1>3 DEF Elements
    <3>2. s[i+1] # s[1]
      BY <3>1, <1>1, <1>2 DEF Distinct
    <3>3. QED
      BY <3>1, <3>2, <1>2 DEF Elements
  <2>2. ASSUME NEW x \in Elements(s) \ {Head(s)}
        PROVE  x \in Elements(Tail(s))
    <3>1. PICK i \in DOMAIN s : x = s[i]
      BY <2>2 DEF Elements
    <3>2. i # 1 /\ i \in 1..Len(s)
      BY <3>1, <2>2, <1>1, <1>2
    <3>3. i - 1 \in 1..(Len(s) - 1) /\ Tail(s)[i-1] = s[i]
      BY <3>2, <1>1, <1>3
    <3>4. QED
      BY <3>1, <3>3, <1>3 DEF Elements
  <2>3. QED
    BY <2>1, <2>2
<1>5. Distinct(Tail(s))
  BY <1>1, <1>3 DEF Distinct
<1>6. QED
  BY <1>2, <1>3, <1>4, <1>5 DEF Elements

\* Pushing a cell that is not on the stack adds exactly it.
LEMMA PushElements ==
  ASSUME NEW S, NEW s \in Seq(S), NEW c \in S
  PROVE  /\ <<c>> \o s \in Seq(S)
         /\ Elements(<<c>> \o s) = Elements(s) \cup {c}
         /\ Distinct(s) /\ c \notin Elements(s) => Distinct(<<c>> \o s)
<1> DEFINE t == <<c>> \o s
<1>1. Len(s) \in Nat /\ DOMAIN s = 1..Len(s)
  OBVIOUS
<1>2. /\ t \in Seq(S)
      /\ DOMAIN t = 1..(Len(s) + 1)
      /\ t[1] = c
      /\ \A i \in 1..Len(s) : t[i+1] = s[i] /\ i+1 \in DOMAIN t
  BY <1>1
<1>3. \A i \in DOMAIN t : i # 1 => i-1 \in DOMAIN s /\ t[i] = s[i-1]
  BY <1>1, <1>2
<1> HIDE DEF t
<1>4. Elements(t) = Elements(s) \cup {c}
  <2>1. ASSUME NEW x \in Elements(t)
        PROVE  x \in Elements(s) \cup {c}
    BY <2>1, <1>2, <1>3 DEF Elements
  <2>2. ASSUME NEW x \in Elements(s)
        PROVE  x \in Elements(t)
    BY <2>2, <1>1, <1>2 DEF Elements
  <2>3. c \in Elements(t)
    BY <1>1, <1>2 DEF Elements
  <2>4. QED
    BY <2>1, <2>2, <2>3
<1>5. ASSUME Distinct(s), c \notin Elements(s)
      PROVE  Distinct(t)
  <2>1. \A i \in DOMAIN t : i # 1 => t[i] # t[1]
    BY <1>5, <1>2, <1>3 DEF Elements
  <2>2. \A i, j \in DOMAIN t : i # 1 /\ j # 1 /\ t[i] = t[j] => i = j
    BY <1>5, <1>1, <1>2, <1>3 DEF Distinct
  <2>3. QED
    BY <2>1, <2>2 DEF Distinct
<1>6. QED
  BY <1>2, <1>4, <1>5 DEF t

\* The cells in use are cells.
LEMMA QueuedCells == TypeOK => Queued \subseteq Cells /\ Nil \notin Queued
  BY TFAssumption DEF TypeOK, Queued

-----------------------------------------------------------------------------
\* The inductive invariant.

\* A process has a cell of the queue exactly while its request is there, and
\* no two processes have the same.
Ownership ==
  /\ \A p \in Procs : (pc[p] \in Inside) = (lock[p] # Nil)
  /\ \A p \in Procs : lock[p] # Nil => lock[p] \in Queued
  /\ \A p, q \in Procs : lock[p] = lock[q] /\ lock[p] # Nil => p = q

\* The history is a strict total order on the queued cells.
ArrivalOrder ==
  /\ \A c \in Queued : ahead[c] \subseteq Queued /\ c \notin ahead[c]
  /\ \A c, d \in Queued : c # d => c \in ahead[d] \/ d \in ahead[c]

\* Places that are reached only with a granted cell; only by a reader.
Holding  == {"chain_q", "chain", "chain_wake", "cs", "rel_q", "rel"}
Chaining == {"chain_q", "chain", "chain_wake"}

\* What a process knows of its own cell without looking at it.
Knowledge ==
  \A p \in Procs :
    /\ pc[p] \in Inside => node[lock[p]].class = class[p]
    /\ pc[p] \in Holding => node[lock[p]].waiting = 0
    /\ pc[p] \in Chaining => class[p] = READ

IInv ==
  /\ TypeOK
  /\ Distinct(freelist)
  /\ Ownership
  /\ QueueShape
  /\ ArrivalOrder
  /\ GrantOrder
  /\ Knowledge

-----------------------------------------------------------------------------
\* The initial states satisfy the invariant.
LEMMA InitInv == Init => IInv
<1> SUFFICES ASSUME Init PROVE IInv
  OBVIOUS
<1> USE TFAssumption DEF Init
<1>1. Queued = {}
  BY DEF Queued, Cells
<1>2. TypeOK
  <2>1. storage \subseteq Cells
    BY DEF Elements, Cells
  <2>2. freelist \in Seq(Cells)
    OBVIOUS
  <2>3. \A i \in 1..Len(freelist) : freelist[i] \in storage
    BY <2>2 DEF Elements
  <2>4. freelist \in Seq(storage)
    BY <2>2, <2>3
  <2>5. QED
    BY <2>1, <2>4 DEF TypeOK, Node, READ, WRITE, Outside, Inside
<1>3. Ownership
  BY DEF Ownership, Inside
<1>4. Knowledge
  BY DEF Knowledge, Inside, Holding, Chaining
<1>5. QED
  BY <1>1, <1>2, <1>3, <1>4 DEF IInv, QueueShape, ArrivalOrder, GrantOrder, Granted

-----------------------------------------------------------------------------
\* Steps that leave the queue alone.

\* What IInv says of the queue is not disturbed by a step that changes neither
\* the queue nor the free list.
LEMMA SameQueue ==
  ASSUME IInv, UNCHANGED <<storage, freelist, tail, node, ahead>>
  PROVE  /\ Distinct(freelist)'
         /\ QueueShape'
         /\ ArrivalOrder'
         /\ GrantOrder'
         /\ Queued' = Queued
<1>1. Queued' = Queued
  BY DEF Queued, Elements
<1>2. Distinct(freelist)'
  BY DEF IInv, Distinct
<1>3. QED
  BY <1>1, <1>2 DEF IInv, QueueShape, ArrivalOrder, GrantOrder, Granted

\* A step that moves one process, with or without a cell, to a place where it
\* still has or still lacks one, and that a granted cell justifies.
LEMMA Moving ==
  ASSUME IInv, TypeOK', NEW p \in Procs,
         UNCHANGED <<storage, freelist, tail, node, lock, ahead>>,
         \A q \in Procs : q # p => pc'[q] = pc[q] /\ class'[q] = class[q],
         (pc'[p] \in Inside) = (pc[p] \in Inside),
         pc[p] \in Inside => class'[p] = class[p],
         pc'[p] \in Holding => node[lock[p]].waiting = 0,
         pc'[p] \in Chaining => class'[p] = READ
  PROVE  IInv'
<1>1. /\ Distinct(freelist)' /\ QueueShape' /\ ArrivalOrder' /\ GrantOrder'
      /\ Queued' = Queued
  BY SameQueue
<1>2. Ownership'
  BY <1>1 DEF IInv, Ownership
<1>3. Knowledge'
  BY DEF IInv, Knowledge
<1>4. QED
  BY <1>1, <1>2, <1>3 DEF IInv

-----------------------------------------------------------------------------
\* Steps that take a cell out of the queue.

\* The neighbours of a queued cell are queued, distinct from it and from each
\* other, and nobody but them points to it.
LEMMA Neighbours ==
  ASSUME IInv, NEW c \in Queued
  PROVE  /\ node[c].prev # c /\ node[c].next # c
         /\ node[c].prev # Nil => node[c].prev # node[c].next
         /\ (tail = c) <=> (node[c].next = Nil)
         /\ node[c].prev # Nil => ahead[c] = ahead[node[c].prev] \cup {node[c].prev}
         /\ \A d \in Queued : /\ node[d].next = c => d = node[c].prev
                              /\ node[d].prev = c => d = node[c].next
<1> USE DEF IInv, QueueShape, ArrivalOrder
<1>0. c # Nil /\ Nil \notin Queued
  BY TFAssumption DEF Queued
<1>1. \A d \in Queued : /\ node[d].next = c => d = node[c].prev
                        /\ node[d].prev = c => d = node[c].next
  BY <1>0
<1>2. node[c].prev # Nil => ahead[c] = ahead[node[c].prev] \cup {node[c].prev}
  BY <1>0
<1>3. node[c].next # Nil => node[c].next \in Queued /\ ahead[node[c].next] = ahead[c] \cup {c}
  BY <1>0
<1>4. node[c].prev # c
  BY <1>0, <1>2
<1>5. node[c].next # c
  BY <1>0, <1>3
<1>6. node[c].prev # Nil => node[c].prev # node[c].next
  <2>1. SUFFICES ASSUME node[c].prev # Nil, node[c].prev = node[c].next PROVE FALSE
    OBVIOUS
  <2>2. c \in ahead[node[c].prev]
    BY <2>1, <1>3
  <2>3. c \in ahead[c]
    BY <2>1, <2>2, <1>2
  <2>4. QED
    BY <2>3
<1>7. tail = c <=> node[c].next = Nil
  <2>1. ASSUME tail = c, node[c].next # Nil PROVE FALSE
    BY <2>1, <1>0, <1>3, <1>5
  <2>2. QED
    BY <2>1
<1>8. QED
  BY <1>1, <1>2, <1>4, <1>5, <1>6, <1>7

\* Unlinking a cell anywhere in the queue keeps its shape and the order of the
\* others, when the code's three updates (prev's next, next's prev, the tail)
\* are made together.
LEMMA UnlinkShape ==
  ASSUME IInv, TypeOK', NEW c \in Queued,
         Queued' = Queued \ {c},
         ahead' = [d \in Cells |-> ahead[d] \ {c}],
         tail' = IF node[c].next = Nil THEN node[c].prev ELSE tail,
         \A d \in Queued \ {c} :
           /\ node'[d].next = IF d = node[c].prev THEN node[c].next ELSE node[d].next
           /\ node'[d].prev = IF d = node[c].next THEN node[c].prev ELSE node[d].prev
  PROVE  QueueShape' /\ ArrivalOrder'
<1> DEFINE prev == node[c].prev
           next == node[c].next
<1>0. c # Nil /\ Nil \notin Queued /\ Queued \subseteq Cells
  BY QueuedCells DEF IInv
<1>1. /\ prev # c /\ next # c /\ (prev # Nil => prev # next)
      /\ (tail = c) <=> (next = Nil)
      /\ prev # Nil => ahead[c] = ahead[prev] \cup {prev}
      /\ \A d \in Queued : (node[d].next = c => d = prev) /\ (node[d].prev = c => d = next)
  BY Neighbours
<1>2. /\ prev = Nil => ahead[c] = {}
      /\ prev # Nil => prev \in Queued /\ c \notin ahead[prev] /\ prev \notin ahead[prev]
      /\ next # Nil => next \in Queued /\ ahead[next] = ahead[c] \cup {c}
      /\ c \notin ahead[c]
  <2>1. c \notin ahead[c]
    BY DEF IInv, ArrivalOrder
  <2>2. prev # Nil => prev \in Queued /\ c \notin ahead[prev] /\ prev \notin ahead[prev]
    BY <2>1, <1>1 DEF IInv, ArrivalOrder, QueueShape
  <2>3. QED
    BY <2>1, <2>2 DEF IInv, QueueShape
<1> HIDE DEF prev, next
<1>3. \A d \in Queued' : d \in Queued /\ d # c /\ ahead'[d] = ahead[d] \ {c}
  BY <1>0
<1>4. \A d \in Queued' :
        /\ node'[d].next = IF d = prev THEN next ELSE node[d].next
        /\ node'[d].prev = IF d = next THEN prev ELSE node[d].prev
  BY <1>3 DEF prev, next
<1>5. ArrivalOrder'
  BY <1>3, <1>0 DEF IInv, ArrivalOrder
<1>6. /\ tail' = Nil => Queued' = {}
      /\ tail' # Nil => tail' \in Queued' /\ ahead'[tail'] = Queued' \ {tail'}
  <2>0. tail # Nil /\ tail \in Queued /\ ahead[tail] = Queued \ {tail}
    BY DEF IInv, QueueShape
  <2>1. CASE next = Nil
    <3>1. tail = c /\ tail' = prev
      BY <2>1, <1>1 DEF prev, next
    <3>2. QED
      BY <3>1, <2>0, <1>1, <1>2, <1>3, <1>0
  <2>2. CASE next # Nil
    <3>1. tail' = tail /\ tail # c
      BY <2>2, <1>1 DEF next
    <3>2. QED
      BY <3>1, <2>0, <1>3
  <2>3. QED
    BY <2>1, <2>2
<1>7. ASSUME NEW d \in Queued' 
      PROVE  /\ node'[d].prev = Nil => ahead'[d] = {}
             /\ node'[d].prev # Nil => /\ node'[d].prev \in Queued'
                                       /\ node'[node'[d].prev].next = d
  <2>0. /\ node[d].prev = Nil => ahead[d] = {}
        /\ node[d].prev # Nil => node[d].prev \in Queued /\ node[node[d].prev].next = d
    BY <1>3 DEF IInv, QueueShape
  <2>1. CASE d = next
    BY <2>1, <1>0, <1>1, <1>2, <1>3, <1>4
  <2>2. CASE d # next
    <3>1. node'[d].prev = node[d].prev /\ node[d].prev # c
      BY <2>2, <1>1, <1>3, <1>4
    <3>2. ASSUME node[d].prev # Nil
          PROVE  node[d].prev \in Queued' /\ node[d].prev # prev
      <4>1. node[d].prev \in Queued' /\ node[node[d].prev].next = d
        BY <3>2, <3>1, <2>0
      <4>2. prev # Nil => node[prev].next = c
        BY DEF IInv, QueueShape, prev
      <4>3. QED
        BY <4>1, <4>2, <3>2, <1>3
    <3>3. QED
      BY <2>0, <3>1, <3>2, <1>3, <1>4
  <2>3. QED
    BY <2>1, <2>2
<1>8. ASSUME NEW d \in Queued'
      PROVE  /\ node'[d].next = Nil => d = tail'
             /\ node'[d].next # Nil =>
                  /\ node'[d].next \in Queued'
                  /\ node'[node'[d].next].prev = d
                  /\ ahead'[node'[d].next] = ahead'[d] \cup {d}
  <2>0. /\ node[d].next = Nil => d = tail
        /\ node[d].next # Nil => /\ node[d].next \in Queued
                                 /\ node[node[d].next].prev = d
                                 /\ ahead[node[d].next] = ahead[d] \cup {d}
    BY <1>3 DEF IInv, QueueShape
  <2>1. CASE d = prev
    <3>1. node'[d].next = next
      BY <2>1, <1>4
    <3>2. CASE next = Nil
      BY <3>1, <3>2, <2>1 DEF next, prev
    <3>3. CASE next # Nil
      <4>1. next \in Queued'
        BY <3>3, <1>0, <1>1, <1>2
      <4>2. node'[next].prev = d
        BY <4>1, <1>4, <2>1
      <4>3. ahead'[next] = ahead'[d] \cup {d}
        BY <4>1, <3>3, <2>1, <1>0, <1>1, <1>2, <1>3
      <4>4. QED
        BY <3>1, <3>3, <4>1, <4>2, <4>3
    <3>4. QED
      BY <3>2, <3>3
  <2>2. CASE d # prev
    <3>1. node'[d].next = node[d].next /\ node[d].next # c
      BY <2>2, <1>1, <1>3, <1>4
    <3>2. node[d].next = Nil => d = tail'
      BY <2>0, <1>1, <1>3 DEF next
    <3>3. ASSUME node[d].next # Nil
          PROVE  /\ node[d].next \in Queued'
                 /\ node'[node[d].next].prev = d
                 /\ ahead'[node[d].next] = ahead'[d] \cup {d}
      <4>1. node[d].next \in Queued' /\ node[d].next # next
        BY <3>3, <3>1, <2>0, <2>2, <1>0, <1>3 DEF next, IInv, QueueShape
      <4>2. QED
        BY <4>1, <3>3, <2>0, <1>3, <1>4
    <3>4. QED
      BY <3>1, <3>2, <3>3
  <2>3. QED
    BY <2>1, <2>2
<1>9. QED
  BY <1>5, <1>6, <1>7, <1>8 DEF QueueShape

-----------------------------------------------------------------------------
\* The steps that change the queue.

\* Freeing a queued cell.
LEMMA Freeing ==
  ASSUME IInv, NEW c \in Queued, FreeLock(c)
  PROVE  /\ storage' = storage /\ freelist' \in Seq(storage') /\ Distinct(freelist')
         /\ Queued' = Queued \ {c}
         /\ ahead' \in [Cells -> SUBSET Cells]
<1>1. c \in Cells /\ c \notin Elements(freelist)
  BY QueuedCells DEF Queued, IInv
<1>2. freelist \in Seq(storage) /\ Distinct(freelist)
  BY DEF IInv, TypeOK
<1>3. /\ freelist' \in Seq(storage') /\ Distinct(freelist')
      /\ Elements(freelist') = Elements(freelist) \cup {c}
  <2>1. c \in storage /\ storage' = storage
    BY DEF Queued, FreeLock
  <2>2. QED
    BY <1>1, <1>2, <2>1, PushElements DEF FreeLock
<1>4. Queued' = Queued \ {c}
  BY <1>3 DEF Queued, FreeLock
<1>5. ahead' \in [Cells -> SUBSET Cells]
  BY DEF FreeLock, IInv, TypeOK
<1>6. QED
  BY <1>3, <1>4, <1>5 DEF FreeLock

LEMMA EnqueueInv ==
  ASSUME IInv, NEW p \in Procs, Enqueue(p)
  PROVE  IInv'
<1> DEFINE c == Head(freelist)
<1> USE DEF Enqueue
<1>1. /\ c \in Cells /\ c \in Elements(freelist) /\ c \notin Queued /\ c # Nil
      /\ storage' = storage /\ freelist' \in Seq(storage') /\ Distinct(freelist')
      /\ Queued' = Queued \cup {c}
  <2>1. freelist \in Seq(storage) /\ Distinct(freelist) /\ freelist # << >>
    BY DEF IInv, TypeOK
  <2>2. c \in Elements(freelist) /\ Elements(Tail(freelist)) = Elements(freelist) \ {c}
    BY <2>1, PopElements
  <2>3. Distinct(Tail(freelist)) /\ Tail(freelist) \in Seq(storage)
    BY <2>1, PopElements
  <2>4. c \in storage /\ storage' = storage /\ c \in Cells
    BY <2>1 DEF IInv, TypeOK
  <2>5. Elements(freelist)' = Elements(freelist) \ {c}
    BY <2>2 DEF Elements
  <2>6. QED
    BY <2>2, <2>3, <2>4, <2>5, TFAssumption DEF Queued
<1>2. /\ tail' = c /\ lock' = [lock EXCEPT ![p] = c]
      /\ ahead' = [ahead EXCEPT ![c] = Queued]
      /\ pc' = [pc EXCEPT ![p] = "test"] /\ class' = class /\ syn_addr' = syn_addr
      /\ queue_lock' = Nil /\ pc[p] = "enq"
  BY DEF Goto
<1>3. \A d \in Cells : node'[d] =
        IF d = c THEN [class |-> class[p], waiting |-> IF MustWait(class[p]) THEN 1 ELSE 0,
                       next |-> Nil, prev |-> tail]
        ELSE IF d = tail THEN [node[d] EXCEPT !.next = c]
        ELSE node[d]
  OBVIOUS
<1>4. DOMAIN node' = Cells
  OBVIOUS
<1>5. class[p] \in {READ, WRITE} /\ tail \in Cells \cup {Nil} /\ node \in [Cells -> Node]
  BY DEF IInv, TypeOK
<1>6. node' \in [Cells -> Node]
  <2>1. \A d \in Cells : node'[d] \in Node
    BY <1>1, <1>3, <1>5 DEF Node
  <2>2. QED
    BY <2>1
<1> HIDE DEF c, Enqueue
<1>7. TypeOK'
  BY <1>1, <1>2, <1>6, <1>5 DEF IInv, TypeOK, Queued, Outside, Inside
<1>8. Ownership'
  BY <1>1, <1>2 DEF IInv, Ownership, TypeOK, Outside, Inside
<1>9. \A d \in Queued : /\ d \in Cells /\ d # c /\ ahead'[d] = ahead[d]
                        /\ node'[d].class = node[d].class
                        /\ node'[d].waiting = node[d].waiting
                        /\ node'[d].prev = node[d].prev
                        /\ node'[d].next = IF d = tail THEN c ELSE node[d].next
  <2>1. ahead \in [Cells -> SUBSET Cells]
    BY DEF IInv, TypeOK
  <2>2. SUFFICES ASSUME NEW d \in Queued
                 PROVE  /\ d \in Cells /\ d # c /\ ahead'[d] = ahead[d]
                        /\ node'[d].class = node[d].class
                        /\ node'[d].waiting = node[d].waiting
                        /\ node'[d].prev = node[d].prev
                        /\ node'[d].next = IF d = tail THEN c ELSE node[d].next
    OBVIOUS
  <2>3. d \in Cells /\ d # c /\ ahead'[d] = ahead[d]
    BY <2>1, <1>1, <1>2, QueuedCells DEF IInv
  <2>4. node'[d] = IF d = tail THEN [node[d] EXCEPT !.next = c] ELSE node[d]
    BY <2>3, <1>3
  <2>5. node[d] \in Node
    BY <2>3, <1>5
  <2>6. QED
    BY <2>3, <2>4, <2>5 DEF Node
<1>10. /\ node'[c].class = class[p] /\ node'[c].next = Nil /\ node'[c].prev = tail
       /\ node'[c].waiting = IF MustWait(class[p]) THEN 1 ELSE 0
       /\ ahead'[c] = Queued
  <2>1. node'[c] = [class |-> class[p], waiting |-> IF MustWait(class[p]) THEN 1 ELSE 0,
                    next |-> Nil, prev |-> tail]
    BY <1>1, <1>3
  <2>2. ahead'[c] = Queued
    BY <1>1, <1>2 DEF IInv, TypeOK
  <2>3. QED
    BY <2>1, <2>2
<1>11. ArrivalOrder'
  BY <1>1, <1>9, <1>10 DEF IInv, ArrivalOrder
<1>12. tail # Nil => tail \in Queued /\ ahead[tail] = Queued \ {tail}
  BY DEF IInv, QueueShape
<1>13. tail = Nil => Queued = {}
  BY DEF IInv, QueueShape
<1>14. QueueShape'
  <2>1. tail' # Nil /\ tail' \in Queued' /\ ahead'[tail'] = Queued' \ {tail'}
    BY <1>1, <1>2, <1>10
  <2>2. ASSUME NEW d \in Queued
        PROVE  /\ node'[d].prev = Nil => ahead'[d] = {}
               /\ node'[d].prev # Nil => /\ node'[d].prev \in Queued'
                                         /\ node'[node'[d].prev].next = d
    <3>1. /\ node[d].prev = Nil => ahead[d] = {}
          /\ node[d].prev # Nil => /\ node[d].prev \in Queued
                                   /\ node[node[d].prev].next = d
                                   /\ node[d].prev # tail
      <4>1. /\ node[d].prev = Nil => ahead[d] = {}
            /\ node[d].prev # Nil => node[d].prev \in Queued /\ node[node[d].prev].next = d
        BY DEF IInv, QueueShape
      <4>2. tail # Nil => node[tail].next = Nil
        BY Neighbours, <1>12
      <4>3. d # Nil
        BY QueuedCells DEF IInv
      <4>4. QED
        BY <4>1, <4>2, <4>3
    <3>2. QED
      BY <3>1, <1>1, <1>9
  <2>3. ASSUME NEW d \in Queued
        PROVE  /\ node'[d].next # Nil
               /\ node'[d].next \in Queued'
               /\ node'[node'[d].next].prev = d
               /\ ahead'[node'[d].next] = ahead'[d] \cup {d}
    <3>1. CASE d = tail
      <4>1. node'[d].next = c
        BY <3>1, <1>9
      <4>2. node'[c].prev = d /\ ahead'[c] = ahead'[d] \cup {d}
        <5>1. d # Nil
          BY QueuedCells DEF IInv
        <5>2. QED
          BY <5>1, <3>1, <1>9, <1>10, <1>12
      <4>3. QED
        BY <4>1, <4>2, <1>1
    <3>2. CASE d # tail
      BY <3>2, <1>1, <1>9, <1>12, QueuedCells DEF IInv, QueueShape
    <3>3. QED
      BY <3>1, <3>2
  <2>4. /\ node'[c].prev = Nil => ahead'[c] = {}
        /\ node'[c].prev # Nil => /\ node'[c].prev \in Queued'
                                  /\ node'[node'[c].prev].next = c
        /\ node'[c].next = Nil /\ c = tail'
    BY <1>1, <1>2, <1>9, <1>10, <1>12, <1>13
  <2>5. QED
    BY <2>1, <2>2, <2>3, <2>4, <1>1 DEF QueueShape
<1>15. GrantOrder'
  <2>1. ASSUME NEW d \in Queued, node'[d].waiting = 0
        PROVE  IF node'[d].class = WRITE THEN ahead'[d] = {}
               ELSE \A e \in ahead'[d] : node'[e].class = READ /\ node'[e].waiting = 0
    BY <2>1, <1>9 DEF IInv, GrantOrder, Granted, ArrivalOrder
  <2>2. ASSUME node'[c].waiting = 0
        PROVE  IF node'[c].class = WRITE THEN ahead'[c] = {}
               ELSE \A e \in ahead'[c] : node'[e].class = READ /\ node'[e].waiting = 0
    <3>1. ~ MustWait(class[p])
      BY <2>2, <1>10
    <3>2. CASE tail = Nil
      BY <3>2, <1>10, <1>13
    <3>3. CASE tail # Nil
      <4>1. class[p] = READ /\ node[tail].class = READ /\ node[tail].waiting = 0
        BY <3>1, <3>3 DEF MustWait
      <4>2. \A e \in ahead[tail] : node[e].class = READ /\ node[e].waiting = 0
        BY <4>1, <3>3, <1>12 DEF IInv, GrantOrder, Granted, READ, WRITE
      <4>3. \A e \in Queued : node[e].class = READ /\ node[e].waiting = 0
        BY <4>1, <4>2, <3>3, <1>12
      <4>4. QED
        BY <4>1, <4>3, <1>9, <1>10 DEF READ, WRITE
    <3>4. QED
      BY <3>2, <3>3
  <2>3. QED
    BY <2>1, <2>2, <1>1 DEF GrantOrder, Granted
<1>16. Knowledge'
  <2>1. ASSUME NEW q \in Procs, q # p
        PROVE  /\ pc'[q] \in Inside => node'[lock'[q]].class = class'[q]
               /\ pc'[q] \in Holding => node'[lock'[q]].waiting = 0
               /\ pc'[q] \in Chaining => class'[q] = READ
    <3>1. pc'[q] = pc[q] /\ lock'[q] = lock[q] /\ class'[q] = class[q]
      BY <2>1, <1>2 DEF IInv, TypeOK
    <3>2. pc[q] \in Inside => lock[q] \in Queued
      BY DEF IInv, Ownership
    <3>3. QED
      BY <3>1, <3>2, <1>9 DEF IInv, Knowledge, Holding, Chaining, Inside
  <2>2. /\ node'[lock'[p]].class = class'[p]
        /\ pc'[p] \notin Holding /\ pc'[p] \notin Chaining
    BY <1>2, <1>10 DEF IInv, TypeOK, Holding, Chaining
  <2>3. QED
    BY <2>1, <2>2 DEF Knowledge
<1>17. QED
  BY <1>1, <1>7, <1>8, <1>11, <1>14, <1>15, <1>16 DEF IInv

\* What is left of the invariant when a process gives its cell back: it holds
\* for the others because they have other cells.
LEMMA LeaverGone ==
  ASSUME IInv, NEW p \in Procs, lock[p] # Nil,
         NEW place \in {"idle", "rel_wake"},
         pc' = [pc EXCEPT ![p] = place],
         lock' = [lock EXCEPT ![p] = Nil],
         class' = class,
         Queued' = Queued \ {lock[p]},
         \A d \in Queued \ {lock[p]} : /\ node'[d].class = node[d].class
                                       /\ node[d].waiting = 0 => node'[d].waiting = 0
  PROVE  Ownership' /\ Knowledge'
<1>1. \A q \in Procs : q # p => pc'[q] = pc[q] /\ lock'[q] = lock[q]
  BY DEF IInv, TypeOK
<1>2. pc'[p] = place /\ lock'[p] = Nil /\ place \notin Inside
  BY DEF IInv, TypeOK, Inside
<1>3. \A q \in Procs : q # p /\ lock[q] # Nil => lock[q] \in Queued \ {lock[p]}
  BY DEF IInv, Ownership
<1>4. Ownership'
  BY <1>1, <1>2, <1>3 DEF IInv, Ownership
<1>5. ASSUME NEW q \in Procs
      PROVE  /\ pc'[q] \in Inside => node'[lock'[q]].class = class'[q]
             /\ pc'[q] \in Holding => node'[lock'[q]].waiting = 0
             /\ pc'[q] \in Chaining => class'[q] = READ
  <2>1. CASE q = p
    BY <2>1, <1>2 DEF Inside, Holding, Chaining
  <2>2. CASE q # p
    <3>1. pc[q] \in Inside => lock[q] \in Queued \ {lock[p]}
      BY <2>2, <1>3 DEF IInv, Ownership
    <3>2. QED
      BY <2>2, <3>1, <1>1 DEF IInv, Knowledge, Inside, Holding, Chaining
  <2>3. QED
    BY <2>1, <2>2
<1>6. QED
  BY <1>4, <1>5 DEF Knowledge

\* Taking out any cell, without granting another, keeps the order of grants.
LEMMA DequeueInv ==
  ASSUME IInv, NEW p \in Procs, Dequeue(p)
  PROVE  IInv'
<1> DEFINE c == lock[p]
           prev == node[c].prev
           next == node[c].next
<1>1. /\ FreeLock(c) /\ pc[p] = "deq" /\ pc' = [pc EXCEPT ![p] = "idle"]
      /\ lock' = [lock EXCEPT ![p] = Nil] /\ queue_lock' = Nil
      /\ class' = class /\ syn_addr' = syn_addr
      /\ tail' = IF next = Nil /\ tail = c THEN prev ELSE tail
      /\ node' = [d \in Cells |->
            IF d = prev THEN [node[d] EXCEPT !.next = next]
            ELSE IF d = next THEN [node[d] EXCEPT !.prev = prev]
            ELSE node[d]]
  BY DEF Dequeue, Goto
<1>2. c # Nil /\ c \in Queued /\ c \in Cells
  BY <1>1, QueuedCells DEF IInv, Ownership, Inside
<1>3. /\ storage' = storage /\ freelist' \in Seq(storage') /\ Distinct(freelist')
      /\ Queued' = Queued \ {c}
      /\ ahead' \in [Cells -> SUBSET Cells]
  BY <1>1, <1>2, Freeing
<1>4. ahead' = [d \in Cells |-> ahead[d] \ {c}]
  BY <1>1 DEF FreeLock
<1>5. prev \in Cells \cup {Nil} /\ next \in Cells \cup {Nil} /\ node \in [Cells -> Node]
  BY <1>2 DEF IInv, TypeOK, Node
<1>6. prev # Nil => prev # next
  BY <1>2, Neighbours
<1>7. (tail = c) <=> (next = Nil)
  BY <1>2, Neighbours
<1> HIDE DEF c, prev, next
<1>8. \A d \in Cells : /\ node'[d] \in Node
                       /\ node'[d].class = node[d].class
                       /\ node'[d].waiting = node[d].waiting
                       /\ node'[d].next = IF d = prev THEN next ELSE node[d].next
                       /\ node'[d].prev = IF d = next THEN prev ELSE node[d].prev
  <2>1. SUFFICES ASSUME NEW d \in Cells
                 PROVE  /\ node'[d] \in Node
                        /\ node'[d].class = node[d].class
                        /\ node'[d].waiting = node[d].waiting
                        /\ node'[d].next = IF d = prev THEN next ELSE node[d].next
                        /\ node'[d].prev = IF d = next THEN prev ELSE node[d].prev
    OBVIOUS
  <2>2. node'[d] = IF d = prev THEN [node[d] EXCEPT !.next = next]
                   ELSE IF d = next THEN [node[d] EXCEPT !.prev = prev]
                   ELSE node[d]
    BY <1>1
  <2>3. node[d] \in Node /\ d # Nil
    BY <1>5, TFAssumption
  <2>4. QED
    BY <2>2, <2>3, <1>5, <1>6 DEF Node
<1>9. TypeOK'
  <2>1. node' \in [Cells -> Node]
    BY <1>1, <1>8
  <2>2. QED
    BY <2>1, <1>1, <1>3, <1>5 DEF IInv, TypeOK, Outside, Inside
<1>10. QueueShape' /\ ArrivalOrder'
  <2>1. tail' = IF node[c].next = Nil THEN node[c].prev ELSE tail
    BY <1>1, <1>7 DEF prev, next
  <2>2. \A d \in Queued \ {c} :
          /\ node'[d].next = IF d = node[c].prev THEN node[c].next ELSE node[d].next
          /\ node'[d].prev = IF d = node[c].next THEN node[c].prev ELSE node[d].prev
    BY <1>8, QueuedCells DEF IInv, prev, next
  <2>3. QED
    BY <2>1, <2>2, <1>2, <1>3, <1>4, <1>9, UnlinkShape
<1>11. GrantOrder'
  BY <1>3, <1>4, <1>8, QueuedCells DEF IInv, GrantOrder, Granted, ArrivalOrder
<1>12. Ownership' /\ Knowledge'
  <2>1. \A d \in Queued \ {c} : /\ node'[d].class = node[d].class
                                /\ node[d].waiting = 0 => node'[d].waiting = 0
    BY <1>8, QueuedCells DEF IInv
  <2>2. QED
    BY <2>1, <1>1, <1>2, <1>3, LeaverGone DEF c
<1>13. QED
  BY <1>3, <1>9, <1>10, <1>11, <1>12 DEF IInv

\* A reader leaves, from anywhere in the queue: everybody ahead of it is a
\* granted reader, so a reader behind it may be granted, and a writer behind
\* it only if nobody is ahead.
LEMMA ReleaseReadInv ==
  ASSUME IInv, NEW p \in Procs, ReleaseRead(p)
  PROVE  IInv'
<1> DEFINE c == lock[p]
           prev == node[c].prev
           next == node[c].next
           grant == /\ next # Nil
                    /\ node[next].waiting = 1
                    /\ prev = Nil \/ node[next].class = READ
           place == IF (IF grant THEN next ELSE Nil) = Nil THEN "idle" ELSE "rel_wake"
<1>1. /\ FreeLock(c) /\ pc[p] = "rel" /\ class[p] = READ
      /\ pc' = [pc EXCEPT ![p] = place]
      /\ lock' = [lock EXCEPT ![p] = Nil] /\ queue_lock' = Nil /\ class' = class
      /\ syn_addr' = [syn_addr EXCEPT ![p] = IF grant THEN next ELSE Nil]
      /\ tail' = IF next = Nil /\ tail = c THEN prev ELSE tail
      /\ node' = [d \in Cells |->
            IF d = prev THEN [node[d] EXCEPT !.next = next]
            ELSE IF d = next THEN [node[d] EXCEPT !.prev = prev,
                                                  !.waiting = IF grant THEN 0 ELSE @]
            ELSE node[d]]
  BY DEF ReleaseRead, LeaveQueue, Goto
<1>2. /\ c # Nil /\ c \in Queued /\ c \in Cells
      /\ node[c].class = READ /\ node[c].waiting = 0
  BY <1>1, QueuedCells DEF IInv, Ownership, Knowledge, Inside, Holding
<1>3. /\ storage' = storage /\ freelist' \in Seq(storage') /\ Distinct(freelist')
      /\ Queued' = Queued \ {c}
      /\ ahead' \in [Cells -> SUBSET Cells]
  BY <1>1, <1>2, Freeing
<1>4. ahead' = [d \in Cells |-> ahead[d] \ {c}]
  BY <1>1 DEF FreeLock
<1>5. prev \in Cells \cup {Nil} /\ next \in Cells \cup {Nil} /\ node \in [Cells -> Node]
  BY <1>2 DEF IInv, TypeOK, Node
<1>6. prev # Nil => prev # next
  BY <1>2, Neighbours
<1>7. (tail = c) <=> (next = Nil)
  BY <1>2, Neighbours
<1>8. \A d \in ahead[c] : node[d].class = READ /\ node[d].waiting = 0
  BY <1>2 DEF IInv, GrantOrder, Granted, READ, WRITE
<1>9. /\ prev = Nil => ahead[c] = {}
      /\ next # Nil => next \in Queued /\ ahead[next] = ahead[c] \cup {c}
  BY <1>2 DEF IInv, QueueShape
<1>10. grant \in BOOLEAN /\ place \in {"idle", "rel_wake"}
  OBVIOUS
<1>11. grant => next # Nil /\ (prev = Nil \/ node[next].class = READ)
  OBVIOUS
<1> HIDE DEF c, prev, next, grant, place
<1>12. \A d \in Cells : /\ node'[d] \in Node
                        /\ node'[d].class = node[d].class
                        /\ node'[d].waiting = IF d = next /\ grant THEN 0 ELSE node[d].waiting
                        /\ node'[d].next = IF d = prev THEN next ELSE node[d].next
                        /\ node'[d].prev = IF d = next THEN prev ELSE node[d].prev
  <2>1. SUFFICES ASSUME NEW d \in Cells
                 PROVE  /\ node'[d] \in Node
                        /\ node'[d].class = node[d].class
                        /\ node'[d].waiting = IF d = next /\ grant THEN 0 ELSE node[d].waiting
                        /\ node'[d].next = IF d = prev THEN next ELSE node[d].next
                        /\ node'[d].prev = IF d = next THEN prev ELSE node[d].prev
    OBVIOUS
  <2>2. node'[d] = IF d = prev THEN [node[d] EXCEPT !.next = next]
                   ELSE IF d = next THEN [node[d] EXCEPT !.prev = prev,
                                            !.waiting = IF grant THEN 0 ELSE @]
                   ELSE node[d]
    BY <1>1
  <2>3. node[d] \in Node /\ d # Nil
    BY <1>5, TFAssumption
  <2>4. QED
    BY <2>2, <2>3, <1>5, <1>6, <1>10 DEF Node
<1>13. TypeOK'
  <2>1. node' \in [Cells -> Node]
    BY <1>1, <1>12
  <2>2. QED
    BY <2>1, <1>1, <1>3, <1>5, <1>10 DEF IInv, TypeOK, Outside, Inside
<1>14. QueueShape' /\ ArrivalOrder'
  <2>1. tail' = IF node[c].next = Nil THEN node[c].prev ELSE tail
    BY <1>1, <1>7 DEF prev, next
  <2>2. \A d \in Queued \ {c} :
          /\ node'[d].next = IF d = node[c].prev THEN node[c].next ELSE node[d].next
          /\ node'[d].prev = IF d = node[c].next THEN node[c].prev ELSE node[d].prev
    BY <1>12, QueuedCells DEF IInv, prev, next
  <2>3. QED
    BY <2>1, <2>2, <1>2, <1>3, <1>4, <1>13, UnlinkShape
<1>15. GrantOrder'
  <2>1. ASSUME NEW d \in Queued \ {c}, node'[d].waiting = 0
        PROVE  IF node'[d].class = WRITE THEN ahead'[d] = {}
               ELSE \A e \in ahead'[d] : node'[e].class = READ /\ node'[e].waiting = 0
    <3>0. /\ d \in Cells /\ ahead'[d] = ahead[d] \ {c} /\ ahead'[d] \subseteq Cells
          /\ node[d].class \in {READ, WRITE}
      BY <1>4, <1>5 DEF Queued, IInv, TypeOK, Node
    <3>1. CASE node[d].waiting = 0
      <4>1. IF node[d].class = WRITE THEN ahead[d] = {}
            ELSE \A e \in ahead[d] : node[e].class = READ /\ node[e].waiting = 0
        BY <3>1 DEF IInv, GrantOrder, Granted
      <4>2. QED
        BY <4>1, <3>0, <1>12
    <3>2. CASE node[d].waiting # 0
      <4>1. d = next /\ grant
        BY <3>0, <3>2, <2>1, <1>12
      <4>2. ahead'[d] = ahead[c] \ {c}
        BY <4>1, <3>0, <1>9, <1>11
      <4>3. \A e \in ahead'[d] : node'[e].class = READ /\ node'[e].waiting = 0
        BY <4>2, <3>0, <1>8, <1>12
      <4>4. node'[d].class = WRITE => prev = Nil
        BY <4>1, <3>0, <1>11, <1>12 DEF READ, WRITE
      <4>5. QED
        BY <4>2, <4>3, <4>4, <1>9
    <3>3. QED
      BY <3>1, <3>2
  <2>2. QED
    BY <2>1, <1>3 DEF GrantOrder, Granted
<1>16. Ownership' /\ Knowledge'
  <2>1. \A d \in Queued \ {c} : /\ node'[d].class = node[d].class
                                /\ node[d].waiting = 0 => node'[d].waiting = 0
    BY <1>12, QueuedCells DEF IInv
  <2>2. QED
    BY <2>1, <1>1, <1>2, <1>3, <1>10, LeaverGone DEF c
<1>17. QED
  BY <1>3, <1>13, <1>14, <1>15, <1>16 DEF IInv

\* A writer leaves: it is the head of the queue, and its successor becomes the
\* head and is granted.
LEMMA ReleaseWriteInv ==
  ASSUME IInv, NEW p \in Procs, ReleaseWrite(p)
  PROVE  IInv'
<1> DEFINE c == lock[p]
           prev == node[c].prev
           next == node[c].next
           place == IF next = Nil THEN "idle" ELSE "rel_wake"
<1>1. /\ FreeLock(c) /\ pc[p] = "rel" /\ class[p] = WRITE
      /\ pc' = [pc EXCEPT ![p] = place]
      /\ lock' = [lock EXCEPT ![p] = Nil] /\ queue_lock' = Nil /\ class' = class
      /\ syn_addr' = [syn_addr EXCEPT ![p] = next]
      /\ tail' = IF next = Nil /\ tail = c THEN Nil ELSE tail
      /\ node' = IF next = Nil THEN node
                 ELSE [node EXCEPT ![next].waiting = 0, ![next].prev = Nil]
  BY DEF ReleaseWrite, LeaveQueue, Goto
<1>2. /\ c # Nil /\ c \in Queued /\ c \in Cells
      /\ node[c].class = WRITE /\ node[c].waiting = 0
  BY <1>1, QueuedCells DEF IInv, Ownership, Knowledge, Inside, Holding
<1>3. /\ storage' = storage /\ freelist' \in Seq(storage') /\ Distinct(freelist')
      /\ Queued' = Queued \ {c}
      /\ ahead' \in [Cells -> SUBSET Cells]
  BY <1>1, <1>2, Freeing
<1>4. ahead' = [d \in Cells |-> ahead[d] \ {c}]
  BY <1>1 DEF FreeLock
<1>5. next \in Cells \cup {Nil} /\ node \in [Cells -> Node]
  BY <1>2 DEF IInv, TypeOK, Node
<1>6. ahead[c] = {}
  BY <1>2 DEF IInv, GrantOrder, Granted
<1>7. prev = Nil
  <2>1. prev # Nil => ahead[c] = ahead[prev] \cup {prev}
    BY <1>2, Neighbours
  <2>2. QED
    BY <2>1, <1>6
<1>8. (tail = c) <=> (next = Nil)
  BY <1>2, Neighbours
<1>9. next # Nil => next \in Queued /\ ahead[next] = ahead[c] \cup {c}
  BY <1>2 DEF IInv, QueueShape
<1>10. place \in {"idle", "rel_wake"}
  OBVIOUS
<1> HIDE DEF c, prev, next, place
<1>11. \A d \in Cells : /\ node'[d] \in Node
                        /\ node'[d].class = node[d].class
                        /\ node'[d].waiting = IF d = next THEN 0 ELSE node[d].waiting
                        /\ node'[d].next = node[d].next
                        /\ node'[d].prev = IF d = next THEN Nil ELSE node[d].prev
  <2>1. CASE next = Nil
    BY <2>1, <1>1, <1>5, TFAssumption
  <2>2. CASE next # Nil
    BY <2>2, <1>1, <1>5 DEF Node
  <2>3. QED
    BY <2>1, <2>2
<1>12. TypeOK'
  <2>1. node' \in [Cells -> Node]
    BY <1>1, <1>5, <1>11
  <2>2. QED
    BY <2>1, <1>1, <1>3, <1>5, <1>10 DEF IInv, TypeOK, Outside, Inside
<1>13. QueueShape' /\ ArrivalOrder'
  <2>1. tail' = IF node[c].next = Nil THEN node[c].prev ELSE tail
    BY <1>1, <1>7, <1>8 DEF prev, next
  <2>2. \A d \in Queued \ {c} :
          /\ node'[d].next = IF d = node[c].prev THEN node[c].next ELSE node[d].next
          /\ node'[d].prev = IF d = node[c].next THEN node[c].prev ELSE node[d].prev
    <3>1. \A d \in Queued : d \in Cells /\ d # Nil
      BY QueuedCells DEF IInv
    <3>2. QED
      BY <3>1, <1>7, <1>11 DEF prev, next
  <2>3. QED
    BY <2>1, <2>2, <1>2, <1>3, <1>4, <1>12, UnlinkShape
<1>14. GrantOrder'
  <2>1. ASSUME NEW d \in Queued \ {c}, node'[d].waiting = 0
        PROVE  IF node'[d].class = WRITE THEN ahead'[d] = {}
               ELSE \A e \in ahead'[d] : node'[e].class = READ /\ node'[e].waiting = 0
    <3>0. /\ d \in Cells /\ ahead'[d] = ahead[d] \ {c} /\ ahead[d] \subseteq Cells
      BY <1>4 DEF Queued, IInv, TypeOK
    <3>1. CASE d = next
      BY <3>1, <3>0, <1>6, <1>9, TFAssumption
    <3>2. CASE d # next
      <4>1. IF node[d].class = WRITE THEN ahead[d] = {}
            ELSE \A e \in ahead[d] : node[e].class = READ /\ node[e].waiting = 0
        BY <3>0, <3>2, <2>1, <1>11 DEF IInv, GrantOrder, Granted
      <4>2. QED
        BY <4>1, <3>0, <1>11
    <3>3. QED
      BY <3>1, <3>2
  <2>2. QED
    BY <2>1, <1>3 DEF GrantOrder, Granted
<1>15. Ownership' /\ Knowledge'
  <2>1. \A d \in Queued \ {c} : /\ node'[d].class = node[d].class
                                /\ node[d].waiting = 0 => node'[d].waiting = 0
    BY <1>11, QueuedCells DEF IInv
  <2>2. QED
    BY <2>1, <1>1, <1>2, <1>3, <1>10, LeaverGone DEF c
<1>16. QED
  BY <1>3, <1>12, <1>13, <1>14, <1>15 DEF IInv

\* A reader grants the reader behind it: everybody ahead of that one is ahead
\* of the first, or is the first.
LEMMA ChainReaderInv ==
  ASSUME IInv, NEW p \in Procs, ChainReader(p)
  PROVE  IInv'
<1> DEFINE c == lock[p]
           next == node[c].next
           grant == next # Nil /\ node[next].class = READ /\ node[next].waiting = 1
<1>1. /\ pc[p] = "chain" /\ queue_lock' = Nil
      /\ UNCHANGED <<storage, freelist, tail, class, lock, ahead>>
  BY DEF ChainReader
<1>2. /\ c # Nil /\ c \in Queued /\ c \in Cells /\ class[p] = READ
      /\ node[c].class = READ /\ node[c].waiting = 0
  BY <1>1, QueuedCells DEF IInv, Ownership, Knowledge, Inside, Holding, Chaining
<1>3. CASE ~ grant
  <2>1. node' = node /\ syn_addr' = syn_addr /\ pc' = [pc EXCEPT ![p] = "cs"]
    BY <1>3 DEF ChainReader, Goto
  <2>2. TypeOK'
    BY <2>1, <1>1 DEF IInv, TypeOK, Outside, Inside
  <2>3. pc'[p] = "cs" /\ \A q \in Procs : q # p => pc'[q] = pc[q] /\ class'[q] = class[q]
    BY <2>1, <1>1 DEF IInv, TypeOK
  <2>4. /\ (pc'[p] \in Inside) = (pc[p] \in Inside)
        /\ pc'[p] \notin Chaining
    BY <2>3, <1>1 DEF Inside, Chaining
  <2>5. QED
    BY <2>1, <2>2, <2>3, <2>4, <1>1, <1>2, Moving
<1>4. CASE grant
  <2>1. /\ node' = [node EXCEPT ![next].waiting = 0]
        /\ syn_addr' = [syn_addr EXCEPT ![p] = next]
        /\ pc' = [pc EXCEPT ![p] = "chain_wake"]
    BY <1>4 DEF ChainReader, Goto
  <2>2. /\ next \in Queued /\ next \in Cells /\ ahead[next] = ahead[c] \cup {c}
        /\ node[next].class = READ /\ node \in [Cells -> Node]
    BY <1>2, <1>4 DEF IInv, QueueShape, Queued, TypeOK
  <2>3. \A d \in ahead[c] : node[d].class = READ /\ node[d].waiting = 0
    BY <1>2 DEF IInv, GrantOrder, Granted, READ, WRITE
  <2> HIDE DEF c, next, grant
  <2>4. \A d \in Cells : /\ node'[d] \in Node
                         /\ node'[d].class = node[d].class
                         /\ node'[d].waiting = IF d = next THEN 0 ELSE node[d].waiting
                         /\ node'[d].next = node[d].next
                         /\ node'[d].prev = node[d].prev
    BY <2>1, <2>2 DEF Node
  <2>5. TypeOK'
    <3>1. node' \in [Cells -> Node]
      BY <2>1, <2>2, <2>4
    <3>2. QED
      BY <3>1, <2>1, <2>2, <1>1 DEF IInv, TypeOK, Outside, Inside
  <2>6. Queued' = Queued /\ Queued \subseteq Cells /\ Distinct(freelist)'
    BY <1>1, QueuedCells DEF Queued, Elements, IInv, Distinct
  <2>7. QueueShape' /\ ArrivalOrder'
    BY <1>1, <2>4, <2>6 DEF IInv, QueueShape, ArrivalOrder
  <2>8. GrantOrder'
    <3>1. ASSUME NEW d \in Queued, node'[d].waiting = 0
          PROVE  IF node'[d].class = WRITE THEN ahead[d] = {}
                 ELSE \A e \in ahead[d] : node'[e].class = READ /\ node'[e].waiting = 0
      <4>0. d \in Cells /\ ahead[d] \subseteq Cells
        BY <2>6 DEF IInv, TypeOK
      <4>1. CASE d = next
        BY <4>1, <4>0, <1>2, <2>2, <2>3, <2>4 DEF READ, WRITE
      <4>2. CASE d # next
        <5>1. IF node[d].class = WRITE THEN ahead[d] = {}
              ELSE \A e \in ahead[d] : node[e].class = READ /\ node[e].waiting = 0
          BY <4>0, <4>2, <3>1, <2>4 DEF IInv, GrantOrder, Granted
        <5>2. QED
          BY <5>1, <4>0, <2>4
      <4>3. QED
        BY <4>1, <4>2
    <3>2. QED
      BY <3>1, <2>6, <1>1 DEF GrantOrder, Granted
  <2>9. Ownership'
    BY <2>1, <2>6, <1>1 DEF IInv, Ownership, TypeOK, Inside
  <2>10. Knowledge'
    <3>1. \A q \in Procs : pc'[q] \in Inside => lock[q] \in Cells
      BY <2>9, <2>6, <1>1 DEF Ownership
    <3>2. \A q \in Procs : q # p => pc'[q] = pc[q]
      BY <2>1 DEF IInv, TypeOK
    <3>3. pc'[p] = "chain_wake"
      BY <2>1 DEF IInv, TypeOK
    <3>4. QED
      BY <3>1, <3>2, <3>3, <2>4, <1>1, <1>2
      DEF IInv, Knowledge, Inside, Holding, Chaining, c
  <2>11. QED
    BY <2>5, <2>6, <2>7, <2>8, <2>9, <2>10 DEF IInv
<1>5. QED
  BY <1>3, <1>4

\* A wake finds only a process whose cell was granted.
LEMMA FutexWakeInv ==
  ASSUME IInv, NEW p \in Procs, FutexWake(p), ~ early'
  PROVE  IInv'
<1> DEFINE on == IF pc[p] = "chain_wake" THEN "cs" ELSE "idle"
<1>1. /\ pc[p] \in {"chain_wake", "rel_wake"}
      /\ syn_addr' = [syn_addr EXCEPT ![p] = Nil]
      /\ UNCHANGED <<queue_lock, storage, freelist, tail, node, class, lock, ahead>>
  BY DEF FutexWake
<1>2. /\ on \in Outside \cup Inside
      /\ (on \in Inside) = (pc[p] \in Inside)
      /\ on \in Holding => node[lock[p]].waiting = 0
      /\ on \notin Chaining
  BY <1>1 DEF IInv, Knowledge, Outside, Inside, Holding, Chaining
<1>3. CASE pc' = [pc EXCEPT ![p] = on]
  <2>1. TypeOK'
    BY <1>1, <1>2, <1>3 DEF IInv, TypeOK
  <2>2. pc'[p] = on /\ \A q \in Procs : q # p => pc'[q] = pc[q] /\ class'[q] = class[q]
    BY <1>1, <1>3 DEF IInv, TypeOK
  <2> HIDE DEF on
  <2>3. QED
    BY <2>1, <2>2, <1>1, <1>2, Moving
<1>4. ASSUME NEW q \in Sleepers(syn_addr[p]),
             pc' = [pc EXCEPT ![p] = on, ![q] = AfterWait(q)], ~ Waits(q)
      PROVE  IInv'
  <2>1. /\ q \in Procs /\ pc[q] = "asleep" /\ q # p
        /\ node[lock[q]].waiting = 0
    <3>1. q \in Procs /\ pc[q] = "asleep" /\ q # p
      BY <1>1, <1>4 DEF Sleepers
    <3>2. QED
      BY <1>4, <3>1 DEF Waits, IInv, Ownership, TypeOK, Node, Inside, Queued
  <2>2. /\ AfterWait(q) \in {"cs", "chain_q"}
        /\ AfterWait(q) = "chain_q" => class[q] = READ
    BY <2>1 DEF AfterWait, IInv, TypeOK, READ, WRITE
  <2>3. /\ pc'[p] = on /\ pc'[q] = AfterWait(q)
        /\ \A r \in Procs : r # p /\ r # q => pc'[r] = pc[r]
    BY <1>4, <2>1 DEF IInv, TypeOK
  <2> HIDE DEF on
  <2>4. TypeOK'
    BY <1>1, <1>2, <1>4, <2>2 DEF IInv, TypeOK, Outside, Inside
  <2>5. /\ Distinct(freelist)' /\ QueueShape' /\ ArrivalOrder' /\ GrantOrder'
        /\ Queued' = Queued
    BY <1>1, SameQueue
  <2>6. Ownership'
    BY <1>1, <1>2, <2>1, <2>2, <2>3, <2>5 DEF IInv, Ownership, Inside
  <2>7. Knowledge'
    BY <1>1, <1>2, <2>1, <2>2, <2>3 DEF IInv, Knowledge, Inside, Holding, Chaining
  <2>8. QED
    BY <2>4, <2>5, <2>6, <2>7 DEF IInv
<1>5. QED
  BY <1>3, <1>4 DEF FutexWake, Goto

-----------------------------------------------------------------------------
\* Every step keeps the invariant.
LEMMA NextInv ==
  ASSUME IInv, [Next]_vars, ~ early'
  PROVE  IInv'
<1>1. CASE UNCHANGED vars
  <2>1. TypeOK' /\ Queued' = Queued
    BY <1>1 DEF vars, IInv, TypeOK, Queued, Elements
  <2>2. /\ Distinct(freelist)' /\ QueueShape' /\ ArrivalOrder' /\ GrantOrder'
    BY <1>1, SameQueue DEF vars
  <2>3. QED
    BY <1>1, <2>1, <2>2 DEF vars, IInv, Ownership, Knowledge
<1>2. ASSUME NEW p \in Procs, NEW cls \in {READ, WRITE}, Request(p, cls)
      PROVE  IInv'
  <2>1. TypeOK'
    BY <1>2 DEF Request, Goto, IInv, TypeOK, Outside
  <2>2. /\ pc[p] = "idle" /\ pc'[p] = "enq_q"
        /\ \A q \in Procs : q # p => pc'[q] = pc[q] /\ class'[q] = class[q]
        /\ UNCHANGED <<storage, freelist, tail, node, lock, ahead>>
    BY <1>2 DEF Request, Goto, IInv, TypeOK
  <2>3. pc[p] \notin Inside /\ pc'[p] \notin Inside \cup Holding \cup Chaining
    BY <2>2 DEF Inside, Holding, Chaining
  <2>4. QED
    BY <2>1, <2>2, <2>3, Moving
<1>3. ASSUME NEW p \in Procs, LockQueue(p)
      PROVE  IInv'
  <2>1. /\ pc[p] \in Spinning /\ pc' = [pc EXCEPT ![p] = Section[pc[p]]]
        /\ queue_lock' = p
        /\ UNCHANGED <<storage, freelist, tail, node, class, lock, syn_addr, ahead>>
    BY <1>3 DEF LockQueue, Goto
  <2>2. \/ pc[p] = "enq_q" /\ Section[pc[p]] = "enq"
        \/ pc[p] = "deq_q" /\ Section[pc[p]] = "deq"
        \/ pc[p] = "chain_q" /\ Section[pc[p]] = "chain"
        \/ pc[p] = "rel_q" /\ Section[pc[p]] = "rel"
    BY <2>1 DEF Spinning, Section
  <2>3. TypeOK'
    BY <2>1, <2>2 DEF IInv, TypeOK, Outside, Inside
  <2>4. /\ pc'[p] = Section[pc[p]]
        /\ \A q \in Procs : q # p => pc'[q] = pc[q] /\ class'[q] = class[q]
    BY <2>1 DEF IInv, TypeOK
  <2>5. /\ (pc'[p] \in Inside) = (pc[p] \in Inside)
        /\ pc'[p] \in Holding => node[lock[p]].waiting = 0
        /\ pc'[p] \in Chaining => class[p] = READ
    BY <2>2, <2>4 DEF IInv, Knowledge, Inside, Holding, Chaining
  <2>6. QED
    BY <2>1, <2>3, <2>4, <2>5, Moving
<1>4. ASSUME NEW p \in Procs, EnqueueFails(p)
      PROVE  IInv'
  <2>1. TypeOK'
    BY <1>4 DEF EnqueueFails, Goto, IInv, TypeOK, Outside
  <2>2. /\ pc[p] = "enq" /\ pc'[p] = "idle"
        /\ \A q \in Procs : q # p => pc'[q] = pc[q] /\ class'[q] = class[q]
        /\ UNCHANGED <<storage, freelist, tail, node, lock, ahead>>
    BY <1>4 DEF EnqueueFails, Goto, IInv, TypeOK
  <2>3. pc[p] \notin Inside /\ pc'[p] \notin Inside \cup Holding \cup Chaining
    BY <2>2 DEF Inside, Holding, Chaining
  <2>4. QED
    BY <2>1, <2>2, <2>3, Moving
<1>5. ASSUME NEW p \in Procs, TestWaiting(p)
      PROVE  IInv'
  <2>1. /\ pc[p] = "test"
        /\ pc'[p] = IF node[lock[p]].waiting = 0 THEN "cs" ELSE "futex"
        /\ \A q \in Procs : q # p => pc'[q] = pc[q] /\ class'[q] = class[q]
        /\ UNCHANGED <<storage, freelist, tail, node, class, lock, ahead>>
    BY <1>5 DEF TestWaiting, Goto, IInv, TypeOK
  <2>2. TypeOK'
    BY <1>5 DEF TestWaiting, Goto, IInv, TypeOK, Inside
  <2>3. /\ pc[p] \in Inside /\ pc'[p] \in Inside /\ pc'[p] \notin Chaining
        /\ pc'[p] \in Holding => node[lock[p]].waiting = 0
    BY <2>1 DEF Inside, Holding, Chaining
  <2>4. QED
    BY <2>1, <2>2, <2>3, Moving
<1>6. ASSUME NEW p \in Procs, FutexWait(p)
      PROVE  IInv'
  <2>1. /\ pc[p] = "futex"
        /\ pc' = [pc EXCEPT ![p] = IF node[lock[p]].waiting = 1 THEN "asleep" ELSE AfterWait(p)]
        /\ UNCHANGED <<queue_lock, storage, freelist, tail, node, class, lock, syn_addr, ahead>>
    BY <1>6 DEF FutexWait, Goto
  <2>2. node[lock[p]].waiting \in {0, 1}
    BY <2>1 DEF IInv, Ownership, TypeOK, Node, Inside, Queued
  <2>3. \/ AfterWait(p) = "cs"
        \/ AfterWait(p) = "chain_q" /\ class[p] = READ
    BY DEF AfterWait, IInv, TypeOK, READ, WRITE
  <2>4. TypeOK'
    BY <2>1, <2>3 DEF IInv, TypeOK, Inside
  <2>5. /\ pc'[p] = IF node[lock[p]].waiting = 1 THEN "asleep" ELSE AfterWait(p)
        /\ \A q \in Procs : q # p => pc'[q] = pc[q] /\ class'[q] = class[q]
    BY <2>1 DEF IInv, TypeOK
  <2>6. /\ pc[p] \in Inside /\ pc'[p] \in Inside
        /\ pc'[p] \in Holding => node[lock[p]].waiting = 0
        /\ pc'[p] \in Chaining => class[p] = READ
    BY <2>1, <2>2, <2>3, <2>5 DEF Inside, Holding, Chaining
  <2>7. QED
    BY <2>1, <2>4, <2>5, <2>6, Moving
<1>7. ASSUME NEW p \in Procs, FutexReturns(p)
      PROVE  IInv'
  <2>1. PICK place \in Returns(p) :
          /\ pc[p] = "asleep" /\ pc' = [pc EXCEPT ![p] = place]
          /\ early' = (early \/ (place # "deq_q" /\ Waits(p)))
          /\ UNCHANGED <<queue_lock, storage, freelist, tail, node, class, lock, syn_addr, ahead>>
    BY <1>7 DEF FutexReturns, Goto
  <2>0. /\ node[lock[p]].waiting \in {0, 1}
        /\ \/ place = "deq_q"
           \/ place \in {"cs", "chain_q"} /\ node[lock[p]].waiting = 0
        /\ place = "chain_q" => class[p] = READ
    <3>1. node[lock[p]].waiting \in {0, 1}
      BY <2>1 DEF IInv, Ownership, TypeOK, Node, Inside, Queued
    <3>2. place = "deq_q" \/ place = AfterWait(p)
      BY <2>1 DEF Returns
    <3>3. /\ AfterWait(p) \in {"cs", "chain_q"}
          /\ AfterWait(p) = "chain_q" => class[p] = READ
      BY DEF AfterWait, IInv, TypeOK, READ, WRITE
    <3>4. QED
      BY <2>1, <3>1, <3>2, <3>3 DEF Waits
  <2>2. TypeOK'
    BY <2>0, <2>1 DEF IInv, TypeOK, Inside
  <2>3. pc'[p] = place /\ \A q \in Procs : q # p => pc'[q] = pc[q] /\ class'[q] = class[q]
    BY <2>1 DEF IInv, TypeOK
  <2>4. /\ pc[p] \in Inside /\ pc'[p] \in Inside
        /\ pc'[p] \in Holding => node[lock[p]].waiting = 0
        /\ pc'[p] \in Chaining => class[p] = READ
    BY <2>0, <2>1, <2>3 DEF Inside, Holding, Chaining
  <2>5. QED
    BY <2>1, <2>2, <2>3, <2>4, Moving
<1>8. ASSUME NEW p \in Procs, Release(p)
      PROVE  IInv'
  <2>1. /\ pc[p] = "cs" /\ pc' = [pc EXCEPT ![p] = "rel_q"]
        /\ UNCHANGED <<queue_lock, storage, freelist, tail, node, class, lock, syn_addr, ahead>>
    BY <1>8 DEF Release, Goto
  <2>2. TypeOK'
    BY <2>1 DEF IInv, TypeOK, Inside
  <2>3. pc'[p] = "rel_q" /\ \A q \in Procs : q # p => pc'[q] = pc[q] /\ class'[q] = class[q]
    BY <2>1 DEF IInv, TypeOK
  <2>4. /\ pc[p] \in Inside /\ pc'[p] \in Inside /\ pc'[p] \notin Chaining
        /\ node[lock[p]].waiting = 0
    BY <2>1, <2>3 DEF IInv, Knowledge, Inside, Holding, Chaining
  <2>5. QED
    BY <2>1, <2>2, <2>3, <2>4, Moving
<1>9. QED
  BY <1>1, <1>2, <1>3, <1>4, <1>5, <1>6, <1>7, <1>8, EnqueueInv, DequeueInv,
     ReleaseReadInv, ReleaseWriteInv, ChainReaderInv, FutexWakeInv
  DEF Next, Step, Environment

\* A granted writer is alone at the head of the queue, and of two queued cells
\* one is ahead of the other.
LEMMA InvExcludes == IInv => MutualExclusion
<1> SUFFICES ASSUME IInv, NEW p \in Procs, NEW q \in Procs,
                    pc[p] = "cs", class[p] = WRITE, pc[q] = "cs", p # q
             PROVE  FALSE
  BY DEF MutualExclusion
<1>1. /\ lock[p] \in Queued /\ lock[q] \in Queued /\ lock[p] # lock[q]
  BY DEF IInv, Ownership, Inside
<1>2. /\ node[lock[p]].class = WRITE
      /\ node[lock[p]].waiting = 0 /\ node[lock[q]].waiting = 0
  BY DEF IInv, Knowledge, Inside, Holding
<1>3. ahead[lock[p]] = {}
  BY <1>1, <1>2 DEF IInv, GrantOrder, Granted
<1>4. lock[p] \in ahead[lock[q]]
  BY <1>1, <1>3 DEF IInv, ArrivalOrder
<1>5. QED
  BY <1>1, <1>2, <1>4 DEF IInv, GrantOrder, Granted, READ, WRITE

-----------------------------------------------------------------------------
\* The results.

\* An early return is never forgotten.
LEMMA EarlyStays == [Next]_vars => (early => early')
<1> SUFFICES ASSUME [Next]_vars, early PROVE early'
  OBVIOUS
<1>1. CASE UNCHANGED vars
  BY <1>1 DEF vars
<1>2. ASSUME NEW p \in Procs, Step(p) \/ Environment(p) PROVE early'
  <2>1. CASE LockQueue(p) \/ EnqueueFails(p) \/ Enqueue(p) \/ TestWaiting(p)
    BY <2>1 DEF LockQueue, EnqueueFails, Enqueue, TestWaiting
  <2>2. CASE FutexWait(p) \/ Dequeue(p) \/ ChainReader(p) \/ Release(p)
    BY <2>2 DEF FutexWait, Dequeue, ChainReader, Release
  <2>3. CASE ReleaseWrite(p) \/ ReleaseRead(p)
    BY <2>3 DEF ReleaseWrite, ReleaseRead, LeaveQueue
  <2>4. CASE FutexWake(p) \/ FutexReturns(p)
    BY <2>4 DEF FutexWake, FutexReturns
  <2>5. CASE \E cls \in {READ, WRITE} : Request(p, cls)
    BY <2>5 DEF Request
  <2>6. QED
    BY <1>2, <2>1, <2>2, <2>3, <2>4, <2>5 DEF Step, Environment
<1>3. QED
  BY <1>1, <1>2 DEF Next

\* The invariant holds in every reachable state until FUTEX_WAIT lets in a request
\* that was not granted, for any number of processes and cells, with timeouts, signals
\* and stale wakes at any moment.
THEOREM Invariance == Spec => [](~ early => IInv)
<1>1. Init => (~ early => IInv)
  BY InitInv
<1>2. (~ early => IInv) /\ [Next]_vars => (~ early => IInv)'
  <2> SUFFICES ASSUME ~ early => IInv, [Next]_vars, ~ early' PROVE IInv'
    OBVIOUS
  <2>1. IInv
    BY EarlyStays
  <2>2. QED
    BY <2>1, NextInv
<1>3. QED
  BY <1>1, <1>2, PTL DEF Spec

\* wg_start_write excludes every other transaction, as long as FUTEX_WAIT has let in
\* no request that was not granted: nothing else that the kernel or other processes do
\* can break the exclusion.
THEOREM Exclusion == Spec => [](~ early => MutualExclusion)
  BY Invariance, InvExcludes, PTL

\* The queue's links are the order of arrival, whoever leaves it and when, until
\* FUTEX_WAIT lets in a request that was not granted.
THEOREM Shape == Spec => [](~ early => QueueShape)
<1>1. IInv => QueueShape
  BY DEF IInv
<1>2. QED
  BY Invariance, <1>1, PTL

\* The lock is granted in the order of arrival, readers with readers, until FUTEX_WAIT
\* lets in a request that was not granted.
THEOREM OrderOfGrants == Spec => [](~ early => GrantOrder)
<1>1. IInv => GrantOrder
  BY DEF IInv
<1>2. QED
  BY Invariance, <1>1, PTL

-----------------------------------------------------------------------------
\* Cells and wakes.  These hold whatever FUTEX_WAIT returns and whenever: a
\* signal or a stale wake breaks the exclusion, but loses no cell and no sleeper.

\* Every cell off the free list is that of a process.
Claimed == \A c \in Queued : \E p \in Procs : lock[p] = c

\* Places of a process that has still to wake somebody.
Waking == {"chain_wake", "rel_wake"}

\* A process names a cell to wake only until it has done so.
OneWake == \A p \in Procs : pc[p] \notin Waking => syn_addr[p] = Nil

CInv ==
  /\ TypeOK
  /\ Distinct(freelist)
  /\ Ownership
  /\ Claimed
  /\ OneWake
  /\ WakePending

\* The initial states satisfy it.
LEMMA InitCells == Init => CInv
<1> SUFFICES ASSUME Init PROVE CInv
  OBVIOUS
<1>1. TypeOK /\ Distinct(freelist) /\ Ownership
  BY InitInv DEF IInv
<1>2. Queued = {}
  BY TFAssumption DEF Init, Queued, Cells
<1>3. QED
  BY <1>1, <1>2 DEF Init, CInv, Claimed, OneWake, WakePending

\* A step that leaves the cells where they are.
LEMMA SameCells ==
  ASSUME CInv, UNCHANGED <<storage, freelist, lock>>,
         \A q \in Procs : (pc'[q] \in Inside) = (pc[q] \in Inside)
  PROVE  Distinct(freelist)' /\ Ownership' /\ Claimed'
<1>1. Queued' = Queued /\ Distinct(freelist)'
  BY DEF Queued, Elements, Distinct, CInv
<1>2. QED
  BY <1>1 DEF CInv, Ownership, Claimed

\* A step of one process that wakes nobody: who sleeps after it has slept on the
\* same cell before, and if the cell is granted by this step the process is going
\* to wake its owner; or it is the process itself, on a cell that waits.
LEMMA SameWakes ==
  ASSUME CInv, NEW p \in Procs,
         \A q \in Procs : q # p => pc'[q] = pc[q] /\ syn_addr'[q] = syn_addr[q] /\ lock'[q] = lock[q],
         pc[p] \notin Waking,
         pc'[p] \notin Waking => syn_addr'[p] = Nil,
         pc'[p] = "asleep" => node'[lock'[p]].waiting # 0,
         \A q \in Procs : q # p /\ pc[q] = "asleep" /\ node'[lock[q]].waiting = 0
           => node[lock[q]].waiting = 0 \/ syn_addr'[p] = lock[q]
  PROVE  OneWake' /\ WakePending'
<1>1. OneWake'
  BY DEF CInv, OneWake
<1>2. ASSUME NEW q \in Procs, pc'[q] = "asleep", node'[lock'[q]].waiting = 0
      PROVE  \E w \in Procs : syn_addr'[w] = lock'[q]
  <2>1. q # p /\ pc[q] = "asleep" /\ lock'[q] = lock[q]
    BY <1>2
  <2>2. CASE syn_addr'[p] = lock[q]
    BY <2>1, <2>2
  <2>3. CASE node[lock[q]].waiting = 0
    <3>1. PICK w \in Procs : syn_addr[w] = lock[q]
      BY <2>1, <2>3 DEF CInv, WakePending
    <3>2. w # p
      BY <2>1, <3>1 DEF CInv, OneWake, Ownership, Inside
    <3>3. QED
      BY <2>1, <3>1, <3>2
  <2>4. QED
    BY <1>2, <2>1, <2>2, <2>3
<1>3. QED
  BY <1>1, <1>2 DEF WakePending

\* A step that does not touch the queue and moves one process that wakes nobody.
LEMMA MovingCells ==
  ASSUME CInv, TypeOK', NEW p \in Procs,
         UNCHANGED <<storage, freelist, node, lock, syn_addr>>,
         \A q \in Procs : q # p => pc'[q] = pc[q],
         (pc'[p] \in Inside) = (pc[p] \in Inside),
         pc[p] \notin Waking,
         pc'[p] = "asleep" => node[lock[p]].waiting # 0
  PROVE  CInv'
<1>1. Distinct(freelist)' /\ Ownership' /\ Claimed'
  BY SameCells
<1>2. syn_addr[p] = Nil
  BY DEF CInv, OneWake
<1>3. OneWake' /\ WakePending'
  BY <1>2, SameWakes
<1>4. QED
  BY <1>1, <1>3 DEF CInv

\* A process puts its cell back on the free list.
LEMMA CellReturned ==
  ASSUME CInv, NEW p \in Procs, NEW place \in Outside,
         pc[p] \in Inside, FreeLock(lock[p]),
         lock' = [lock EXCEPT ![p] = Nil],
         pc' = [pc EXCEPT ![p] = place]
  PROVE  /\ storage' = storage /\ freelist' \in Seq(storage') /\ ahead' \in [Cells -> SUBSET Cells]
         /\ Distinct(freelist)' /\ Ownership' /\ Claimed'
<1> DEFINE c == lock[p]
<1>1. c \in Queued /\ c \in Cells /\ c \notin Elements(freelist) /\ c # Nil
  BY QueuedCells DEF CInv, Ownership, Queued
<1>2. freelist \in Seq(storage) /\ Distinct(freelist)
  BY DEF CInv, TypeOK
<1>3. /\ freelist' \in Seq(storage') /\ Distinct(freelist')
      /\ Elements(freelist') = Elements(freelist) \cup {c}
  <2>1. c \in storage /\ storage' = storage
    BY <1>1 DEF Queued, FreeLock
  <2>2. QED
    BY <1>1, <1>2, <2>1, PushElements DEF FreeLock
<1>4. Queued' = Queued \ {c}
  BY <1>3 DEF Queued, FreeLock
<1>5. ahead' \in [Cells -> SUBSET Cells]
  BY DEF FreeLock, CInv, TypeOK
<1>6. /\ pc'[p] \notin Inside /\ lock'[p] = Nil
      /\ \A q \in Procs : q # p => pc'[q] = pc[q] /\ lock'[q] = lock[q]
  BY DEF CInv, TypeOK, Outside, Inside
<1>7. Ownership'
  BY <1>1, <1>4, <1>6 DEF CInv, Ownership
<1>8. Claimed'
  BY <1>4, <1>6 DEF CInv, Claimed
<1>9. QED
  BY <1>3, <1>5, <1>7, <1>8 DEF FreeLock

\* A process takes the first free cell.
LEMMA EnqueueCells ==
  ASSUME CInv, NEW p \in Procs, Enqueue(p)
  PROVE  CInv'
<1> DEFINE c == Head(freelist)
<1>1. /\ c \in Cells /\ c \notin Queued /\ c # Nil
      /\ storage' = storage /\ freelist' \in Seq(storage') /\ Distinct(freelist')
      /\ Queued' = Queued \cup {c}
  <2>1. freelist \in Seq(storage) /\ Distinct(freelist) /\ freelist # << >>
    BY DEF Enqueue, CInv, TypeOK
  <2>2. c \in Elements(freelist) /\ Elements(Tail(freelist)) = Elements(freelist) \ {c}
    BY <2>1, PopElements
  <2>3. Distinct(Tail(freelist)) /\ Tail(freelist) \in Seq(storage)
    BY <2>1, PopElements
  <2>4. c \in storage /\ storage' = storage /\ c \in Cells
    BY <2>1 DEF CInv, TypeOK, Enqueue
  <2>5. QED
    BY <2>2, <2>3, <2>4, TFAssumption DEF Queued, Enqueue
<1>2. /\ pc[p] = "enq" /\ pc' = [pc EXCEPT ![p] = "test"]
      /\ lock' = [lock EXCEPT ![p] = c]
      /\ ahead' = [ahead EXCEPT ![c] = Queued]
      /\ tail' = c /\ queue_lock' = Nil /\ UNCHANGED <<class, syn_addr>>
      /\ node' = [d \in Cells |->
            IF d = c THEN [class |-> class[p], waiting |-> IF MustWait(class[p]) THEN 1 ELSE 0,
                           next |-> Nil, prev |-> tail]
            ELSE IF d = tail THEN [node[d] EXCEPT !.next = c]
            ELSE node[d]]
  BY DEF Enqueue, Goto
<1> HIDE DEF c
<1>3. \A d \in Cells : node'[d] \in Node /\ (d # c => node'[d].waiting = node[d].waiting)
  <2>1. node \in [Cells -> Node] /\ tail \in Cells \cup {Nil} /\ class[p] \in {READ, WRITE}
    BY DEF CInv, TypeOK
  <2>2. ASSUME NEW d \in Cells
        PROVE  node'[d] \in Node /\ (d # c => node'[d].waiting = node[d].waiting)
    <3>1. node'[d] = IF d = c THEN [class |-> class[p], waiting |-> IF MustWait(class[p]) THEN 1 ELSE 0,
                                    next |-> Nil, prev |-> tail]
                     ELSE IF d = tail THEN [node[d] EXCEPT !.next = c]
                     ELSE node[d]
      BY <1>2
    <3>2. QED
      BY <1>1, <2>1, <3>1 DEF Node
  <2>3. QED
    BY <2>2
<1>4. TypeOK'
  <2>1. node' \in [Cells -> Node]
    BY <1>2, <1>3
  <2>2. ahead' \in [Cells -> SUBSET Cells]
    BY <1>1, <1>2 DEF CInv, TypeOK, Queued
  <2>3. QED
    BY <2>1, <2>2, <1>1, <1>2 DEF CInv, TypeOK, Outside, Inside
<1>5. /\ pc'[p] = "test" /\ lock'[p] = c
      /\ \A q \in Procs : q # p => pc'[q] = pc[q] /\ lock'[q] = lock[q] /\ lock[q] # c
  BY <1>1, <1>2 DEF CInv, TypeOK, Ownership
<1>6. pc[p] \notin Inside /\ lock[p] = Nil /\ syn_addr[p] = Nil
  BY <1>2 DEF CInv, Ownership, OneWake, Inside, Waking
<1>7. Ownership' /\ Claimed'
  <2>1. Ownership'
    BY <1>1, <1>5 DEF CInv, Ownership, Inside
  <2>2. Claimed'
    BY <1>1, <1>5, <1>6, QueuedCells DEF CInv, Claimed
  <2>3. QED
    BY <2>1, <2>2
<1>8. OneWake' /\ WakePending'
  <2>1. \A q \in Procs : q # p /\ pc[q] = "asleep" => lock[q] \in Cells /\ lock[q] # c
    BY <1>5, QueuedCells DEF CInv, Ownership, Inside
  <2>2. QED
    BY <2>1, <1>2, <1>3, <1>5, <1>6, SameWakes DEF Waking
<1>9. QED
  BY <1>1, <1>4, <1>7, <1>8 DEF CInv

\* What the links of a removed cell are set to, whatever they are, has the type of
\* a node; the words of its neighbours change only where the code says so.
LEMMA LinksTyped ==
  ASSUME CInv, NEW c \in Cells, NEW grant \in BOOLEAN,
         node' = [d \in Cells |->
            IF d = node[c].prev THEN [node[d] EXCEPT !.next = node[c].next]
            ELSE IF d = node[c].next
            THEN [node[d] EXCEPT !.prev = node[c].prev, !.waiting = IF grant THEN 0 ELSE @]
            ELSE node[d]]
  PROVE  /\ node' \in [Cells -> Node]
         /\ \A d \in Cells : node'[d].waiting = 0
              => node[d].waiting = 0 \/ (grant /\ d = node[c].next)
<1> DEFINE prev == node[c].prev
           next == node[c].next
<1>1. prev \in Cells \cup {Nil} /\ next \in Cells \cup {Nil} /\ node \in [Cells -> Node]
  BY DEF CInv, TypeOK, Node
<1>2. node' = [d \in Cells |->
            IF d = prev THEN [node[d] EXCEPT !.next = next]
            ELSE IF d = next
            THEN [node[d] EXCEPT !.prev = prev, !.waiting = IF grant THEN 0 ELSE @]
            ELSE node[d]]
  OBVIOUS
<1>3. SUFFICES ASSUME NEW d \in Cells
               PROVE  /\ node'[d] \in Node
                      /\ node'[d].waiting = 0
                           => node[d].waiting = 0 \/ (grant /\ d = next)
  BY <1>2
<1> HIDE DEF prev, next
<1>4. node[d] \in Node
  BY <1>1
<1>5. CASE d = prev
  <2>1. node'[d] = [node[d] EXCEPT !.next = next]
    BY <1>2, <1>5
  <2>2. QED
    BY <2>1, <1>1, <1>4 DEF Node
<1>6. CASE d # prev /\ d = next
  <2>1. node'[d] = [node[d] EXCEPT !.prev = prev, !.waiting = IF grant THEN 0 ELSE @]
    BY <1>2, <1>6
  <2>2. QED
    BY <2>1, <1>1, <1>4, <1>6 DEF Node
<1>7. CASE d # prev /\ d # next
  <2>1. node'[d] = node[d]
    BY <1>2, <1>7
  <2>2. QED
    BY <2>1, <1>4
<1>8. QED
  BY <1>5, <1>6, <1>7

\* A process leaves the queue, and lets in the cell g behind it, or nobody.
LEMMA LeavingCells ==
  ASSUME CInv, NEW p \in Procs, NEW g \in Cells \cup {Nil},
         pc[p] \in {"deq", "rel"},
         FreeLock(lock[p]),
         lock' = [lock EXCEPT ![p] = Nil],
         syn_addr' = [syn_addr EXCEPT ![p] = g],
         pc' = [pc EXCEPT ![p] = IF g = Nil THEN "idle" ELSE "rel_wake"],
         queue_lock' = Nil, class' = class,
         tail' \in Cells \cup {Nil},
         node' \in [Cells -> Node],
         \A d \in Cells : node'[d].waiting = 0 => node[d].waiting = 0 \/ d = g
  PROVE  CInv'
<1> DEFINE place == IF g = Nil THEN "idle" ELSE "rel_wake"
<1>1. place \in Outside /\ place # "asleep" /\ (place \notin Waking => g = Nil)
  BY DEF Outside, Waking
<1>2. pc[p] \in Inside /\ pc[p] \notin Waking
  BY DEF Inside, Waking
<1>3. pc' = [pc EXCEPT ![p] = place]
  OBVIOUS
<1> HIDE DEF place
<1>4. /\ storage' = storage /\ freelist' \in Seq(storage') /\ ahead' \in [Cells -> SUBSET Cells]
      /\ Distinct(freelist)' /\ Ownership' /\ Claimed'
  BY <1>1, <1>2, <1>3, CellReturned
<1>5. TypeOK'
  BY <1>1, <1>3, <1>4 DEF CInv, TypeOK
<1>6. /\ pc'[p] = place /\ syn_addr'[p] = g
      /\ \A q \in Procs : q # p => pc'[q] = pc[q] /\ syn_addr'[q] = syn_addr[q] /\ lock'[q] = lock[q]
  BY <1>3 DEF CInv, TypeOK
<1>7. \A q \in Procs : pc[q] = "asleep" => lock[q] \in Cells
  BY QueuedCells DEF CInv, Ownership, Inside
<1>8. OneWake' /\ WakePending'
  BY <1>1, <1>2, <1>6, <1>7, SameWakes
<1>9. QED
  BY <1>4, <1>5, <1>8 DEF CInv

\* The three ways out of the queue.
LEMMA DequeueCells ==
  ASSUME CInv, NEW p \in Procs, Dequeue(p)
  PROVE  CInv'
<1> DEFINE c == lock[p]
<1>1. pc[p] = "deq" /\ c \in Cells /\ syn_addr[p] = Nil
  BY QueuedCells DEF Dequeue, CInv, Ownership, OneWake, Inside, Waking
<1>2. node[c].prev \in Cells \cup {Nil} /\ node[c].next \in Cells \cup {Nil}
  BY <1>1 DEF CInv, TypeOK, Node
<1>3. /\ FreeLock(c) /\ lock' = [lock EXCEPT ![p] = Nil] /\ queue_lock' = Nil
      /\ pc' = [pc EXCEPT ![p] = "idle"] /\ class' = class
      /\ tail' \in Cells \cup {Nil}
      /\ syn_addr' = [syn_addr EXCEPT ![p] = Nil]
  BY <1>1, <1>2 DEF Dequeue, Goto, CInv, TypeOK
<1>4. node' = [d \in Cells |->
            IF d = node[c].prev THEN [node[d] EXCEPT !.next = node[c].next]
            ELSE IF d = node[c].next
            THEN [node[d] EXCEPT !.prev = node[c].prev, !.waiting = IF FALSE THEN 0 ELSE @]
            ELSE node[d]]
  <2>1. ASSUME NEW d \in Cells
        PROVE  [node[d] EXCEPT !.prev = node[c].prev, !.waiting = IF FALSE THEN 0 ELSE @]
                 = [node[d] EXCEPT !.prev = node[c].prev]
    <3>1. node[d] \in Node
      BY <2>1 DEF CInv, TypeOK
    <3>2. QED
      BY <3>1 DEF Node
  <2>2. node' = [d \in Cells |->
            IF d = node[c].prev THEN [node[d] EXCEPT !.next = node[c].next]
            ELSE IF d = node[c].next THEN [node[d] EXCEPT !.prev = node[c].prev]
            ELSE node[d]]
    BY DEF Dequeue
  <2>3. QED
    BY <2>1, <2>2
<1> HIDE DEF c
<1>5. /\ node' \in [Cells -> Node]
      /\ \A d \in Cells : node'[d].waiting = 0 => node[d].waiting = 0
  BY <1>1, <1>4, LinksTyped
<1>6. QED
  BY <1>1, <1>3, <1>5, LeavingCells DEF c

LEMMA ReleaseReadCells ==
  ASSUME CInv, NEW p \in Procs, ReleaseRead(p)
  PROVE  CInv'
<1> DEFINE c == lock[p]
           next == node[c].next
           grant == /\ next # Nil
                    /\ node[next].waiting = 1
                    /\ node[c].prev = Nil \/ node[next].class = READ
           g == IF grant THEN next ELSE Nil
<1>1. pc[p] = "rel" /\ c \in Cells
  BY QueuedCells DEF ReleaseRead, CInv, Ownership, Inside
<1>2. node[c].prev \in Cells \cup {Nil} /\ next \in Cells \cup {Nil}
  BY <1>1 DEF CInv, TypeOK, Node
<1>3. /\ LeaveQueue(p, g)
      /\ tail' \in Cells \cup {Nil}
      /\ node' = [d \in Cells |->
            IF d = node[c].prev THEN [node[d] EXCEPT !.next = node[c].next]
            ELSE IF d = node[c].next
            THEN [node[d] EXCEPT !.prev = node[c].prev, !.waiting = IF grant THEN 0 ELSE @]
            ELSE node[d]]
  BY <1>2 DEF ReleaseRead, CInv, TypeOK
<1>4. grant \in BOOLEAN
  OBVIOUS
<1>5. g \in Cells \cup {Nil} /\ (grant => next = g)
  BY <1>2
<1> HIDE DEF c, grant, g
<1>6. /\ node' \in [Cells -> Node]
      /\ \A d \in Cells : node'[d].waiting = 0 => node[d].waiting = 0 \/ d = g
  BY <1>1, <1>3, <1>4, <1>5, LinksTyped
<1>7. QED
  BY <1>1, <1>3, <1>5, <1>6, LeavingCells DEF LeaveQueue, Goto, c

LEMMA ReleaseWriteCells ==
  ASSUME CInv, NEW p \in Procs, ReleaseWrite(p)
  PROVE  CInv'
<1> DEFINE c == lock[p]
           next == node[c].next
<1>1. pc[p] = "rel" /\ c \in Cells
  BY QueuedCells DEF ReleaseWrite, CInv, Ownership, Inside
<1>2. next \in Cells \cup {Nil}
  BY <1>1 DEF CInv, TypeOK, Node
<1>3. /\ LeaveQueue(p, next)
      /\ tail' \in Cells \cup {Nil}
      /\ node' = IF next = Nil THEN node
                 ELSE [node EXCEPT ![next].waiting = 0, ![next].prev = Nil]
  BY DEF ReleaseWrite, CInv, TypeOK
<1> HIDE DEF c, next
<1>4. /\ node' \in [Cells -> Node]
      /\ \A d \in Cells : node'[d].waiting = 0 => node[d].waiting = 0 \/ d = next
  <2>1. node \in [Cells -> Node]
    BY DEF CInv, TypeOK
  <2>2. CASE next = Nil
    BY <1>3, <2>1, <2>2
  <2>3. CASE next # Nil
    <3>1. /\ next \in Cells /\ node[next] \in Node
          /\ node' = [node EXCEPT ![next] = [node[next] EXCEPT !.waiting = 0, !.prev = Nil]]
      BY <1>2, <1>3, <2>1, <2>3
    <3>2. [node[next] EXCEPT !.waiting = 0, !.prev = Nil] \in Node
      BY <3>1 DEF Node
    <3>3. QED
      BY <2>1, <3>1, <3>2
  <2>4. QED
    BY <2>2, <2>3
<1>5. QED
  BY <1>1, <1>2, <1>3, <1>4, LeavingCells DEF LeaveQueue, Goto, c

LEMMA ChainReaderCells ==
  ASSUME CInv, NEW p \in Procs, ChainReader(p)
  PROVE  CInv'
<1> DEFINE next == node[lock[p]].next
           grant == next # Nil /\ node[next].class = READ /\ node[next].waiting = 1
<1>1. /\ pc[p] = "chain" /\ lock[p] \in Cells /\ next \in Cells \cup {Nil}
      /\ syn_addr[p] = Nil
  BY DEF ChainReader, CInv, TypeOK, Node, Ownership, OneWake, Inside, Waking, Queued
<1>2. /\ UNCHANGED <<storage, freelist, tail, class, lock, ahead>> /\ queue_lock' = Nil
      /\ node' = IF grant THEN [node EXCEPT ![next].waiting = 0] ELSE node
      /\ syn_addr' = [syn_addr EXCEPT ![p] = IF grant THEN next ELSE Nil]
      /\ pc' = [pc EXCEPT ![p] = IF grant THEN "chain_wake" ELSE "cs"]
  BY <1>1 DEF ChainReader, Goto, CInv, TypeOK
<1>3. grant => next # Nil
  OBVIOUS
<1> HIDE DEF next, grant
<1>4. /\ node' \in [Cells -> Node]
      /\ \A d \in Cells : node'[d].waiting = 0 => node[d].waiting = 0 \/ (grant /\ d = next)
  <2>1. node \in [Cells -> Node]
    BY DEF CInv, TypeOK
  <2>2. CASE grant
    BY <2>1, <2>2, <1>1, <1>2, <1>3 DEF Node
  <2>3. CASE ~ grant
    BY <2>1, <2>3, <1>2
  <2>4. QED
    BY <2>2, <2>3
<1>5. TypeOK'
  BY <1>1, <1>2, <1>4 DEF CInv, TypeOK, Outside, Inside
<1>6. /\ pc'[p] \in {"chain_wake", "cs"}
      /\ pc'[p] \notin Waking => syn_addr'[p] = Nil
      /\ grant => syn_addr'[p] = next
      /\ \A q \in Procs : q # p => pc'[q] = pc[q] /\ syn_addr'[q] = syn_addr[q] /\ lock'[q] = lock[q]
  BY <1>2 DEF CInv, TypeOK, Waking
<1>7. \A q \in Procs : (pc'[q] \in Inside) = (pc[q] \in Inside)
  BY <1>1, <1>6 DEF Inside
<1>8. Distinct(freelist)' /\ Ownership' /\ Claimed'
  BY <1>2, <1>7, SameCells
<1>9. \A q \in Procs : pc[q] = "asleep" => lock[q] \in Cells
  BY QueuedCells DEF CInv, Ownership, Inside
<1>10. OneWake' /\ WakePending'
  BY <1>1, <1>4, <1>6, <1>9, SameWakes DEF Waking
<1>11. QED
  BY <1>5, <1>8, <1>10 DEF CInv

\* A wake reaches the one process that sleeps on the cell, whichever use of the cell
\* it was meant for.
LEMMA FutexWakeCells ==
  ASSUME CInv, NEW p \in Procs, FutexWake(p)
  PROVE  CInv'
<1> DEFINE on == IF pc[p] = "chain_wake" THEN "cs" ELSE "idle"
           c == syn_addr[p]
<1>1. /\ pc[p] \in Waking
      /\ syn_addr' = [syn_addr EXCEPT ![p] = Nil]
      /\ UNCHANGED <<queue_lock, storage, freelist, tail, node, class, lock, ahead>>
  BY DEF FutexWake, Waking
<1>2. /\ on \in Outside \cup Inside /\ on # "asleep" /\ on \notin Waking
      /\ (on \in Inside) = (pc[p] \in Inside)
  BY <1>1 DEF Outside, Inside, Waking
<1>3. /\ syn_addr'[p] = Nil
      /\ \A q \in Procs : q # p => syn_addr'[q] = syn_addr[q]
  BY <1>1 DEF CInv, TypeOK
<1>4. ASSUME TypeOK',
             \A q \in Procs : (pc'[q] \in Inside) = (pc[q] \in Inside),
             \A q \in Procs : pc'[q] \notin Waking => q = p \/ pc[q] \notin Waking,
             \A q \in Procs : pc'[q] = "asleep" => pc[q] = "asleep" /\ q \notin Sleepers(c)
      PROVE  CInv'
  <2>1. Distinct(freelist)' /\ Ownership' /\ Claimed'
    BY <1>1, <1>4, SameCells
  <2>2. OneWake'
    BY <1>3, <1>4 DEF CInv, OneWake
  <2>3. ASSUME NEW q \in Procs, pc'[q] = "asleep", node'[lock'[q]].waiting = 0
        PROVE  \E w \in Procs : syn_addr'[w] = lock'[q]
    <3>1. pc[q] = "asleep" /\ q \notin Sleepers(c) /\ node[lock[q]].waiting = 0
      BY <2>3, <1>1, <1>4
    <3>2. lock[q] # c
      BY <3>1 DEF Sleepers
    <3>3. PICK w \in Procs : syn_addr[w] = lock[q]
      BY <3>1 DEF CInv, WakePending
    <3>4. QED
      BY <3>2, <3>3, <1>1, <1>3
  <2>4. QED
    BY <1>4, <2>1, <2>2, <2>3 DEF CInv, WakePending
<1>5. CASE Sleepers(c) = {} /\ pc' = [pc EXCEPT ![p] = on]
  <2>1. pc'[p] = on /\ \A q \in Procs : q # p => pc'[q] = pc[q]
    BY <1>5 DEF CInv, TypeOK
  <2>2. TypeOK'
    BY <1>1, <1>2, <1>5 DEF CInv, TypeOK
  <2> HIDE DEF on, c
  <2>3. QED
    BY <1>2, <1>4, <1>5, <2>1, <2>2
<1>6. ASSUME NEW s \in Sleepers(c), pc' = [pc EXCEPT ![p] = on, ![s] = AfterWait(s)]
      PROVE  CInv'
  <2>1. s \in Procs /\ pc[s] = "asleep" /\ lock[s] = c /\ s # p /\ c # Nil
    BY <1>1 DEF Sleepers, Waking, CInv, Ownership, Inside
  <2>2. AfterWait(s) \in {"cs", "chain_q"}
    BY DEF AfterWait
  <2>3. AfterWait(s) \in Inside /\ AfterWait(s) \notin Waking \cup {"asleep"}
    BY <2>2 DEF Inside, Waking
  <2> HIDE DEF on, c
  <2>4. /\ pc'[p] = on /\ pc'[s] = AfterWait(s)
        /\ \A q \in Procs : q # p /\ q # s => pc'[q] = pc[q]
    BY <1>6, <2>1 DEF CInv, TypeOK
  <2>5. TypeOK'
    BY <1>1, <1>2, <1>6, <2>3 DEF CInv, TypeOK
  <2>6. \A q \in Sleepers(c) : q = s
    BY <2>1 DEF Sleepers, CInv, Ownership
  <2>7. \A q \in Procs : (pc'[q] \in Inside) = (pc[q] \in Inside)
    BY <1>2, <2>1, <2>3, <2>4 DEF Inside
  <2>8. \A q \in Procs : pc'[q] \notin Waking => q = p \/ pc[q] \notin Waking
    BY <2>1, <2>4 DEF Waking
  <2>9. \A q \in Procs : pc'[q] = "asleep" => pc[q] = "asleep" /\ q \notin Sleepers(c)
    <3>1. ASSUME NEW q \in Procs, pc'[q] = "asleep"
          PROVE  q # p /\ q # s
      BY <3>1, <1>2, <2>3, <2>4
    <3>2. QED
      BY <3>1, <2>4, <2>6
  <2>10. QED
    BY <1>4, <2>5, <2>7, <2>8, <2>9
<1>7. QED
  BY <1>5, <1>6 DEF FutexWake, Goto

\* A process that wakes nobody goes from one place to another on the same side of
\* the queue, and falls asleep only on a cell that waits.
LEMMA PlainMove ==
  ASSUME CInv, NEW p \in Procs, NEW place \in Outside \cup Inside,
         pc' = [pc EXCEPT ![p] = place],
         UNCHANGED <<storage, freelist, tail, node, lock, syn_addr, ahead>>,
         queue_lock' \in Procs \cup {Nil}, class' \in [Procs -> {READ, WRITE}],
         (place \in Inside) = (pc[p] \in Inside),
         pc[p] \notin Waking,
         place = "asleep" => node[lock[p]].waiting # 0
  PROVE  CInv'
<1>1. TypeOK'
  BY DEF CInv, TypeOK
<1>2. pc'[p] = place /\ \A q \in Procs : q # p => pc'[q] = pc[q]
  BY DEF CInv, TypeOK
<1>3. (pc'[p] \in Inside) = (pc[p] \in Inside)
  BY <1>2
<1>4. pc'[p] = "asleep" => node[lock[p]].waiting # 0
  BY <1>2
<1>5. QED
  BY <1>1, <1>2, <1>3, <1>4, MovingCells

\* Every step keeps it, also the return of FUTEX_WAIT by a signal.
LEMMA NextCells ==
  ASSUME CInv, [Next]_vars
  PROVE  CInv'
<1>1. CASE UNCHANGED vars
  <2>1. TypeOK'
    BY <1>1 DEF vars, CInv, TypeOK
  <2>2. Distinct(freelist)' /\ Ownership' /\ Claimed'
    BY <1>1, SameCells DEF vars
  <2>3. QED
    BY <1>1, <2>1, <2>2 DEF vars, CInv, OneWake, WakePending
<1>2. ASSUME NEW p \in Procs, NEW cls \in {READ, WRITE}, Request(p, cls)
      PROVE  CInv'
  <2>1. class' \in [Procs -> {READ, WRITE}] /\ queue_lock' \in Procs \cup {Nil}
    BY <1>2 DEF Request, CInv, TypeOK
  <2>2. /\ pc' = [pc EXCEPT ![p] = "enq_q"] /\ pc[p] = "idle"
        /\ UNCHANGED <<storage, freelist, tail, node, lock, syn_addr, ahead>>
    BY <1>2 DEF Request, Goto
  <2>3. "enq_q" \in Outside \cup Inside /\ ("enq_q" \in Inside) = (pc[p] \in Inside)
        /\ pc[p] \notin Waking
    BY <2>2 DEF Outside, Inside, Waking
  <2>4. QED
    BY <2>1, <2>2, <2>3, PlainMove
<1>3. ASSUME NEW p \in Procs, LockQueue(p)
      PROVE  CInv'
  <2>1. \/ pc[p] = "enq_q" /\ Section[pc[p]] = "enq"
        \/ pc[p] = "deq_q" /\ Section[pc[p]] = "deq"
        \/ pc[p] = "chain_q" /\ Section[pc[p]] = "chain"
        \/ pc[p] = "rel_q" /\ Section[pc[p]] = "rel"
    BY <1>3 DEF LockQueue, Spinning, Section
  <2>2. class' \in [Procs -> {READ, WRITE}] /\ queue_lock' \in Procs \cup {Nil}
    BY <1>3 DEF LockQueue, CInv, TypeOK
  <2>3. pc' = [pc EXCEPT ![p] = Section[pc[p]]]
        /\ UNCHANGED <<storage, freelist, tail, node, lock, syn_addr, ahead>>
    BY <1>3 DEF LockQueue, Goto
  <2>4. /\ Section[pc[p]] \in Outside \cup Inside
        /\ (Section[pc[p]] \in Inside) = (pc[p] \in Inside)
        /\ pc[p] \notin Waking /\ Section[pc[p]] # "asleep"
    BY <2>1 DEF Outside, Inside, Waking
  <2>5. QED
    BY <2>2, <2>3, <2>4, PlainMove
<1>4. ASSUME NEW p \in Procs, EnqueueFails(p)
      PROVE  CInv'
  <2>1. class' \in [Procs -> {READ, WRITE}] /\ queue_lock' \in Procs \cup {Nil}
    BY <1>4 DEF EnqueueFails, CInv, TypeOK
  <2>2. /\ pc' = [pc EXCEPT ![p] = "idle"] /\ pc[p] = "enq"
        /\ UNCHANGED <<storage, freelist, tail, node, lock, syn_addr, ahead>>
    BY <1>4 DEF EnqueueFails, Goto
  <2>3. "idle" \in Outside \cup Inside /\ ("idle" \in Inside) = (pc[p] \in Inside)
        /\ pc[p] \notin Waking
    BY <2>2 DEF Outside, Inside, Waking
  <2>4. QED
    BY <2>1, <2>2, <2>3, PlainMove
<1>5. ASSUME NEW p \in Procs, NEW place \in {"cs", "futex", "asleep", "deq_q", "chain_q", "rel_q"},
             pc' = [pc EXCEPT ![p] = place], pc[p] \in {"test", "futex", "asleep", "cs"},
             UNCHANGED <<queue_lock, storage, freelist, tail, node, class, lock, syn_addr, ahead>>,
             place = "asleep" => node[lock[p]].waiting # 0
      PROVE  CInv'
  <2>1. class' \in [Procs -> {READ, WRITE}] /\ queue_lock' \in Procs \cup {Nil}
    BY <1>5 DEF CInv, TypeOK
  <2>2. place \in Outside \cup Inside /\ (place \in Inside) = (pc[p] \in Inside)
        /\ pc[p] \notin Waking
    BY <1>5 DEF Outside, Inside, Waking
  <2>3. QED
    BY <1>5, <2>1, <2>2, PlainMove
<1>6. ASSUME NEW p \in Procs
      PROVE  AfterWait(p) \in {"cs", "chain_q"}
  BY DEF AfterWait
<1>7. ASSUME NEW p \in Procs, TestWaiting(p)
      PROVE  CInv'
  <2>1. PICK place \in {"cs", "futex"} : pc' = [pc EXCEPT ![p] = place]
    BY <1>7 DEF TestWaiting, Goto
  <2>2. QED
    BY <1>5, <1>7, <2>1 DEF TestWaiting
<1>8. ASSUME NEW p \in Procs, FutexWait(p)
      PROVE  CInv'
  <2>1. PICK place \in {"asleep", "cs", "chain_q"} :
          pc' = [pc EXCEPT ![p] = place] /\ (place = "asleep" => node[lock[p]].waiting # 0)
    <3>1. CASE node[lock[p]].waiting = 1
      BY <1>8, <3>1 DEF FutexWait, Goto
    <3>2. CASE node[lock[p]].waiting # 1
      BY <1>6, <1>8, <3>2 DEF FutexWait, Goto
    <3>3. QED
      BY <3>1, <3>2
  <2>2. QED
    BY <1>5, <1>8, <2>1 DEF FutexWait
<1>9. ASSUME NEW p \in Procs, FutexReturns(p)
      PROVE  CInv'
  <2>1. PICK place \in {"deq_q", "cs", "chain_q"} : pc' = [pc EXCEPT ![p] = place]
    BY <1>6, <1>9 DEF FutexReturns, Returns, Goto
  <2>2. QED
    BY <1>5, <1>9, <2>1 DEF FutexReturns
<1>10. ASSUME NEW p \in Procs, Release(p)
      PROVE  CInv'
  BY <1>5, <1>10 DEF Release, Goto
<1>11. QED
  BY <1>1, <1>2, <1>3, <1>4, <1>7, <1>8, <1>9, <1>10, EnqueueCells, DequeueCells,
     ReleaseReadCells, ReleaseWriteCells, ChainReaderCells, FutexWakeCells
  DEF Next, Step, Environment

\* The cells and the wakes are in order in every reachable state, with signals,
\* stale wakes and timeouts or without.
THEOREM CellsInvariance == Spec => []CInv
<1>1. CInv /\ [Next]_vars => CInv'
  BY NextCells
<1>2. QED
  BY InitCells, <1>1, PTL DEF Spec

\* Every variable keeps its type.
THEOREM Typed == Spec => []TypeOK
<1>1. CInv => TypeOK
  BY DEF CInv
<1>2. QED
  BY CellsInvariance, <1>1, PTL

\* No lock cell is lost, freed twice or had by two processes, through failed
\* allocations, timeouts and wakes that came too early.
THEOREM CellsKept == Spec => []CellsAccounted
<1>1. ASSUME CInv PROVE CellsAccounted
  <2>1. Queued = {lock[p] : p \in Procs} \ {Nil}
    BY <1>1, QueuedCells DEF CInv, Claimed, Ownership
  <2>2. QED
    BY <1>1, <2>1 DEF CellsAccounted, CInv, Ownership
<1>2. QED
  BY CellsInvariance, <1>1, PTL

\* A process that sleeps on a granted cell is going to be woken.
THEOREM NoWakeLost == Spec => []WakePending
<1>1. CInv => WakePending
  BY DEF CInv
<1>2. QED
  BY CellsInvariance, <1>1, PTL

-----------------------------------------------------------------------------
\* The queue implements RWLock.

\* A step that changes what at most one process holds, and does not turn a
\* shared lock into an exclusive one, is a step of RWLock.
LEMMA OneChanges ==
  ASSUME IInv, IInv', NEW p \in Procs,
         \A q \in Procs : q # p => held'[q] = held[q],
         pc[p] = "cs" /\ pc'[p] = "cs" => class'[p] = class[p]
  PROVE  [RW!Next]_held
<1>1. /\ held = [q \in Procs |-> held[q]] /\ held' = [q \in Procs |-> held'[q]]
      /\ \A q \in Procs : held[q] \in {"none", "read", "write"}
      /\ \A q \in Procs : held'[q] \in {"none", "read", "write"}
  BY DEF held
<1>2. \/ held'[p] = held[p]
      \/ held[p] = "none" /\ held'[p] # "none"
      \/ held[p] # "none" /\ held'[p] = "none"
  BY DEF held
<1>3. \A q, r \in Procs : held'[q] = "write" /\ held'[r] # "none" => q = r
  <2>1. MutualExclusion'
    BY InvExcludes, PTL
  <2>2. QED
    BY <2>1 DEF MutualExclusion, held, WRITE
<1>4. \A v : held'[p] = v => held' = [held EXCEPT ![p] = v]
  BY <1>1
<1> HIDE DEF held
<1>5. CASE held'[p] = held[p]
  BY <1>1, <1>5
<1>6. CASE held[p] = "none" /\ held'[p] = "read"
  <2>1. \A q \in Procs : held[q] # "write"
    BY <1>3, <1>6
  <2>2. RW!StartRead(p)
    BY <2>1, <1>4, <1>6 DEF RW!StartRead, RW!None, RW!Read, RW!Write
  <2>3. QED
    BY <2>2 DEF RW!Next
<1>7. CASE held[p] = "none" /\ held'[p] = "write"
  <2>1. \A q \in Procs : held[q] = "none"
    BY <1>3, <1>7
  <2>2. RW!StartWrite(p)
    BY <2>1, <1>4, <1>7 DEF RW!StartWrite, RW!None, RW!Write
  <2>3. QED
    BY <2>2 DEF RW!Next
<1>8. CASE held[p] # "none" /\ held'[p] = "none"
  <2>1. RW!End(p)
    BY <1>4, <1>8 DEF RW!End, RW!None
  <2>2. QED
    BY <2>1 DEF RW!Next
<1>9. QED
  BY <1>1, <1>2, <1>5, <1>6, <1>7, <1>8

\* A step in which only p moves, and changes its class only outside, does so.
LEMMA OneMoves ==
  ASSUME IInv, IInv', NEW p \in Procs, NEW place,
         pc' = [pc EXCEPT ![p] = place],
         \A q \in Procs : q # p => class'[q] = class[q],
         pc[p] = "cs" => class'[p] = class[p]
  PROVE  [RW!Next]_held
<1>1. \A q \in Procs : q # p => pc'[q] = pc[q]
  BY DEF IInv, TypeOK
<1>2. \A q \in Procs : q # p => held'[q] = held[q]
  BY <1>1 DEF held
<1>3. QED
  BY <1>2, OneChanges

\* A wake lets at most one process in: if it is a writer, the one that woke it
\* was leaving.
LEMMA WakeRefines ==
  ASSUME IInv, IInv', NEW p \in Procs, FutexWake(p)
  PROVE  [RW!Next]_held
<1> DEFINE on == IF pc[p] = "chain_wake" THEN "cs" ELSE "idle"
<1>1. pc[p] \in {"chain_wake", "rel_wake"} /\ class' = class
  BY DEF FutexWake
<1>2. CASE pc' = [pc EXCEPT ![p] = on]
  BY <1>1, <1>2, OneMoves
<1>3. ASSUME NEW q \in Sleepers(syn_addr[p]),
             pc' = [pc EXCEPT ![p] = on, ![q] = AfterWait(q)]
      PROVE  [RW!Next]_held
  <2>1. q \in Procs /\ pc[q] = "asleep" /\ q # p
    BY <1>1 DEF Sleepers
  <2>2. /\ pc'[p] = on /\ pc'[q] = AfterWait(q)
        /\ \A r \in Procs : r # p /\ r # q => pc'[r] = pc[r]
    BY <1>3, <2>1 DEF IInv, TypeOK
  <2>3. \A r \in Procs : r # p /\ r # q => held'[r] = held[r]
    BY <1>1, <2>2 DEF held
  <2>4. CASE class[q] = WRITE
    <3>1. pc'[q] = "cs" /\ class'[q] = WRITE
      BY <1>1, <2>2, <2>4 DEF AfterWait
    <3>2. MutualExclusion'
      BY InvExcludes, PTL
    <3>3. pc'[p] # "cs"
      BY <2>1, <3>1, <3>2 DEF MutualExclusion
    <3>4. held'[p] = held[p]
      BY <1>1, <3>3 DEF held
    <3>5. \A r \in Procs : r # q => held'[r] = held[r]
      BY <2>3, <3>4
    <3>6. QED
      BY <2>1, <3>5, OneChanges
  <2>5. CASE class[q] # WRITE
    <3>1. held'[q] = held[q]
      BY <2>1, <2>2, <2>5 DEF AfterWait, held
    <3>2. \A r \in Procs : r # p => held'[r] = held[r]
      BY <2>3, <3>1
    <3>3. QED
      BY <1>1, <3>2, OneChanges
  <2>6. QED
    BY <2>4, <2>5
<1>4. QED
  BY <1>2, <1>3 DEF FutexWake, Goto

\* Every step of the queue is a step of RWLock or does not concern it.
LEMMA StepRefines ==
  ASSUME IInv, IInv', [Next]_vars
  PROVE  [RW!Next]_held
<1>1. CASE UNCHANGED vars
  BY <1>1 DEF vars, held
<1>2. ASSUME NEW p \in Procs, Step(p) \/ Environment(p)
      PROVE  [RW!Next]_held
  <2>1. CASE FutexWake(p)
    BY <2>1, WakeRefines
  <2>2. CASE \E cls \in {READ, WRITE} : Request(p, cls)
    <3>1. /\ pc[p] = "idle" /\ pc' = [pc EXCEPT ![p] = "enq_q"]
          /\ \A q \in Procs : q # p => class'[q] = class[q]
      BY <2>2 DEF Request, Goto, IInv, TypeOK
    <3>2. QED
      BY <3>1, OneMoves
  <2>3. CASE FutexReturns(p)
    BY <2>3, OneMoves DEF FutexReturns, Goto
  <2>4. CASE LockQueue(p) \/ EnqueueFails(p) \/ Enqueue(p) \/ TestWaiting(p)
    BY <2>4, OneMoves DEF LockQueue, EnqueueFails, Enqueue, TestWaiting, Goto
  <2>5. CASE FutexWait(p) \/ Dequeue(p) \/ Release(p)
    BY <2>5, OneMoves DEF FutexWait, Dequeue, Release, Goto
  <2>6. CASE ChainReader(p)
    BY <2>6, OneMoves DEF ChainReader, Goto
  <2>7. CASE ReleaseWrite(p)
    <3>1. \E g : LeaveQueue(p, g)
      BY <2>7 DEF ReleaseWrite
    <3>2. QED
      BY <3>1, OneMoves DEF LeaveQueue, Goto
  <2>8. CASE ReleaseRead(p)
    <3>1. \E g : LeaveQueue(p, g)
      BY <2>8 DEF ReleaseRead
    <3>2. QED
      BY <3>1, OneMoves DEF LeaveQueue, Goto
  <2>9. QED
    BY <1>2, <2>1, <2>2, <2>3, <2>4, <2>5, <2>6, <2>7, <2>8 DEF Step, Environment
<1>3. QED
  BY <1>1, <1>2 DEF Next

\* The task-fair queue is a shared/exclusive lock in the sense of RWLock, for any number
\* of processes and cells and with timeouts at any moment, in every behaviour in which
\* FUTEX_WAIT lets in no request that was not granted.
THEOREM Implementation == Spec /\ [](~ early) => ImplementsRWLock
<1>1. Init => RW!Init
  BY DEF Init, held, RW!Init, RW!None
<1>2. IInv /\ IInv' /\ [Next]_vars => [RW!Next]_held
  BY StepRefines
<1>3. Spec => [](~ early => IInv)
  BY Invariance
<1>4. QED
  BY <1>1, <1>2, <1>3, PTL DEF Spec, ImplementsRWLock, RW!Spec
=============================================================================
