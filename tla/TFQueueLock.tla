----------------------------- MODULE TFQueueLock -----------------------------
(***************************************************************************)
(* The task-fair queued database lock (LOCK_PROTO 3, the one config.h      *)
(* selects): db_tfqueue_wlock, _wulock, _rlock and _rulock of Db/dblock.c. *)
(*                                                                         *)
(* Every request takes a cell from a free list, appends it to a doubly     *)
(* linked queue and waits on the cell's `waiting' word with FUTEX_WAIT.    *)
(* Whoever leaves the queue clears `waiting' of its successor inside the   *)
(* queue mutex and wakes the sleeper AFTER it has released the mutex.      *)
(* The word is not read again after FUTEX_WAIT returns.                    *)
(*                                                                         *)
(* A section of code run under the queue mutex is two steps here: the      *)
(* compare-and-swap that takes the mutex, and the section with the store   *)
(* that releases it; every access to the queue and to the free list is in  *)
(* such a section, so nothing can interleave inside one.  The reads of     *)
(* `waiting' outside the mutex, and the futex calls, are steps of their    *)
(* own.                                                                    *)
(***************************************************************************)
EXTENDS Naturals, Sequences

CONSTANTS
  Procs,        \* the processes attached to the segment
  Storages,     \* what the lock cells (locks.max_nodes of them) may be, in memory order
  Nil,          \* offset 0: no cell; also "no process" for the mutex
  Timeouts,     \* TRUE if FUTEX_WAIT may return ETIMEDOUT
  StaleWakes,   \* TRUE if a late FUTEX_WAKE reaches a cell used again since
  Signals       \* TRUE if FUTEX_WAIT may be interrupted (EINTR)

Elements(s) == {s[i] : i \in DOMAIN s}
Cells == UNION {Elements(s) : s \in Storages}

Distinct(s) == \A i, j \in DOMAIN s : s[i] = s[j] => i = j

ASSUME TFAssumption ==
  /\ Storages \subseteq Seq(Cells)
  /\ \A s \in Storages : Distinct(s)
  /\ Nil \notin Cells
  /\ Nil \notin Procs
  /\ {Timeouts, StaleWakes, Signals} \subseteq BOOLEAN

VARIABLES
  storage,      \* the lock cells, fixed when the segment is made
  queue_lock,   \* the queue mutex: the process in a section, or Nil
  freelist,     \* the free cells, the next to be allocated first
  tail,         \* the last cell of the queue
  node,         \* the fields of each cell: class, waiting, next, prev
  pc,           \* where each process is
  class,        \* the class of lock each process asks for or holds
  lock,         \* the cell each process has in the queue
  syn_addr,     \* the cell whose waiting word the process is to wake
  ahead,        \* history: the cells that entered the queue before a cell
                \* and are still there (the code has only the prev links)
  early         \* history: FUTEX_WAIT has let in a request that was not granted

vars == <<queue_lock, storage, freelist, tail, node, pc, class, lock, syn_addr, ahead, early>>

READ  == "LOCKQ_READ"
WRITE == "LOCKQ_WRITE"

Node == [class : {READ, WRITE}, waiting : {0, 1},
         next : Cells \cup {Nil}, prev : Cells \cup {Nil}]

\* A spin for the queue mutex, and the section that follows it.
Section == [enq_q |-> "enq", deq_q |-> "deq", chain_q |-> "chain", rel_q |-> "rel"]
Spinning == {"enq_q", "deq_q", "chain_q", "rel_q"}

\* Places where the process has no cell; where its cell is in the queue.
Outside == {"idle", "enq_q", "enq", "rel_wake"}
Inside  == {"test", "futex", "asleep", "deq_q", "deq",
            "chain_q", "chain", "chain_wake", "cs", "rel_q", "rel"}

Queued == storage \ Elements(freelist)

Init ==
  /\ queue_lock = Nil
  /\ freelist \in Storages
  /\ storage = Elements(freelist)
  /\ tail = Nil
  /\ node = [c \in Cells |-> [class |-> READ, waiting |-> 0, next |-> Nil, prev |-> Nil]]
  /\ pc = [p \in Procs |-> "idle"]
  /\ class = [p \in Procs |-> READ]
  /\ lock = [p \in Procs |-> Nil]
  /\ syn_addr = [p \in Procs |-> Nil]
  /\ ahead = [c \in Cells |-> {}]
  /\ early = FALSE

-----------------------------------------------------------------------------
\* Moves of one process that touch nothing shared but the futex queue.
Goto(p, place) == pc' = [pc EXCEPT ![p] = place]

\* FUTEX_WAIT has returned anything but ETIMEDOUT: a writer is done, a reader
\* goes on to pass the lock to the reader behind it.
AfterWait(p) == IF class[p] = WRITE THEN "cs" ELSE "chain_q"

\* db_wlock or db_rlock is called.
Request(p, cls) ==
  /\ pc[p] = "idle"
  /\ Goto(p, "enq_q")
  /\ class' = [class EXCEPT ![p] = cls]
  /\ UNCHANGED <<queue_lock, storage, freelist, tail, node, lock, syn_addr, ahead, early>>

\* lock_queue: the compare-and-swap of the spin loop succeeds.
LockQueue(p) ==
  /\ pc[p] \in Spinning
  /\ queue_lock = Nil
  /\ queue_lock' = p
  /\ Goto(p, Section[pc[p]])
  /\ UNCHANGED <<storage, freelist, tail, node, class, lock, syn_addr, ahead, early>>

\* alloc_lock finds no free cell: the call returns 0.
EnqueueFails(p) ==
  /\ pc[p] = "enq"
  /\ freelist = << >>
  /\ queue_lock' = Nil
  /\ Goto(p, "idle")
  /\ UNCHANGED <<storage, freelist, tail, node, class, lock, syn_addr, ahead, early>>

\* Mutant: a reader joins any reader at the tail, even one that waits.
MustWaitLax(cls) == tail # Nil /\ ~ (cls = READ /\ node[tail].class = READ)

\* Whether a new cell of class cls behind the present tail has to wait.
MustWait(cls) ==
  /\ tail # Nil
  /\ ~ (cls = READ /\ node[tail].class = READ /\ node[tail].waiting = 0)

\* A cell is allocated and becomes the tail of the queue.
Enqueue(p) ==
  /\ pc[p] = "enq"
  /\ freelist # << >>
  /\ LET c == Head(freelist) IN
       /\ freelist' = Tail(freelist)
       /\ tail' = c
       /\ lock' = [lock EXCEPT ![p] = c]
       /\ ahead' = [ahead EXCEPT ![c] = Queued]
       /\ node' = [d \in Cells |->
            IF d = c THEN [class |-> class[p], waiting |-> IF MustWait(class[p]) THEN 1 ELSE 0,
                           next |-> Nil, prev |-> tail]
            ELSE IF d = tail THEN [node[d] EXCEPT !.next = c]
            ELSE node[d]]
  /\ queue_lock' = Nil
  /\ Goto(p, "test")
  /\ UNCHANGED <<storage, class, syn_addr, early>>

\* if(lockp->waiting), read without the mutex.
TestWaiting(p) ==
  /\ pc[p] = "test"
  /\ Goto(p, IF node[lock[p]].waiting = 0 THEN "cs" ELSE "futex")
  /\ UNCHANGED <<queue_lock, storage, freelist, tail, node, class, lock, syn_addr, ahead, early>>

\* FUTEX_WAIT: the kernel compares the word and puts the caller to sleep, or
\* returns EAGAIN at once.
FutexWait(p) ==
  /\ pc[p] = "futex"
  /\ Goto(p, IF node[lock[p]].waiting = 1 THEN "asleep" ELSE AfterWait(p))
  /\ UNCHANGED <<queue_lock, storage, freelist, tail, node, class, lock, syn_addr, ahead, early>>

\* The cell of p was not granted.
Waits(p) == node[lock[p]].waiting = 1

\* Where FUTEX_WAIT may return to without a wake: ETIMEDOUT sends the caller out
\* of the queue; EINTR it takes for a wake.
Returns(p) == (IF Timeouts THEN {"deq_q"} ELSE {}) \cup (IF Signals THEN {AfterWait(p)} ELSE {})

FutexReturns(p) ==
  /\ pc[p] = "asleep"
  /\ \E place \in Returns(p) :
       /\ Goto(p, place)
       /\ early' = (early \/ (place # "deq_q" /\ Waits(p)))
  /\ UNCHANGED <<queue_lock, storage, freelist, tail, node, class, lock, syn_addr, ahead>>

\* Mutant: the freed cell is not linked to the rest of the free list.
FreeLockUnlinked(c) ==
  /\ freelist' = <<c>>
  /\ UNCHANGED storage
  /\ ahead' = [d \in Cells |-> ahead[d] \ {c}]

\* Cell c goes back on the free list.
FreeLock(c) ==
  /\ freelist' = <<c>> \o freelist
  /\ UNCHANGED storage
  /\ ahead' = [d \in Cells |-> ahead[d] \ {c}]

\* Mutant: after a timeout the successor keeps its link to the freed cell.
DequeueForward(p) ==
  /\ pc[p] = "deq"
  /\ LET c == lock[p]
         prev == node[c].prev
         next == node[c].next IN
       /\ node' = IF prev = Nil THEN node ELSE [node EXCEPT ![prev].next = next]
       /\ tail' = IF next = Nil /\ tail = c THEN prev ELSE tail
       /\ FreeLock(c)
  /\ lock' = [lock EXCEPT ![p] = Nil]
  /\ queue_lock' = Nil
  /\ Goto(p, "idle")
  /\ UNCHANGED <<class, syn_addr, early>>

\* DEQUEUE_LOCK and free_lock after a timeout; the call returns 0.
Dequeue(p) ==
  /\ pc[p] = "deq"
  /\ LET c == lock[p]
         prev == node[c].prev
         next == node[c].next IN
       /\ node' = [d \in Cells |->
            IF d = prev THEN [node[d] EXCEPT !.next = next]
            ELSE IF d = next THEN [node[d] EXCEPT !.prev = prev]
            ELSE node[d]]
       /\ tail' = IF next = Nil /\ tail = c THEN prev ELSE tail
       /\ FreeLock(c)
  /\ lock' = [lock EXCEPT ![p] = Nil]
  /\ queue_lock' = Nil
  /\ Goto(p, "idle")
  /\ UNCHANGED <<class, syn_addr, early>>

\* Mutant: the class of the successor is not tested.
ChainAnyone(p) ==
  /\ pc[p] = "chain"
  /\ LET next == node[lock[p]].next IN
       IF next # Nil /\ node[next].waiting = 1
       THEN /\ node' = [node EXCEPT ![next].waiting = 0]
            /\ syn_addr' = [syn_addr EXCEPT ![p] = next]
            /\ Goto(p, "chain_wake")
       ELSE /\ Goto(p, "cs")
            /\ UNCHANGED <<node, syn_addr>>
  /\ queue_lock' = Nil
  /\ UNCHANGED <<storage, freelist, tail, class, lock, ahead, early>>

\* Mutant: the successor is let in and not woken.
ChainSilently(p) ==
  /\ pc[p] = "chain"
  /\ LET next == node[lock[p]].next IN
       node' = IF next # Nil /\ node[next].class = READ
               THEN [node EXCEPT ![next].waiting = 0] ELSE node
  /\ Goto(p, "cs")
  /\ queue_lock' = Nil
  /\ UNCHANGED <<storage, freelist, tail, class, lock, syn_addr, ahead, early>>

\* A reader that had to wait lets in the reader that waits behind it.
ChainReader(p) ==
  /\ pc[p] = "chain"
  /\ LET next == node[lock[p]].next IN
       IF next # Nil /\ node[next].class = READ /\ node[next].waiting = 1
       THEN /\ node' = [node EXCEPT ![next].waiting = 0]
            /\ syn_addr' = [syn_addr EXCEPT ![p] = next]
            /\ Goto(p, "chain_wake")
       ELSE /\ Goto(p, "cs")
            /\ UNCHANGED <<node, syn_addr>>
  /\ queue_lock' = Nil
  /\ UNCHANGED <<storage, freelist, tail, class, lock, ahead, early>>

\* db_wulock or db_rulock is called.
Release(p) ==
  /\ pc[p] = "cs"
  /\ Goto(p, "rel_q")
  /\ UNCHANGED <<queue_lock, storage, freelist, tail, node, class, lock, syn_addr, ahead, early>>

\* Mutant: the queue is left without waking the granted successor.
LeaveSilently(p, granted) ==
  /\ FreeLock(lock[p])
  /\ lock' = [lock EXCEPT ![p] = Nil]
  /\ queue_lock' = Nil
  /\ Goto(p, "idle")
  /\ UNCHANGED <<class, syn_addr, early>>

\* The end of both release sections: the cell is freed, the mutex released,
\* and the granted successor, if any, is still to be woken.
LeaveQueue(p, granted) ==
  /\ FreeLock(lock[p])
  /\ lock' = [lock EXCEPT ![p] = Nil]
  /\ syn_addr' = [syn_addr EXCEPT ![p] = granted]
  /\ queue_lock' = Nil
  /\ Goto(p, IF granted = Nil THEN "idle" ELSE "rel_wake")
  /\ UNCHANGED <<class, early>>

\* db_tfqueue_wulock: the successor becomes the head of the queue.
ReleaseWrite(p) ==
  /\ pc[p] = "rel"
  /\ class[p] = WRITE
  /\ LET c == lock[p]
         next == node[c].next IN
       /\ node' = IF next = Nil THEN node
                  ELSE [node EXCEPT ![next].waiting = 0, ![next].prev = Nil]
       /\ tail' = IF next = Nil /\ tail = c THEN Nil ELSE tail
       /\ LeaveQueue(p, next)

\* Mutant: whoever waits behind the cell is let in, even a writer behind readers.
ReleaseReadLax(p) ==
  /\ pc[p] = "rel"
  /\ class[p] = READ
  /\ LET c == lock[p]
         prev == node[c].prev
         next == node[c].next
         grant == next # Nil /\ node[next].waiting = 1 IN
       /\ node' = [d \in Cells |->
            IF d = prev THEN [node[d] EXCEPT !.next = next]
            ELSE IF d = next THEN [node[d] EXCEPT !.prev = prev,
                                                  !.waiting = IF grant THEN 0 ELSE @]
            ELSE node[d]]
       /\ tail' = IF next = Nil /\ tail = c THEN prev ELSE tail
       /\ LeaveQueue(p, IF grant THEN next ELSE Nil)

\* Mutant: the word is decremented, also that of a reader let in before.
ReleaseReadCounting(p) ==
  /\ pc[p] = "rel"
  /\ class[p] = READ
  /\ LET c == lock[p]
         prev == node[c].prev
         next == node[c].next
         grant == next # Nil /\ (prev = Nil \/ node[next].class = READ) IN
       /\ node' = [d \in Cells |->
            IF d = prev THEN [node[d] EXCEPT !.next = next]
            ELSE IF d = next THEN [node[d] EXCEPT !.prev = prev,
                                                  !.waiting = IF grant THEN @ - 1 ELSE @]
            ELSE node[d]]
       /\ tail' = IF next = Nil /\ tail = c THEN prev ELSE tail
       /\ LeaveQueue(p, IF grant THEN next ELSE Nil)

\* db_tfqueue_rulock: the cell is unlinked from wherever it is; the successor
\* is let in if it waits and is now the head, or is a reader.
ReleaseRead(p) ==
  /\ pc[p] = "rel"
  /\ class[p] = READ
  /\ LET c == lock[p]
         prev == node[c].prev
         next == node[c].next
         grant == /\ next # Nil
                  /\ node[next].waiting = 1
                  /\ prev = Nil \/ node[next].class = READ IN
       /\ node' = [d \in Cells |->
            IF d = prev THEN [node[d] EXCEPT !.next = next]
            ELSE IF d = next THEN [node[d] EXCEPT !.prev = prev,
                                                  !.waiting = IF grant THEN 0 ELSE @]
            ELSE node[d]]
       /\ tail' = IF next = Nil /\ tail = c THEN prev ELSE tail
       /\ LeaveQueue(p, IF grant THEN next ELSE Nil)

\* The sleepers FUTEX_WAKE on the word of cell c finds.  The word the caller
\* wakes may meanwhile belong to another request for the same cell.
Sleepers(c) == {q \in Procs : /\ pc[q] = "asleep"
                              /\ lock[q] = c
                              /\ StaleWakes \/ node[c].waiting = 0}

\* futex_wake(syn_addr, 1), after the mutex was released.
FutexWake(p) ==
  /\ pc[p] \in {"chain_wake", "rel_wake"}
  /\ LET on == IF pc[p] = "chain_wake" THEN "cs" ELSE "idle" IN
       \/ /\ Sleepers(syn_addr[p]) = {}
          /\ Goto(p, on)
          /\ UNCHANGED early
       \/ \E q \in Sleepers(syn_addr[p]) :
            /\ pc' = [pc EXCEPT ![p] = on, ![q] = AfterWait(q)]
            /\ early' = (early \/ Waits(q))
  /\ syn_addr' = [syn_addr EXCEPT ![p] = Nil]
  /\ UNCHANGED <<queue_lock, storage, freelist, tail, node, class, lock, ahead>>

-----------------------------------------------------------------------------
\* What a process does by itself once it has asked for the lock.
Step(p) ==
  \/ LockQueue(p)
  \/ EnqueueFails(p)
  \/ Enqueue(p)
  \/ TestWaiting(p)
  \/ FutexWait(p)
  \/ Dequeue(p)
  \/ ChainReader(p)
  \/ Release(p)
  \/ ReleaseWrite(p)
  \/ ReleaseRead(p)
  \/ FutexWake(p)

\* What its caller and the kernel decide.
Environment(p) ==
  \/ \E cls \in {READ, WRITE} : Request(p, cls)
  \/ FutexReturns(p)

Next == \E p \in Procs : Step(p) \/ Environment(p)

Spec == Init /\ [][Next]_vars

(***************************************************************************)
(* Fairness.  A process that is not blocked keeps running, a caller that   *)
(* got the lock ends its transaction, and a process that polls the queue   *)
(* mutex is not refused forever: sections are a few instructions long and  *)
(* the spin loop polls again after every sleep.  Nothing is assumed of new *)
(* requests, timeouts and signals.                                         *)
(***************************************************************************)
Fairness == \A p \in Procs : WF_vars(Step(p)) /\ SF_vars(LockQueue(p))

FairSpec == Spec /\ Fairness

-----------------------------------------------------------------------------
\* Properties.

TypeOK ==
  /\ queue_lock \in Procs \cup {Nil}
  /\ storage \subseteq Cells
  /\ freelist \in Seq(storage)
  /\ tail \in Cells \cup {Nil}
  /\ node \in [Cells -> Node]
  /\ pc \in [Procs -> Outside \cup Inside]
  /\ class \in [Procs -> {READ, WRITE}]
  /\ lock \in [Procs -> Cells \cup {Nil}]
  /\ syn_addr \in [Procs -> Cells \cup {Nil}]
  /\ ahead \in [Cells -> SUBSET Cells]

Granted(c) == c \in Queued /\ node[c].waiting = 0

\* An exclusive lock excludes: while a caller of wg_start_write is between
\* the return of that call and its wg_end_write, no other process is inside
\* a transaction of its own.
MutualExclusion ==
  \A p, q \in Procs :
    /\ pc[p] = "cs" /\ class[p] = WRITE
    /\ pc[q] = "cs"
    => p = q

\* The links of the queued cells are the order of arrival, whatever mixture
\* of releases in the middle of the queue and timeouts has happened: prev and
\* next are mutually inverse, a cell without prev has nobody ahead of it, and
\* tail is behind everybody else.
QueueShape ==
  /\ tail = Nil => Queued = {}
  /\ tail # Nil => tail \in Queued /\ ahead[tail] = Queued \ {tail}
  /\ \A c \in Queued :
       /\ node[c].prev = Nil => ahead[c] = {}
       /\ node[c].prev # Nil =>
            /\ node[c].prev \in Queued
            /\ node[node[c].prev].next = c
       /\ node[c].next = Nil => c = tail
       /\ node[c].next # Nil =>
            /\ node[c].next \in Queued
            /\ node[node[c].next].prev = c
            /\ ahead[node[c].next] = ahead[c] \cup {c}

\* No cell is lost or freed twice: the free list has no repetition and the
\* other cells are in the queue on behalf of exactly one process each.
CellsAccounted ==
  /\ Distinct(freelist)
  /\ Queued = {lock[p] : p \in Procs} \ {Nil}
  /\ \A p, q \in Procs : lock[p] = lock[q] /\ lock[p] # Nil => p = q

\* The lock is granted in the order of arrival: nobody is ahead of a granted
\* writer, and only granted readers are ahead of a granted reader.
GrantOrder ==
  \A c \in Queued : Granted(c) =>
    IF node[c].class = WRITE
    THEN ahead[c] = {}
    ELSE \A d \in ahead[c] : node[d].class = READ /\ node[d].waiting = 0

\* No wake-up is lost: a process that sleeps although its cell was granted is
\* going to be woken by the process that granted it.
WakePending ==
  \A p \in Procs :
    pc[p] = "asleep" /\ node[lock[p]].waiting = 0
      => \E q \in Procs : syn_addr[q] = lock[p]

\* What a process holds, as RWLock sees it.
held == [p \in Procs |-> IF pc[p] # "cs" THEN "none"
                         ELSE IF class[p] = WRITE THEN "write" ELSE "read"]

RW == INSTANCE RWLock

\* The lock is what RWLock promises: seen from its callers, every step of the
\* queue is a grant that RWLock allows, a release, or nothing.
ImplementsRWLock == RW!Spec

\* Nobody starves: a request that entered the queue gets the lock, if no timeout
\* takes it out of the queue, also where readers behind each other are let in one by one.
NoStarvation(p) == pc[p] = "test" ~> pc[p] = "cs"
=============================================================================
