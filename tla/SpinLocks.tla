----------------------------- MODULE SpinLocks ------------------------------
(***************************************************************************)
(* The two spin locks of Db/dblock.c: the reader-preference lock RPSPIN    *)
(* and the writer-preference lock WPSPIN.                                  *)
(*                                                                         *)
(* Both keep one word in the segment: the flag WAFLAG says that a writer   *)
(* is active, the rest counts the readers in steps of RC_INCR.  A reader   *)
(* of RPSPIN counts itself first and looks for the flag afterwards.  In    *)
(* WPSPIN a second word counts the writers, the waiting ones too; readers  *)
(* wait until it is zero and then count themselves with a compare and swap *)
(* that fails if a writer has become active.                               *)
(*                                                                         *)
(* Every access to a shared word is a step.  The counts and sleeps of the  *)
(* spin loops are left out: the process looks again.                       *)
(***************************************************************************)
EXTENDS Integers, FiniteSets

CONSTANTS
  Procs,
  Builds     \* what dblock.c is compiled for

ASSUME SLAssumption ==
  /\ IsFiniteSet(Procs)
  /\ Builds \subseteq [proto : {"RPSPIN", "WPSPIN"}, timeouts : BOOLEAN]

VARIABLES
  build,     \* LOCK_PROTO, and whether USE_LOCK_TIMEOUT is defined
  gl,        \* the word locks.global_lock
  writers,   \* the word locks.writers
  pc,        \* where each process is
  readers,   \* the local variable readers of db_wpspin_rlock
  before     \* history: the writers that had announced themselves when
             \* the call of rlock began and have not left since

vars == <<build, gl, writers, pc, readers, before>>

RP == build.proto = "RPSPIN"
WP == build.proto = "WPSPIN"

Free == [active |-> FALSE, readers |-> 0]
Active == [active |-> TRUE, readers |-> 0]

\* The writers that are counted in locks.writers.
Announced == {p \in Procs : pc[p] \in {"w_try", "w_spin", "w_swap", "w_in", "w_out"}}
WaitingWriters == {p \in Procs : pc[p] \in {"w_try", "w_spin", "w_swap"}}

Init ==
  /\ build \in Builds
  /\ gl = Free
  /\ writers = 0
  /\ pc = [p \in Procs |-> "idle"]
  /\ readers = [p \in Procs |-> 0]
  /\ before = [p \in Procs |-> {}]

Goto(p, label) == pc' = [pc EXCEPT ![p] = label]

\* Writer p is not announced any more.
Left(p) == before' = [q \in Procs |-> before[q] \ {p}]

-----------------------------------------------------------------------------
\* The atomic operations on the words.

\* fetch_and_add (RPSPIN) or atomic_increment (WPSPIN) of the reader count.
AddReader(n) == gl' = [gl EXCEPT !.readers = @ + n]

\* atomic_increment of the writer count.
AddWriter(n) == writers' = writers + n

\* compare_and_swap of the word: to `won' if it was `old', else to `lost'.
CompareAndSwap(p, old, new, won, lost) ==
  IF gl = old THEN gl' = new /\ Goto(p, won)
              ELSE gl' = gl /\ Goto(p, lost)

-----------------------------------------------------------------------------
\* db_rpspin_wlock and db_wpspin_wlock.

RequestWrite(p) ==
  /\ pc[p] = "idle"
  /\ IF WP THEN AddWriter(1) ELSE UNCHANGED writers
  /\ Goto(p, "w_try")
  /\ UNCHANGED <<build, gl, readers, before>>

\* The first attempt, without a look at the word.
TryWrite(p) ==
  /\ pc[p] = "w_try"
  /\ CompareAndSwap(p, Free, Active, "w_in", "w_spin")
  /\ UNCHANGED <<build, writers, readers, before>>

SpinWrite(p) ==
  /\ pc[p] = "w_spin" /\ gl = Free
  /\ Goto(p, "w_swap")
  /\ UNCHANGED <<build, gl, writers, readers, before>>

\* Mutant: the word is set without a comparison after the look at it.
SwapBlindly(p) ==
  /\ pc[p] = "w_swap"
  /\ gl' = [gl EXCEPT !.active = TRUE] /\ Goto(p, "w_in")
  /\ UNCHANGED <<build, writers, readers, before>>

SwapWrite(p) ==
  /\ pc[p] = "w_swap"
  /\ CompareAndSwap(p, Free, Active, "w_in", "w_spin")
  /\ UNCHANGED <<build, writers, readers, before>>

GiveUpWrite(p) ==
  /\ build.timeouts /\ pc[p] = "w_spin"
  /\ IF WP THEN AddWriter(-1) ELSE UNCHANGED writers
  /\ Left(p)
  /\ Goto(p, "idle")
  /\ UNCHANGED <<build, gl, readers>>

-----------------------------------------------------------------------------
\* db_rpspin_wulock and db_wpspin_wulock.

\* atomic_and clears the flag; only WPSPIN has another word to update.
ReleaseWrite(p) ==
  /\ pc[p] = "w_in"
  /\ gl' = [gl EXCEPT !.active = FALSE]
  /\ IF WP THEN Goto(p, "w_out") /\ UNCHANGED before
           ELSE Goto(p, "idle") /\ Left(p)
  /\ UNCHANGED <<build, writers, readers>>

Unannounce(p) ==
  /\ pc[p] = "w_out"
  /\ AddWriter(-1)
  /\ Left(p)
  /\ Goto(p, "idle")
  /\ UNCHANGED <<build, gl, readers>>

-----------------------------------------------------------------------------
\* db_rpspin_rlock and db_wpspin_rlock.

RequestRead(p) ==
  /\ pc[p] = "idle"
  /\ before' = [before EXCEPT ![p] = Announced]
  /\ Goto(p, IF RP THEN "r_add" ELSE "r_look")
  /\ UNCHANGED <<build, gl, writers, readers>>

\* Mutant: a reader that sees the flag does not count itself before it spins.
CountIfFree(p) ==
  /\ pc[p] = "r_add"
  /\ IF gl.active THEN UNCHANGED gl ELSE AddReader(1)
  /\ Goto(p, "r_test")
  /\ UNCHANGED <<build, writers, readers, before>>

\* RPSPIN: the reader counts itself at once.
CountReader(p) ==
  /\ pc[p] = "r_add"
  /\ AddReader(1)
  /\ Goto(p, "r_test")
  /\ UNCHANGED <<build, writers, readers, before>>

\* RPSPIN: it is in as soon as the flag is clear.
TestFlag(p) ==
  /\ \/ pc[p] = "r_test"
     \/ pc[p] = "r_spin" /\ ~gl.active
  /\ Goto(p, IF gl.active THEN "r_spin" ELSE "r_in")
  /\ UNCHANGED <<build, gl, writers, readers, before>>

\* RPSPIN: the count is restored by a reader that gives up.
GiveUpCount(p) ==
  /\ build.timeouts /\ pc[p] = "r_spin"
  /\ AddReader(-1)
  /\ before' = [before EXCEPT ![p] = {}]
  /\ Goto(p, "idle")
  /\ UNCHANGED <<build, writers, readers>>

\* Mutant: readers do not care for waiting writers, only for active ones.
LookAtFlag(p) ==
  /\ \/ pc[p] = "r_look"
     \/ pc[p] = "r_wait" /\ ~gl.active
  /\ Goto(p, IF gl.active THEN "r_wait" ELSE "r_read")
  /\ UNCHANGED <<build, gl, writers, readers, before>>

\* WPSPIN: the reader waits until no writer is announced.
LookForWriters(p) ==
  /\ \/ pc[p] = "r_look"
     \/ pc[p] = "r_wait" /\ writers = 0
  /\ Goto(p, IF writers # 0 THEN "r_wait" ELSE "r_read")
  /\ UNCHANGED <<build, gl, writers, readers, before>>

\* WPSPIN: the word as it is, without the flag ...
ReadCount(p) ==
  /\ pc[p] = "r_read"
  /\ readers' = [readers EXCEPT ![p] = gl.readers]
  /\ Goto(p, "r_swap")
  /\ UNCHANGED <<build, gl, writers, before>>

\* ... is replaced if no reader came or left and no writer is active.
SwapRead(p) ==
  /\ pc[p] = "r_swap"
  /\ CompareAndSwap(p, [active |-> FALSE, readers |-> readers[p]],
                       [active |-> FALSE, readers |-> readers[p] + 1], "r_in", "r_look")
  /\ readers' = [readers EXCEPT ![p] = 0]
  /\ UNCHANGED <<build, writers, before>>

GiveUpRead(p) ==
  /\ build.timeouts /\ pc[p] = "r_wait"
  /\ before' = [before EXCEPT ![p] = {}]
  /\ Goto(p, "idle")
  /\ UNCHANGED <<build, gl, writers, readers>>

\* db_rpspin_rulock and db_wpspin_rulock.
ReleaseRead(p) ==
  /\ pc[p] = "r_in"
  /\ AddReader(-1)
  /\ before' = [before EXCEPT ![p] = {}]
  /\ Goto(p, "idle")
  /\ UNCHANGED <<build, writers, readers>>

-----------------------------------------------------------------------------
\* What a process does by itself once it has called.
Step(p) ==
  \/ TryWrite(p) \/ SpinWrite(p) \/ SwapWrite(p) \/ ReleaseWrite(p) \/ Unannounce(p)
  \/ CountReader(p) \/ TestFlag(p) \/ LookForWriters(p) \/ ReadCount(p) \/ SwapRead(p)
  \/ ReleaseRead(p)

Next ==
  \E p \in Procs :
    \/ Step(p)
    \/ RequestWrite(p) \/ RequestRead(p)
    \/ GiveUpWrite(p) \/ GiveUpCount(p) \/ GiveUpRead(p)

Spec == Init /\ [][Next]_vars

\* Fairness: a process in a call goes on, and a holder ends its transaction.
FairSpec == Spec /\ \A p \in Procs : WF_vars(Step(p))

-----------------------------------------------------------------------------
\* Properties.

Labels == {"idle", "w_try", "w_spin", "w_swap", "w_in", "w_out", "r_add", "r_test", "r_spin",
           "r_look", "r_wait", "r_read", "r_swap", "r_in"}

TypeOK ==
  /\ build \in Builds
  /\ gl \in [active : BOOLEAN, readers : Nat]
  /\ writers \in Nat
  /\ pc \in [Procs -> Labels]
  /\ readers \in [Procs -> Nat]
  /\ before \in [Procs -> SUBSET Procs]

\* Readers that are counted in the word.
Counted == {p \in Procs : pc[p] \in {"r_test", "r_spin", "r_in"}}

\* The words say what the processes do, after all the adds, swaps, releases and
\* timeouts that overlap: the flag is that of the one writer that is inside, the
\* rest of the word is the number of readers that counted themselves, and the
\* second word the number of announced writers.
WordsAgree ==
  /\ gl.active <=> \E p \in Procs : pc[p] = "w_in"
  /\ gl.readers = Cardinality(Counted)
  /\ writers = IF WP THEN Cardinality(Announced) ELSE 0

\* WPSPIN: a reader does not get in ahead of a writer that waited when the
\* reader came ("Blocks until there are no active or waiting writers").
ReadersYield == WP => \A p \in Procs : pc[p] = "r_in" => before[p] \cap WaitingWriters = {}

held == [p \in Procs |-> IF pc[p] = "w_in" THEN "write"
                         ELSE IF pc[p] = "r_in" THEN "read" ELSE "none"]

RW == INSTANCE RWLock

\* Each spin lock is a shared/exclusive lock.
ImplementsRWLock == RW!Spec

\* Who is preferred gets in, whatever the others do: every reader of RPSPIN that
\* counted itself, and one of the waiting writers of WPSPIN.
Preference ==
  /\ \A p \in Procs : (RP /\ ~build.timeouts /\ pc[p] \in {"r_test", "r_spin"}) ~> pc[p] = "r_in"
  /\ (WP /\ ~build.timeouts /\ WaitingWriters # {}) ~> \E p \in Procs : pc[p] = "w_in"
=============================================================================
