---------------------------- MODULE StrategyRuns ----------------------------
(***************************************************************************)
(* The runs of one call of gkc: wg_run_reasoner of Reasoner/rmain.c with   *)
(* the exit codes of Main/gkc.c.                                           *)
(*                                                                         *)
(* The guide has a list of runs, each a search with its own strategy.      *)
(* Without forks the process tries them in order.  With maxforks forks,    *)
(* worker k tries the runs k, k+maxforks, k+2*maxforks, ... and the parent *)
(* only waits: it learns how a worker ended from the worker's exit status, *)
(* and takes the exit status 0 to mean that the worker found a proof.      *)
(*                                                                         *)
(* A worker whose first run does not exist in the guide makes one run with *)
(* the default strategy.  What is inside a run (clauses, inferences) is    *)
(* reduced to its result; a run that stops with some answers but fewer     *)
(* than wanted is a run without a proof.  A run need not end: its limits   *)
(* are none by default, and a search space need not be finite.             *)
(*                                                                         *)
(* gkc forks under an init process, under a subreaper (a shell, a service  *)
(* manager or a container tool that adopts orphans), or as process 1 of a  *)
(* container; that decides what getppid tells a worker.                    *)
(***************************************************************************)
EXTENDS Integers, FiniteSets

CONSTANTS
  ForkCounts,   \* the values of maxforks: 0, or 2 and more (1 becomes 0)
  RunCounts,    \* RunCounts[n]: the numbers of runs in a guide that n workers share
  Modes,        \* values of `ltb': TRUE if called by the batch prover
  Failures,     \* the results of a run that finds no proof
  Homes         \* what the parent may run under

ASSUME SRAssumption ==
  /\ ForkCounts \subseteq Nat \ {1}
  /\ \E n \in ForkCounts : \A m \in ForkCounts : m <= n
  /\ \A n \in ForkCounts : RunCounts[n] \subseteq Nat \ {0}
  /\ Modes \subseteq BOOLEAN
  /\ Failures \subseteq {1, 2, -1, -2}
  /\ Homes \subseteq {"init", "subreaper", "pid1"}

Parent == -1
MaxForks == CHOOSE n \in ForkCounts : \A m \in ForkCounts : m <= n
Workers == 0..(MaxForks - 1)            \* a worker is named by its forknr
Processes == Workers \cup {Parent}

VARIABLES
  maxforks,     \* how many workers to fork
  runs,         \* guideres: how many runs the guide has
  ltb,          \* strategytext is LTBSPECIAL
  home,         \* "init" or "subreaper" adopts orphans; "pid1": the parent is init
  state,        \* of each process
  status,       \* what a process hands to exit or died of
  iter,         \* the next iteration of each process
  res,          \* the result of its last run: 0 proof, 1 exhausted,
                \* 2 out of time, -1 out of memory, -2 error in the database
  forkscreated, \* how many workers exist: 0 .. forkscreated-1
  forkslive,    \* how many the parent still waits for
  forkpids,     \* the workers the parent would kill
  stat,         \* the wait status the parent looks at
  dying,        \* the workers a fatal signal is on its way to
  reaped,       \* history: the workers waitpid has returned
  killed,       \* history: the workers the parent sent SIGKILL to
  tried,        \* history: the iterations each process has started
  proved,       \* history: the processes that found a proof
  faults        \* history: what went wrong around the search

parentVars == <<forkscreated, forkslive, forkpids, stat, reaped, killed>>
runVars    == <<iter, res, tried, proved>>
jobVars    == <<maxforks, runs, ltb, home>>
vars == <<jobVars, parentVars, runVars, state, status, dying, faults>>

Exited(code) == [exited |-> TRUE, code |-> code]
Signalled    == [exited |-> FALSE, code |-> 0]    \* WEXITSTATUS is then 0

\* Mutant: the exit code is 1 whatever the result.
ExitCodeFlat(r) == IF ~ltb THEN 0 ELSE 1

\* The exit code of gkc for a result of wg_run_reasoner.  Only the batch
\* prover sees whether the search failed.
ExitCode(r) == IF r = 0 \/ ~ltb THEN 0 ELSE r % 256

Init ==
  /\ maxforks \in ForkCounts
  /\ runs \in RunCounts[maxforks]
  /\ ltb \in Modes
  /\ home \in Homes
  /\ state = [p \in Processes |-> IF p = Parent THEN "fork" ELSE "none"]
  /\ status = [p \in Processes |-> Exited(0)]
  /\ iter = [p \in Processes |-> IF p = Parent THEN 0 ELSE p]
  /\ res = [p \in Processes |-> 1]
  /\ forkscreated = 0
  /\ forkslive = 0
  /\ forkpids = {}
  /\ stat = Exited(0)
  /\ dying = {}
  /\ reaped = {}
  /\ killed = {}
  /\ tried = [p \in Processes |-> {}]
  /\ proved = {}
  /\ faults = {}

-----------------------------------------------------------------------------
\* The fork loop of the parent.

Fork ==
  /\ state[Parent] = "fork"
  /\ forkscreated < maxforks
  /\ state' = [state EXCEPT ![forkscreated] = "born"]
  /\ forkpids' = forkpids \cup {forkscreated}
  /\ forkscreated' = forkscreated + 1
  /\ forkslive' = forkslive + 1
  /\ UNCHANGED <<jobVars, runVars, status, stat, dying, reaped, killed, faults>>

\* The loop ends: the parent waits if it has workers and searches if not.
AfterForks == state' = [state EXCEPT ![Parent] = IF forkscreated > 0 THEN "wait" ELSE "search"]

ForksDone ==
  /\ state[Parent] = "fork"
  /\ forkscreated = maxforks
  /\ AfterForks
  /\ UNCHANGED <<jobVars, parentVars, runVars, status, dying, faults>>

ForkFails ==
  /\ state[Parent] = "fork"
  /\ forkscreated < maxforks
  /\ AfterForks
  /\ faults' = faults \cup {"fork"}
  /\ UNCHANGED <<jobVars, parentVars, runVars, status, dying>>

-----------------------------------------------------------------------------
\* A worker asks for SIGTERM at the death of its parent.
Prctl(k) ==
  /\ state[k] = "born"
  /\ state' = [state EXCEPT ![k] = "armed"]
  /\ UNCHANGED <<jobVars, parentVars, runVars, status, dying, faults>>

Ended == state[Parent] = "done"

\* getppid() == 1.  An orphan gets process 1 for a parent unless a subreaper
\* adopts it; and the parent itself may be process 1.
ParentIsInit == IF Ended THEN home = "init" ELSE home = "pid1"

\* Mutant: the worker does not look whether its parent died before the prctl.
CheckNothing(k) ==
  /\ state[k] = "armed"
  /\ state' = [state EXCEPT ![k] = "search"]
  /\ UNCHANGED <<jobVars, parentVars, runVars, status, dying, faults>>

\* The worker looks whether the parent died before the prctl.  Under a parent
\* that is process 1 it takes it for dead and gives up.
Check(k) ==
  /\ state[k] = "armed"
  /\ IF ParentIsInit
     THEN /\ state' = [state EXCEPT ![k] = "zombie"]
          /\ status' = [status EXCEPT ![k] = Exited(1)]
          /\ faults' = IF Ended THEN faults ELSE faults \cup {"pid1"}
     ELSE /\ state' = [state EXCEPT ![k] = "search"]
          /\ UNCHANGED <<status, faults>>
  /\ UNCHANGED <<jobVars, parentVars, runVars, dying>>

\* Mutant: no worker has asked for SIGTERM.
OrphanedNone == {}

\* The workers a signal goes to when the parent ends: SIGTERM to those that asked
\* for it; when process 1 of a container ends the kernel kills the others too.
Orphaned ==
  {k \in Workers : \/ state[k] \in {"armed", "search"}
                   \/ state[k] = "born" /\ home = "pid1"}

ParentExits(code) ==
  /\ state' = [state EXCEPT ![Parent] = "done"]
  /\ status' = [status EXCEPT ![Parent] = Exited(code)]
  /\ dying' = dying \cup Orphaned

\* wg_run_reasoner returns r and the process exits.
Finish(p, r) ==
  \/ p = Parent /\ ParentExits(ExitCode(r))
  \/ /\ p # Parent
     /\ state' = [state EXCEPT ![p] = "zombie"]
     /\ status' = [status EXCEPT ![p] = Exited(ExitCode(r))]
     /\ UNCHANGED dying

\* Mutants: a worker goes on with the next run; it skips one run too many.
StrideOne(p) == 1
StrideLong(p) == IF p = Parent THEN 1 ELSE maxforks + 1

\* The iterations a process makes: all of them, or those of its fork.
Stride(p) == IF p = Parent THEN 1 ELSE maxforks

Proves(p) ==
  /\ res' = [res EXCEPT ![p] = 0]
  /\ proved' = proved \cup {p}
  /\ Finish(p, 0)
  /\ UNCHANGED iter

\* The process goes on with its next run, or stops if the guide has no further one.
Fails(p, r) ==
  /\ res' = [res EXCEPT ![p] = r]
  /\ IF iter[p] + 1 >= runs
     THEN Finish(p, r) /\ UNCHANGED iter
     ELSE /\ iter' = [iter EXCEPT ![p] = @ + Stride(p)]
          /\ UNCHANGED <<state, status, dying>>
  /\ UNCHANGED proved

\* Process p is in a run that does not end.
RunsForever(p) == state[p] = "search" /\ iter[p] \in tried[p]

\* One iteration: the run finds a proof, ends without one, or does not end.  An
\* error flag of the database makes -2 of any other result.
Run(p) ==
  /\ state[p] = "search"
  /\ iter[p] \notin tried[p]
  /\ tried' = [tried EXCEPT ![p] = @ \cup {iter[p]}]
  /\ \/ Proves(p)
     \/ \E r \in Failures : Fails(p, r)
     \/ UNCHANGED <<iter, res, proved, state, status, dying>>
  /\ UNCHANGED <<jobVars, parentVars, faults>>

\* total_seconds has passed before the iteration starts.
OutOfTime(p) ==
  /\ state[p] = "search" /\ ~RunsForever(p)
  /\ res' = [res EXCEPT ![p] = 2]
  /\ Finish(p, 2)
  /\ faults' = faults \cup {"time"}
  /\ UNCHANGED <<jobVars, parentVars, iter, tried, proved>>

\* The iteration cannot be set up: an error return, or, if the clause lists
\* are at fault, a break with the result of the run before.
SetupFails(p) ==
  /\ state[p] = "search" /\ ~RunsForever(p)
  /\ \E r \in {-1, res[p]} : Finish(p, r)
  /\ faults' = faults \cup {"setup"}
  /\ UNCHANGED <<jobVars, parentVars, runVars>>

\* A signal kills a worker (memory, a bug, the user).
Crash(k) ==
  /\ state[k] \in {"born", "armed", "search"}
  /\ state' = [state EXCEPT ![k] = "zombie"]
  /\ status' = [status EXCEPT ![k] = Signalled]
  /\ faults' = faults \cup {"crash"}
  /\ UNCHANGED <<jobVars, parentVars, runVars, dying>>

-----------------------------------------------------------------------------
\* The wait loop of the parent.

Alive == {k \in Workers : state[k] \in {"born", "armed", "search", "zombie"}}

\* The parent has worker k's status; it goes on to kill or to the next worker.
Counts(pids, kill, k) ==
  /\ forkslive' = forkslive - 1
  /\ forkpids' = pids
  /\ state' = IF kill THEN [state EXCEPT ![k] = "gone", ![Parent] = "kill"]
              ELSE [state EXCEPT ![k] = "gone"]

\* Mutant: WIFEXITED is not tested.
LookAny(s, k) == Counts(forkpids \ {k}, s.code = 0, k)

\* Mutant: the pid of a reaped worker stays in the array.
LookKeepsPid(s, k) ==
  \/ s.exited /\ Counts(forkpids, s.code = 0, k)
  \/ ~s.exited /\ state' = [state EXCEPT ![k] = "gone"] /\ UNCHANGED <<forkslive, forkpids>>

\* What the loop does with the status s of worker k: 0 is a proof; a worker that did
\* not exit is not counted off.
Look(s, k) ==
  \/ s.exited /\ Counts(forkpids \ {k}, s.code = 0, k)
  \/ ~s.exited /\ state' = [state EXCEPT ![k] = "gone"] /\ UNCHANGED <<forkslive, forkpids>>

Wait(k) ==
  /\ state[Parent] = "wait"
  /\ forkslive > 0
  /\ state[k] = "zombie"
  /\ stat' = status[k]
  /\ reaped' = reaped \cup {k}
  /\ Look(status[k], k)
  /\ UNCHANGED <<jobVars, runVars, forkscreated, killed, status, dying, faults>>

\* Mutant: the loop that kills starts at 1.
ToKillFromOne == forkpids \ (killed \cup {0})

ToKill == forkpids \ killed

\* A proof was found: the parent kills the workers still in forkpids, one by one.
Kill(k) ==
  /\ state[Parent] = "kill"
  /\ k \in ToKill /\ \A j \in ToKill : k <= j
  /\ killed' = killed \cup {k}
  /\ dying' = dying \cup {k}
  /\ UNCHANGED <<jobVars, runVars, forkscreated, forkslive, forkpids, stat, reaped, state,
                 status, faults>>

KillsDone ==
  /\ state[Parent] = "kill"
  /\ ToKill = {}
  /\ ParentExits(0)
  /\ UNCHANGED <<jobVars, parentVars, runVars, faults>>

\* No child is left: waitpid returns -1, and stat is that of the call before.
WaitFails ==
  /\ state[Parent] = "wait"
  /\ forkslive > 0
  /\ Alive = {}
  /\ forkslive' = IF stat.exited THEN forkslive - 1 ELSE forkslive
  /\ UNCHANGED <<jobVars, runVars, forkscreated, forkpids, stat, reaped, killed,
                 state, status, dying, faults>>

\* Every worker is accounted for: the parent skips the runs and returns.
ParentReturns ==
  /\ state[Parent] = "wait"
  /\ forkslive = 0
  /\ Finish(Parent, res[Parent])
  /\ UNCHANGED <<jobVars, parentVars, runVars, faults>>

\* SIGALRM: sig_handler of the parent exits.
TimeLimit ==
  /\ ~Ended
  /\ ParentExits(1)
  /\ faults' = faults \cup {"alarm"}
  /\ UNCHANGED <<jobVars, parentVars, runVars>>

\* A signal ends worker k; the zombies of a dead parent are reaped by its heir.
Terminated(k) ==
  /\ \/ k \in dying /\ state[k] \in {"born", "armed", "search"}
     \/ state[k] = "zombie" /\ Ended
  /\ state' = [state EXCEPT ![k] = "gone"]
  /\ UNCHANGED <<jobVars, parentVars, runVars, status, dying, faults>>

-----------------------------------------------------------------------------
Steps ==
  \/ Fork \/ ForksDone \/ WaitFails \/ KillsDone \/ ParentReturns
  \/ \E p \in Processes : Run(p)
  \/ \E k \in Workers : Prctl(k) \/ Check(k) \/ Wait(k) \/ Kill(k) \/ Terminated(k)

Mishaps ==
  \/ ForkFails \/ TimeLimit
  \/ \E p \in Processes : OutOfTime(p) \/ SetupFails(p)
  \/ \E k \in Workers : Crash(k)

Next == Steps \/ Mishaps

Spec == Init /\ [][Next]_vars

(***************************************************************************)
(* Fairness: the kernel runs every process that can run and delivers the   *)
(* signals; nothing is assumed of the runs: Run lets one go on for ever.   *)
(***************************************************************************)
Fairness ==
  /\ WF_vars(\/ Fork \/ ForksDone \/ WaitFails \/ KillsDone \/ ParentReturns
             \/ \E k \in Workers : Wait(k) \/ Kill(k))
  /\ \A p \in Processes : WF_vars(Run(p))
  /\ \A k \in Workers : WF_vars(Prctl(k) \/ Check(k)) /\ WF_vars(Terminated(k))

FairSpec == Spec /\ Fairness

-----------------------------------------------------------------------------
\* Properties.

TypeOK ==
  /\ dying \cup reaped \cup killed \subseteq 0..(forkscreated - 1)
  /\ state \in [Processes -> {"none", "fork", "born", "armed", "search", "wait", "kill", "zombie", "gone", "done"}]
  /\ status \in [Processes -> [exited : BOOLEAN, code : 0..255]]
  /\ res \in [Processes -> {0, 1, 2, -1, -2}]
  /\ iter \in [Processes -> Nat]
  /\ forkscreated \in 0..maxforks
  /\ forkslive \in 0..forkscreated
  /\ forkpids \in SUBSET (0..(forkscreated - 1))

Result == status[Parent].code

\* What the batch prover prints as a theorem was proved: gkc_ltb_main takes
\* the exit code 0 for it, whatever workers crashed, failed or ran out of time.
SuccessIsProof == Ended /\ ltb /\ Result = 0 => proved # {}

\* A search that failed without any mishap has tried every run of the guide.
FailureIsExhaustive ==
  Ended /\ Result # 0 /\ faults = {} =>
    \A i \in 0..(runs - 1) : \E p \in Processes : i \in tried[p]

\* No run is made by two processes, even if workers die or cannot be forked.
NoRunTwice == \A p, q \in Processes : tried[p] \cap tried[q] # {} => p = q

\* A pid that waitpid has returned is not killed, since it may name another
\* program by then.  Only a worker that died of a signal is not protected: it
\* stays in forkpids.
KillsOnlyItsOwn == \A k \in killed \cap reaped : ~status[k].exited

\* When the parent ends by itself, the workers that still run were killed.
NobodyLeftBehind ==
  Ended /\ "alarm" \notin faults => {k \in Alive : state[k] # "zombie"} \subseteq killed

\* A worker whose parent ended before, between or after its prctl and its getppid
\* does not search on, unless a subreaper has adopted it (then getppid does not tell).
NoOrphanSearches ==
  Ended /\ home # "subreaper" => \A k \in Workers : state[k] = "search" => k \in dying

\* A proof that a process found reaches the exit code, unless the alarm comes
\* first, also when other workers crash or never end.
NoProofLost == proved # {} ~> Ended /\ (Result = 0 \/ "alarm" \in faults)

\* In the end nobody is left but a search that does not end, and none is once a proof
\* is found (save an orphan the alarm left to a subreaper).  After a crash the parent
\* may wait for ever.
EveryoneEnds ==
  <>[](\/ "crash" \in faults
       \/ Ended /\ Alive = {}
       \/ /\ \E p \in Processes : RunsForever(p)
          /\ proved = {} \/ (home = "subreaper" /\ "alarm" \in faults))
=============================================================================
