------------------------- MODULE StrategyRunsProofs -------------------------
(***************************************************************************)
(* Proofs about StrategyRuns, for every number of forks and of runs in the *)
(* guide, every outcome of the runs, every home and every mishap.          *)
(*                                                                         *)
(* The invariants build on each other: what the parent has created, what   *)
(* it has reaped and still counts on, which iterations a process has made, *)
(* and what the exit statuses say about the searches.                      *)
(***************************************************************************)
EXTENDS StrategyRuns, FiniteSetTheorems, TLAPS

\* The largest number of forks is one of them.
LEMMA MostForks ==
  /\ MaxForks \in Nat
  /\ \A n \in ForkCounts : n \in Nat /\ n <= MaxForks
<1>1. \E n \in ForkCounts : \A m \in ForkCounts : m <= n
  BY SRAssumption
<1>2. MaxForks \in ForkCounts /\ \A m \in ForkCounts : m <= MaxForks
  BY <1>1 DEF MaxForks
<1>3. QED
  BY <1>2, SRAssumption

\* The parent is no worker.
LEMMA Names ==
  /\ Parent \in Processes /\ Parent \notin Workers
  /\ Workers \subseteq Processes /\ Workers \subseteq Nat
  /\ \A p \in Processes : p # Parent => p \in Workers
BY MostForks DEF Parent, Processes, Workers

-----------------------------------------------------------------------------
\* What the parent has created.

ProcessStates == {"fork", "wait", "kill", "search", "done"}
WorkerStates == {"none", "born", "armed", "search", "zombie", "gone"}
Results == {0, 1, 2, -1, -2}

Jobs ==
  /\ maxforks \in ForkCounts /\ runs \in RunCounts[maxforks] /\ ltb \in BOOLEAN
  /\ home \in {"init", "subreaper", "pid1"}

\* The workers 0 .. forkscreated-1 exist, and either they or the parent search.
Creation ==
  /\ state[Parent] \in ProcessStates
  /\ \A k \in Workers : state[k] \in WorkerStates
  /\ \A k \in Workers : state[k] = "none" <=> k >= forkscreated
  /\ \A k \in Workers : state[k] = "none" => tried[k] = {}
  /\ state[Parent] = "fork" => tried[Parent] = {}
  /\ state[Parent] = "search" \/ tried[Parent] # {} => forkscreated = 0
  /\ state[Parent] \in {"wait", "kill"} => forkscreated > 0

Typing == TypeOK /\ tried \in [Processes -> SUBSET Nat]

Base == Typing /\ Jobs /\ Creation

\* The number of workers as a number, and the code of a failed search.
LEMMA BaseFacts ==
  ASSUME Base
  PROVE  /\ maxforks \in Nat /\ maxforks <= MaxForks /\ runs \in Nat /\ runs > 0
         /\ forkscreated \in Nat /\ forkscreated <= maxforks /\ forkslive \in Nat
         /\ 0..(forkscreated - 1) \subseteq Workers
         /\ \A k \in Workers : state[k] # "none" <=> k \in 0..(forkscreated - 1)
         /\ \A p \in Processes : Stride(p) \in Nat
<1>1. /\ maxforks \in Nat /\ maxforks <= MaxForks /\ runs \in Nat /\ runs > 0
  BY MostForks, SRAssumption DEF Base, Jobs
<1>2. /\ forkscreated \in Nat /\ forkscreated <= maxforks /\ forkslive \in Nat
  BY <1>1 DEF Base, Typing, TypeOK
<1>3. QED
  BY <1>1, <1>2, Names, MostForks DEF Base, Creation, Workers, Stride

LEMMA Codes ==
  ASSUME Base, NEW r \in Results
  PROVE  /\ ExitCode(r) \in 0..255
         /\ ltb /\ ExitCode(r) = 0 => r = 0
         /\ r = 0 => ExitCode(r) = 0
BY DEF ExitCode, Results

\* The initial states.
LEMMA InitBase == Init => Base
<1> SUFFICES ASSUME Init PROVE Base
  OBVIOUS
<1>1. Jobs
  BY SRAssumption DEF Init, Jobs
<1>2. maxforks \in Nat
  BY <1>1, MostForks DEF Jobs
<1>3. \A p \in Processes : /\ state[p] = IF p = Parent THEN "fork" ELSE "none"
                           /\ iter[p] = (IF p = Parent THEN 0 ELSE p) /\ tried[p] = {}
  BY DEF Init
<1>4. Typing
  BY <1>2, Names DEF Init, Typing, TypeOK, Exited, Results
<1>5. Creation
  BY <1>3, Names DEF Init, Creation, ProcessStates, WorkerStates
<1>6. QED
  BY <1>1, <1>4, <1>5 DEF Base

\* Orphaned workers were created.
LEMMA OrphansCreated ==
  ASSUME Base
  PROVE  Orphaned \subseteq 0..(forkscreated - 1)
BY BaseFacts DEF Orphaned

\* Forking.
LEMMA ForkBase ==
  ASSUME Base, Fork \/ ForksDone \/ ForkFails
  PROVE  Base'
<1>1. Jobs' /\ UNCHANGED <<jobVars, runVars, status, dying, reaped, killed>>
  BY DEF Base, Jobs, Fork, ForksDone, ForkFails, jobVars, runVars, parentVars
<1>2. state[Parent] = "fork"
  BY DEF Fork, ForksDone, ForkFails
<1>3. CASE Fork
  <2>1. forkscreated \in Workers /\ forkscreated < maxforks
    BY <1>3, BaseFacts, MostForks DEF Fork, Workers
  <2>2. /\ state'[forkscreated] = "born"
        /\ \A p \in Processes : p # forkscreated => state'[p] = state[p]
        /\ forkscreated' = forkscreated + 1
        /\ 0..(forkscreated - 1) \subseteq 0..(forkscreated' - 1)
    BY <1>3, <2>1, Names, BaseFacts DEF Fork, Base, Typing, TypeOK
  <2>3. Typing'
    BY <1>1, <1>3, <2>1, <2>2, Names, BaseFacts DEF Fork, Base, Typing, TypeOK, jobVars, runVars
  <2>4. Creation'
    BY <1>1, <1>2, <2>1, <2>2, Names, BaseFacts
    DEF Base, Creation, ProcessStates, WorkerStates, runVars
  <2>5. QED
    BY <1>1, <2>3, <2>4 DEF Base
<1>4. CASE ForksDone \/ ForkFails
  <2>1. /\ state'[Parent] = IF forkscreated > 0 THEN "wait" ELSE "search"
        /\ \A k \in Workers : state'[k] = state[k]
        /\ UNCHANGED parentVars /\ state' \in [Processes -> ProcessStates \cup WorkerStates]
    BY <1>4, Names DEF ForksDone, ForkFails, AfterForks, Base, Typing, TypeOK, ProcessStates, WorkerStates
  <2>2. Typing'
    BY <1>1, <2>1 DEF Base, Typing, TypeOK, ProcessStates, WorkerStates, jobVars, runVars, parentVars
  <2>3. Creation'
    BY <1>1, <1>2, <2>1, Names, BaseFacts
    DEF Base, Creation, ProcessStates, WorkerStates, runVars, parentVars
  <2>4. QED
    BY <1>1, <2>2, <2>3 DEF Base
<1>5. QED
  BY <1>3, <1>4

\* A worker changes its state, the parent does not.
LEMMA WorkerBase ==
  ASSUME Base, NEW k \in Workers, NEW to \in {"armed", "search", "zombie", "gone"},
         state[k] # "none", state' = [state EXCEPT ![k] = to],
         UNCHANGED <<jobVars, parentVars, runVars, dying>>,
         status' = status \/ \E s \in {Exited(1), Signalled} : status' = [status EXCEPT ![k] = s]
  PROVE  Base'
<1>1. Jobs'
  BY DEF Base, Jobs, jobVars
<1>2. state'[k] = to /\ \A p \in Processes : p # k => state'[p] = state[p]
  BY Names DEF Base, Typing, TypeOK
<1>3. Typing'
  <2>1. Exited(1) \in [exited : BOOLEAN, code : 0..255] /\ Signalled \in [exited : BOOLEAN, code : 0..255]
    BY DEF Exited, Signalled
  <2>2. status' \in [Processes -> [exited : BOOLEAN, code : 0..255]]
    <3>1. CASE status' = status
      BY <3>1 DEF Base, Typing, TypeOK
    <3>2. ASSUME NEW s \in {Exited(1), Signalled}, status' = [status EXCEPT ![k] = s]
          PROVE  status' \in [Processes -> [exited : BOOLEAN, code : 0..255]]
      <4>1. s \in [exited : BOOLEAN, code : 0..255]
        BY <2>1, <3>2
      <4>2. status \in [Processes -> [exited : BOOLEAN, code : 0..255]]
        BY DEF Base, Typing, TypeOK
      <4>3. QED
        BY <3>2, <4>1, <4>2
    <3>3. QED
      BY <3>1, <3>2
  <2>3. state' \in [Processes -> ProcessStates \cup WorkerStates]
    BY Names DEF Base, Typing, TypeOK, ProcessStates, WorkerStates
  <2>4. QED
    BY <2>2, <2>3 DEF Base, Typing, TypeOK, jobVars, parentVars, runVars, ProcessStates, WorkerStates
<1>4. Creation'
  BY <1>2, Names, BaseFacts DEF Base, Creation, ProcessStates, WorkerStates, parentVars, runVars
<1>5. QED
  BY <1>1, <1>3, <1>4 DEF Base

\* What Finish does.
LEMMA FinishBase ==
  ASSUME Base, NEW p \in Processes, NEW r \in Results, Finish(p, r)
  PROVE  /\ state'[p] = IF p = Parent THEN "done" ELSE "zombie"
         /\ status'[p] = Exited(ExitCode(r))
         /\ \A q \in Processes : q # p => state'[q] = state[q] /\ status'[q] = status[q]
         /\ state' \in [Processes -> ProcessStates \cup WorkerStates]
         /\ status' \in [Processes -> [exited : BOOLEAN, code : 0..255]]
         /\ dying' \subseteq 0..(forkscreated - 1)
         /\ dying \subseteq dying'
         /\ p = Parent => Orphaned \subseteq dying'
         /\ p # Parent => dying' = dying
<1>1. /\ state' = [state EXCEPT ![p] = IF p = Parent THEN "done" ELSE "zombie"]
      /\ status' = [status EXCEPT ![p] = Exited(ExitCode(r))]
      /\ dying' = IF p = Parent THEN dying \cup Orphaned ELSE dying
  BY Names DEF Finish, ParentExits
<1>2. Exited(ExitCode(r)) \in [exited : BOOLEAN, code : 0..255]
  BY Codes DEF Exited
<1>3. dying' \subseteq 0..(forkscreated - 1)
  BY <1>1, OrphansCreated DEF Base, Typing, TypeOK
<1>4. QED
  BY <1>1, <1>2, <1>3 DEF Base, Typing, TypeOK, ProcessStates, WorkerStates

\* A process that searches goes on or ends with some result.
LEMMA SearchOutcome ==
  ASSUME Base, NEW p \in Processes, Run(p) \/ OutOfTime(p) \/ SetupFails(p)
  PROVE  \E r \in Results : Finish(p, r) \/ UNCHANGED <<state, status, dying>>
<1>1. CASE Run(p)
  <2>1. CASE Proves(p)
    BY <2>1 DEF Proves, Results
  <2>2. ASSUME NEW r \in Failures, Fails(p, r)
        PROVE  r \in Results /\ (Finish(p, r) \/ UNCHANGED <<state, status, dying>>)
    BY <2>2, SRAssumption DEF Fails, Results
  <2>3. CASE UNCHANGED <<iter, res, proved, state, status, dying>>
    BY <2>3 DEF Results
  <2>4. QED
    BY <1>1, <2>1, <2>2, <2>3 DEF Run
<1>2. CASE OutOfTime(p)
  BY <1>2 DEF OutOfTime, Results
<1>3. CASE SetupFails(p)
  <2>1. res[p] \in Results
    BY DEF Base, Typing, TypeOK, Results
  <2>2. \E r \in {-1, res[p]} : Finish(p, r)
    BY <1>3 DEF SetupFails
  <2>3. QED
    BY <2>1, <2>2 DEF Results
<1>4. QED
  BY <1>1, <1>2, <1>3

\* A process that searches makes an iteration or stops.
LEMMA SearchBase ==
  ASSUME Base, NEW p \in Processes, Run(p) \/ OutOfTime(p) \/ SetupFails(p)
  PROVE  Base'
<1>1. state[p] = "search" /\ UNCHANGED <<jobVars, parentVars>> /\ Jobs'
  BY DEF Run, OutOfTime, SetupFails, Base, Jobs, jobVars
<1>2. p # Parent => state[p] # "none" /\ p \in Workers
  BY <1>1, Names
<1>3. PICK r \in Results : Finish(p, r) \/ UNCHANGED <<state, status, dying>>
  BY SearchOutcome
<1>4. /\ state'[p] \in {state[p], IF p = Parent THEN "done" ELSE "zombie"}
      /\ \A q \in Processes : q # p => state'[q] = state[q]
      /\ state' \in [Processes -> ProcessStates \cup WorkerStates]
      /\ status' \in [Processes -> [exited : BOOLEAN, code : 0..255]]
      /\ dying' \subseteq 0..(forkscreated - 1)
  BY <1>3, FinishBase DEF Base, Typing, TypeOK, ProcessStates, WorkerStates
<1>5. res' \in [Processes -> Results]
  <2>1. res' = res \/ \E x \in Results : res' = [res EXCEPT ![p] = x]
    BY SRAssumption DEF Run, Proves, Fails, OutOfTime, SetupFails, runVars, Results
  <2>2. QED
    BY <2>1 DEF Base, Typing, TypeOK, Results
<1>6. iter' \in [Processes -> Nat]
  <2>1. CASE iter' = iter
    BY <2>1 DEF Base, Typing, TypeOK
  <2>2. CASE iter' = [iter EXCEPT ![p] = @ + Stride(p)]
    BY <2>2, BaseFacts DEF Base, Typing, TypeOK
  <2>3. QED
    BY <2>1, <2>2 DEF Run, Proves, Fails, OutOfTime, SetupFails, runVars
<1>7. tried' \in [Processes -> SUBSET Nat] /\ \A q \in Processes : q # p => tried'[q] = tried[q]
  <2>1. CASE tried' = tried
    BY <2>1 DEF Base, Typing
  <2>2. CASE tried' = [tried EXCEPT ![p] = @ \cup {iter[p]}]
    BY <2>2 DEF Base, Typing, TypeOK
  <2>3. QED
    BY <2>1, <2>2 DEF Run, OutOfTime, SetupFails, runVars
<1>8. Typing'
  BY <1>1, <1>4, <1>5, <1>6, <1>7
  DEF Base, Typing, TypeOK, jobVars, parentVars, ProcessStates, WorkerStates, Results
<1>9. Creation'
  <2>1. CASE p = Parent
    BY <1>1, <1>4, <1>7, <2>1, Names DEF Base, Creation, ProcessStates, WorkerStates, parentVars
  <2>2. CASE p # Parent
    BY <1>1, <1>2, <1>4, <1>7, <2>2, Names DEF Base, Creation, ProcessStates, WorkerStates, parentVars
  <2>3. QED
    BY <2>1, <2>2
<1>10. QED
  BY <1>1, <1>8, <1>9 DEF Base

\* The parent looks at a worker that ended.
LEMMA WaitBase ==
  ASSUME Base, NEW k \in Workers, Wait(k)
  PROVE  /\ Base'
         /\ state'[k] = "gone"
         /\ state'[Parent] = IF status[k].exited /\ status[k].code = 0 THEN "kill" ELSE "wait"
         /\ \A j \in Workers : j # k => state'[j] = state[j]
         /\ UNCHANGED <<status, killed, dying>>
<1>1. /\ state[Parent] = "wait" /\ state[k] = "zombie" /\ reaped' = reaped \cup {k}
      /\ forkslive > 0 /\ UNCHANGED <<jobVars, runVars, forkscreated, killed, status, dying, faults>>
      /\ stat' = status[k] /\ Look(status[k], k)
  BY DEF Wait
<1>2. k \in 0..(forkscreated - 1) /\ k # Parent
  BY <1>1, BaseFacts, Names
<1>3. state' = IF status[k].exited /\ status[k].code = 0
               THEN [state EXCEPT ![k] = "gone", ![Parent] = "kill"]
               ELSE [state EXCEPT ![k] = "gone"]
  BY <1>1 DEF Look, Counts
<1>4. forkslive' \in 0..forkscreated' /\ forkpids' \subseteq forkpids
  BY <1>1, BaseFacts DEF Look, Counts, Base, Typing, TypeOK
<1>5. /\ state' \in [Processes -> ProcessStates \cup WorkerStates]
      /\ state'[k] = "gone"
      /\ state'[Parent] = IF status[k].exited /\ status[k].code = 0 THEN "kill" ELSE "wait"
      /\ \A j \in Workers : j # k => state'[j] = state[j]
  BY <1>1, <1>2, <1>3, Names DEF Base, Typing, TypeOK, ProcessStates, WorkerStates
<1>6. Jobs'
  BY <1>1 DEF Base, Jobs, jobVars
<1>7. Typing'
  BY <1>1, <1>2, <1>4, <1>5
  DEF Base, Typing, TypeOK, jobVars, runVars, ProcessStates, WorkerStates
<1>8. Creation'
  BY <1>1, <1>2, <1>5, Names DEF Base, Creation, ProcessStates, WorkerStates, runVars
<1>9. QED
  BY <1>1, <1>5, <1>6, <1>7, <1>8 DEF Base

\* The parent kills a worker.
LEMMA KillBase ==
  ASSUME Base, NEW k \in Workers, Kill(k)
  PROVE  Base'
<1>1. /\ k \in forkpids /\ killed' = killed \cup {k} /\ dying' = dying \cup {k}
      /\ UNCHANGED <<jobVars, runVars, forkscreated, forkslive, forkpids, stat, reaped, state,
                     status, faults>>
  BY DEF Kill, ToKill
<1>2. Typing'
  BY <1>1 DEF Base, Typing, TypeOK, jobVars, runVars
<1>3. Jobs' /\ Creation'
  BY <1>1 DEF Base, Jobs, Creation, jobVars, runVars
<1>4. QED
  BY <1>2, <1>3 DEF Base

\* The parent waits in vain, returns, has killed the workers, or is ended by the alarm.
LEMMA ParentBase ==
  ASSUME Base, WaitFails \/ ParentReturns \/ KillsDone \/ TimeLimit
  PROVE  /\ Base'
         /\ \A k \in Workers : state'[k] = state[k] /\ status'[k] = status[k]
         /\ state'[Parent] \in {state[Parent], "done"}
<1>1. Jobs'
  BY DEF WaitFails, ParentReturns, KillsDone, TimeLimit, Base, Jobs, jobVars
<1>2. CASE WaitFails
  <2>1. Typing' /\ Creation'
    BY <1>2, BaseFacts DEF WaitFails, Base, Typing, TypeOK, Creation, jobVars, runVars
  <2>2. QED
    BY <1>1, <1>2, <2>1 DEF WaitFails, Base
<1>3. CASE ParentReturns \/ KillsDone \/ TimeLimit
  <2>1. UNCHANGED <<jobVars, parentVars, runVars>>
    BY <1>3 DEF ParentReturns, KillsDone, TimeLimit
  <2>2. /\ state'[Parent] = "done"
        /\ \A k \in Workers : state'[k] = state[k] /\ status'[k] = status[k]
        /\ state' \in [Processes -> ProcessStates \cup WorkerStates]
        /\ status' \in [Processes -> [exited : BOOLEAN, code : 0..255]]
        /\ dying' \subseteq 0..(forkscreated - 1)
    <3>1. CASE ParentReturns
      <4>1. res[Parent] \in Results /\ Finish(Parent, res[Parent])
        BY <3>1, Names DEF ParentReturns, Base, Typing, TypeOK, Results
      <4>2. QED
        BY <4>1, FinishBase, Names DEF ProcessStates, WorkerStates
    <3>2. CASE KillsDone \/ TimeLimit
      <4>1. PICK code \in {0, 1} : ParentExits(code)
        BY <3>2 DEF KillsDone, TimeLimit
      <4>2. Exited(code) \in [exited : BOOLEAN, code : 0..255]
        BY DEF Exited
      <4>3. QED
        BY <4>1, <4>2, Names, OrphansCreated
        DEF ParentExits, Base, Typing, TypeOK, ProcessStates, WorkerStates
    <3>3. QED
      BY <1>3, <3>1, <3>2
  <2>3. Typing'
    BY <2>1, <2>2 DEF Base, Typing, TypeOK, jobVars, parentVars, runVars, ProcessStates, WorkerStates
  <2>4. Creation'
    BY <2>1, <2>2 DEF Base, Creation, parentVars, runVars, ProcessStates
  <2>5. QED
    BY <1>1, <2>2, <2>3, <2>4 DEF Base
<1>4. QED
  BY <1>2, <1>3

\* Every step keeps it.
LEMMA NextBase ==
  ASSUME Base, [Next]_vars
  PROVE  Base'
<1>1. CASE UNCHANGED vars
  BY <1>1 DEF vars, jobVars, parentVars, runVars, Base, Jobs, Creation, Typing, TypeOK
<1>2. ASSUME NEW k \in Workers, Prctl(k) \/ Check(k) \/ Crash(k) \/ Terminated(k)
      PROVE  Base'
  <2>1. state[k] # "none" /\ UNCHANGED <<jobVars, parentVars, runVars, dying>>
    BY <1>2 DEF Prctl, Check, Crash, Terminated
  <2>2. PICK to \in {"armed", "search", "zombie", "gone"} : state' = [state EXCEPT ![k] = to]
    BY <1>2 DEF Prctl, Check, Crash, Terminated
  <2>3. status' = status \/ \E s \in {Exited(1), Signalled} : status' = [status EXCEPT ![k] = s]
    BY <1>2 DEF Prctl, Check, Crash, Terminated
  <2>4. QED
    BY <2>1, <2>2, <2>3, WorkerBase
<1>3. QED
  BY <1>1, <1>2, ForkBase, SearchBase, WaitBase, KillBase, ParentBase DEF Next, Steps, Mishaps

-----------------------------------------------------------------------------

\* What the steps of a worker and of a search do to the states, process by process.
LEMMA WorkerEffect ==
  ASSUME Base, NEW k \in Workers, Prctl(k) \/ Check(k) \/ Crash(k) \/ Terminated(k)
  PROVE  /\ state[k] \in {"born", "armed", "search", "zombie"}
         /\ state'[k] \in {"armed", "search", "zombie", "gone"}
         /\ state'[k] = "search" => state[k] = "armed" /\ ~ParentIsInit
         /\ state'[k] = "armed" => state[k] = "born"
         /\ state[k] = "zombie" => state'[k] = "gone" /\ state[Parent] = "done"
         /\ state'[k] = "gone" => k \in dying \/ state[Parent] = "done"
         /\ state'[k] = "gone" => status' = status
         /\ \A q \in Processes : q # k => state'[q] = state[q] /\ status'[q] = status[q]
         /\ UNCHANGED <<jobVars, parentVars, runVars, dying>>
         /\ faults \subseteq faults'
<1>1. state \in [Processes -> ProcessStates \cup WorkerStates] /\ k \in Processes
  BY Names DEF Base, Typing, TypeOK, ProcessStates, WorkerStates
<1>2. status \in [Processes -> [exited : BOOLEAN, code : 0..255]]
  BY DEF Base, Typing, TypeOK
<1>3. CASE Prctl(k)
  BY <1>1, <1>2, <1>3 DEF Prctl
<1>4. CASE Check(k)
  BY <1>1, <1>2, <1>4 DEF Check
<1>5. CASE Crash(k)
  BY <1>1, <1>2, <1>5 DEF Crash
<1>6. CASE Terminated(k)
  BY <1>1, <1>2, <1>6 DEF Terminated, Ended
<1>7. QED
  BY <1>3, <1>4, <1>5, <1>6

LEMMA SearchEffect ==
  ASSUME Base, NEW p \in Processes, Run(p) \/ OutOfTime(p) \/ SetupFails(p)
  PROVE  /\ state[p] = "search"
         /\ state'[p] \in {"search", IF p = Parent THEN "done" ELSE "zombie"}
         /\ \A q \in Processes : q # p => state'[q] = state[q] /\ status'[q] = status[q]
         /\ UNCHANGED <<jobVars, parentVars>>
         /\ dying \subseteq dying'
         /\ p # Parent => dying' = dying
         /\ state'[Parent] = "done" /\ p = Parent => Orphaned \subseteq dying'
         /\ state'[Parent] # "done" => dying' = dying
         /\ faults \subseteq faults'
<1>1. state[p] = "search" /\ UNCHANGED <<jobVars, parentVars>> /\ faults \subseteq faults'
  BY DEF Run, OutOfTime, SetupFails
<1>2. PICK r \in Results : Finish(p, r) \/ UNCHANGED <<state, status, dying>>
  BY SearchOutcome
<1>3. CASE Finish(p, r)
  <2>1. p = Parent => state'[Parent] = "done"
    BY <1>3, FinishBase
  <2>2. QED
    BY <1>1, <1>3, FinishBase, Names
<1>4. CASE UNCHANGED <<state, status, dying>>
  BY <1>1, <1>4
<1>5. QED
  BY <1>2, <1>3, <1>4

-----------------------------------------------------------------------------
\* What the parent kills, and who is left when it is gone.

\* Once the parent has ended a signal is on its way to every worker that it should
\* stop, also to one of a container that may yet search.
Doomed ==
  Ended => \A k \in Workers :
             /\ state[k] = "search" /\ home # "subreaper" => k \in dying
             /\ state[k] \in {"born", "armed"} /\ home = "pid1" => k \in dying

\* A worker that the parent has reaped is gone, and off forkpids unless a signal
\* ended it; no signal is on its way before the parent kills or ends.
Ends ==
  /\ \A k \in reaped : state[k] = "gone" /\ (k \in forkpids => ~status[k].exited)
  /\ state[Parent] \notin {"kill", "done"} => killed = {} /\ dying = {}
  /\ killed \subseteq forkpids
  /\ Doomed

LEMMA InitEnds == Init => Ends
BY Names DEF Init, Ends, Doomed, Ended

LEMMA NextEnds ==
  ASSUME Base, Ends, [Next]_vars
  PROVE  Ends'
<1>1. reaped \subseteq Workers /\ Parent \notin reaped
  BY BaseFacts, Names DEF Base, Typing, TypeOK
<1>2. CASE UNCHANGED vars
  BY <1>2 DEF vars, jobVars, parentVars, runVars, Ends, Doomed, Ended
<1>3. CASE Fork \/ ForksDone \/ ForkFails
  <2>1. state[Parent] = "fork" /\ UNCHANGED <<reaped, killed, status, dying>> /\ forkpids \subseteq forkpids'
    BY <1>3 DEF Fork, ForksDone, ForkFails, parentVars
  <2>2. \A k \in reaped : state'[k] = state[k] /\ (k \in forkpids' => k \in forkpids)
    BY <1>1, <1>3, Names, BaseFacts
    DEF Fork, ForksDone, ForkFails, AfterForks, parentVars, Base, Typing, TypeOK
  <2>3. state'[Parent] # "done"
    BY <1>3, <2>1, Names, BaseFacts
    DEF Fork, ForksDone, ForkFails, AfterForks, Base, Typing, TypeOK
  <2>4. QED
    BY <1>1, <2>1, <2>2, <2>3 DEF Ends, Doomed, Ended
<1>4. ASSUME NEW k \in Workers, Prctl(k) \/ Check(k) \/ Crash(k) \/ Terminated(k)
      PROVE  Ends'
  <2>1. k \notin reaped
    BY <1>4, WorkerEffect DEF Ends
  <2>2. UNCHANGED <<reaped, killed, forkpids, dying, home>> /\ state'[Parent] = state[Parent]
    BY <1>4, WorkerEffect, Names DEF parentVars, jobVars
  <2>3. \A j \in reaped : state'[j] = state[j] /\ status'[j] = status[j]
    BY <1>1, <1>4, <2>1, WorkerEffect, Names
  <2>4. Doomed'
    <3>1. SUFFICES ASSUME Ended', NEW j \in Workers
                   PROVE  /\ state'[j] = "search" /\ home # "subreaper" => j \in dying
                          /\ state'[j] \in {"born", "armed"} /\ home = "pid1" => j \in dying
      BY <2>2 DEF Doomed
    <3>2. /\ Ended
          /\ state[j] = "search" /\ home # "subreaper" => j \in dying
          /\ state[j] \in {"born", "armed"} /\ home = "pid1" => j \in dying
      BY <2>2, <3>1 DEF Ends, Doomed, Ended
    <3>3. CASE j # k
      BY <1>4, <3>2, <3>3, WorkerEffect, Names
    <3>4. CASE j = k
      <4>1. state'[k] = "search" => state[k] = "armed" /\ home # "init"
        BY <1>4, <3>2, WorkerEffect DEF ParentIsInit
      <4>2. state'[k] \in {"born", "armed"} => state[k] = "born"
        BY <1>4, WorkerEffect
      <4>3. QED
        BY <3>2, <3>4, <4>1, <4>2 DEF Base, Jobs
    <3>5. QED
      BY <3>3, <3>4
  <2>5. QED
    BY <2>2, <2>3, <2>4 DEF Ends
<1>5. ASSUME NEW p \in Processes, Run(p) \/ OutOfTime(p) \/ SetupFails(p)
      PROVE  Ends'
  <2>1. p \notin reaped
    BY <1>5, SearchEffect DEF Ends
  <2>2. UNCHANGED <<reaped, killed, forkpids, home>>
    BY <1>5, SearchEffect DEF parentVars, jobVars
  <2>3. \A j \in reaped : state'[j] = state[j] /\ status'[j] = status[j]
    BY <1>1, <1>5, <2>1, SearchEffect, Names
  <2>4. state'[Parent] \notin {"kill", "done"} => state[Parent] \notin {"kill", "done"} /\ dying' = dying
    BY <1>5, SearchEffect, Names
  <2>5. Doomed'
    <3>1. \A j \in Workers : state'[j] \in {"born", "armed", "search"} => state'[j] = state[j]
      BY <1>5, SearchEffect, Names
    <3>2. dying \subseteq dying' /\ (Ended' => Ended \/ Orphaned \subseteq dying')
      BY <1>5, SearchEffect, Names DEF Ended
    <3>3. QED
      BY <2>2, <3>1, <3>2 DEF Ends, Doomed, Orphaned
  <2>6. QED
    BY <2>2, <2>3, <2>4, <2>5 DEF Ends
<1>6. ASSUME NEW k \in Workers, Wait(k)
      PROVE  Ends'
  <2>1. /\ state[Parent] = "wait" /\ state[k] = "zombie" /\ reaped' = reaped \cup {k}
        /\ Look(status[k], k)
    BY <1>6 DEF Wait
  <2>2. \A j \in reaped' : /\ state'[j] = "gone" /\ status'[j] = status[j]
                           /\ j \in forkpids' => ~status[j].exited
    BY <1>1, <1>6, <2>1, WaitBase DEF Ends, Look, Counts
  <2>3. ~Ended' /\ killed' = {} /\ dying' = {}
    BY <1>6, <2>1, WaitBase DEF Ends, Ended
  <2>4. QED
    BY <2>2, <2>3 DEF Ends, Doomed
<1>7. ASSUME NEW k \in Workers, Kill(k)
      PROVE  Ends'
  <2>1. /\ state[Parent] = "kill" /\ k \in forkpids
        /\ killed' = killed \cup {k} /\ UNCHANGED <<reaped, state, status, forkpids>>
    BY <1>7 DEF Kill, ToKill
  <2>2. QED
    BY <2>1 DEF Ends, Doomed, Ended
<1>8. CASE WaitFails \/ ParentReturns \/ KillsDone \/ TimeLimit
  <2>1. /\ UNCHANGED <<reaped, killed, forkpids, home>>
        /\ \A k \in Workers : state'[k] = state[k] /\ status'[k] = status[k]
    BY <1>8, ParentBase DEF WaitFails, ParentReturns, KillsDone, TimeLimit, parentVars, jobVars
  <2>2. CASE WaitFails
    BY <1>1, <2>1, <2>2 DEF WaitFails, Ends, Doomed, Ended
  <2>3. CASE ParentReturns \/ KillsDone \/ TimeLimit
    <3>1. state'[Parent] = "done" /\ Orphaned \subseteq dying'
      BY <2>3, Names DEF ParentReturns, KillsDone, TimeLimit, Finish, ParentExits, Base, Typing, TypeOK
    <3>2. QED
      BY <1>1, <2>1, <3>1 DEF Ends, Doomed, Orphaned
  <2>4. QED
    BY <1>8, <2>2, <2>3
<1>9. QED
  BY <1>2, <1>3, <1>4, <1>5, <1>6, <1>7, <1>8 DEF Next, Steps, Mishaps

-----------------------------------------------------------------------------
\* The parent counts at least the workers that are alive, and knows their pids.
Counted ==
  /\ state[Parent] # "done" => Cardinality(Alive) <= forkslive /\ Alive \subseteq forkpids
  /\ NobodyLeftBehind

LEMMA AliveFinite ==
  ASSUME Base
  PROVE  IsFiniteSet(Alive) /\ Cardinality(Alive) \in Nat
<1>1. Alive \subseteq 0..(forkscreated - 1)
  BY BaseFacts DEF Alive
<1>2. IsFiniteSet(0..(forkscreated - 1))
  BY FS_Interval, BaseFacts
<1>3. QED
  BY <1>1, <1>2, FS_Subset, FS_CardinalityType

LEMMA InitCounted == Init => Counted
<1> SUFFICES ASSUME Init PROVE Counted
  OBVIOUS
<1>1. Alive = {} /\ state[Parent] = "fork" /\ forkslive = 0
  BY Names DEF Init, Alive
<1>2. QED
  BY <1>1, FS_EmptySet DEF Counted, NobodyLeftBehind, Ended

\* Fewer workers are alive, and nothing else changes for the parent.
LEMMA FewerCounted ==
  ASSUME Base, Counted, Alive' \subseteq Alive, state'[Parent] # "done",
         state[Parent] # "done", UNCHANGED <<forkslive, forkpids>>
  PROVE  Counted'
<1>1. Cardinality(Alive') <= Cardinality(Alive)
  BY AliveFinite, FS_Subset
<1>2. Cardinality(Alive') \in Nat
  BY AliveFinite, FS_Subset, FS_CardinalityType
<1>3. QED
  BY <1>1, <1>2, AliveFinite, BaseFacts DEF Counted, NobodyLeftBehind, Ended

LEMMA NextCounted ==
  ASSUME Base, Ends, Counted, [Next]_vars
  PROVE  Counted'
<1>1. CASE UNCHANGED vars
  BY <1>1 DEF vars, jobVars, parentVars, runVars, Counted, NobodyLeftBehind, Ended, Alive
<1>2. CASE Fork
  <2>1. /\ forkscreated \in Workers /\ state[Parent] = "fork"
        /\ forkpids' = forkpids \cup {forkscreated} /\ forkslive' = forkslive + 1
    BY <1>2, BaseFacts, MostForks DEF Fork, Workers
  <2>2. \A k \in Processes : state'[k] = IF k = forkscreated THEN "born" ELSE state[k]
    BY <1>2, <2>1, Names DEF Fork, Base, Typing, TypeOK
  <2>3. forkscreated \notin Alive /\ Alive' = Alive \cup {forkscreated}
    <3>1. state[forkscreated] = "none"
      BY <2>1, BaseFacts DEF Base, Creation
    <3>2. QED
      BY <2>1, <2>2, <3>1, Names DEF Alive
  <2>4. Cardinality(Alive') = Cardinality(Alive) + 1
    BY <2>3, AliveFinite, FS_AddElement
  <2>5. state'[Parent] = "fork"
    BY <2>1, <2>2, Names
  <2>6. QED
    BY <2>1, <2>3, <2>4, <2>5, AliveFinite, BaseFacts DEF Counted, NobodyLeftBehind, Ended
<1>3. CASE ForksDone \/ ForkFails
  <2>1. /\ state[Parent] = "fork" /\ state'[Parent] # "done" /\ UNCHANGED <<forkslive, forkpids>>
        /\ \A k \in Workers : state'[k] = state[k]
    BY <1>3, Names DEF ForksDone, ForkFails, AfterForks, parentVars, Base, Typing, TypeOK
  <2>2. Alive' \subseteq Alive
    BY <2>1 DEF Alive
  <2>3. QED
    BY <2>1, <2>2, FewerCounted
<1>4. ASSUME NEW k \in Workers, Prctl(k) \/ Check(k) \/ Crash(k) \/ Terminated(k)
      PROVE  Counted'
  <2>1. /\ state'[Parent] = state[Parent] /\ UNCHANGED <<forkslive, forkpids, killed>>
        /\ Alive' \subseteq Alive /\ faults \subseteq faults'
        /\ \A j \in Alive' : state[j] = "zombie" => state'[j] = "zombie"
    BY <1>4, WorkerEffect, Names DEF parentVars, Alive
  <2>2. CASE state[Parent] # "done"
    BY <2>1, <2>2, FewerCounted
  <2>3. CASE state[Parent] = "done"
    BY <2>1, <2>3 DEF Counted, NobodyLeftBehind, Ended
  <2>4. QED
    BY <2>2, <2>3
<1>5. ASSUME NEW p \in Processes, Run(p) \/ OutOfTime(p) \/ SetupFails(p)
      PROVE  Counted'
  <2>1. /\ UNCHANGED <<forkslive, forkpids, killed, forkscreated>> /\ faults \subseteq faults'
        /\ state[p] = "search"
    BY <1>5, SearchEffect DEF parentVars
  <2>2. Alive' \subseteq Alive /\ \A j \in Alive' : state[j] = "zombie" => state'[j] = "zombie"
    BY <1>5, SearchEffect, Names DEF Alive
  <2>3. CASE state[Parent] # "done" /\ state'[Parent] # "done"
    BY <2>1, <2>2, <2>3, FewerCounted
  <2>4. CASE state[Parent] = "done"
    <3>1. state'[Parent] = "done"
      BY <1>5, <2>1, <2>4, SearchEffect, Names
    <3>2. QED
      BY <2>1, <2>2, <2>4, <3>1 DEF Counted, NobodyLeftBehind, Ended
  <2>5. CASE state[Parent] # "done" /\ state'[Parent] = "done"
    <3>1. p = Parent
      BY <1>5, <2>5, SearchEffect, Names
    <3>2. forkscreated = 0
      BY <2>1, <3>1 DEF Base, Creation
    <3>3. Alive = {}
      <4>1. \A k \in Workers : state[k] = "none"
        <5>1. \A k \in Workers : state[k] # "none" <=> k \in 0..(forkscreated - 1)
          BY BaseFacts
        <5>2. 0..(forkscreated - 1) = {}
          BY <3>2
        <5>3. QED
          BY <5>1, <5>2
      <4>2. QED
        BY <4>1 DEF Alive
    <3>4. QED
      BY <2>2, <2>5, <3>3 DEF Counted, NobodyLeftBehind, Ended
  <2>6. QED
    BY <2>3, <2>4, <2>5
<1>6. ASSUME NEW k \in Workers, Wait(k)
      PROVE  Counted'
  <2>1. /\ state[Parent] = "wait" /\ state[k] = "zombie" /\ forkslive > 0
        /\ Look(status[k], k)
    BY <1>6 DEF Wait
  <2>2. k \in Alive /\ Alive' = Alive \ {k}
    BY <1>6, <2>1, WaitBase DEF Alive
  <2>3. Cardinality(Alive') = Cardinality(Alive) - 1
    BY <2>2, AliveFinite, FS_RemoveElement
  <2>4. Alive \subseteq forkpids /\ Cardinality(Alive) <= forkslive
    BY <2>1 DEF Counted
  <2>5. Cardinality(Alive') <= forkslive' /\ Alive' \subseteq forkpids'
    BY <2>1, <2>2, <2>3, <2>4, AliveFinite, BaseFacts DEF Look, Counts
  <2>6. state'[Parent] # "done"
    BY <1>6, WaitBase
  <2>7. QED
    BY <2>5, <2>6 DEF Counted, NobodyLeftBehind, Ended
<1>7. CASE WaitFails
  <2>1. /\ state[Parent] = "wait" /\ state'[Parent] = "wait" /\ Alive' = {} /\ forkslive > 0
        /\ forkslive' \in {forkslive, forkslive - 1}
    BY <1>7 DEF WaitFails, Alive
  <2>2. QED
    BY <2>1, BaseFacts, FS_EmptySet DEF Counted, NobodyLeftBehind, Ended
<1>8. CASE ParentReturns
  <2>1. state[Parent] = "wait" /\ forkslive = 0 /\ state'[Parent] = "done"
    BY <1>8, Names DEF ParentReturns, Finish, ParentExits, Base, Typing, TypeOK
  <2>2. Alive = {}
    BY <2>1, AliveFinite, FS_EmptySet DEF Counted
  <2>3. Alive' = {}
    BY <1>8, <2>2, ParentBase DEF Alive
  <2>4. QED
    BY <2>1, <2>3 DEF Counted, NobodyLeftBehind
<1>9. CASE TimeLimit
  <2>1. state'[Parent] = "done" /\ "alarm" \in faults'
    BY <1>9, Names DEF TimeLimit, ParentExits, Base, Typing, TypeOK
  <2>2. QED
    BY <2>1 DEF Counted, NobodyLeftBehind
<1>10. ASSUME NEW k \in Workers, Kill(k)
       PROVE  Counted'
  <2>1. state[Parent] = "kill" /\ UNCHANGED <<state, forkslive, forkpids>>
    BY <1>10 DEF Kill
  <2>2. QED
    BY <2>1 DEF Counted, NobodyLeftBehind, Ended, Alive
<1>11. CASE KillsDone
  <2>1. state[Parent] = "kill" /\ forkpids \subseteq killed' /\ state'[Parent] = "done"
    BY <1>11, Names DEF KillsDone, ToKill, ParentExits, parentVars, Base, Typing, TypeOK
  <2>2. Alive' \subseteq killed'
    BY <1>11, <2>1, ParentBase DEF Counted, Alive
  <2>3. QED
    BY <2>1, <2>2 DEF Counted, NobodyLeftBehind
<1>12. QED
  BY <1>1, <1>2, <1>3, <1>4, <1>5, <1>6, <1>7, <1>8, <1>9, <1>10, <1>11 DEF Next, Steps, Mishaps

-----------------------------------------------------------------------------

\* What the exit status 0 says.

\* A result 0, the exit status 0 of a worker and a parent that kills mean a proof.
Honest ==
  /\ \A p \in Processes : res[p] = 0 => p \in proved
  /\ \A k \in Workers :
       ltb /\ state[k] = "zombie" /\ status[k].exited /\ status[k].code = 0 => k \in proved
  /\ ltb /\ state[Parent] = "kill" => proved # {}
  /\ SuccessIsProof

LEMMA InitHonest == Init => Honest
<1> SUFFICES ASSUME Init PROVE Honest
  OBVIOUS
<1>1. \A p \in Processes : res[p] # 0 /\ state[p] \in {"fork", "none"}
  BY DEF Init
<1>2. Parent \in Processes /\ Workers \subseteq Processes
  BY Names
<1>3. QED
  BY <1>1, <1>2 DEF Honest, SuccessIsProof, Ended

\* A process that ends with a result that is honest.
LEMMA FinishHonest ==
  ASSUME Base, Honest, NEW p \in Processes, NEW r \in Results,
         Finish(p, r), ltb' = ltb, proved \subseteq proved', r = 0 => p \in proved',
         \A q \in Processes : res'[q] = 0 => q \in proved'
  PROVE  Honest'
<1>1. /\ state'[p] = (IF p = Parent THEN "done" ELSE "zombie") /\ status'[p].code = ExitCode(r)
      /\ \A q \in Processes : q # p => state'[q] = state[q] /\ status'[q] = status[q]
  <2>1. status'[p] = Exited(ExitCode(r))
    BY FinishBase
  <2>2. status'[p].code = ExitCode(r)
    BY <2>1 DEF Exited
  <2>3. QED
    BY <2>2, FinishBase
<1>2. ltb /\ ExitCode(r) = 0 => p \in proved'
  BY Codes
<1>3. ASSUME NEW k \in Workers,
             ltb', state'[k] = "zombie", status'[k].exited, status'[k].code = 0
      PROVE  k \in proved'
  BY <1>1, <1>2, <1>3, Names DEF Honest
<1>4. SuccessIsProof'
  BY <1>1, <1>2, Names DEF Honest, SuccessIsProof, Ended, Result
<1>5. state'[Parent] = "kill" => state[Parent] = "kill"
  BY <1>1, Names
<1>6. ltb' /\ state'[Parent] = "kill" => proved' # {}
  BY <1>5 DEF Honest
<1>7. QED
  BY <1>3, <1>4, <1>6 DEF Honest

LEMMA NextHonest ==
  ASSUME Base, Honest, [Next]_vars
  PROVE  Honest'
<1>1. CASE UNCHANGED vars
  BY <1>1 DEF vars, jobVars, parentVars, runVars, Honest, SuccessIsProof, Ended, Result
<1>2. CASE Fork \/ ForksDone \/ ForkFails
  <2>1. UNCHANGED <<ltb, res, proved, status>> /\ state[Parent] = "fork"
    BY <1>2 DEF Fork, ForksDone, ForkFails, jobVars, runVars
  <2>2. /\ state'[Parent] \notin {"kill", "done"}
        /\ \A k \in Workers : state'[k] = "zombie" => state[k] = "zombie"
    BY <1>2, <2>1, Names, BaseFacts
    DEF Fork, ForksDone, ForkFails, AfterForks, Base, Typing, TypeOK
  <2>3. QED
    BY <2>1, <2>2 DEF Honest, SuccessIsProof, Ended
<1>3. ASSUME NEW k \in Workers, Prctl(k) \/ Check(k) \/ Crash(k) \/ Terminated(k)
      PROVE  Honest'
  <2>1. UNCHANGED <<ltb, res, proved>>
    BY <1>3, WorkerEffect DEF jobVars, runVars
  <2>2. state'[k] = "zombie" => ~(status'[k].exited /\ status'[k].code = 0)
    BY <1>3, Names DEF Prctl, Check, Crash, Terminated, Exited, Signalled, Base, Typing, TypeOK
  <2>3. \A q \in Processes : q # k => state'[q] = state[q] /\ status'[q] = status[q]
    BY <1>3, WorkerEffect
  <2>4. QED
    BY <2>1, <2>2, <2>3, Names DEF Honest, SuccessIsProof, Ended, Result
<1>4. ASSUME NEW p \in Processes, Run(p)
      PROVE  Honest'
  <2>1. state[p] = "search" /\ ltb' = ltb /\ proved \subseteq proved'
    BY <1>4 DEF Run, Proves, Fails, jobVars
  <2>2. CASE Proves(p)
    <3>1. res' = [res EXCEPT ![p] = 0] /\ proved' = proved \cup {p} /\ Finish(p, 0)
      BY <2>2 DEF Proves
    <3>2. \A q \in Processes : res'[q] = 0 => q \in proved'
      BY <3>1 DEF Base, Typing, TypeOK, Honest
    <3>3. QED
      BY <2>1, <3>1, <3>2, FinishHonest DEF Results
  <2>3. ASSUME NEW r \in Failures, Fails(p, r)
        PROVE  Honest'
    <3>1. res' = [res EXCEPT ![p] = r] /\ (Finish(p, r) \/ UNCHANGED <<state, status, dying>>)
      BY <2>3 DEF Fails
    <3>2. r \in Results \ {0} /\ \A q \in Processes : res'[q] = 0 => q \in proved'
      BY <2>1, <3>1, SRAssumption DEF Base, Typing, TypeOK, Honest, Results
    <3>3. CASE Finish(p, r)
      BY <2>1, <3>2, <3>3, FinishHonest
    <3>4. CASE UNCHANGED <<state, status, dying>>
      BY <2>1, <3>2, <3>4 DEF Honest, SuccessIsProof, Ended, Result
    <3>5. QED
      BY <3>1, <3>3, <3>4
  <2>4. CASE UNCHANGED <<iter, res, proved, state, status, dying>>
    BY <2>1, <2>4 DEF Honest, SuccessIsProof, Ended, Result
  <2>5. QED
    BY <1>4, <2>2, <2>3, <2>4 DEF Run
<1>5. ASSUME NEW p \in Processes, OutOfTime(p)
      PROVE  Honest'
  <2>1. Finish(p, 2) /\ UNCHANGED <<ltb, proved>> /\ res' = [res EXCEPT ![p] = 2]
    BY <1>5 DEF OutOfTime, jobVars
  <2>2. \A q \in Processes : res'[q] = 0 => q \in proved'
    BY <2>1 DEF Base, Typing, TypeOK, Honest
  <2>3. QED
    BY <2>1, <2>2, FinishHonest DEF Results
<1>6. ASSUME NEW p \in Processes, SetupFails(p)
      PROVE  Honest'
  <2>1. PICK r \in {-1, res[p]} : Finish(p, r)
    BY <1>6 DEF SetupFails
  <2>2. UNCHANGED <<ltb, proved, res>>
    BY <1>6 DEF SetupFails, jobVars, runVars
  <2>3. r \in Results /\ (r = 0 => p \in proved)
    BY <2>1 DEF Base, Typing, TypeOK, Honest, Results
  <2>4. \A q \in Processes : res'[q] = 0 => q \in proved'
    BY <2>2 DEF Honest
  <2>5. QED
    BY <2>1, <2>2, <2>3, <2>4, FinishHonest
<1>7. ASSUME NEW k \in Workers, Wait(k)
      PROVE  Honest'
  <2>1. UNCHANGED <<ltb, res, proved>> /\ state[k] = "zombie"
    BY <1>7 DEF Wait, jobVars, runVars
  <2>2. /\ state'[Parent] # "done"
        /\ state'[Parent] = "kill" => status[k].exited /\ status[k].code = 0
    BY <1>7, WaitBase
  <2>3. UNCHANGED status /\ \A j \in Workers : state'[j] = "zombie" => state[j] = "zombie"
    BY <1>7, WaitBase
  <2>4. QED
    BY <2>1, <2>2, <2>3 DEF Honest, SuccessIsProof, Ended
<1>8. CASE WaitFails
  BY <1>8 DEF WaitFails, jobVars, runVars, Honest, SuccessIsProof, Ended, Result
<1>9. CASE ParentReturns
  <2>1. Finish(Parent, res[Parent]) /\ UNCHANGED <<ltb, res, proved>>
    BY <1>9 DEF ParentReturns, jobVars, runVars
  <2>2. res[Parent] \in Results /\ (res[Parent] = 0 => Parent \in proved)
    BY Names DEF Base, Typing, TypeOK, Honest, Results
  <2>3. \A q \in Processes : res'[q] = 0 => q \in proved'
    BY <2>1 DEF Honest
  <2>4. QED
    BY <2>1, <2>2, <2>3, Names, FinishHonest
<1>10. CASE TimeLimit \/ KillsDone
  <2>1. /\ UNCHANGED <<ltb, res, proved>> /\ state'[Parent] = "done"
        /\ \A k \in Workers : state'[k] = state[k] /\ status'[k] = status[k]
    BY <1>10, Names, ParentBase
    DEF TimeLimit, KillsDone, ParentExits, jobVars, runVars, Base, Typing, TypeOK
  <2>2. status'[Parent].code = 1 \/ state[Parent] = "kill"
    BY <1>10, Names DEF TimeLimit, KillsDone, ParentExits, Exited, Base, Typing, TypeOK
  <2>3. QED
    BY <2>1, <2>2 DEF Honest, SuccessIsProof, Ended, Result
<1>11. ASSUME NEW k \in Workers, Kill(k)
       PROVE  Honest'
  BY <1>11 DEF Kill, jobVars, runVars, Honest, SuccessIsProof, Ended, Result
<1>12. QED
  BY <1>1, <1>2, <1>3, <1>4, <1>5, <1>6, <1>7, <1>8, <1>9, <1>10, <1>11 DEF Next, Steps, Mishaps

-----------------------------------------------------------------------------
\* Which runs a process makes.

Start(p) == IF p = Parent THEN 0 ELSE p

\* The runs whose turn it is for process p to make.
Turns(p) == {Start(p) + m * Stride(p) : m \in Nat}

\* A process has made the runs of its turns up to its next iteration, and no other.
Searches ==
  \A p \in Processes :
    /\ iter[p] \in Turns(p)
    /\ tried[p] \subseteq Turns(p)
    /\ \A i \in Turns(p) : i < iter[p] => i \in tried[p]

\* Multiples of M that are less than M apart are equal.
LEMMA Multiples ==
  ASSUME NEW M \in Nat, NEW a \in Nat, NEW b \in Nat, a * M < b * M + M
  PROVE  a <= b
<1>1. SUFFICES ASSUME a >= b + 1 PROVE FALSE
  OBVIOUS
<1>2. PICK d \in Nat : a = b + 1 + d
  <2>1. a - b - 1 \in Nat /\ a = b + 1 + (a - b - 1)
    BY <1>1
  <2>2. QED
    BY <2>1
<1>3. a * M = b * M + M + d * M
  BY <1>2
<1>4. d * M \in Nat /\ b * M \in Nat
  OBVIOUS
<1>5. QED
  BY <1>3, <1>4

LEMMA NextTurn ==
  ASSUME Base, NEW p \in Processes, NEW i \in Turns(p)
  PROVE  /\ i \in Nat
         /\ i + Stride(p) \in Turns(p)
         /\ \A j \in Turns(p) : j < i + Stride(p) => j <= i
<1> DEFINE S == Stride(p)
<1>1. S \in Nat /\ Start(p) \in Nat
  BY BaseFacts, Names DEF Start
<1>2. PICK m \in Nat : i = Start(p) + m * S
  BY DEF Turns
<1> HIDE DEF S
<1>3. i \in Nat /\ i + S = Start(p) + (m + 1) * S
  BY <1>1, <1>2
<1>4. i + S \in Turns(p)
  BY <1>3 DEF Turns, S
<1>5. ASSUME NEW j \in Turns(p), j < i + S
      PROVE  j <= i
  <2>1. PICK n \in Nat : j = Start(p) + n * S
    BY DEF Turns, S
  <2>2. n * S < m * S + S
    BY <1>1, <1>2, <1>5, <2>1
  <2>3. n <= m
    BY <1>1, <2>2, Multiples
  <2>4. PICK d \in Nat : m = n + d
    <3>1. m - n \in Nat /\ m = n + (m - n)
      BY <2>3
    <3>2. QED
      BY <3>1
  <2>5. m * S = n * S + d * S /\ d * S \in Nat /\ n * S \in Nat
    BY <1>1, <2>4
  <2>6. QED
    BY <1>1, <1>2, <2>1, <2>5
<1>6. QED
  BY <1>3, <1>4, <1>5 DEF S

\* Two workers have no turn in common.
LEMMA TurnsApart ==
  ASSUME Base, NEW p \in 0..(maxforks - 1), NEW q \in 0..(maxforks - 1),
         NEW i \in Turns(p), i \in Turns(q)
  PROVE  p = q
<1>1. maxforks \in Nat /\ p # Parent /\ q # Parent
  BY BaseFacts DEF Parent
<1>2. PICK m \in Nat : i = p + m * maxforks
  BY <1>1 DEF Turns, Start, Stride
<1>3. PICK n \in Nat : i = q + n * maxforks
  BY <1>1 DEF Turns, Start, Stride
<1>4. m * maxforks \in Nat /\ n * maxforks \in Nat
  BY <1>1
<1>5. m * maxforks < n * maxforks + maxforks /\ n * maxforks < m * maxforks + maxforks
  BY <1>1, <1>2, <1>3, <1>4
<1>6. m <= n /\ n <= m
  BY <1>1, <1>5, Multiples
<1>7. QED
  BY <1>2, <1>3, <1>4, <1>6

\* Every number is the turn of one of the workers.
LEMMA TurnsCover ==
  ASSUME Base, maxforks > 0, NEW i \in Nat
  PROVE  \E p \in 0..(maxforks - 1) : i \in Turns(p)
<1> DEFINE p == i % maxforks
           m == i \div maxforks
<1>1. maxforks \in Nat
  BY BaseFacts
<1>2. p \in 0..(maxforks - 1) /\ m \in Nat /\ i = p + m * maxforks
  BY <1>1
<1>3. p # Parent
  BY <1>2 DEF Parent
<1> HIDE DEF p, m
<1>4. i \in Turns(p)
  BY <1>2, <1>3 DEF Turns, Start, Stride
<1>5. QED
  BY <1>2, <1>4

LEMMA InitSearches == Init => Searches
<1> SUFFICES ASSUME Init, NEW p \in Processes
             PROVE  /\ iter[p] \in Turns(p)
                    /\ tried[p] \subseteq Turns(p)
                    /\ \A i \in Turns(p) : i < iter[p] => i \in tried[p]
  BY DEF Searches
<1>1. iter[p] = Start(p) /\ tried[p] = {}
  BY DEF Init, Start
<1>2. Start(p) \in Nat /\ Stride(p) \in Nat
  BY InitBase, BaseFacts, Names DEF Start
<1>3. Start(p) = Start(p) + 0 * Stride(p)
  BY <1>2
<1>4. \A m \in Nat : Start(p) + m * Stride(p) >= Start(p)
  BY <1>2
<1>5. QED
  BY <1>1, <1>2, <1>3, <1>4 DEF Turns

\* Only an iteration changes what is tried.
LEMMA NextTried ==
  ASSUME Base, [Next]_vars
  PROVE  \/ UNCHANGED <<iter, tried>>
         \/ \E p \in Processes : Run(p)
BY DEF Next, Steps, Mishaps, Fork, ForksDone, ForkFails, Prctl, Check, Crash, Terminated,
       OutOfTime, SetupFails, Wait, WaitFails, Kill, KillsDone, ParentReturns, TimeLimit, vars, runVars

LEMMA NextSearches ==
  ASSUME Base, Searches, [Next]_vars
  PROVE  Searches'
<1>1. maxforks' = maxforks
  BY DEF Next, Steps, Mishaps, Fork, ForksDone, ForkFails, Prctl, Check, Crash, Terminated, Run,
       OutOfTime, SetupFails, Wait, WaitFails, Kill, KillsDone, ParentReturns, TimeLimit, vars, jobVars
<1>2. \A p \in Processes : Turns(p)' = Turns(p)
  BY <1>1 DEF Turns, Stride, Start
<1>3. CASE UNCHANGED <<iter, tried>>
  BY <1>2, <1>3 DEF Searches
<1>4. ASSUME NEW p \in Processes, Run(p)
      PROVE  Searches'
  <2>1. /\ tried'[p] = tried[p] \cup {iter[p]}
        /\ iter'[p] \in {iter[p], iter[p] + Stride(p)}
        /\ \A q \in Processes : q # p => tried'[q] = tried[q] /\ iter'[q] = iter[q]
    <3>1. tried' = [tried EXCEPT ![p] = @ \cup {iter[p]}]
      BY <1>4 DEF Run
    <3>2. iter' = iter \/ iter' = [iter EXCEPT ![p] = @ + Stride(p)]
      BY <1>4 DEF Run, Proves, Fails
    <3>3. QED
      BY <3>1, <3>2 DEF Base, Typing, TypeOK
  <2>2. iter[p] \in Turns(p) /\ tried[p] \subseteq Turns(p)
    BY DEF Searches
  <2>3. /\ iter[p] \in Nat /\ iter[p] + Stride(p) \in Turns(p)
        /\ \A i \in Turns(p) : i \in Nat /\ (i < iter[p] + Stride(p) => i <= iter[p])
    BY <2>2, NextTurn
  <2>4. ASSUME NEW i \in Turns(p), i < iter'[p]
        PROVE  i \in tried'[p]
    BY <2>1, <2>3, <2>4 DEF Searches
  <2>5. QED
    BY <1>2, <2>1, <2>2, <2>3, <2>4 DEF Searches
<1>5. QED
  BY <1>3, <1>4, NextTried

-----------------------------------------------------------------------------

\* What a failure says.

\* The last iteration of the process is behind the runs of the guide.
Exhausted(p) == iter[p] + 1 >= runs /\ iter[p] \in tried[p]

\* Until something goes wrong, a worker that ended without a proof has exhausted its
\* turns, and the parent waits only for a full set of workers; it kills for a success.
Failed ==
  /\ state[Parent] \notin {"kill", "done"} /\ faults = {} =>
       /\ \A k \in Workers :
            /\ state[k] = "zombie" => status[k].exited /\ (status[k].code # 0 => Exhausted(k))
            /\ state[k] = "gone" => Exhausted(k)
       /\ state[Parent] = "wait" => forkscreated = maxforks
  /\ FailureIsExhaustive

LEMMA InitFailed == Init => Failed
BY Names DEF Init, Failed, FailureIsExhaustive, Ended

\* An exhausted process has made all its turns in the guide.
LEMMA ExhaustedTurns ==
  ASSUME Base, Searches, NEW p \in Processes, Exhausted(p),
         NEW i \in Turns(p), i < runs
  PROVE  i \in tried[p]
<1>1. iter[p] \in Turns(p) /\ i \in Nat /\ iter[p] \in Nat /\ runs \in Nat
  BY NextTurn, BaseFacts DEF Searches
<1>2. i < iter[p] \/ i = iter[p]
  BY <1>1 DEF Exhausted
<1>3. QED
  BY <1>2 DEF Searches, Exhausted

\* Once the parent has ended, nothing it said becomes false.
LEMMA FailedStays ==
  ASSUME Failed, state[Parent] = "done", state'[Parent] = "done",
         status'[Parent] = status[Parent], runs' = runs, faults \subseteq faults',
         \A p \in Processes : tried[p] \subseteq tried'[p]
  PROVE  Failed'
<1>1. faults' = {} => faults = {}
  OBVIOUS
<1>2. FailureIsExhaustive'
  BY <1>1 DEF Failed, FailureIsExhaustive, Ended, Result
<1>3. QED
  BY <1>2 DEF Failed

\* A step with a mishap.
LEMMA FailedMishap ==
  ASSUME faults' # {}
  PROVE  Failed'
BY DEF Failed, FailureIsExhaustive

\* An iteration of a worker.
LEMMA WorkerRunFailed ==
  ASSUME Base, Failed, NEW p \in Workers, Run(p)
  PROVE  Failed'
<1>1. /\ state[p] = "search" /\ UNCHANGED <<jobVars, parentVars, faults>>
      /\ tried' = [tried EXCEPT ![p] = @ \cup {iter[p]}]
  BY DEF Run
<1>2. /\ p \in Processes /\ p # Parent
      /\ \A q \in Processes : q # p => state'[q] = state[q] /\ status'[q] = status[q]
  BY SearchEffect, Names
<1>3. /\ \A q \in Processes : tried[q] \subseteq tried'[q]
      /\ \A q \in Processes : q # p => tried'[q] = tried[q] /\ iter'[q] = iter[q]
      /\ iter[p] \in tried'[p]
  <2>1. iter' = iter \/ iter' = [iter EXCEPT ![p] = @ + Stride(p)]
    BY DEF Run, Proves, Fails
  <2>2. QED
    BY <1>1, <1>2, <2>1 DEF Base, Typing, TypeOK
<1>4. CASE state[Parent] = "done"
  <2>1. state'[Parent] = "done" /\ status'[Parent] = status[Parent] /\ runs' = runs
    BY <1>1, <1>2, <1>4, Names DEF jobVars
  <2>2. QED
    BY <1>1, <1>3, <1>4, <2>1, FailedStays
<1>5. CASE state[Parent] # "done"
  <2>1. state'[Parent] = state[Parent] /\ UNCHANGED <<runs, maxforks, forkscreated, faults>>
    BY <1>1, <1>2, Names DEF jobVars, parentVars
  <2>2. state'[p] # "gone"
    BY <1>2, SearchEffect
  <2>3. ASSUME state'[p] = "zombie"
        PROVE  status'[p].exited /\ (status'[p].code # 0 => Exhausted(p)')
    <3>1. CASE Proves(p)
      <4>1. Finish(p, 0)
        BY <3>1 DEF Proves
      <4>2. status'[p] = Exited(0)
        BY <1>2, <4>1, FinishBase, Codes DEF Results
      <4>3. QED
        BY <4>2 DEF Exited
    <3>2. ASSUME NEW r \in Failures, Fails(p, r)
          PROVE  status'[p].exited /\ Exhausted(p)'
      <4>1. iter[p] + 1 >= runs /\ Finish(p, r) /\ iter' = iter
        BY <1>1, <2>3, <3>2 DEF Fails
      <4>2. status'[p].exited
        BY <1>2, <4>1, SRAssumption, FinishBase DEF Exited, Results
      <4>3. Exhausted(p)'
        BY <1>3, <2>1, <4>1 DEF Exhausted
      <4>4. QED
        BY <4>2, <4>3
    <3>3. ~ UNCHANGED state
      BY <1>1, <2>3
    <3>4. QED
      BY <3>1, <3>2, <3>3 DEF Run
  <2>4. ASSUME NEW k \in Workers, k # p
        PROVE  state'[k] = state[k] /\ status'[k] = status[k] /\ (Exhausted(k)' <=> Exhausted(k))
    BY <1>2, <1>3, <2>1, <2>4, Names DEF Exhausted
  <2>5. QED
    BY <1>5, <2>1, <2>2, <2>3, <2>4 DEF Failed, FailureIsExhaustive, Ended
<1>6. QED
  BY <1>4, <1>5

\* An iteration of the parent: it makes every run of the guide.
LEMMA ParentRunFailed ==
  ASSUME Base, Searches, Failed, Run(Parent)
  PROVE  Failed'
<1>1. /\ state[Parent] = "search" /\ UNCHANGED <<jobVars, parentVars, faults>>
      /\ tried' = [tried EXCEPT ![Parent] = @ \cup {iter[Parent]}]
  BY DEF Run
<1>2. forkscreated = 0 /\ \A k \in Workers : state[k] = "none"
  BY <1>1, Names DEF Base, Creation
<1>3. \A k \in Workers : state'[k] = "none"
  BY <1>2, SearchEffect, Names
<1>4. state'[Parent] \in {"search", "done"}
  BY SearchEffect, Names
<1>5. ASSUME Ended', Result' # 0
      PROVE  \A i \in 0..(runs' - 1) : i \in tried'[Parent]
  <2>1. ~Proves(Parent)
    <3>1. SUFFICES ASSUME Proves(Parent) PROVE FALSE
      OBVIOUS
    <3>2. Finish(Parent, 0)
      BY <3>1 DEF Proves
    <3>3. status'[Parent] = Exited(0)
      BY <3>2, FinishBase, Codes, Names DEF Results
    <3>4. QED
      BY <1>5, <3>3 DEF Result, Exited
  <2>2. iter[Parent] + 1 >= runs /\ iter' = iter
    BY <1>1, <1>5, <2>1 DEF Run, Fails, Ended
  <2>3. /\ tried'[Parent] = tried[Parent] \cup {iter[Parent]} /\ runs' = runs
        /\ iter[Parent] \in Nat
    BY <1>1, Names DEF jobVars, Base, Typing, TypeOK
  <2>4. \A i \in Nat : i \in Turns(Parent)
    <3>1. \A i \in Nat : i = 0 + i * 1
      OBVIOUS
    <3>2. QED
      BY <3>1 DEF Turns, Start, Stride
  <2>5. ASSUME NEW i \in 0..(runs' - 1)
        PROVE  i \in tried'[Parent]
    <3>1. i \in Nat /\ i <= iter[Parent]
      BY <2>2, <2>3, <2>5, BaseFacts
    <3>2. i < iter[Parent] => i \in tried[Parent]
      BY <2>4, <3>1, Names DEF Searches
    <3>3. QED
      BY <2>3, <3>1, <3>2
  <2>6. QED
    BY <2>5
<1>6. FailureIsExhaustive'
  BY <1>5, Names DEF FailureIsExhaustive
<1>7. QED
  BY <1>3, <1>4, <1>6 DEF Failed

\* The parent returns when every worker has ended.
LEMMA ReturnFailed ==
  ASSUME Base, Counted, Searches, Failed, ParentReturns
  PROVE  Failed'
<1>1. /\ state[Parent] = "wait" /\ forkslive = 0 /\ UNCHANGED <<jobVars, parentVars, runVars, faults>>
  BY DEF ParentReturns
<1>2. Alive = {}
  BY <1>1, AliveFinite, FS_EmptySet DEF Counted
<1>3. state'[Parent] = "done"
  BY Names DEF ParentReturns, Finish, ParentExits, Base, Typing, TypeOK
<1>4. ASSUME faults = {}, NEW i \in 0..(runs - 1)
      PROVE  \E p \in Processes : i \in tried[p]
  <2>1. maxforks = forkscreated /\ maxforks > 0 /\ i \in Nat /\ i < runs
    BY <1>1, <1>4, BaseFacts DEF Failed, Base, Creation
  <2>2. PICK p \in 0..(maxforks - 1) : i \in Turns(p)
    BY <2>1, TurnsCover
  <2>3. p \in Workers /\ state[p] # "none"
    BY <2>1, BaseFacts
  <2>4. state[p] = "gone"
    BY <1>2, <2>3 DEF Alive, Base, Creation, WorkerStates
  <2>5. Exhausted(p)
    BY <1>1, <1>4, <2>3, <2>4 DEF Failed
  <2>6. QED
    BY <2>1, <2>2, <2>3, <2>5, ExhaustedTurns, Names
<1>5. FailureIsExhaustive'
  BY <1>1, <1>4 DEF FailureIsExhaustive, jobVars, runVars
<1>6. QED
  BY <1>3, <1>5 DEF Failed

LEMMA NextFailed ==
  ASSUME Base, Ends, Counted, Searches, Failed, [Next]_vars
  PROVE  Failed'
<1>1. CASE UNCHANGED vars
  BY <1>1 DEF vars, jobVars, parentVars, runVars, Failed, Exhausted, FailureIsExhaustive, Ended, Result
<1>2. CASE Fork \/ ForksDone
  <2>1. UNCHANGED <<jobVars, runVars, status, faults>> /\ state[Parent] = "fork"
    BY <1>2 DEF Fork, ForksDone
  <2>2. /\ state'[Parent] \in {"fork", "search", "wait"}
        /\ state'[Parent] = "wait" => forkscreated' = maxforks'
        /\ \A k \in Workers : state'[k] = state[k] \/ state'[k] = "born"
    <3>1. CASE Fork
      <4>1. forkscreated \in Workers
        BY <3>1, BaseFacts, MostForks DEF Fork, Workers
      <4>2. /\ state'[forkscreated] = "born"
            /\ \A p \in Processes : p # forkscreated => state'[p] = state[p]
        BY <3>1, <4>1, Names DEF Fork, Base, Typing, TypeOK
      <4>3. QED
        BY <2>1, <4>1, <4>2, Names
    <3>2. CASE ForksDone
      <4>1. /\ state'[Parent] \in {"search", "wait"} /\ forkscreated' = forkscreated
            /\ \A k \in Workers : state'[k] = state[k]
        BY <3>2, Names DEF ForksDone, AfterForks, parentVars, Base, Typing, TypeOK
      <4>2. QED
        BY <2>1, <3>2, <4>1 DEF ForksDone, jobVars
    <3>3. QED
      BY <1>2, <3>1, <3>2
  <2>3. QED
    BY <2>1, <2>2 DEF Failed, Exhausted, FailureIsExhaustive, Ended, jobVars, runVars
<1>3. CASE ForkFails \/ TimeLimit \/ (\E p \in Processes : OutOfTime(p) \/ SetupFails(p))
           \/ \E k \in Workers : Crash(k)
  <2>1. faults' # {}
    BY <1>3 DEF ForkFails, TimeLimit, OutOfTime, SetupFails, Crash
  <2>2. QED
    BY <2>1, FailedMishap
<1>4. ASSUME NEW k \in Workers, Prctl(k) \/ Check(k) \/ Terminated(k)
      PROVE  Failed'
  <2>1. /\ UNCHANGED <<jobVars, parentVars, runVars>> /\ faults \subseteq faults'
        /\ \A q \in Processes : q # k => state'[q] = state[q] /\ status'[q] = status[q]
    BY <1>4, WorkerEffect
  <2>2. state'[Parent] = state[Parent] /\ status'[Parent] = status[Parent]
    BY <2>1, Names
  <2>3. FailureIsExhaustive'
    BY <2>1, <2>2 DEF Failed, FailureIsExhaustive, Ended, Result, jobVars, runVars
  <2>4. CASE state[Parent] \in {"kill", "done"} \/ faults' # {}
    BY <2>2, <2>3, <2>4 DEF Failed
  <2>5. CASE state[Parent] \notin {"kill", "done"} /\ faults' = {}
    <3>1. state'[k] \in {"armed", "search"}
      <4>1. CASE Prctl(k)
        BY <1>4, <4>1, Names DEF Prctl, Base, Typing, TypeOK
      <4>2. CASE Check(k)
        BY <1>4, <2>5, <4>2, Names DEF Check, Ended, Base, Typing, TypeOK
      <4>3. ~Terminated(k)
        BY <2>5 DEF Terminated, Ended, Ends
      <4>4. QED
        BY <1>4, <4>1, <4>2, <4>3
    <3>2. faults = {} /\ \A j \in Workers : Exhausted(j)' <=> Exhausted(j)
      BY <2>1, <2>5 DEF Exhausted, jobVars, runVars
    <3>3. QED
      BY <2>1, <2>2, <2>3, <2>5, <3>1, <3>2, Names DEF Failed, jobVars, parentVars
  <2>6. QED
    BY <2>4, <2>5
<1>5. ASSUME NEW p \in Processes, Run(p)
      PROVE  Failed'
  BY <1>5, WorkerRunFailed, ParentRunFailed, Names
<1>6. ASSUME NEW k \in Workers, Wait(k)
      PROVE  Failed'
  <2>1. /\ state[Parent] = "wait" /\ state[k] = "zombie"
        /\ UNCHANGED <<jobVars, runVars, forkscreated, faults>>
    BY <1>6 DEF Wait
  <2>2. CASE status[k].exited /\ status[k].code = 0
    <3>1. state'[Parent] = "kill"
      BY <1>6, <2>2, WaitBase
    <3>2. QED
      BY <3>1 DEF Failed, FailureIsExhaustive, Ended
  <2>3. CASE ~(status[k].exited /\ status[k].code = 0)
    <3>1. state'[Parent] = "wait"
      BY <1>6, <2>3, WaitBase
    <3>2. faults = {} => Exhausted(k)
      BY <2>1, <2>3 DEF Failed
    <3>3. QED
      BY <1>6, <2>1, <3>1, <3>2, WaitBase
      DEF Failed, Exhausted, FailureIsExhaustive, Ended, jobVars, runVars
  <2>4. QED
    BY <2>2, <2>3
<1>7. CASE WaitFails
  BY <1>7 DEF WaitFails, Failed, Exhausted, FailureIsExhaustive, Ended, jobVars, runVars
<1>8. CASE ParentReturns
  BY <1>8, ReturnFailed
<1>9. ASSUME NEW k \in Workers, Kill(k)
      PROVE  Failed'
  BY <1>9 DEF Kill, Failed, FailureIsExhaustive, Ended
<1>10. CASE KillsDone
  <2>1. state'[Parent] = "done" /\ Result' = 0
    BY <1>10, Names DEF KillsDone, ParentExits, Result, Exited, Base, Typing, TypeOK
  <2>2. QED
    BY <2>1 DEF Failed, FailureIsExhaustive
<1>11. QED
  BY <1>1, <1>2, <1>3, <1>4, <1>5, <1>6, <1>7, <1>8, <1>9, <1>10 DEF Next, Steps, Mishaps

-----------------------------------------------------------------------------
\* The theorems.

IInv == Base /\ Ends /\ Counted /\ Honest /\ Searches /\ Failed

\* The inductive invariant holds in every reachable state.
THEOREM Invariance == Spec => []IInv
<1>1. Init => IInv
  BY InitBase, InitEnds, InitCounted, InitHonest, InitSearches, InitFailed DEF IInv
<1>2. IInv /\ [Next]_vars => IInv'
  <2> SUFFICES ASSUME IInv, [Next]_vars PROVE IInv'
    OBVIOUS
  <2>1. Base /\ Ends /\ Counted /\ Honest /\ Searches /\ Failed
    BY DEF IInv
  <2>2. Base' /\ Searches'
    BY <2>1, NextBase, NextSearches
  <2>3. Ends' /\ Counted' /\ Honest' /\ Failed'
    BY <2>1, <2>2, NextEnds, NextCounted, NextHonest, NextFailed
  <2>4. QED
    BY <2>2, <2>3 DEF IInv
<1>3. QED
  BY <1>1, <1>2, PTL DEF Spec

\* The counters of the parent stay within the workers it forked, exit codes
\* within a byte, and signals go only to workers that were forked.
THEOREM Typed == Spec => []TypeOK
<1>1. IInv => TypeOK
  BY DEF IInv, Base, Typing
<1>2. QED
  BY Invariance, <1>1, PTL

\* The batch prover takes only a proof for a theorem.
THEOREM Honesty == Spec => []SuccessIsProof
<1>1. IInv => SuccessIsProof
  BY DEF IInv, Honest
<1>2. QED
  BY Invariance, <1>1, PTL

\* A search that failed without a mishap has made every run of the guide, however
\* many forks shared them.
THEOREM Exhaustion == Spec => []FailureIsExhaustive
<1>1. IInv => FailureIsExhaustive
  BY DEF IInv, Failed
<1>2. QED
  BY Invariance, <1>1, PTL

\* No run is made by two processes.
THEOREM Sharing == Spec => []NoRunTwice
<1>1. ASSUME IInv PROVE NoRunTwice
  <2>1. SUFFICES ASSUME NEW p \in Processes, NEW q \in Processes, NEW i \in tried[p], i \in tried[q]
                 PROVE  p = q
    BY DEF NoRunTwice
  <2>2. Base /\ i \in Turns(p) /\ i \in Turns(q)
    BY <1>1, <2>1 DEF IInv, Searches
  <2>3. \A r \in Processes : tried[r] # {} /\ r # Parent => r \in 0..(forkscreated - 1)
    BY <2>2, BaseFacts, Names DEF Base, Creation
  <2>4. CASE p = Parent \/ q = Parent
    <3>1. forkscreated = 0
      BY <2>1, <2>2, <2>4 DEF Base, Creation
    <3>2. QED
      BY <2>1, <2>3, <3>1
  <2>5. CASE p # Parent /\ q # Parent
    <3>1. p \in 0..(maxforks - 1) /\ q \in 0..(maxforks - 1)
      BY <2>1, <2>2, <2>3, <2>5, BaseFacts
    <3>2. QED
      BY <2>2, <3>1, TurnsApart
  <2>6. QED
    BY <2>4, <2>5
<1>2. QED
  BY Invariance, <1>1, PTL

\* The parent kills no pid that waitpid has returned as that of a worker that exited.
THEOREM Kills == Spec => []KillsOnlyItsOwn
<1>1. IInv => KillsOnlyItsOwn
  BY DEF IInv, Ends, KillsOnlyItsOwn
<1>2. QED
  BY Invariance, <1>1, PTL

\* When the parent ends by itself, it has killed the workers that still run.
THEOREM AllKilled == Spec => []NobodyLeftBehind
<1>1. IInv => NobodyLeftBehind
  BY DEF IInv, Counted
<1>2. QED
  BY Invariance, <1>1, PTL

\* No worker searches on without a parent, unless the signal is on its way or a
\* subreaper has adopted it.
THEOREM NoOrphans == Spec => []NoOrphanSearches
<1>1. IInv => NoOrphanSearches
  BY DEF IInv, Ends, Doomed, NoOrphanSearches
<1>2. QED
  BY Invariance, <1>1, PTL

=============================================================================
