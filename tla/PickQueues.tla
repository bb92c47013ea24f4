----------------------------- MODULE PickQueues -----------------------------
(***************************************************************************)
(* The queues from which the prover picks the given clause: the functions  *)
(* wr_push_cl_clpick_queues, wr_push_cl_hyper_queue, wr_pick_from_... and  *)
(* wr_pick_priorqueue of Reasoner/clstore.c, driven by the top of the loop *)
(* wr_genloop of Reasoner/rgenloop.c.                                      *)
(*                                                                         *)
(* Four queue blocks are served in turn.  Each has two orders of the same  *)
(* clauses: a simple queue (first in, first out) and a priority queue      *)
(* (buckets by weight); a ratio says how many picks by weight come before  *)
(* one by age.  Nothing takes a clause picked from one order out of the    *)
(* other: the marks of wr_cl_mark_given are disabled, so every clause that *)
(* is in both is picked twice.  The partial results of hyperresolution     *)
(* have a queue of their own, which always goes first.                     *)
(*                                                                         *)
(* A clause is a name.  A name is used again when no queue holds it, so    *)
(* that runs of the loop without end have finitely many states.            *)
(***************************************************************************)
EXTENDS Integers, Sequences, Functions

CONSTANTS
  Clauses,
  Kinds,        \* what SelectQueue looks at: records of role, posunit, neg
  Weights,      \* the weights of clauses; negative ones come from penalties
  MaxPrior,     \* MAX_CLPRIOR
  Ratios,       \* values of the guide's given_queue_ratio
  Strategies,   \* values of the guide's query_preference
  MaxLits,      \* negative literals of a partial hyperresolution result
  ParaPartials  \* partial results are paramodulated (relaxed_hyperres_strat)

Roles == {"goal", "assumption", "fromgoalassumption", "fromgoal",
          "fromassumption", "axiom", "fromaxiom", "extaxiom"}

ASSUME PQAssumption ==
  /\ Kinds \subseteq [role : Roles, posunit : BOOLEAN, neg : BOOLEAN]
  /\ Weights \subseteq Int
  /\ MaxPrior \in Nat
  /\ Ratios \subseteq Nat
  /\ Strategies \subseteq 0..4
  /\ MaxLits \in Nat
  /\ ParaPartials \in BOOLEAN

Queues == 0..3          \* NROF_CLPICK_QUEUES blocks
Priors == 0..MaxPrior

VARIABLES
  strategy,   \* cl_pick_queue_strategy
  ratio,      \* CLPICK_PRIORQUEUE_RATIO of every block
  simple,     \* per block: the simple queue from CLPICK_QUEUE_GIVEN_POS on
  bucket,     \* per block and prior: the bucket from its next pick on
  prior,      \* per block: CLPICK_PRIORQUEUE_RATIO_COUNTER
  turn,       \* per block: CLPICK_THIS_QUEUE_RATIO_COUNTER
  block,      \* next_pick_given_queue_block_nr
  hyper,      \* the hyper queue from its next pick on
  lits,       \* how many negative literals a partial result may have now
  mode,       \* "load": clauses are read; "work": a given clause is used;
              \* "done": the loop has ended
  waiting,    \* history: the clauses pushed and not yet picked
  passed,     \* history, per block: the picks from other blocks since the
              \* block was served or was empty
  aged        \* history, per block: its picks by weight since its last pick
              \* by age, or since its simple queue was empty

settings == <<strategy, ratio>>
queueVars == <<simple, bucket, prior, turn, block, passed, aged>>
vars == <<settings, queueVars, hyper, lits, mode, waiting>>

Entries(b) == UNION {Range(b[w]) : w \in Priors}

Partials == {hyper[i].cl : i \in DOMAIN hyper}

\* The clauses some queue still holds.
Kept == (UNION {Range(simple[q]) \cup Entries(bucket[q]) : q \in Queues}) \cup Partials

\* CLPICK_THIS_QUEUE_RATIO of the blocks.
ThisRatio(q) == IF strategy = 0 THEN 1 ELSE <<6, 4, 1, 1>>[q + 1]

Init ==
  /\ strategy \in Strategies
  /\ ratio \in Ratios
  /\ simple = [q \in Queues |-> <<>>]
  /\ bucket = [q \in Queues |-> [w \in Priors |-> <<>>]]
  /\ prior = [q \in Queues |-> 0]
  /\ turn = [q \in Queues |-> 0]
  /\ block = 0
  /\ hyper = <<>>
  /\ lits = 0
  /\ mode = "load"
  /\ waiting = {}
  /\ passed = [q \in Queues |-> 0]
  /\ aged = [q \in Queues |-> 0]

-----------------------------------------------------------------------------
\* Pushing.

\* The role after the changes that the strategies 2, 3 and 4 make.
StrategyRole(k) ==
  CASE strategy = 2 /\ k.role = "goal" /\ k.posunit -> "assumption"
    [] strategy = 2 /\ k.role = "axiom"             -> "assumption"
    [] strategy = 3 /\ k.role = "goal" /\ ~k.neg    -> "axiom"
    [] strategy = 3 /\ k.role = "assumption"        -> "axiom"
    [] strategy \in {0, 4}                          -> "axiom"
    [] OTHER                                        -> k.role

SelectQueue(k) ==
  CASE StrategyRole(k) = "fromgoalassumption"               -> 0
    [] StrategyRole(k) \in {"goal", "fromgoal"}             -> 1
    [] StrategyRole(k) \in {"assumption", "fromassumption"} -> 2
    [] OTHER                                                -> 3

PushPrior(b, c, w) ==
  IF w < 0 THEN b ELSE [b EXCEPT ![IF w > MaxPrior THEN MaxPrior ELSE w] = Append(@, c)]

\* Mutant: a clause with a weight goes to the priority queue only.
PushOnce(c, k, w) ==
  /\ mode # "done" /\ c \notin Kept
  /\ LET q == SelectQueue(k) IN
       /\ simple' = IF w < 0 THEN [simple EXCEPT ![q] = Append(@, c)] ELSE simple
       /\ bucket' = [bucket EXCEPT ![q] = PushPrior(@, c, w)]
  /\ waiting' = waiting \cup {c}
  /\ UNCHANGED <<settings, prior, turn, block, passed, aged, hyper, lits, mode>>

\* wr_push_cl_clpick_queues: a clause that is read or derived.
Push(c, k, w) ==
  /\ mode # "done" /\ c \notin Kept
  /\ LET q == SelectQueue(k) IN
       /\ simple' = [simple EXCEPT ![q] = Append(@, c)]
       /\ bucket' = [bucket EXCEPT ![q] = PushPrior(@, c, w)]
  /\ waiting' = waiting \cup {c}
  /\ UNCHANGED <<settings, prior, turn, block, passed, aged, hyper, lits, mode>>

\* wr_push_cl_hyper_queue: a partial result.  A resolution step takes a
\* negative literal away; paramodulation of a partial result does not.
PushHyper(c, n) ==
  /\ mode = "work" /\ c \notin Kept
  /\ n \in 1..lits
  /\ hyper' = Append(hyper, [cl |-> c, lits |-> n])
  /\ waiting' = waiting \cup {c}
  /\ UNCHANGED <<settings, queueVars, lits, mode>>

-----------------------------------------------------------------------------
\* Picking.

\* wr_pick_priorqueue: the oldest clause of the lightest weight.
Lightest(b) == CHOOSE w \in Priors : b[w] # <<>> /\ \A v \in 0..(w - 1) : b[v] = <<>>

\* Mutant: no pick by age while there are weights.
ByWeightAlways(q) == Entries(bucket[q]) # {}

\* The tests of wr_pick_from_clpick_queues_aux for block q.
ByWeight(q) == prior[q] < ratio /\ Entries(bucket[q]) # {}

\* Mutant: a block whose buckets are empty is not searched by age.
YieldsDue(q) == IF prior[q] < ratio THEN Entries(bucket[q]) # {} ELSE simple[q] # <<>>

Yields(q) == ByWeight(q) \/ simple[q] # <<>>

\* The block the search starts at, and the order it looks at the blocks in.
First == IF block > 3 THEN 0 ELSE block
Distance(q) == (q - First) % 4

\* The counters of the blocks looked at in vain: a block that was due for a
\* pick by age has its counter reset all the same.
Skipped(S) == [q \in Queues |-> IF q \in S /\ prior[q] >= ratio THEN 0 ELSE prior[q]]

\* The picks since block p was served, after a pick from q.
PassedOver(q, s) ==
  [p \in Queues |-> IF p = q \/ s[p] = <<>> THEN 0 ELSE passed[p] + 1]

\* Mutant: the turn does not go to the next block.
ServedStays(q) ==
  IF turn[q] + 1 >= ThisRatio(q)
  THEN /\ turn' = [turn EXCEPT ![q] = 0]
       /\ block' = q
  ELSE /\ turn' = [turn EXCEPT ![q] = @ + 2]
       /\ block' = q

\* After a pick from q: the counter was increased with the pick, and is
\* increased again if the block keeps its turn.
Served(q) ==
  IF turn[q] + 1 >= ThisRatio(q)
  THEN /\ turn' = [turn EXCEPT ![q] = 0]
       /\ block' = q + 1
  ELSE /\ turn' = [turn EXCEPT ![q] = @ + 2]
       /\ block' = q

\* Mutant: a pick by weight moves the position of the simple queue too.
TakeFromBoth(q) ==
  LET skipped == Skipped({p \in Queues : Distance(p) < Distance(q)}) IN
    /\ IF ByWeight(q)
       THEN LET w == Lightest(bucket[q]) IN
              /\ bucket' = [bucket EXCEPT ![q][w] = Tail(@)]
              /\ prior' = [skipped EXCEPT ![q] = @ + 1]
              /\ waiting' = waiting \ {Head(bucket[q][w])}
              /\ simple' = [simple EXCEPT ![q] = IF @ = <<>> THEN @ ELSE Tail(@)]
              /\ aged' = [aged EXCEPT ![q] = IF simple[q] = <<>> THEN 0 ELSE @ + 1]
       ELSE /\ simple' = [simple EXCEPT ![q] = Tail(@)]
            /\ prior' = [skipped EXCEPT ![q] = IF @ >= ratio THEN 0 ELSE @]
            /\ waiting' = waiting \ {Head(simple[q])}
            /\ aged' = [aged EXCEPT ![q] = 0]
            /\ UNCHANGED bucket
    /\ Served(q)
    /\ passed' = PassedOver(q, simple)

\* wr_pick_from_clpick_queues takes a clause out of block q.
TakeFrom(q) ==
  LET skipped == Skipped({p \in Queues : Distance(p) < Distance(q)}) IN
    /\ IF ByWeight(q)
       THEN LET w == Lightest(bucket[q]) IN
              /\ bucket' = [bucket EXCEPT ![q][w] = Tail(@)]
              /\ prior' = [skipped EXCEPT ![q] = @ + 1]
              /\ waiting' = waiting \ {Head(bucket[q][w])}
              /\ aged' = [aged EXCEPT ![q] = IF simple[q] = <<>> THEN 0 ELSE @ + 1]
              /\ UNCHANGED simple
       ELSE /\ simple' = [simple EXCEPT ![q] = Tail(@)]
            /\ prior' = [skipped EXCEPT ![q] = IF @ >= ratio THEN 0 ELSE @]
            /\ waiting' = waiting \ {Head(simple[q])}
            /\ aged' = [aged EXCEPT ![q] = 0]
            /\ UNCHANGED bucket
    /\ Served(q)
    /\ passed' = PassedOver(q, simple)

\* wr_genloop: the next given clause comes from the hyper queue, or else from
\* the first block that yields one.
Pick ==
  /\ mode # "done" /\ hyper = <<>>
  /\ \E q \in Queues :
       /\ Yields(q)
       /\ \A p \in Queues : Distance(p) < Distance(q) => ~Yields(p)
       /\ TakeFrom(q)
  /\ lits' = MaxLits
  /\ mode' = "work"
  /\ UNCHANGED <<settings, hyper>>

\* Mutant: the step with a partial result leaves a result as long.
PickHyperKeeps ==
  /\ mode # "done" /\ hyper # <<>>
  /\ hyper' = Tail(hyper)
  /\ lits' = Head(hyper).lits
  /\ waiting' = waiting \ {Head(hyper).cl}
  /\ UNCHANGED <<settings, queueVars, mode>>

PickHyper ==
  /\ mode # "done" /\ hyper # <<>>
  /\ hyper' = Tail(hyper)
  /\ lits' = IF ParaPartials THEN Head(hyper).lits ELSE Head(hyper).lits - 1
  /\ waiting' = waiting \ {Head(hyper).cl}
  /\ UNCHANGED <<settings, queueVars, mode>>

\* No block yields a clause: wr_genloop returns.
Exhausted ==
  /\ mode # "done" /\ hyper = <<>>
  /\ \A q \in Queues : ~Yields(q)
  /\ prior' = Skipped(Queues)
  /\ block' = First
  /\ mode' = "done"
  /\ UNCHANGED <<settings, simple, bucket, turn, hyper, lits, waiting, passed, aged>>

Next ==
  \/ \E c \in Clauses : \/ \E k \in Kinds, w \in Weights : Push(c, k, w)
                        \/ \E n \in 1..MaxLits : PushHyper(c, n)
  \/ Pick \/ PickHyper \/ Exhausted

Spec == Init /\ [][Next]_vars

\* Fairness: the loop goes on; the inferences with one given clause end.
FairSpec == Spec /\ WF_vars(Pick \/ PickHyper \/ Exhausted)

-----------------------------------------------------------------------------
\* Properties.

TypeOK ==
  /\ simple \in [Queues -> Seq(Clauses)]
  /\ bucket \in [Queues -> [Priors -> Seq(Clauses)]]
  /\ prior \in [Queues -> 0..ratio]
  /\ turn \in [Queues -> 0..6]
  /\ block \in 0..4
  /\ hyper \in Seq([cl : Clauses, lits : 1..MaxLits])
  /\ lits \in 0..MaxLits
  /\ mode \in {"load", "work", "done"}

\* A clause that was never picked is still ahead in the age order of a block or
\* in the hyper queue: although weight and age consume the blocks apart from
\* each other, what is left in the buckets alone was picked before.
NothingLost ==
  waiting \subseteq (UNION {Range(simple[q]) : q \in Queues}) \cup Partials

\* The loop ends with an empty-handed pick only when every clause was picked,
\* also when a block was passed over because its counter was due.
ExhaustedIsEmpty == mode = "done" => waiting = {}

\* How often a block is picked from before its turn ends: the counter goes up
\* twice for each pick, so less often than CLPICK_THIS_QUEUE_RATIO.
Burst(q) == IF strategy = 0 THEN 1 ELSE <<4, 3, 1, 1>>[q + 1]

\* However the blocks run dry and fill up again in the middle of a turn, a
\* block with a clause to give is passed over at most as often as the turns
\* of the other blocks are long together.
FairShare ==
  \A q \in Queues :
    passed[q] <= Burst((q + 1) % 4) + Burst((q + 2) % 4) + Burst((q + 3) % 4)

\* Light clauses do not keep the others waiting: between two picks by age from a
\* block there are at most as many by weight as the guide says, also if its
\* buckets run dry between them or it is passed over.
AgeShare == \A q \in Queues : aged[q] <= ratio

\* Every clause is picked at last, although clauses of the preferred roles and
\* partial results are pushed without end.  (Not if partial results may be
\* paramodulated: the hyper queue, which goes first, need not get empty then.)
NoStarvation == \A c \in Clauses : c \in waiting ~> c \notin waiting

Selection == INSTANCE ClauseSelection WITH kept <- Kept, done <- mode = "done"

\* The queues do what the given-clause loop asks of a clause store.
ImplementsSelection == Selection!Spec
=============================================================================
