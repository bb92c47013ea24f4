# Verification of gkc in TLA+

gkc is a first-order theorem prover: a given-clause loop over clauses that are
stored in a segment of a small in-memory database (WhiteDB), which may be
private or shared memory. This directory holds TLA+ modules for parts of it,
the configurations with which TLC checks them, and proofs for TLAPS. All line
numbers refer to the sources beside it; `PROJECT.json` gives, for each
definition, the lines it stands for.

    tlc -config tfqueue_safety.cfg MCTFQueueLock      # a run
    tlapm TFQueueLockProofs.tla                       # the proofs
    tlapm SpinLocksProofs.tla
    tlapm StrategyRunsProofs.tla
    tlapm PickQueuesProofs.tla
    tlapm GivenClauseProofs.tla
    tlapm AllocatorProofs.tla                         # about ten minutes
    tlapm RecordsProofs.tla                           # about twelve minutes
    tlapm RecordIndexProofs.tla                       # about six minutes

1. [Inventory](#1-inventory)
2. [Modules and how they correspond to the code](#2-modules)
3. [Runs, bounds and fairness](#3-runs)
4. [Proofs](#4-proofs)
5. [What the checks found](#5-disagreements)
6. [What is not modelled](#6-not-modelled)
7. [Plan](#7-plan)

## 1. Inventory

**How a call of gkc goes.** `gkc_main` (Main/gkc.c) makes a local segment or
attaches a shared one, lets the parser import the input as records, and calls
`wg_run_reasoner` (Reasoner/rmain.c). That builds the strategy guide, forks
workers, and each process tries its share of the guide's runs. A run fills the
pick queues and calls `wr_genloop`, which takes clauses from the queues,
simplifies them, makes the inferences with the active clauses, simplifies the
results, and pushes them into the queues, until there are enough answers, the
queues are empty, or a limit is reached. The exit status tells the parent.

| Component | State | Operations | Hard because | Correct if |
| --- | --- | --- | --- | --- |
| Database lock (Db/dblock.c) | queue of cells, free list, queue mutex, a word per cell; or one counter for the spin locks | start and end of read and write | processes interleave between the sections under the mutex; late wakes, timeouts | a shared/exclusive lock, granted in order, nobody starves |
| Strategy runs (Reasoner/rmain.c) | the workers, pids to kill, how many live, the last wait status | fork, wait, kill, exit | processes die in any order, forks fail, alarms | the result is that of the workers; every run made once; nobody left behind |
| Clause selection (Reasoner/clstore.c) | four blocks with two orders each, counters, the hyper queue | push, pick | two positions over the same clauses, shared counters | nothing lost, nothing starved |
| Given-clause loop (rgenloop.c, resolve.c, derive.c, simp.c, subsume.c) | active clauses, hashes of units and doubles, limits | pick, simplify, resolve, keep | each clause is dropped on the word of others; limits change meanwhile | answers follow; exhaustion means completeness |
| Answers (history.c) | the answers found | register, compare, enough | counted while the search goes on | no answer lost or invented |
| Active storage and term index (clstore.c, hash.c) | hash buckets by term prefix | store, look up | the lookup must visit every prefix a partner may have been stored under | nothing unifiable is missed |
| Unification (unify.c) | variable banks, the varstack trail | unify, match, undo | bindings must be undone on every path | most general unifier, clean trail |
| Subsumption (subsume.c, clmeta.c) | meta blocks of active clauses, sorted literals | subsume, back subsume | backtracking, early returns on sorted metadata | instances are dropped, and nothing else |
| Building and rewriting (build.c, rewrite.c) | buffers | copy, rename, rewrite | partial results in a buffer that is reset | the instance that was meant |
| Propagation (prop.c) | propositional clauses | propagate, solve | trail and levels | sound verdict |
| Guide and analysis (guide.c, makeguide.c, analyze.c, strat.c) | parameters | choose | heuristics | legal parameters |
| Allocator (Db/dballoc.c) | free-list buckets, boundary tags, the designated victim | allocate, free | split and merge over long histories | the heap is tiled; nothing free twice |
| Records, strings (dbdata.c, dbhash.c) | records with back links, shared strings with counts, hash chains | create, set, delete | counts over many holders | freed exactly when unused |
| Indexes and queries (dbindex.c, dbquery.c) | T-tree, hash index, cursors | insert, delete, fetch | rotations, cursor over changes | holds exactly the rows, in order |
| Journal (dblog.c) | file, translation table | log, replay | cut-off entries, offsets that moved | replay gives the database back |
| Shared memory and KB (dbmem.c, init.c) | segment, its initialisation flag, a local base on top | attach, create, detach | two creators, readers of a half-made segment | one initialised segment |
| Pools, JSON, schema, dump, printers, parsers, tools | | | formats and I/O | |

They interact by calls, except for four places: processes that share a segment
meet in the database lock; parent and workers meet in exit statuses and signals;
the loop and the store meet in the queues, the hashes and the active list; terms
and clauses meet in the variable banks, which every attempt to match or unify
has to leave clean.

The hazards, each at its line and with the properties that watch over it, are in
`PROJECT.json` under "hazards".

## 2. Modules

| Module | Stands for | |
| --- | --- | --- |
| `RWLock` | what `wg_start_read` ... `wg_end_write` promise | abstract |
| `TFQueueLock` | LOCK_PROTO 3 of Db/dblock.c | implements `RWLock` |
| `TFQueueLockProofs` | | theorems about `TFQueueLock` |
| `SpinLocks` | LOCK_PROTO 1 and 2 of Db/dblock.c | implements `RWLock` |
| `SpinLocksProofs` | | theorems about `SpinLocks` |
| `StrategyRuns` | forks and the wait loop of `wg_run_reasoner`, exit codes of gkc.c | |
| `StrategyRunsProofs` | | theorems about `StrategyRuns` |
| `ClauseSelection` | what `wr_genloop` asks of a clause store | abstract |
| `PickQueues` | the pick queues of clstore.c | implements `ClauseSelection` |
| `PickQueuesProofs` | | theorems about `PickQueues` |
| `GivenClause` | `wr_genloop` with all it calls, for ground clauses | |
| `GivenClauseProofs` | | theorems about `GivenClause` |
| `Terms` | variable banks, unification, matching, the metas of atoms (unify.c, clmeta.c) | operators |
| `Subsumption` | sorting, subsumption, activation and unification in a turn of `wr_genloop`, for clauses with variables | uses `Terms` |
| `Heap` | what the users of Db/dballoc.c rely on | abstract |
| `Allocator` | Db/dballoc.c | implements `Heap` |
| `AllocatorProofs` | | theorems about `Allocator` |
| `TTree` | a T-tree index of Db/dbindex.c and the range queries of dbquery.c | |
| `Records` | records, back links, strings of Db/dbdata.c and dbhash.c | |
| `RecordsProofs` | | theorems about `Records`: back links and strings |
| `RecordIndexProofs` | | theorems about `Records`: index entries |
| `MC...` | the instances for TLC | |

### TFQueueLock

`node`, `tail`, `freelist`, `queue_lock` are the fields of the segment, and
`storage` is the set of its lock cells, which Init takes from `Storages` and nothing
changes; `pc`, `class`, `lock`, `syn_addr` are the locals of each process. What is
done under the queue mutex is one step (`Enqueue`, `Dequeue`, `ChainReader`,
`ReleaseWrite`, `ReleaseRead`, each ends with the store that frees the mutex), as no
other access to the queue exists; taking the mutex (`LockQueue`), reading `waiting`
without it (`TestWaiting`), entering and leaving FUTEX_WAIT and the late FUTEX_WAKE
are steps of their own. FUTEX_WAIT is modelled by what the kernel does: compare and
sleep is atomic. Three constants switch on what may go wrong there: `Timeouts`,
`StaleWakes` (a wake that finds a later user of the cell) and `Signals` (EINTR). Two
variables are history: `ahead`, the cells that came before and are still there (the
queue itself has only links; `QueueShape` relates the two), and `early`: FUTEX_WAIT
has let in a request that was not granted.

The counts and sleeps of the spin loop are left out: the process polls again. A cell's `waiting` word of the free list is not read by anybody.

### SpinLocks

`gl` is the word of the lock, split into the flag WAFLAG and the count of
readers, `writers` the second word of the writer-preference lock. A step is one
atomic operation on one of them: an add, a compare-and-swap, or a read that is
acted on later (`ReadCount` then `SwapRead`, `SpinWrite` then `SwapWrite`).
`build` says which of the two locks was built, and whether with USE_LOCK_TIMEOUT;
a timeout may come in any round of a spin loop. The pauses and the growing sleeps
are left out. `before` is history: the writers that were announced when a reader
came.

### StrategyRuns

A worker is named by its `forknr`; the parent is -1. `state` says where a process
is, `iter` and `res` are `iter` and `res` of the run loop; `forkscreated`,
`forkslive`, `forkpids` and `stat` are the parent's variables of the same name.
A run (`Run`) finds a proof, ends without one, with a result in `Failures`, or never
ends (`RunsForever`): the limits of a run are 0, that is, none, unless a strategy
sets them (glb.c:205-208), and the surplus workers have no section of the guide to set
any. A proof in a run whose database has an error flag becomes the result -2
(rmain.c:831-834), and counts as a run that failed. `ltb` says whether the batch
prover called; only then does the exit status tell a failure.

`home` is what gkc runs under, as getppid depends on it: `init` adopts orphans, a
`subreaper` does, or gkc is process 1 of a container itself (`pid1`). A worker makes its
prctl (`Prctl`) and looks at getppid (`Check`) in two steps, and the parent may end
before, between and after them; whoever has made the prctl by then is sent a signal
(`Orphaned`). A parent that learns of a proof kills its workers one by one (`Kill`), while they
go on, and then exits (`KillsDone`).

`WaitFails` is the return of waitpid with -1, which leaves `stat` unchanged: this
is where the loop of the parent does not end after a crash.
The mishaps (a fork that fails, a worker killed by a signal, SIGALRM, an error
before the search, the end of the total time) may come at any moment.

### PickQueues

`simple[q]` is the simple queue of block `q` from its next position on;
`bucket[q]` its priority queue as buckets by weight; `prior`, `turn`, `block` are
the two counters and the number of the next block. A name of a clause is used
again when no queue holds it, so that behaviours without end have finitely many
states. `passed`, `aged` and `waiting` are history.
`PushHyper` is limited by the negative literals a partial result still has; with
`ParaPartials` a step with a partial result need not take one away
(relaxed_hyperres_strat).
`ClauseSelection` leaves the order open and lets a store keep a clause after it
was picked; it insists that the store is exhausted only when all were picked.

### GivenClause

A clause is a set of literals (integers), the `$ans` literals are positive
numbers of their own. In this fragment what the code does is the whole calculus,
so it can be compared with truth tables: `AnswersFollow` is soundness and
`AnswersComplete` is completeness of a search that ended by itself.
`Candidate` is a turn of the loop from the pick to the given clause: the length
limits, unit cut and subsumption, double cut, forward subsumption, answer, in the
order of the code. `Infer` is one resolution with all that
`wr_process_resolve_result` does. `todo` are the pairs that the loops over the
active list have still to visit. `waiting` and `again` are the two copies of each
clause that `PickQueues` shows there to be. Where the code depends on something
that is left out (the order of literals, weights, metadata bits), the model
chooses freely (`CutDown`, `Overweight`, `Count`, `MayBeSubsumed`).

Not in the fragment: variables, equality (paramodulation, demodulation),
computable terms, query focus, hyperresolution, instance generation, propagation,
back subsumption. `forward_subsume_derived` is 1, as it is except in
the runs of some sequential strategies (rmain.c:766). A clause derived again while it waits
is one name, with its two copies renewed. The test for tautologies at the pick
cannot bite here, since they are not kept.

### Terms and Subsumption

A term is a symbol with arguments. The hash, which C computes from strings, adds
up numbers given to the symbols, with few residues, so that it collides as it
does in reality; the widths of the fields in a meta (`SizeMask`, `DepthMask`,
`PreflenMask`) and the byte of a meta block (`Byte`) are constants, set so small
that clauses exceed them. `Cover` is `wr_subsume_cl_aux` with its order of
attempts, its early returns and its clearing of bindings. `env` is the variable
bank with its stack.

`Pick` is a turn of the loop from the point where simplification has left the
clause as it was: sorting, meta block, forward subsumption, back
subsumption, activation with renamed variables. `Resolve` and `Factor` unify a
literal of the given clause with one of another or the same clause, and
`ClearVars` unsets the variables. A clause of an attached knowledge base (`kb`)
is not sorted, and the meta block in the local variable stays that of the
clause before; at first it is what the stack held (`Leftover`).
`StrayMatch` is the answer when the code compares the memory of a constant with
a record.

Left out: computed terms, the second active list of an attached knowledge base,
instance generation (its extra tests on lengths), `endgame_mode`, which turns
forward subsumption off, and the bits of `resolvability`.

The reference definitions `Subsumes` (a substitution and an injection from
literals to literals exist) and the unifiers in `Instances` are not built with
the code's operators. `SubsumptionExact` compares both directions, and where the
code is known to miss a subsumer the exception is named in `KeptOnlyIfNew`: facts,
ground subsumers of clauses with variables, active clauses whose stored block is
not their own, clauses of a knowledge base, and clauses with a counter of just
`Byte`. Each of them is needed: without it TLC finds a counterexample, see
section 5.

### Heap and Allocator

`h` is the header and the memory: `obj` gives for each offset in the variable
area the head of the object there (its mark bits, its size, its two links),
`bucket` the free lists, `dv` and `dvsize` the designated victim, `freelist` the
list of the area of fixed length, `subs` the subareas, `free` where the rest of
the segment starts. A step is a whole call, as the caller holds the database
lock. `AllocGints` looks in the order of the code (exact list, victim, larger
lists) and extends the area until something fits or there is no more room; a
request that fails has still extended it. `FreeObject` merges with what is before and after and
chooses the new victim. `Refused` is the call that
returns -4; `lost` are the objects of such calls. The area of fixed length stands for
the cells of lists, short strings, words, doubles and nodes; both areas take
their subareas from one segment, so that one can fail because of the other.
The test of `PrevIsOk` compares what the code compares. Where the mark prev-free is stale
(section 5), the word before the object is data of its user. The model takes it that this word
does not pass the test: an application could store just the offset that does, and the
code would then merge what is in use.

### TTree

`t` is one index: nodes with parent, children, heights, the bounds, the rows and
the chain; `f` the column of the table. A step is a call on the table with all it
does in the index: `Create`, `SetField` (out with the old value, in with the
new), `Delete`, `CreateIndex` and `DropIndex`. `area` is how many nodes may be
allocated: with the small one, `ttree_add_row` fails halfway, and `failed`
remembers that a call said so. That the root can be allocated, which
`create_ttree_index` does not check (dbindex.c:1382), is assumed. Nodes are chained and only one bound of a node is
compared, as config.h has it. The queries are operators on the state: `StartOf`
and `EndOf` find a cursor for each bound, `NoRange` is the test for an empty
range, `Walk` what `wg_fetch` delivers; they are compared with a scan.
`QueryExact` leaves out two exclusive bounds with one value (section 5).

### Records

`rec` are the records, `links` the lists of back links, `str` and `bucket` the
long strings with their chains, `ix` for every indexed column the entries of each
record with the key they were put in with: an index finds an entry only under
that key. `KeyOf` looks into records to the depth that
`wg_compare` does. `Above` and `Affected` are the walks of `remove_` and
`restore_backlink_index_entries`, in their order and with their repetitions.
`SetField`, `SetNewField` and `Delete` follow the code to the end, also when an
index returns an error halfway. `strict` is the index's choice between two
answers for a missing row, which `TTree` decides by its nodes.
`find_create_longstr` reads the head of the hash chain before it encodes the extra part of a
string and links the string to that head afterwards; `Encoded` takes the head from the state
before, so that a new extra part of the same bucket drops out of the chain, as in the code. All strings
of the run are in one bucket, where that happens. `StringsExact` allows for just these strings:
they are held by the one string they were created for, and by nothing else; a second copy
with the same text may then be in the chain.

An application may link records in ways that the upkeep of the indexes does not survive: a raw
record, or so that a record reaches another, or itself, in two ways, be it through two
fields or through two records. `CarefulLink` says which links are none of these; two records may
hold the same one as long as nothing is above both. The code asks for no such care. A link
stored without it sets `misused`, and `IndexExact` is claimed up to that moment, since it fails
in three ways beyond it (section 5); `Careless` says whether the application ever does, and
the run leaves such links out, which bounds its states: they would add states in which `IndexExact` says
nothing. A record is never stored in itself. `LinksExact` and `StringsExact` are claimed and proved for
careless applications too.

## 3. Runs

| Run | Module, configuration | Shows | States |
| --- | --- | --- | --- |
| tfqueue_safety | 3 processes, 3 cells or 2, timeouts; processes symmetric | exclusion, list and order, no lost cell or wake, refinement of `RWLock` | 1 454 782 |
| tfqueue_live | 3 processes, 3 cells, no timeouts | nobody starves | 920 046 |
| tfqueue_stale_wake | late wakes | `MutualExclusion` fails | violation |
| spin_locks | 3 processes, both locks, with and without timeouts | refinement of `RWLock`, readers yield, the preferred get in | 8 058 |
| strategy_runs | no fork, 2 forks (3 runs) or 3 forks (2 runs); both modes; three homes; runs without end | result, partition, kills, orphans, ends | 810 823 |
| pick_queues | 2 clauses at a time, 4 blocks, 3 weights, ratio 1, strategies 0 and 1 | nothing lost, shares, refinement of `ClauseSelection` | 201 283 |
| given_clause | all sets of up to 4 of 8 clauses over 2 atoms, 5 problems over 3 atoms; 1 or 2 answers wanted; with and without the unit limit | soundness, completeness, hashes, termination | 1 219 999 |
| subsumption | two picks out of 71 clauses (one or two of 11 literals, and five longer ones), each sorted or from a knowledge base; all unifications between them | unifiers, clean variable banks, subsumption in both directions | 64 121 |
| allocator | segment of 44 gints, up to two subareas for each area, requests of 1 and 5 | tiles, tags and lists agree, nothing lost silently, refinement of `Heap` | 64 427 |
| free_merge | the same | `FreeSucceeds` fails | violation |
| ttree | 6 rows, nodes of 2 rows, up to 5 nodes, equal values in several nodes | shape, contents, queries | 74 790 |
| records | 4 records over 2 columns, each may hold the one before it, one also the first, depth 3; 3 strings in one bucket, one with a prefix | back links, counts, chains, index keys | 184 443 |

**Why the bounds are enough to be interesting.** With three processes a queue has
a head, a middle and a tail, so each of them can be unlinked, a writer can stand
behind a reader that stands behind a reader, two readers behind a writer, which are let in one
by the other, and a cell can be reused while an old wake is on its way. A process asks only when it
has no cell, so with three cells no allocation fails; `tfqueue_safety` has a storage of two
cells as well, where the third request finds none. `tfqueue_live` checks `OneIsServed`, that is, `NoStarvation`
for one of the processes: neither the specification nor its fairness tells processes
apart, so what holds for one of them holds for each. Two workers and three runs give a
worker two of them, and the other a turn behind the end of the guide; three workers and two runs
give a surplus worker. One result stands for all failed runs, since only the
exit code tells them apart, and `OutOfTime` and `SetupFails` give others. In the queues, two clauses
are enough to have one order pass over the other; four blocks and the strategy 1
give the ratios 6, 4, 1, 1 of the code, while clauses are pushed without end. `MaxPrior = 1` leaves a
lightest and a heaviest bucket, and the weights reach both and none. The clause sets contain facts,
rules, goals, questions, and doubles that are opposite to each other; the chains
over three atoms let units and doubles be derived that were not read and be cut
in two ways. Of the clauses with variables, every pair of the eleven literals
occurs, so there are literals that can be bound in two ways, need a second try, exceed
every field of a meta, or collide in their hash; a second pick is the first that
meets an active clause, and more picks only add further candidates of the same
kind. The segment of the allocator has room for frees with a free object before, after and on both
sides, and beside the victim, for lists of two objects and for a failed extension; but no merge with the object
before succeeds in the runs, because the faulty test (`PrevIsOk`) refuses
it at all offsets that occur there. That case is covered by the proof only, which is for any sizes. The
nodes of the T-tree have two slots in place of eight, which makes six rows a tree of
several levels with all four rotations, the special rotation, the borrowing of a
row, the merge of a half leaf and equal values in neighbouring nodes; `Underflow`
is as far below a full node as a node of two rows allows. The chain of four records is as long as
the depth of comparison reaches, so a change at its end moves the rows of all of them, and
an ancestor could be reached in two ways, directly or through another record.

**Fairness.** *Lock*: a process that can go on does, a holder ends its
transaction, and the spin for the queue mutex succeeds if it is free again and
again (strong fairness of `LockQueue`): the code polls with sleeps, and
the sections are a few instructions. Nothing is assumed of requests, timeouts or
signals. *Strategy runs*: the kernel runs processes and delivers signals; nothing is
assumed of the runs: each is started, but may go on for ever. So `EveryoneEnds` says that in the
end nobody is left but searches that do not end, and not even those if a proof was found. *Queues*: the loop goes on; nothing is
assumed of pushes. *Spin locks*: a process in a call goes on and a holder ends its
transaction (weak fairness of `Step`), which the scheduler grants; a
compare-and-swap may fail again and again, so `Preference` promises entry only to
counted readers (RPSPIN) and to one of the waiting writers (WPSPIN), and the
others may starve. *Given clause*: the loop goes on; the clock need not (no
fairness for `TimeOut`), so its end is due to subsumption alone.

CHECK_DEADLOCK is off where the program ends: the strategy runs, the queues after the
last pick, the search after its result and the picks after the last one; and
where the memory may be used up: allocator, index, records. The locks are checked
for deadlock.

**Properties that need several actors or a history to fail**

- `MutualExclusion`, `GrantOrder`: relate the words of the cells to the order in
  which they came, whoever left in between.
- `WakePending`: a sleeper that was granted has a waker on its way. This is what
  "store, unlock, wake" relies on.
- `CellsAccounted`: the free list and the queue share out the cells.
- `OneIsServed`: the reader chain is complete.
- `ReadersYield`, `Preference`, and for both locks `ImplementsRWLock`: what two or
  three processes do between the reads and the swaps of one word.
- `SuccessIsProof`, `NoProofLost`: exit status against what was found, both ways.
- `NoRunTwice`, `FailureIsExhaustive`: the strides partition the runs.
- `KillsOnlyItsOwn`, `NobodyLeftBehind`, `NoOrphanSearches`: pids and signals.
- `NothingLost`, `ExhaustedIsEmpty`, `FairShare`, `AgeShare`: the two orders and
  their counters. `Burst` in `FairShare` is what the counters really give.
- `AnswersFollow`, `AnswersComplete`, `UnitsInPlay`: simplification against the
  meaning of the clauses.
- `SubsumptionExact`, `UnifyExact`: metas, order and backtracking against the
  definitions, over whatever the steps before left in lists, banks and meta blocks.
- `SegmentSound`, `Accounted`, `ImplementsHeap`: tags, lists and space after any
  sequence of calls.
- `TreeSound`, `IndexExact`, `QueryExact`: the shape against the contents against
  what a query sees.
- `LinksExact`, `StringsExact`, and `IndexExact` of `Records`: who holds what, counted in two
  ways; index keys against values some records below.

Type invariants of `StrategyRuns`, `GivenClause`, `PickQueues` and `SpinLocks` are
definitions that the runs do not check; all four are proved.

Each property of a passing run has a mutant in the module (comments "Mutant:"): a
variant of one definition with a plausible mistake, under which TLC finds the
property violated.

## 4. Proofs

Every theorem holds for all values of the constants that satisfy the named
assumption of the module; nothing else is assumed of a specification. Each component
has an inductive invariant that strengthens what the runs check. Names of parts are
those of the modules.

### TFQueueLockProofs

For every set of processes and every storage: a sequence of distinct cells, `Nil`
is neither cell nor process (`TFAssumption`). There are two invariants.

What is about exclusion and order holds until FUTEX_WAIT lets in a request that was not
granted, by a signal or by a wake meant for an earlier user of its cell: the code does not
look at the word again, and as tfqueue_stale_wake shows the lock does not exclude from then
on. `early` records that moment, and the theorems are about all behaviours, with timeouts,
signals and stale wakes, up to it. Most stale wakes and signals change nothing: a
process that was granted meanwhile returns rightly. So nothing but such a return
breaks the lock. `IInv` has

- `TypeOK`, and the free list has no repetition;
- `Ownership`: a process has a cell exactly while it is in the queue, and no
  two share one (needed to know that the cell a step frees is queued);
- `QueueShape`: the links follow the arrivals;
- `ArrivalOrder`: `ahead` is a strict total order on the queued cells (needed
  to conclude from "nobody is ahead of a granted writer" that any other granted
  cell has the writer ahead of it);
- `GrantOrder`;
- `Knowledge`: a process that holds the lock has a granted cell of its class;
  one that passes the lock on is a reader (needed since processes act on what
  they once read of their cell).

The lemmas `PopElements` and `PushElements` treat the free list as a stack,
`Neighbours`, `UnlinkShape` and `LeaverGone` the removal of a cell from anywhere
in the list, `Moving` the steps that leave the queue alone; then there is one
lemma for each section under the mutex, and `NextInv` puts them together.

What is about cells and wakes holds with signals and stale wakes too: they break the
exclusion, but lose no cell and no sleeper. `CInv` has `TypeOK`, `Ownership`, the free list
without repetitions, `Claimed` (a cell off the free list is that of a process: with
`Ownership` this makes `CellsAccounted`), `OneWake` (a process names a cell to
wake only until it has done so, so that a pass over the wake forgets nobody), and
`WakePending` itself. It cannot be a part of `IInv`, which holds only up to `early`;
the steps are gone through a second time without order and shape of the queue.

| Theorem | States |
| --- | --- |
| `Invariance` | `Spec => [](~ early => IInv)` |
| `Exclusion` | `Spec => [](~ early => MutualExclusion)` |
| `Shape` | `Spec => [](~ early => QueueShape)` |
| `OrderOfGrants` | `Spec => [](~ early => GrantOrder)` |
| `Implementation` | `Spec /\ [](~ early) => ImplementsRWLock` |
| `CellsInvariance` | `Spec => []CInv` |
| `Typed` | `Spec => []TypeOK` |
| `CellsKept` | `Spec => []CellsAccounted` |
| `NoWakeLost` | `Spec => []WakePending` |

`Implementation` rests on `OneChanges`: a step that changes what one process
holds is a step of `RWLock`, because the state after it excludes. A wake moves
two processes; if the sleeper is a writer then exclusion afterwards says that
the waker was leaving (`WakeRefines`).

### SpinLocksProofs

For every finite set of processes and any choice of builds. `IInv` has, besides `TypeOK`:

- `WordsAgree`: flag, count and second word say what the processes do. The
  reader count is a cardinality, so each step that moves one process needs that a set
  grew or shrank by one (`Plus`, `Minus`), from the library's theorems on
  finite sets;
- `Exclusive`: a writer that is inside is alone (a swap succeeds only on a word
  that is zero, and `WordsAgree` turns zero into "nobody");
- `Lanes`: processes are only at labels of the lock that was built, and the
  history is empty outside;
- `Yielding`: a reader that has seen no announced writer has none before it; it
  strengthens `ReadersYield` to the steps between the look and the swap.

| Theorem | States |
| --- | --- |
| `Invariance` | `Spec => []IInv` |
| `Typed` | `Spec => []TypeOK` |
| `Words` | `Spec => []WordsAgree` |
| `Yield` | `Spec => []ReadersYield` |
| `Implementation` | `Spec => ImplementsRWLock` |

### StrategyRunsProofs

For any set of fork counts that has a greatest one (a count of 1 means no fork and is
written 0), any numbers of runs, both modes, any results of failed runs and any homes
(`SRAssumption`). The invariants build on each other:

- `Base`: the types, and `Creation`: the workers below `forkscreated` exist, and
  the runs are made either by them or by the parent;
- `Ends`: a worker that was reaped is gone, and off `forkpids` unless a signal ended
  it. With it the parent's list of pids is known to be its own workers when it kills;
- `Counted`: as long as the parent waits, `forkslive` is at least the number of
  workers alive, and their pids are in `forkpids`. It is an inequality since the
  death of a worker by a signal is not counted down: the parent cannot leave the
  loop too early, though it may never leave it;
- `Honest`: a result 0 and an exit status 0 are those of a process that has proved;
- `Searches`: a process has made its turns up to the present iteration and no
  others, where `Turns(p)` are the numbers `p`, `p` + stride and so on. `Multiples`,
  `TurnsApart` and `TurnsCover` are the arithmetic: turns of two processes are
  disjoint, and together they are all runs;
- `Failed`: until something goes wrong, whoever ended without a proof has exhausted
  its turns, and the parent waits for a full set of workers.

| Theorem | States |
| --- | --- |
| `Invariance` | `Spec => []IInv` |
| `Typed` | `Spec => []TypeOK` |
| `Honesty` | `Spec => []SuccessIsProof` |
| `Exhaustion` | `Spec => []FailureIsExhaustive` |
| `Sharing` | `Spec => []NoRunTwice` |
| `Kills` | `Spec => []KillsOnlyItsOwn` |
| `AllKilled` | `Spec => []NobodyLeftBehind` |
| `NoOrphans` | `Spec => []NoOrphanSearches` |

### PickQueuesProofs

For every set of clauses and kinds, all weights, every number of priors and all values of
the guide; nothing is assumed but the types of the constants (`PQAssumption`). `IInv`
has, besides `TypeOK` and the settings:

- `WaitingAhead`: every clause that was never picked is in a simple queue or the
  hyper queue. A pick by weight does not touch the simple queues, so it can only
  leave clauses behind there, never lose one. With it an empty-handed search,
  which has found every simple queue empty, leaves nobody waiting.
- `AgedBehind`: a block that has made picks by weight since its last one by age
  has a clause to give by age, and its counter has seen those picks. Without the
  first half the counter could be reset by a search in vain (`Skipped`) and the
  picks go on: it says that such a reset only comes to blocks that owe nothing.
- `ExhaustedIsEmpty`.

For `FairShare` it becomes `FInv`, with `Turns` (a block that keeps its turn has one more
pick to its burst, and the counter went up by two for each pick it had) and
`PassedBehind`: how often a block was passed over is at most what the blocks between it and
the present one may have had in full, and the present one so far (`MayPass`). A block that
turns out to be empty gives up the rest of its turn, which only makes
the bound looser.

`LeastElement` gives the lightest bucket, from the library's theorems on
well-founded orders; `AppendFacts` and `TailFacts` say what the two ends of a queue do
to its elements; `TakeByWeight` and `TakeByAge` are the two kinds of picks.

| Theorem | States |
| --- | --- |
| `Invariance` | `Spec => []IInv` |
| `Typed` | `Spec => []TypeOK` |
| `NeverLost` | `Spec => []NothingLost` |
| `EndsEmpty` | `Spec => []ExhaustedIsEmpty` |
| `AgeIsServed` | `Spec => []AgeShare` |
| `ShareIsFair` | `Spec => []FairShare` |
| `Implementation` | `Spec => ImplementsSelection` |

### GivenClauseProofs

For any finite sets of atoms and of `$ans` literals, any input clauses that are
more than answers, any limits and any number of wanted answers (`GCAssumption`). `IInv` has

- `Typing`: the types, nothing but answers is ever without a literal to resolve
  upon, and while the search goes on there are not yet enough answers;
- `Sound`: every clause that is stored anywhere (queues, active list, both hashes,
  answers) follows from the input. `AnswersFollow` alone is not inductive: an answer is
  derived from the others;
- `UnitsInPlay`.

Completeness has an invariant of its own, `CInv`. While no limit has kept the search from
an inference, every input clause and every resolvent of two active clauses is *covered*:
it is a tautology, or a clause that is active, waiting or registered is a part of it, or
the inference is still to be made (`Pending`); and the bookkeeping of answers is as `Stands` says.
A clause that is dropped or cut leaves one that covers what it covered
(`CandidateReplaced`, `StaysCovered`). If one answer is enough, `$ans` literals do
not count, as `wr_subsume_cl` does not compare them then (`Spare`). At the end nothing waits, so the
active clauses are saturated, and `ModelOfSaturated` gives the countermodel: among the
sets of literals without opposites that make no clause false, when read as false literals, a
largest one decides every atom, because two clauses that keep an atom undecided have a
resolvent that is false already. This takes the place of the usual induction over derivations.

`ByModels` turns entailment into a statement about single literals in a single model.
Then `ResolventFollows` is resolution, `CutLiteral` and `CutsFollow` say that
a literal whose opposite is a known unit is false in every model, and `CutDownFollows` and
`SimplifiedFollows` that this stays so in any order of cuts, in particular for a double cut whose
other literal was cut from the clause before.

| Theorem | States |
| --- | --- |
| `Invariance` | `Spec => []IInv` |
| `Typed` | `Spec => []TypeOK` |
| `Soundness` | `Spec => []AnswersFollow` |
| `UnitsStay` | `Spec => []UnitsInPlay` |
| `Completeness` | `Spec => []AnswersComplete` |

### AllocatorProofs

For any sizes of the segment, the subareas and the objects, any number of buckets and
any requests. `AllocAssumption` says what dballoc.c takes for granted of its constants:
a subarea has room for its two markers and an object, and for a cell; the segment
has room for the first subareas (else it is not created); every size has a
bucket. `IInv` is `Sound` of the memory, the users' objects, and the objects of
calls that returned an error:

- `Space`: heads and cells are pieces of the segment that do not overlap; behind
  every piece but an end marker there is one; each subarea has its two
  markers. This is weaker than `Tiled` and local, so that splitting and joining two
  neighbours preserves it (`SpaceSplit`, `SpaceJoin`); that the pieces tile their
  subareas follows from it, as does that no piece begins within another (`SpaceApart`);
- `Linked`: there is a sequence for each bucket, whose elements are the free
  objects of that bucket, each once and linked both ways (`Lists`, `Chain`). The
  first element's link back is not a part, as `split_free` leaves it stale;
- `Victim`: the designated victim is the one piece with the special mark;
- `InUse`: the used pieces are those handed out and those of failed calls;
- the number of cells, free or handed out, is what the subareas have room for, and
  the array of subareas is not exceeded.

Within a call the memory is in states where an object was taken from its list and is
still marked as free, or the old victim is special and in no list. `Loose` and its
parameter `limbo` describe these, and each helper of the code has its lemma from such a
state to the next: `UnlinkLoose`, `PushMem`, `MarkPrevMem`, `JoinMem`, `RetireMem`,
`StoreMem`, `MergeNextMem` for freeing, `PopMem`, `SplitMem`, `CutMem` and
`FindMem` for allocating, `OpenMem` and `ExtendVarMem` for a new subarea. `SearchEnds` says
that the loop of `wg_alloc_gints` finds a place or a full area after at most as
many extensions as the array has room for, so the CHOOSE of `AllocGints` is justified. The
three recursive functions of the model (`Extended`, the sum of the cells, the walk over a
list) are unfolded with `LeastElement`, by way of the first argument where a claim would fail.

| Theorem | States |
| --- | --- |
| `Invariance` | `Spec => []IInv` |
| `SegmentStaysSound` | `Spec => []SegmentSound` |
| `NothingLeaks` | `Spec => []Accounted` |
| `Refinement` | `Spec => ImplementsHeap` |

### RecordsProofs

For any finite sets of records, columns and string cells, any indexed columns, texts, extra parts,
hash and depth, anything the application stores, careful or not (`RecordsAssumption`).

An operation of `Records` makes a state from a state in several steps. `RecordsOk(x)` and
`StringsOk(x, H)` say what such a state `x` is: the first, that every record has a row of values
and every list of back links has, for each parent, as many entries as the parent has fields
with the record, the fields being those of a set `E` (`LinkInv`); the second, that the chains hold the strings
in use, each once (`Chained`), that a text is in use once, that a string is counted `H` times
by fields, and once more by each string it is the extra part of, and that what has no holder is
loose or free. A step adds a field to `E` or `H`, or takes it away; an operation is right
as `E` and `H` are all fields of the table again at its end. `LinksIInv` and
`StringsIInv` are this for the state between operations. `LinksExact` and `StringsExact` are not
inductive: they say nothing of the types of values and cells, of free
cells, of the extra part a text must have, nor of the order in a chain.

What the folds and recursive functions of the model compute is reached with `LeastElement`,
by way of the first position where a claim would fail (`Adding`, `Deleting`, `LettingGo`,
`AboveSteps`); the walk along a chain is unfolded in the same way.

| Theorem | States |
| --- | --- |
| `LinksSound` | `Spec => []LinksIInv` |
| `BackLinksExact` | `Spec => []LinksExact` |
| `StringsSound` | `Spec => []StringsIInv` |
| `StringTableExact` | `Spec => []StringsExact` |

### RecordIndexProofs

From the same assumptions, for every application, up to the first link that is stored without care
(`misused`); beyond it `IndexExact` is false (section 5).

`IndexIInv` adds to `StringsIInv` that no call has failed, that no record reaches another one, or
itself, in two ways (`Tree`), that a raw record is held by none (`Unheld`), and that each set field
has exactly one row, under its key of this moment (`IndexesOk`). `IndexExact` alone is not inductive: it does not
say that the ancestors of a record are found in one way only. The argument for an operation that changes `r`:

- *Reaching.* `Reaches` is a closure, so a link more or less changes it only through that link
  (`ReachMore`, `ReachFewer`); what `CarefulLink` forbids is exactly what would make a second way
  (`TreeMore`). The back links are then those of a forest (`ForestIs`, from `LinkInv`).
- *The walk.* In a forest no ancestor comes twice, and neither does a field in `Affected`
  (`AffectedFacts`); all of them are set, and none is in `r` (`AffectedElsewhere`). So what is taken
  out is there (`DelFieldsOn`), whatever the index answers for a row that is not (`strict`), and no row is put in twice (`AddFieldsOn`).
- *Keys.* The walk goes up as far as keys look down: the fields whose key sees `r` within
  the depth are those of `Affected`, so all others keep their keys (`KeysStay`). It needs that strings in fields keep their
  texts, also when others are freed (`HeldTextsStay`, from the counts of `StringsIInv`).
- *The same walk twice.* `PutBack` runs on other back links than `TakeOut`. They differ only below
  `r`, as neither the old nor the new record of the field reaches `r`, and the walk stays above
  (`AffectedSame`, `AffectedStored`).

| Theorem | States |
| --- | --- |
| `IndexesSound` | `Spec => [](~ misused => IndexIInv)` |
| `RowsExact` | `Spec => [](~ misused => IndexExact /\ ~ failed)` |

### Only model-checked

- All that is about time: `OneIsServed` and `NoStarvation`, `Preference`, `NoProofLost`, `EveryoneEnds`,
  `EventuallyEnds`; liveness is beyond the prover.
- `Terms`, `Subsumption` and `TTree` walk over trees with recursive operators, which
  the prover does not take: `UnifyExact`, `SubsumptionExact`, `TreeSound`, `IndexExact` and
  `QueryExact` of the index stay with TLC.
- `MutualExclusion` with stale wakes and `FreeSucceeds` are false, and the runs show it.

## 5. Disagreements

Where a run of the code's behaviour violates what a comment or document says, the
run is kept as a violation and described under "findings":

- **tfqueue_stale_wake** (dblock.c:1081): wake after unlock can reach a later user
  of the cell, who does not look at the word again.
- **free_merge** (dballoc.c:1270): the test of the free object before the one that
  is freed looks at an offset where it means a head; the call fails and the
  object is lost.

Without a run of their own, but in the models, where the properties step around them:

- *Lock*: a timeout that races a grant drops it (dblock.c:1033); the comment on
  LOCK_PROTO (config.h:54).
- *Strategy runs*: without the batch prover every exit status is 0, so any worker that
  ends stops the others (rmain.c:364, gkc.c:434); the parent's loop after a crash (rmain.c:344;
  `EveryoneEnds` excepts crashes); `getppid() == 1`, which does not tell an orphan of a subreaper, and
  takes a living parent that is process 1 for dead (rmain.c:305; `NoOrphanSearches` leaves out
  the subreaper).
- *Queues*: clauses are given twice (clstore.c:1307); the counter that goes up
  twice (clstore.c:1229); `wr_is_negative_cl` (clstore.c:1129).
- *Answers*: the comparison with a null clause (history.c:2487; the result "crash").
- *Subsumption*: a constant matched with a record (unify.c:302; `StrayMatch`), the
  stale meta block of clauses of a knowledge base (rgenloop.c:333), the
  ground bit that keeps ground clauses and facts from subsuming others
  (subsume.c:433), and 255 that becomes 0 (clmeta.c:565).
- *Allocator*: the mark that is not cleared behind an exactly fitting object, and
  not set behind the retired victim (dballoc.c:1008); the search of the three nearest
  buckets, which never finds anything as sizes are aligned.
- *Index*: a failed allocation loses the smallest row of a full node, and
  `create_ttree_index` does not notice (dbindex.c:562); a query between two equal
  exclusive bounds (dbquery.c:625).
- *Records*: a child in two fields of its parent, or reached by an ancestor through two records
  (dbdata.c:515), a raw record with parents (dbdata.c:955): all with `Careless = TRUE`, like cycles; an extra
  part of a string that is lost from the hash chain (dbdata.c:3092), which `StringsExact` excepts. The allocation of
  a cell for a back link is not checked in `wg_set_field`; the model has no failing
  allocations there.

Two slips of unify.c lie outside the models: `wr_eqmodvars_term_aux`
calls `wr_match_term_aux` for the arguments, and a comparison of primitive values
has `11` where `l1` is meant.

## 6. Not modelled

By decision: formats, parsers, printers, the tools of Main, vendored JSON,
dump and load (I/O); guide, analysis and the numeric heuristics (they choose
parameters, which are constants or initial choices here); memory pools.

The journal (dblog.c) depends on USE_DBLOG, which none of the configurations in
the repository defines; likewise USE_CHILD_DB, USE_TERM_META and QUICK_REASONER are
off, and what depends on them is left out everywhere. Attaching to a segment
(dbmem.c) is a matter of operating system calls and a sleep.

Parts of modelled components: the batch prover's process control; equality,
rewriting, computed terms, query focus, hyperresolution and instance generation in the
loop; the prefix-hash index of terms; the propositional solver; the hash index,
indexes with templates or several columns, queries with several arguments; values
other than numbers, records and long strings; atomic field updates, which are
compare-and-swap on one word.

Allocation failures inside a push of the pick queues, the build buffers, and processes that
die while they hold the queue mutex (the code has no recovery from it) are
hazards without a property.

## 7. Plan

Done: the lock with its three protocols, strategy runs, clause selection,
given-clause loop, terms with subsumption, allocator, T-tree, records.

Proved: all safety properties of the lock, the spin locks, the strategy runs, the
queues, the given-clause loop (soundness and completeness) and the allocator, with their four refinements; back links,
strings and index entries of the records.

Next, proofs: `TTree` with its recursive operators as recursive
functions over nodes, whose shape (`TreeSound`) should come before what it holds.

Then, as candidates for further modules: the prefix-hash lookup of terms (hash.c)
against unifiability, the solver of prop.c, and compositions: records over the
abstract heap, `GivenClause` over `ClauseSelection` (its `waiting` and `again`
are the state of a store that implements it).
