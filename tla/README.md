# TLA+ specifications of atomic_solver

`atomic_solver` decides positions of atomic chess: whether the side to move
can force a win. Its heart is a depth-first proof-number search over a lossy
transposition table. Around it are a driver that runs cheaper stages before
the search and shortens the line it found, a collector and a validator of
proof trees, a reconstruction of a proof from a dumped table, a campaign that
spreads one root over several processes, a race of solver processes, a database
of proofs with a fold, a harvest and readers, and a generator of endgame tables.
These modules model the parts of it whose correctness rests on interleaving,
loss, restarts and bounds, check them with TLC on small instances, and prove
the main safety properties of each of them with TLAPS for every instance.

Paths below are those of the repository.

## 1. The system

| Component | State it keeps | Operations | Modelled in |
|---|---|---|---|
| df-pn search: `src/search/dfpn/{core,children,selection}.rs` | recursion frames (children, thresholds, numbers), path with its Bloom counts and context hash, `child_evals` | `dfpn`, `evaluate_all_children`, `evaluate_child`, `select_child_with_early_exit` | `DfpnSearch` |
| repetition cache: `repetition_cache.rs` | (position, context) of draws that hold through a repetition | `probe`, `store` with a capacity | `DfpnSearch` |
| restart driver: `run.rs`, `restart_schedule.rs` | chunk size, work of the round, termination | `bounded_search`, `search_depth`, `search_depth_with_prefix` | `DfpnSearch` |
| solve driver: `run.rs`, `pv.rs` | best line, first outcome, `pv_status`; budget of the stage, charged evaluations | the stages before the search; first search, refinement rounds, `extract_pv` | `Prephases`, `Solve` |
| win prover: `src/search/winprover/` | frames, a scratch table, the cap, proof events | front-end search for a win, proof simulation on siblings, the line and its validation | `WinProver` |
| preflight: `src/search/preflight/` | region of boards, values, distances, strategy | enumerate, two fixpoints, rank guard, replay of the strategy, line | `Preflight` |
| cheap probe: `cheap_probe.rs` | none of its own | a search with a small cap | `Prephases` |
| transposition table: `src/search/tt/` | buckets of four slots, generation | `probe`, `store`, `insert_new`, `new_generation`, `clear` | `TranspositionTable`, `LossyTable` |
| proof-tree worker: `src/proof_tree/worker.rs` | tree under construction, child index, memory flag; two channels | `process_event`, `reconcile_children`, `finalize_tree`, queries | `ProofTree` |
| proof-tree validator: `src/proof_tree/validate.rs` | none | `validate_proof_tree` | `ProofTree` |
| reconstruct: `src/reconstruct/`, `src/tt_snapshot/` | walk over a dumped table, hole-filling searches | `walk`, `fill`, finalize, validate | `Walker`, `Reconstruct` |
| campaign master: `examples/campaign_master.rs`, `examples/campaign/state.rs` | AND/OR table with locks, proof tree, cancelled and processed jobs, checkpoint, files | list, drain, verify, synthesize, sweep, dispatch, checkpoint, stop, finish, resume | `Campaign` |
| campaign worker: `examples/campaign_worker.rs` | the job it is at, its table | poll, claim, cancel check, run, report | `Campaign` |
| campaign verification: `examples/campaign/verify.rs` | trie of reported events | replay a result and accept or refuse it | accept or refuse, in `Campaign` |
| portfolio: `examples/portfolio.rs` | per racer: decisive line, budget, exit, kill; the winner | spawn, `on_line`, `on_exit`, kill, wall cap, record | `Portfolio` |
| proof database, storage: `examples/proofdb/{schema,db,verify}.rs` | tree rows, folded shards, scheduling tables; shard files and sidecars | the relations and what is committed together | `ProofStore`, `Readers` |
| proof database, fold: `examples/proofdb/merge/`, `sidecar.rs`, `manifest.rs` | tree restored from the rows, delta, one transaction | fold, skip, abort, import of the ledger | `PathTrees`, `Fold` |
| proof database, harvest: `examples/proofdb/{harvest,walk,session,ledger}` | frontier, keys read at the start, side sets of the session | visit, search, expand, or-close, complete, write shard and sidecar | `Harvest` |
| proof database, flip analysis: `examples/proofdb/flip/` | claims of a pass | fixpoint, verifier | `Readers` |
| endgame generator: `examples/egtb_gen3/` | table of a class, finished tables | sweeps in place, mirror test, comparison with solver and proof search | `EndgameTable` |
| chess rules: `position.rs` | board, clock, keys | outcome, change of the clock | `Games`, as far as the solvers see it |
| search heuristics, configuration, CLI, example tools | order of moves, options | | not modelled, section 7 |

How they interact. `solve` runs the win prover, the cheap probe and preflight
when they are enabled, each on the one budget, and calls `bounded_search`, which
calls `dfpn` chunk by chunk; the searches keep what they learn only in a
transposition table, which forgets. Another thread may set a stop flag, the
proof-tree worker a memory flag, and a deadline may pass: the search looks at
them between its steps. The search and the walk of a reconstruction send an
event for every position they prove to the proof-tree worker, over a channel;
the tree is asked for over a second one. Campaign master and workers are
processes that share only a session directory; every file appears and
disappears atomically. The race driver reads the pipes of its children through
threads that feed one channel. Harvest sessions write shards, each a binary and
a sidecar that commits it; folds read the shards and write the database in one
transaction; the readers see what is committed.

What is hard, and what makes each part correct:

* **Search.** The value of a node depends on the path (repetition is a draw),
  the table has no paths. A stop or a slice can cut the recursion between any
  two steps, and bounds of cut frames stay in the table. An entry proved under
  one depth bound is found under another. Correct: a stored or answered Win or
  Loss is true and is forced within the depth claimed; a decision is never
  overwritten; a cached draw is exact below its context; the budget, the
  slice and the round cap are crossed by at most one sweep of children; the
  search ends.
* **Table.** Eviction while the stack relies on entries, stale slots of older
  generations, a wrapping counter. Correct: at most one live copy of a key, a
  proof is given up last and never for bounds, an older generation is never
  seen.
* **Solve.** Rounds share one table and one repetition cache. Correct: the line
  behind a decisive answer reaches the end that the answer announces, a round
  that cannot succeed ends at its cap.
* **Stages before the search.** A replay carries the proof of one defence over
  to another, through a table without paths; the pre-phase looks at boards
  without clocks, relaxes distances in place and trusts a strategy only after
  replaying it; three stages swap one budget. Correct: the scratch table and
  each answer are true; the events of the front-end form a proof; the rank is the
  distance; the replay rejects any strategy that errs on one board; the budget
  is crossed by no more than one stage may cross it by.
* **Proof trees and reconstruction.** Two threads over two channels; a flag
  after which events are dropped; twins whose subtrees are copied; records that
  are missing, false, or of another clock. Correct: a tree that the validator
  passes proves its root, a walk that comes back has the true outcome, a complete walk
  gives a valid tree, every run ends.
* **Campaign.** A worker dies with a lock held; a job is cancelled while it
  runs; an answer arrives after the master was killed and resumed; the proof
  tree of the resumed master is new. Correct: no status is wrong, whatever a
  worker says; each status has its proof on disk; "proven" means a whole
  certificate; a leaf has one job; an answer frees its leaf; a campaign that
  holds all the proofs it needs ends.
* **Race.** Lines and exits arrive in any order; a racer is killed between two
  of its lines. Correct: a record says what the racer printed, a cut search never passes for
  a proof, the winner runs on alone, the race ends.
* **Proof database.** A crash between two files, in a file, in a transaction;
  folds over shards that others folded partly; a session that has read its keys
  once and proves more while it walks. Correct: the committed tree is the fold of
  its shards and keeps its contract; nothing is ever taken back; a sidecar means
  a whole binary; no visit is spent on what is settled; the verifier accepts
  exactly what proves its rows; the flip claims are true; every session ends.
* **Endgame tables.** A sweep reads the table it writes; the number of a pass is
  kept as a distance; the solver it is compared with may run out of time. Correct: no value ever written is wrong, the order of the cells does not
  matter, a right table raises no alarm, the generator ends.

## 2. Modules and how they correspond to the code

### The search and its table

**`LossyTable`** is the abstract specification of the transposition table: a
partial map from positions to entries. A store may evict the entry of one other
position, merges with what is there as `TranspositionTable::store` does (bounds
never replace a solved entry; numbers saturate at `Inf`; degenerate bounds are
normalised), and nothing else changes. `Ways` is how many entries can be held before
a store may evict.

**`TranspositionTable`** is the table of `tt/table.rs` itself: buckets of slots with
a generation, the victim rule of `insert_new`, the wrap of the generation
counter. `IsLossyMap` is its refinement of `LossyTable`, the table the search
model uses.

**`DfpnSearch`** is the search. The Rust call stack is the sequence `stack`; a
call whose frame is not pushed yet is `call`. `pc` says where the code is:

| `pc` | code | actions |
|---|---|---|
| `"chunk"` | head of the loop of `bounded_search` | `ChunkCut`, `ChunkCapped`, `ChunkStart` |
| `"enter"` | entry of `dfpn`, in the order of the code | `EnterLate`, `EnterTerminal`, `EnterHorizon`, `EnterRepetition`, `EnterResolved`, `EnterCachedDraw`, `EnterFrame` |
| `"loop"` | head of the loop of a frame | `CutFrame`, `Sweep` (first time), `Reevaluate` (after a child returned) |
| `"select"` | after the evaluation | `Conclude` (decided by the children), `GiveUp` (threshold, no candidate, slice), `Descend` |
| `"returned"` | the root call returned | `ChunkDecisive`, `ChunkExhausted`, `ChunkNext` |
| `"done"` | `bounded_search` returned | |

`Timeout` sets `late`, which stands for the stop flag, the memory flag and the
deadline, at any moment. A position is a board with its rule-50 clock, because
the table is keyed by the one and the path by the other (`Board`). A move is
the position it leads to. Where the code follows the move order, the model
follows any order: which losing child ends a sweep, which of equal children is
selected, which entry a store evicts.

**`Solve`** extends it with `solve_general`: the first search, the rounds with the
bound two plies below the best line, their caps, the PV read from the table,
and `pv_status`.

### The stages before the search

**`WinProver`** is the front-end (`search/winprover/`). `frames` is its call stack,
`step` the place in the code between two looks at the cap and the clock; its
scratch table is a `LossyTable` of its own. `trial` is the replay of a proof on a
sibling (`simulation.rs`): `trial.calls` is the stack of `simulate_attacker` and
`simulate_defender`, which call each other in turn, the attacker at odd places.
`ReplayStart` takes the next sibling (`ReplaysDone` when there is none); `CallKnown` and `CallFails`
are the ways a call ends at once, `AttackFollow`, `AttackMate` and `AttackLost` the attacker's move,
`Defend` the defender's list of replies, `ReplyFails`, `ReplyEnds` and `ReplyOpen` one reply; the answers travel back
through the stack, and `ReplayWon` stores the sibling. A replay stores nothing before it has succeeded; what it
has charged and reported before it breaks off stays. `Extract` is `extract_pv` with
`validate_win`.

**`Preflight`** is `search/preflight/`: `Expand` numbers one node of the region,
`SweepValues` and `SweepDistances` are one sweep of the two fixpoints, `Judge` the
verdict with the rank guard, `Verify` the replay of the strategy (one action, since nothing is
stored and only the stop flag is looked at in it), `Ply` one ply of `principal_line` and `line_to_moves`
together, `Conclude` the check of the line.

**`Prephases`** is the part of `solve_with_progress` around them: which stage runs,
what each is charged, what it leaves of the budget, when its answer ends the
run. The cheap probe and the main search answer the truth, or `Draw` when cut.

**`Eager`** holds two helpers that make TLC evaluate an argument once; **`Games`** the
games that the instances play, with the truth and the distances computed
from the terminal positions.

### Proof trees and reconstruction

**`ProofTree`** is the proof-tree worker: the arena `nodes`, the two channels, `Receive`,
`Timeout` and `BackToEvents` for its two loops, `Finalized` for `finalize_tree` with the
twins, and the validator as the operator `Defects`.

**`Walker`** is `visit` of `reconstruct/walker.rs`: a call that has resolved its node is a
frame; `VisitHit`, `VisitHole`, `VisitFailure` are the outcomes of `classify_node`, the
`Fill` actions the searches of a hole with their doubled bound, `Descend` and
`Leave` the recursion. **`Reconstruct`** composes the two: the walk sends events, the caller
finalizes, asks for the tree and validates it, while the worker thread runs.

### Processes

**`Campaign`** is master, workers and session directory. The master's pass is
`List`, `Drain` (one result at a time: `DropCancelled`, `MergeDecisive`,
`RejectDecisive`, `MergeDraw`, `MergeError`), `LeaveDecided` or `SweepLocks`, `Dispatch` or
`SkipWorker` for each worker in turn, `EndPass`; `WriteStop` and `Finish` end it.
`KillMaster` loses its memory, `Resume` begins a session from the checkpoint.
A worker takes `Claim`, `Report` or `Die`. The sticky flags `resolved` and
`refuted` of `Child::refresh` are functions of the statuses here, because a
leaf never leaves Won or Lost.

**`Portfolio`** is the race: a racer searches, prints its lines into two pipes, exits or
crashes; the driver takes the next line of any pipe or any exit in any order,
which is all that reader threads, watcher threads and one channel amount to.
`Record` is the line printed for a racer.

### The proof database

**`PathTrees`** has the trees of move paths, what a shard may hold, and the pure
functions over them: overlay, contradiction, bounds, depth status, skeleton.
**`ProofStore`** is the durable layer, `bins`, `sides` and `db`; `db` changes only in a
commit. **`Fold`** is one invocation of `proofdb_merge`: `BeginFold`, `FoldManifest` and
`FoldShard` for each shard (`SkipMerged`, `SkipOrphan`), `FinishFold` with the checks that
make it abort, `CrashFold` at any step. **`Harvest`** is one session of
`proofdb_harvest`: `StartSession` reads the keys, `Iterate` takes the first of the order,
`EndSearch` has the ways a visit ends, `WriteShardBin` and `WriteShardSidecar` the two
files, `Expand`, `Complete` and the or-close the bookkeeping, `CrashSession` at any step. **`Readers`**
has `VerifyDb` and the flip analysis (`Pass`, `Passes`, `Verified`) as operators on rows.
**`ProofCycle`** composes them: sessions and folds one at a time in any order, a
committed binary truncated by someone else, folded shards deleted.

### Endgame tables

**`EndgameTable`** is `egtb_gen3`: `SweepCell` writes one cell in place, `PassEnd` begins
another pass or ends the sweep, `Settle` is the mirror test, `TakeSample` and
`CompareSample` the comparison with the solver and its second attempt, `ProveSamples`
the comparison with the proof search.

`MCDfpn`, `MCSolve`, `MCTable`, `MCCampaign`, `MCReconstruct`, `MCProofCycle`, `MCPrephases` and
`MCEndgame` hold the instances (`Portfolio` needs none); the modules whose names end in
`Proofs` hold the theorems: `SolveProofs` about the search and its driver, `PrephasesProofs` about the
stages before it, `TableProofs`, `CampaignProofs`, `WalkerProofs` (the walk, alone and in `Reconstruct`),
`PortfolioProofs`, `EndgameProofs`, `ProofCycleProofs` (the proof database).

## 3. What the runs check

`Games` has small games, each a graph of boards with the rule-50 clock run to its
limit; `Truth` and `Dist`, the value of every position and the plies it takes,
are computed by iteration from the terminal positions and serve as the
reference that searches, walks, trees and tables are compared with.

| Run | Instance | Shows |
|---|---|---|
| `dfpn_weave` | `weave`: 18 boards, wins and losses in one to five plies around cycles, terminal boards, moves that reset the clock; five roots, one terminal and one on the prefix; bounds 0 to 3 and none; table of four; slices from 2 doubling; a round cap of 12 or none; budget 30 | `DecisiveSound`, `AnswerWithinBound`, `WellFormed`, `WorkBounded`, `Terminates` |
| `solve` | `narrow`: a narrow win in seven that is found first and a wide one in three; rounds capped at twice the first | `PvComplete`, `RoundOvershoot`, `CachedDrawExact`, `DecisivePermanent`, `SolveTerminates` |
| `table` | four keys in a bucket of three, two generations before the counter wraps | `UniqueLive`, `ProofsOutlive`, `IsLossyMap` |
| `prephases` | `parry`, 52 boards, seven roots of which some are near the clock's limit or repeat; front-end and pre-phase on, or the pre-phase alone; budgets 72 and 200, replays of seven; both orders of the moves; deadline or stop flag at any step | `ProverSound`, `AnswerTrue`, `PreflightExact`, `BudgetKept`, `PrephasesEnd` |
| `reconstruct` | `meet`: four root boards, a faithful snapshot, six with records lost, false ones; node budgets of two and 100; fills with bounds 2 to 5 | `RunSound`, `FaithfulWalks`, `CompleteWalkValid`, `RunEnds` |
| `campaign` | one root move with two replies, two workers, two sessions, stragglers, one death, one false proof or error | `StatusSound`, `StatusBacked`, `CertificateComplete`, `FirstOneInFlight` |
| `campaign_ends` | the same without faults | `AnswersReleaseLocks`, `DecidedStops` |
| `portfolio` | two racers, one of them salt 0; a budget; one crash and one failed spawn | `RecordsTrue`, `OneWinner`, `RaceEnds` |
| `proofdb` | a root with a won, a lost and a drawn move; a legacy manifest and ledger; three shards at a time; one truncated binary | `StoreSound`, `VerifierExact`, `FlipsSound`, `NoWastedVisit`, `AppendOnly`, `WalkAdvances` |
| `endgame` | eight cells, a white block of four and its mirror image: every game in which two cells have one or two moves each, the third one of four lists with draws, wins and losses at once, the fourth an end or no board; a pawn class that promotes into it; both classes, or the pawns alone; a pass counter of two | `TableTrue`, `NoFalseAlarm`, `GeneratorEnds` |
| `dfpn_twin`, `proofdb_upgrade` | | the disagreements of section 6 |

Several of the properties are conjunctions of named parts, where the parts say
one thing of one state together: `RunSound` is `WalkSafe` (the walk), `TypeOK` and
`ValidTreeProves` (the validator accepts only proofs), `StoreSound` is
`StandingIsFoldOfShards`, `StoreContract` and `SidecarCommits`, and so on. The type
invariant of a module is a part of one of them, and of `Campaign` a theorem.

Bounds, and why they are enough for what is asked:

* A game is small but has what the code distinguishes: transpositions, cycles
  through the root and through a prefix, a terminal board of each outcome, an
  expired clock, wins of different depth below one node, losing and drawn
  children side by side. The clock makes every graph of positions finite, as in
  the game.
* `Ways` is below the number of positions of `weave`, so evictions happen all the
  time; `FirstSlice` is below the work of a subtree, so frames are cut and
  re-entered; `Budget` and `Timeout` cut at every step. `Solve` has no evictions,
  since `PvComplete` is only true without them (the code then falls back on
  re-proving); `SliceMax` and `PlyMax` stand for `u64::MAX` and `u32::MAX` and are
  larger than any work or depth of the instance.
* The table's key, work and entry sets have one of each kind the code compares:
  a proof, bounds, degenerate bounds; cheap and dear work. Buckets do not
  affect each other, so one bucket is enough.
* `RegionBudget`, `FrontBudget`, `ProbeCap` and `SimulationBudget` are smaller than
  what some of the roots need and larger than what others need, so each cap
  fires and each stage also gets through; `ClockLimit` lies among the ranks of the
  claims. The probe spends one evaluation, its cap, or its cap and a sweep. `BudgetKept` allows for `Overshoot`,
  what a replay may scan and what every active call evaluates once more on its way out.
* A node budget of two drops all but the first events of a tree, one of 100
  none. The records that are lost leave holes at the root, below it, and at
  both ends of a transposition; with fills from 2 to 5 a bound is doubled and a
  hole may stay unfilled.
* Two workers, two sessions and one fault are the least with which an answer of
  an earlier session meets a job of the present one. `MaxSessions`, `MaxJobs`,
  `MaxDeaths` and `MaxFaults` bound only how often the environment acts.
* Two racers are the least with which one is killed for the other, and one of them
  has the salt that the wall cap treats differently.
* `MaxShards` is the number of shards on the disk; deleting those that are folded
  makes room, so more than three are folded in one behaviour. `Bases` is the
  work a visit must reach; one base keeps the schedule short.
* `PassCap` stands for the 255 of the byte and is reached; `Plies` is longer than
  any win of the instance, `ProveDepth` shorter than some.

## 4. Fairness

`FairSpec` of the search and `SolveSpec` assume weak fairness of the search steps: one
thread that never blocks. Nothing is assumed of `Timeout`. The same holds of
`Prephases` and of `EndgameTable`, sequential programs: weak fairness of their steps, none of
`Hurry`. `FairRunSpec` of `Reconstruct` assumes
weak fairness of the caller, where a fill is not kept from ending by its budget
alone, and that the worker thread goes on until the run has ended. `CampaignSpec` assumes
weak fairness of the master's steps only, a loop with a sleep; nothing of the
workers, which may never run, of the clock, nor of anyone resuming a campaign.
`DecidedStops` and `AnswersReleaseLocks` are stated for what the master alone can bring
about. `Portfolio` assumes that the driver and its reader threads run, that the wall
cap comes, and that a racer stops at its own timeout and prints its lines; the
arrival of lines and exits is under strong fairness, because a receive that
times out disables them for the moment. `ProofCycle` assumes that a session and a
fold that were started go on; nothing of anybody starting one.

## 5. What is proved

TLAPS checks these for all values of the constants that satisfy the stated
assumptions: any game, any table size and eviction, any slices, budget and
bounds; any number of root moves, replies, workers, sessions, jobs, deaths and
faults.

`SolveProofs`, in its first part over `PositionAssumption`, `NumberAssumption` and `TruthAssumption`. The last says only that `Truth` and `Dist` are closed under the
rules of the game, so the theorems hold for every such labelling.

* `TypeCorrect` (`TypeOK`), `DecisiveEntriesSound` (`DecisiveSound`), `AnswerSound`
  (`AnswerWithinBound`), `OutcomelessSound` (`OutcomelessNonTerminal`), `PathSimple`
  (`PathDistinct`), all from `InvAlways`; `WellFormedAlways` (`WellFormed`) from three of them.
* The inductive invariant. That every stored claim is true is not inductive: a
  frame holds copies of its children's claims, made before other frames stored
  and evicted, and the returned outcome is a third copy. The invariant therefore says of every child
  of every frame on the stack, open ones included, that its claim holds, that
  outcomes and numbers of one child agree, that an unevaluated child has no outcome, of the pending
  call that it continues the path, and of the returned outcome that it is true
  within the depth of the call that returned it. Each action then has to show
  the claims it writes from those it read.

`CampaignProofs`, over `CampaignAssumption`: `InvAlways`, `TypeCorrect`, `StatusesSound`,
`StatusesBacked`, `CertificatesComplete`. The invariant adds to the properties:
where the program is (`Control`); that ids given out are unique, in one place
and agree with the locks (`IdsOK`), so that a result located by its lock is a
result for that leaf; that results that replay are true; and the ledger that
connects `synthesized`, the tree and the checkpoint, from which a resumed
campaign's certificate follows.

`WalkerProofs`, over `WalkAssumption` and `TruthAssumption` of `Walker`: any game, any snapshots and
any records a search may leave, true or not; any caps; any length of run.

* `WalkAlwaysSafe`: the walk comes back with a true outcome or fails with another kind than
  `repetition` (`WalkSafe`). `RunImplementsWalk`: every run of `Reconstruct` is a run of `Walker`, whose
  `Worker` step leaves the walk alone, so that `RunAlwaysSafe` carries `WalkSafe` over to the
  composition that the run checks.
* The invariant `WalkInv`. No frame's claim is known to be true while it is walked; what holds is `Justified`:
  a Loss follows once the replies still to do and the one being walked are shown, a Win has
  its reply to do, in hand or shown. That outcomes alternate along the path carries a
  returned claim to the frame above, and that the board of every frame has a record
  leaves no visit that repeats a board without one.

* `FaithfulAlwaysWalks` and `RunFaithfullyWalks` (`FaithfulWalks`), with `LossAssumption` (a reply to
  a lost position wins). `FaithInv` says that every frame claims the truth and so will the replies it has
  to do; a visit below the root is then expected to be what it is, which leaves no anomaly and no hole.
* `RunAlwaysSound` (`RunSound`), with `DistAssumption`: a tree that passes the validator has a true
  outcome at its root and a depth no shorter than the fastest forced end, although the walk that
  built it may have followed false records, the memory limit may have dropped any of its events and
  subtrees are copied from twins. The invariant `RunInv` follows the data through the threads:
  - `WalkRun`: every event sent is about the position its path ends in, and its path leads through positions that go on;
  - `ArenaOK`: a claimed node is about the position its move leads to, and only an open position has children;
    every event keeps it (`find_or_create_node`, `apply_event`, `reconcile_children`);
  - the finalized tree is `TreeOK`. Among the twins there is a best one and it says what the node says (`CanonicalIs`), so that
    a path of the tree still leads where its moves lead; depths computed from the leaves are unique (`HeightsUnique`);
  - in a tree that passes, every path is one the validator replayed (`AllReplayed`), and each node holds if its children do (`NodeHolds`).

`TableProofs`, over `TableAssumption`: any keys, indexing, bucket size and number of
generations. `UniqueLiveAlways`, `ProofsAlwaysOutlive`, `ImplementsLossyMap` (`IsLossyMap`: `store` writes one key, evicts
at most one other and never a proof for a bound, a new generation hides everything). `TableInv`: a used
slot lies in the bucket of its key, its generation is not one to come (the
counter wraps only together with a `clear`), and no key is live twice. Stores are
first shown to be `WriteSlots`, one write to a slot that holds the key, is stale, or is the
cheapest; everything else follows from that.

`PortfolioProofs`, over the assumptions of `Portfolio`: any number of racers. `RecordsAlwaysTrue`, `OneWinnerAlways`.
`RaceInv` gives for each racer what it has printed, what travels through its two pipes and the
channel and what the tracker has heard, as one sequence of lines in order; a record is then read off the
part that was heard. Its part `Won` says that the winner is the first heard to be decisive.

`SolveProofs`, in its second part over the assumptions of `DfpnSearch` and `Solve`, among them that `Pos` is finite, that
`Budget` is at most `SliceMax` (the largest `u64`) and `MaxPly` at most `PlyMax`.

* `WorkAlwaysBounded` (`WorkBounded`), `RoundsAlwaysBounded` (`RoundOvershoot`). Each frame sees the counter only
  when its loop comes round. `PaceInv`: a frame's slice ends no later than that of the frame below, the
  bottom one no later than the chunk and the cap of the round, and the counter is at most one sweep past
  the end of the slice of the top frame, so of all of them.
* `SolveAlwaysSound`, `VerdictStays`: a round starts on what the earlier rounds left, so `SolveInv` is `PaceInv`
  with the verdict, and every start of a round has to establish the invariant of the search anew from the table it
  finds; and the verdict, once decisive, is never turned round.

`EndgameProofs`, over `TableAssumption` and `GameAssumption` of `EndgameTable`: any game whose moves stay in its
classes and whose rules know no colours, and `Plies` large enough that one more ply forces nothing
more. `TablesAlwaysTrue` (`TableTrue`), `BuiltAlwaysRight`, `NeverAlarmed` (`NoFalseAlarm`).

* About the proof search alone: what is forced in some plies stays so in more, and mirrored boards are
  forced alike, both by induction on the plies.
* `EndgameInv`: a decided cell is true and a cell decided in a pass was open in all earlier ones;
  a cell still unknown is open after as many plies as passes have swept it, and
  while nothing changed, every cell already swept would be decided no better now. At the end of a pass
  without a change the unknown cells form a set from which nobody can force anything
  (`StuckIsDrawn`), which is what makes the draws of a table right.
* The sweep works in place, so that a pass may see what it has itself decided: the pass of a cell is
  at most its distance, and may be less. The invariant states what survives that.

`ProofCycleProofs`, over `ReplyTree`, `StoreAssumption` and `HarvestAssumption`: any finite tree of moves, any
manifest, older shards and ledger, any scopes and bases, any number of folds, sessions, crashes and
truncated binaries. `StoreAlwaysSound` (`StoreSound`), `OnlyAppends` (`AppendOnly`), `VerifierAlwaysExact`
(`VerifierExact`), `NoVisitWasted` (`NoWastedVisit`), `FlipsAlwaysSound` (`FlipsSound`), and `EveryVisitPays`, the part of
`WalkAdvances` that speaks of single steps: all safety properties that the run `proofdb` checks.

* The invariant `StoreInv`. That the rows are one fold of all shards is not inductive: a fold begins from the rows
  that an earlier one committed and adds shards to them in memory, one by one. `FilesInv` says what a binary and a sidecar may hold at any moment, crashes included;
  `DbTree` that the rows are the overlay of the shards and carry the bounds of that overlay; `FoldTree` that
  the tree in memory is the overlay of the shards of the database and those folded so far. `BoundsAre` is the
  equation that the bounds solve, from which the contract follows by induction from the leaves.
* `AppendOnly`: more shards give a larger overlay and bounds that are no larger (`OnlyAppends` needs `StoreInv`,
  which says that what is replaced was such a fold).
* `VerifierExact`: what the verifier accepts is true by induction on the length of the paths, from the leaves
  (`AcceptedIsTrue`). It holds for trees in which a row called lost on a board without moves either has the bound 0
  or is lost. The code looks at the end of the game of such a leaf only when its bound is 0
  (`proofdb/verify.rs`), so that a drawn end, called lost with a positive bound,
  would pass; two fields must change to make one of a committed row, and the property changes one.
* `WalkInv` (for `NoWastedVisit`): candidates lie within the scope and never at or under what is settled; what
  the session has won is complete; a node closed by a lost child has no candidate at or under it; and
  the same of the key of a visit under way. TLC checked it on the run's instance and a deeper one before it was proved. Without
  its exceptions the property is false, in one case only in games deeper than that of the run (section 6, `NoWorkUnderWon`).
* `PayInv` (for `EveryVisitPays`): what is complete is no candidate, and is won by a child or has its base spent; an anchor
  with its base spent stays a candidate until it is settled or complete; a visit under way is to a node with base
  left. A node's work only grows within a session, and it is visited at most as often as its base has
  evaluations. It uses that a base is not 0, for which `run_walk_session` puts the standing one.
* `FlipsSound`: a pass is monotone, a claim changes in at most as many passes as open rows lie at and under it,
  so the passes end before the ceiling, eight more than the open rows; a fixpoint passes the
  recursive reading, and what passes is true.

`PrephasesProofs`, over `MovesAssumption`, `NumbersAssumption`, `RegionAssumption`, `StagesAssumption`, `RulesAssumption` and
`BoardsAssumption`: any game whose truth and distances follow its rules and whose boards end with the clock or
by themselves; any budgets, caps and limits; any loss of entries of the scratch table; the deadline or the stop flag
at any step. `ProverIsSound` (`ProverSound`), `AnswersAreTrue` (`AnswerTrue`), `PreflightIsExact` (`PreflightExact`), `BudgetIsKept`
(`BudgetKept`): all safety properties that the run `prephases` checks. `StagesInv` has these parts.

* `ProverInv`. That the table is true is not inductive, since a frame and a replay hold what they read earlier. The
  invariant speaks of the events instead, which are never taken back: every event is true and borne out by
  others (`Grounded`), and neither the table, nor a frame, nor a call of a replay knows anything that has not been reported. A
  replay follows the guide's moves in another position, where they prove nothing by themselves; what holds of it is
  that a defender's replies that are no longer to do have been reported won, and that the depths it returns belong to
  positions it has reported.
* `SpentOK`. The cap is looked at before a frame is swept, but not on the way out. So beyond the cap each active call can still
  pay for one evaluation (`Affords`), and active calls have different boards, which bounds them by `Depth`; a
  replay below the cap can pay for as many scans as it has budget left (`Paid`).
* `RegionInv`. While nodes are added, boards are distinct and the children of an expanded node are its moves
  (`RegionShape`). During the sweeps, a value is borne out by the children (`Borne`), and one that is still
  open is not settled when a sweep ends without a change; then every won node has a child that is lost and one
  ply nearer, for otherwise the distances would go on changing. The values of boards are those of positions only
  within the clock: a claim of `InTime` is carried along the moves by induction on the distance, the clock growing by at most one with
  each (`RegionExact`), which is the argument for the rank guard. Along the strategy distances fall, so that no board repeats and the replay accepts it
  (`CertificateHolds`); one that gives the win away reaches a node that is not lost and is refused (`VerifierStrict`).
* `ShareOK` says what each stage has left of the budget to the next, and joins the two.
* The replay of the strategy is a function of the lines played, an infinite domain. Lines longer than the
  distance are refused, so the equation has a solution (`WalkIs`), which is what the rest of the proof uses.

A recursive function's equation is proved where it is needed (`Lines`, `Forced`, `Bounds`, `Passes`, `Walks`) from the existence of
its restrictions; `Counting`, in `EndgameProofs` and `ProofCycleProofs`, is the induction for it, over a set.

Only model-checked, and why:

* The liveness properties, `PrephasesEnd` among them and the rest of `WalkAdvances`, and `CachedDrawExact`, whose reference definition is `RECURSIVE`.
* `PvComplete`: it holds where the table does not evict, and rests on an order of the best moves that
  several searches wrote; the invariant for that order is not worked out.
* `CompleteWalkValid`: the other direction, that a whole walk gives a tree without defects. It needs to say of a
  node not yet reached what its finished subtree will be, for every twin that may stand for it, and that
  no position comes back along a walk; that invariant is not worked out.
* `DecisivePermanent`, which no argument from the code supports for every game: a stored Draw need
  not be true (section 6), and where one is found after a win it would replace it. The games here have no
  such case.

## 6. Where code and documents disagree

Two of them are runs that end in a violation:

* `dfpn_twin`: a draw that rests on one repeating child and one real draw is
  stored as a path-independent draw (`selection.rs:128` takes the repetition flag
  of the selected child alone), although another path wins.
* `proofdb_upgrade`: a row that a fold inserted as an open ancestor and that a
  later shard proves makes `write_fold_delta` (`fold.rs:561`) abort the whole
  fold as a "corrupted standing layer", though `docs/plans/proofdb/plan22.md:126` says such rows are
  updated.

The others are properties of the modules that no run lists; each is refuted by
TLC when it is put into the configuration named, alone:

* `ExhaustedUndecided` (`MCDfpn`). `bounded_search` reports `Exhausted` ("fully explored with
  no decisive line", `mod.rs:142`) for a bounded tree that holds a decisive line. A child
  given a threshold no larger than its own stored bound returns unchanged, is
  marked explored (`core.rs:314`), and when no candidate is left the frame exits
  with its slice unspent. `PvStatus::ProvenShortest` (`run.rs:297`) rests on that report.
  `DfpnWeave.cfg` with `SPECIFICATION Spec`, `Game = "stall"`, `RootBoards = {1}`, `Prefix = {}`,
  `Bounds = {5, 100}`, `FirstSlice = 1000`, `RoundCaps = {100000}`, `Budget = 2000`, `Ways = 40`.
* `OneInFlight` (`Campaign`). An answer of an earlier session clears the lock of the
  present session's job on the same leaf (`state.rs:734`), so the leaf has two jobs,
  where `campaign_master.rs:12` promises "one in-flight job per leaf".
  `Campaign.cfg` with `MaxJobs = 3`, `MaxDeaths = 0`, `MaxFaults = 0`.
* `LostJobReleased` (`Campaign`). No lock can be older than the wall cap while the session
  goes on, so the release of stale locks (`state.rs:841`, "Release stale locks first
  (worker death)") never helps it. `Campaign.cfg` with the property, `N = 1`, `MaxSessions = 1`,
  `MaxFaults = 0`.
* `TimeoutUnproved` (`Campaign`). A root move that ends the game at once does not end the
  campaign (`state.rs:824`), which runs to the wall cap and reports no outcome;
  `state.rs:588` says "stop on proof / refutation / wall cap". `Campaign.cfg` with
  `TwoMoves`, `OneReply` and the definitions `MateParent`, `MateTerminal`, `MateStart`, `MateValue`,
  `MaxSessions = 1`, `MaxJobs = 1`, no deaths or faults.
* `NoUnexpandedNode` (`Reconstruct`). `finalize_tree` promises to fail on "an unexpanded internal
  node" (`worker.rs:412`), but recomputes the depths first, and a node without
  children gets depth 0 whatever it is (`worker.rs:514`), so the check at
  `worker.rs:527` never fires. The memory flag that rises while the last events are
  drained gives such a tree, returned without an error (`walker.rs:109`); only the validator's
  defects show it. `Reconstruct.cfg` with `SPECIFICATION RunSpec`, `RootBoards = {1}`, `LostSets = {{}}`, `Lying = FALSE`.
* `ExactFlips` (`ProofCycle`). A win bound is called exact when the lost replies of least
  bound are (`flip/fixpoint.rs:126`), though another one, whose bound is larger and
  not exact, may be shorter; `flip/mod.rs:109` says "Every contributing child bound is proven
  minimal". `ProofCycle.cfg` with `FlipReplies`, `FlipEnded`, `FlipManifest`, `FlipShards`, `MaxFaults = 0`, `MaxShards = 2`.
* `NoWorkUnderWon` (`ProofCycle`). `walk.rs` or-closes a node only if it was not complete
  before, so a parent completed earlier is not closed by a child proved lost in
  the session and its other children are visited; `docs/plans/proofdb/plan21.md:179` (G2) says "no further visit happens at-or-under the parent".
  `ProofCycle.cfg` with `Bases = {1, 2}`.
  There is a second way to it, which no instance of the run reaches: `is_handled` (`keys.rs:126`) looks at rows, shards,
  draws and the ledger, and not at the nodes that the session has or-closed. Where a session scoped at a path
  of odd length r left a record of r alone, a later one over the whole tree may visit r first, prove
  it lost, or-close its parent, and then come to that parent when it expands the grandparent, though
  `walk.rs:417` calls this "unreachable today". `NoWastedVisit` states both exceptions: a
  node won in the session is visited at most as a child of an expansion, never as a candidate of the
  order, and nothing below it is. `ProofCycle.cfg` with a tree of one line of five plies that is lost at its end,
  `Scopes` of `<<>>` and `<<1, 1, 1>>`, `Bases = {1, 2}`, no manifest and no ledger, `MaxFaults = 0`, `MaxShards = 2`.
* `UndecidedHasWork` (`ProofCycle`). `walk.rs:138` (D6): "on any undecided layer it always has work, so session caps are the
  binder — an uncapped session on an undecided layer does not terminate"; `docs/proofdb_pipeline.md:740` says the same. The walk
  has work while a candidate has base left or a child that is not handled. A node whose children are all handled is
  completed whether or not it is decided, and nothing looks at it again when its children are proved. So where a scope
  holds finitely many lines the walk comes to the end of them and reports `exhausted` with its anchor undecided: here the
  visit of the anchor is censored, its only reply is proved won, and the anchor is completed, without row or shard. In the game, too, every line ends, at the latest by repetition or the 50-move rule, but there are far more of them
  than a session has visits; what D6 says is true of the size of the tree and not of the loop. `WalkAdvances` therefore
  says of a tree of any size what the loop does between visits, and that it ends by itself only of the finite one of the run.
  `ProofCycle.cfg` with this invariant and no properties.
* `UncensoredDrawProven` (`Portfolio`). The wall cap never kills salt 0 (`portfolio.rs:502`), which
  stops at its own timeout and prints "outcome: draw" and "timeout"; `on_line` ignores
  the second, and the record reads `outcome=draw censored=no`. `docs/plans/parallel/plan9.md:103` takes that for a
  "proven-draw". `Portfolio.cfg` with `Values = {"win"}`, no crashes, no failed spawns.
* `ProvedWinClaimed` (`Prephases`). A replay stores the sibling it proved and none of the
  positions below it (`simulation.rs:77`); `extract_pv` follows the table, stops where it
  is empty, `validate_win` drops the line, and a root proved a win is not claimed;
  `docs/plans/winprover/plan4.md:285` says a replay only adds to the chain. `Prephases.cfg` with this invariant and no properties.

Seen in the code, and modelled as it is:

* `README.md` describes two-slot buckets and twin entries, `tt/table.rs` has four
  slots and one entry for a key.
* The front-end stores a draw as an open entry with the numbers (1, 1) and ignores
  what the call returned (`winprover/search.rs:160`), so a frame whose best child is a draw selects it again
  until the cap ends the search.
* A replay crosses the front-end's cap "by at most its own budget" (`simulation.rs:22`),
  but it charges its own budget once per node and the cap once per move it
  scans, so it crosses by up to the number of moves as much. And beyond the cap every active call evaluates the
  child it returns from once more (`children.rs`), so that the stack, too, counts (`BudgetKept`).
* The attacker's test for a win in one where the guide is won as it stands (`simulation.rs:148`) never finds one: the
  defender has made the same test of the same position before it calls (`simulation.rs:252`). `AttackMate` keeps it.
* Preflight reports "cert-fail" also when the budget ran out in the line of the
  answer (`line_to_moves`), where no certificate failed.
* On a miss a walk adopts the Win or Loss of the same board under another clock,
  because "solved results are position-truth, clock-independent"
  (`docs/plans/proof/plan5.md:146`). They are not, near the 50-move rule. What keeps
  the walk sound is that it believes nothing that it has not walked down to the rules.
* The validator does not ask an inner node for its own outcome, so one drawn by
  the 50-move rule would pass (`validate.rs:260`); the walk never emits one.
* A censor that spent no evaluation is marked complete "instead of re-queued — the walk cannot livelock on it"
  (`docs/proofdb_pipeline.md:295`). The mark keeps the node out of the order, but `is_handled` (`keys.rs:126`) does not look
  at marks, so an expansion of its parent would pick the same child again. Since a repetition on the path is a
  complete draw, only a search that stops before its first evaluation can come to this.
* "The merger's closure owns that", says `walk.rs:101` of a parent that a decisive
  child decides; the fold has no such closure, a row is proved when a shard says so.
* `egtb_gen3 --material p` always panics, since a pawn needs the tables it
  promotes into (`main.rs:335`), though the usage offers it; the model has the action `Panic`.
* A solver that timed out answers Draw and so "confirms" a drawn cell; `max_dtm` is
  printed as plies and is a number of passes.

## 7. What is left out, and why

In the search: static tactics, quiet grouping, move-class numbers and the
evaluation scale, which are off by default; history and killers, which only
order moves; the sampling of the clock (a timeout may be seen at any step); hash
collisions (a key stands for one position, a context hash for one set); proof
events, which `Walker` sends in the orders of a walk only.

In the stages before the search: the static scorer (one of two orders of the
moves), the counters of reports, the paths of events, the limit of the region by the
search depth, the stop check of the preflight verifier every 4096 nodes. The
probe and the main search are answers here; `Prephases` and `Solve` are not composed.

In the reconstruction: file formats, the statistics query, the oracle of the
tests; the search that fills a hole, which may give any answer within its bound.

In the campaign: proof numbers, work and with
them the order of `select_leaf` (any selectable leaf may be chosen); depths; the
search within a job, whose answer is anything a search could say; the trie in which `verify.rs` replays
reported events; `--mode seq`; I/O
errors. A worker's look at STOP and at the cancel marker is one step with its
claim, for whatever happens in between could happen after it. Sessions have
different `--job-seed`s, as `campaign_master.rs` asks of resumed campaigns.

In the race: option parsing and printing; a racer is sound, and does not crash
between two lines of one write.

In the proof database: SQL text and migrations; censors without evaluations and the complete-mark they
leave, so that every censored visit adds to the work of its record, on which `WalkAdvances` rests; the search of a visit, which gives a true answer or none; moves are ordered by
number where the code orders UCI strings.

In the endgame tables: the cross-validation of edges, the 50-move rule, which the tables ignore,
and counts that are only printed. The rules of the game are any of a small class.

Not modelled at all: search heuristics (order of moves, left open); command line and configuration (no state
outlives a call); the moves of the game, a thin layer over an external crate, which
appear as the constants `Succ`, `Board`, `Static`; formats of snapshots, dumps and SQL; the one-shot example
tools.

## 8. Plan

1. Done: `LossyTable`, `DfpnSearch`, `Solve`, `TranspositionTable`, `Campaign` and the proofs
   of the search and the campaign.
2. Done: `ProofTree`, `Walker`, `Reconstruct`; `WinProver`, `Preflight`, `Prephases`; `Portfolio`; the
   proof database; `EndgameTable`.
3. Done: the proofs of the walk, the table, the race, the pacing of the search, the solve driver, the
   endgame tables, the proof database and the stages before the search. Open: `PvComplete`, `CompleteWalkValid`.
4. Models to come: the trie of `verify.rs`, refining the accept or refuse of `Campaign`; a live
   search as the sender of `ProofTree`; `Prephases` composed with `Solve`.
