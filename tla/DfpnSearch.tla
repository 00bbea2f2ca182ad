------------------------------ MODULE DfpnSearch ------------------------------
(***************************************************************************)
(* The depth-first proof-number search of src/src/search/dfpn: the         *)
(* recursive `dfpn` routine (core.rs) with its child evaluation            *)
(* (children.rs) and selection (selection.rs), the per-search repetition   *)
(* cache, and the work-chunked driver `bounded_search` (run.rs).  The      *)
(* transposition table is the one of LossyTable.                           *)
(*                                                                         *)
(* The Rust call stack is the sequence `stack` of frames; a call that has  *)
(* not yet pushed its frame is the record `call`.  One action is one       *)
(* stretch of code between two reads of the clock and the stop flag.       *)
(*                                                                         *)
(* Positions are abstract.  A position is (board, rule-50 clock): the      *)
(* transposition table is keyed by positions, the repetition path by       *)
(* boards.  A move is identified with the position it leads to.            *)
(***************************************************************************)
EXTENDS LossyTable, Integers, Sequences, FiniteSets, FiniteSetsExt

CONSTANTS
    Roots,        \* the positions to solve
    Succ,         \* Succ[p]: positions after one legal move from p
    Board,        \* Board[p]: the repetition key, the board without the clock
    Static,       \* Static[p]: the outcome of a terminal p, or NoOutcome
    Expired,      \* positions whose rule-50 clock has run out
    Prefix,       \* boards played before Root (search_depth_with_prefix)
    Bounds,       \* max_depth of the bounded searches, in plies
    PlyMax,       \* u32::MAX, remaining_depth of an entry that is not bounded
    SliceMax,     \* u64::MAX, a slice or a cap that never binds
    EpsNum, EpsDen,     \* the threshold factor 1 + epsilon, as a fraction
    FirstSlice, Growth, Cutoff,   \* the restart schedule
    RoundCaps,    \* round_work_cap of the rounds
    Budget,       \* child_eval_budget
    CacheCap      \* capacity of the repetition cache

Decisive == {"Win", "Loss"}

(* What the rules of the game give: closed under moves, terminals have no  *)
(* moves to search, an expired clock ends the game.                        *)
ASSUME PositionAssumption ==
    /\ IsFiniteSet(Pos) /\ Roots \subseteq Pos
    /\ Succ \in [Pos -> SUBSET Pos]
    /\ Static \in [Pos -> Outcomes \cup {NoOutcome}]
    /\ Expired \subseteq Pos
    /\ \A p \in Expired : Static[p] # NoOutcome
    /\ \A p \in Pos : Static[p] = NoOutcome => Succ[p] # {}
    /\ DOMAIN Board = Pos
    /\ NoMove \notin Pos

ASSUME NumberAssumption ==
    /\ Inf \in Nat /\ Inf > 1
    /\ PlyMax \in Nat /\ Bounds \subseteq 0 .. PlyMax
    /\ SliceMax \in Nat /\ FirstSlice \in 1 .. SliceMax
    /\ Growth \in Nat \ {0} /\ Cutoff \in Nat
    /\ RoundCaps \subseteq Nat /\ Budget \in 0 .. SliceMax /\ CacheCap \in Nat /\ Ways \in Nat \ {0}
    /\ EpsNum \in Nat /\ EpsDen \in Nat \ {0}

VARIABLES
    repCache,   \* repetition cache: <<position, boards above it>>
    stack,      \* active dfpn frames, the root's first
    call,       \* arguments of the dfpn call being entered
    pc,         \* where the search is
    evals,      \* child_evals
    late,       \* the stop flag, the memory flag or the deadline has fired
    round,      \* locals of bounded_search
    result,     \* outcome of the last dfpn call that returned
    ended       \* RoundTermination, or "running"

vars == <<tt, repCache, stack, call, pc, evals, late, round, result, ended>>

-----------------------------------------------------------------------------
(* Numbers *)

Lesser(a, b) == IF a <= b THEN a ELSE b
Minus(a, b) == IF a >= b THEN a - b ELSE 0          \* saturating_sub
AtLeastOne(n) == IF n >= 1 THEN n ELSE 1

(* epsilon_ceil: the next threshold, at least one above the second child's *)
EpsCeil(n) ==
    LET scaled == (n * EpsNum + EpsDen - 1) \div EpsDen
    IN  IF n >= Inf THEN Inf ELSE Capped(IF scaled > n THEN scaled ELSE n + 1)

(* pn_dn_for: proof and disproof number of a decided position; an OR node  *)
(* is proved by Win, an AND node by Loss                                   *)
Proved(o, isOr) == o = (IF isOr THEN "Win" ELSE "Loss")
PnOf(o, isOr) == IF Proved(o, isOr) THEN 0 ELSE Inf
DnOf(o, isOr) == IF Proved(o, isOr) THEN Inf ELSE 0

-----------------------------------------------------------------------------
(* What the search reads off the table *)

(* resolved_from_entry: a solved entry is reused when it fits the bound.   *)
Resolves(e, maxDepth) == Solved(e) /\ e.rem >= maxDepth /\ e.depth <= maxDepth

-----------------------------------------------------------------------------
(* The search path *)

Path == Prefix \cup {Board[stack[i].pos] : i \in 1 .. Len(stack)}

(* Mutant: the repetition cache is keyed by the position alone.            *)
NoContext == {}

(* The boards above the top frame: the context of the repetition cache.    *)
Above == Prefix \cup {Board[stack[i].pos] : i \in 1 .. Len(stack) - 1}

(* best_move_repeats_path: the stored move steps back onto the path.       *)
RepeatsPath(e) == e.best # NoMove /\ Board[e.best] \in Path

Top == stack[Len(stack)]
IsOr(level) == level % 2 = 1        \* the root frame, level 1, is an OR node
(* Mutant: the depth bound is handed down unchanged.                       *)
SameDepth(maxDepth) == maxDepth
Deeper(maxDepth) == Minus(maxDepth, 1)

-----------------------------------------------------------------------------
(* Children *)

DecidedKid(o, depth, rep, isOr) ==
    [outcome |-> o, depth |-> depth, rep |-> rep, explored |-> FALSE,
     pn |-> PnOf(o, isOr), dn |-> DnOf(o, isOr)]

OpenKid(pn, dn) ==
    [outcome |-> NoOutcome, depth |-> 0, rep |-> FALSE, explored |-> FALSE,
     pn |-> pn, dn |-> dn]

Unevaluated == OpenKid(Inf, 0)      \* behind the early-decisive cut

(* unsolved_bounds: only non-degenerate bounds of a search no deeper than  *)
(* this one are reused.                                                    *)
Reusable(e, maxDepth) ==
    e.pn > 0 /\ e.dn > 0 /\ e.rem # PlyMax /\ e.rem <= maxDepth

(* evaluate_child_keyed and evaluate_child_played, for child c of the top  *)
(* frame: path repetition, expired clock, solved entry, unsolved entry     *)
(* (which skips the terminal check), terminal check, in that order.        *)
Evaluate(c) ==
    LET e == Probe(c)
        below == Deeper(Top.depth)
        kidIsOr == ~IsOr(Len(stack))
    IN  IF c \notin Expired /\ Board[c] \in Path
        THEN DecidedKid("Draw", 0, TRUE, kidIsOr)
        ELSE IF c \notin Expired /\ Resolves(e, below) /\ ~RepeatsPath(e)
        THEN DecidedKid(e.outcome, e.depth, FALSE, kidIsOr)
        ELSE IF c \notin Expired /\ e.outcome = NoOutcome
        THEN IF Reusable(e, below) THEN OpenKid(e.pn, e.dn) ELSE OpenKid(1, 1)
        ELSE IF Static[c] # NoOutcome
        THEN DecidedKid(Static[c], 0, FALSE, kidIsOr)
        ELSE OpenKid(1, 1)

(* evaluate_all_children: a child Loss ends the sweep; the moves the       *)
(* ordering puts behind it stay unevaluated.  Any order of the moves.      *)
Sweeps ==
    LET f == Top
        info == [c \in Succ[f.pos] |-> Evaluate(c)]
        losers == {c \in Succ[f.pos] : info[c].outcome = "Loss"}
        cut(seen) == [c \in Succ[f.pos] |-> IF c \in seen THEN info[c] ELSE Unevaluated]
        swept == {seen \in SUBSET Succ[f.pos] : \E l \in losers : seen \cap losers = {l}}
    IN  IF losers = {}
        THEN {[kids |-> info, cost |-> Cardinality(Succ[f.pos])]}
        ELSE {[kids |-> cut(seen), cost |-> Cardinality(seen)] : seen \in swept}

-----------------------------------------------------------------------------
(* Selection *)

Having(kids, o) == {c \in DOMAIN kids : kids[c].outcome = o}
Candidates(kids) == {c \in Having(kids, NoOutcome) : ~kids[c].explored}
Shallowest(kids, S) == {c \in S : \A d \in S : kids[c].depth <= kids[d].depth}
Deepest(kids, S) == {c \in S : \A d \in S : kids[c].depth >= kids[d].depth}

(* Among the deepest draws the code prefers one without a repetition.      *)
DeepestDraws(kids) ==
    LET draws == Deepest(kids, Having(kids, "Draw"))
        plain == {c \in draws : ~kids[c].rep}
    IN  IF plain # {} THEN plain ELSE draws

(* The children without an outcome; one marked explored is still undecided. *)
Undecided(kids) == Having(kids, NoOutcome)

(* is_solved_by_children and select_child_with_early_exit: the verdicts    *)
(* the children allow (ties by move order); none when undecided.           *)
Verdicts(kids) ==
    LET verdict(o, S) == {[outcome |-> o, best |-> c, depth |-> kids[c].depth + 1,
                           rep |-> o = "Draw" /\ kids[c].rep] : c \in S}
    IN  IF Having(kids, "Loss") # {}
        THEN verdict("Win", Shallowest(kids, Having(kids, "Loss")))
        ELSE IF Undecided(kids) # {} THEN {}
        ELSE IF Having(kids, "Draw") # {} THEN verdict("Draw", DeepestDraws(kids))
        ELSE verdict("Loss", Deepest(kids, Having(kids, "Win")))

(* Proof and disproof number of a node: over all children, the decided and *)
(* the explored ones included.                                             *)
Least(kids, num(_)) == Capped(Min({num(kids[c]) : c \in DOMAIN kids}))
Total(kids, num(_)) == Capped(MapThenSumSet(LAMBDA c : num(kids[c]), DOMAIN kids))
PnNum(k) == k.pn
DnNum(k) == k.dn
NodePn(kids, isOr) == IF isOr THEN Least(kids, PnNum) ELSE Total(kids, PnNum)
NodeDn(kids, isOr) == IF isOr THEN Total(kids, DnNum) ELSE Least(kids, DnNum)

(* The most-proving child is sought among the open children that were not  *)
(* marked explored; the second one only sets the threshold.                *)
Effort(k, isOr) == IF isOr THEN k.pn ELSE k.dn
MostProving(kids, isOr) ==
    {c \in Candidates(kids) :
        \A d \in Candidates(kids) : Effort(kids[c], isOr) <= Effort(kids[d], isOr)}
SecondEffort(kids, isOr, best) ==
    LET rest == Candidates(kids) \ {best}
    IN  IF rest = {} THEN Inf ELSE Capped(Min({Effort(kids[c], isOr) : c \in rest}))

-----------------------------------------------------------------------------
(* Control *)

Call(p, thPn, thDn, depth, slice) ==
    [pos |-> p, thPn |-> thPn, thDn |-> thDn, depth |-> depth, slice |-> slice]

NoKids == [c \in {} |-> Unevaluated]       \* the children are not swept yet

Frame(c) ==
    [pos |-> c.pos, thPn |-> c.thPn, thDn |-> c.thDn, depth |-> c.depth,
     slice |-> c.slice, start |-> evals, kids |-> NoKids,
     pn |-> Inf, dn |-> Inf, best |-> NoMove]

NextSlice(slice) ==
    IF evals >= Cutoff THEN SliceMax ELSE Lesser(SliceMax, slice * Growth)

(* bounded_search(root, bound, cap), called when `begin` children have been *)
(* evaluated: start and slice belong to the current chunk.                 *)
Round(p, bound, cap, begin) ==
    [root |-> p, bound |-> bound, cap |-> cap, begin |-> begin,
     start |-> begin, slice |-> 0,
     chunk |-> IF Cutoff = 0 THEN SliceMax ELSE FirstSlice]

Init ==
    /\ tt = [p \in {} |-> NoEntry]
    /\ repCache = {}
    /\ stack = <<>>
    /\ \E p \in Roots, d \in Bounds, cap \in RoundCaps :
          /\ call = Call(p, Inf, Inf, d, 0)
          /\ round = Round(p, d, cap, 0)
    /\ pc = "chunk"
    /\ evals = 0
    /\ late = FALSE
    /\ result = "Draw"
    /\ ended = "running"

(* The deadline passes, or another thread sets the stop or memory flag.    *)
Timeout ==
    /\ ~late
    /\ late' = TRUE
    /\ UNCHANGED <<tt, repCache, stack, call, pc, evals, round, result, ended>>

End(why) ==
    /\ ended' = why
    /\ pc' = "done"
    /\ UNCHANGED <<tt, repCache, stack, call, evals, late, round, result>>

(* bounded_search: head of the chunk loop.                                 *)
(* Mutant: the budget is not looked at.                                    *)
OnlyLate == late

OutOfResources == late \/ evals >= Budget

ChunkCut == pc = "chunk" /\ OutOfResources /\ End("ResourceCut")

(* Mutant: what the round has spent is not subtracted.                     *)
WholeCap == round.cap

CapLeft == Minus(round.cap, evals - round.begin)

ChunkCapped ==
    /\ pc = "chunk" /\ ~OutOfResources
    /\ CapLeft = 0
    /\ End(IF CapLeft < Minus(Budget, evals) THEN "CapCut" ELSE "ResourceCut")

ChunkStart ==
    /\ pc = "chunk" /\ ~OutOfResources
    /\ CapLeft > 0
    /\ LET slice == Lesser(round.chunk, CapLeft)
       IN  /\ call' = Call(round.root, Inf, Inf, round.bound, slice)
           /\ round' = [round EXCEPT !.slice = slice, !.start = evals]
    /\ stack' = <<>>
    /\ pc' = "enter"
    /\ UNCHANGED <<tt, repCache, evals, late, result, ended>>

(* bounded_search: the root call returned.                                 *)
(* Mutant: an exhausted tree is not recognised.                            *)
NeverUnspent == FALSE

SliceUnspent == evals - round.start < round.slice \/ round.slice = SliceMax

ChunkDecisive == pc = "returned" /\ result # "Draw" /\ End("Decisive")

ChunkExhausted ==
    /\ pc = "returned" /\ result = "Draw"
    /\ SliceUnspent
    /\ End(IF OutOfResources THEN "ResourceCut" ELSE "Exhausted")

ChunkNext ==
    /\ pc = "returned" /\ result = "Draw"
    /\ ~SliceUnspent
    /\ round' = [round EXCEPT !.chunk = NextSlice(round.chunk)]
    /\ pc' = "chunk"
    /\ UNCHANGED <<tt, repCache, stack, call, evals, late, result, ended>>

-----------------------------------------------------------------------------
(* dfpn: the checks at entry, before a frame is pushed *)

(* A call returns o to the frame below, or to bounded_search.              *)
Return(o, rest) ==
    /\ result' = o
    /\ stack' = rest
    /\ pc' = IF rest = <<>> THEN "returned" ELSE "loop"
    /\ UNCHANGED <<call, evals, late, round, ended>>

ReturnEarly(o) == Return(o, stack) /\ UNCHANGED repCache

Entering == pc = "enter" /\ ~late
EnteringOpen == Entering /\ Static[call.pos] = NoOutcome
EnteringInside == EnteringOpen /\ call.depth > 0
EnteringFresh == EnteringInside /\ Board[call.pos] \notin Path
EntryReusable == Resolves(Probe(call.pos), call.depth) /\ ~RepeatsPath(Probe(call.pos))
EnteringUnresolved == EnteringFresh /\ ~EntryReusable
CachedDraw == <<call.pos, Path>> \in repCache

EnterLate == pc = "enter" /\ late /\ ReturnEarly("Draw") /\ UNCHANGED tt

EnterTerminal ==
    /\ Entering /\ Static[call.pos] # NoOutcome
    /\ LET o == Static[call.pos]
           isOr == IsOr(Len(stack) + 1)
       IN  /\ Store(call.pos, [best |-> NoMove, outcome |-> o, pn |-> PnOf(o, isOr),
                               dn |-> DnOf(o, isOr), depth |-> 0, rem |-> PlyMax])
           /\ ReturnEarly(o)

(* The depth horizon: an unsolved frontier, not a proven draw.             *)
EnterHorizon ==
    /\ EnteringOpen /\ call.depth = 0
    /\ Store(call.pos, [best |-> NoMove, outcome |-> NoOutcome, pn |-> 1, dn |-> 1,
                        depth |-> 0, rem |-> 0])
    /\ ReturnEarly("Draw")

EnterRepetition ==
    /\ EnteringInside /\ Board[call.pos] \in Path
    /\ ReturnEarly("Draw") /\ UNCHANGED tt

EnterResolved ==
    /\ EnteringFresh /\ EntryReusable
    /\ ReturnEarly(tt[call.pos].outcome) /\ UNCHANGED tt

EnterCachedDraw ==
    /\ EnteringUnresolved /\ CachedDraw
    /\ ReturnEarly("Draw") /\ UNCHANGED tt

EnterFrame ==
    /\ EnteringUnresolved /\ ~CachedDraw
    /\ stack' = Append(stack, Frame(call))
    /\ pc' = "loop"
    /\ UNCHANGED <<tt, repCache, call, evals, late, round, result, ended>>

-----------------------------------------------------------------------------
(* dfpn: the loop of the top frame *)

ReplaceTop(f) == [stack EXCEPT ![Len(stack)] = f]
Below == SubSeq(stack, 1, Len(stack) - 1)
Spent(f) == evals - f.start
SliceSpent(f) == f.slice # SliceMax /\ Spent(f) >= f.slice
SliceLeft(f) == Minus(f.slice, Spent(f))

(* The frame is left undecided: its bounds are stored, never degenerate.   *)
LeaveOpen(f) ==
    /\ Store(f.pos, [best |-> f.best, outcome |-> NoOutcome, pn |-> AtLeastOne(f.pn),
                     dn |-> AtLeastOne(f.dn), depth |-> 0, rem |-> f.depth])
    /\ Return("Draw", Below)
    /\ UNCHANGED repCache

(* First-player-loss shortcut: a draw that holds only through a repetition *)
(* goes to the repetition cache, and to the table as an unsolved entry.    *)
LeaveRepetitionDraw(f, v) ==
    /\ Store(f.pos, [best |-> v.best, outcome |-> NoOutcome, pn |-> 1, dn |-> 1,
                     depth |-> v.depth, rem |-> PlyMax])
    /\ repCache' = IF Cardinality(repCache) < CacheCap
                   THEN repCache \cup {<<f.pos, Above>>} ELSE repCache
    /\ Return("Draw", Below)

(* Mutant: the best move of the last selection is stored.                  *)
LeaveSolvedStale(f, v) ==
    /\ Store(f.pos, [best |-> f.best, outcome |-> v.outcome, pn |-> 0, dn |-> Inf,
                     depth |-> v.depth, rem |-> PlyMax])
    /\ Return(v.outcome, Below)
    /\ UNCHANGED repCache

(* The stored numbers of a solved node are (0, INF) whatever the outcome.  *)
LeaveSolved(f, v) ==
    /\ Store(f.pos, [best |-> v.best, outcome |-> v.outcome, pn |-> 0, dn |-> Inf,
                     depth |-> v.depth, rem |-> PlyMax])
    /\ Return(v.outcome, Below)
    /\ UNCHANGED repCache

(* Head of the loop: clock, budget and slice.                              *)
Looping == pc = "loop" /\ ~OutOfResources /\ ~SliceSpent(Top)

CutFrame ==
    /\ pc = "loop" /\ (OutOfResources \/ SliceSpent(Top))
    /\ LeaveOpen(Top)

Sweep ==
    /\ Looping /\ Top.kids = NoKids
    /\ \E s \in Sweeps :
          /\ stack' = ReplaceTop([Top EXCEPT !.kids = s.kids])
          /\ evals' = evals + s.cost
    /\ pc' = "select"
    /\ UNCHANGED <<tt, repCache, call, late, round, result, ended>>

(* The child just searched is evaluated again; in a sliced call one whose  *)
(* numbers did not move is marked explored.                                *)
Reevaluate ==
    /\ Looping /\ Top.kids # NoKids
    /\ LET c == Top.best
           old == Top.kids[c]
           new == Evaluate(c)
           still == Top.slice # SliceMax /\ new.pn = old.pn /\ new.dn = old.dn
       IN  stack' = ReplaceTop([Top EXCEPT !.kids[c] = [new EXCEPT !.explored = still]])
    /\ evals' = evals + 1
    /\ pc' = "select"
    /\ UNCHANGED <<tt, repCache, call, late, round, result, ended>>

-----------------------------------------------------------------------------
(* dfpn: selection, and what follows it *)

Selecting == pc = "select"

Conclude ==
    /\ Selecting
    /\ \E v \in Verdicts(Top.kids) :
          IF v.rep THEN LeaveRepetitionDraw(Top, v) ELSE LeaveSolved(Top, v)

SelectingOpen == Selecting /\ Verdicts(Top.kids) = {}

(* The frame with the numbers and the best child of this selection.        *)
Selections ==
    LET isOr == IsOr(Len(stack))
        with(c) == [Top EXCEPT !.pn = NodePn(Top.kids, isOr),
                               !.dn = NodeDn(Top.kids, isOr), !.best = c]
    IN  IF Candidates(Top.kids) = {} THEN {with(NoMove)}
        ELSE {with(c) : c \in MostProving(Top.kids, isOr)}

OverThreshold(f) ==
    \/ f.thPn # Inf /\ f.pn >= f.thPn
    \/ f.thDn # Inf /\ f.dn >= f.thDn

Stops(f) == OverThreshold(f) \/ f.best = NoMove \/ SliceSpent(f)

GiveUp ==
    /\ SelectingOpen
    /\ \E f \in Selections : Stops(f) /\ LeaveOpen(f)

(* The child's thresholds: one above the second best on the node's own     *)
(* number, the slack of the node plus the child's share on the other.      *)
Share(th, own, kid) == IF th = Inf THEN Inf ELSE Minus(th, own) + kid

ChildCall(f) ==
    LET isOr == IsOr(Len(stack))
        k == f.kids[f.best]
        next == EpsCeil(SecondEffort(f.kids, isOr, f.best))
    IN  Call(f.best,
             IF isOr THEN Lesser(f.thPn, next) ELSE Share(f.thPn, f.pn, k.pn),
             IF isOr THEN Share(f.thDn, f.dn, k.dn) ELSE Lesser(f.thDn, next),
             Deeper(f.depth), SliceLeft(f))

Descend ==
    /\ SelectingOpen
    /\ \E f \in Selections :
          /\ ~Stops(f)
          /\ stack' = ReplaceTop(f)
          /\ call' = ChildCall(f)
    /\ pc' = "enter"
    /\ UNCHANGED <<tt, repCache, evals, late, round, result, ended>>

-----------------------------------------------------------------------------
Driver == ChunkCut \/ ChunkCapped \/ ChunkStart \/ ChunkDecisive \/ ChunkExhausted \/ ChunkNext

Enter == \/ EnterLate \/ EnterTerminal \/ EnterHorizon \/ EnterRepetition
         \/ EnterResolved \/ EnterCachedDraw \/ EnterFrame

Loop == CutFrame \/ Sweep \/ Reevaluate \/ Conclude \/ GiveUp \/ Descend

Finished == pc = "done" /\ UNCHANGED vars

Search == Driver \/ Enter \/ Loop

Next == Search \/ Timeout \/ Finished

Spec == Init /\ [][Next]_vars

(* The search runs on its own thread and never blocks.                     *)
FairSpec == Spec /\ WF_vars(Search)

-----------------------------------------------------------------------------
(* Correctness.  Truth and Dist label every position with the outcome the  *)
(* side to move can force and the plies it takes; they are any labelling   *)
(* the rules of the game close, so a decisive claim that holds for all of  *)
(* them is one a finite proof supports.                                    *)
CONSTANTS Truth, Dist

ASSUME TruthAssumption ==
    /\ Truth \in [Pos -> Outcomes]
    /\ Dist \in [Pos -> Nat]
    /\ \A p \in Pos : Static[p] # NoOutcome => Truth[p] = Static[p] /\ Dist[p] = 0
    /\ \A p \in Pos : Static[p] = NoOutcome =>
          /\ \A c \in Succ[p] :
                Truth[c] = "Loss" => Truth[p] = "Win" /\ Dist[p] <= Dist[c] + 1
          /\ (\A c \in Succ[p] : Truth[c] = "Win") =>
                /\ Truth[p] = "Loss"
                /\ \E c \in Succ[p] : Dist[p] <= Dist[c] + 1

Keys == {Board[p] : p \in Pos} \cup Prefix
Entries == [best : Pos \cup {NoMove}, outcome : Outcomes \cup {NoOutcome},
            pn : 0 .. Inf, dn : 0 .. Inf, depth : Nat, rem : Nat]
Kids == [outcome : Outcomes \cup {NoOutcome}, depth : Nat, rep : BOOLEAN,
         explored : BOOLEAN, pn : 0 .. Inf, dn : 0 .. Inf]
Calls == [pos : Pos, thPn : Nat, thDn : Nat, depth : 0 .. PlyMax, slice : Nat]
FrameOK(f) ==
    /\ f.pos \in Pos /\ f.thPn \in Nat /\ f.thDn \in Nat
    /\ f.depth \in 1 .. PlyMax /\ f.slice \in Nat /\ f.start \in Nat
    /\ f.kids = NoKids \/ f.kids \in [Succ[f.pos] -> Kids]
    /\ f.pn \in 0 .. Inf /\ f.dn \in 0 .. Inf
    /\ f.best \in Pos \cup {NoMove}

TypeOK ==
    /\ DOMAIN tt \subseteq Pos /\ tt \in [DOMAIN tt -> Entries]
    /\ \A hit \in repCache : hit[1] \in Pos /\ hit[2] \subseteq Keys
    /\ \A i \in 1 .. Len(stack) : FrameOK(stack[i])
    /\ call \in Calls
    /\ pc \in {"chunk", "enter", "loop", "select", "returned", "done"}
    /\ evals \in Nat /\ late \in BOOLEAN
    /\ round \in [root : Pos, bound : 0 .. PlyMax, cap : Nat, begin : Nat,
                 start : Nat, slice : Nat, chunk : Nat]
    /\ result \in Outcomes
    /\ ended \in {"running", "Decisive", "Exhausted", "CapCut", "ResourceCut"}

(* A decisive claim: o is what p is worth, and d plies are enough.         *)
Holds(p, o, d) == o \in Decisive => Truth[p] = o /\ Dist[p] <= d

(* Every Win and Loss the search stores is true, and is forced within the  *)
(* depth stored with it: neither repetition draws, bounds left by cut      *)
(* slices, early-decisive cuts nor evictions ever manufacture a proof.     *)
DecisiveSound ==
    \A p \in DOMAIN tt : Holds(p, tt[p].outcome, tt[p].depth)

(* What bounded_search answers as Decisive is true of the root and fits    *)
(* the depth bound, which is why a refinement round at n - 2 that answers  *)
(* has found a shorter line.                                               *)
AnswerWithinBound ==
    ended = "Decisive" => Holds(round.root, result, round.bound)

(* The load-bearing guarantee of children.rs: an outcome-less entry is     *)
(* only ever stored for a non-terminal position, so the pre-probe may skip *)
(* the terminal check of a child that has one.                             *)
OutcomelessNonTerminal ==
    \A p \in DOMAIN tt : tt[p].outcome = NoOutcome => Static[p] = NoOutcome

(* No board is twice on the search path (the no-duplicate invariant the    *)
(* path Bloom filter and the context hash rest on), prefix included.       *)
PathDistinct ==
    /\ \A i \in 1 .. Len(stack) : Board[stack[i].pos] \notin Prefix
    /\ \A i, j \in 1 .. Len(stack) : Board[stack[i].pos] = Board[stack[j].pos] => i = j

(* What the claims rest on: the types, a path without a repeated board,    *)
(* and entries that never hide a finished game.                            *)
WellFormed == TypeOK /\ PathDistinct /\ OutcomelessNonTerminal

(* The hard budget is crossed by at most the rest of one sweep, however    *)
(* deep the recursion that has to unwind.                                  *)
Widest == Max({Cardinality(Succ[p]) : p \in Pos} \cup {1})
BudgetOvershoot == Budget > 0 => evals <= Budget + Widest - 1

(* Pacing: no frame works longer than its slice plus the rest of a sweep,  *)
(* the work of all frames it called included.                              *)
SliceOvershoot ==
    \A i \in 1 .. Len(stack) :
        stack[i].slice # SliceMax => Spent(stack[i]) <= stack[i].slice + Widest - 1

(* Budget and slices are crossed by at most the rest of one sweep, though  *)
(* each is looked at once per loop of a frame (core.rs).                   *)
WorkBounded == BudgetOvershoot /\ SliceOvershoot

(* A decisive entry is permanent: it can be evicted or proved again, but   *)
(* no later store turns it into bounds, a draw or the other outcome.       *)
DecisivePermanent ==
    [][\A p \in DOMAIN tt \cap DOMAIN tt' :
          tt[p].outcome \in Decisive => tt'[p].outcome = tt[p].outcome]_vars

(* With a child-eval budget the search always ends, whatever the graph.    *)
Terminates == <>(pc = "done")

=============================================================================
