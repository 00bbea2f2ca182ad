-------------------------------- MODULE Walker --------------------------------
(***************************************************************************)
(* The reconstruction walk of src/src/reconstruct/walker.rs: from the root *)
(* down, each position a proof needs is resolved from the rules, from the  *)
(* snapshot of a transposition table, from a record of the same board      *)
(* under another rule-50 clock, or by a bounded search that fills the      *)
(* hole; every resolved node is sent as an event to the proof-tree worker. *)
(* The recursion of `visit` is the sequence `frames`.                      *)
(***************************************************************************)
EXTENDS Integers, Sequences, FiniteSets

CONSTANTS
    Pos, Succ, Static, NoMove,
    Board,      \* Board[p]: p without its clock
    Clock,      \* Clock[p]: the rule-50 clock of p
    Roots,      \* the positions to rebuild a proof for
    Snapshots,  \* the record maps a snapshot can hold, true or not
    Harvests,   \* Harvests[p]: the record maps a search of p can add
    FillBase, FillCap   \* fill_base, fill_depth_cap

NoOutcome == "None"
Decisive == {"Win", "Loss"}
Opposite(o) == IF o = "Win" THEN "Loss" ELSE "Win"
Records == [outcome : Decisive \cup {"Draw"}, depth : Nat, best : Pos \cup {NoMove}]

ASSUME WalkAssumption ==
    /\ Roots \subseteq Pos
    /\ Succ \in [Pos -> SUBSET Pos]
    /\ Static \in [Pos -> Decisive \cup {"Draw", NoOutcome}]
    /\ DOMAIN Board = Pos /\ Clock \in [Pos -> Nat]
    /\ NoMove \notin Pos
    /\ DOMAIN Harvests = Pos
    /\ \A s \in Snapshots \cup UNION {Harvests[p] : p \in Pos} :
          DOMAIN s \subseteq Pos /\ s \in [DOMAIN s -> Records]
    /\ FillBase \in Nat /\ FillCap \in Nat

VARIABLES
    events,     \* the event channel to the proof-tree worker
    limited,    \* the memory_limited flag, raised by the worker
    map,        \* the solved records, by position
    frames,     \* calls of visit that have resolved their node
    at,         \* the position being visited, or the one just left
    phase,      \* "visit", "fill", "descend" or "done"
    bound,      \* the bound of the next fill search
    verdict,    \* what the walk returned: an outcome, "failed", or "none"
    why         \* the kind of failure

walkVars == <<map, frames, at, phase, bound, verdict, why>>
vars == <<events, limited, walkVars>>

Depth == Len(frames)
Parent == frames[Depth]

(* The path of moves to the position being visited.                        *)
PathTo == IF frames = <<>> THEN <<>>
          ELSE [i \in 1 .. Depth |-> IF i = Depth THEN at ELSE frames[i + 1].pos]

(* visit's `expected`: anything decisive for the root, else the complement *)
(* of what the parent claims.                                              *)
Expected(o) == IF frames = <<>> THEN o \in Decisive ELSE o = Opposite(Parent.outcome)

(* classify_node, on a miss: the records of the board under other clocks;  *)
(* the scan goes up from clock 0.                                          *)
OtherClocks == {p \in DOMAIN map : Board[p] = Board[at]}
Scanned == map[CHOOSE p \in OtherClocks : \A q \in OtherClocks : Clock[p] <= Clock[q]]
OnPrefix == \E i \in 1 .. Depth : Board[frames[i].pos] = Board[at]

(* Mutant: a Loss walks one reply, as a Win does.                          *)
OneReply(o, best) == IF o = "Win" THEN {best} ELSE {CHOOSE c \in Succ[at] : TRUE}
(* A Win descends its best move, a Loss every legal reply.                 *)
Replies(o, best) == IF o = "Win" THEN {best} ELSE Succ[at]

Event(o, depth) == [path |-> PathTo, pos |-> at, outcome |-> o, depth |-> depth]
Emit(o, depth) == events' = Append(events, Event(o, depth))
Quiet == UNCHANGED <<events, limited>>

Fail(kind) ==
    /\ phase' = "done"
    /\ verdict' = "failed"
    /\ why' = kind
    /\ UNCHANGED <<map, frames, at, bound>>
    /\ Quiet

(* emit, and the frame that walks the children.                            *)
Resolve(o, depth, best) ==
    /\ Emit(o, depth)
    /\ frames' = Append(frames, [pos |-> at, outcome |-> o, depth |-> depth,
                                 todo |-> Replies(o, best)])
    /\ phase' = "descend"
    /\ UNCHANGED <<limited, at, bound, verdict, why>>

Init ==
    /\ events = <<>>
    /\ limited = FALSE
    /\ map \in Snapshots
    /\ at \in Roots
    /\ frames = <<>>
    /\ phase = "visit"
    /\ bound = 0
    /\ verdict = "none"
    /\ why = "none"

-----------------------------------------------------------------------------
(* visit *)

Visiting == phase = "visit" /\ ~limited
Open == Visiting /\ Static[at] = NoOutcome

(* The worker has run out of memory.                                       *)
VisitLimited == phase = "visit" /\ limited /\ Fail("memory")

(* A terminal position stands for itself, whatever the snapshot says.      *)
VisitTerminal ==
    /\ Visiting
    /\ Static[at] # NoOutcome
    /\ Expected(Static[at])
    /\ Emit(Static[at], 0)
    /\ IF frames = <<>> THEN phase' = "done" /\ verdict' = Static[at]
                        ELSE phase' = "descend" /\ UNCHANGED verdict
    /\ UNCHANGED <<limited, map, frames, at, bound, why>>

(* Mutant: another clock is asked before the clock of the position.        *)
ScannedFirst ==
    IF OtherClocks # {} /\ Scanned.outcome # "Draw" THEN {Scanned}
    ELSE IF at \in DOMAIN map THEN {map[at]} ELSE {}
(* The record used: the one of the position, or a decisive one of its      *)
(* board under another clock.                                              *)
Hit == IF at \in DOMAIN map THEN {map[at]}
       ELSE IF OtherClocks # {} /\ Scanned.outcome # "Draw" THEN {Scanned} ELSE {}

VisitHit ==
    /\ Open
    /\ \E r \in Hit : Expected(r.outcome) /\ Resolve(r.outcome, r.depth, r.best)
    /\ UNCHANGED map

(* What is wrong with the node: the rules or a record contradict what the  *)
(* parent claims, the root is drawn, or the board is on the path already   *)
(* and no record of it is known.                                           *)
Resolved == IF Static[at] # NoOutcome THEN {Static[at]} ELSE {r.outcome : r \in Hit}
Complaints ==
    {IF frames = <<>> THEN "undecided" ELSE "anomaly" : o \in {o \in Resolved : ~Expected(o)}}
    \cup IF Resolved = {} /\ OtherClocks = {} /\ OnPrefix THEN {"repetition"} ELSE {}
VisitFailure == Visiting /\ \E kind \in Complaints : Fail(kind)

-----------------------------------------------------------------------------
(* Holes *)

FirstBound == LET d == IF frames = <<>> THEN FillBase ELSE Parent.depth
              IN  IF d >= 1 THEN d ELSE 1
(* The cap never cuts below the first bound.                               *)
Cap == IF FillCap >= FirstBound THEN FillCap ELSE FirstBound

(* Mutant: the bound is not doubled.                                       *)
SameBound == bound
NextBound == IF 2 * bound <= Cap THEN 2 * bound ELSE Cap

VisitHole ==
    /\ Open
    /\ Hit = {}
    /\ Complaints = {}
    /\ phase' = "fill"
    /\ bound' = FirstBound
    /\ UNCHANGED <<map, frames, at, verdict, why>>
    /\ Quiet

(* A search ran into a budget, or the total budget is spent.               *)
FillCut == phase = "fill" /\ Fail("budget")

(* A complete search found nothing within the bound.                       *)
FillDeepen ==
    /\ phase = "fill"
    /\ bound < Cap
    /\ bound' = NextBound
    /\ UNCHANGED <<map, frames, at, phase, verdict, why>>
    /\ Quiet
FillUnfillable == phase = "fill" /\ bound >= Cap /\ Fail("unfillable")

(* The search is decisive, and its solved entries h join the map, where    *)
(* the first record of a position stays.                                   *)
Answers(h) == phase = "fill" /\ (at \in DOMAIN h => h[at].depth <= bound)
Joined(h) == [p \in DOMAIN map \cup DOMAIN h |-> IF p \in DOMAIN map THEN map[p] ELSE h[p]]
(* The hole got a record that says what the parent needs.                  *)
Fills(h) == at \in DOMAIN Joined(h) /\ Joined(h)[at].outcome \in Decisive
                                    /\ Expected(Joined(h)[at].outcome)
FillAnswered(h) ==
    /\ Answers(h)
    /\ Fills(h)
    /\ LET r == Joined(h)[at]
       IN  Resolve(r.outcome, IF r.outcome = "Win" THEN r.depth ELSE bound, r.best)
    /\ map' = Joined(h)
FillContradiction(h) == Answers(h) /\ ~Fills(h) /\ Fail("anomaly")

-----------------------------------------------------------------------------
(* step, and the return of visit *)

(* The generator's order of moves: some order.                             *)
First == CHOOSE c \in Parent.todo : TRUE
Descending == phase = "descend" /\ Parent.todo # {}

Descend ==
    /\ Descending
    /\ First \in Succ[Parent.pos]
    /\ frames' = [frames EXCEPT ![Depth].todo = @ \ {First}]
    /\ at' = First
    /\ phase' = "visit"
    /\ UNCHANGED <<map, bound, verdict, why>>
    /\ Quiet
(* The best move of a record is missing or not legal here.                 *)
IllegalBest == Descending /\ First \notin Succ[Parent.pos] /\ Fail("anomaly")

Leave ==
    /\ phase = "descend"
    /\ Parent.todo = {}
    /\ frames' = SubSeq(frames, 1, Depth - 1)
    /\ at' = Parent.pos
    /\ IF Depth = 1 THEN phase' = "done" /\ verdict' = Parent.outcome
                    ELSE UNCHANGED <<phase, verdict>>
    /\ UNCHANGED <<map, bound, why>>
    /\ Quiet

Walk ==
    \/ VisitLimited \/ VisitTerminal \/ VisitHit \/ VisitFailure
    \/ VisitHole \/ FillCut \/ FillDeepen \/ FillUnfillable
    \/ \E h \in Harvests[at] : FillAnswered(h) \/ FillContradiction(h)
    \/ Descend \/ IllegalBest \/ Leave

(* The worker takes events and raises the flag; nothing more is assumed.   *)
Worker == UNCHANGED walkVars

Next == Walk \/ Worker
Spec == Init /\ [][Next]_vars

-----------------------------------------------------------------------------
(* Correctness.  Truth labels every position with what the side to move    *)
(* can force; it is any labelling the rules of the game close.             *)
CONSTANT Truth

ASSUME TruthAssumption ==
    /\ \A p \in Pos : Static[p] # NoOutcome => Truth[p] = Static[p]
    /\ \A p \in Pos : Static[p] = NoOutcome =>
          /\ (\E c \in Succ[p] : Truth[c] = "Loss") => Truth[p] = "Win"
          /\ (\A c \in Succ[p] : Truth[c] = "Win") => Truth[p] = "Loss"

(* A lost position has no other way out: every reply to it wins.           *)
ASSUME LossAssumption ==
    \A p \in Pos : Static[p] = NoOutcome /\ Truth[p] = "Loss" =>
        \A c \in Succ[p] : Truth[c] = "Win"

(* A walk that comes back with a decisive outcome has the true one,        *)
(* whatever the snapshot and the searches said: nothing is believed that   *)
(* was not walked down to the rules (reconstruct/mod.rs, "Soundness of the *)
(* walk").                                                                 *)
WalkSound == verdict \in Decisive => at \in Roots /\ Truth[at] = verdict

(* A snapshot that holds the truth of every position, and sound best moves,*)
(* is walked without a search and without a complaint: exact keys always   *)
(* hit along the paths of a proof (mod.rs, "Soundness of the walk").       *)
Faithful ==
    \A p \in Pos : /\ p \in DOMAIN map /\ map[p].outcome = Truth[p]
                   /\ Static[p] = NoOutcome /\ Truth[p] = "Win" =>
                        map[p].best \in Succ[p] /\ Truth[map[p].best] = "Loss"
FaithfulWalks ==
    Faithful => phase # "fill" /\ why \notin {"anomaly", "budget", "unfillable"}

(* The failure that mod.rs counts as `repetition` never happens: whatever  *)
(* the records and the searches said, a board that is on the path has some *)
(* record by then, under one clock or another, so that a node that repeats *)
(* it is a hit, a hole or a contradiction.                                 *)
RepetitionRecorded == why # "repetition"

(* What the walk promises on any snapshot: a true outcome, or a failure of *)
(* a kind that can happen (mod.rs, walker.rs).                             *)
WalkSafe == WalkSound /\ RepetitionRecorded

===============================================================================
