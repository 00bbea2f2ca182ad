----------------------------- MODULE WinProver -----------------------------
(***************************************************************************)
(* The opt-in win prover (search/winprover): a proof-number search for the *)
(* side to move at the root only, on a scratch table of its own, which     *)
(* replays the proof of a refuted defence on the defences still open.      *)
(*                                                                         *)
(* A move is known by its label: the same label played in two positions is *)
(* the same move, which is what a replay needs.  `frames` is the call      *)
(* stack of dfpn; one action is one stretch of it between two looks at the *)
(* cap and the clock.  A replay stores nothing before it has succeeded, so *)
(* it is a function of the table, and one action.                          *)
(*                                                                         *)
(* Left out: the static scorer (a fixed order of the labels stands for     *)
(* it), the counters kept for reports, and the paths of the proof events.  *)
(***************************************************************************)
EXTENDS LossyTable, Integers, Sequences, FiniteSets, SequencesExt, Eager

CONSTANTS
    Succ,        \* Succ[p]: the positions after one move from p
    Board,       \* Board[p]: the repetition key
    Static,      \* Static[p]: the outcome of a terminal p, or NoOutcome
    Label,       \* Label[p]: the move that leads to p, among its siblings
    ByLabel,     \* ByLabel[p]: the positions after one move, by label
    EpsNum, EpsDen,   \* 1 + epsilon
    SimulationBudget, \* SIMULATION_BUDGET
    PvMax             \* the longest line extract_pv follows

Decisive == {"Win", "Loss"}

ASSUME MovesAssumption ==
    /\ IsFiniteSet(Pos) /\ NoMove \notin Pos
    /\ DOMAIN Succ = Pos /\ DOMAIN Board = Pos /\ DOMAIN Static = Pos /\ DOMAIN Label = Pos
    /\ \A p \in Pos : /\ ByLabel[p] \in Seq(Pos) /\ Range(ByLabel[p]) = Succ[p]
                      /\ \A i, j \in DOMAIN ByLabel[p] : i < j => Label[ByLabel[p][i]] < Label[ByLabel[p][j]]
    /\ \A p \in Pos : Static[p] \in Outcomes \cup {NoOutcome}
    /\ \A p \in Pos : Static[p] = NoOutcome => Succ[p] # {}

ASSUME NumbersAssumption ==
    /\ Inf \in Nat \ {0} /\ Ways \in Nat /\ PvMax \in Nat
    /\ SimulationBudget \in Nat \ {0}
    /\ EpsNum \in Nat /\ EpsDen \in Nat \ {0}

VARIABLES
    root,     \* the position to solve
    upward,   \* the scorer's order: labels upward or downward
    late,     \* "no", or what has cut the run: "deadline" or "stop"
    frames,   \* the active dfpn calls
    call,     \* the dfpn call being entered: its position and thresholds
    spent,    \* child_evals
    cap,      \* budget
    proved,   \* the proof events: <<position, outcome, depth>>
    answer,   \* what the last dfpn call returned
    claim,    \* the line claimed, or <<>>
    trial,    \* the replay being made
    step      \* where the search is

proverVars == <<tt, frames, call, spent, cap, proved, answer, claim, trial, step>>

-----------------------------------------------------------------------------
(* Numbers and moves.                                                      *)

Lesser(a, b) == IF a <= b THEN a ELSE b
Minus(a, b) == IF a >= b THEN a - b ELSE 0

(* epsilon_ceil                                                            *)
EpsCeil(n) ==
    LET scaled == (n * EpsNum + EpsDen - 1) \div EpsDen
    IN  IF n >= Inf THEN Inf ELSE Capped(IF scaled > n THEN scaled ELSE n + 1)

(* pn_dn_for                                                               *)
PnOf(o, isOr) == IF o = (IF isOr THEN "Win" ELSE "Loss") THEN 0 ELSE Inf
DnOf(o, isOr) == Inf - PnOf(o, isOr)

Ordered(p) == IF upward THEN ByLabel[p] ELSE Reverse(ByLabel[p])

(* sort_moves: the table's move first.                                     *)
Sorted(p) ==
    LET moves == Ordered(p)
        best == Probe(p).best
        at == CHOOSE i \in DOMAIN moves : moves[i] = best
    IN  IF best \in Succ[p]
        THEN [i \in DOMAIN moves |-> IF i = 1 THEN best ELSE IF i <= at THEN moves[i - 1] ELSE moves[i]]
        ELSE moves

Playable(p, m) == \E c \in Succ[p] : Label[c] = m
Play(p, m) == CHOOSE c \in Succ[p] : Label[c] = m

Path == {Board[frames[i].pos] : i \in 1 .. Len(frames)}
Top == frames[Len(frames)]
IsOr(level) == level % 2 = 1
Stop(n) == late # "no" \/ n >= cap

-----------------------------------------------------------------------------
(* Children.                                                               *)

SolvedKid(c, o, d, isOr) ==
    [to |-> c, outcome |-> o, depth |-> d, pn |-> PnOf(o, isOr), dn |-> DnOf(o, isOr), simulated |-> FALSE]
OpenKid(c, pn, dn) ==
    [to |-> c, outcome |-> NoOutcome, depth |-> 0, pn |-> pn, dn |-> dn, simulated |-> FALSE]

(* classify_child: terminal, repeated on the path, solved in the table,    *)
(* bounded in the table.                                                   *)
Classify(c, path, isOr) ==
    LET e == Probe(c)
    IN  CASE Static[c] # NoOutcome -> SolvedKid(c, Static[c], 0, isOr)
          [] Static[c] = NoOutcome /\ Board[c] \in path -> SolvedKid(c, "Draw", 0, isOr)
          [] Static[c] = NoOutcome /\ Board[c] \notin path /\ e.outcome \in Decisive ->
                SolvedKid(c, e.outcome, e.depth, isOr)
          [] OTHER -> IF e.outcome = NoOutcome /\ e.pn > 0 /\ e.dn > 0 THEN OpenKid(c, e.pn, e.dn)
                      ELSE OpenKid(c, 1, 1)

(* evaluate_all_children                                                   *)
Evaluated(moves, path, isOr) == [i \in DOMAIN moves |-> Classify(moves[i], path, isOr)]

(* evaluate_child emits an event for a decided child.                      *)
Events(kids) == {<<k.to, k.outcome, k.depth>> : k \in {x \in kids : x.outcome \in Decisive}}

(* select: the outcome the children settle, with its depth and move.       *)
First(kids, P(_)) == kids[CHOOSE i \in DOMAIN kids : P(kids[i]) /\ \A j \in 1 .. i - 1 : ~P(kids[j])]
Nearest(kids, o) == First(kids, LAMBDA k : k.outcome = o /\ \A x \in Range(kids) : x.outcome = o => k.depth <= x.depth)
Farthest(kids, o) == First(kids, LAMBDA k : k.outcome = o /\ \A x \in Range(kids) : x.outcome = o => k.depth >= x.depth)

Settled(o, k) == [outcome |-> o, depth |-> k.depth + 1, best |-> k.to]
NotSettled == [outcome |-> NoOutcome, depth |-> 0, best |-> NoMove]

(* Mutant: one won child loses the node.                                  *)
SettlesEarly(kids) ==
    LET has(o) == \E k \in Range(kids) : k.outcome = o
    IN  CASE has("Loss") -> Settled("Win", Nearest(kids, "Loss"))
          [] ~has("Loss") /\ has("Win") -> Settled("Loss", Farthest(kids, "Win"))
          [] ~has("Loss") /\ ~has("Win") /\ has("Draw") /\ ~has(NoOutcome) ->
                Settled("Draw", Farthest(kids, "Draw"))
          [] OTHER -> NotSettled

Settles(kids) ==
    LET has(o) == \E k \in Range(kids) : k.outcome = o
    IN  CASE has("Loss") -> Settled("Win", Nearest(kids, "Loss"))
          [] ~has("Loss") /\ has(NoOutcome) -> NotSettled
          [] ~has("Loss") /\ ~has(NoOutcome) /\ has("Draw") -> Settled("Draw", Farthest(kids, "Draw"))
          [] OTHER -> Settled("Loss", Farthest(kids, "Win"))

SumCapped(kids, F(_)) == Capped(FoldLeft(LAMBDA n, k : n + F(k), 0, kids))
LeastOf(kids, F(_)) == F(First(kids, LAMBDA k : \A x \in Range(kids) : F(k) <= F(x)))
PnSum(kids, isOr) == IF isOr THEN LeastOf(kids, LAMBDA k : k.pn) ELSE SumCapped(kids, LAMBDA k : k.pn)
DnSum(kids, isOr) == IF isOr THEN SumCapped(kids, LAMBDA k : k.dn) ELSE LeastOf(kids, LAMBDA k : k.dn)

(* The open child to search next, first in order among the least, and the  *)
(* number of the runner-up.                                                *)
OpenIds(kids) == {i \in DOMAIN kids : kids[i].outcome = NoOutcome}
Key(k, isOr) == IF isOr THEN k.pn ELSE k.dn
Foremost(kids, ids, isOr) ==
    CHOOSE i \in ids : \A j \in ids : \/ Key(kids[i], isOr) < Key(kids[j], isOr)
                                      \/ Key(kids[i], isOr) = Key(kids[j], isOr) /\ i <= j
RunnerUp(kids, isOr) ==
    LET rest == OpenIds(kids) \ {Foremost(kids, OpenIds(kids), isOr)}
    IN  IF rest = {} THEN Inf ELSE Key(kids[Foremost(kids, rest, isOr)], isOr)

-----------------------------------------------------------------------------
(* Replay of a proof on a sibling (simulation.rs).  Calls of the attacker   *)
(* and of the defender alternate: `calls` is their stack, the attacker at  *)
(* odd places, and `pos` with its guide the call to make, or just made.    *)

NoTrial == [kid |-> 0, left |-> 0, calls |-> <<>>, pos |-> NoMove, guide |-> NoMove,
            depth |-> 0, best |-> NoMove]
Call(best, todo) ==
    [pos |-> trial.pos, guide |-> trial.guide, best |-> best, todo |-> todo, deepest |-> 0]
Line == {Board[trial.calls[i].pos] : i \in 1 .. Len(trial.calls)}
Current == trial.calls[Len(trial.calls)]
Wanted == IF IsOr(Len(trial.calls) + 1) THEN "Win" ELSE "Loss"

(* What a position already known is worth to the replay, or NoOutcome: a   *)
(* terminal, then a repetition, then the table.                            *)
KnownTo(p) ==
    LET e == Probe(p)
    IN  CASE Static[p] # NoOutcome -> [outcome |-> Static[p], depth |-> 0, best |-> NoMove]
          [] Static[p] = NoOutcome /\ Board[p] \in Path \cup Line ->
                [outcome |-> "Draw", depth |-> 0, best |-> NoMove]
          [] Static[p] = NoOutcome /\ Board[p] \notin Path \cup Line /\ e.outcome \in Decisive ->
                [outcome |-> e.outcome, depth |-> e.depth, best |-> e.best]
          [] OTHER -> [outcome |-> NoOutcome, depth |-> 0, best |-> NoMove]

(* immediate_win_move: every move of p is tried, one evaluation each, up   *)
(* to the first that wins at once; NoMove when none does, or no budget is  *)
(* left to try.                                                            *)
Wins(p) == {i \in DOMAIN Ordered(p) : Static[Ordered(p)[i]] = "Loss"}
Mate(p, left) ==
    IF left = 0 \/ Wins(p) = {} THEN NoMove ELSE Ordered(p)[CHOOSE i \in Wins(p) : \A j \in Wins(p) : i <= j]
Tried(p, left) ==
    CASE left = 0 -> 0
      [] left # 0 /\ Wins(p) = {} -> Len(Ordered(p))
      [] OTHER -> CHOOSE i \in Wins(p) : \A j \in Wins(p) : i <= j

(* emit_immediate_win: the win of p and its lost end.                      *)
MateEvents(p, end) == {<<end, "Loss", 0>>, <<p, "Win", 1>>}

(* The move the guide's proof plays, or NoMove.                            *)
GuideMove(g) == LET e == Probe(g) IN IF e.outcome = "Win" THEN e.best ELSE NoMove

-----------------------------------------------------------------------------
(* The search.                                                             *)

Frame(p, pn, dn, kids) ==
    [pos |-> p, thPn |-> pn, thDn |-> dn, kids |-> kids, at |-> 0, best |-> NoMove, pn |-> Inf, dn |-> Inf]

Entry(o, best, pn, dn, depth) ==
    [best |-> best, outcome |-> o, pn |-> pn, dn |-> dn, depth |-> depth, rem |-> Inf]

ProverInit ==
    /\ TableInit
    /\ frames = <<>>
    /\ call = [pos |-> root, thPn |-> Inf, thDn |-> Inf]
    /\ spent = 0 /\ cap = 0
    /\ proved = {} /\ answer = NoOutcome /\ claim = <<>>
    /\ trial = NoTrial /\ step = "idle"

(* What dfpn answers before it looks at the children.                      *)
Foregone(p) ==
    IF Static[p] # NoOutcome THEN [outcome |-> Static[p], depth |-> 0]
    ELSE IF Board[p] \in Path THEN [outcome |-> "Draw", depth |-> 0]
    ELSE LET e == Probe(p)
         IN  [outcome |-> IF e.outcome \in Decisive THEN e.outcome ELSE NoOutcome, depth |-> e.depth]

(* A call ends at once: stopped, or already known.  A terminal would be    *)
(* stored as well, but none is ever called: solve and classify_child have  *)
(* answered it.                                                            *)
EnterAnswered ==
    /\ step = "enter"
    /\ Stop(spent) \/ Foregone(call.pos).outcome # NoOutcome
    /\ LET known == Foregone(call.pos)
           o == IF Stop(spent) THEN "Draw" ELSE known.outcome
       IN  /\ answer' = o
           /\ proved' = proved \cup (IF o \in Decisive THEN {<<call.pos, o, known.depth>>} ELSE {})
    /\ step' = IF frames = <<>> THEN "extract" ELSE "return"
    /\ UNCHANGED <<tt, frames, call, spent, cap, claim, trial, root, upward, late>>

(* Every child is evaluated before the cap is looked at again.             *)
EnterOpen ==
    /\ step = "enter"
    /\ ~Stop(spent) /\ Foregone(call.pos).outcome = NoOutcome
    /\ \E moves \in {Sorted(call.pos)}, path \in {Path \cup {Board[call.pos]}} :
       \E kids \in {Evaluated(moves, path, ~IsOr(Len(frames) + 1))} :
         /\ frames' = Append(frames, Frame(call.pos, call.thPn, call.thDn, kids))
         /\ proved' = proved \cup Events(Range(kids))
         /\ spent' = spent + Len(kids)
    /\ step' = "loop"
    /\ UNCHANGED <<tt, call, cap, answer, claim, trial, root, upward, late>>

(* The end of a frame: its result goes to the table, a draw as open.       *)
Leave(o, best, pn, dn, depth) ==
    /\ Store(Top.pos, IF o \in Decisive
                      THEN Entry(o, best, PnOf(o, IsOr(Len(frames))), DnOf(o, IsOr(Len(frames))), depth)
                      ELSE IF o = "Draw" THEN Entry(NoOutcome, best, 1, 1, depth)
                      ELSE Entry(NoOutcome, best, IF pn = 0 THEN 1 ELSE pn, IF dn = 0 THEN 1 ELSE dn, 0))
    /\ proved' = proved \cup (IF o \in Decisive THEN {<<Top.pos, o, depth>>} ELSE {})
    /\ answer' = IF o \in Decisive THEN o ELSE "Draw"
    /\ frames' = Front(frames)
    /\ step' = IF Len(frames) = 1 THEN "extract" ELSE "return"
    /\ UNCHANGED <<call, spent, cap, claim, trial, root, upward, late>>

LeaveCut ==
    /\ step = "loop" /\ Stop(spent)
    /\ Leave(NoOutcome, Top.best, Top.pn, Top.dn, 0)

LeaveSettled ==
    /\ step = "loop" /\ ~Stop(spent)
    /\ \E found \in {Settles(Top.kids)} :
           /\ found.outcome # NoOutcome
           /\ Leave(found.outcome, found.best, 0, 0, found.depth)

NowPn == PnSum(Top.kids, IsOr(Len(frames)))
NowDn == DnSum(Top.kids, IsOr(Len(frames)))
Beyond == (Top.thPn # Inf /\ NowPn >= Top.thPn) \/ (Top.thDn # Inf /\ NowDn >= Top.thDn)
NextKid == Foremost(Top.kids, OpenIds(Top.kids), IsOr(Len(frames)))

LeaveBeyond ==
    /\ step = "loop" /\ ~Stop(spent) /\ Settles(Top.kids).outcome = NoOutcome /\ Beyond
    /\ Leave(NoOutcome, Top.kids[NextKid].to, NowPn, NowDn, 0)

Descend ==
    /\ step = "loop" /\ ~Stop(spent) /\ Settles(Top.kids).outcome = NoOutcome /\ ~Beyond
    /\ LET isOr == IsOr(Len(frames))
           kid == Top.kids[NextKid]
           tight == EpsCeil(RunnerUp(Top.kids, isOr))
           slack(th, now, own) == IF th = Inf THEN Inf ELSE Minus(th, now) + own
       IN  /\ call' = [pos |-> kid.to,
                       thPn |-> IF isOr THEN Lesser(Top.thPn, tight) ELSE slack(Top.thPn, NowPn, kid.pn),
                       thDn |-> IF isOr THEN slack(Top.thDn, NowDn, kid.dn) ELSE Lesser(Top.thDn, tight)]
           /\ frames' = [frames EXCEPT ![Len(frames)] =
                            [@ EXCEPT !.at = NextKid, !.best = kid.to, !.pn = NowPn, !.dn = NowDn]]
    /\ step' = "enter"
    /\ UNCHANGED <<tt, spent, cap, proved, answer, claim, trial, root, upward, late>>

(* The child is evaluated again; a defence just refuted starts replays.    *)
Return ==
    /\ step = "return"
    /\ LET isOr == IsOr(Len(frames))
           old == Top.kids[Top.at]
       IN  \E kid \in {[Classify(old.to, Path, ~isOr) EXCEPT !.simulated = old.simulated]} :
           /\ frames' = [frames EXCEPT ![Len(frames)].kids[Top.at] = kid]
           /\ proved' = proved \cup Events({kid})
           /\ step' = IF ~isOr /\ kid.outcome = "Win" THEN "replay" ELSE "loop"
    /\ spent' = spent + 1
    /\ UNCHANGED <<tt, call, cap, answer, claim, trial, root, upward, late>>

(* Mutant: a failed replay is tried again.                                 *)
StillOpen == {i \in DOMAIN Top.kids : Top.kids[i].outcome = NoOutcome}

Waiting == {i \in DOMAIN Top.kids : ~Top.kids[i].simulated /\ Top.kids[i].outcome = NoOutcome}

(* run_simulation, the next sibling; each is tried once.                   *)
ReplayStart ==
    /\ step = "replay" /\ Waiting # {}
    /\ LET i == CHOOSE n \in Waiting : \A k \in Waiting : n <= k
       IN  /\ frames' = [frames EXCEPT ![Len(frames)].kids[i].simulated = TRUE]
           /\ trial' = [NoTrial EXCEPT !.kid = i, !.left = SimulationBudget,
                                       !.pos = Top.kids[i].to, !.guide = Top.kids[Top.at].to]
    /\ step' = "call"
    /\ UNCHANGED <<tt, call, spent, cap, proved, answer, claim, root, upward, late>>

(* A replay that fails anywhere fails as a whole.                          *)
GiveUp(n) == step' = "replay" /\ trial' = NoTrial /\ spent' = spent + n
aroundReplay == <<tt, frames, call, cap, answer, claim, root, upward, late>>

(* A proof is at hand: a terminal, or an entry of the table.               *)
CallKnown ==
    /\ step = "call" /\ KnownTo(trial.pos).outcome = Wanted
    /\ LET known == KnownTo(trial.pos)
       IN  /\ proved' = proved \cup {<<trial.pos, Wanted, known.depth>>}
           /\ trial' = [trial EXCEPT !.depth = known.depth, !.best = known.best]
    /\ step' = "answered"
    /\ UNCHANGED <<spent, aroundReplay>>

(* Known otherwise, or out of a budget, or stopped.                        *)
CallFails ==
    /\ step = "call"
    /\ LET known == KnownTo(trial.pos).outcome
       IN  \/ known \notin {Wanted, NoOutcome}
           \/ known = NoOutcome /\ (trial.left = 0 \/ Stop(spent))
    /\ GiveUp(0)
    /\ UNCHANGED <<proved, aroundReplay>>

CallOpen(wanted) ==
    /\ step = "call" /\ Wanted = wanted
    /\ KnownTo(trial.pos).outcome = NoOutcome /\ trial.left > 0 /\ ~Stop(spent)

(* simulate_attacker plays the guide's move, if there is one here too.     *)
AttackFollow ==
    /\ CallOpen("Win")
    /\ LET move == GuideMove(trial.guide)
       IN  /\ move # NoMove /\ Playable(trial.pos, Label[move])
           /\ trial' = [trial EXCEPT !.left = @ - 1, !.pos = Play(trial.pos, Label[move]), !.guide = move,
                                     !.calls = Append(@, Call(Play(trial.pos, Label[move]), <<>>))]
    /\ spent' = spent + 1
    /\ UNCHANGED <<step, proved, aroundReplay>>

(* The guide is won where it stands: so must the position be, at once.     *)
AttackMate ==
    /\ CallOpen("Win")
    /\ GuideMove(trial.guide) = NoMove /\ Static[trial.guide] = "Win"
    /\ LET end == Mate(trial.pos, trial.left - 1)
           n == 1 + Tried(trial.pos, trial.left - 1)
       IN  IF end = NoMove THEN GiveUp(n) /\ UNCHANGED proved
           ELSE /\ proved' = proved \cup MateEvents(trial.pos, end)
                /\ trial' = [trial EXCEPT !.left = @ - 2, !.depth = 1, !.best = end]
                /\ spent' = spent + n /\ step' = "answered"
    /\ UNCHANGED aroundReplay

AttackLost ==
    /\ CallOpen("Win")
    /\ LET move == GuideMove(trial.guide)
       IN  IF move = NoMove THEN Static[trial.guide] # "Win" ELSE ~Playable(trial.pos, Label[move])
    /\ GiveUp(1)
    /\ UNCHANGED <<proved, aroundReplay>>

(* simulate_defender: every reply must be answered.                        *)
Defend ==
    /\ CallOpen("Loss")
    /\ trial' = [trial EXCEPT !.left = @ - 1, !.calls = Append(@, Call(NoMove, Ordered(trial.pos)))]
    /\ step' = "reply" /\ spent' = spent + 1
    /\ UNCHANGED <<proved, aroundReplay>>

(* One reply answered, in so many plies.                                   *)
Answered(calls, depth) ==
    [calls EXCEPT ![Len(calls)].todo = Tail(@), ![Len(calls)].deepest = IF depth > @ THEN depth ELSE @]

(* A reply repeats the line, or ends otherwise than won.                   *)
ReplyFails ==
    /\ step = "reply" /\ Current.todo # <<>>
    /\ LET c == Head(Current.todo)
       IN  Board[c] \in Path \cup Line \/ Static[c] \notin {NoOutcome, "Win"}
    /\ GiveUp(0)
    /\ UNCHANGED <<proved, aroundReplay>>

ReplyEnds ==
    /\ step = "reply" /\ Current.todo # <<>>
    /\ LET c == Head(Current.todo)
       IN  /\ Board[c] \notin Path \cup Line /\ Static[c] = "Win"
           /\ proved' = proved \cup {<<c, "Win", 0>>}
    /\ trial' = [trial EXCEPT !.calls = Answered(@, 0)]
    /\ UNCHANGED <<step, spent, aroundReplay>>

(* A win in one, a proof in the table, or the same reply in the guide.     *)
ReplyOpen ==
    /\ step = "reply" /\ Current.todo # <<>>
    /\ LET c == Head(Current.todo)
           end == Mate(c, trial.left)
           n == Tried(c, trial.left)
           left == IF trial.left = 0 THEN 0 ELSE trial.left - 1
       IN  /\ Board[c] \notin Path \cup Line /\ Static[c] = NoOutcome
           /\ \/ /\ end # NoMove
                 /\ proved' = proved \cup MateEvents(c, end)
                 /\ trial' = [trial EXCEPT !.left = left, !.calls = Answered(@, 1)]
                 /\ spent' = spent + n /\ UNCHANGED step
              \/ /\ end = NoMove /\ Probe(c).outcome = "Win"
                 /\ proved' = proved \cup {<<c, "Win", Probe(c).depth>>}
                 /\ trial' = [trial EXCEPT !.left = left, !.calls = Answered(@, Probe(c).depth)]
                 /\ spent' = spent + n /\ UNCHANGED step
              \/ /\ end = NoMove /\ Probe(c).outcome # "Win" /\ Playable(Current.guide, Label[c])
                 /\ trial' = [trial EXCEPT !.left = left, !.pos = c, !.guide = Play(Current.guide, Label[c])]
                 /\ spent' = spent + n /\ step' = "call" /\ UNCHANGED proved
              \/ /\ end = NoMove /\ Probe(c).outcome # "Win" /\ ~Playable(Current.guide, Label[c])
                 /\ GiveUp(n) /\ UNCHANGED proved
    /\ UNCHANGED aroundReplay

(* A call returns its proof to the one that made it.                       *)
CallReturns(o, depth, best) ==
    /\ proved' = proved \cup {<<Current.pos, o, depth>>}
    /\ trial' = [trial EXCEPT !.pos = Current.pos, !.guide = Current.guide, !.calls = Front(@),
                              !.depth = depth, !.best = best]
    /\ step' = "answered"
    /\ UNCHANGED <<spent, aroundReplay>>

DefendReturns ==
    /\ step = "reply" /\ Current.todo = <<>>
    /\ CallReturns("Loss", Current.deepest + 1, NoMove)

AttackReturns ==
    /\ step = "answered" /\ trial.calls # <<>> /\ Wanted = "Loss"
    /\ CallReturns("Win", trial.depth + 1, Current.best)

ReplyReturns ==
    /\ step = "answered" /\ trial.calls # <<>> /\ Wanted = "Win"
    /\ trial' = [trial EXCEPT !.calls = Answered(@, trial.depth)]
    /\ step' = "reply"
    /\ UNCHANGED <<spent, proved, aroundReplay>>

(* The sibling is won: stored, and nothing of its proof is.                *)
ReplayWon ==
    /\ step = "answered" /\ trial.calls = <<>>
    /\ Store(trial.pos, Entry("Win", trial.best, 0, Inf, trial.depth))
    /\ frames' = [frames EXCEPT ![Len(frames)].kids[trial.kid] =
                     [SolvedKid(trial.pos, "Win", trial.depth, TRUE) EXCEPT !.simulated = TRUE]]
    /\ step' = "replay" /\ trial' = NoTrial
    /\ UNCHANGED <<call, spent, cap, proved, answer, claim, root, upward, late>>

ReplaysDone ==
    /\ step = "replay" /\ Waiting = {}
    /\ step' = "loop"
    /\ UNCHANGED <<tt, frames, call, spent, cap, proved, answer, claim, trial, root, upward, late>>

(* extract_pv: the solved best moves from the root on; validate_win: the   *)
(* line must end in a terminal win of the root's side.                     *)
Longer(line) ==
    LET p == IF line = <<>> THEN root ELSE Last(line)
        e == Probe(p)
    IN  IF Static[p] # NoOutcome \/ e.outcome # (IF Len(line) % 2 = 0 THEN "Win" ELSE "Loss") \/ e.best \notin Succ[p]
        THEN line ELSE Append(line, e.best)
BestLine ==
    LET line[n \in 0 .. PvMax] == IF n = 0 THEN <<>> ELSE With(line[n - 1], Longer)
    IN  line[PvMax]
ValidWin(pv) ==
    pv # <<>> /\ Static[Last(pv)] = (IF Len(pv) % 2 = 0 THEN "Win" ELSE "Loss")

Extract ==
    /\ step = "extract"
    /\ \E pv \in {BestLine} :
          claim' = IF answer = "Win" /\ ValidWin(pv) THEN pv ELSE <<>>
    /\ step' = "finished"
    /\ UNCHANGED <<tt, frames, call, spent, cap, proved, answer, trial, root, upward, late>>

ProverStep ==
    \/ EnterAnswered \/ EnterOpen \/ LeaveCut \/ LeaveSettled \/ LeaveBeyond
    \/ Descend \/ Return \/ ReplayStart \/ CallKnown \/ CallFails
    \/ AttackFollow \/ AttackMate \/ AttackLost \/ AttackReturns
    \/ Defend \/ ReplyFails \/ ReplyEnds \/ ReplyOpen \/ ReplyReturns \/ DefendReturns
    \/ ReplayWon \/ ReplaysDone \/ Extract
=============================================================================
