------------------------------ MODULE Prephases ------------------------------
(***************************************************************************)
(* What a solve does before its main search (solve_with_progress): the win *)
(* front-end, the cheap probe, the pre-phase.  Each may end the run or     *)
(* leave it to the next, and each is charged to the one budget.            *)
(*                                                                         *)
(* The probe and the main search are searches of the kind DfpnSearch       *)
(* models; here they answer the truth, or Draw when cut.                   *)
(***************************************************************************)
EXTENDS WinProver, Preflight

CONSTANTS
    Roots,        \* the positions solved
    Options,      \* the sets of enabled stages
    Budgets,      \* values of child_eval_budget
    FrontBudget,  \* win_front_end_budget
    ProbeCap,     \* CHEAP_PROBE_EVAL_CAP
    Detected,     \* the boards detector_applies accepts
    BoardAt,      \* BoardAt[p]: the board of p
    ClockAt,      \* ClockAt[p]: its rule-50 clock
    Truth,        \* Truth[p]: what the side to move can force
    Distance,     \* Distance[p]: in how many plies
    MaxMoves      \* the most moves a position has

ASSUME StagesAssumption ==
    /\ Roots \subseteq Pos /\ Budgets \subseteq Nat /\ FrontBudget \in Nat /\ ProbeCap \in Nat
    /\ MaxMoves \in Nat \ {0} /\ \A p \in Pos : Len(ByLabel[p]) <= MaxMoves

(* The rules.  Whoever can move to a lost position has won, as soon as     *)
(* that; who can only move to won ones has lost, as late as that.          *)
ASSUME RulesAssumption ==
    \A p \in Pos :
        /\ Distance[p] \in Nat
        /\ Static[p] # NoOutcome => Truth[p] = Static[p] /\ Distance[p] = 0
        /\ Static[p] = NoOutcome =>
              Truth[p] = IF \E c \in Succ[p] : Truth[c] = "Loss" THEN "Win"
                         ELSE IF \A c \in Succ[p] : Truth[c] = "Win" THEN "Loss" ELSE "Draw"
        /\ Static[p] = NoOutcome /\ Truth[p] = "Win" =>
              /\ \E c \in Succ[p] : Truth[c] = "Loss" /\ Distance[p] = Distance[c] + 1
              /\ \A c \in Succ[p] : Truth[c] = "Loss" => Distance[p] <= Distance[c] + 1
        /\ Static[p] = NoOutcome /\ Truth[p] = "Loss" =>
              /\ \E c \in Succ[p] : Distance[p] = Distance[c] + 1
              /\ \A c \in Succ[p] : Distance[p] >= Distance[c] + 1

(* Positions and boards.  A board that ends the game ends it whatever the  *)
(* clock says; any other ends only with the clock, which a move sets back  *)
(* or moves on by one.                                                     *)
ASSUME BoardsAssumption ==
    \A p \in Pos :
        /\ BoardAt[p] \in Boards /\ ClockAt[p] \in Nat
        /\ {BoardAt[c] : c \in Succ[p]} = Range(Next[BoardAt[p]])
        /\ \A c \in Succ[p] : ClockAt[c] <= ClockAt[p] + 1
        /\ End[BoardAt[p]] # "None" => Static[p] = End[BoardAt[p]]
        /\ End[BoardAt[p]] = "None" =>
              Static[p] \in {NoOutcome, "Draw"} /\ (ClockAt[p] < ClockLimit => Static[p] = NoOutcome)

VARIABLES
    phase,    \* "front", "probe", "preflight", "general", "done"
    enabled,  \* win_front_end_enabled, preflight_enabled
    budget,   \* child_eval_budget as set
    limit,    \* child_eval_budget of the current stage
    charged,  \* child_evals
    report,   \* preflight_report
    result    \* what solve returns, and the stage that answered

pipeVars == <<phase, enabled, budget, limit, charged, report, result>>
vars == <<proverVars, root, upward, late, preflightVars, pipeVars>>

NoReport == [reason |-> "", evals |-> 0]
Unsettled == [by |-> "none", outcome |-> NoOutcome, pv |-> <<>>]
Answer(by, o, pv) == [by |-> by, outcome |-> o, pv |-> pv]

Init ==
    /\ root \in Roots /\ upward \in BOOLEAN /\ late = "no"
    /\ ProverInit /\ PreflightInit
    /\ phase = "front" /\ enabled \in Options
    /\ budget \in Budgets /\ limit = budget
    /\ charged = 0 /\ report = NoReport /\ result = Unsettled

(* The deadline passes, or the stop flag is raised, at any time.           *)
Hurry ==
    /\ late = "no" /\ phase # "done"
    /\ late' \in {"deadline", "stop"}
    /\ UNCHANGED <<proverVars, root, upward, preflightVars, pipeVars>>

-----------------------------------------------------------------------------
(* The front-end.                                                          *)

FrontCap == Lesser(FrontBudget, budget)

FrontSkipped ==
    /\ phase = "front" /\ step = "idle"
    /\ "front" \notin enabled \/ Static[root] # NoOutcome \/ late # "no" \/ FrontCap = 0
    /\ phase' = "probe"
    /\ UNCHANGED <<proverVars, root, upward, late, preflightVars, enabled, budget, limit, charged, report, result>>

FrontStart ==
    /\ phase = "front" /\ step = "idle"
    /\ "front" \in enabled /\ Static[root] = NoOutcome /\ late = "no" /\ FrontCap > 0
    /\ step' = "enter" /\ cap' = FrontCap
    /\ UNCHANGED <<tt, frames, call, spent, proved, answer, claim, trial, root, upward, late, preflightVars, pipeVars>>

FrontStep ==
    /\ phase = "front" /\ ProverStep
    /\ UNCHANGED <<preflightVars, pipeVars>>

(* The budget of the stages behind the front-end.                          *)
(* Mutant: the front-end's work is not charged.                            *)
Whole(evals) == budget

Shrunk(evals) == Minus(budget, evals)

FrontDone ==
    /\ phase = "front" /\ step = "finished"
    /\ IF claim # <<>>
       THEN phase' = "done" /\ result' = Answer("front", "Win", claim) /\ UNCHANGED limit
       ELSE phase' = "probe" /\ limit' = Shrunk(spent) /\ UNCHANGED result
    /\ Forget
    /\ UNCHANGED <<frames, call, spent, cap, proved, answer, claim, trial, step, root, upward, late, preflightVars,
                   enabled, budget, charged, report>>

-----------------------------------------------------------------------------
(* The probe, a gate: a decision of it only skips the pre-phase.           *)

ProbeRuns == /\ "preflight" \in enabled /\ Static[root] = NoOutcome /\ BoardAt[root] \in Detected
             /\ Lesser(limit, ProbeCap) > 0 /\ late = "no"

ProbeSkipped ==
    /\ phase = "probe" /\ ~ProbeRuns
    /\ phase' = "preflight"
    /\ UNCHANGED <<proverVars, root, upward, late, preflightVars, enabled, budget, limit, charged, report, result>>

(* A cut probe answers Draw after its cap, which a sweep of the moves of   *)
(* one position can cross; a decisive one may stop anywhere.               *)
Probed ==
    /\ phase = "probe" /\ ProbeRuns
    /\ \E n \in {1, Lesser(limit, ProbeCap), Lesser(limit, ProbeCap) + MaxMoves - 1} :
       \E o \in {Truth[root], "Draw"} :
         /\ charged' = charged + n
         /\ IF o = "Draw" THEN phase' = "preflight" /\ UNCHANGED report
            ELSE phase' = "general" /\ report' = [reason |-> "probe-solved", evals |-> n]
    /\ UNCHANGED <<proverVars, root, upward, late, preflightVars, enabled, budget, limit, result>>

-----------------------------------------------------------------------------
(* The pre-phase.  It looks at the stop flag, never at the clock.          *)

PreflightSkipped ==
    /\ phase = "preflight" /\ stage = "off"
    /\ "preflight" \notin enabled \/ BoardAt[root] \notin Detected
    /\ report' = [reason |-> IF "preflight" \in enabled THEN "detector" ELSE "disabled", evals |-> charged]
    /\ phase' = "general"
    /\ UNCHANGED <<proverVars, root, upward, late, preflightVars, enabled, budget, limit, charged, result>>

PreflightStart ==
    /\ phase = "preflight" /\ stage = "off"
    /\ "preflight" \in enabled /\ BoardAt[root] \in Detected
    /\ Launch(BoardAt[root], Minus(limit, charged))
    /\ UNCHANGED <<proverVars, root, upward, late, pipeVars>>

PreflightRuns ==
    /\ phase = "preflight" /\ PreflightStep(ClockAt[root], late = "stop")
    /\ UNCHANGED <<proverVars, root, upward, late, pipeVars>>

Flip(o) == IF o = "Win" THEN "Loss" ELSE "Win"

(* validate_pv: the line replays to an end of the claimed outcome.         *)
LineEnd(line) ==
    LET at[n \in 0 .. Len(line)] ==
            IF n = 0 THEN root
            ELSE With(at[n - 1], LAMBDA p :
                    IF p # NoMove /\ \E c \in Succ[p] : BoardAt[c] = line[n]
                    THEN CHOOSE c \in Succ[p] : BoardAt[c] = line[n] ELSE NoMove)
    IN  IF at[Len(line)] = NoMove THEN NoOutcome ELSE Static[at[Len(line)]]
Flipped(o, n) == IF n % 2 = 0 THEN o ELSE Flip(o)
PvHolds == \/ verdict.outcome = "Draw"
           \/ LineEnd(verdict.pv) = Flipped(verdict.outcome, Len(verdict.pv))

PreflightDone ==
    /\ phase = "preflight" /\ stage = "over"
    /\ charged' = charged + used
    /\ \E won \in {verdict.outcome # "None" /\ PvHolds} :
           /\ report' = [reason |-> IF verdict.outcome = "None" THEN verdict.reason
                                    ELSE IF won THEN "" ELSE "cert-fail",
                         evals |-> charged + used]
           /\ phase' = IF won THEN "done" ELSE "general"
           /\ result' = IF won THEN Answer("preflight", verdict.outcome, verdict.pv) ELSE result
    /\ UNCHANGED <<proverVars, root, upward, late, preflightVars, enabled, budget, limit>>

-----------------------------------------------------------------------------
(* The main search: Draw when it is cut at once, else the truth or a cut.  *)

General ==
    /\ phase = "general"
    /\ phase' = "done"
    /\ \E o \in {"Draw"} \cup (IF late = "no" /\ charged < limit THEN {Truth[root]} ELSE {}) :
         result' = Answer("general", o, <<>>)
    /\ UNCHANGED <<proverVars, root, upward, late, preflightVars, enabled, budget, limit, charged, report>>

Pipeline ==
    \/ FrontSkipped \/ FrontStart \/ FrontStep \/ FrontDone
    \/ ProbeSkipped \/ Probed
    \/ PreflightSkipped \/ PreflightStart \/ PreflightRuns \/ PreflightDone
    \/ General

NextStep == Hurry \/ Pipeline
Spec == Init /\ [][NextStep]_vars /\ WF_vars(Pipeline)

-----------------------------------------------------------------------------
TypeOK ==
    /\ root \in Pos /\ late \in {"no", "deadline", "stop"}
    /\ phase \in {"front", "probe", "preflight", "general", "done"}
    /\ spent \in Nat /\ used \in Nat /\ charged \in Nat /\ limit \in 0 .. budget
    /\ \A i \in DOMAIN frames : frames[i].pos \in Pos
    /\ DOMAIN tt \subseteq Pos

(* Whatever the front-end has searched, repeated or replayed, its scratch  *)
(* table decides a position as the rules do (children.rs: only             *)
(* path-independent results are stored; simulation.rs: a replay is exact). *)
ScratchSound == \A p \in DOMAIN tt : tt[p].outcome \in Decisive => tt[p].outcome = Truth[p]

(* The proof events form a proof: a reported win has a reported lost       *)
(* child, and of a reported loss every child is reported won.  The tree    *)
(* worker builds on it (children.rs, the comment in evaluate_child).       *)
ProofChained ==
    LET said(o) == {e[1] : e \in {x \in proved : x[2] = o}}
    IN  /\ \A p \in said("Win") : Static[p] = "Win" \/ Succ[p] \cap said("Loss") # {}
        /\ \A p \in said("Loss") : Static[p] = "Loss" \/ (Static[p] = NoOutcome /\ Succ[p] \subseteq said("Win"))

(* What the front-end stores and reports is proved (children.rs,           *)
(* simulation.rs).                                                         *)
ProverSound == ScratchSound /\ ProofChained

(* An answer given before the main search is the true one under rule 50,   *)
(* though the pre-phase looks at boards without their clock (D2, D3).      *)
AnswerTrue == result.by \in {"front", "preflight"} => result.outcome = Truth[root]

(* The rank of a decisive answer of the pre-phase is the distance of the   *)
(* end, and its line a line of that length (region.rs, line_to_moves).     *)
RankExact ==
    verdict.outcome \in Decisive =>
        /\ verdict.rank = Distance[root] /\ Len(verdict.pv) = verdict.rank
        /\ PvHolds

(* The replay of a strategy rejects one that gives the win away on any     *)
(* single board it comes to (verifier.rs replay_walk).                     *)
VerifierStrict ==
    stage = "verify" =>
        \A b \in DOMAIN strategy : \A j \in DOMAIN kids[NodeOf(keys, b)] :
            val[kids[NodeOf(keys, b)][j]] # "Loss" =>
                ~Verified([strategy EXCEPT ![b] = Next[b][j]], dist[1], used).ok

(* The strategy built is never rejected: a pre-phase that gives up its     *)
(* certificate has run out of budget.                                      *)
CertificateHolds ==
    stage = "over" /\ verdict.reason = "cert-fail" => used >= quota

(* The pre-phase claims the exact distance, and its replay accepts the     *)
(* right strategy and no other (region.rs, verifier.rs).                   *)
PreflightExact == RankExact /\ VerifierStrict /\ CertificateHolds

(* All stages together keep to the budget but for what one of them may     *)
(* cross it by.  A replay started below the cap runs on through its own    *)
(* budget, scans of the moves included; and behind the cap every call on   *)
(* the stack still evaluates the child it returns from once more.          *)
Depth == Cardinality({Board[p] : p \in {x \in Pos : Static[x] = NoOutcome}})
Overshoot == SimulationBudget * MaxMoves + Depth
WithinBudget == spent + charged <= budget + Overshoot

(* The budget survives being swapped and shrunk between the stages: no     *)
(* counter leaves its range, no stage gets more than is left (run.rs, R4). *)
BudgetKept == TypeOK /\ WithinBudget

(* Every solve gets through its stages.                                    *)
PrephasesEnd == <>(phase = "done")

(* What plan4.md says of a replay: the front-end still returns a win once  *)
(* its search has proved one.                                              *)
ProvedWinClaimed == step = "finished" /\ answer = "Win" => claim # <<>>
=============================================================================
