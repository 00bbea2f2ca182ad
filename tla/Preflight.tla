----------------------------- MODULE Preflight -----------------------------
(***************************************************************************)
(* The bounded pre-phase for small decisive regions (search/preflight):    *)
(* the closure of the root's board, an AND/OR fixpoint with exact          *)
(* distances over it, the rank guard, a strategy, its replay, a line.      *)
(*                                                                         *)
(* The pre-phase sees boards, not clocks.  Nodes are numbered in the order *)
(* the closure finds them, as in the code's arrays; one action is one      *)
(* expansion, one sweep of a fixpoint, or one of the closing stages.       *)
(***************************************************************************)
EXTENDS Integers, Sequences, FiniteSets, SequencesExt, Eager

CONSTANTS
    Next,         \* Next[b]: the boards after each move from b, in move order
    End,          \* End[b]: the outcome of a terminal board, clock aside, or "None"
    RegionBudget, \* REGION_BUDGET
    ClockLimit    \* the rule-50 limit, 100 half-moves

Boards == DOMAIN Next

ASSUME RegionAssumption ==
    /\ RegionBudget \in Nat \ {0} /\ ClockLimit \in Nat \ {0}
    /\ DOMAIN End = Boards
    /\ \A b \in Boards : /\ Next[b] \in Seq(Boards)
                         /\ End[b] \in {"Win", "Loss", "Draw", "None"}
                         /\ End[b] = "None" => Next[b] # <<>>

VARIABLES
    stage,     \* "off", "expand", "values", "distances", "judge", "verify", "line", "over"
    keys,      \* the boards found
    head,      \* how many of them have been expanded
    kids,      \* kids[i]: the nodes after each move from node i
    val,       \* val[i]: "Win", "Loss", "Draw" or "open"
    dist,      \* dist[i]: the distance to the end
    strategy,  \* the winner's choice on each board it needs one
    principal, \* the principal line, as far as it has been followed
    used,      \* child evaluations of the pre-phase
    quota,     \* eval_budget
    verdict    \* what run returned

preflightVars == <<stage, keys, head, kids, val, dist, strategy, principal, used, quota, verdict>>

Nothing == [reason |-> "", outcome |-> "None", rank |-> 0, pv |-> <<>>]
Deferred(reason) == [Nothing EXCEPT !.reason = reason]
Claimed(o, rank, pv) == [reason |-> "", outcome |-> o, rank |-> rank, pv |-> pv]

PreflightInit ==
    /\ stage = "off"
    /\ keys = <<>> /\ head = 0 /\ kids = <<>> /\ val = <<>> /\ dist = <<>>
    /\ strategy = <<>> /\ principal = <<>>
    /\ used = 0 /\ quota = 0
    /\ verdict = Nothing

(* The start of run, its detector test passed: the root alone.             *)
Launch(board, budget) ==
    /\ stage' = "expand"
    /\ keys' = <<board>>
    /\ quota' = budget
    /\ UNCHANGED <<head, kids, val, dist, strategy, principal, used, verdict>>

Exit(v) == stage' = "over" /\ verdict' = v

-----------------------------------------------------------------------------
(* The closure.                                                            *)

NodeOf(ks, b) == CHOOSE i \in DOMAIN ks : ks[i] = b
WithKey(before, b) == With(before, LAMBDA ks : IF b \in Range(ks) THEN ks ELSE Append(ks, b))

(* The moves of one node: each an evaluation, and the one that spends the  *)
(* budget yields nothing and ends the node.                                *)
Branches(b) == IF End[b] = "None" THEN Next[b] ELSE <<>>
Affordable(n) ==
    LET room == quota - used - 1
    IN  IF room >= n THEN n ELSE IF room > 0 THEN room ELSE 0
Found(moves, n) ==
    LET found[k \in 0 .. n] == IF k = 0 THEN keys ELSE WithKey(found[k - 1], moves[k])
    IN  found[n]

Expand(stopped) ==
    /\ stage = "expand" /\ head < Len(keys)
    /\ IF stopped THEN Exit(Deferred("stop")) /\ UNCHANGED <<keys, head, kids, used>>
       ELSE \E moves \in {Branches(keys[head + 1])} : \E n \in {Affordable(Len(moves))} :
            \E ks \in {Found(moves, n)} :
              /\ keys' = ks /\ head' = head + 1
              /\ kids' = Append(kids, [i \in 1 .. n |-> NodeOf(ks, moves[i])])
              /\ used' = used + (IF n < Len(moves) THEN n + 1 ELSE n)
              /\ IF n < Len(moves) THEN Exit(Deferred("eval-budget"))
                 ELSE IF Len(ks) > RegionBudget THEN Exit(Deferred("region-budget"))
                 ELSE UNCHANGED <<stage, verdict>>
    /\ UNCHANGED <<val, dist, strategy, principal, quota>>

Closed ==
    /\ stage = "expand" /\ head = Len(keys)
    /\ stage' = "values"
    /\ val' = [i \in DOMAIN keys |-> IF End[keys[i]] = "None" THEN "open" ELSE End[keys[i]]]
    /\ dist' = [i \in DOMAIN keys |-> 0]
    /\ UNCHANGED <<keys, head, kids, strategy, principal, used, quota, verdict>>

-----------------------------------------------------------------------------
(* The fixpoints, one sweep in place at a time.                            *)

Sweep(v, From(_, _)) ==
    LET after[i \in 0 .. Len(keys)] ==
            IF i = 0 THEN v ELSE With(after[i - 1], LAMBDA w : [w EXCEPT ![i] = From(w, i)])
    IN  after[Len(keys)]

ValueFrom(v, i) ==
    IF v[i] # "open" THEN v[i]
    ELSE IF \E k \in Range(kids[i]) : v[k] = "Loss" THEN "Win"
    ELSE IF \A k \in Range(kids[i]) : v[k] = "Win" THEN "Loss" ELSE "open"

SweepValues ==
    /\ stage = "values"
    /\ \E v \in {Sweep(val, ValueFrom)} :
         IF v = val THEN /\ val' = [i \in DOMAIN val |-> IF val[i] = "open" THEN "Draw" ELSE val[i]]
                         /\ stage' = "distances"
         ELSE val' = v /\ UNCHANGED stage
    /\ UNCHANGED <<keys, head, kids, dist, strategy, principal, used, quota, verdict>>

Least(S) == CHOOSE n \in S : \A m \in S : n <= m
Greatest(S) == CHOOSE n \in S : \A m \in S : n >= m

DistFrom(d, i) ==
    IF kids[i] = <<>> THEN 0
    ELSE IF val[i] = "Win" THEN 1 + Least({d[k] : k \in {x \in Range(kids[i]) : val[x] = "Loss"}})
    ELSE IF val[i] = "Loss" THEN 1 + Greatest({d[k] : k \in Range(kids[i])})
    ELSE 0

SweepDistances ==
    /\ stage = "distances"
    /\ \E d \in {Sweep(dist, DistFrom)} :
         IF d = dist THEN stage' = "judge" /\ UNCHANGED dist ELSE dist' = d /\ UNCHANGED stage
    /\ UNCHANGED <<keys, head, kids, val, strategy, principal, used, quota, verdict>>

-----------------------------------------------------------------------------
(* The claim.                                                              *)

(* The first losing child one ply nearer to the end.                       *)
Chosen(i) ==
    LET near == {j \in DOMAIN kids[i] : val[kids[i][j]] = "Loss" /\ dist[kids[i][j]] + 1 = dist[i]}
    IN  kids[i][Least(near)]

(* The nodes the strategy walks over: one child of a win, all of a loss.   *)
(* No line of them is longer than the distance of the root.                *)
Onward(w) == w \cup UNION {IF End[keys[i]] # "None" THEN {}
                           ELSE IF val[i] = "Win" THEN {Chosen(i)} ELSE Range(kids[i]) : i \in w}
Walked ==
    LET after[i \in 0 .. dist[1]] == IF i = 0 THEN {1} ELSE With(after[i - 1], Onward)
    IN  after[dist[1]]
BuiltStrategy ==
    LET needs == {i \in Walked : val[i] = "Win" /\ End[keys[i]] = "None"}
    IN  [b \in {keys[i] : i \in needs} |-> keys[Chosen(NodeOf(keys, b))]]

(* Mutant: the clock the root starts with is forgotten.                    *)
FromZero(clock, rank) == rank <= ClockLimit - 1

(* The guard on the clock: the claim must hold before rule 50 ends it.     *)
InTime(clock, rank) == clock + rank <= ClockLimit - 1

Judge(clock) ==
    /\ stage = "judge"
    /\ IF val[1] = "Draw" THEN Exit(Claimed("Draw", 0, <<>>)) /\ UNCHANGED strategy
       ELSE IF ~InTime(clock, dist[1]) THEN Exit(Deferred("rank-guard")) /\ UNCHANGED strategy
       ELSE strategy' = BuiltStrategy /\ stage' = "verify" /\ UNCHANGED verdict
    /\ UNCHANGED <<keys, head, kids, val, dist, principal, used, quota>>

(* replay_walk: the strategy's move is looked for among the winner's       *)
(* moves, one evaluation each; every reply of the loser is followed; no    *)
(* board may repeat on a line, and the line must be won within the bound.  *)
Walk(ok, evals, aborted) == [ok |-> ok, evals |-> evals, aborted |-> aborted]
IndexOf(moves, b) == IF b \in Range(moves) THEN Least({i \in DOMAIN moves : moves[i] = b}) ELSE Len(moves) + 1

(* Mutant: only the loser's first reply is followed.                       *)
FirstReply(moves) == IF moves = <<>> THEN <<>> ELSE <<moves[1]>>
LoserReplies(moves) == moves

(* `at` is the line played so far and the evaluations spent; `walk` the    *)
(* walk from a longer line.                                                *)
Onto(at, b, n) == [line |-> Append(at.line, b), evals |-> at.evals + n]

Covered(walk, at, moves) ==
    LET after[n \in 0 .. Len(moves)] ==
            IF n = 0 THEN Walk(TRUE, at.evals, FALSE)
            ELSE With(after[n - 1], LAMBDA w :
                    IF ~w.ok THEN w
                    ELSE IF w.evals + 1 >= quota THEN Walk(FALSE, w.evals + 1, TRUE)
                    ELSE IF moves[n] \in Range(at.line) THEN Walk(FALSE, w.evals + 1, FALSE)
                    ELSE walk[Onto([at EXCEPT !.evals = w.evals], moves[n], 1)])
    IN  after[Len(moves)]

Visit(walk, plan, rank, at) ==
    LET b == Last(at.line)
        ours == (val[1] = "Win") = (Len(at.line) % 2 = 1)
        moves == Next[b]
        tried == IndexOf(moves, plan[b])
    IN  IF End[b] # "None" THEN Walk(End[b] = (IF ours THEN "Win" ELSE "Loss"), at.evals, FALSE)
        ELSE IF Len(at.line) > rank THEN Walk(FALSE, at.evals, FALSE)
        ELSE IF ~ours THEN Covered(walk, at, LoserReplies(moves))
        ELSE IF b \notin DOMAIN plan THEN Walk(FALSE, at.evals, FALSE)
        ELSE IF at.evals + tried >= quota /\ quota <= at.evals + Len(moves) THEN Walk(FALSE, quota, TRUE)
        ELSE IF tried > Len(moves) THEN Walk(FALSE, at.evals + Len(moves), FALSE)
        ELSE IF plan[b] \in Range(at.line) THEN Walk(FALSE, at.evals + tried, FALSE)
        ELSE walk[Onto(at, plan[b], tried)]

Places == [line : Seq(Boards) \ {<<>>}, evals : Nat]
Verified(plan, rank, evals) ==
    LET walk[at \in Places] == Visit(walk, plan, rank, at)
    IN  walk[[line |-> <<keys[1]>>, evals |-> evals]]

Verify ==
    /\ stage = "verify"
    /\ \E w \in {Verified(strategy, dist[1], used)} :
         /\ used' = w.evals
         /\ IF w.ok THEN stage' = "line" /\ UNCHANGED verdict
            ELSE IF w.aborted THEN Exit(Deferred(IF w.evals >= quota THEN "eval-budget" ELSE "stop"))
            ELSE Exit(Deferred("cert-fail"))
    /\ UNCHANGED <<keys, head, kids, val, dist, strategy, principal, quota>>

(* principal_line: the nearest win, the longest resistance.                *)
Tip == IF principal = <<>> THEN 1 ELSE NodeOf(keys, Last(principal))
Ahead(i) ==
    LET far == {j \in DOMAIN kids[i] : \A m \in DOMAIN kids[i] : dist[kids[i][m]] <= dist[kids[i][j]]}
    IN  IF val[i] = "Win" THEN Chosen(i) ELSE kids[i][Least(far)]

(* One ply of it; line_to_moves, a second loop of the code, looks for each *)
(* board of the line among the moves.                                      *)
Ply ==
    /\ stage = "line" /\ End[keys[Tip]] = "None"
    /\ LET to == keys[Ahead(Tip)]
           tried == IndexOf(Next[keys[Tip]], to)
       IN  IF used + tried >= quota
           THEN Exit(Deferred("cert-fail")) /\ used' = quota /\ UNCHANGED principal
           ELSE used' = used + tried /\ principal' = Append(principal, to) /\ UNCHANGED <<stage, verdict>>
    /\ UNCHANGED <<keys, head, kids, val, dist, strategy, quota>>

Conclude ==
    /\ stage = "line" /\ End[keys[Tip]] # "None"
    /\ Exit(IF Len(principal) = dist[1] THEN Claimed(val[1], dist[1], principal) ELSE Deferred("cert-fail"))
    /\ UNCHANGED <<keys, head, kids, val, dist, strategy, principal, used, quota>>

PreflightStep(clock, stopped) ==
    \/ Expand(stopped) \/ Closed \/ SweepValues \/ SweepDistances
    \/ Judge(clock) \/ Verify \/ Ply \/ Conclude
=============================================================================
