--------------------------------- MODULE Solve ---------------------------------
(***************************************************************************)
(* solve_general (src/src/search/dfpn/run.rs): the first bounded search is *)
(* unbounded in depth; while it answers Win or Loss, rounds bounded by two *)
(* plies less than the principal variation look for a shorter line.  Every *)
(* round runs on the transposition table and the repetition cache the      *)
(* earlier ones left.  The length of a line is read off the table by       *)
(* extract_pv (pv.rs).                                                     *)
(*                                                                         *)
(* A round is DfpnSearch; its Init and Bounds = {PlyMax}, RoundCaps =      *)
(* {SliceMax} give the first one.  The optional pre-phases (win front-end, *)
(* cheap probe, preflight) are not modelled.                               *)
(***************************************************************************)
EXTENDS DfpnSearch

CONSTANTS
    MaxPly,             \* max_ply, the longest line extract_pv follows
    CapNum, CapDen,     \* refine_cap_factor
    CapMin,             \* refine_cap_min
    FirstOnly           \* first_outcome_only

ASSUME SolveAssumption ==
    /\ MaxPly \in 1 .. PlyMax /\ CapNum \in Nat /\ CapDen \in Nat \ {0} /\ CapMin \in Nat
    /\ FirstOnly \in BOOLEAN

VARIABLES
    phase,      \* "first" or "refine" while a round runs, "between", "solved"
    best,       \* the best line so far: its outcome and its length
    improved,   \* some refinement round shortened the line
    firstEvals, \* first_outcome_evals
    status      \* pv_status

solveVars == <<phase, best, improved, firstEvals, status>>

-----------------------------------------------------------------------------
Flip(o) == CASE o = "Win" -> "Loss" [] o = "Loss" -> "Win" [] OTHER -> o

(* extract_pv: from the root along the stored best moves, while the        *)
(* entries' outcomes alternate and no board comes back.                    *)
Expected(k) == LET o == Probe(round.root).outcome IN IF k % 2 = 0 THEN o ELSE Flip(o)
Follows(l) ==
    LET p == l[Len(l)]
    IN  /\ \A j \in 1 .. Len(l) - 1 : Board[l[j]] # Board[p]
        /\ Static[p] = NoOutcome
        /\ Solved(Probe(p)) /\ Probe(p).outcome = Expected(Len(l) - 1)
        /\ Probe(p).best # NoMove
Longer(l) == IF Follows(l) THEN Append(l, Probe(l[Len(l)]).best) ELSE l
(* The one line after k moves or fewer, in a set so that it is built once. *)
Lines[k \in 0 .. MaxPly] ==
    IF k = 0 THEN {<<round.root>>} ELSE {Longer(l) : l \in Lines[k - 1]}
Pv == CHOOSE l \in Lines[MaxPly] : TRUE
PvLength == Len(Pv) - 1

(* refinement_round_cap; CapMin = SliceMax stands for an uncapped round.   *)
RoundCapNow ==
    LET scaled == (firstEvals * CapNum) \div CapDen
    IN  IF CapMin = SliceMax THEN SliceMax
        ELSE IF scaled >= CapMin THEN scaled ELSE CapMin

SolveInit ==
    /\ Init
    /\ phase = "first"
    /\ best = [outcome |-> "Draw", length |-> 0]
    /\ improved = FALSE
    /\ firstEvals = 0
    /\ status = "None"

(* A step of the round that is running.                                    *)
InRound ==
    /\ phase \in {"first", "refine"}
    /\ Search
    /\ UNCHANGED solveVars

FirstDone ==
    /\ phase = "first" /\ pc = "done"
    /\ phase' = "between"
    /\ best' = [outcome |-> result, length |-> PvLength]
    /\ firstEvals' = evals
    /\ UNCHANGED <<vars, improved, status>>

Refinable ==
    ~FirstOnly /\ best.outcome # "Draw" /\ best.length > 2 /\ ~OutOfResources

StartRound ==
    /\ phase = "between" /\ Refinable
    /\ phase' = "refine"
    /\ round' = Round(round.root, best.length - 2, RoundCapNow, evals)
    /\ result' = "Draw"
    /\ ended' = "running"
    /\ pc' = "chunk"
    /\ UNCHANGED <<tt, repCache, stack, call, evals, late, best, improved, firstEvals, status>>

Improves == result # "Draw" /\ PvLength < best.length

RoundImproved ==
    /\ phase = "refine" /\ pc = "done" /\ Improves
    /\ phase' = "between"
    /\ best' = [outcome |-> result, length |-> PvLength]
    /\ improved' = TRUE
    /\ UNCHANGED <<vars, firstEvals, status>>

RoundFailed ==
    /\ phase = "refine" /\ pc = "done" /\ ~Improves
    /\ phase' = "solved"
    /\ status' = IF result = "Draw" /\ ended = "Exhausted"
                 THEN "ProvenShortest" ELSE "Unproven"
    /\ UNCHANGED <<vars, best, improved, firstEvals>>

(* The loop of rounds ends by its own condition.                           *)
RoundsOver ==
    /\ phase = "between" /\ ~Refinable
    /\ phase' = "solved"
    /\ status' = IF best.outcome = "Draw" THEN "None"
                 ELSE IF best.length <= 2 THEN "ProvenShortest"
                 ELSE IF improved THEN "Unproven" ELSE "FirstOutcome"
    /\ UNCHANGED <<vars, best, improved, firstEvals>>

(* solve_general returns; the next solve is another behaviour.             *)
Returned == phase = "solved" /\ UNCHANGED <<vars, solveVars>>

Solving == InRound \/ FirstDone \/ StartRound \/ RoundImproved \/ RoundFailed \/ RoundsOver

SolveNext == Solving \/ (Timeout /\ UNCHANGED solveVars) \/ Returned

SolveSpec == SolveInit /\ [][SolveNext]_<<vars, solveVars>>
             /\ WF_<<vars, solveVars>>(Solving)

-----------------------------------------------------------------------------
(* Without evictions the line behind a decisive answer is whole: it runs   *)
(* from the root to the end of a game that the answer says is reached.     *)
PvComplete ==
    phase = "between" /\ best.outcome \in Decisive =>
        LET end == Pv[Len(Pv)]
        IN  Static[end] = IF PvLength % 2 = 0 THEN best.outcome ELSE Flip(best.outcome)

(* A refinement round that cannot succeed is abandoned after its cap: it   *)
(* is enforced only through the slices, so chunk by chunk.                 *)
RoundOvershoot ==
    phase = "refine" => evals - round.begin <= round.cap + Widest - 1

(* solve returns.                                                          *)
SolveTerminates == <>(phase = "solved")

=============================================================================
