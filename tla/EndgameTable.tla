---------------------------- MODULE EndgameTable ----------------------------
(***************************************************************************)
(* The generator of three-man endgame tables (examples/egtb_gen3): one     *)
(* table per extra man, filled by sweeps in place until nothing changes,   *)
(* compared with its own mirror image, written, and checked against the    *)
(* solver and against a proof search of its own.                           *)
(*                                                                         *)
(* A cell is a placement with a side to move and the colour of the strong  *)
(* side, numbered as in the flat table.  The rules of the game are chosen  *)
(* at the start.  Left out: the 50-move rule, which the tables ignore, and *)
(* the counts that are only printed.                                       *)
(***************************************************************************)
EXTENDS Integers, Sequences, FiniteSets, Eager

CONSTANTS
    Cells,       \* the cells of a table, 1 .. NB
    Mirror,      \* Mirror[i]: cell i with the colours changed
    Games,       \* the games: see Boards
    Plans,       \* the values of --material, as sequences of classes
    Pawn,        \* the class that promotes into the others
    PassCap,     \* u8::MAX, where the recorded pass saturates
    ProveDepth,  \* PROVE_DEPTH
    Plies        \* more plies than any forced end takes

Ends == {"Loss", "Draw", "Win"}

(* The tables a pawn promotes into.                                        *)
Promotions(g, c) == IF c = Pawn THEN DOMAIN g \ {Pawn} ELSE {}

-----------------------------------------------------------------------------
(* Boards.  A board is [end, valid, legal, moves]: its outcome if it is    *)
(* terminal, whether the men can stand so, whether the side not to move is *)
(* safe, and the boards after each move, by class and cell or by outcome.  *)

(* The proof search: what can be forced in at most n plies, or "open".     *)
Worth(before, m) == IF m.end \in Ends THEN m.end ELSE before[m.class][m.cell]
Judged(b, before) ==
    IF b.end \in Ends THEN b.end
    ELSE LET seen == {Worth(before, m) : m \in b.moves}
         IN  IF "Loss" \in seen THEN "Win" ELSE IF seen \subseteq {"Win"} THEN "Loss" ELSE "open"
AtOnce(g) == [c \in DOMAIN g |-> [i \in Cells |-> IF g[c][i].end \in Ends THEN g[c][i].end ELSE "open"]]
OnePlyMore(g, before) == [c \in DOMAIN g |-> [i \in Cells |-> Judged(g[c][i], before)]]
Forced(g) ==
    LET within[n \in 0 .. Plies] ==
            IF n = 0 THEN AtOnce(g)
            ELSE CHOOSE w \in {OnePlyMore(g, before) : before \in {within[n - 1]}} : w = w
    IN  within

-----------------------------------------------------------------------------
ASSUME TableAssumption ==
    /\ IsFiniteSet(Cells) /\ Cells = 1 .. Cardinality(Cells)
    /\ Mirror \in [Cells -> Cells] /\ \A i \in Cells : Mirror[Mirror[i]] = i
    /\ PassCap \in Nat \ {0} /\ ProveDepth \in Nat
    /\ Plies \in Nat /\ PassCap < Plies /\ ProveDepth <= Plies

(* A game has its boards at the cells; one that is not over has a move,    *)
(* and a move leads to a board of its own class or of a promotion.         *)
BoardOK(g, c, b) ==
    /\ b.end \in Ends \cup {"none"} /\ b.valid \in BOOLEAN
    /\ b.valid /\ b.end = "none" => b.moves # {}
    /\ \A m \in b.moves :
          \/ m.end \in Ends
          \/ /\ m.class \in {c} \cup Promotions(g, c) /\ m.cell \in Cells
             /\ g[m.class][m.cell].valid

(* The rules know no colours.                                              *)
Alike(b, r) ==
    /\ r.end = b.end /\ r.valid = b.valid
    /\ \A m \in b.moves : \E k \in r.moves :
          /\ k.end = m.end
          /\ m.end \notin Ends => k.class = m.class /\ k.cell = Mirror[m.cell]

ASSUME GameAssumption ==
    /\ \A g \in Games, p \in Plans : p \in Seq(DOMAIN g)
    /\ \A g \in Games : \A c \in DOMAIN g, i \in Cells :
          BoardOK(g, c, g[c][i]) /\ Alike(g[c][i], g[c][Mirror[i]])
    /\ \A g \in Games : OnePlyMore(g, Forced(g)[Plies]) = Forced(g)[Plies]

VARIABLES
    game,    \* game[c][i]: the board of cell i of class c
    plan,    \* the classes still to build
    phase,   \* "open", "sweep", "settle", "solver", "prover", "done", "panic"
    class,   \* the class being built
    built,   \* built[c]: the finished table of class c
    value,   \* value[i]: "Loss", "Draw", "Win", "unknown" or "invalid"
    dtm,     \* dtm[i]: the pass that decided cell i
    at,      \* the cell the sweep is at
    pass,    \* the pass; those past PassCap are not told apart
    changed, \* this pass has decided a cell
    timeout, \* the seconds given to the solver, "short" or "long"; "none" outside
    sample,  \* the cell last compared with the solver
    defects  \* crossval_mismatches and the failures of the mirror test

vars == <<game, plan, phase, class, built, value, dtm, at, pass, changed, timeout, sample, defects>>

-----------------------------------------------------------------------------
(* What a table holds.                                                     *)

(* valid_placement and classify_terminal, phase 0 of build.                *)
FirstValue(c, i) ==
    IF ~game[c][i].valid THEN "invalid" ELSE IF game[c][i].end \in Ends THEN game[c][i].end ELSE "unknown"

(* resolve_child: an outcome, a cell of this table or of another one.      *)
Resolve(c, m) ==
    IF m.end \in Ends THEN [tag |-> "const", class |-> 0, value |-> m.end, cell |-> 0]
    ELSE [tag |-> IF m.class = c THEN "own" ELSE "cross", class |-> m.class, value |-> "unknown", cell |-> m.cell]

Children(i) == IF FirstValue(class, i) = "unknown" THEN {Resolve(class, m) : m \in game[class][i].moves} ELSE {}

Seen(r) == CASE r.tag = "const" -> r.value
             [] r.tag = "cross" -> built[r.class][r.cell]
             [] r.tag = "own" -> value[r.cell]

-----------------------------------------------------------------------------
(* Building a table.                                                       *)

Init ==
    /\ game \in Games /\ plan \in Plans
    /\ phase = "open" /\ class = 0
    /\ built = [c \in {} |-> <<>>] /\ value = <<>> /\ dtm = <<>>
    /\ at = 0 /\ pass = 0 /\ changed = FALSE
    /\ timeout = "none" /\ sample = 0 /\ defects = 0

(* The tables of the promotions have to be there; without them the program *)
(* panics.                                                                 *)
Open ==
    /\ phase = "open" /\ plan # <<>> /\ Promotions(game, Head(plan)) \subseteq DOMAIN built
    /\ class' = Head(plan) /\ plan' = Tail(plan)
    /\ value' = [i \in Cells |-> FirstValue(Head(plan), i)]
    /\ dtm' = [i \in Cells |-> 0]
    /\ phase' = "sweep" /\ at' = 1 /\ pass' = 1 /\ changed' = FALSE
    /\ UNCHANGED <<game, built, timeout, sample, defects>>

Panic ==
    /\ phase = "open" /\ plan # <<>> /\ ~(Promotions(game, Head(plan)) \subseteq DOMAIN built)
    /\ phase' = "panic"
    /\ UNCHANGED <<game, plan, class, built, value, dtm, at, pass, changed, timeout, sample, defects>>

(* What a cell becomes when the sweep comes to it.                         *)
(* Mutant: a child that is not known yet counts as won.                    *)
Hopeful(i) ==
    LET seen == {Seen(r) : r \in Children(i)}
    IN  IF value[i] # "unknown" \/ seen = {} THEN value[i]
        ELSE IF "Loss" \in seen THEN "Win"
        ELSE IF seen \subseteq {"Win", "unknown"} THEN "Loss" ELSE "unknown"

Decide(i) ==
    LET seen == {Seen(r) : r \in Children(i)}
    IN  IF value[i] # "unknown" \/ seen = {} THEN value[i]
        ELSE IF "Loss" \in seen THEN "Win"
        ELSE IF seen = {"Win"} THEN "Loss" ELSE "unknown"

(* The pass is recorded, in a byte, with a newly decided cell.             *)
PassOf(i, now) == IF now # value[i] THEN (IF pass < PassCap THEN pass ELSE PassCap) ELSE dtm[i]

(* Mutant: a cell that is decided counts as changed.                       *)
AnyDecided(i, now) == changed \/ now # "unknown"
Moved(i, now) == changed \/ now # value[i]

SweepCell ==
    /\ phase = "sweep" /\ at \in Cells
    /\ \E now \in {Decide(at)} :
         /\ value' = [value EXCEPT ![at] = now]
         /\ dtm' = [dtm EXCEPT ![at] = PassOf(at, now)]
         /\ changed' = Moved(at, now)
    /\ at' = at + 1
    /\ UNCHANGED <<game, plan, phase, class, built, pass, timeout, sample, defects>>

SweepAgain == changed

PassEnd ==
    /\ phase = "sweep" /\ at \notin Cells
    /\ IF SweepAgain THEN at' = 1 /\ changed' = FALSE /\ pass' = (IF pass > PassCap THEN pass ELSE pass + 1)
                          /\ UNCHANGED phase
       ELSE phase' = "settle" /\ UNCHANGED <<at, changed, pass>>
    /\ UNCHANGED <<game, plan, class, built, value, dtm, timeout, sample, defects>>

(* What is left is a draw.  The table is compared with its mirror image    *)
(* and written.                                                            *)
Settled == [i \in Cells |-> IF value[i] = "unknown" THEN "Draw" ELSE value[i]]
Asymmetric(t) == {i \in Cells : t[i] # "invalid" /\ t[i] # t[Mirror[i]]}

Settle ==
    /\ phase = "settle"
    /\ value' = Settled
    /\ defects' = defects + (IF Asymmetric(Settled) = {} THEN 0 ELSE 1)
    /\ phase' = "solver"
    /\ UNCHANGED <<game, plan, class, built, dtm, at, pass, changed, timeout, sample>>

-----------------------------------------------------------------------------
(* The comparison with the solver and the proof search.                    *)
Prove(depth) == Forced(game)[depth]

(* What the rules say.                                                     *)
Final(o) == IF o = "open" THEN "Draw" ELSE o
Truth(c, i) == Final(Prove(Plies)[c][i])

(* Cross-validation takes samples of the legal cells of each outcome; here *)
(* it may take any of them, one at a time.                                 *)
Legal(i) == value[i] \in Ends /\ game[class][i].legal

TakeSample ==
    /\ phase = "solver" /\ timeout = "none"
    /\ sample' \in {i \in Cells : i > sample /\ Legal(i)} /\ timeout' = "short"
    /\ UNCHANGED <<game, plan, phase, class, built, value, dtm, at, pass, changed, defects>>

(* solve_and_compare: a draw of a solver that ran out of time is no        *)
(* mismatch.                                                               *)
(* Mutant: what the solver answers is taken at its word.                   *)
AnyDifference(expected, answer, late) == answer # expected
Mismatch(expected, answer, late) == answer # expected /\ ~(answer = "Draw" /\ late)

Retry(expected, answer, late) ==
    answer # expected /\ ~Mismatch(expected, answer, late) /\ timeout = "short"

CompareSample ==
    /\ phase = "solver" /\ timeout # "none"
    /\ \E late \in BOOLEAN : \E answer \in {Truth(class, sample)} \cup (IF late THEN {"Draw"} ELSE {}) :
         IF Retry(value[sample], answer, late) THEN timeout' = "long" /\ UNCHANGED defects
         ELSE /\ defects' = defects + (IF Mismatch(value[sample], answer, late) THEN 1 ELSE 0)
              /\ timeout' = "none"
    /\ UNCHANGED <<game, plan, phase, class, built, value, dtm, at, pass, changed, sample>>

ToProver ==
    /\ phase = "solver" /\ timeout = "none"
    /\ phase' = "prover" /\ sample' = 0
    /\ UNCHANGED <<game, plan, class, built, value, dtm, at, pass, changed, timeout, defects>>

(* cross_validate_prove: what the proof search finds within its bound must *)
(* be what the table says.                                                 *)
Contradicted == With(Prove(ProveDepth)[class], LAMBDA found :
    {i \in Cells : Legal(i) /\ found[i] \notin {"open", value[i]}})

ProveSamples ==
    /\ phase = "prover"
    /\ \E found \in SUBSET Contradicted : defects' = defects + Cardinality(found)
    /\ built' = [c \in DOMAIN built \cup {class} |-> IF c = class THEN value ELSE built[c]]
    /\ phase' = "open"
    /\ UNCHANGED <<game, plan, class, value, dtm, at, pass, changed, timeout, sample>>

Finish ==
    /\ phase = "open" /\ plan = <<>>
    /\ phase' = "done"
    /\ UNCHANGED <<game, plan, class, built, value, dtm, at, pass, changed, timeout, sample, defects>>

Work == \/ Open \/ Panic \/ SweepCell \/ PassEnd \/ Settle
        \/ TakeSample \/ CompareSample \/ ToProver \/ ProveSamples \/ Finish
Spec == Init /\ [][Work]_vars /\ WF_vars(Work)

-----------------------------------------------------------------------------
TypeOK ==
    /\ phase \in {"open", "sweep", "settle", "solver", "prover", "done", "panic"}
    /\ \A i \in DOMAIN value : value[i] \in Ends \cup {"unknown", "invalid"}
    /\ \A i \in DOMAIN dtm : dtm[i] \in 0 .. PassCap
    /\ defects \in Nat /\ pass \in 0 .. PassCap + 1

(* Nothing the sweep writes, at any cell of any pass, is ever wrong, and   *)
(* what is left at the end is drawn: build reads half-updated tables.      *)
DecidedTrue ==
    value # <<>> => \A true \in {Prove(Plies)[class]} : \A i \in Cells :
                       value[i] \in {"unknown", "invalid"} \/ value[i] = Final(true[i])

(* The order of the cells makes no difference to the values: the mirror    *)
(* image of a table, swept from the other end, has the same ones           *)
(* (the self-check of build).                                              *)
MirrorsAgree == phase = "solver" => Asymmetric(value) = {}

(* A cell is decided no later than in the pass of its distance to the end, *)
(* though the pass is no distance (the comment on dtm in build).           *)
PassWithinDistance == \A i \in DOMAIN dtm : dtm[i] > 0 => Prove(dtm[i] - 1)[class][i] = "open"

(* Sweeping in place is harmless: whatever the table holds, at any cell of *)
(* any pass, is right, and so is its mirror image (table.rs build).        *)
TableTrue == TypeOK /\ DecidedTrue /\ PassWithinDistance /\ MirrorsAgree

(* A right table raises no alarm, however slow the solver is and however   *)
(* deep the proof search looks: the exit code 1 means a defect.            *)
NoFalseAlarm == defects = 0

(* The generator comes to an end.                                          *)
GeneratorEnds == <>(phase \in {"done", "panic"})
=============================================================================
