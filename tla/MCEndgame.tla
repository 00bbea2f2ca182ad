------------------------------ MODULE MCEndgame ------------------------------
(* The constants of EndgameTable: all games of two small classes.          *)
EXTENDS EndgameTable, FiniteSetsExt

K == 4
MCCells == 1 .. 2 * K
MCMirror == [i \in MCCells |-> 2 * K + 1 - i]

(* Moves of the white block; the black one is its mirror image.            *)
To(c, i) == [end |-> "none", class |-> c, cell |-> i]
At(o) == [end |-> o, class |-> 0, cell |-> 0]
Open4(moves) == [end |-> "none", valid |-> TRUE, legal |-> TRUE, moves |-> moves]
Over(o) == [end |-> o, valid |-> TRUE, legal |-> TRUE, moves |-> {}]
NoBoard == [end |-> "none", valid |-> FALSE, legal |-> FALSE, moves |-> {}]

Reflect(m) == IF m.end = "none" THEN To(m.class, MCMirror[m.cell]) ELSE m
Both(block) == [i \in MCCells |-> IF i <= K THEN block[i]
                                  ELSE [block[MCMirror[i]] EXCEPT !.moves = {Reflect(m) : m \in @}]]

Targets == {To(1, 1), To(1, 2), To(1, 3), To(1, 4)}
Lists == kSubset(1, Targets) \cup kSubset(2, Targets)
Queens == {Both(<<Open4(a), Open4(b), Open4(c), d>>) :
             a \in Lists, b \in Lists,
             c \in {{To(1, 4)}, {To(1, 4), At("Win")}, {To(1, 1), At("Draw")}, {To(1, 2), At("Loss")}},
             d \in {Over("Loss"), Over("Win"), NoBoard}}
Proper(t) == \A i \in MCCells : \A m \in t[i].moves : m.end # "none" \/ t[m.cell].valid
Pawns == Both(<<Open4({To(2, 2), To(1, 1)}), [Open4({To(2, 1), To(1, 2)}) EXCEPT !.legal = FALSE],
                Open4({To(1, 3)}), NoBoard>>)
MCGames == {<<t, Pawns>> : t \in {x \in Queens : Proper(x)}}
MCPlans == {<<1, 2>>, <<2>>}
=============================================================================
