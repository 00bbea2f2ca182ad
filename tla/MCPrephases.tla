----------------------------- MODULE MCPrephases -----------------------------
(* The constants of Prephases on the game "parry".                         *)
EXTENDS Games, Prephases

MCPos == AllPos
MCLabelOf == <<4, 1, 1, 2, 3, 1, 1, 1, 4, 4, 4, 5, 5, 5, 6, 6, 7, 6, 1, 9, 2, 8, 1, 4, 1, 8, 1, 1, 1, 1, 2, 1, 3,
               3, 1, 1, 2, 3, 4, 1, 1, 1, 1, 1, 2, 2, 1, 2, 1, 1, 1, 1>>
MCLabel == Table([p \in AllPos |-> MCLabelOf[BoardOf(p)]])
MCBoards == Table([b \in DOMAIN G.next |->
               SetToSortSeq(G.next[b], LAMBDA x, y : MCLabelOf[x] < MCLabelOf[y])])
MCByLabel == Table([p \in AllPos |->
                Table([i \in DOMAIN MCBoards[BoardOf(p)] |-> After(p, MCBoards[BoardOf(p)][i])])])
MCNext == Table([b \in DOMAIN G.next |-> SetToSortSeq(G.next[b], LAMBDA x, y : x < y)])
MCEnd == Table([b \in DOMAIN G.next |-> IF G.next[b] = {} THEN G.ends[b] ELSE "None"])
MCBoardAt == Table([p \in AllPos |-> BoardOf(p)])
MCClockAt == Table([p \in AllPos |-> ClockOf(p)])
MCRoots == {100, 106, 201, 2402, 3102, 1505, 3400}
MCDetected == DOMAIN G.next \ {2, 34}
=============================================================================
