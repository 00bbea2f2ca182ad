--------------------------------- MODULE Games ---------------------------------
(***************************************************************************)
(* Small games for model checking.  A game is a graph of boards; a         *)
(* position is a board with a clock that counts moves since the last       *)
(* irreversible one.                                                       *)
(***************************************************************************)
EXTENDS Integers, TLC, Eager

CONSTANTS
    Game,       \* which of the games below
    RootBoards  \* the boards the search is started from, clock 0

(* next: boards after each move; ends: the terminal boards; resets: moves  *)
(* that reset the clock; clock: the rule-50 limit.                         *)
Games == [
    \* wins and losses of different depth around cycles back to the root; a
    \* terminal board; board 9 has only drawn ends.  Apart from it, from board
    \* 12 on, two move orders that meet in a cycle a win leaves
    weave |-> [next |-> <<{2, 8}, {1, 3, 4}, {1, 5}, {8}, {1, 6}, {7, 8}, {}, {},
                          {10, 11}, {}, {},
                          {13, 14}, {15}, {15, 16}, {18, 17}, {17}, {}, {12}>>,
               ends |-> <<"", "", "", "", "", "", "Loss", "Win", "", "Draw", "Draw",
                          "", "", "", "", "", "Loss", "">>,
               resets |-> {<<1, 8>>, <<4, 8>>, <<5, 6>>}, clock |-> 5],
    \* a narrow win in seven and a wide one in three; board 14 is drawn
    narrow |-> [next |-> <<{2, 3}, {4, 5, 6}, {8}, {7}, {7}, {7}, {}, {9, 13}, {10}, {11},
                           {12}, {7}, {1}, {15}, {}>>,
                ends |-> <<"", "", "", "", "", "", "Loss", "", "", "", "", "", "", "",
                           "Draw">>,
                resets |-> {}, clock |-> 9],
    \* board 7's draw holds only while board 4 is on the path
    twin |-> [next |-> <<{2, 3}, {4}, {11}, {5}, {6, 9}, {7}, {4, 8}, {}, {10}, {14},
                         {12}, {13}, {7}, {}>>,
              ends |-> <<"", "", "", "", "", "", "", "Draw", "", "", "", "", "", "Loss">>,
              resets |-> {<<1, 2>>, <<1, 3>>}, clock |-> 12],
    \* a win in five behind bounds that stop moving
    stall |-> [next |-> <<{2, 4}, {5}, {4}, {8}, {6, 10}, {7, 9}, {11}, {10}, {11}, {3}, {}>>,
               ends |-> <<"", "", "", "", "", "", "", "", "", "", "Loss">>,
               resets |-> {}, clock |-> 8],
    \* a win in seven whose three replies meet on board 7, one of them with
    \* the clock reset; with clock 5 board 7 is drawn
    meet |-> [next |-> <<{2, 3}, {4, 5, 6}, {13, 15}, {1, 7, 9}, {7}, {7}, {8, 10}, {11},
                         {14, 15}, {12}, {}, {8}, {11}, {7}, {}>>,
              ends |-> <<"", "", "", "", "", "", "", "", "", "", "Loss", "", "", "", "Draw">>,
              resets |-> {<<6, 7>>}, clock |-> 7],
    \* four defences on board 2: the proof of 3 replays on 4 and, deeper, on 5;
    \* on 24 it runs back to board 1.  On board 31 it leaves a reply open.
    \* Four more on board 35: the proof of 36 meets itself on 37 and is no
    \* use against 46; it wins on 38, and on 39 all but the way back to 34
    parry |-> [next |-> <<{2, 21}, {3, 4, 5, 24}, {6, 20}, {7, 20}, {8, 20}, {9, 12}, {10, 13},
                          {11, 14}, {15}, {16}, {18}, {}, {17}, {17}, {}, {}, {}, {19}, {16},
                          {1, 22}, {1, 22}, {28}, {}, {25, 26}, {1, 22}, {27}, {18, 23}, {}, {30}, {3, 31},
                          {32}, {10, 33}, {},
                          {35}, {36, 37, 38, 39}, {40}, {41}, {42}, {43}, {44, 45}, {44, 46}, {},
                          {34, 47, 48}, {49}, {}, {50}, {}, {51}, {52}, {52}, {}, {51}>>,
               ends |-> <<"", "", "", "", "", "", "", "", "", "", "", "Win", "", "", "Loss",
                          "Loss", "Loss", "", "", "", "", "", "Loss", "", "", "", "", "Draw",
                          "", "", "", "", "Draw",
                          "", "", "", "", "", "", "", "", "Loss",
                          "", "", "Win", "", "Win", "", "", "", "Loss", "">>,
               resets |-> {}, clock |-> 8]
]

G == Games[Game]
(* Position 100 b + k: board b with clock k. *)
BoardOf(p) == p \div 100
ClockOf(p) == p % 100
(* The clock of a position stops at the limit, where its hash stops too;   *)
(* an expired position is a draw though it has legal moves.                *)
After(p, b) ==
    100 * b + IF <<BoardOf(p), b>> \in G.resets THEN 0
              ELSE IF ClockOf(p) < G.clock THEN ClockOf(p) + 1 ELSE G.clock
Moves(p) == {After(p, b) : b \in G.next[BoardOf(p)]}

(* Longer than every line of play of every game. *)
Plies == 30

RootPos == {100 * b : b \in RootBoards}

(* Wave[n]: the positions within n moves of the roots. *)
Wave[n \in Nat] ==
    IF n = 0 THEN RootPos
    ELSE LET last == Wave[n - 1]
         IN  {p : p \in last \cup UNION {Moves(q) : q \in last}}

AllPos == Wave[Plies]
SuccOf == Table([p \in AllPos |-> Moves(p)])
BoardsOf == Table([p \in AllPos |-> BoardOf(p)])
ExpiredPos == {p \in AllPos : ClockOf(p) >= G.clock}
StaticOf == LET expired == ExpiredPos
            IN  Table([p \in AllPos |-> IF G.next[BoardOf(p)] = {} THEN G.ends[BoardOf(p)]
                                        ELSE IF p \in expired THEN "Draw" ELSE "None"])

(* What the side to move can force and in how many plies, found one ply    *)
(* further at a time; Draw when nothing.                                   *)
Known(o, n) == [outcome |-> o, plies |-> n]
Labels ==
    LET pos == AllPos
        static == StaticOf
        succ == SuccOf
        label[n \in Nat] ==
            IF n = 0
            THEN [p \in pos |-> Known(IF static[p] = "None" THEN "Draw" ELSE static[p], 0)]
            ELSE LET last == label[n - 1]
                     open(p) == static[p] = "None" /\ last[p].outcome = "Draw"
                 IN  Table([p \in pos |->
                        IF open(p) /\ \E c \in succ[p] : last[c].outcome = "Loss"
                        THEN Known("Win", n)
                        ELSE IF open(p) /\ \A c \in succ[p] : last[c].outcome = "Win"
                        THEN Known("Loss", n)
                        ELSE last[p]])
    IN  label[Plies]
TruthOf == LET known == Labels IN Table([p \in DOMAIN known |-> known[p].outcome])
DistOf == LET known == Labels IN Table([p \in DOMAIN known |-> known[p].plies])

===============================================================================
