-------------------------------- MODULE MCDfpn --------------------------------
(***************************************************************************)
(* DfpnSearch on the small games of Games.                                 *)
(***************************************************************************)
EXTENDS DfpnSearch, Games

(* What the .cfg substitutes.  TLC evaluates such a definition at every    *)
(* use, and the constants above only once.                                 *)
MCPos == AllPos
MCRoots == RootPos
MCSucc == SuccOf
MCBoard == BoardsOf
MCStatic == StaticOf
MCExpired == ExpiredPos
MCTruth == TruthOf
MCDist == DistOf

(* The value of p when the boards of A are above it and a repetition is a  *)
(* draw: what the repetition cache says a hit returns.                     *)
RECURSIVE PathValue(_, _)
PathValue(p, A) ==
    IF Static[p] # NoOutcome THEN Static[p]
    ELSE IF Board[p] \in A THEN "Draw"
    ELSE LET values == {PathValue(c, A \cup {Board[p]}) : c \in Succ[p]}
         IN  IF "Loss" \in values THEN "Win"
             ELSE IF values = {"Win"} THEN "Loss" ELSE "Draw"

(* A cached repetition draw is exactly the value of the position below the *)
(* boards it was stored under ("a hit is a semantic identity, not a guess",*)
(* repetition_cache.rs): it never hides a win from another path.           *)
CachedDrawExact == \A hit \in repCache : PathValue(hit[1], hit[2]) = "Draw"

(* The documented meaning of Exhausted: the bounded tree holds no decisive *)
(* line for the root.                                                      *)
ExhaustedUndecided ==
    ended = "Exhausted" =>
        ~(Truth[round.root] \in Decisive /\ Dist[round.root] <= round.bound)

(* The documented meaning of a solved record: position truth.              *)
DrawTrue == \A p \in DOMAIN tt : tt[p].outcome = "Draw" => Truth[p] = "Draw"
===============================================================================
