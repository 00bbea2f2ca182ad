------------------------------ MODULE MCCampaign ------------------------------
(***************************************************************************)
(* Small campaigns: Children, Leaves and their tables for the .cfg files.  *)
(***************************************************************************)
EXTENDS Campaign, TLC

CONSTANTS x, y, x1, x2, y1

(* One root move that wins against both replies.                           *)
OneMove == {x}
TwoReplies == {x1, x2}
OneMoveParent == [l \in TwoReplies |-> x]
OneMoveTerminal == [c \in OneMove |-> "None"]
OneMoveStart == [l \in TwoReplies |-> "Open"]
OneMoveValue == [l \in TwoReplies |-> "Win"]

(* x wins against its only reply; y fails against one of its two, and is   *)
(* dead when that is known.                                                *)
TwoMoves == {x, y}
ThreeReplies == {x1, x2, y1}
TwoMovesParent == x1 :> y @@ x2 :> y @@ y1 :> x
TwoMovesTerminal == [c \in TwoMoves |-> "None"]
TwoMovesStart == [l \in ThreeReplies |-> "Open"]
TwoMovesValue == x1 :> "Win" @@ x2 :> "Loss" @@ y1 :> "Win"

(* y is mate; x is still open.                                             *)
OneReply == {x1}
MateParent == [l \in OneReply |-> x]
MateTerminal == x :> "None" @@ y :> "Loss"
MateStart == [l \in OneReply |-> "Open"]
MateValue == [l \in OneReply |-> "Draw"]

===============================================================================
