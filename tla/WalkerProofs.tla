--------------------------- MODULE WalkerProofs -----------------------------
(***************************************************************************)
(* That the walk of Walker believes nothing it has not walked down to the  *)
(* rules, for every game, every snapshot and every answer of a search,     *)
(* alone and composed with the proof-tree worker in Reconstruct; that a    *)
(* faithful snapshot is walked to the end; and that a tree the worker      *)
(* builds and the validator passes is a proof.                             *)
(***************************************************************************)
EXTENDS Reconstruct, SequenceTheorems, WellFoundedInduction, TLAPS

Frame == [pos : Pos, outcome : Decisive, depth : Nat, todo : SUBSET (Pos \cup {NoMove})]

Typed ==
    /\ DOMAIN map \subseteq Pos
    /\ map \in [DOMAIN map -> Records]
    /\ frames \in Seq(Frame)
    /\ at \in Pos
    /\ phase \in {"visit", "fill", "descend", "done"}
    /\ bound \in Nat

(* Where the walk stands: below a root, and not at a terminal position     *)
(* while it fills.                                                         *)
Placed ==
    /\ IF frames = <<>> THEN at \in Roots ELSE frames[1].pos \in Roots
    /\ phase = "descend" => frames # <<>>
    /\ phase = "fill" => Static[at] = NoOutcome
    /\ verdict # "none" => phase = "done"

(* The reply of frame i that is being walked, if any.                      *)
Awaited(i) ==
    IF i < Depth THEN {frames[i + 1].pos} ELSE IF phase \in {"visit", "fill"} THEN {at} ELSE {}

(* What frame i claims follows once its pending reply and the ones it has  *)
(* to do are shown.                                                        *)
Justified(i) ==
    /\ Static[frames[i].pos] = NoOutcome
    /\ frames[i].outcome = "Loss" =>
          \A c \in Succ[frames[i].pos] \ frames[i].todo : c \in Awaited(i) \/ Truth[c] = "Win"
    /\ frames[i].outcome = "Win" =>
          \/ frames[i].todo # {}
          \/ \E c \in Succ[frames[i].pos] : c \in Awaited(i) \/ Truth[c] = "Loss"

(* After a failure nothing is owed to the frames.                          *)
Backed == phase # "done" => \A i \in 1 .. Depth : Justified(i)

(* Outcomes alternate along the path.                                      *)
Alternating == \A i \in 1 .. Depth - 1 : frames[i + 1].outcome = Opposite(frames[i].outcome)

(* The board of every frame has a record.                                  *)
Recorded == \A i \in 1 .. Depth : \E p \in DOMAIN map : Board[p] = Board[frames[i].pos]

WalkInv ==
    /\ Typed
    /\ Placed
    /\ Backed
    /\ Alternating
    /\ Recorded
    /\ WalkSound
    /\ RepetitionRecorded

-----------------------------------------------------------------------------

(* What an outcome is the opposite of.                                     *)
LEMMA Opposites ==
    /\ Opposite("Win") = "Loss" /\ Opposite("Loss") = "Win"
    /\ \A o \in Decisive : Opposite(o) \in Decisive
BY DEF Opposite, Decisive

(* A frame with nothing left to walk claims the truth.                     *)
LEMMA FrameTrue ==
    ASSUME Typed, phase = "descend", frames # <<>>, Parent.todo = {}, Justified(Depth)
    PROVE  Truth[Parent.pos] = Parent.outcome
<1>1. Depth \in 1 .. Depth /\ Parent \in Frame
    BY DEF Typed, Depth, Parent
<1>2. Awaited(Depth) = {}
    BY <1>1 DEF Awaited, Depth
<1>3. Parent.pos \in Pos /\ Parent.outcome \in Decisive
    BY <1>1 DEF Frame
<1>4. Static[Parent.pos] = NoOutcome
    BY DEF Justified, Parent
<1>5. CASE Parent.outcome = "Win"
    <2>1. \E c \in Succ[Parent.pos] : Truth[c] = "Loss"
        BY <1>2, <1>5 DEF Justified, Parent
    <2>2. QED
        BY <2>1, <1>3, <1>4, <1>5, TruthAssumption
<1>6. CASE Parent.outcome = "Loss"
    <2>1. \A c \in Succ[Parent.pos] : Truth[c] = "Win"
        BY <1>2, <1>6 DEF Justified, Parent
    <2>2. QED
        BY <2>1, <1>3, <1>4, <1>6, TruthAssumption
<1>7. QED
    BY <1>3, <1>5, <1>6 DEF Decisive

(* What a step that resolves the node at `at` needs to show: the claim is  *)
(* the one expected, the node is open and its board has a record.          *)
LEMMA ResolveKeepsInv ==
    ASSUME WalkInv, phase \in {"visit", "fill"}, Static[at] = NoOutcome,
           NEW o, NEW d \in Nat, NEW best \in Pos \cup {NoMove},
           Expected(o), Resolve(o, d, best),
           map' \in [DOMAIN map' -> Records], DOMAIN map' \subseteq Pos, DOMAIN map \subseteq DOMAIN map',
           \E p \in DOMAIN map' : Board[p] = Board[at]
    PROVE  WalkInv'
<1> DEFINE new == [pos |-> at, outcome |-> o, depth |-> d, todo |-> Replies(o, best)]
<1>1. /\ frames' = Append(frames, new) /\ phase' = "descend" /\ at' = at
      /\ bound' = bound /\ verdict' = verdict /\ why' = why
    BY DEF Resolve
<1>2. o \in Decisive
    <2>1. CASE frames = <<>>
        BY <2>1 DEF Expected
    <2>2. CASE frames # <<>>
        <3>1. Parent \in Frame
            BY <2>2 DEF WalkInv, Typed, Parent, Depth
        <3>2. QED
            BY <3>1, <2>2, Opposites DEF Expected, Frame
    <2>3. QED
        BY <2>1, <2>2
<1>3. at \in Pos /\ Succ[at] \subseteq Pos
    BY WalkAssumption DEF WalkInv, Typed
<1>4. new \in Frame
    <2>1. Replies(o, best) \subseteq Pos \cup {NoMove}
        BY <1>3 DEF Replies
    <2>2. QED
        BY <2>1, <1>2, <1>3 DEF Frame
<1> HIDE DEF new
<1>5. /\ frames \in Seq(Frame) /\ Depth \in Nat /\ Len(frames) = Depth
      /\ frames' \in Seq(Frame) /\ Depth' = Depth + 1 /\ frames' # <<>>
      /\ \A i \in 1 .. Depth : frames'[i] = frames[i]
      /\ frames'[Depth + 1] = new
    BY <1>1, <1>4 DEF WalkInv, Typed, Depth
<1>d. Depth \in Nat
    BY <1>5
<1>6. new.pos = at /\ new.outcome = o /\ new.todo = Replies(o, best)
    BY DEF new
<1>7. Typed'
    BY <1>1, <1>5 DEF WalkInv, Typed
<1>8. Placed'
    <2>1. frames'[1].pos \in Roots
        BY <1>5, <1>6 DEF WalkInv, Placed
    <2>2. verdict = "none"
        BY DEF WalkInv, Placed
    <2>3. QED
        BY <2>1, <2>2, <1>1, <1>5 DEF Placed
<1>9. Backed'
    <2> SUFFICES ASSUME NEW i \in 1 .. Depth + 1 PROVE Justified(i)'
        BY <1>5 DEF Backed
    <2>1. CASE i \in 1 .. Depth
        <3>1. Awaited(i)' = Awaited(i)
            <4>1. CASE i < Depth
                <5>1. i + 1 \in 1 .. Depth /\ i < Depth'
                    BY <4>1, <2>1, <1>5
                <5>2. QED
                    BY <5>1, <4>1, <1>5 DEF Awaited
            <4>2. CASE i = Depth
                BY <4>2, <1>5, <1>6 DEF Awaited
            <4>3. QED
                BY <4>1, <4>2, <2>1, <1>5
        <3>2. Justified(i) /\ frames'[i] = frames[i]
            BY <2>1, <1>5 DEF WalkInv, Backed
        <3>3. QED
            BY <3>1, <3>2 DEF Justified
    <2>2. CASE i = Depth + 1
        <3>1. frames'[i] = new
            BY <2>2, <1>5
        <3>2. QED
            BY <3>1, <1>6 DEF Justified, Replies
    <2>3. QED
        BY <2>1, <2>2, <1>d
<1>10. Alternating'
    <2> SUFFICES ASSUME NEW i \in 1 .. Depth
                 PROVE  frames'[i + 1].outcome = Opposite(frames'[i].outcome)
        BY <1>5 DEF Alternating
    <2>1. CASE i < Depth
        <3>1. i \in 1 .. Depth - 1 /\ i \in 1 .. Depth /\ i + 1 \in 1 .. Depth
            BY <2>1, <1>d
        <3>2. frames'[i] = frames[i] /\ frames'[i + 1] = frames[i + 1]
            BY <3>1, <1>5
        <3>3. QED
            BY <3>1, <3>2 DEF WalkInv, Alternating
    <2>2. CASE i = Depth
        <3>1. frames # <<>>
            BY <2>2, <1>5
        <3>2. QED
            BY <2>2, <3>1, <1>5, <1>6 DEF Expected, Parent
    <2>3. QED
        BY <2>1, <2>2, <1>d
<1>11. Recorded'
    <2> SUFFICES ASSUME NEW i \in 1 .. Depth + 1
                 PROVE  \E p \in DOMAIN map' : Board[p] = Board[frames'[i].pos]
        BY <1>5 DEF Recorded
    <2>1. CASE i \in 1 .. Depth
        BY <2>1, <1>5 DEF WalkInv, Recorded
    <2>2. CASE i = Depth + 1
        BY <2>2, <1>5, <1>6
    <2>3. QED
        BY <2>1, <2>2, <1>d
<1>12. WalkSound' /\ RepetitionRecorded'
    BY <1>1 DEF WalkInv, WalkSound, RepetitionRecorded
<1>13. QED
    BY <1>7, <1>8, <1>9, <1>10, <1>11, <1>12 DEF WalkInv

(* A step that leaves the frames, the position and the records alone, and  *)
(* opens or closes no reply.                                               *)
LEMMA QuietKeepsInv ==
    ASSUME WalkInv, UNCHANGED <<map, frames, at>>, bound' \in Nat,
           \/ phase' = phase
           \/ phase = "visit" /\ phase' = "fill" /\ Static[at] = NoOutcome,
           UNCHANGED <<verdict, why>>
    PROVE  WalkInv'
<1>1. Typed' /\ Placed'
    BY DEF WalkInv, Typed, Placed
<1>2. Depth' = Depth
    BY DEF Depth
<1>3. \A i : Awaited(i)' = Awaited(i)
    BY <1>2 DEF Awaited
<1>4. Backed'
    BY <1>2, <1>3 DEF WalkInv, Backed, Justified
<1>5. Alternating' /\ Recorded'
    BY <1>2 DEF WalkInv, Alternating, Recorded
<1>6. WalkSound' /\ RepetitionRecorded'
    BY DEF WalkInv, WalkSound, RepetitionRecorded
<1>7. QED
    BY <1>1, <1>4, <1>5, <1>6 DEF WalkInv

(* A failure ends the walk without an outcome.                             *)
LEMMA FailKeepsInv ==
    ASSUME WalkInv, phase # "done", NEW kind, kind # "repetition", Fail(kind)
    PROVE  WalkInv'
<1>1. Typed' /\ Placed'
    BY DEF WalkInv, Typed, Placed, Fail
<1>2. Backed' /\ RepetitionRecorded'
    BY DEF Backed, RepetitionRecorded, Fail
<1>3. Alternating' /\ Recorded'
    BY DEF WalkInv, Alternating, Recorded, Fail, Depth
<1>4. WalkSound'
    BY DEF WalkSound, Fail, Decisive
<1>5. QED
    BY <1>1, <1>2, <1>3, <1>4 DEF WalkInv

(* The walk steps to the reply c of the last frame and waits for it.       *)
LEMMA DescendKeepsInv ==
    ASSUME WalkInv, Descend
    PROVE  WalkInv'
<1>1. /\ phase = "descend" /\ frames # <<>> /\ First \in Parent.todo
      /\ First \in Succ[Parent.pos]
      /\ frames' = [frames EXCEPT ![Depth].todo = @ \ {First}]
      /\ at' = First /\ phase' = "visit"
      /\ UNCHANGED <<map, bound, verdict, why>>
    BY DEF WalkInv, Placed, Descend, Descending, First
<1>2. /\ frames \in Seq(Frame) /\ Depth \in Nat \ {0} /\ Len(frames) = Depth
      /\ Parent = frames[Depth] /\ Parent \in Frame
    BY <1>1 DEF WalkInv, Typed, Depth, Parent
<1>3. First \in Pos
    BY <1>1, <1>2, WalkAssumption DEF Frame
<1> DEFINE left == [Parent EXCEPT !.todo = @ \ {First}]
<1>4. /\ left \in Frame /\ left.pos = Parent.pos /\ left.outcome = Parent.outcome
      /\ left.todo = Parent.todo \ {First}
    BY <1>2 DEF Frame
<1>5. frames' = [frames EXCEPT ![Depth] = left]
    BY <1>1, <1>2
<1> HIDE DEF left
<1>6. /\ frames' \in Seq(Frame) /\ Len(frames') = Depth /\ Depth' = Depth /\ frames' # <<>>
      /\ frames'[Depth] = left
      /\ \A i \in 1 .. Depth : i # Depth => frames'[i] = frames[i]
    BY <1>2, <1>4, <1>5 DEF Depth
<1>d. Depth \in Nat \ {0}
    BY <1>2
<1>7. \A i \in 1 .. Depth : frames'[i].pos = frames[i].pos /\ frames'[i].outcome = frames[i].outcome
    BY <1>2, <1>4, <1>6
<1>8. Typed' /\ Placed'
    <2>1. frames'[1].pos = frames[1].pos
        BY <1>7, <1>d
    <2>2. QED
        BY <2>1, <1>1, <1>3, <1>6 DEF WalkInv, Typed, Placed
<1>9. Backed'
    <2> SUFFICES ASSUME NEW i \in 1 .. Depth PROVE Justified(i)'
        BY <1>6 DEF Backed
    <2>1. Justified(i)
        BY <1>1 DEF WalkInv, Backed
    <2>2. CASE i < Depth
        <3>1. i + 1 \in 1 .. Depth /\ i # Depth
            BY <2>2, <1>d
        <3>2. Awaited(i)' = Awaited(i)
            BY <3>1, <2>2, <1>6, <1>7 DEF Awaited
        <3>3. frames'[i] = frames[i]
            BY <3>1, <1>6
        <3>4. QED
            BY <2>1, <3>2, <3>3 DEF Justified
    <2>3. CASE i = Depth
        <3>1. Awaited(i) = {} /\ Awaited(i)' = {First}
            BY <2>3, <1>1, <1>6, <1>d DEF Awaited
        <3>2. frames'[i] = left /\ frames[i] = Parent
            BY <2>3, <1>2, <1>6
        <3>3. QED
            BY <2>1, <3>1, <3>2, <1>1, <1>4 DEF Justified
    <2>4. QED
        BY <2>2, <2>3, <1>d
<1>10. Alternating' /\ Recorded'
    <2>1. \A i \in 1 .. Depth - 1 : i \in 1 .. Depth /\ i + 1 \in 1 .. Depth
        BY <1>d
    <2>2. Alternating'
        BY <2>1, <1>6, <1>7 DEF WalkInv, Alternating
    <2>3. Recorded'
        BY <1>1, <1>6, <1>7 DEF WalkInv, Recorded
    <2>4. QED
        BY <2>2, <2>3
<1>11. WalkSound' /\ RepetitionRecorded'
    <2>1. verdict = "none"
        BY <1>1 DEF WalkInv, Placed
    <2>2. QED
        BY <2>1, <1>1 DEF WalkInv, WalkSound, RepetitionRecorded, Decisive
<1>12. QED
    BY <1>8, <1>9, <1>10, <1>11 DEF WalkInv

(* A terminal position shows the reply its parent waits for.               *)
LEMMA TerminalKeepsInv ==
    ASSUME WalkInv, VisitTerminal
    PROVE  WalkInv'
<1>1. /\ phase = "visit" /\ Static[at] # NoOutcome /\ Expected(Static[at])
      /\ UNCHANGED <<map, frames, at, bound, why>>
    BY DEF VisitTerminal, Visiting
<1>2. at \in Pos /\ Truth[at] = Static[at] /\ Depth \in Nat /\ Depth' = Depth /\ verdict = "none"
    BY <1>1, TruthAssumption DEF WalkInv, Typed, Placed, Depth
<1>3. Alternating' /\ Recorded' /\ RepetitionRecorded'
    BY <1>1, <1>2 DEF WalkInv, Alternating, Recorded, RepetitionRecorded
<1>4. CASE frames = <<>>
    <2>1. phase' = "done" /\ verdict' = Static[at]
        BY <1>4 DEF VisitTerminal
    <2>2. Typed' /\ Placed' /\ Backed' /\ WalkSound'
        BY <2>1, <1>1, <1>2, <1>4 DEF WalkInv, Typed, Placed, Backed, WalkSound
    <2>3. QED
        BY <2>2, <1>3 DEF WalkInv
<1>5. CASE frames # <<>>
    <2>1. phase' = "descend" /\ verdict' = verdict
        BY <1>5 DEF VisitTerminal
    <2>2. Typed' /\ Placed' /\ WalkSound'
        BY <2>1, <1>1, <1>2, <1>5 DEF WalkInv, Typed, Placed, WalkSound, Decisive
    <2>3. Truth[at] = Opposite(Parent.outcome)
        BY <1>1, <1>2, <1>5 DEF Expected
    <2>4. Backed'
        <3> SUFFICES ASSUME NEW i \in 1 .. Depth PROVE Justified(i)'
            BY <1>2 DEF Backed
        <3>1. Justified(i) /\ frames'[i] = frames[i]
            BY <1>1 DEF WalkInv, Backed
        <3>2. CASE i < Depth
            <4>1. Awaited(i)' = Awaited(i)
                BY <3>2, <1>1, <1>2 DEF Awaited
            <4>2. QED
                BY <3>1, <4>1, <1>1 DEF Justified
        <3>3. CASE i = Depth
            <4>1. Awaited(i) = {at} /\ Awaited(i)' = {} /\ frames[i] = Parent
                BY <3>3, <2>1, <1>1, <1>2 DEF Awaited, Parent
            <4>2. QED
                BY <3>1, <4>1, <2>3, Opposites DEF Justified
        <3>4. QED
            BY <3>2, <3>3, <1>2
    <2>5. QED
        BY <2>2, <2>4, <1>3 DEF WalkInv
<1>6. QED
    BY <1>4, <1>5

(* visit returns: what the last frame claims is true, which shows the      *)
(* reply of the frame above, or answers the run.                           *)
LEMMA LeaveKeepsInv ==
    ASSUME WalkInv, Leave
    PROVE  WalkInv'
<1>1. /\ phase = "descend" /\ frames # <<>> /\ Parent.todo = {}
      /\ frames' = SubSeq(frames, 1, Depth - 1) /\ at' = Parent.pos
      /\ UNCHANGED <<map, bound, why>>
    BY DEF WalkInv, Placed, Leave
<1>2. /\ frames \in Seq(Frame) /\ Depth \in Nat \ {0} /\ Len(frames) = Depth
      /\ Parent = frames[Depth] /\ Parent \in Frame
    BY <1>1 DEF WalkInv, Typed, Depth, Parent
<1>d. Depth \in Nat \ {0}
    BY <1>2
<1>3. /\ frames' \in Seq(Frame) /\ Len(frames') = Depth - 1 /\ Depth' = Depth - 1
      /\ \A i \in 1 .. Depth - 1 : frames'[i] = frames[i]
      /\ frames' = <<>> <=> Depth = 1
    <2>1. 1 \in 1 .. Len(frames) + 1 /\ Depth - 1 \in 1 - 1 .. Len(frames)
        BY <1>2
    <2>2. /\ frames' \in Seq(Frame) /\ Len(frames') = (Depth - 1) - 1 + 1
          /\ \A i \in 1 .. (Depth - 1) - 1 + 1 : frames'[i] = frames[1 + i - 1]
        BY <2>1, <1>1, <1>2, SubSeqProperties
    <2>3. Len(frames') = Depth - 1 /\ \A i \in 1 .. Depth - 1 : frames'[i] = frames[i]
        BY <2>2, <1>d
    <2>4. frames' = <<>> <=> Depth = 1
        BY <2>2, <2>3, <1>d
    <2>5. QED
        BY <2>2, <2>3, <2>4 DEF Depth
<1>4. Depth \in 1 .. Depth /\ \A i \in 1 .. Depth - 1 : i \in 1 .. Depth /\ i + 1 \in 1 .. Depth
    BY <1>d
<1>5. Truth[Parent.pos] = Parent.outcome
    <2>1. Justified(Depth)
        BY <1>1, <1>4 DEF WalkInv, Backed
    <2>2. QED
        BY <2>1, <1>1, FrameTrue DEF WalkInv
<1>6. Parent.pos \in Pos /\ Parent.outcome \in Decisive
    BY <1>2 DEF Frame
<1>7. Recorded' /\ RepetitionRecorded'
    <2>1. \A i \in 1 .. Depth' : i \in 1 .. Depth /\ frames'[i] = frames[i]
        BY <1>3, <1>4
    <2>2. QED
        BY <2>1, <1>1 DEF WalkInv, Recorded, RepetitionRecorded
<1>8. Alternating'
    <2> SUFFICES ASSUME NEW i \in 1 .. Depth' - 1
                 PROVE  frames'[i + 1].outcome = Opposite(frames'[i].outcome)
        BY DEF Alternating
    <2>1. i \in 1 .. Depth - 1 /\ i + 1 \in 1 .. Depth - 1
        BY <1>3, <1>d
    <2>2. frames'[i] = frames[i] /\ frames'[i + 1] = frames[i + 1]
        BY <2>1, <1>3
    <2>3. QED
        BY <2>1, <2>2 DEF WalkInv, Alternating
<1>9. CASE Depth = 1
    <2>1. phase' = "done" /\ verdict' = Parent.outcome
        BY <1>9 DEF Leave
    <2>2. Parent.pos \in Roots
        BY <1>1, <1>2, <1>9 DEF WalkInv, Placed
    <2>3. Typed' /\ Placed' /\ Backed' /\ WalkSound'
        BY <2>1, <2>2, <1>1, <1>3, <1>5, <1>6, <1>9
           DEF WalkInv, Typed, Placed, Backed, WalkSound
    <2>4. QED
        BY <2>3, <1>7, <1>8 DEF WalkInv
<1>10. CASE Depth # 1
    <2>1. phase' = phase /\ verdict' = verdict /\ verdict = "none"
        BY <1>1, <1>10 DEF Leave, WalkInv, Placed
    <2>2. frames'[1] = frames[1] /\ frames' # <<>>
        BY <1>3, <1>10, <1>d
    <2>3. Typed' /\ Placed' /\ WalkSound'
        BY <2>1, <2>2, <1>1, <1>3, <1>6 DEF WalkInv, Typed, Placed, WalkSound, Decisive
    <2>4. Backed'
        <3> SUFFICES ASSUME NEW i \in 1 .. Depth - 1 PROVE Justified(i)'
            BY <1>3 DEF Backed
        <3>1. Justified(i) /\ frames'[i] = frames[i]
            BY <1>1, <1>3, <1>4 DEF WalkInv, Backed
        <3>2. CASE i < Depth - 1
            <4>1. i + 1 \in 1 .. Depth - 1 /\ i < Depth
                BY <3>2, <1>d
            <4>2. Awaited(i)' = Awaited(i)
                BY <4>1, <3>2, <1>3 DEF Awaited
            <4>3. QED
                BY <3>1, <4>2 DEF Justified
        <3>3. CASE i = Depth - 1
            <4>1. i < Depth /\ i + 1 = Depth
                BY <3>3, <1>d
            <4>2. Awaited(i) = {Parent.pos} /\ Awaited(i)' = {}
                BY <4>1, <3>3, <2>1, <1>1, <1>2, <1>3 DEF Awaited
            <4>3. Truth[Parent.pos] = Opposite(frames[i].outcome)
                BY <4>1, <1>2, <1>5 DEF WalkInv, Alternating
            <4>4. QED
                BY <3>1, <4>2, <4>3, Opposites DEF Justified
        <3>4. QED
            BY <3>2, <3>3, <1>d
    <2>5. QED
        BY <2>3, <2>4, <1>7, <1>8 DEF WalkInv
<1>11. QED
    BY <1>9, <1>10

(* Records that join the map are records.                                  *)
LEMMA JoinedRecords ==
    ASSUME Typed, NEW h \in Harvests[at]
    PROVE  /\ DOMAIN Joined(h) = DOMAIN map \cup DOMAIN h
           /\ DOMAIN Joined(h) \subseteq Pos
           /\ Joined(h) \in [DOMAIN Joined(h) -> Records]
<1>1. h \in UNION {Harvests[p] : p \in Pos}
    BY DEF Typed
<1>2. DOMAIN h \subseteq Pos /\ h \in [DOMAIN h -> Records]
    BY <1>1, WalkAssumption
<1>3. \A p \in DOMAIN map \cup DOMAIN h :
          (IF p \in DOMAIN map THEN map[p] ELSE h[p]) \in Records
    BY <1>2 DEF Typed
<1>4. QED
    BY <1>2, <1>3 DEF Joined, Typed

(* The fields of a record.                                                 *)
LEMMA RecordFields ==
    ASSUME NEW r \in Records
    PROVE  r.depth \in Nat /\ r.best \in Pos \cup {NoMove}
BY DEF Records

(* Among the records of a board one has the lowest clock.                  *)
LEMMA LowestClock ==
    ASSUME Typed, OtherClocks # {}
    PROVE  \E p \in OtherClocks : \A q \in OtherClocks : Clock[p] <= Clock[q]
<1> DEFINE C == {Clock[p] : p \in OtherClocks}
<1>1. OtherClocks \subseteq Pos
    BY DEF Typed, OtherClocks
<1>2. \A p \in OtherClocks : Clock[p] \in Nat
    BY <1>1, WalkAssumption
<1>3. C \subseteq Nat
    BY <1>2
<1>4. C # {}
    OBVIOUS
<1>5. PICK m \in C : \A k \in C : ~ (<<k, m>> \in OpToRel(<, Nat))
    <2> HIDE DEF C
    <2>1. QED
        BY <1>3, <1>4, NatLessThanWellFounded, WFMin
<1>6. \A k \in Nat : k < m => <<k, m>> \in OpToRel(<, Nat)
    <2>1. m \in Nat
        BY <1>3
    <2>2. QED
        BY <2>1 DEF OpToRel
<1>7. \A p \in OtherClocks : m <= Clock[p]
    <2> SUFFICES ASSUME NEW p \in OtherClocks PROVE m <= Clock[p]
        OBVIOUS
    <2>1. Clock[p] \in C /\ m \in Nat /\ Clock[p] \in Nat
        BY <1>2, <1>3
    <2>2. ~ (Clock[p] < m)
        BY <2>1, <1>5, <1>6
    <2>3. QED
        BY <2>1, <2>2
<1>8. PICK p \in OtherClocks : m = Clock[p]
    OBVIOUS
<1>9. QED
    BY <1>7, <1>8

(* The record a visit hits is a record of the board.                       *)
LEMMA HitKeepsInv ==
    ASSUME WalkInv, VisitHit
    PROVE  WalkInv'
<1>1. /\ phase = "visit" /\ Static[at] = NoOutcome /\ map' = map
      /\ map \in [DOMAIN map -> Records]
    BY DEF WalkInv, Typed, VisitHit, Open, Visiting
<1>2. PICK r \in Hit : Expected(r.outcome) /\ Resolve(r.outcome, r.depth, r.best)
    BY DEF VisitHit
<1>3. r \in Records /\ \E p \in DOMAIN map : Board[p] = Board[at]
    <2>1. CASE at \in DOMAIN map
        <3>1. r = map[at]
            BY <1>2, <2>1 DEF Hit
        <3>2. QED
            BY <3>1, <2>1, <1>1
    <2>2. CASE at \notin DOMAIN map
        <3>1. OtherClocks # {} /\ r = Scanned
            BY <1>2, <2>2 DEF Hit
        <3>2. PICK p \in OtherClocks : \A q \in OtherClocks : Clock[p] <= Clock[q]
            BY <3>1, LowestClock DEF WalkInv
        <3>3. \E p1 \in OtherClocks : r = map[p1]
            BY <3>1, <3>2 DEF Scanned
        <3>4. QED
            BY <3>3, <1>1 DEF OtherClocks
    <2>3. QED
        BY <2>1, <2>2
<1>4. DOMAIN map' \subseteq Pos
    BY <1>1 DEF WalkInv, Typed
<1>5. QED
    BY <1>1, <1>2, <1>3, <1>4, RecordFields, ResolveKeepsInv

(* So is the record that fills a hole.                                     *)
LEMMA AnswerKeepsInv ==
    ASSUME WalkInv, NEW h \in Harvests[at], FillAnswered(h)
    PROVE  WalkInv'
<1> DEFINE r == Joined(h)[at]
           d == IF r.outcome = "Win" THEN r.depth ELSE bound
<1>1. /\ phase = "fill" /\ Static[at] = NoOutcome /\ map' = Joined(h)
      /\ at \in DOMAIN Joined(h) /\ Expected(r.outcome) /\ Resolve(r.outcome, d, r.best)
    BY DEF WalkInv, Placed, FillAnswered, Answers, Fills
<1>2. /\ DOMAIN map' = DOMAIN map \cup DOMAIN h
      /\ DOMAIN map' \subseteq Pos
      /\ map' \in [DOMAIN map' -> Records]
    BY <1>1, JoinedRecords DEF WalkInv
<1>3. r \in Records
    BY <1>1, <1>2
<1>4. d \in Nat /\ r.best \in Pos \cup {NoMove}
    BY <1>3, RecordFields DEF WalkInv, Typed
<1>5. \E p \in DOMAIN map' : Board[p] = Board[at]
    BY <1>1
<1> HIDE DEF r, d
<1>6. QED
    BY <1>1, <1>2, <1>4, <1>5, ResolveKeepsInv

(* A board on the path has a record, so no visit fails for lack of one.    *)
LEMMA VisitFailureKeepsInv ==
    ASSUME WalkInv, VisitFailure
    PROVE  WalkInv'
<1>1. phase # "done"
    BY DEF VisitFailure, Visiting
<1>2. PICK kind \in Complaints : Fail(kind)
    BY DEF VisitFailure
<1>3. OnPrefix => OtherClocks # {}
    BY DEF WalkInv, Recorded, OnPrefix, OtherClocks
<1>4. kind \in {"undecided", "anomaly"}
    BY <1>2, <1>3 DEF Complaints
<1>5. QED
    BY <1>1, <1>2, <1>4, FailKeepsInv

(* The bounds of the fill searches.                                        *)
LEMMA BoundsAreNat ==
    ASSUME WalkInv
    PROVE  FirstBound \in Nat /\ NextBound \in Nat
<1>1. FirstBound \in Nat
    <2>1. CASE frames = <<>>
        BY <2>1, WalkAssumption DEF FirstBound
    <2>2. CASE frames # <<>>
        <3>1. Parent \in Frame
            BY <2>2 DEF WalkInv, Typed, Parent, Depth
        <3>2. QED
            BY <3>1, <2>2 DEF FirstBound, Frame
    <2>3. QED
        BY <2>1, <2>2
<1>2. Cap \in Nat
    BY <1>1, WalkAssumption DEF Cap
<1>3. QED
    BY <1>1, <1>2 DEF WalkInv, Typed, NextBound

(* The walk starts with nothing claimed.                                   *)
THEOREM InitEstablishesInv ==
    Init => WalkInv
<1> SUFFICES ASSUME Init PROVE WalkInv
    OBVIOUS
<1>1. DOMAIN map \subseteq Pos /\ map \in [DOMAIN map -> Records] /\ at \in Pos
    BY WalkAssumption DEF Init
<1>2. Typed /\ Placed
    BY <1>1 DEF Init, Typed, Placed
<1>3. Depth = 0
    BY DEF Init, Depth
<1>4. Backed /\ Alternating /\ Recorded
    BY <1>3 DEF Backed, Alternating, Recorded
<1>5. WalkSound /\ RepetitionRecorded
    BY DEF Init, WalkSound, RepetitionRecorded, Decisive
<1>6. QED
    BY <1>2, <1>4, <1>5 DEF WalkInv

(* Every step of the walk and of the worker keeps WalkInv.                 *)
THEOREM StepKeepsInv ==
    WalkInv /\ [Next]_vars => WalkInv'
<1> SUFFICES ASSUME WalkInv, [Next]_vars PROVE WalkInv'
    OBVIOUS
<1>1. CASE VisitLimited
    BY <1>1, FailKeepsInv DEF VisitLimited
<1>2. CASE VisitTerminal
    BY <1>2, TerminalKeepsInv
<1>3. CASE VisitHit
    BY <1>3, HitKeepsInv
<1>4. CASE VisitFailure
    BY <1>4, VisitFailureKeepsInv
<1>5. CASE VisitHole
    <2>1. bound' \in Nat
        BY <1>5, BoundsAreNat DEF VisitHole
    <2>2. QED
        BY <1>5, <2>1, QuietKeepsInv DEF VisitHole, Open, Visiting
<1>6. CASE FillCut
    BY <1>6, FailKeepsInv DEF FillCut
<1>7. CASE FillDeepen
    <2>1. bound' \in Nat
        BY <1>7, BoundsAreNat DEF FillDeepen
    <2>2. QED
        BY <1>7, <2>1, QuietKeepsInv DEF FillDeepen
<1>8. CASE FillUnfillable
    BY <1>8, FailKeepsInv DEF FillUnfillable
<1>9. CASE \E h \in Harvests[at] : FillAnswered(h)
    BY <1>9, AnswerKeepsInv
<1>10. CASE \E h \in Harvests[at] : FillContradiction(h)
    BY <1>10, FailKeepsInv DEF FillContradiction, Answers
<1>11. CASE Descend
    BY <1>11, DescendKeepsInv
<1>12. CASE IllegalBest
    BY <1>12, FailKeepsInv DEF IllegalBest, Descending
<1>13. CASE Leave
    BY <1>13, LeaveKeepsInv
<1>14. CASE UNCHANGED walkVars
    BY <1>14, QuietKeepsInv DEF walkVars, WalkInv, Typed
<1>15. QED
    BY <1>1, <1>2, <1>3, <1>4, <1>5, <1>6, <1>7, <1>8, <1>9, <1>10, <1>11, <1>12, <1>13, <1>14
       DEF Next, Walk, Worker, vars

-----------------------------------------------------------------------------

(* Whatever the snapshot and the searches say, and whenever the worker     *)
(* raises its flag, the walk returns a true outcome or fails with a kind   *)
(* other than `repetition` (walker.rs, visit).                             *)
THEOREM WalkAlwaysSafe == Spec => []WalkSafe
<1>1. WalkInv => WalkSafe
    BY DEF WalkInv, WalkSafe
<1>2. QED
    BY <1>1, InitEstablishesInv, StepKeepsInv, PTL DEF Spec

(* The walk beside the proof-tree worker and its caller is a walk of       *)
(* Walker: all they do is take events and raise the flag (walker.rs, run). *)
THEOREM RunImplementsWalk == RunSpec => Spec
<1>1. RunInit => Init
    BY DEF RunInit
<1>2. [RunNext]_runVars => [Next]_vars
    <2> SUFFICES ASSUME [RunNext]_runVars PROVE [Next]_vars
        OBVIOUS
    <2>1. CASE Walking
        BY <2>1 DEF Walking, Next
    <2>2. CASE AskFinalize \/ AskTree
        BY <2>2 DEF AskFinalize, AskTree, Ask
    <2>3. CASE GiveUp
        BY <2>3 DEF GiveUp
    <2>4. CASE Receiving \/ Turning
        BY <2>4 DEF Receiving, Turning, Next, Worker
    <2>5. CASE Finalize
        BY <2>5 DEF Finalize, Next, Worker
    <2>6. CASE Answer
        BY <2>6 DEF Answer
    <2>7. CASE UNCHANGED runVars
        BY <2>7 DEF runVars
    <2>8. QED
        BY <2>1, <2>2, <2>3, <2>4, <2>5, <2>6, <2>7
           DEF RunNext, Caller, WorkerThread
<1>3. QED
    BY <1>1, <1>2, PTL DEF RunSpec, Spec

(* So a reconstruction run is safe in the same sense.                      *)
THEOREM RunAlwaysSafe == RunSpec => []WalkSafe
BY RunImplementsWalk, WalkAlwaysSafe, PTL
-----------------------------------------------------------------------------
(* A snapshot that holds the truth *)

(* Every frame claims the truth, and so will the replies it has to do.     *)
Led(i) ==
    /\ Static[frames[i].pos] = NoOutcome
    /\ frames[i].outcome = Truth[frames[i].pos]
    /\ frames[i].todo \subseteq Succ[frames[i].pos]
    /\ \A c \in frames[i].todo : Truth[c] = Opposite(frames[i].outcome)

(* The node being visited is what its parent says it is.                   *)
OnCourse == phase = "visit" /\ frames # <<>> => Truth[at] = Opposite(Parent.outcome)

FaithInv ==
    /\ WalkInv
    /\ Faithful
    /\ phase # "fill"
    /\ why \in {"none", "undecided", "memory"}
    /\ \A i \in 1 .. Depth : Led(i)
    /\ OnCourse

(* A node on course is resolved as expected, below the root.               *)
LEMMA ResolvedTrue ==
    ASSUME FaithInv, phase = "visit"
    PROVE  /\ Resolved = {Truth[at]}
           /\ frames # <<>> => Expected(Truth[at])
<1>1. at \in Pos /\ at \in DOMAIN map /\ map[at].outcome = Truth[at]
    BY DEF FaithInv, WalkInv, Typed, Faithful
<1>2. Static[at] # NoOutcome => Truth[at] = Static[at]
    BY <1>1, TruthAssumption
<1>3. Hit = {map[at]}
    BY <1>1 DEF Hit
<1>4. Resolved = {Truth[at]}
    BY <1>1, <1>2, <1>3 DEF Resolved
<1>5. frames # <<>> => Expected(Truth[at])
    BY DEF FaithInv, OnCourse, Expected
<1>6. QED
    BY <1>4, <1>5

(* A step that leaves the frames alone and opens no reply.                 *)
LEMMA IdleKeepsFaith ==
    ASSUME FaithInv, WalkInv', UNCHANGED <<map, frames>>,
           phase' \in {"descend", "done"} \/ UNCHANGED <<phase, at>>,
           why' \in {"none", "undecided", "memory"}
    PROVE  FaithInv'
<1>1. Faithful' /\ phase' # "fill"
    BY DEF FaithInv, Faithful
<1>2. Depth' = Depth /\ \A i \in 1 .. Depth : Led(i)'
    BY DEF FaithInv, Led, Depth
<1>3. OnCourse'
    BY DEF FaithInv, OnCourse, Parent, Depth
<1>4. QED
    BY <1>1, <1>2, <1>3 DEF FaithInv

(* A visit fails at a drawn root only.                                     *)
LEMMA FailureKeepsFaith ==
    ASSUME FaithInv, WalkInv', VisitFailure
    PROVE  FaithInv'
<1>1. PICK kind \in Complaints : Fail(kind)
    BY DEF VisitFailure
<1>2. kind = "undecided"
    BY ResolvedTrue DEF Complaints, VisitFailure, Visiting
<1>3. QED
    BY <1>1, <1>2, IdleKeepsFaith DEF Fail

(* The record of the node is its truth; a Win walks a lost reply, a Loss   *)
(* its replies, all won.                                                   *)
LEMMA HitKeepsFaith ==
    ASSUME FaithInv, WalkInv', VisitHit
    PROVE  FaithInv'
<1>1. /\ phase = "visit" /\ Static[at] = NoOutcome /\ map' = map
      /\ at \in Pos /\ at \in DOMAIN map
    BY DEF FaithInv, WalkInv, Typed, Faithful, VisitHit, Open, Visiting
<1> DEFINE r == map[at]
<1>2. Expected(r.outcome) /\ Resolve(r.outcome, r.depth, r.best)
    BY <1>1 DEF VisitHit, Hit
<1>3. r.outcome = Truth[at] /\ r.outcome \in Decisive
    <2>1. r.outcome = Truth[at]
        BY <1>1 DEF FaithInv, Faithful
    <2>2. CASE frames = <<>>
        BY <2>1, <2>2, <1>2 DEF Expected
    <2>3. CASE frames # <<>>
        <3>1. Parent \in Frame
            BY <2>3 DEF FaithInv, WalkInv, Typed, Parent, Depth
        <3>2. QED
            BY <2>1, <2>3, <3>1, <1>2, Opposites DEF Expected, Frame
    <2>4. QED
        BY <2>2, <2>3, <2>1
<1> DEFINE todo == Replies(r.outcome, r.best)
<1>4. todo \subseteq Succ[at] /\ \A c \in todo : Truth[c] = Opposite(r.outcome)
    <2>1. CASE r.outcome = "Win"
        <3>1. r.best \in Succ[at] /\ Truth[r.best] = "Loss"
            BY <2>1, <1>1, <1>3 DEF FaithInv, Faithful
        <3>2. QED
            BY <2>1, <3>1, Opposites DEF Replies
    <2>2. CASE r.outcome = "Loss"
        <3>1. \A c \in Succ[at] : Truth[c] = "Win"
            BY <2>2, <1>1, <1>3, LossAssumption
        <3>2. QED
            BY <2>2, <3>1, Opposites DEF Replies
    <2>3. QED
        BY <2>1, <2>2, <1>3 DEF Decisive
<1> DEFINE new == [pos |-> at, outcome |-> r.outcome, depth |-> r.depth, todo |-> todo]
<1>5. /\ frames' = Append(frames, new) /\ phase' = "descend" /\ why' = why
    BY <1>2 DEF Resolve
<1>6. /\ new.pos = at /\ new.outcome = r.outcome /\ new.todo = todo
    OBVIOUS
<1> HIDE DEF r, todo, new
<1>7. /\ Depth' = Depth + 1 /\ Depth \in Nat
      /\ \A i \in 1 .. Depth : frames'[i] = frames[i]
      /\ frames'[Depth + 1] = new
    BY <1>5 DEF FaithInv, WalkInv, Typed, Depth
<1>8. ASSUME NEW i \in 1 .. Depth' PROVE Led(i)'
    <2>1. CASE i \in 1 .. Depth
        <3>1. Led(i) /\ frames'[i] = frames[i]
            BY <2>1, <1>7 DEF FaithInv
        <3>2. QED
            BY <3>1 DEF Led
    <2>2. CASE i = Depth + 1
        <3>1. frames'[i] = new
            BY <2>2, <1>7
        <3>2. QED
            BY <3>1, <1>1, <1>3, <1>4, <1>6 DEF Led
    <2>3. QED
        BY <2>1, <2>2, <1>7
<1>9. Faithful' /\ OnCourse'
    BY <1>1, <1>5 DEF FaithInv, Faithful, OnCourse
<1>10. QED
    BY <1>5, <1>8, <1>9 DEF FaithInv

(* The reply stepped to is what the frame says it is.                      *)
LEMMA DescendKeepsFaith ==
    ASSUME FaithInv, WalkInv', Descend
    PROVE  FaithInv'
<1>1. /\ frames # <<>> /\ First \in Parent.todo
      /\ frames' = [frames EXCEPT ![Depth].todo = @ \ {First}]
      /\ at' = First /\ phase' = "visit" /\ map' = map /\ why' = why
    BY DEF FaithInv, WalkInv, Placed, Descend, Descending, First
<1>2. /\ frames \in Seq(Frame) /\ Depth \in Nat \ {0} /\ Len(frames) = Depth
      /\ Parent = frames[Depth] /\ Parent \in Frame
    BY <1>1 DEF FaithInv, WalkInv, Typed, Depth, Parent
<1> DEFINE left == [Parent EXCEPT !.todo = @ \ {First}]
<1>3. /\ left \in Frame /\ left.pos = Parent.pos /\ left.outcome = Parent.outcome
      /\ left.todo = Parent.todo \ {First}
    BY <1>2 DEF Frame
<1>4. frames' = [frames EXCEPT ![Depth] = left]
    BY <1>1, <1>2
<1> HIDE DEF left
<1>5. /\ Depth' = Depth /\ frames'[Depth] = left
      /\ \A i \in 1 .. Depth : i # Depth => frames'[i] = frames[i]
    BY <1>2, <1>3, <1>4 DEF Depth
<1>6. Led(Depth)
    BY <1>2 DEF FaithInv
<1>7. ASSUME NEW i \in 1 .. Depth' PROVE Led(i)'
    <2>1. CASE i = Depth
        <3>1. frames'[i] = left
            BY <2>1, <1>5
        <3>2. QED
            BY <3>1, <1>2, <1>3, <1>6 DEF Led
    <2>2. CASE i # Depth
        <3>1. Led(i) /\ frames'[i] = frames[i]
            BY <2>2, <1>5 DEF FaithInv
        <3>2. QED
            BY <3>1 DEF Led
    <2>3. QED
        BY <2>1, <2>2
<1>8. OnCourse'
    <2>1. Parent'.outcome = Parent.outcome
        BY <1>3, <1>5 DEF Parent
    <2>2. Truth[First] = Opposite(Parent.outcome)
        BY <1>1, <1>2, <1>6 DEF Led
    <2>3. QED
        BY <2>1, <2>2, <1>1 DEF OnCourse
<1>9. Faithful'
    BY <1>1 DEF FaithInv, Faithful
<1>10. QED
    BY <1>1, <1>7, <1>8, <1>9 DEF FaithInv

(* What is left of the frames claims the truth.                            *)
LEMMA LeaveKeepsFaith ==
    ASSUME FaithInv, WalkInv', Leave
    PROVE  FaithInv'
<1>1. /\ phase = "descend" /\ frames # <<>>
      /\ frames' = SubSeq(frames, 1, Depth - 1)
      /\ map' = map /\ why' = why /\ phase' \in {"descend", "done"}
    BY DEF FaithInv, WalkInv, Placed, Leave
<1>2. frames \in Seq(Frame) /\ Depth \in Nat \ {0} /\ Len(frames) = Depth
    BY <1>1 DEF FaithInv, WalkInv, Typed, Depth
<1>3. Depth' = Depth - 1 /\ \A i \in 1 .. Depth - 1 : frames'[i] = frames[i]
    <2>1. 1 \in 1 .. Len(frames) + 1 /\ Depth - 1 \in 1 - 1 .. Len(frames)
        BY <1>2
    <2>2. /\ Len(frames') = (Depth - 1) - 1 + 1
          /\ \A i \in 1 .. (Depth - 1) - 1 + 1 : frames'[i] = frames[1 + i - 1]
        BY <2>1, <1>1, <1>2, SubSeqProperties
    <2>3. QED
        BY <2>2, <1>2 DEF Depth
<1>4. ASSUME NEW i \in 1 .. Depth' PROVE Led(i)'
    <2>1. i \in 1 .. Depth /\ frames'[i] = frames[i]
        BY <1>2, <1>3
    <2>2. Led(i)
        BY <2>1 DEF FaithInv
    <2>3. QED
        BY <2>1, <2>2 DEF Led
<1>5. Faithful' /\ OnCourse'
    BY <1>1 DEF FaithInv, Faithful, OnCourse
<1>6. QED
    BY <1>1, <1>4, <1>5 DEF FaithInv

(* No search is started and no move is illegal: every node has its record, *)
(* and every best move is a reply.                                         *)
LEMMA StepKeepsFaith ==
    FaithInv /\ [Next]_vars => FaithInv'
<1> SUFFICES ASSUME FaithInv, [Next]_vars PROVE FaithInv'
    OBVIOUS
<1>i. WalkInv'
    BY StepKeepsInv DEF FaithInv
<1>1. CASE VisitLimited
    BY <1>1, <1>i, IdleKeepsFaith DEF VisitLimited, Fail
<1>2. CASE VisitTerminal
    BY <1>2, <1>i, IdleKeepsFaith DEF VisitTerminal, FaithInv
<1>3. CASE VisitHit
    BY <1>3, <1>i, HitKeepsFaith
<1>4. CASE VisitFailure
    BY <1>4, <1>i, FailureKeepsFaith
<1>5. CASE VisitHole
    <2>1. at \in DOMAIN map
        BY DEF FaithInv, WalkInv, Typed, Faithful
    <2>2. QED
        BY <2>1, <1>5 DEF VisitHole, Hit
<1>6. CASE FillCut \/ FillDeepen \/ FillUnfillable
    BY <1>6 DEF FaithInv, FillCut, FillDeepen, FillUnfillable
<1>7. CASE \E h \in Harvests[at] : FillAnswered(h) \/ FillContradiction(h)
    BY <1>7 DEF FaithInv, FillAnswered, FillContradiction, Answers
<1>8. CASE Descend
    BY <1>8, <1>i, DescendKeepsFaith
<1>9. CASE IllegalBest
    <2>1. frames # <<>> /\ First \in Parent.todo /\ First \notin Succ[Parent.pos]
        BY <1>9 DEF IllegalBest, Descending, FaithInv, WalkInv, Placed, First
    <2>2. Depth \in 1 .. Depth
        BY <2>1 DEF FaithInv, WalkInv, Typed, Depth
    <2>3. Led(Depth)
        BY <2>2 DEF FaithInv
    <2>4. QED
        BY <2>1, <2>3 DEF Led, Parent
<1>10. CASE Leave
    BY <1>10, <1>i, LeaveKeepsFaith
<1>11. CASE UNCHANGED walkVars
    BY <1>11, <1>i, IdleKeepsFaith DEF walkVars, FaithInv
<1>12. QED
    BY <1>1, <1>2, <1>3, <1>4, <1>5, <1>6, <1>7, <1>8, <1>9, <1>10, <1>11
       DEF Next, Walk, Worker, vars

(* From a snapshot that holds the truth of every position, under any       *)
(* rule-50 clock, the walk finds a record for every node, starts no search *)
(* and meets no contradiction, whatever the game and however deep its      *)
(* proof (mod.rs, "Soundness of the walk").                                *)
THEOREM FaithfulAlwaysWalks == Spec /\ Faithful => []FaithfulWalks
<1>1. Init /\ Faithful => FaithInv
    <2> SUFFICES ASSUME Init, Faithful PROVE FaithInv
        OBVIOUS
    <2>1. Depth = 0
        BY DEF Init, Depth
    <2>2. QED
        BY <2>1, InitEstablishesInv DEF Init, FaithInv, OnCourse
<1>2. FaithInv => FaithfulWalks
    BY DEF FaithInv, FaithfulWalks
<1>3. QED
    BY <1>1, <1>2, StepKeepsFaith, PTL DEF Spec

(* And so does a reconstruction run from such a snapshot.                  *)
THEOREM RunFaithfullyWalks == RunSpec /\ Faithful => []FaithfulWalks
BY RunImplementsWalk, FaithfulAlwaysWalks, PTL

-----------------------------------------------------------------------------
(* The arena of the worker: what its nodes stand for.                      *)

Nodes == [mv : Pos \cup {NoMove}, pos : Pos \cup {NoMove}, outcome : Decisive \cup {NoOutcome},
          depth : Nat, kids : Seq(Nat)]
(* The root is nobody's child.                                             *)
Arena(ns) ==
    /\ ns \in Seq(Nodes) /\ ns # <<>>
    /\ \A i \in 1 .. Len(ns) : \A n \in 1 .. Len(ns[i].kids) : ns[i].kids[n] \in 2 .. Len(ns)
    /\ \A i \in 2 .. Len(ns) : ns[i].mv \in Pos

Shows(ns, i) == IF i = 1 THEN root ELSE ns[i].mv

(* A node with a claim is about the position its move leads to, and only a *)
(* position that goes on has children.                                     *)
Meant(ns) ==
    /\ \A i \in 1 .. Len(ns) : ns[i].kids # <<>> => Static[Shows(ns, i)] = NoOutcome
    /\ \A i \in 1 .. Len(ns) : ns[i].outcome # NoOutcome => ns[i].pos = Shows(ns, i)

ArenaOK(ns) == Arena(ns) /\ Meant(ns)

(* Events come from walks over positions that go on.                       *)
Sent == [path : Seq(Pos), pos : Pos, outcome : Decisive, depth : Nat]
Ends(path) == IF path = <<>> THEN root ELSE path[Len(path)]
EventOK(e) ==
    /\ e \in Sent /\ e.pos = Ends(e.path)
    /\ e.path # <<>> => Static[root] = NoOutcome
    /\ \A n \in 1 .. Len(e.path) - 1 : Static[e.path[n]] = NoOutcome

-----------------------------------------------------------------------------
(* Recursion over an interval                                              *)

(* A set of numbers that is not empty has a least one.                     *)
LEMMA LeastExists ==
    ASSUME NEW S, S \subseteq Nat, S # {}
    PROVE  \E m \in S : \A k \in S : m <= k
<1>1. PICK m \in S : \A k \in S : ~ (<<k, m>> \in OpToRel(<, Nat))
    BY NatLessThanWellFounded, WFMin
<1>2. \A k \in S : ~ (k < m)
    BY <1>1 DEF OpToRel
<1>3. QED
    BY <1>2

(* A set that holds zero and, with a number, the next one.                 *)
LEMMA Counting ==
    ASSUME NEW N \in Nat, NEW S, 0 \in S, \A k \in 0 .. N : k # 0 /\ k - 1 \in S => k \in S
    PROVE  0 .. N \subseteq S
<1> DEFINE Bad == {k \in 0 .. N : k \notin S}
<1> SUFFICES ASSUME Bad # {} PROVE FALSE
    OBVIOUS
<1>1. Bad \subseteq Nat
    OBVIOUS
<1>2. PICK m \in Bad : \A k \in Bad : ~ (<<k, m>> \in OpToRel(<, Nat))
    <2> HIDE DEF Bad
    <2>1. QED
        BY <1>1, NatLessThanWellFounded, WFMin
<1>3. m \in 0 .. N /\ m \notin S /\ m # 0
    OBVIOUS
<1>4. m - 1 \in Nat /\ m - 1 < m /\ m - 1 \in 0 .. N /\ m \in Nat
    BY <1>3
<1>5. <<m - 1, m>> \in OpToRel(<, Nat)
    BY <1>4 DEF OpToRel
<1>6. m - 1 \notin Bad
    BY <1>2, <1>5
<1>7. QED
    BY <1>3, <1>4, <1>6

(* A value passed on from one number to the next.                          *)
Chained(N, V, a, g, f) ==
    f \in [0 .. N -> V] /\ f[0] = a /\ \A n \in 1 .. N : f[n] = g[<<n, f[n - 1]>>]

(* There is such a function.                                               *)
LEMMA Chain ==
    ASSUME NEW N \in Nat, NEW V, NEW a \in V, NEW g \in [(1 .. N) \X V -> V]
    PROVE  \E f : Chained(N, V, a, g, f)
<1> DEFINE Told(m, f) == f[0] = a /\ \A n \in 1 .. N : n <= m => f[n] = g[<<n, f[n - 1]>>]
           S == {m \in Nat : \E f \in [0 .. N -> V] : Told(m, f)}
<1>1. 0 \in S
    <2>1. [n \in 0 .. N |-> a] \in [0 .. N -> V]
        OBVIOUS
    <2>2. Told(0, [n \in 0 .. N |-> a])
        OBVIOUS
    <2> HIDE DEF Told
    <2>3. QED
        BY <2>1, <2>2
<1>2. ASSUME NEW m \in 0 .. N, m # 0, m - 1 \in S
      PROVE  m \in S
    <2>1. m \in Nat /\ m - 1 \in Nat /\ m \in 1 .. N /\ m - 1 \in 0 .. N
        BY <1>2
    <2>2. PICK f \in [0 .. N -> V] : Told(m - 1, f)
        BY <1>2
    <2> DEFINE v == g[<<m, f[m - 1]>>]
               h == [f EXCEPT ![m] = v]
    <2>3. v \in V
        BY <2>1
    <2> HIDE DEF v
    <2>4. h \in [0 .. N -> V] /\ h[m] = v /\ \A n \in 0 .. N : n # m => h[n] = f[n]
        BY <2>1, <2>3
    <2> HIDE DEF h
    <2>5. h[0] = a
        BY <2>1, <2>2, <2>4
    <2>6. ASSUME NEW n \in 1 .. N, n <= m
          PROVE  h[n] = g[<<n, h[n - 1]>>]
        <3>1. n - 1 \in 0 .. N /\ n - 1 # m /\ n \in 0 .. N
            BY <2>1, <2>6
        <3>2. h[n - 1] = f[n - 1]
            BY <2>4, <3>1
        <3>3. CASE n = m
            BY <2>4, <3>2, <3>3 DEF v
        <3>4. CASE n # m
            <4>1. n <= m - 1
                BY <2>1, <2>6, <3>4
            <4>2. f[n] = g[<<n, f[n - 1]>>]
                BY <2>2, <4>1
            <4>3. QED
                BY <2>4, <3>1, <3>2, <3>4, <4>2
        <3>5. QED
            BY <3>3, <3>4
    <2>7. Told(m, h)
        BY <2>5, <2>6
    <2> HIDE DEF Told
    <2>8. QED
        BY <2>1, <2>4, <2>7
<1>3. N \in S
    <2> HIDE DEF S
    <2>1. 0 .. N \subseteq S
        BY <1>1, <1>2, Counting
    <2>2. QED
        BY <2>1
<1>4. PICK f \in [0 .. N -> V] : Told(N, f)
    BY <1>3
<1>5. QED
    BY <1>4 DEF Chained

(* What holds at the start, and with each number of the next, holds at the *)
(* end.                                                                    *)
LEMMA Passed ==
    ASSUME NEW N \in Nat, NEW S, 0 \in S, \A n \in 1 .. N : n - 1 \in S => n \in S
    PROVE  \A n \in 0 .. N : n \in S
<1>1. \A k \in 0 .. N : k # 0 /\ k - 1 \in S => k \in S
    OBVIOUS
<1>2. QED
    BY <1>1, Counting

-----------------------------------------------------------------------------
(* Events build the arena                                                  *)

WithKid(n, k) == [n EXCEPT !.kids = <<k>> \o n.kids]

(* A new child goes to the front of its parent's list.                     *)
LEMMA AddedArena ==
    ASSUME NEW ns, Arena(ns), NEW id \in 1 .. Len(ns), NEW mv \in Pos
    PROVE  /\ Arena(Tree!Added(id, mv, ns))
           /\ Len(Tree!Added(id, mv, ns)) = Len(ns) + 1
           /\ Tree!Added(id, mv, ns)[Len(ns) + 1] = Tree!Placeholder(mv)
           /\ Tree!Added(id, mv, ns)[id] = WithKid(ns[id], Len(ns) + 1)
           /\ \A i \in 1 .. Len(ns) : i # id => Tree!Added(id, mv, ns)[i] = ns[i]
<1> DEFINE N == Len(ns)
           f == Tree!Placeholder(mv)
           kids == <<N + 1>> \o ns[id].kids
           n == [ns[id] EXCEPT !.kids = kids]
           old == [ns EXCEPT ![id] = n]
           new == Append(old, f)
<1>1. ns \in Seq(Nodes) /\ N \in Nat \ {0} /\ ns[id] \in Nodes /\ id \in Nat
    BY DEF Arena
<1>2. ns[id].kids \in Seq(Nat)
    BY <1>1 DEF Nodes
<1>3. kids \in Seq(Nat) /\ Len(kids) = Len(ns[id].kids) + 1 /\ kids[1] = N + 1
      /\ \A m \in 2 .. Len(kids) : kids[m] = ns[id].kids[m - 1]
    <2>1. <<N + 1>> \in Seq(Nat) /\ Len(<<N + 1>>) = 1 /\ <<N + 1>>[1] = N + 1
        BY <1>1
    <2>2. QED
        BY <1>2, <2>1
<1>4. f \in Nodes /\ f.mv = mv /\ f.kids = <<>>
    <2>1. f = [mv |-> mv, pos |-> NoMove, outcome |-> NoOutcome, depth |-> 0, kids |-> <<>>]
        BY DEF Tree!Placeholder, Tree!NoOutcome, NoOutcome
    <2>2. QED
        BY <2>1 DEF Nodes
<1> HIDE DEF f, kids, N
<1>5. n \in Nodes /\ n.kids = kids /\ n.mv = ns[id].mv
    BY <1>1, <1>3 DEF Nodes
<1> HIDE DEF n
<1>6. old \in Seq(Nodes) /\ Len(old) = N /\ old[id] = n /\ \A i \in 1 .. N : i # id => old[i] = ns[i]
    BY <1>1, <1>5 DEF N
<1> HIDE DEF old
<1>7. new \in Seq(Nodes) /\ Len(new) = N + 1 /\ new[N + 1] = f /\ \A i \in 1 .. N : new[i] = old[i]
    BY <1>1, <1>4, <1>6
<1>8. Tree!Added(id, mv, ns) = new
    BY DEF Tree!Added, new, old, n, kids, f, N
<1> HIDE DEF new
<1>9. new[id] = n /\ \A i \in 1 .. N : i # id => new[i] = ns[i]
    BY <1>6, <1>7 DEF N
<1>10. Arena(new)
    <2>1. ASSUME NEW i \in 1 .. Len(new), NEW m \in 1 .. Len(new[i].kids)
          PROVE  new[i].kids[m] \in 2 .. Len(new)
        <3>1. CASE i = N + 1
            BY <1>4, <1>7, <3>1
        <3>2. CASE i = id
            <4>1. m = 1 \/ (m \in 2 .. Len(kids) /\ m - 1 \in 1 .. Len(ns[id].kids))
                BY <1>2, <1>3, <1>5, <1>9, <3>2
            <4>2. new[i].kids[m] = N + 1 \/ (new[i].kids[m] = ns[id].kids[m - 1] /\ m - 1 \in 1 .. Len(ns[id].kids))
                BY <1>3, <1>5, <1>9, <3>2, <4>1
            <4>3. QED
                BY <1>1, <1>7, <4>2 DEF Arena, N
        <3>3. CASE i \in 1 .. N /\ i # id
            <4>1. ns[i].kids[m] \in 2 .. N
                BY <1>9, <3>3 DEF Arena, N
            <4>2. QED
                BY <1>1, <1>7, <1>9, <3>3, <4>1
        <3>4. QED
            BY <1>1, <1>7, <3>1, <3>2, <3>3
    <2>2. ASSUME NEW i \in 2 .. Len(new)
          PROVE  new[i].mv \in Pos
        <3>1. CASE i = N + 1
            BY <1>4, <1>7, <3>1
        <3>2. CASE i \in 2 .. N
            BY <1>5, <1>9, <3>2 DEF Arena, N
        <3>3. QED
            BY <1>1, <1>7, <3>1, <3>2
    <2>3. new # <<>>
        BY <1>1, <1>7
    <2>4. QED
        BY <1>7, <2>1, <2>2, <2>3 DEF Arena
<1>11. QED
    BY <1>7, <1>8, <1>9, <1>10 DEF n, kids, f, N, WithKid

(* A new child is a position of its own; the others stand for what they    *)
(* stood for.                                                              *)
LEMMA AddedMeant ==
    ASSUME NEW ns, ArenaOK(ns), NEW id \in 1 .. Len(ns), NEW mv \in Pos, Static[Shows(ns, id)] = NoOutcome
    PROVE  /\ ArenaOK(Tree!Added(id, mv, ns))
           /\ Shows(Tree!Added(id, mv, ns), Len(ns) + 1) = mv
<1>0. /\ Arena(Tree!Added(id, mv, ns))
      /\ Len(Tree!Added(id, mv, ns)) = Len(ns) + 1
      /\ Tree!Added(id, mv, ns)[Len(ns) + 1] = Tree!Placeholder(mv)
      /\ Tree!Added(id, mv, ns)[id] = WithKid(ns[id], Len(ns) + 1)
      /\ \A i \in 1 .. Len(ns) : i # id => Tree!Added(id, mv, ns)[i] = ns[i]
    BY AddedArena DEF ArenaOK
<1> DEFINE N == Len(ns)
           new == Tree!Added(id, mv, ns)
<1>1. Arena(ns) /\ Meant(ns) /\ N \in Nat \ {0} /\ ns[id] \in Nodes
    BY DEF ArenaOK, Arena
<1>2. /\ Arena(new) /\ Len(new) = N + 1
      /\ new[N + 1] = Tree!Placeholder(mv)
      /\ new[id] = WithKid(ns[id], N + 1)
      /\ \A i \in 1 .. N : i # id => new[i] = ns[i]
    BY <1>0
<1>3. /\ new[N + 1].mv = mv /\ new[N + 1].kids = <<>> /\ new[N + 1].outcome = NoOutcome
    BY <1>2 DEF Tree!Placeholder, Tree!NoOutcome, NoOutcome
<1>4. new[id].mv = ns[id].mv /\ new[id].outcome = ns[id].outcome /\ new[id].pos = ns[id].pos
    BY <1>1, <1>2 DEF Nodes, WithKid
<1> HIDE DEF new, N
<1>5. \A i \in 1 .. N : Shows(new, i) = Shows(ns, i) /\ new[i].outcome = ns[i].outcome /\ new[i].pos = ns[i].pos
    BY <1>2, <1>4 DEF Shows
<1>6. \A i \in 1 .. N : new[i].kids # <<>> => Static[Shows(new, i)] = NoOutcome
    <2>1. ASSUME NEW i \in 1 .. N, i # id, new[i].kids # <<>> PROVE Static[Shows(ns, i)] = NoOutcome
        BY <1>1, <1>2, <2>1 DEF Meant, N
    <2>2. QED
        BY <1>5, <2>1
<1>7. \A i \in 1 .. N : new[i].outcome # NoOutcome => new[i].pos = Shows(new, i)
    BY <1>1, <1>5 DEF Meant, N
<1>8. Meant(new)
    <2>1. \A i \in 1 .. Len(new) : i \in 1 .. N \/ i = N + 1
        BY <1>1, <1>2
    <2>2. QED
        BY <1>3, <1>6, <1>7, <2>1 DEF Meant
<1>9. Shows(new, N + 1) = mv
    BY <1>1, <1>3 DEF Shows
<1>10. QED
    BY <1>2, <1>8, <1>9 DEF ArenaOK, new, N

(* A place in an arena.                                                    *)
Sites == {x \in [id : Nat, ns : Seq(Nodes)] : Arena(x.ns) /\ x.id \in 1 .. Len(x.ns)}

(* A step of a path leads to the child it names.                           *)
LEMMA StepSite ==
    ASSUME NEW x \in Sites, NEW mv \in Pos
    PROVE  /\ Tree!Step(x, mv) \in Sites
           /\ ArenaOK(x.ns) /\ Static[Shows(x.ns, x.id)] = NoOutcome
                 => ArenaOK(Tree!Step(x, mv).ns) /\ Shows(Tree!Step(x, mv).ns, Tree!Step(x, mv).id) = mv
<1> DEFINE ns == x.ns
           id == x.id
           known == {k \in Tree!ToSet(x.ns[x.id].kids) : x.ns[k].mv = mv}
           k == CHOOSE k \in known : TRUE
           y == Tree!Step(x, mv)
<1>1. /\ x \in [id : Nat, ns : Seq(Nodes)] /\ Arena(ns) /\ id \in 1 .. Len(ns)
      /\ ns \in Seq(Nodes) /\ id \in Nat /\ Len(ns) \in Nat
    BY DEF Sites
<1>2. y = IF known # {} THEN [x EXCEPT !.id = k] ELSE [id |-> Len(ns) + 1, ns |-> Tree!Added(id, mv, ns)]
    BY DEF Tree!Step
<1> HIDE DEF y, k
<1>3. CASE known # {}
    <2>1. k \in known
        BY <1>3 DEF k
    <2>2. PICK n \in 1 .. Len(ns[id].kids) : k = ns[id].kids[n]
        <3>1. ns[id] \in Nodes
            <4> HIDE DEF ns, id
            <4>1. QED
                BY <1>1
        <3>2. ns[id].kids \in Seq(Nat)
            BY <3>1 DEF Nodes
        <3>3. QED
            BY <2>1, <3>2 DEF Tree!ToSet
    <2>3. k \in 2 .. Len(ns) /\ ns[k].mv = mv
        BY <1>1, <2>1, <2>2 DEF Arena
    <2> HIDE DEF known
    <2>4. y = [x EXCEPT !.id = k] /\ y.id = k /\ y.ns = ns
        BY <1>1, <1>2, <1>3
    <2>5. y \in Sites
        BY <1>1, <2>3, <2>4 DEF Sites
    <2>6. Shows(ns, k) = mv
        BY <2>3 DEF Shows
    <2>7. QED
        BY <2>4, <2>5, <2>6 DEF y
<1>4. CASE known = {}
    <2> HIDE DEF known
    <2>1. y.id = Len(ns) + 1 /\ y.ns = Tree!Added(id, mv, ns) /\ y = [id |-> y.id, ns |-> y.ns]
        BY <1>2, <1>4
    <2>2. Arena(Tree!Added(id, mv, ns)) /\ Len(Tree!Added(id, mv, ns)) = Len(ns) + 1
        BY <1>1, AddedArena
    <2>3. y \in Sites
        <3>1. y.ns \in Seq(Nodes) /\ y.id \in 1 .. Len(y.ns) /\ y.id \in Nat
            BY <1>1, <2>1, <2>2 DEF Arena
        <3>2. QED
            BY <2>1, <2>2, <3>1 DEF Sites
    <2>4. ASSUME ArenaOK(ns), Static[Shows(ns, id)] = NoOutcome
          PROVE  ArenaOK(y.ns) /\ Shows(y.ns, y.id) = mv
        BY <1>1, <2>1, <2>4, AddedMeant
    <2>5. QED
        BY <2>3, <2>4 DEF y
<1>5. QED
    BY <1>3, <1>4

(* The places along a path, one step from the other.                       *)
LEMMA LocatedIs ==
    ASSUME NEW path \in Seq(Pos), NEW ns, Arena(ns)
    PROVE  \E f \in [0 .. Len(path) -> Sites] :
              /\ f[0] = [id |-> 1, ns |-> ns]
              /\ \A n \in 1 .. Len(path) : f[n] = Tree!Step(f[n - 1], path[n])
              /\ Tree!Located(path, ns) = f[Len(path)]
<1> DEFINE N == Len(path)
           a == [id |-> 1, ns |-> ns]
           g == [x \in (1 .. N) \X Sites |-> Tree!Step(x[2], path[x[1]])]
<1>1. N \in Nat /\ \A n \in 1 .. N : path[n] \in Pos
    OBVIOUS
<1>2. a \in Sites
    BY DEF Arena, Sites
<1> HIDE DEF N, a
<1>3. g \in [(1 .. N) \X Sites -> Sites] /\ \A n \in 1 .. N : \A x \in Sites : g[<<n, x>>] = Tree!Step(x, path[n])
    <2>1. \A n \in 1 .. N : \A x \in Sites : Tree!Step(x, path[n]) \in Sites
        BY <1>1, StepSite
    <2>2. QED
        BY <2>1
<1> HIDE DEF g
<1>4. PICK f \in [0 .. N -> Sites] : f[0] = a /\ \A n \in 1 .. N : f[n] = g[<<n, f[n - 1]>>]
    <2>1. \E f : Chained(N, Sites, a, g, f)
        BY <1>1, <1>2, <1>3, Chain
    <2>2. QED
        BY <2>1 DEF Chained
<1>5. \A n \in 1 .. N : f[n - 1] \in Sites /\ f[n] = Tree!Step(f[n - 1], path[n])
    <2> SUFFICES ASSUME NEW n \in 1 .. N PROVE f[n - 1] \in Sites /\ f[n] = Tree!Step(f[n - 1], path[n])
        OBVIOUS
    <2>1. f[n - 1] \in Sites
        BY <1>1
    <2>2. QED
        BY <1>3, <1>4, <2>1
<1>6. f = [n \in 0 .. N |-> IF n = 0 THEN a ELSE Tree!Step(f[n - 1], path[n])]
    <2>1. \A n \in 0 .. N : f[n] = IF n = 0 THEN a ELSE Tree!Step(f[n - 1], path[n])
        BY <1>1, <1>4, <1>5
    <2>2. QED
        BY <2>1
<1> DEFINE h == CHOOSE u : u = [n \in 0 .. N |-> IF n = 0 THEN a ELSE Tree!Step(u[n - 1], path[n])]
<1>7. h = [n \in 0 .. N |-> IF n = 0 THEN a ELSE Tree!Step(h[n - 1], path[n])]
    BY <1>6
<1>8. Tree!Located(path, ns) = h[N]
    BY DEF Tree!Located, a, N
<1> HIDE DEF h
<1> DEFINE S == {n \in 0 .. N : h[n] = f[n]}
<1>9. 0 \in S
    BY <1>1, <1>4, <1>7
<1>10. ASSUME NEW n \in 1 .. N, n - 1 \in S
       PROVE  n \in S
    <2>1. n \in 0 .. N /\ n # 0 /\ h[n] = Tree!Step(h[n - 1], path[n])
        BY <1>1, <1>7
    <2>2. QED
        BY <1>5, <1>10, <2>1
<1> HIDE DEF S
<1>11. N \in S
    <2>1. \A n \in 0 .. N : n \in S
        BY <1>1, <1>9, <1>10, Passed
    <2>2. QED
        BY <1>1, <2>1
<1>12. h[N] = f[N]
    BY <1>11 DEF S
<1>13. QED
    BY <1>4, <1>5, <1>8, <1>12 DEF N, a

(* The node of a path, and those added on the way to it.                   *)
LEMMA LocatedSite ==
    ASSUME NEW path \in Seq(Pos), NEW ns, Arena(ns)
    PROVE  /\ Tree!Located(path, ns) \in Sites
           /\ ArenaOK(ns) /\ (path # <<>> => Static[root] = NoOutcome)
                 /\ (\A n \in 1 .. Len(path) - 1 : Static[path[n]] = NoOutcome)
              => /\ ArenaOK(Tree!Located(path, ns).ns)
                 /\ Shows(Tree!Located(path, ns).ns, Tree!Located(path, ns).id) = Ends(path)
<1> DEFINE N == Len(path)
<1>0. N \in Nat /\ \A n \in 1 .. N : path[n] \in Pos
    OBVIOUS
<1>1. PICK f \in [0 .. N -> Sites] :
              /\ f[0] = [id |-> 1, ns |-> ns]
              /\ \A n \in 1 .. N : f[n] = Tree!Step(f[n - 1], path[n])
              /\ Tree!Located(path, ns) = f[N]
    BY LocatedIs
<1>2. Tree!Located(path, ns) \in Sites
    BY <1>0, <1>1
<1> SUFFICES ASSUME ArenaOK(ns), path # <<>> => Static[root] = NoOutcome,
                    \A n \in 1 .. N - 1 : Static[path[n]] = NoOutcome
             PROVE  ArenaOK(f[N].ns) /\ Shows(f[N].ns, f[N].id) = Ends(path)
    BY <1>1, <1>2
<1>3. path # <<>> <=> N # 0
    OBVIOUS
<1> HIDE DEF N
<1> DEFINE S == {n \in 0 .. N : ArenaOK(f[n].ns) /\ Shows(f[n].ns, f[n].id) = IF n = 0 THEN root ELSE path[n]}
<1>4. 0 \in S
    BY <1>0, <1>1 DEF Shows
<1>5. ASSUME NEW n \in 1 .. N, n - 1 \in S
      PROVE  n \in S
    <2>1. n \in 0 .. N /\ n - 1 \in 0 .. N /\ n # 0 /\ f[n - 1] \in Sites /\ path[n] \in Pos
        BY <1>0
    <2>2. Static[Shows(f[n - 1].ns, f[n - 1].id)] = NoOutcome
        <3>1. CASE n = 1
            BY <1>0, <1>3, <1>5, <3>1
        <3>2. CASE n # 1
            <4>1. n - 1 \in 1 .. N - 1 /\ n - 1 # 0
                BY <1>0, <3>2
            <4>2. QED
                BY <1>5, <4>1
        <3>3. QED
            BY <3>1, <3>2
    <2>3. ArenaOK(f[n - 1].ns) /\ f[n] = Tree!Step(f[n - 1], path[n])
        BY <1>1, <1>5
    <2>4. ArenaOK(f[n].ns) /\ Shows(f[n].ns, f[n].id) = path[n]
        BY <2>1, <2>2, <2>3, StepSite
    <2>5. QED
        BY <2>1, <2>4
<1> HIDE DEF S
<1>6. N \in S
    <2>1. \A n \in 0 .. N : n \in S
        BY <1>0, <1>4, <1>5, Passed
    <2>2. QED
        BY <1>0, <2>1
<1>7. QED
    BY <1>3, <1>6 DEF S, Ends, N

(* What is kept of the children of a node are some of them.                *)
LEMMA KeptIs ==
    ASSUME NEW ns, Arena(ns), NEW id \in 1 .. Len(ns)
    PROVE  /\ Tree!Kept(id, ns) \in Seq(2 .. Len(ns))
           /\ Tree!Kept(id, ns) # <<>> => ns[id].kids # <<>>
<1> DEFINE kids == ns[id].kids
           K == 2 .. Len(ns)
           N == Len(kids)
           losses == {k \in Tree!ToSet(kids) : ns[k].outcome = "Loss"}
           shallow == {i \in DOMAIN kids : kids[i] \in losses /\ \A k \in losses : ns[kids[i]].depth <= ns[k].depth}
           w == CHOOSE w : w = [n \in 0 .. N |-> IF n = 0 THEN <<>>
                                   ELSE IF ns[kids[n]].outcome = "Win" THEN Append(w[n - 1], kids[n]) ELSE w[n - 1]]
<1>1. ns[id] \in Nodes /\ \A k \in K : ns[k] \in Nodes
    BY DEF Arena
<1>2. kids \in Seq(Nat) /\ ns[id].outcome \in Decisive \cup {NoOutcome}
    BY <1>1 DEF Nodes
<1>3. \A n \in 1 .. Len(kids) : kids[n] \in K
    BY DEF Arena
<1>4. Tree!Kept(id, ns) = CASE ns[id].outcome = "Win" -> IF losses = {} THEN <<>> ELSE <<kids[Tree!Min(shallow)]>>
                            [] ns[id].outcome = "Loss" -> w[N]
                            [] ns[id].outcome = "Draw" -> <<>>
                            [] OTHER -> kids
    BY DEF Tree!Kept
<1> HIDE DEF w, kids, K
<1>5. N \in Nat /\ kids \in Seq(K)
    BY <1>2, <1>3
<1>6. CASE ns[id].outcome = "Win"
    <2>1. Tree!Kept(id, ns) = IF losses = {} THEN <<>> ELSE <<kids[Tree!Min(shallow)]>>
        BY <1>4, <1>6
    <2>2. CASE losses = {}
        <3>1. Tree!Kept(id, ns) = <<>>
            BY <2>1, <2>2
        <3>2. QED
            BY <3>1 DEF K, kids
    <2>3. CASE losses # {}
        <3>1. \A k \in losses : k \in K /\ ns[k].depth \in Nat /\ \E n \in 1 .. N : kids[n] = k
            <4>1. SUFFICES ASSUME NEW k \in losses PROVE k \in K /\ ns[k].depth \in Nat /\ \E n \in 1 .. N : kids[n] = k
                OBVIOUS
            <4>2. PICK n \in 1 .. N : kids[n] = k
                BY <1>5 DEF Tree!ToSet
            <4>3. k \in K
                BY <1>3, <4>2
            <4>4. QED
                BY <1>1, <4>2, <4>3 DEF Nodes
        <3> HIDE DEF losses
        <3>2. {ns[k].depth : k \in losses} \subseteq Nat /\ {ns[k].depth : k \in losses} # {}
            BY <2>3, <3>1
        <3>3. PICK m \in {ns[k].depth : k \in losses} : \A d \in {ns[k].depth : k \in losses} : m <= d
            BY <3>2, LeastExists
        <3>4. PICK k \in losses : m = ns[k].depth
            BY <3>3
        <3>5. PICK n \in 1 .. N : kids[n] = k
            BY <3>1
        <3>6. \A j \in losses : ns[kids[n]].depth <= ns[j].depth
            BY <3>3, <3>4, <3>5
        <3>7. shallow # {} /\ shallow \subseteq 1 .. N /\ shallow \subseteq Nat
            <4>1. DOMAIN kids = 1 .. N
                BY <1>5
            <4>2. n \in shallow
                BY <3>4, <3>5, <3>6, <4>1
            <4>3. QED
                BY <4>1, <4>2
        <3> HIDE DEF shallow
        <3>8. PICK i \in shallow : \A j \in shallow : i <= j
            BY <3>7, LeastExists
        <3>9. Tree!Min(shallow) \in shallow
            BY <3>8 DEF Tree!Min
        <3>10. Tree!Min(shallow) \in 1 .. N /\ kids[Tree!Min(shallow)] \in K /\ N # 0
            <4> DEFINE first == Tree!Min(shallow)
            <4>1. first \in 1 .. N
                BY <3>7, <3>9
            <4> HIDE DEF first
            <4>2. kids[first] \in K
                BY <1>3, <4>1
            <4>3. N # 0
                BY <1>5, <4>1
            <4>4. QED
                BY <4>1, <4>2, <4>3 DEF first
        <3>11. <<kids[Tree!Min(shallow)]>> \in Seq(K)
            BY <3>10
        <3>12. Tree!Kept(id, ns) = <<kids[Tree!Min(shallow)]>>
            BY <2>1, <2>3
        <3>13. kids # <<>>
            BY <3>10
        <3>14. QED
            BY <3>11, <3>12, <3>13 DEF K, kids
    <2>4. QED
        BY <2>2, <2>3
<1>7. CASE ns[id].outcome = "Loss"
    <2> DEFINE V == Seq(K)
               yes(n) == ns[kids[n]].outcome = "Win"
               next(n, s) == IF yes(n) THEN Append(s, kids[n]) ELSE s
               g == [x \in (1 .. N) \X V |-> next(x[1], x[2])]
    <2>1. \A n \in 1 .. N : \A s \in V : next(n, s) \in V
        BY <1>3
    <2>2. <<>> \in V
        OBVIOUS
    <2> HIDE DEF V, next, N
    <2>3. g \in [(1 .. N) \X V -> V] /\ \A n \in 1 .. N : \A s \in V : g[<<n, s>>] = next(n, s)
        BY <2>1
    <2> HIDE DEF g
    <2>4. PICK f \in [0 .. N -> V] : f[0] = <<>> /\ \A n \in 1 .. N : f[n] = g[<<n, f[n - 1]>>]
        <3>1. \E f : Chained(N, V, <<>>, g, f)
            BY <1>5, <2>2, <2>3, Chain
        <3>2. QED
            BY <3>1 DEF Chained
    <2>5. \A n \in 1 .. N : f[n - 1] \in V /\ f[n] = next(n, f[n - 1])
        <3> SUFFICES ASSUME NEW n \in 1 .. N PROVE f[n - 1] \in V /\ f[n] = next(n, f[n - 1])
            OBVIOUS
        <3>1. f[n - 1] \in V
            BY <1>5
        <3>2. QED
            BY <2>3, <2>4, <3>1
    <2>6. f = [n \in 0 .. N |-> IF n = 0 THEN <<>> ELSE next(n, f[n - 1])]
        <3>1. \A n \in 0 .. N : f[n] = IF n = 0 THEN <<>> ELSE next(n, f[n - 1])
            BY <1>5, <2>4, <2>5
        <3>2. QED
            BY <3>1
    <2>7. w = [n \in 0 .. N |-> IF n = 0 THEN <<>> ELSE next(n, w[n - 1])]
        BY <2>6 DEF w, next, yes
    <2> DEFINE S == {n \in 0 .. N : w[n] \in V}
    <2>8. 0 \in S
        BY <1>5, <2>2, <2>7
    <2>9. ASSUME NEW n \in 1 .. N, n - 1 \in S
          PROVE  n \in S
        <3>1. n \in 0 .. N /\ n # 0 /\ w[n] = next(n, w[n - 1])
            BY <1>5, <2>7
        <3>2. QED
            BY <2>1, <2>9, <3>1
    <2> HIDE DEF S
    <2>10. N \in S
        <3>1. \A n \in 0 .. N : n \in S
            BY <1>5, <2>8, <2>9, Passed
        <3>2. QED
            BY <1>5, <3>1
    <2>11. w[N] \in Seq(K)
        BY <2>10 DEF S, V
    <2>12. N = 0 => w[N] = <<>>
        BY <2>7
    <2>13. Tree!Kept(id, ns) = w[N]
        BY <1>4, <1>7
    <2>14. kids = <<>> => N = 0
        BY DEF N
    <2>15. QED
        BY <2>11, <2>12, <2>13, <2>14 DEF K, kids
<1>8. CASE ns[id].outcome = NoOutcome
    <2>1. Tree!Kept(id, ns) = kids
        BY <1>4, <1>8 DEF NoOutcome
    <2>2. QED
        BY <1>5, <2>1 DEF K, kids
<1>9. QED
    BY <1>2, <1>6, <1>7, <1>8 DEF Decisive

(* A reconciled node stands for what it stood for.                         *)
LEMMA ReconciledOK ==
    ASSUME NEW ns, ArenaOK(ns), NEW id \in 1 .. Len(ns)
    PROVE  ArenaOK(Tree!Reconciled(id, ns)) /\ Len(Tree!Reconciled(id, ns)) = Len(ns)
<1> DEFINE kids == Tree!Kept(id, ns)
           n == [ns[id] EXCEPT !.kids = kids]
           new == [ns EXCEPT ![id] = n]
<1>1. Arena(ns) /\ Meant(ns) /\ ns \in Seq(Nodes) /\ Len(ns) \in Nat \ {0} /\ ns[id] \in Nodes
    BY DEF ArenaOK, Arena
<1>2. kids \in Seq(2 .. Len(ns)) /\ (kids # <<>> => ns[id].kids # <<>>)
    BY <1>1, KeptIs
<1>3. Tree!Reconciled(id, ns) = new
    BY DEF Tree!Reconciled
<1> HIDE DEF kids
<1>4. kids \in Seq(Nat) /\ \A m \in 1 .. Len(kids) : kids[m] \in 2 .. Len(ns)
    BY <1>2
<1>5. /\ n \in Nodes /\ n.kids = kids
      /\ n.mv = ns[id].mv /\ n.outcome = ns[id].outcome /\ n.pos = ns[id].pos
    BY <1>1, <1>4 DEF Nodes
<1> HIDE DEF n
<1>6. new \in Seq(Nodes) /\ Len(new) = Len(ns) /\ new[id] = n /\ \A i \in 1 .. Len(ns) : i # id => new[i] = ns[i]
    BY <1>1, <1>5
<1> HIDE DEF new
<1>7. \A i \in 1 .. Len(ns) : /\ new[i].mv = ns[i].mv /\ new[i].outcome = ns[i].outcome /\ new[i].pos = ns[i].pos
                              /\ Shows(new, i) = Shows(ns, i)
                              /\ new[i].kids # <<>> => ns[i].kids # <<>>
                              /\ \A m \in 1 .. Len(new[i].kids) : new[i].kids[m] \in 2 .. Len(ns)
    <2> SUFFICES ASSUME NEW i \in 1 .. Len(ns)
                 PROVE  /\ new[i].mv = ns[i].mv /\ new[i].outcome = ns[i].outcome /\ new[i].pos = ns[i].pos
                        /\ new[i].kids # <<>> => ns[i].kids # <<>>
                        /\ \A m \in 1 .. Len(new[i].kids) : new[i].kids[m] \in 2 .. Len(ns)
        BY DEF Shows
    <2>1. CASE i = id
        BY <1>2, <1>4, <1>5, <1>6, <2>1
    <2>2. CASE i # id
        BY <1>1, <1>6, <2>2 DEF Arena
    <2>3. QED
        BY <2>1, <2>2
<1>8. Arena(new)
    <2>1. new # <<>> /\ \A i \in 2 .. Len(ns) : i \in 1 .. Len(ns)
        BY <1>1, <1>6
    <2>2. \A i \in 2 .. Len(new) : new[i].mv \in Pos
        BY <1>1, <1>6, <1>7, <2>1 DEF Arena
    <2>3. QED
        BY <1>6, <1>7, <2>1, <2>2 DEF Arena
<1>9. Meant(new)
    BY <1>1, <1>6, <1>7 DEF Meant
<1>10. QED
    BY <1>3, <1>6, <1>8, <1>9 DEF ArenaOK

(* The node of an event takes its claim.                                   *)
LEMMA AppliedOK ==
    ASSUME NEW ns, ArenaOK(ns), NEW id \in 1 .. Len(ns), NEW e \in Sent, Shows(ns, id) = e.pos
    PROVE  /\ ArenaOK([ns EXCEPT ![id] = Tree!Applied(e, ns[id])])
           /\ Len([ns EXCEPT ![id] = Tree!Applied(e, ns[id])]) = Len(ns)
<1> DEFINE n == Tree!Applied(e, ns[id])
           new == [ns EXCEPT ![id] = n]
<1>1. Arena(ns) /\ Meant(ns) /\ ns \in Seq(Nodes) /\ Len(ns) \in Nat \ {0} /\ ns[id] \in Nodes
    BY DEF ArenaOK, Arena
<1>2. n \in Nodes /\ n.mv = ns[id].mv /\ n.pos = e.pos /\ n.kids = ns[id].kids
    <2>1. e.outcome \in Decisive /\ e.depth \in Nat /\ e.pos \in Pos
        BY DEF Sent
    <2>2. n = [ns[id] EXCEPT !.pos = e.pos,
                             !.outcome = IF ns[id].outcome = NoOutcome THEN e.outcome ELSE ns[id].outcome,
                             !.depth = IF ns[id].outcome = NoOutcome \/ e.depth < ns[id].depth
                                       THEN e.depth ELSE ns[id].depth]
        BY DEF Tree!Applied, Tree!NoOutcome, NoOutcome
    <2> HIDE DEF n
    <2>3. QED
        BY <1>1, <2>1, <2>2 DEF Nodes
<1> HIDE DEF n
<1>3. new \in Seq(Nodes) /\ Len(new) = Len(ns) /\ new[id] = n /\ \A i \in 1 .. Len(ns) : i # id => new[i] = ns[i]
    BY <1>1, <1>2
<1> HIDE DEF new
<1>4. \A i \in 1 .. Len(ns) : new[i].mv = ns[i].mv /\ new[i].kids = ns[i].kids /\ Shows(new, i) = Shows(ns, i)
    BY <1>2, <1>3 DEF Shows
<1>5. Arena(new)
    <2>1. new # <<>> /\ \A i \in 2 .. Len(ns) : i \in 1 .. Len(ns)
        BY <1>1, <1>3
    <2>2. \A i \in 2 .. Len(new) : new[i].mv \in Pos
        BY <1>1, <1>3, <1>4, <2>1 DEF Arena
    <2>3. \A i \in 1 .. Len(ns) : \A m \in 1 .. Len(new[i].kids) : new[i].kids[m] \in 2 .. Len(ns)
        BY <1>1, <1>4 DEF Arena
    <2>4. QED
        BY <1>3, <2>1, <2>2, <2>3 DEF Arena
<1>6. Meant(new)
    <2>1. \A i \in 1 .. Len(ns) : new[i].outcome # NoOutcome => new[i].pos = Shows(new, i)
        <3> SUFFICES ASSUME NEW i \in 1 .. Len(ns), new[i].outcome # NoOutcome PROVE new[i].pos = Shows(ns, i)
            BY <1>4
        <3>1. CASE i = id
            BY <1>2, <1>3, <3>1
        <3>2. CASE i # id
            BY <1>1, <1>3, <3>2 DEF Meant
        <3>3. QED
            BY <3>1, <3>2
    <2>2. QED
        BY <1>1, <1>3, <1>4, <2>1 DEF Meant
<1>7. QED
    BY <1>3, <1>5, <1>6 DEF ArenaOK, new, n

(* An event leaves the arena in order: at its node, and at its parent.     *)
LEMMA ClaimedOK ==
    ASSUME NEW ns, ArenaOK(ns), NEW e, EventOK(e)
    PROVE  \A own \in Tree!Claimed(e, ns) : ArenaOK(own)
<1> DEFINE x == Tree!Located(e.path, ns)
           own == [x.ns EXCEPT ![x.id] = Tree!Applied(e, x.ns[x.id])]
<1>1. e \in Sent /\ e.path \in Seq(Pos) /\ e.pos = Ends(e.path) /\ Arena(ns)
    BY DEF EventOK, Sent, ArenaOK
<1>2. x \in Sites /\ ArenaOK(x.ns) /\ Shows(x.ns, x.id) = e.pos
    BY <1>1, LocatedSite DEF EventOK
<1>3. x.id \in 1 .. Len(x.ns)
    BY <1>2 DEF Sites
<1>4. Tree!Claimed(e, ns) = {IF x.ns[x.id].outcome = Tree!NoOutcome THEN Tree!Reconciled(x.id, own) ELSE own}
    BY DEF Tree!Claimed
<1> HIDE DEF x
<1>5. ArenaOK(own) /\ Len(own) = Len(x.ns)
    BY <1>1, <1>2, <1>3, AppliedOK
<1> HIDE DEF own
<1>6. ArenaOK(Tree!Reconciled(x.id, own))
    BY <1>3, <1>5, ReconciledOK
<1>7. QED
    BY <1>4, <1>5, <1>6

(* The event, and then its parent, are reconciled.                         *)
LEMMA ProcessedOK ==
    ASSUME NEW ns, ArenaOK(ns), NEW e, EventOK(e)
    PROVE  \A new \in Tree!Processed(e, ns) : ArenaOK(new)
<1> DEFINE front == Tree!Front(e.path)
           N == Len(e.path)
<1>1. e.path \in Seq(Pos) /\ N \in Nat
    BY DEF EventOK, Sent
<1>2. CASE e.path = <<>>
    <2>1. Tree!Processed(e, ns) = Tree!Claimed(e, ns)
        BY <1>2 DEF Tree!Processed
    <2>2. QED
        BY <2>1, ClaimedOK
<1>3. CASE e.path # <<>>
    <2>1. Tree!Processed(e, ns) = {Tree!Reconciled(up.id, up.ns) :
                                      up \in {Tree!Located(front, own) : own \in Tree!Claimed(e, ns)}}
        BY <1>3 DEF Tree!Processed
    <2>2. /\ front \in Seq(Pos) /\ Len(front) = N - 1
          /\ \A n \in 1 .. N - 1 : front[n] = e.path[n]
        <3>1. front = SubSeq(e.path, 1, N - 1) /\ N # 0
            BY <1>1, <1>3 DEF Tree!Front
        <3>2. QED
            BY <1>1, <3>1
    <2>3. /\ Static[root] = NoOutcome
          /\ \A n \in 1 .. Len(front) - 1 : Static[front[n]] = NoOutcome
        <3>1. \A n \in 1 .. Len(front) - 1 : n \in 1 .. N - 1
            BY <1>1, <2>2
        <3>2. QED
            BY <1>3, <2>2, <3>1 DEF EventOK
    <2> HIDE DEF front
    <2>4. SUFFICES ASSUME NEW own \in Tree!Claimed(e, ns)
                   PROVE  ArenaOK(Tree!Reconciled(Tree!Located(front, own).id, Tree!Located(front, own).ns))
        BY <2>1
    <2>5. ArenaOK(own) /\ Arena(own)
        BY ClaimedOK DEF ArenaOK
    <2>6. Tree!Located(front, own) \in Sites /\ ArenaOK(Tree!Located(front, own).ns)
        BY <2>2, <2>3, <2>5, LocatedSite
    <2>7. Tree!Located(front, own).id \in 1 .. Len(Tree!Located(front, own).ns)
        BY <2>6 DEF Sites
    <2>8. QED
        BY <2>6, <2>7, ReconciledOK
<1>4. QED
    BY <1>2, <1>3

(* What the worker keeps while it handles events.                          *)
Workers == {w \in [nodes : Seq(Nodes), limited : BOOLEAN, dropped : Nat] : ArenaOK(w.nodes)}

(* An event is handled, or dropped once the flag is up.                    *)
LEMMA HandledOK ==
    ASSUME NEW w \in Workers, NEW e, EventOK(e)
    PROVE  Tree!Handled(w, e) \subseteq Workers
<1>1. w \in [nodes : Seq(Nodes), limited : BOOLEAN, dropped : Nat] /\ ArenaOK(w.nodes)
    BY DEF Workers
<1>2. CASE w.limited
    <2>1. Tree!Handled(w, e) = {[w EXCEPT !.dropped = w.dropped + 1]}
        BY <1>2 DEF Tree!Handled
    <2>2. [w EXCEPT !.dropped = w.dropped + 1] \in Workers
        BY <1>1 DEF Workers
    <2>3. QED
        BY <2>1, <2>2
<1>3. CASE ~w.limited
    <2>1. Tree!Handled(w, e) = {[w EXCEPT !.nodes = ns, !.limited = Len(ns) > budget] :
                                   ns \in Tree!Processed(e, w.nodes)}
        BY <1>3 DEF Tree!Handled
    <2>2. ASSUME NEW ns \in Tree!Processed(e, w.nodes)
          PROVE  [w EXCEPT !.nodes = ns, !.limited = Len(ns) > budget] \in Workers
        <3>1. ArenaOK(ns) /\ ns \in Seq(Nodes)
            BY <1>1, ProcessedOK DEF ArenaOK, Arena
        <3>2. (Len(ns) > budget) \in BOOLEAN
            OBVIOUS
        <3> DEFINE up == Len(ns) > budget
        <3> HIDE DEF up
        <3>3. [w EXCEPT !.nodes = ns, !.limited = up] \in Workers
            BY <1>1, <3>1, <3>2 DEF Workers, up
        <3>4. QED
            BY <3>3 DEF up
    <2>3. QED
        BY <2>1, <2>2
<1>4. QED
    BY <1>2, <1>3

(* The events left in the channel, handled one after the other.            *)
LEMMA DrainedOK ==
    ASSUME NEW w \in Workers, NEW es \in Seq(Sent), \A n \in 1 .. Len(es) : EventOK(es[n])
    PROVE  Tree!Drained(w, es) \subseteq Workers
<1> DEFINE N == Len(es)
           V == SUBSET Workers
           next(n, s) == UNION {Tree!Handled(x, es[n]) : x \in s}
           g == [x \in (1 .. N) \X V |-> next(x[1], x[2])]
           h == CHOOSE h : h = [n \in 0 .. N |-> IF n = 0 THEN {w} ELSE next(n, h[n - 1])]
<1>1. N \in Nat
    OBVIOUS
<1>2. \A n \in 1 .. N : \A s \in V : next(n, s) \in V
    <2> SUFFICES ASSUME NEW n \in 1 .. N, NEW s \in V, NEW x \in s PROVE Tree!Handled(x, es[n]) \subseteq Workers
        OBVIOUS
    <2>1. QED
        BY HandledOK
<1>3. {w} \in V
    OBVIOUS
<1>4. Tree!Drained(w, es) = h[N]
    BY DEF Tree!Drained
<1> HIDE DEF N, V, next, h
<1>5. g \in [(1 .. N) \X V -> V] /\ \A n \in 1 .. N : \A s \in V : g[<<n, s>>] = next(n, s)
    BY <1>2
<1> HIDE DEF g
<1>6. PICK f \in [0 .. N -> V] : f[0] = {w} /\ \A n \in 1 .. N : f[n] = g[<<n, f[n - 1]>>]
    <2>1. \E f : Chained(N, V, {w}, g, f)
        BY <1>1, <1>3, <1>5, Chain
    <2>2. QED
        BY <2>1 DEF Chained
<1>7. \A n \in 1 .. N : f[n - 1] \in V /\ f[n] = next(n, f[n - 1])
    <2> SUFFICES ASSUME NEW n \in 1 .. N PROVE f[n - 1] \in V /\ f[n] = next(n, f[n - 1])
        OBVIOUS
    <2>1. f[n - 1] \in V
        BY <1>1
    <2>2. QED
        BY <1>5, <1>6, <2>1
<1>8. f = [n \in 0 .. N |-> IF n = 0 THEN {w} ELSE next(n, f[n - 1])]
    <2>1. \A n \in 0 .. N : f[n] = IF n = 0 THEN {w} ELSE next(n, f[n - 1])
        BY <1>1, <1>6, <1>7
    <2>2. QED
        BY <2>1
<1>9. h = [n \in 0 .. N |-> IF n = 0 THEN {w} ELSE next(n, h[n - 1])]
    BY <1>8 DEF h
<1> DEFINE S == {n \in 0 .. N : h[n] \in V}
<1>10. 0 \in S
    BY <1>1, <1>3, <1>9
<1>11. ASSUME NEW n \in 1 .. N, n - 1 \in S
       PROVE  n \in S
    <2>1. n \in 0 .. N /\ n # 0
        BY <1>1
    <2>2. h[n] = next(n, h[n - 1])
        <3>1. \A k \in 0 .. N : h[k] = IF k = 0 THEN {w} ELSE next(k, h[k - 1])
            BY <1>9
        <3>2. QED
            BY <2>1, <3>1
    <2>3. QED
        BY <1>2, <1>11, <2>1, <2>2
<1> HIDE DEF S
<1>12. N \in S
    <2>1. \A n \in 0 .. N : n \in S
        BY <1>1, <1>10, <1>11, Passed
    <2>2. QED
        BY <1>1, <2>1
<1>13. QED
    BY <1>4, <1>12 DEF S, V

-----------------------------------------------------------------------------
(* The tree rebuilt from an arena *)

(* One of a set of candidates beats the others, by a rank, by two numbers  *)
(* and by age.                                                             *)
Beats(c, d, l, i, j) ==
    IF c[i] # c[j] THEN c[i] > c[j]
    ELSE IF d[i] # d[j] THEN d[i] < d[j]
    ELSE IF l[i] # l[j] THEN l[i] > l[j]
    ELSE i < j

(* A set of candidates has one that beats the others.                      *)
LEMMA BestExists ==
    ASSUME NEW N \in Nat, NEW T, T \subseteq 1 .. N, T # {},
           NEW c \in [1 .. N -> Nat], NEW d \in [1 .. N -> Nat], NEW l \in [1 .. N -> Nat]
    PROVE  \E j \in T : \A k \in T \ {j} : Beats(c, d, l, j, k)
<1> DEFINE best(m, j) == \A k \in T \ {j} : k <= m => Beats(c, d, l, j, k)
           S == {m \in 0 .. N : (\E j \in T : j <= m) => \E j \in T : j <= m /\ best(m, j)}
<1>0. \A j \in T : j \in 1 .. N /\ j \in Nat /\ c[j] \in Nat /\ d[j] \in Nat /\ l[j] \in Nat
    OBVIOUS
<1>1. 0 \in S
    OBVIOUS
<1>2. ASSUME NEW m \in 0 .. N, m # 0, m - 1 \in S
      PROVE  m \in S
    <2>0. m \in Nat /\ m - 1 \in Nat
        <3> HIDE DEF S
        <3>1. QED
            BY <1>2
    <2>1. CASE m \notin T
        <3>1. \A j \in T : j <= m <=> j <= m - 1
            BY <1>0, <2>0, <2>1
        <3>2. QED
            BY <1>2, <3>1
    <2>2. CASE m \in T /\ ~ \E j \in T : j <= m - 1
        <3>1. \A k \in T \ {m} : ~ (k <= m)
            BY <1>0, <2>0, <2>2
        <3>2. best(m, m)
            BY <3>1
        <3>3. QED
            BY <2>0, <2>2, <3>2
    <2>3. CASE m \in T /\ \E j \in T : j <= m - 1
        <3>1. PICK j \in T : j <= m - 1 /\ best(m - 1, j)
            BY <1>2, <2>3
        <3>2. \A k \in T : k <= m => k = m \/ k <= m - 1
            BY <1>0, <2>0
        <3>3. j # m /\ j <= m
            BY <1>0, <2>0, <3>1
        <3>4. CASE Beats(c, d, l, j, m)
            <4>1. best(m, j)
                BY <3>1, <3>2, <3>4
            <4>2. QED
                BY <3>3, <4>1
        <3>5. CASE ~ Beats(c, d, l, j, m)
            <4>1. Beats(c, d, l, m, j)
                BY <1>0, <2>3, <3>3, <3>5 DEF Beats
            <4>2. ASSUME NEW k \in T \ {m}, k <= m PROVE Beats(c, d, l, m, k)
                <5>1. CASE k = j
                    BY <4>1, <5>1
                <5>2. CASE k # j
                    <6>1. Beats(c, d, l, j, k)
                        BY <3>1, <3>2, <4>2, <5>2
                    <6>2. /\ m \in Nat /\ j \in Nat /\ k \in Nat
                          /\ c[m] \in Nat /\ c[j] \in Nat /\ c[k] \in Nat
                          /\ d[m] \in Nat /\ d[j] \in Nat /\ d[k] \in Nat
                          /\ l[m] \in Nat /\ l[j] \in Nat /\ l[k] \in Nat
                        BY <1>0, <2>3
                    <6>3. QED
                        BY <4>1, <6>1, <6>2, ZenonT(1), SMTT(30) DEF Beats
                <5>3. QED
                    BY <5>1, <5>2
            <4>3. best(m, m)
                BY <4>2
            <4> HIDE DEF best
            <4>4. QED
                BY <2>0, <2>3, <4>3
        <3>6. QED
            BY <3>4, <3>5
    <2>4. QED
        BY <2>1, <2>2, <2>3
<1>3. N \in S
    <2> HIDE DEF S
    <2>1. 0 .. N \subseteq S
        BY <1>1, <1>2, Counting
    <2>2. QED
        BY <2>1
<1>4. PICK j \in T : best(N, j)
    BY <1>0, <1>3
<1>5. QED
    BY <1>0, <1>4

(* The twin that stands for a node says what the node says.                *)
LEMMA CanonicalIs ==
    ASSUME NEW ns, ArenaOK(ns), NEW i \in 1 .. Len(ns)
    PROVE  /\ Tree!Canonical(i, ns) \in 1 .. Len(ns)
           /\ ns[Tree!Canonical(i, ns)].pos = ns[i].pos
           /\ ns[Tree!Canonical(i, ns)].outcome = ns[i].outcome
<1> DEFINE N == Len(ns)
           twins == {j \in DOMAIN ns : Tree!Expanded(ns[j]) /\ ns[j].pos = ns[i].pos
                                                            /\ ns[j].outcome = ns[i].outcome}
           c == [j \in 1 .. N |-> IF Tree!Consistent(ns[j], ns) THEN 1 ELSE 0]
           d == [j \in 1 .. N |-> ns[j].depth]
           l == [j \in 1 .. N |-> Len(ns[j].kids)]
<1>1. Tree!Canonical(i, ns) = IF twins = {} THEN i
                              ELSE CHOOSE j \in twins : \A k \in twins \ {j} : Tree!Preferred(j, k, ns)
    BY DEF Tree!Canonical
<1>2. N \in Nat /\ DOMAIN ns = 1 .. N /\ \A j \in 1 .. N : ns[j].depth \in Nat /\ Len(ns[j].kids) \in Nat
    <2>1. ns \in Seq(Nodes)
        BY DEF ArenaOK, Arena
    <2>2. \A j \in 1 .. N : ns[j] \in Nodes
        BY <2>1
    <2>3. \A j \in 1 .. N : ns[j].depth \in Nat /\ ns[j].kids \in Seq(Nat)
        BY <2>2 DEF Nodes
    <2>4. QED
        BY <2>1, <2>3
<1>3. c \in [1 .. N -> Nat] /\ d \in [1 .. N -> Nat] /\ l \in [1 .. N -> Nat]
    BY <1>2
<1>4. \A j \in 1 .. N : \A k \in 1 .. N : Beats(c, d, l, j, k) => Tree!Preferred(j, k, ns)
    <2> SUFFICES ASSUME NEW j \in 1 .. N, NEW k \in 1 .. N, Beats(c, d, l, j, k)
                 PROVE  Tree!Preferred(j, k, ns)
        OBVIOUS
    <2>1. d[j] = ns[j].depth /\ d[k] = ns[k].depth /\ l[j] = Len(ns[j].kids) /\ l[k] = Len(ns[k].kids)
        OBVIOUS
    <2>2. /\ c[j] = IF Tree!Consistent(ns[j], ns) THEN 1 ELSE 0
          /\ c[k] = IF Tree!Consistent(ns[k], ns) THEN 1 ELSE 0
        OBVIOUS
    <2> HIDE DEF c, d, l
    <2>3. CASE Tree!Consistent(ns[j], ns) /\ Tree!Consistent(ns[k], ns)
        <3>1. Tree!Preferred(j, k, ns) <=>
                 IF ns[j].depth # ns[k].depth THEN ns[j].depth < ns[k].depth
                 ELSE IF Len(ns[j].kids) # Len(ns[k].kids) THEN Len(ns[j].kids) > Len(ns[k].kids)
                 ELSE j < k
            BY <2>3, Zenon DEF Tree!Preferred
        <3>2. c[j] = c[k]
            BY <2>2, <2>3
        <3>3. QED
            BY <2>1, <3>1, <3>2 DEF Beats
    <2>4. CASE Tree!Consistent(ns[j], ns) /\ ~ Tree!Consistent(ns[k], ns)
        BY <2>4, Zenon DEF Tree!Preferred
    <2>5. CASE ~ Tree!Consistent(ns[j], ns) /\ Tree!Consistent(ns[k], ns)
        BY <2>2, <2>5 DEF Beats
    <2>6. CASE ~ Tree!Consistent(ns[j], ns) /\ ~ Tree!Consistent(ns[k], ns)
        <3>1. Tree!Preferred(j, k, ns) <=>
                 IF ns[j].depth # ns[k].depth THEN ns[j].depth < ns[k].depth
                 ELSE IF Len(ns[j].kids) # Len(ns[k].kids) THEN Len(ns[j].kids) > Len(ns[k].kids)
                 ELSE j < k
            <4>1. Tree!Consistent(ns[j], ns) = Tree!Consistent(ns[k], ns)
                BY <2>6 DEF Tree!Consistent
            <4>2. QED
                BY <4>1, Zenon DEF Tree!Preferred
        <3>2. c[j] = c[k]
            BY <2>2, <2>6
        <3>3. QED
            BY <2>1, <3>1, <3>2 DEF Beats
    <2>7. QED
        BY <2>3, <2>4, <2>5, <2>6
<1>5. CASE twins = {}
    BY <1>1, <1>5
<1>6. CASE twins # {}
    <2>1. twins \subseteq 1 .. N
        BY <1>2
    <2>2. \A j \in twins : ns[j].pos = ns[i].pos /\ ns[j].outcome = ns[i].outcome
        OBVIOUS
    <2> HIDE DEF twins, c, d, l
    <2>3. PICK j \in twins : \A k \in twins \ {j} : Beats(c, d, l, j, k)
        BY <1>2, <1>3, <1>6, <2>1, BestExists
    <2>4. \A k \in twins \ {j} : Tree!Preferred(j, k, ns)
        BY <1>4, <2>1, <2>3
    <2>5. Tree!Canonical(i, ns) \in twins
        BY <1>1, <1>6, <2>4
    <2>6. QED
        BY <2>1, <2>2, <2>5
<1>7. QED
    BY <1>5, <1>6

(* A row ends at a node with a claim about the position its path leads to. *)
RowSet(ns) ==
    {row \in [path : Seq(Pos), line : Seq(1 .. Len(ns))] :
        /\ row.line # <<>>
        /\ ns[row.line[Len(row.line)]].outcome # NoOutcome
        /\ ns[row.line[Len(row.line)]].pos = Ends(row.path)}

(* The row of a child goes on from the row of its parent.                  *)
LEMMA BelowIs ==
    ASSUME NEW ns, ArenaOK(ns), NEW row \in RowSet(ns), NEW next \in Tree!Below(row, ns)
    PROVE  /\ next \in RowSet(ns)
           /\ Len(next.path) = Len(row.path) + 1 /\ Tree!Front(next.path) = row.path
           /\ Static[Ends(row.path)] = NoOutcome
<1> DEFINE last == row.line[Len(row.line)]
           N == Len(ns)
<1>1. /\ row.path \in Seq(Pos) /\ row.line \in Seq(1 .. N) /\ last \in 1 .. N
      /\ ns[last].outcome # NoOutcome /\ ns[last].pos = Ends(row.path)
    BY DEF RowSet
<1>2. Tree!Last(row.line) = last
    BY DEF Tree!Last
<1>3. Arena(ns) /\ Meant(ns) /\ N \in Nat /\ \A i \in 1 .. N : ns[i] \in Nodes
    BY DEF ArenaOK, Arena
<1> HIDE DEF last
<1>4. PICK k \in Tree!ToSet(ns[last].kids) :
          /\ ns[k].outcome # NoOutcome
          /\ next = [path |-> Append(row.path, ns[k].mv), line |-> Append(row.line, Tree!Canonical(k, ns))]
    BY <1>2 DEF Tree!Below, Tree!NoOutcome, NoOutcome
<1>5. ns[last].kids \in Seq(Nat)
    BY <1>1, <1>3 DEF Nodes
<1>6. PICK n \in 1 .. Len(ns[last].kids) : ns[last].kids[n] = k
    BY <1>4, <1>5 DEF Tree!ToSet
<1>7. k \in 2 .. N /\ k \in 1 .. N /\ ns[last].kids # <<>>
    <2>1. k \in 2 .. N
        BY <1>1, <1>3, <1>6 DEF Arena
    <2>2. ns[last].kids # <<>>
        BY <1>5, <1>6
    <2>3. QED
        BY <1>3, <2>1, <2>2
<1>8. Static[Ends(row.path)] = NoOutcome
    <2>1. Static[Shows(ns, last)] = NoOutcome /\ ns[last].pos = Shows(ns, last)
        BY <1>1, <1>3, <1>7 DEF Meant
    <2>2. QED
        BY <1>1, <2>1
<1>9. ns[k].mv \in Pos /\ ns[k].pos = ns[k].mv
    <2>1. ns[k].mv \in Pos
        BY <1>3, <1>7 DEF Arena
    <2>2. Shows(ns, k) = ns[k].mv
        BY <1>7 DEF Shows
    <2>3. QED
        BY <1>3, <1>4, <1>7, <2>1, <2>2 DEF Meant
<1> DEFINE c == Tree!Canonical(k, ns)
           mv == ns[k].mv
<1>10. c \in 1 .. N /\ ns[c].pos = mv /\ ns[c].outcome # NoOutcome
    BY <1>4, <1>7, <1>9, CanonicalIs
<1>11. /\ next = [path |-> Append(row.path, mv), line |-> Append(row.line, c)]
       /\ next.path = Append(row.path, mv) /\ next.line = Append(row.line, c)
    BY <1>4
<1>12. mv \in Pos
    BY <1>9
<1> HIDE DEF c, mv, N
<1>13. /\ next.path \in Seq(Pos) /\ Len(next.path) = Len(row.path) + 1 /\ next.path # <<>>
       /\ next.path[Len(next.path)] = mv /\ \A i \in 1 .. Len(row.path) : next.path[i] = row.path[i]
    <2>1. Append(row.path, mv) \in Seq(Pos) /\ Len(Append(row.path, mv)) = Len(row.path) + 1
        BY <1>1, <1>12, AppendProperties
    <2>2. /\ Append(row.path, mv) # <<>> /\ Append(row.path, mv)[Len(row.path) + 1] = mv
          /\ \A i \in 1 .. Len(row.path) : Append(row.path, mv)[i] = row.path[i]
        BY <1>1, <1>12, AppendProperties
    <2>3. QED
        BY <1>11, <2>1, <2>2
<1>14. next.line \in Seq(1 .. N) /\ Len(next.line) = Len(row.line) + 1 /\ next.line # <<>> /\ next.line[Len(next.line)] = c
    <2>1. /\ Append(row.line, c) \in Seq(1 .. N) /\ Len(Append(row.line, c)) = Len(row.line) + 1
          /\ Append(row.line, c) # <<>> /\ Append(row.line, c)[Len(row.line) + 1] = c
        BY <1>1, <1>10, AppendProperties
    <2>2. QED
        BY <1>11, <2>1
<1>15. next \in RowSet(ns)
    <2>1. Ends(next.path) = mv
        BY <1>13 DEF Ends
    <2>2. next \in [path : Seq(Pos), line : Seq(1 .. Len(ns))]
        <3>1. next = [path |-> next.path, line |-> next.line]
            BY <1>11
        <3>2. QED
            BY <1>13, <1>14, <3>1 DEF N
    <2>3. QED
        BY <1>10, <1>13, <1>14, <2>1, <2>2 DEF RowSet
<1>16. Tree!Front(next.path) = row.path
    <2>1. Tree!Front(next.path) = SubSeq(next.path, 1, Len(next.path) - 1)
        BY DEF Tree!Front
    <2>2. Len(next.path) - 1 = Len(row.path) /\ Len(row.path) \in Nat
        BY <1>1, <1>13
    <2>3. SubSeq(next.path, 1, Len(row.path)) = row.path
        BY <1>1, <1>12, <1>11, AppendProperties
    <2>4. QED
        BY <2>1, <2>2, <2>3
<1>17. QED
    BY <1>8, <1>13, <1>15, <1>16

RootRow(ns) == [path |-> <<>>, line |-> <<Tree!Canonical(1, ns)>>]

(* The row of the root.                                                    *)
LEMMA RootRowIs ==
    ASSUME NEW ns, ArenaOK(ns), ns[1].outcome # NoOutcome
    PROVE  RootRow(ns) \in RowSet(ns)
<1> DEFINE c == Tree!Canonical(1, ns)
<1>1. Arena(ns) /\ Meant(ns) /\ 1 \in 1 .. Len(ns)
    BY DEF ArenaOK, Arena
<1>2. ns[1].pos = root
    BY <1>1 DEF Meant, Shows
<1>3. c \in 1 .. Len(ns) /\ ns[c].pos = root /\ ns[c].outcome # NoOutcome
    BY <1>1, <1>2, CanonicalIs
<1> HIDE DEF c
<1>4. <<c>> \in Seq(1 .. Len(ns)) /\ Len(<<c>>) = 1 /\ <<c>>[1] = c /\ <<c>> # <<>>
    BY <1>3
<1>5. <<>> \in Seq(Pos) /\ Ends(<<>>) = root
    BY DEF Ends
<1>6. QED
    BY <1>3, <1>4, <1>5 DEF RootRow, RowSet, c

(* The rows of a rebuilt tree: the row of the root, and below each row     *)
(* those of the children of its last node.                                 *)
LEMMA RowsAre ==
    ASSUME NEW ns, ArenaOK(ns), ns[1].outcome # NoOutcome
    PROVE  /\ Tree!Rows(ns) \subseteq RowSet(ns)
           /\ RootRow(ns) \in Tree!Rows(ns)
           /\ \A row \in Tree!Rows(ns) : Len(row.path) <= Len(ns) + 1
           /\ \A row \in Tree!Rows(ns) : row.path # <<>> => \E up \in Tree!Rows(ns) : row \in Tree!Below(up, ns)
<1> DEFINE N == Len(ns) + 1
           V == SUBSET RowSet(ns)
           a == {RootRow(ns)}
           next(s) == UNION {Tree!Below(row, ns) : row \in s}
           g == [x \in (1 .. N) \X V |-> next(x[2])]
           h == CHOOSE h : h = [n \in 0 .. N |-> IF n = 0 THEN a ELSE next(h[n - 1])]
<1>1. N \in Nat
    BY DEF ArenaOK, Arena
<1>2. a \in V
    BY RootRowIs
<1>3. \A s \in V : next(s) \in V
    BY BelowIs
<1>4. Tree!Rows(ns) = UNION {h[n] : n \in 0 .. N}
    BY DEF Tree!Rows, RootRow
<1> HIDE DEF N, V, a, next, h
<1>5. g \in [(1 .. N) \X V -> V] /\ \A n \in 1 .. N : \A s \in V : g[<<n, s>>] = next(s)
    BY <1>3
<1> HIDE DEF g
<1>6. PICK f \in [0 .. N -> V] : f[0] = a /\ \A n \in 1 .. N : f[n] = g[<<n, f[n - 1]>>]
    <2>1. \E f : Chained(N, V, a, g, f)
        BY <1>1, <1>2, <1>5, Chain
    <2>2. QED
        BY <2>1 DEF Chained
<1>7. \A n \in 1 .. N : f[n - 1] \in V /\ f[n] = next(f[n - 1])
    <2> SUFFICES ASSUME NEW n \in 1 .. N PROVE f[n - 1] \in V /\ f[n] = next(f[n - 1])
        OBVIOUS
    <2>1. f[n - 1] \in V
        BY <1>1
    <2>2. QED
        BY <1>5, <1>6, <2>1
<1>8. f = [n \in 0 .. N |-> IF n = 0 THEN a ELSE next(f[n - 1])]
    <2>1. \A n \in 0 .. N : f[n] = IF n = 0 THEN a ELSE next(f[n - 1])
        BY <1>1, <1>6, <1>7
    <2>2. QED
        BY <2>1
<1>9. h = [n \in 0 .. N |-> IF n = 0 THEN a ELSE next(h[n - 1])]
    BY <1>8 DEF h
<1>10. \A n \in 0 .. N : h[n] = IF n = 0 THEN a ELSE next(h[n - 1])
    BY <1>9
<1>11. h[0] = a
    BY <1>1, <1>10
<1>12. \A n \in 1 .. N : n \in 0 .. N /\ n - 1 \in 0 .. N /\ h[n] = next(h[n - 1])
    <2> SUFFICES ASSUME NEW n \in 1 .. N PROVE n \in 0 .. N /\ n - 1 \in 0 .. N /\ h[n] = next(h[n - 1])
        OBVIOUS
    <2>1. n \in 0 .. N /\ n # 0 /\ n - 1 \in 0 .. N
        BY <1>1
    <2>2. QED
        BY <1>10, <2>1
<1> HIDE DEF h
<1> DEFINE S == {n \in 0 .. N : h[n] \in V /\ \A row \in h[n] : Len(row.path) = n}
<1>13. 0 \in S
    <2>1. \A row \in a : Len(row.path) = 0
        BY DEF a, RootRow
    <2>2. QED
        BY <1>1, <1>2, <1>11, <2>1
<1>14. ASSUME NEW n \in 1 .. N, n - 1 \in S
       PROVE  n \in S
    <2>1. h[n] = next(h[n - 1]) /\ h[n - 1] \in V /\ n \in 0 .. N
        BY <1>12, <1>14
    <2>2. ASSUME NEW row \in h[n] PROVE Len(row.path) = n
        <3>1. PICK up \in h[n - 1] : row \in Tree!Below(up, ns)
            BY <2>1 DEF next
        <3>2. up \in RowSet(ns) /\ Len(up.path) = n - 1
            BY <1>14, <2>1, <3>1 DEF V
        <3>3. Len(row.path) = Len(up.path) + 1
            BY <3>1, <3>2, BelowIs
        <3>4. QED
            BY <1>1, <3>2, <3>3
    <2>3. QED
        BY <1>3, <2>1, <2>2
<1> HIDE DEF S
<1>15. \A n \in 0 .. N : n \in S
    BY <1>1, <1>13, <1>14, Passed
<1>16. \A n \in 0 .. N : h[n] \subseteq RowSet(ns) /\ \A row \in h[n] : Len(row.path) = n
    BY <1>15 DEF S, V
<1>17. Tree!Rows(ns) \subseteq RowSet(ns) /\ \A row \in Tree!Rows(ns) : Len(row.path) <= N
    BY <1>1, <1>4, <1>16
<1>18. RootRow(ns) \in Tree!Rows(ns)
    <2>1. 0 \in 0 .. N
        BY <1>1
    <2>2. QED
        BY <1>4, <1>11, <2>1 DEF a
<1>19. ASSUME NEW row \in Tree!Rows(ns), row.path # <<>>
       PROVE  \E up \in Tree!Rows(ns) : row \in Tree!Below(up, ns)
    <2>1. PICK n \in 0 .. N : row \in h[n]
        BY <1>4
    <2>2. Len(row.path) = n /\ row.path \in Seq(Pos)
        BY <1>16, <2>1 DEF RowSet
    <2>3. n \in 1 .. N
        BY <1>1, <1>19, <2>2
    <2>4. PICK up \in h[n - 1] : row \in Tree!Below(up, ns)
        BY <1>12, <2>1, <2>3 DEF next
    <2>5. up \in Tree!Rows(ns)
        BY <1>4, <1>12, <2>3, <2>4
    <2>6. QED
        BY <2>4, <2>5
<1>20. QED
    BY <1>17, <1>18, <1>19 DEF N

(* A bounded set of numbers that is not empty has a greatest one.          *)
LEMMA GreatestExists ==
    ASSUME NEW S, S \subseteq Nat, S # {}, NEW b \in Nat, \A k \in S : k <= b
    PROVE  \E m \in S : \A k \in S : k <= m
<1> DEFINE T == {b - k : k \in S}
<1>1. T \subseteq Nat /\ T # {}
    <2>1. \A k \in S : b - k \in Nat
        OBVIOUS
    <2>2. QED
        BY <2>1
<1>2. PICK m \in T : \A k \in T : m <= k
    <2> HIDE DEF T
    <2>1. QED
        BY <1>1, LeastExists
<1>3. PICK j \in S : m = b - j
    OBVIOUS
<1>4. \A k \in S : k \in Nat /\ j \in Nat /\ b - j <= b - k
    BY <1>2, <1>3
<1>5. QED
    BY <1>4

(* The depth of a parent against those of its children.                    *)
LEMMA ProvenDepthIs ==
    ASSUME NEW o \in Decisive, NEW D, D \subseteq Nat, D # {}, NEW b \in Nat, \A d \in D : d <= b
    PROVE  /\ Tree!ProvenDepth(o, D) \in 1 .. b + 1
           /\ o = "Win" => \E d \in D : Tree!ProvenDepth(o, D) = d + 1
           /\ o = "Loss" => \A d \in D : Tree!ProvenDepth(o, D) >= d + 1
<1>1. CASE o = "Win"
    <2>1. Tree!ProvenDepth(o, D) = Tree!Min(D) + 1
        <3>1. D \cup (IF D = {} THEN {0} ELSE {}) = D
            OBVIOUS
        <3>2. QED
            BY <1>1, <3>1 DEF Tree!ProvenDepth
    <2>2. PICK m \in D : \A k \in D : m <= k
        BY LeastExists
    <2>3. Tree!Min(D) \in D
        BY <2>2 DEF Tree!Min
    <2> DEFINE low == Tree!Min(D)
    <2>4. low \in D /\ low \in Nat /\ low <= b
        BY <2>3
    <2> HIDE DEF low
    <2>5. Tree!ProvenDepth(o, D) = low + 1
        BY <2>1 DEF low
    <2>6. QED
        BY <1>1, <2>4, <2>5
<1>2. CASE o = "Loss"
    <2> DEFINE S == D \cup {0}
    <2>1. Tree!ProvenDepth(o, D) = Tree!Max(S) + 1
        BY <1>2 DEF Tree!ProvenDepth
    <2>2. S \subseteq Nat /\ S # {} /\ \A d \in S : d <= b
        OBVIOUS
    <2>3. \A d \in D : d \in S
        OBVIOUS
    <2> HIDE DEF S
    <2>4. PICK m \in S : \A k \in S : k <= m
        BY <2>2, GreatestExists
    <2>5. Tree!Max(S) \in S /\ \A k \in S : k <= Tree!Max(S)
        BY <2>4 DEF Tree!Max
    <2> DEFINE top == Tree!Max(S)
    <2>6. top \in Nat /\ top <= b /\ \A d \in D : d <= top /\ d \in Nat
        BY <2>2, <2>3, <2>5
    <2> HIDE DEF top
    <2>7. Tree!ProvenDepth(o, D) = top + 1
        BY <2>1 DEF top
    <2>8. QED
        BY <1>2, <2>6, <2>7
<1>3. QED
    BY <1>1, <1>2 DEF Decisive

(* Depths from the leaves up.                                              *)
Height(f, O, P, x) ==
    IF Tree!KidsOf(x, P) = {} THEN 0 ELSE Tree!ProvenDepth(O[x], {f[k] : k \in Tree!KidsOf(x, P)})

Measured(f, O, P) == \A x \in P : f[x] = Height(f, O, P, x)
Paths(P, B) == P \subseteq Seq(Pos) /\ B \in Nat /\ \A x \in P : Len(x) <= B
Low(f, P, B) == f \in [P -> Nat] /\ \A x \in P : f[x] <= B

(* There is a way to give depths.                                          *)
LEMMA HeightsExist ==
    ASSUME NEW P, NEW B, Paths(P, B), NEW O \in [P -> Decisive]
    PROVE  \E f : Low(f, P, B) /\ Measured(f, O, P)
<1> DEFINE M == B + 1
           Told(m, f) == \A x \in P : Len(x) >= M - m => f[x] <= B - Len(x) /\ f[x] = Height(f, O, P, x)
           S == {m \in 0 .. M : \E f \in [P -> Nat] : Told(m, f)}
<1>0. B \in Nat /\ M \in Nat /\ \A x \in P : Len(x) \in Nat /\ Len(x) <= B
    BY DEF Paths
<1>k. \A x \in P : \A k \in Tree!KidsOf(x, P) : k \in P /\ Len(k) = Len(x) + 1
    BY DEF Tree!KidsOf
<1>1. 0 \in S
    <2>1. [x \in P |-> 0] \in [P -> Nat]
        OBVIOUS
    <2>2. \A x \in P : ~ (Len(x) >= M - 0)
        BY <1>0
    <2>3. Told(0, [x \in P |-> 0])
        BY <2>2
    <2> HIDE DEF Told
    <2>4. QED
        BY <1>0, <2>1, <2>3
<1>2. ASSUME NEW m \in 0 .. M, m # 0, m - 1 \in S
      PROVE  m \in S
    <2>1. m \in Nat /\ m - 1 \in Nat /\ m <= M
        <3> HIDE DEF S
        <3>1. QED
            BY <1>0, <1>2
    <2>2. PICK f \in [P -> Nat] : Told(m - 1, f)
        BY <1>2
    <2> DEFINE g == [x \in P |-> IF Len(x) = M - m THEN Height(f, O, P, x) ELSE f[x]]
    <2> HIDE DEF S, M
    <2>3. \A x \in P : Len(x) >= M - m => Height(g, O, P, x) = Height(f, O, P, x)
        <3> SUFFICES ASSUME NEW x \in P, Len(x) >= M - m PROVE Height(g, O, P, x) = Height(f, O, P, x)
            OBVIOUS
        <3>1. \A k \in Tree!KidsOf(x, P) : k \in P /\ Len(k) # M - m
            BY <1>0, <1>k, <2>1
        <3>2. \A k \in Tree!KidsOf(x, P) : g[k] = f[k]
            BY <3>1
        <3>3. {g[k] : k \in Tree!KidsOf(x, P)} = {f[k] : k \in Tree!KidsOf(x, P)}
            BY <3>2
        <3>4. QED
            BY <3>3 DEF Height
    <2>4. ASSUME NEW x \in P, Len(x) = M - m
          PROVE  Height(f, O, P, x) \in Nat /\ Height(f, O, P, x) <= B - Len(x)
        <3> DEFINE kids == Tree!KidsOf(x, P)
                   D == {f[k] : k \in kids}
        <3>0. Len(x) \in Nat /\ Len(x) <= B /\ B \in Nat
            BY <1>0
        <3>1. CASE kids = {}
            BY <3>0, <3>1 DEF Height
        <3>2. CASE kids # {}
            <4>1. \A k \in kids : f[k] \in Nat /\ f[k] <= B - Len(x) - 1
                <5> SUFFICES ASSUME NEW k \in kids PROVE f[k] \in Nat /\ f[k] <= B - Len(x) - 1
                    OBVIOUS
                <5>1. k \in P /\ Len(k) = Len(x) + 1
                    BY <1>k
                <5> HIDE DEF kids
                <5>2. Len(k) >= M - (m - 1) /\ f[k] \in Nat
                    BY <1>0, <2>1, <2>4, <5>1
                <5>3. f[k] <= B - Len(k)
                    BY <2>2, <5>1, <5>2
                <5>4. QED
                    BY <3>0, <5>1, <5>2, <5>3
            <4>2. PICK k \in kids : TRUE
                BY <3>2
            <4>3. B - Len(x) - 1 \in Nat
                <5> HIDE DEF kids
                <5>1. f[k] \in Nat /\ f[k] <= B - Len(x) - 1
                    BY <4>1
                <5>2. QED
                    BY <3>0, <5>1
            <4>4. Height(f, O, P, x) = Tree!ProvenDepth(O[x], D)
                BY <3>2 DEF Height
            <4>5. O[x] \in Decisive
                OBVIOUS
            <4> HIDE DEF kids
            <4>6. D \subseteq Nat /\ D # {} /\ \A d \in D : d <= B - Len(x) - 1
                BY <3>2, <4>1
            <4> HIDE DEF D
            <4>7. Tree!ProvenDepth(O[x], D) \in 1 .. (B - Len(x) - 1) + 1
                BY <4>3, <4>5, <4>6, ProvenDepthIs
            <4>8. QED
                BY <3>0, <4>4, <4>7
        <3>3. QED
            BY <3>1, <3>2
    <2>5. g \in [P -> Nat]
        BY <2>4
    <2>6. \A x \in P : g[x] = IF Len(x) = M - m THEN Height(f, O, P, x) ELSE f[x]
        OBVIOUS
    <2> HIDE DEF g
    <2>7. ASSUME NEW x \in P, Len(x) >= M - m
          PROVE  g[x] <= B - Len(x) /\ g[x] = Height(g, O, P, x)
        <3>1. CASE Len(x) = M - m
            BY <2>3, <2>4, <2>6, <2>7, <3>1
        <3>2. CASE Len(x) # M - m
            <4>1. Len(x) >= M - (m - 1)
                <5> DEFINE n == Len(x)
                <5>1. n \in Nat /\ M \in Nat /\ n >= M - m /\ n # M - m
                    BY <1>0, <2>7, <3>2
                <5> HIDE DEF n
                <5>2. n >= M - (m - 1)
                    BY <2>1, <5>1
                <5>3. QED
                    BY <5>2 DEF n
            <4>2. f[x] <= B - Len(x) /\ f[x] = Height(f, O, P, x)
                BY <2>2, <4>1
            <4>3. QED
                BY <2>3, <2>6, <2>7, <3>2, <4>2
        <3>3. QED
            BY <3>1, <3>2
    <2>8. Told(m, g)
        BY <2>7
    <2> HIDE DEF Told
    <2>9. QED
        BY <2>5, <2>8 DEF S
<1>3. M \in S
    <2> HIDE DEF S, M
    <2>1. 0 .. M \subseteq S
        BY <1>0, <1>1, <1>2, Counting
    <2>2. QED
        BY <1>0, <2>1
<1>4. PICK f \in [P -> Nat] : Told(M, f)
    BY <1>3
<1>5. \A x \in P : Len(x) >= M - M
    BY <1>0
<1>6. \A x \in P : f[x] <= B - Len(x) /\ f[x] = Height(f, O, P, x)
    BY <1>4, <1>5
<1>7. \A x \in P : f[x] <= B
    <2> SUFFICES ASSUME NEW x \in P PROVE f[x] <= B
        OBVIOUS
    <2> DEFINE n == Len(x)
    <2>1. n \in Nat /\ f[x] <= B - n /\ f[x] \in Nat
        BY <1>0, <1>6
    <2> HIDE DEF n
    <2>2. QED
        BY <1>0, <2>1
<1>8. QED
    BY <1>6, <1>7 DEF Low, Measured

(* A tree is about the positions its paths lead to, claims something of    *)
(* each, and has its depths from its leaves.                               *)
Proofs == [pos : Pos, outcome : Decisive, depth : Nat]
DepthsOf(t, kids) == {t[k].depth : k \in kids}
TreeOK(t) ==
    /\ DOMAIN t \subseteq Seq(Pos) /\ <<>> \in DOMAIN t
    /\ \A x \in DOMAIN t : x # <<>> => Tree!Front(x) \in DOMAIN t
    /\ \A x \in DOMAIN t : t[x] \in Proofs /\ t[x].pos = Ends(x)
    /\ \E B \in Nat : \A x \in DOMAIN t : Len(x) <= B /\ t[x].depth <= B
    /\ \A x \in DOMAIN t :
          IF Tree!KidsOf(x, DOMAIN t) = {} THEN t[x].depth = 0
          ELSE /\ Static[Ends(x)] = NoOutcome
               /\ t[x].depth = Tree!ProvenDepth(t[x].outcome, DepthsOf(t, Tree!KidsOf(x, DOMAIN t)))

(* There is only one way to give depths.                                   *)
LEMMA HeightsUnique ==
    ASSUME NEW P, NEW B, Paths(P, B), NEW O, NEW f, NEW g, Measured(f, O, P), Measured(g, O, P)
    PROVE  \A x \in P : f[x] = g[x]
<1> DEFINE M == B + 1
           S == {m \in 0 .. M : \A x \in P : Len(x) >= M - m => f[x] = g[x]}
<1>0. B \in Nat /\ M \in Nat /\ \A x \in P : Len(x) \in Nat /\ Len(x) <= B
    BY DEF Paths
<1>k. \A x \in P : \A k \in Tree!KidsOf(x, P) : k \in P /\ Len(k) = Len(x) + 1
    BY DEF Tree!KidsOf
<1>1. 0 \in S
    BY <1>0
<1>2. ASSUME NEW m \in 0 .. M, m # 0, m - 1 \in S
      PROVE  m \in S
    <2> HIDE DEF M
    <2>1. m \in Nat /\ m - 1 \in Nat
        <3> HIDE DEF S
        <3>1. QED
            BY <1>0, <1>2
    <2>2. ASSUME NEW x \in P, Len(x) >= M - m PROVE f[x] = g[x]
        <3>1. ASSUME NEW k \in Tree!KidsOf(x, P) PROVE f[k] = g[k]
            <4> DEFINE n == Len(x)
                       j == Len(k)
            <4>1. n \in Nat /\ n >= M - m /\ k \in P /\ j = n + 1
                BY <1>0, <1>k, <2>2
            <4> HIDE DEF n, j
            <4>2. j >= M - (m - 1)
                BY <1>0, <2>1, <4>1
            <4>3. QED
                BY <1>2, <4>1, <4>2 DEF j
        <3>2. {f[k] : k \in Tree!KidsOf(x, P)} = {g[k] : k \in Tree!KidsOf(x, P)}
            BY <3>1
        <3>3. Height(f, O, P, x) = Height(g, O, P, x)
            BY <3>2 DEF Height
        <3>4. QED
            BY <3>3 DEF Measured
    <2>3. QED
        BY <2>2
<1>3. M \in S
    <2> HIDE DEF S, M
    <2>1. 0 .. M \subseteq S
        BY <1>0, <1>1, <1>2, Counting
    <2>2. QED
        BY <1>0, <2>1
<1>4. \A x \in P : Len(x) >= M - M
    BY <1>0
<1>5. QED
    BY <1>3, <1>4

(* The worker builds such trees.                                           *)
LEMMA RebuiltIs ==
    ASSUME NEW ns, ArenaOK(ns), ns[1].outcome # NoOutcome, root \in Pos
    PROVE  TreeOK(Tree!Rebuilt(ns))
<1> DEFINE rows == Tree!Rows(ns)
           P == {row.path : row \in rows}
           pick(x) == CHOOSE row \in rows : row.path = x
           node(x) == ns[Tree!Last(pick(x).line)]
           deep == CHOOSE d : d = [x \in P |->
                      LET kids == Tree!KidsOf(x, P)
                      IN  IF kids = {} THEN 0 ELSE Tree!ProvenDepth(node(x).outcome, {d[k] : k \in kids})]
           O == [x \in P |-> node(x).outcome]
           B == Len(ns) + 1
           t == Tree!Rebuilt(ns)
<1>1. /\ rows \subseteq RowSet(ns) /\ RootRow(ns) \in rows
      /\ \A row \in rows : Len(row.path) <= B
      /\ \A row \in rows : row.path # <<>> => \E up \in rows : row \in Tree!Below(up, ns)
    BY RowsAre
<1>2. t = [x \in P |-> [pos |-> node(x).pos, outcome |-> node(x).outcome, depth |-> deep[x]]]
    BY DEF Tree!Rebuilt
<1>3. Arena(ns) /\ Meant(ns) /\ B \in Nat /\ \A i \in 1 .. Len(ns) : ns[i] \in Nodes
    BY DEF ArenaOK, Arena
<1> HIDE DEF rows, deep, t
<1>4. \A x \in P : pick(x) \in rows /\ pick(x).path = x
    OBVIOUS
<1> HIDE DEF pick
<1>5. \A x \in P : x \in Seq(Pos) /\ node(x) \in Nodes /\ node(x).outcome \in Decisive /\ node(x).pos = Ends(x)
    <2> SUFFICES ASSUME NEW x \in P
                 PROVE  x \in Seq(Pos) /\ node(x) \in Nodes /\ node(x).outcome \in Decisive /\ node(x).pos = Ends(x)
        OBVIOUS
    <2> DEFINE row == pick(x)
               last == row.line[Len(row.line)]
    <2>1. row \in RowSet(ns) /\ row.path = x
        BY <1>1, <1>4
    <2> HIDE DEF row
    <2>2. /\ x \in Seq(Pos) /\ row.line \in Seq(1 .. Len(ns)) /\ row.line # <<>>
          /\ ns[last].outcome # NoOutcome /\ ns[last].pos = Ends(x)
        BY <2>1 DEF RowSet
    <2>3. last \in 1 .. Len(ns) /\ Tree!Last(row.line) = last
        BY <2>2 DEF Tree!Last
    <2>4. ns[last] \in Nodes
        BY <1>3, <2>3
    <2>5. node(x) = ns[last]
        BY <2>3 DEF row
    <2>6. QED
        BY <2>2, <2>4, <2>5 DEF Nodes
<1> HIDE DEF node
<1>6. P \subseteq Seq(Pos) /\ \A x \in P : Len(x) <= B
    BY <1>1, <1>5
<1>7. O \in [P -> Decisive]
    BY <1>5
<1>8. \A x \in P : O[x] = node(x).outcome
    OBVIOUS
<1>9. \A x \in P : x # <<>> => Tree!Front(x) \in P /\ Static[Ends(Tree!Front(x))] = NoOutcome
    <2> SUFFICES ASSUME NEW x \in P, x # <<>>
                 PROVE  Tree!Front(x) \in P /\ Static[Ends(Tree!Front(x))] = NoOutcome
        OBVIOUS
    <2>1. PICK row \in rows : row.path = x
        OBVIOUS
    <2>2. PICK up \in rows : row \in Tree!Below(up, ns)
        BY <1>1, <2>1
    <2>3. up \in RowSet(ns)
        BY <1>1
    <2>4. Tree!Front(x) = up.path /\ Static[Ends(up.path)] = NoOutcome
        BY <2>1, <2>2, <2>3, BelowIs
    <2>5. QED
        BY <2>4
<1>10. <<>> \in P
    BY <1>1 DEF RootRow
<1> HIDE DEF P, O
<1>p. Paths(P, B)
    BY <1>3, <1>6 DEF Paths
<1>h. PICK f : Low(f, P, B) /\ Measured(f, O, P)
    <2> HIDE DEF B
    <2>1. QED
        BY <1>p, <1>7, HeightsExist
<1>11. f \in [P -> Nat] /\ \A x \in P : f[x] <= B /\ f[x] = Height(f, O, P, x)
    BY <1>h DEF Low, Measured
<1> DEFINE eq(d, x) == LET kids == Tree!KidsOf(x, P)
                       IN  IF kids = {} THEN 0 ELSE Tree!ProvenDepth(node(x).outcome, {d[k] : k \in kids})
<1>12. \A d : \A x \in P : eq(d, x) = Height(d, O, P, x)
    BY <1>8 DEF Height
<1>13. f = [x \in P |-> eq(f, x)]
    <2>1. \A x \in P : f[x] = eq(f, x)
        BY <1>11, <1>12
    <2> HIDE DEF eq
    <2>2. QED
        BY <1>11, <2>1
<1>14. deep = [x \in P |-> eq(deep, x)]
    BY <1>13 DEF deep
<1> HIDE DEF eq
<1>15. \A x \in P : deep[x] = Height(deep, O, P, x)
    <2>1. \A x \in P : deep[x] = eq(deep, x)
        BY <1>14
    <2>2. QED
        BY <1>12, <2>1
<1>16. \A x \in P : deep[x] = f[x]
    <2>1. Measured(deep, O, P)
        BY <1>15 DEF Measured
    <2> HIDE DEF B
    <2>2. QED
        BY <1>p, <1>h, <2>1, HeightsUnique
<1>17. DOMAIN t = P /\ \A x \in P : t[x] = [pos |-> node(x).pos, outcome |-> O[x], depth |-> f[x]]
    BY <1>2, <1>8, <1>16
<1>18. \A x \in P : /\ t[x].pos = Ends(x) /\ t[x].outcome = O[x] /\ t[x].depth = f[x]
                    /\ f[x] \in Nat /\ f[x] <= B /\ t[x] \in Proofs
    <2> SUFFICES ASSUME NEW x \in P
                 PROVE  /\ t[x].pos = Ends(x) /\ t[x].outcome = O[x] /\ t[x].depth = f[x]
                        /\ f[x] \in Nat /\ f[x] <= B /\ t[x] \in Proofs
        OBVIOUS
    <2>1. t[x].pos = Ends(x) /\ t[x].outcome = O[x] /\ t[x].depth = f[x]
        BY <1>5, <1>17
    <2>2. f[x] \in Nat /\ f[x] <= B
        BY <1>11
    <2>3. O[x] \in Decisive /\ Ends(x) \in Pos
        <3>1. O[x] \in Decisive
            BY <1>7
        <3>2. node(x).pos \in Pos \cup {NoMove}
            BY <1>5 DEF Nodes
        <3>3. Ends(x) \in Pos
            BY <1>6 DEF Ends
        <3>4. QED
            BY <3>1, <3>3
    <2>4. QED
        BY <1>5, <1>17, <2>1, <2>2, <2>3 DEF Proofs
<1>19. ASSUME NEW x \in P
       PROVE  IF Tree!KidsOf(x, P) = {} THEN t[x].depth = 0
              ELSE /\ Static[Ends(x)] = NoOutcome
                   /\ t[x].depth = Tree!ProvenDepth(t[x].outcome, DepthsOf(t, Tree!KidsOf(x, P)))
    <2> DEFINE kids == Tree!KidsOf(x, P)
    <2>1. f[x] = Height(f, O, P, x) /\ t[x].depth = f[x] /\ t[x].outcome = O[x]
        BY <1>11, <1>18
    <2>2. CASE kids = {}
        BY <2>1, <2>2 DEF Height
    <2>3. CASE kids # {}
        <3>1. PICK k \in kids : TRUE
            BY <2>3
        <3>2. k \in P /\ Len(k) = Len(x) + 1 /\ Tree!Front(k) = x
            BY DEF Tree!KidsOf
        <3>3. k # <<>>
            <4>1. Len(k) = Len(x) + 1 /\ Len(x) \in Nat
                BY <1>6, <3>2
            <4>2. QED
                BY <4>1
        <3>4. Static[Ends(x)] = NoOutcome
            BY <1>9, <3>2, <3>3
        <3>5. \A q \in kids : t[q].depth = f[q]
            BY <1>18 DEF Tree!KidsOf
        <3>6. DepthsOf(t, kids) = {f[q] : q \in kids}
            BY <3>5 DEF DepthsOf
        <3>7. Height(f, O, P, x) = Tree!ProvenDepth(O[x], {f[q] : q \in kids})
            BY <2>3 DEF Height
        <3> HIDE DEF kids
        <3>8. t[x].depth = Tree!ProvenDepth(t[x].outcome, DepthsOf(t, kids))
            BY <2>1, <3>6, <3>7
        <3>9. QED
            BY <2>3, <3>4, <3>8 DEF kids
    <2>4. QED
        BY <2>2, <2>3
<1>20. QED
    <2>1. /\ DOMAIN t \subseteq Seq(Pos) /\ <<>> \in DOMAIN t
          /\ \A x \in DOMAIN t : x # <<>> => Tree!Front(x) \in DOMAIN t
          /\ \A x \in DOMAIN t : t[x] \in Proofs /\ t[x].pos = Ends(x)
        BY <1>6, <1>9, <1>10, <1>17, <1>18
    <2>2. \A x \in DOMAIN t : Len(x) <= B /\ t[x].depth <= B
        BY <1>6, <1>17, <1>18
    <2> HIDE DEF B
    <2>3. \E b \in Nat : \A x \in DOMAIN t : Len(x) <= b /\ t[x].depth <= b
        BY <1>3, <2>2
    <2>4. QED
        BY <1>17, <1>19, <2>1, <2>3 DEF TreeOK, t

-----------------------------------------------------------------------------
(* The validator *)

(* A rule that is broken is among the broken rules.                        *)
LEMMA RulesKept ==
    ASSUME NEW t, NEW x, NEW p, NEW replayed, Tree!Broken(t, x, p, replayed) = {},
           Tree!Claim(t[x]), t[x].depth \in Nat
    PROVE  /\ t[x].depth = 0 => Static[p] = t[x].outcome
           /\ t[x].depth # 0 =>
                 /\ \A k \in Tree!KidsOf(x, DOMAIN t) : t[k].outcome = Opposite(t[x].outcome)
                 /\ \A k \in Tree!KidsOf(x, DOMAIN t) : Tree!Last(k) \in Succ[p]
                 /\ Tree!Missing(t, x, p) = {}
<1> DEFINE n == t[x]
           kids == Tree!KidsOf(x, DOMAIN t)
           inner == Tree!Claim(n) /\ n.depth # 0
           implied == IF kids = {} THEN 0 ELSE Tree!ProvenDepth(n.outcome, {t[k].depth : k \in kids})
           r1 == <<"not_decisive", ~Tree!Claim(n)>>
           r2 == <<"hash_mismatch", Tree!Claim(n) /\ n.pos \notin {p, NoMove}>>
           r3 == <<"terminal_mismatch", Tree!Claim(n) /\ n.depth = 0 /\ Static[p] # n.outcome>>
           r4 == <<"win_not_single", inner /\ n.outcome = "Win" /\ Tree!Cardinality(kids) # 1>>
           r5 == <<"child_outcome", inner /\ \E k \in kids : t[k].outcome # Tree!Opposite(n.outcome)>>
           r6 == <<"illegal_child_move", inner /\ \E k \in kids : Tree!Last(k) \notin Succ[p]>>
           r7 == <<"loss_incomplete", inner /\ Tree!Missing(t, x, p) # {}>>
           r8 == <<"depth_inconsistent", Tree!Whole(t, x, replayed) /\ n.depth # implied>>
           rules == {r1, r2, r3, r4, r5, r6, r7, r8}
<1>1. {r[1] : r \in {r \in rules : r[2]}} = {}
    BY DEF Tree!Broken
<1> HIDE DEF r1, r2, r3, r4, r5, r6, r7, r8
<1>2. \A r \in rules : ~ r[2]
    BY <1>1, Zenon
<1>3. ~ r3[2] /\ ~ r5[2] /\ ~ r6[2] /\ ~ r7[2]
    BY <1>2
<1>4. t[x].depth = 0 => Static[p] = t[x].outcome
    BY <1>3 DEF r3
<1>5. inner => \A k \in kids : t[k].outcome = Tree!Opposite(n.outcome)
    BY <1>3 DEF r5
<1>6. inner => \A k \in kids : Tree!Last(k) \in Succ[p]
    BY <1>3 DEF r6
<1>7. inner => Tree!Missing(t, x, p) = {}
    BY <1>3 DEF r7
<1>8. \A o : Tree!Opposite(o) = Opposite(o)
    BY DEF Tree!Opposite, Opposite
<1>9. QED
    BY <1>4, <1>5, <1>6, <1>7, <1>8

Passes(t) == Tree!Defects(t, root) = {}

(* What the validator finds nothing wrong with, it has replayed.           *)
LEMMA PassedIs ==
    ASSUME NEW t, Passes(t), NEW x \in Tree!Replayed(t, root)
    PROVE  ~ Tree!Repeats(x) /\ Tree!Broken(t, x, Tree!Reached(x, root), Tree!Replayed(t, root)) = {}
<1> DEFINE replayed == Tree!Replayed(t, root)
           found(y) == IF Tree!Repeats(y) THEN {"cycle_leaf"}
                       ELSE Tree!Broken(t, y, Tree!Reached(y, root), replayed)
<1>1. UNION {found(y) : y \in replayed} = {}
    BY DEF Passes, Tree!Defects
<1> HIDE DEF found
<1>2. found(x) = {}
    BY <1>1
<1>3. QED
    BY <1>2 DEF found

(* The position a path is replayed to.                                     *)
LEMMA ReachedIs ==
    \A x : Tree!Reached(x, root) = Ends(x)
BY DEF Tree!Reached, Ends, Tree!Last

(* A child of a replayed node.                                             *)
LEMMA KidIs ==
    ASSUME NEW t, TreeOK(t), NEW x \in DOMAIN t, NEW k \in Tree!KidsOf(x, DOMAIN t)
    PROVE  /\ k \in DOMAIN t /\ k \in Seq(Pos) /\ x \in Seq(Pos) /\ Len(k) = Len(x) + 1
           /\ Tree!Front(k) = x /\ \A i \in 1 .. Len(x) : k[i] = x[i]
           /\ Tree!Last(k) = Ends(k) /\ Ends(k) = k[Len(x) + 1]
<1>1. k \in DOMAIN t /\ k \in Seq(Pos) /\ x \in Seq(Pos) /\ Len(k) = Len(x) + 1 /\ Tree!Front(k) = x
    BY DEF TreeOK, Tree!KidsOf
<1>2. x = SubSeq(k, 1, Len(k) - 1)
    BY <1>1 DEF Tree!Front
<1>3. \A i \in 1 .. Len(x) : k[i] = x[i]
    BY <1>1, <1>2
<1>4. k # <<>>
    BY <1>1
<1>5. QED
    BY <1>1, <1>3, <1>4 DEF Ends, Tree!Last

(* A tree that passes has been replayed to its leaves.                     *)
LEMMA AllReplayed ==
    ASSUME NEW t, TreeOK(t), Passes(t)
    PROVE  \A x \in DOMAIN t : x \in Tree!Replayed(t, root)
<1> DEFINE R == Tree!Replayed(t, root)
           goes(x, n) == LET y == SubSeq(x, 1, n)
                         IN  /\ Tree!Claim(t[y]) /\ t[y].depth # 0
                             /\ ~ Tree!Repeats(y)
                             /\ x[n + 1] \in Succ[Tree!Reached(y, root)]
           S == {n \in Nat : \A x \in DOMAIN t : Len(x) = n => x \in R}
<1>1. R = {x \in DOMAIN t : \A n \in 0 .. Len(x) - 1 : goes(x, n)}
    BY DEF Tree!Replayed
<1>2. PICK B \in Nat : \A x \in DOMAIN t : Len(x) <= B /\ t[x].depth <= B
    BY DEF TreeOK
<1>3. \A x \in DOMAIN t : x \in Seq(Pos) /\ Len(x) \in Nat
    BY DEF TreeOK
<1> HIDE DEF R, goes
<1>4. 0 \in S
    <2>1. \A n \in 0 .. 0 - 1 : FALSE
        OBVIOUS
    <2>2. QED
        BY <1>1, <2>1
<1>5. ASSUME NEW n \in 0 .. B, n # 0, n - 1 \in S
      PROVE  n \in S
    <2>0. n \in Nat /\ n - 1 \in Nat
        <3> HIDE DEF S
        <3>1. QED
            BY <1>2, <1>5
    <2>1. ASSUME NEW x \in DOMAIN t, Len(x) = n PROVE x \in R
        <3> DEFINE y == Tree!Front(x)
        <3>1. x \in Seq(Pos) /\ x # <<>>
            BY <1>3, <2>0, <1>5, <2>1
        <3>2. y \in DOMAIN t /\ y = SubSeq(x, 1, n - 1)
            BY <2>1, <3>1 DEF TreeOK, Tree!Front
        <3>3. Len(y) = n - 1 /\ \A i \in 1 .. n - 1 : y[i] = x[i]
            BY <2>0, <2>1, <3>1, <3>2
        <3>4. x \in Tree!KidsOf(y, DOMAIN t)
            BY <2>0, <2>1, <3>3 DEF Tree!KidsOf
        <3>5. y \in R
            BY <1>5, <3>2, <3>3
        <3> HIDE DEF y, S
        <3>6. t[y] \in Proofs /\ Tree!Claim(t[y])
            <4>1. t[y] \in Proofs
                BY <3>2 DEF TreeOK
            <4>2. QED
                BY <4>1 DEF Proofs, Tree!Claim, Tree!Decisive, Decisive
        <3>7. t[y].depth # 0
            <4> DEFINE D == DepthsOf(t, Tree!KidsOf(y, DOMAIN t))
            <4>1. t[y].depth = Tree!ProvenDepth(t[y].outcome, D)
                BY <3>2, <3>4 DEF TreeOK
            <4>2. D # {}
                BY <3>4 DEF DepthsOf
            <4>3. D \subseteq Nat /\ \A d \in D : d <= B
                <5>1. \A k \in Tree!KidsOf(y, DOMAIN t) : k \in DOMAIN t
                    BY DEF Tree!KidsOf
                <5>2. \A k \in DOMAIN t : t[k].depth \in Nat /\ t[k].depth <= B
                    BY <1>2 DEF TreeOK, Proofs
                <5>3. QED
                    BY <5>1, <5>2 DEF DepthsOf
            <4> HIDE DEF D
            <4>4. t[y].outcome \in Decisive
                BY <3>6 DEF Proofs
            <4>5. Tree!ProvenDepth(t[y].outcome, D) \in 1 .. B + 1
                BY <1>2, <4>2, <4>3, <4>4, ProvenDepthIs
            <4>6. QED
                BY <1>2, <4>1, <4>5
        <3>8. ~ Tree!Repeats(y) /\ \A k \in Tree!KidsOf(y, DOMAIN t) : Tree!Last(k) \in Succ[Tree!Reached(y, root)]
            <4>1. ~ Tree!Repeats(y) /\ Tree!Broken(t, y, Tree!Reached(y, root), R) = {}
                BY <3>5, PassedIs DEF R
            <4>2. t[y].depth \in Nat
                BY <3>6 DEF Proofs
            <4>3. QED
                BY <3>6, <3>7, <4>1, <4>2, RulesKept
        <3>9. goes(x, n - 1)
            <4>1. Tree!Last(x) = x[n]
                BY <2>1 DEF Tree!Last
            <4>2. x[n] \in Succ[Tree!Reached(y, root)]
                BY <3>4, <3>8, <4>1
            <4>3. (n - 1) + 1 = n
                BY <2>0
            <4>4. SubSeq(x, 1, n - 1) = y
                BY <3>2
            <4>5. QED
                BY <3>6, <3>7, <3>8, <4>2, <4>3, <4>4 DEF goes
        <3>10. ASSUME NEW m \in 0 .. n - 1 PROVE goes(x, m)
            <4>1. CASE m = n - 1
                BY <3>9, <4>1
            <4>2. CASE m # n - 1
                <5>1. m \in 0 .. Len(y) - 1 /\ m \in Nat /\ m + 1 \in 1 .. n - 1
                    BY <2>0, <3>3, <4>2
                <5>2. goes(y, m)
                    BY <1>1, <3>5, <5>1
                <5>3. y[m + 1] = x[m + 1]
                    BY <3>3, <5>1
                <5>4. SubSeq(y, 1, m) = SubSeq(x, 1, m)
                    <6>1. y \in Seq(Pos) /\ m <= Len(y) /\ m <= Len(x)
                        BY <1>3, <2>0, <2>1, <3>2, <3>3, <5>1
                    <6>2. \A i \in 1 .. m : i \in 1 .. n - 1
                        BY <2>0, <3>3, <5>1
                    <6>3. \A i \in 1 .. m : y[i] = x[i]
                        BY <3>3, <6>2
                    <6>4. SubSeq(y, 1, m) = [i \in 1 .. m |-> y[i]]
                        BY <5>1, <6>1
                    <6>5. SubSeq(x, 1, m) = [i \in 1 .. m |-> x[i]]
                        BY <3>1, <5>1, <6>1
                    <6>6. QED
                        BY <6>3, <6>4, <6>5
                <5>5. QED
                    BY <5>2, <5>3, <5>4 DEF goes
            <4>3. QED
                BY <4>1, <4>2
        <3>11. QED
            BY <1>1, <2>1, <3>10
    <2>2. QED
        BY <2>0, <2>1
<1>6. 0 .. B \subseteq S
    <2> HIDE DEF S
    <2>1. QED
        BY <1>2, <1>4, <1>5, Counting
<1>7. ASSUME NEW x \in DOMAIN t PROVE x \in R
    <2>1. Len(x) \in 0 .. B
        BY <1>2, <1>3
    <2>2. QED
        BY <1>6, <2>1
<1>8. QED
    BY <1>7 DEF R

(* A tree the validator finds nothing wrong with claims, at each of its    *)
(* nodes, the true outcome, and no faster end than there is.               *)
Holds(t, x) == t[x].outcome = Truth[Ends(x)] /\ t[x].depth >= Dist[Ends(x)]

(* A node holds when its children do.                                      *)
LEMMA NodeHolds ==
    ASSUME NEW t, TreeOK(t), Passes(t), root \in Pos, NEW x \in DOMAIN t,
           \A k \in Tree!KidsOf(x, DOMAIN t) : Holds(t, k)
    PROVE  Holds(t, x)
<1> DEFINE kids == Tree!KidsOf(x, DOMAIN t)
           p == Ends(x)
           D == DepthsOf(t, kids)
<1>1. t[x] \in Proofs /\ x \in Seq(Pos)
    BY DEF TreeOK
<1>2. /\ t[x].depth \in Nat /\ t[x].outcome \in Decisive /\ Tree!Claim(t[x])
      /\ p \in Pos
    BY <1>1 DEF Proofs, Tree!Claim, Tree!Decisive, Decisive, Ends
<1>3. /\ t[x].depth = 0 => Static[p] = t[x].outcome
      /\ t[x].depth # 0 =>
            /\ \A k \in kids : t[k].outcome = Opposite(t[x].outcome)
            /\ \A k \in kids : Tree!Last(k) \in Succ[p]
            /\ Tree!Missing(t, x, p) = {}
    <2>1. Tree!Broken(t, x, p, Tree!Replayed(t, root)) = {}
        BY AllReplayed, PassedIs, ReachedIs
    <2>2. QED
        BY <1>2, <2>1, RulesKept
<1>4. \A k \in kids : k \in DOMAIN t /\ Tree!Last(k) = Ends(k) /\ k \in Seq(Pos) /\ Ends(k) \in Pos
    <2> SUFFICES ASSUME NEW k \in kids PROVE k \in DOMAIN t /\ Tree!Last(k) = Ends(k) /\ k \in Seq(Pos) /\ Ends(k) \in Pos
        OBVIOUS
    <2>1. k \in DOMAIN t /\ Tree!Last(k) = Ends(k) /\ k \in Seq(Pos)
        BY KidIs
    <2>2. QED
        BY <2>1 DEF Ends
<1>5. PICK B \in Nat : \A y \in DOMAIN t : Len(y) <= B /\ t[y].depth <= B
    BY DEF TreeOK
<1>6. \A k \in kids : t[k].depth \in Nat /\ t[k].depth <= B
    BY <1>4, <1>5 DEF TreeOK, Proofs
<1>7. IF kids = {} THEN t[x].depth = 0
      ELSE Static[p] = NoOutcome /\ t[x].depth = Tree!ProvenDepth(t[x].outcome, D)
    BY DEF TreeOK
<1> HIDE DEF kids, p
<1>8. CASE kids = {}
    <2>1. Static[p] = t[x].outcome /\ Static[p] # NoOutcome
        BY <1>2, <1>3, <1>7, <1>8 DEF Decisive, NoOutcome
    <2>2. Truth[p] = Static[p] /\ Dist[p] = 0
        BY <1>2, <2>1, TruthAssumption, DistAssumption
    <2>3. QED
        BY <1>2, <2>1, <2>2 DEF Holds, p
<1>9. CASE kids # {}
    <2>1. Static[p] = NoOutcome /\ t[x].depth = Tree!ProvenDepth(t[x].outcome, D)
        BY <1>7, <1>9
    <2>2. D \subseteq Nat /\ D # {} /\ \A d \in D : d <= B
        BY <1>6, <1>9 DEF DepthsOf
    <2> HIDE DEF D
    <2>3. /\ t[x].depth \in 1 .. B + 1
          /\ t[x].outcome = "Win" => \E d \in D : t[x].depth = d + 1
          /\ t[x].outcome = "Loss" => \A d \in D : t[x].depth >= d + 1
        BY <1>2, <1>5, <2>1, <2>2, ProvenDepthIs
    <2>4. /\ \A k \in kids : t[k].outcome = Opposite(t[x].outcome) /\ Ends(k) \in Succ[p]
          /\ Tree!Missing(t, x, p) = {}
        BY <1>3, <1>4, <1>5, <2>3
    <2>5. \A k \in kids : t[k].outcome = Truth[Ends(k)] /\ t[k].depth >= Dist[Ends(k)] /\ Dist[Ends(k)] \in Nat
        BY <1>4, DistAssumption DEF Holds, kids
    <2>d. Dist[p] \in Nat
        BY <1>2, DistAssumption
    <2>6. CASE t[x].outcome = "Win"
        <3>1. PICK k \in kids : t[x].depth = t[k].depth + 1
            BY <2>3, <2>6 DEF D, DepthsOf
        <3>2. Ends(k) \in Succ[p] /\ Truth[Ends(k)] = "Loss"
            BY <2>4, <2>5, <2>6 DEF Opposite
        <3>3. Truth[p] = "Win"
            BY <1>2, <2>1, <3>2, TruthAssumption
        <3>4. Dist[p] <= Dist[Ends(k)] + 1
            BY <1>2, <2>1, <3>2, <3>3, DistAssumption
        <3>5. t[x].depth >= Dist[p]
            BY <1>6, <2>5, <2>d, <3>1, <3>4
        <3>6. QED
            BY <2>6, <3>3, <3>5 DEF Holds, p
    <2>7. CASE t[x].outcome = "Loss"
        <3>1. Succ[p] \ {Tree!Last(k) : k \in kids} = {}
            BY <2>4, <2>7 DEF Tree!Missing, kids
        <3>2. \A c \in Succ[p] : \E k \in kids : Ends(k) = c
            BY <1>4, <3>1
        <3>3. \A c \in Succ[p] : Truth[c] = "Win"
            BY <2>4, <2>5, <2>7, <3>2 DEF Opposite
        <3>4. Truth[p] = "Loss"
            BY <1>2, <2>1, <3>3, TruthAssumption
        <3>5. PICK c \in Succ[p] : Dist[p] <= Dist[c] + 1
            BY <1>2, <2>1, <3>4, DistAssumption
        <3>6. PICK k \in kids : Ends(k) = c
            BY <3>2
        <3>7. t[k].depth \in D
            BY DEF D, DepthsOf
        <3>8. t[x].depth >= t[k].depth + 1
            BY <2>3, <2>7, <3>7
        <3>9. t[x].depth >= Dist[p]
            BY <1>2, <1>6, <2>5, <2>d, <3>5, <3>6, <3>8
        <3>10. QED
            BY <2>7, <3>4, <3>9 DEF Holds, p
    <2>8. QED
        BY <1>2, <2>6, <2>7 DEF Decisive
<1>10. QED
    BY <1>8, <1>9

(* And so its root holds.                                                  *)
LEMMA TreeHolds ==
    ASSUME NEW t, TreeOK(t), Passes(t), root \in Pos
    PROVE  /\ t[<<>>].pos = root /\ t[<<>>].outcome = Truth[root]
           /\ t[<<>>].depth >= Dist[root]
<1>1. PICK B \in Nat : \A x \in DOMAIN t : Len(x) <= B /\ t[x].depth <= B
    BY DEF TreeOK
<1> DEFINE S == {m \in Nat : \A x \in DOMAIN t : Len(x) >= B + 1 - m => Holds(t, x)}
<1>2. \A x \in DOMAIN t : x \in Seq(Pos) /\ Len(x) \in Nat /\ Len(x) <= B
    BY <1>1 DEF TreeOK
<1>3. 0 \in S
    BY <1>1, <1>2
<1>4. ASSUME NEW m \in 0 .. B + 1, m # 0, m - 1 \in S
      PROVE  m \in S
    <2>1. m \in Nat /\ m - 1 \in Nat
        <3> HIDE DEF S
        <3>1. QED
            BY <1>1, <1>4
    <2>2. ASSUME NEW x \in DOMAIN t, Len(x) >= B + 1 - m PROVE Holds(t, x)
        <3>1. ASSUME NEW k \in Tree!KidsOf(x, DOMAIN t) PROVE Holds(t, k)
            <4> DEFINE n == Len(x)
                       j == Len(k)
            <4>1. k \in DOMAIN t /\ j = n + 1 /\ n \in Nat /\ n >= B + 1 - m
                BY <1>2, <2>2, KidIs
            <4> HIDE DEF n, j
            <4>2. j >= B + 1 - (m - 1)
                BY <1>1, <2>1, <4>1
            <4>3. QED
                BY <1>4, <4>1, <4>2 DEF j
        <3>2. QED
            BY <3>1, NodeHolds
    <2>3. QED
        BY <2>1, <2>2
<1>5. B + 1 \in S
    <2>1. B + 1 \in Nat
        BY <1>1
    <2> HIDE DEF S
    <2>2. 0 .. B + 1 \subseteq S
        BY <1>3, <1>4, <2>1, Counting
    <2>3. QED
        BY <2>1, <2>2
<1>6. <<>> \in DOMAIN t /\ Len(<<>>) >= B + 1 - (B + 1) /\ t[<<>>].pos = Ends(<<>>)
    BY <1>1 DEF TreeOK
<1>7. Holds(t, <<>>)
    BY <1>5, <1>6
<1>8. Ends(<<>>) = root
    BY DEF Ends
<1>9. QED
    BY <1>6, <1>7, <1>8 DEF Holds

-----------------------------------------------------------------------------
(* The run *)

(* The walk hangs below the root, through positions that go on, and has    *)
(* sent events about such paths only.                                      *)
Hung ==
    /\ root \in Pos
    /\ IF frames = <<>> THEN at = root ELSE frames[1].pos = root
    /\ \A i \in 1 .. Depth : Static[frames[i].pos] = NoOutcome
Queued(es) == es \in Seq(Sent) /\ \A n \in 1 .. Len(es) : EventOK(es[n])
Returned ==
    /\ verdict \in Decisive \cup {"failed", "none"}
    /\ phase = "done" => verdict # "none"

WalkRun == WalkInv /\ Hung /\ Queued(events) /\ Returned

(* What was sent stays right, as the root stays.                           *)
LEMMA RootStays ==
    ASSUME root' = root
    PROVE  /\ \A e : EventOK(e)' <=> EventOK(e)
           /\ Queued(events)' <=> Queued(events')
BY DEF EventOK, Ends, Queued

(* The walk sends its path and where it stands.                            *)
LEMMA EmitOK ==
    ASSUME WalkRun, NEW o, Expected(o), NEW d \in Nat, Emit(o, d)
    PROVE  Queued(events')
<1> DEFINE e == Event(o, d)
           path == PathTo
<1>1. /\ frames \in Seq(Frame) /\ Depth = Len(frames) /\ Depth \in Nat /\ at \in Pos
      /\ Alternating
    BY DEF WalkRun, WalkInv, Typed, Depth
<1>2. Hung /\ Queued(events)
    BY DEF WalkRun
<1>3. \A i \in 1 .. Depth : frames[i] \in Frame /\ frames[i].pos \in Pos /\ frames[i].outcome \in Decisive
    <2>1. \A i \in 1 .. Depth : frames[i] \in Frame
        BY <1>1
    <2>2. QED
        BY <2>1 DEF Frame
<1>4. o \in Decisive
    <2>1. CASE frames = <<>>
        BY <2>1 DEF Expected
    <2>2. CASE frames # <<>>
        <3>1. Depth \in 1 .. Depth
            BY <1>1, <2>2
        <3>2. Parent.outcome \in Decisive
            BY <1>3, <3>1 DEF Parent
        <3>3. QED
            BY <2>2, <3>2, Opposites DEF Expected
    <2>3. QED
        BY <2>1, <2>2
<1>5. /\ path \in Seq(Pos) /\ Ends(path) = at
      /\ path # <<>> => Static[root] = NoOutcome
      /\ \A n \in 1 .. Len(path) - 1 : Static[path[n]] = NoOutcome
    <2>1. CASE frames = <<>>
        <3>1. path = <<>>
            BY <2>1 DEF PathTo
        <3>2. QED
            BY <1>2, <2>1, <3>1 DEF Ends, Hung
    <2>2. CASE frames # <<>>
        <3>1. path = [i \in 1 .. Depth |-> IF i = Depth THEN at ELSE frames[i + 1].pos] /\ Depth # 0
            BY <1>1, <2>2 DEF PathTo
        <3>2. \A i \in 1 .. Depth : i # Depth => i + 1 \in 1 .. Depth
            BY <1>1
        <3>3. \A i \in 1 .. Depth : (IF i = Depth THEN at ELSE frames[i + 1].pos) \in Pos
            BY <1>1, <1>3, <3>2
        <3> HIDE DEF path
        <3>4. path \in [1 .. Depth -> Pos]
            BY <3>1, <3>3
        <3>5. path \in Seq(Pos) /\ Len(path) = Depth /\ path # <<>>
            <4>1. path \in Seq(Pos)
                BY <1>1, <3>4
            <4>2. DOMAIN path = 1 .. Depth
                BY <3>4
            <4>3. Len(path) = Depth
                BY <1>1, <4>1, <4>2, LenProperties
            <4>4. QED
                BY <3>1, <4>1, <4>3
        <3>6. Depth \in 1 .. Depth /\ 1 \in 1 .. Depth
            BY <1>1, <3>1
        <3>7. path[Depth] = at
            BY <3>1, <3>6
        <3>8. Static[root] = NoOutcome
            BY <1>2, <2>2, <3>6 DEF Hung
        <3>9. \A n \in 1 .. Depth - 1 : n \in 1 .. Depth /\ n # Depth /\ n + 1 \in 1 .. Depth
            BY <1>1
        <3>10. \A n \in 1 .. Depth - 1 : path[n] = frames[n + 1].pos
            BY <3>1, <3>9
        <3>11. \A n \in 1 .. Depth - 1 : Static[path[n]] = NoOutcome
            BY <1>2, <3>9, <3>10 DEF Hung
        <3>12. QED
            BY <3>5, <3>7, <3>8, <3>11 DEF Ends
    <2>3. QED
        BY <2>1, <2>2
<1>6. e = [path |-> path, pos |-> at, outcome |-> o, depth |-> d]
    BY DEF Event
<1> HIDE DEF path, e
<1>7. e \in Sent /\ EventOK(e)
    <2>1. e \in Sent /\ e.pos = at /\ e.path = path
        BY <1>1, <1>4, <1>5, <1>6 DEF Sent
    <2>2. QED
        BY <1>5, <2>1 DEF EventOK
<1>8. events' = Append(events, e)
    BY DEF Emit, e
<1>9. events \in Seq(Sent) /\ \A n \in 1 .. Len(events) : EventOK(events[n])
    BY <1>2 DEF Queued
<1>10. /\ Append(events, e) \in Seq(Sent) /\ Len(Append(events, e)) = Len(events) + 1
       /\ \A n \in 1 .. Len(events) : Append(events, e)[n] = events[n]
       /\ Append(events, e)[Len(events) + 1] = e
    BY <1>7, <1>9, AppendProperties
<1>11. \A n \in 1 .. Len(events) + 1 : n \in 1 .. Len(events) \/ n = Len(events) + 1
    BY <1>9
<1>12. QED
    BY <1>7, <1>8, <1>9, <1>10, <1>11 DEF Queued

(* A step that resolves a node.                                            *)
LEMMA ResolveKeepsRun ==
    ASSUME WalkRun, WalkInv', root' = root, Static[at] = NoOutcome,
           NEW o, NEW d \in Nat, NEW best, Expected(o), Resolve(o, d, best)
    PROVE  WalkRun'
<1> DEFINE new == [pos |-> at, outcome |-> o, depth |-> d, todo |-> Replies(o, best)]
<1>1. /\ frames' = Append(frames, new) /\ phase' = "descend" /\ at' = at /\ verdict' = verdict
      /\ Emit(o, d)
    BY DEF Resolve
<1>2. Queued(events')
    BY <1>1, EmitOK
<1>3. new.pos = at
    OBVIOUS
<1> HIDE DEF new
<1>4. frames \in Seq(Frame) /\ Depth = Len(frames) /\ Depth \in Nat /\ Hung /\ Returned
    BY DEF WalkRun, WalkInv, Typed, Depth
<1>5. /\ Depth' = Depth + 1 /\ frames' # <<>>
      /\ \A i \in 1 .. Depth : frames'[i] = frames[i]
      /\ frames'[Depth + 1] = new
    BY <1>1, <1>4 DEF Depth
<1>6. frames'[1].pos = root
    <2>1. CASE frames = <<>>
        BY <1>3, <1>4, <1>5, <2>1 DEF Hung
    <2>2. CASE frames # <<>>
        <3>1. 1 \in 1 .. Depth
            BY <1>4, <2>2
        <3>2. QED
            BY <1>4, <1>5, <2>2, <3>1 DEF Hung
    <2>3. QED
        BY <2>1, <2>2
<1>7. ASSUME NEW i \in 1 .. Depth' PROVE Static[frames'[i].pos] = NoOutcome
    <2>1. i \in 1 .. Depth \/ i = Depth + 1
        BY <1>4, <1>5
    <2>2. QED
        BY <1>3, <1>4, <1>5, <2>1 DEF Hung
<1>8. Hung'
    BY <1>4, <1>5, <1>6, <1>7 DEF Hung
<1>9. Returned'
    BY <1>1, <1>4 DEF Returned
<1>10. QED
    BY <1>2, <1>8, <1>9, RootStays DEF WalkRun

(* A step that keeps the frames, and the place when there are none.        *)
LEMMA StayKeepsRun ==
    ASSUME WalkRun, WalkInv', root' = root, frames' = frames, frames = <<>> => at' = at,
           Queued(events'), Returned'
    PROVE  WalkRun'
<1>1. Hung'
    BY DEF WalkRun, Hung, Depth
<1>2. QED
    BY <1>1, RootStays DEF WalkRun

(* A walk that fails stays where it is.                                    *)
LEMMA FailKeepsRun ==
    ASSUME WalkRun, WalkInv', root' = root, NEW kind, Fail(kind)
    PROVE  WalkRun'
<1>1. frames' = frames /\ at' = at /\ events' = events /\ Returned'
    BY DEF Fail, Quiet, Returned
<1>2. QED
    BY <1>1, StayKeepsRun DEF WalkRun

(* A reply is visited below the same frames.                               *)
LEMMA DescendKeepsRun ==
    ASSUME WalkRun, WalkInv', root' = root, Descend
    PROVE  WalkRun'
<1>1. /\ frames # <<>> /\ frames' = [frames EXCEPT ![Depth].todo = @ \ {First}]
      /\ phase' = "visit" /\ verdict' = verdict /\ events' = events
    BY DEF WalkRun, WalkInv, Placed, Descend, Descending, Quiet
<1>2. /\ frames \in Seq(Frame) /\ Depth \in Nat \ {0} /\ Len(frames) = Depth
      /\ Parent = frames[Depth] /\ Parent \in Frame /\ Hung /\ Returned
    BY <1>1 DEF WalkRun, WalkInv, Typed, Depth, Parent
<1> DEFINE left == [Parent EXCEPT !.todo = @ \ {First}]
<1>3. left \in Frame /\ left.pos = Parent.pos
    BY <1>2 DEF Frame
<1>4. frames' = [frames EXCEPT ![Depth] = left]
    BY <1>1, <1>2
<1> HIDE DEF left
<1>5. /\ Depth' = Depth /\ frames' # <<>>
      /\ \A i \in 1 .. Depth : frames'[i].pos = frames[i].pos
    BY <1>2, <1>3, <1>4 DEF Depth
<1>6. Hung'
    <2>1. 1 \in 1 .. Depth
        BY <1>2
    <2>2. QED
        BY <1>1, <1>2, <1>5, <2>1 DEF Hung
<1>7. Returned'
    BY <1>1, <1>2 DEF Returned
<1>8. QED
    BY <1>1, <1>6, <1>7, RootStays DEF WalkRun

(* A walk that leaves its last frame is back at the root.                  *)
LEMMA LeaveKeepsRun ==
    ASSUME WalkRun, WalkInv', root' = root, Leave
    PROVE  WalkRun'
<1>1. /\ phase = "descend" /\ frames # <<>>
      /\ frames' = SubSeq(frames, 1, Depth - 1) /\ at' = Parent.pos /\ events' = events
    BY DEF WalkRun, WalkInv, Placed, Leave, Quiet
<1>2. /\ frames \in Seq(Frame) /\ Depth \in Nat \ {0} /\ Len(frames) = Depth
      /\ Parent = frames[Depth] /\ Parent \in Frame /\ Hung /\ Returned
    BY <1>1 DEF WalkRun, WalkInv, Typed, Depth, Parent
<1>3. frames' \in Seq(Frame) /\ Depth' = Depth - 1 /\ \A i \in 1 .. Depth - 1 : frames'[i] = frames[i]
    <2>1. 1 \in 1 .. Len(frames) + 1 /\ Depth - 1 \in 1 - 1 .. Len(frames)
        BY <1>2
    <2>2. /\ SubSeq(frames, 1, Depth - 1) \in Seq(Frame)
          /\ Len(frames') = (Depth - 1) - 1 + 1
          /\ \A i \in 1 .. (Depth - 1) - 1 + 1 : frames'[i] = frames[1 + i - 1]
        BY <2>1, <1>1, <1>2, SubSeqProperties
    <2>3. QED
        BY <2>2, <1>1, <1>2 DEF Depth
<1>4. Hung'
    <2>1. \A i \in 1 .. Depth - 1 : i \in 1 .. Depth
        BY <1>2
    <2>2. \A i \in 1 .. Depth' : Static[frames'[i].pos] = NoOutcome
        BY <1>2, <1>3, <2>1 DEF Hung
    <2>3. CASE Depth = 1
        <3>1. frames' = <<>> /\ at' = root
            BY <1>1, <1>2, <1>3, <2>3 DEF Hung, Depth
        <3>2. QED
            BY <1>2, <2>2, <3>1 DEF Hung
    <2>4. CASE Depth # 1
        <3>1. 1 \in 1 .. Depth - 1
            BY <1>2, <2>4
        <3>2. frames' # <<>> /\ frames'[1].pos = root
            <4>1. frames[1].pos = root
                BY <1>1, <1>2 DEF Hung
            <4>2. frames'[1] = frames[1]
                BY <1>3, <3>1
            <4>3. frames' # <<>>
                BY <1>2, <1>3, <2>4 DEF Depth
            <4>4. QED
                BY <4>1, <4>2, <4>3
        <3>3. QED
            BY <1>2, <2>2, <3>2 DEF Hung
    <2>5. QED
        BY <2>3, <2>4
<1>5. Returned'
    <2>1. Parent.outcome \in Decisive
        BY <1>2 DEF Frame
    <2>2. QED
        BY <1>1, <1>2, <2>1 DEF Leave, Returned, Decisive
<1>6. QED
    BY <1>1, <1>4, <1>5, RootStays DEF WalkRun

(* What was built last, and what reconstruct returned.                     *)
Shown(t) ==
    /\ t[<<>>].pos = root
    /\ t[<<>>].outcome = Truth[root]
    /\ t[<<>>].depth >= Dist[root]
Verified == built.tree = {} \/ \E t : built.tree = {t} /\ (built.defects = {} => Shown(t))
Answered == out.tree # {} => out.tree = built.tree /\ caller = "end"
Flags == limited \in BOOLEAN /\ looking \in BOOLEAN /\ dropped \in Nat

RunInv ==
    /\ WalkRun
    /\ ArenaOK(nodes)
    /\ Flags
    /\ Verified
    /\ Answered

(* The arena of a worker that has seen no event.                           *)
LEMMA FreshArena ==
    ArenaOK(<<Tree!Placeholder(NoMove)>>)
<1> DEFINE n == Tree!Placeholder(NoMove)
           ns == <<n>>
<1>1. n = [mv |-> NoMove, pos |-> NoMove, outcome |-> NoOutcome, depth |-> 0, kids |-> <<>>]
    BY DEF Tree!Placeholder, Tree!NoOutcome, NoOutcome
<1>2. n \in Nodes /\ n.kids = <<>> /\ n.outcome = NoOutcome
    BY <1>1 DEF Nodes
<1> HIDE DEF n
<1>3. ns \in Seq(Nodes) /\ Len(ns) = 1 /\ ns[1] = n /\ ns # <<>>
    BY <1>2
<1> HIDE DEF ns
<1>4. \A i \in 1 .. Len(ns) : ns[i].kids = <<>> /\ ns[i].outcome = NoOutcome
    BY <1>2, <1>3
<1>5. Arena(ns)
    BY <1>3, <1>4 DEF Arena
<1>6. Meant(ns)
    BY <1>4 DEF Meant
<1>7. QED
    BY <1>5, <1>6 DEF ArenaOK, ns, n

(* What is right of the arena and the tree stays so, as the root stays.    *)
LEMMA ArenaStays ==
    ASSUME root' = root
    PROVE  /\ ArenaOK(nodes') => ArenaOK(nodes)'
           /\ Verified /\ built' = built => Verified'
BY DEF ArenaOK, Arena, Meant, Shows, Verified, Shown

(* Every step of the walk.                                                 *)
LEMMA WalkKeepsRun ==
    ASSUME WalkRun, Walk, root' = root
    PROVE  WalkRun' /\ limited' = limited
<1>0. WalkInv /\ Hung /\ Queued(events) /\ Returned
    BY DEF WalkRun
<1>i. WalkInv'
    BY <1>0, StepKeepsInv DEF Next
<1>1. CASE VisitLimited
    BY <1>1, <1>i, FailKeepsRun DEF VisitLimited, Fail, Quiet
<1>2. CASE VisitTerminal
    <2>1. /\ frames' = frames /\ at' = at /\ limited' = limited
          /\ Expected(Static[at]) /\ Emit(Static[at], 0)
        BY <1>2 DEF VisitTerminal
    <2>2. Queued(events')
        BY <2>1, EmitOK
    <2>3. Returned'
        <3>1. CASE frames = <<>>
            BY <1>2, <2>1, <3>1 DEF VisitTerminal, Expected, Returned, Decisive
        <3>2. CASE frames # <<>>
            BY <1>0, <1>2, <3>2 DEF VisitTerminal, Returned
        <3>3. QED
            BY <3>1, <3>2
    <2>4. QED
        BY <1>i, <2>1, <2>2, <2>3, StayKeepsRun
<1>3. CASE VisitHit
    <2>1. PICK r \in Hit : Expected(r.outcome) /\ Resolve(r.outcome, r.depth, r.best)
        BY <1>3 DEF VisitHit
    <2>2. Static[at] = NoOutcome /\ limited' = limited
        BY <1>3, <2>1 DEF VisitHit, Open, Resolve
    <2>3. r.depth \in Nat
        <3>1. at \in DOMAIN map => map[at] \in Records
            BY <1>0 DEF WalkInv, Typed
        <3>2. OtherClocks # {} => Scanned \in Records
            BY <1>0, LowestClock DEF WalkInv, Typed, Scanned, OtherClocks
        <3>3. r \in Records
            BY <3>1, <3>2 DEF Hit
        <3>4. QED
            BY <3>3 DEF Records
    <2>4. QED
        BY <1>i, <2>1, <2>2, <2>3, ResolveKeepsRun
<1>4. CASE VisitFailure
    BY <1>4, <1>i, FailKeepsRun DEF VisitFailure, Fail, Quiet
<1>5. CASE VisitHole \/ FillDeepen
    <2>1. frames' = frames /\ at' = at /\ events' = events /\ limited' = limited /\ verdict' = verdict /\ phase' = "fill"
        BY <1>5 DEF VisitHole, FillDeepen, Quiet
    <2>2. Returned'
        BY <1>0, <2>1 DEF Returned
    <2>3. QED
        BY <1>0, <1>i, <2>1, <2>2, StayKeepsRun
<1>6. CASE FillCut \/ FillUnfillable \/ IllegalBest
    BY <1>6, <1>i, FailKeepsRun DEF FillCut, FillUnfillable, IllegalBest, Fail, Quiet
<1>7. CASE \E h \in Harvests[at] : FillContradiction(h)
    BY <1>7, <1>i, FailKeepsRun DEF FillContradiction, Fail, Quiet
<1>8. CASE \E h \in Harvests[at] : FillAnswered(h)
    <2>1. PICK h \in Harvests[at] : FillAnswered(h)
        BY <1>8
    <2> DEFINE r == Joined(h)[at]
               d == IF r.outcome = "Win" THEN r.depth ELSE bound
    <2>2. /\ Resolve(r.outcome, d, r.best) /\ Expected(r.outcome) /\ at \in DOMAIN Joined(h)
          /\ phase = "fill" /\ limited' = limited
        BY <2>1 DEF FillAnswered, Fills, Answers, Resolve
    <2>3. Static[at] = NoOutcome /\ at \in Pos
        BY <1>0, <2>2 DEF WalkInv, Placed, Typed
    <2>4. d \in Nat
        <3>1. Joined(h) \in [DOMAIN Joined(h) -> Records]
            BY <1>0, <2>1, <2>3, JoinedRecords DEF WalkInv
        <3>2. r \in Records
            BY <2>2, <3>1
        <3>3. r.depth \in Nat /\ bound \in Nat
            BY <1>0, <3>2 DEF Records, WalkInv, Typed
        <3>4. QED
            BY <3>3
    <2> HIDE DEF d, r
    <2>5. QED
        BY <1>i, <2>2, <2>3, <2>4, ResolveKeepsRun
<1>9. CASE Descend
    BY <1>9, <1>i, DescendKeepsRun DEF Descend, Quiet
<1>10. CASE Leave
    BY <1>10, <1>i, LeaveKeepsRun DEF Leave, Quiet
<1>11. QED
    BY <1>1, <1>2, <1>3, <1>4, <1>5, <1>6, <1>7, <1>8, <1>9, <1>10 DEF Walk

(* What the worker thread holds.                                           *)
LEMMA WorkerIs ==
    ASSUME RunInv
    PROVE  Tree!Worker \in Workers
BY DEF RunInv, Flags, ArenaOK, Arena, Workers, Tree!Worker

(* The walk stays as it is while the worker takes events.                  *)
LEMMA WorkerKeepsRun ==
    ASSUME WalkRun, UNCHANGED walkVars, root' = root, Queued(events')
    PROVE  WalkRun'
<1>1. WalkInv'
    BY StepKeepsInv DEF WalkRun, Next, Worker
<1>2. frames' = frames /\ at' = at /\ Returned'
    BY DEF WalkRun, walkVars, Returned
<1>3. QED
    BY <1>1, <1>2, StayKeepsRun

(* An event is taken off the channel and handled.                          *)
LEMMA ReceivingKeepsInv ==
    ASSUME RunInv, Receiving
    PROVE  RunInv'
<1>1. /\ events # <<>> /\ events' = Tail(events) /\ UNCHANGED walkVars
      /\ root' = root /\ looking' = looking /\ built' = built /\ out' = out /\ caller' = caller
      /\ \E w \in Tree!Handled(Tree!Worker, Tree!Head(events)) :
            nodes' = w.nodes /\ limited' = w.limited /\ dropped' = w.dropped
    BY DEF Receiving, Tree!Receive
<1>2. WalkRun /\ Queued(events) /\ Flags /\ Verified /\ Answered
    BY DEF RunInv, WalkRun
<1>3. /\ events \in Seq(Sent) /\ Len(events) \in Nat /\ Len(events) # 0
      /\ \A n \in 1 .. Len(events) : EventOK(events[n])
    BY <1>1, <1>2 DEF Queued
<1>4. Head(events) = events[1] /\ 1 \in 1 .. Len(events)
    BY <1>1, <1>3
<1>5. EventOK(Head(events))
    BY <1>3, <1>4
<1>6. PICK w \in Workers : nodes' = w.nodes /\ limited' = w.limited /\ dropped' = w.dropped
    BY <1>1, <1>5, WorkerIs, HandledOK
<1>7. ArenaOK(nodes') /\ limited' \in BOOLEAN /\ dropped' \in Nat
    BY <1>6 DEF Workers
<1>8. Queued(events')
    <2>1. Tail(events) \in Seq(Sent) /\ Len(Tail(events)) = Len(events) - 1
        BY <1>1, <1>3
    <2>2. \A n \in 1 .. Len(events) - 1 : Tail(events)[n] = events[n + 1] /\ n + 1 \in 1 .. Len(events)
        BY <1>1, <1>3
    <2>3. QED
        BY <1>1, <1>3, <2>1, <2>2 DEF Queued
<1>9. WalkRun'
    BY <1>1, <1>2, <1>8, WorkerKeepsRun
<1>10. Flags' /\ Verified' /\ Answered' /\ ArenaOK(nodes)'
    BY <1>1, <1>2, <1>7, ArenaStays DEF Flags, Answered
<1>11. QED
    BY <1>9, <1>10 DEF RunInv

(* A step that leaves the walk, the arena and the channel of events.       *)
LEMMA AsideKeepsInv ==
    ASSUME RunInv, UNCHANGED <<walkVars, events, limited, nodes, dropped, built, root>>,
           looking' \in BOOLEAN, Answered'
    PROVE  RunInv'
<1>1. Queued(events')
    BY DEF RunInv, WalkRun
<1>2. WalkRun'
    BY <1>1, WorkerKeepsRun DEF RunInv
<1>3. QED
    BY <1>2, ArenaStays DEF RunInv, Flags

(* The tree built is judged by the validator; if it passes, it shows the   *)
(* truth of the root.                                                      *)
LEMMA FinalizeKeepsInv ==
    ASSUME RunInv, Finalize, caller # "end"
    PROVE  RunInv'
<1>1. PICK f \in Tree!Finalized :
        IF Tree!Exits(f)
        THEN /\ out' = Output({}, "exit")
             /\ caller' = "end"
             /\ UNCHANGED <<nodes, events, limited, dropped, built>>
        ELSE Tree!Install(f, root) /\ UNCHANGED <<caller, out>>
    BY DEF Finalize
<1>2. UNCHANGED walkVars /\ looking' = looking /\ root' = root
    BY DEF Finalize
<1>3. WalkRun /\ Queued(events) /\ Flags /\ Verified /\ Answered
    BY DEF RunInv, WalkRun
<1>4. CASE Tree!Exits(f)
    <2>1. out'.tree = {}
        BY <1>1, <1>4 DEF Output
    <2>2. Answered'
        BY <2>1 DEF Answered
    <2>3. QED
        BY <1>1, <1>2, <1>3, <1>4, <2>2, AsideKeepsInv DEF Flags
<1>5. CASE ~ Tree!Exits(f)
    <2>1. /\ built' = [tree |-> {f.tree}, defects |-> Tree!Defects(f.tree, root)]
          /\ limited' = f.w.limited /\ dropped' = f.w.dropped /\ events' = <<>>
          /\ nodes' = <<Tree!Placeholder(NoMove)>> /\ caller' = caller /\ out' = out
        BY <1>1, <1>5 DEF Tree!Install
    <2>2. PICK w \in Tree!Drained(Tree!Worker, events) : f = [w |-> w, tree |-> Tree!Rebuilt(w.nodes)]
        BY DEF Tree!Finalized
    <2>3. w \in Workers
        BY <1>3, WorkerIs, DrainedOK DEF Queued
    <2>4. f.w = w /\ f.tree = Tree!Rebuilt(w.nodes)
        BY <2>2
    <2>5. ArenaOK(w.nodes) /\ w.limited \in BOOLEAN /\ w.dropped \in Nat
        BY <2>3 DEF Workers
    <2>6. w.nodes[1].outcome # NoOutcome
        BY <1>5, <2>4 DEF Tree!Exits, Tree!NoOutcome, NoOutcome
    <2>7. root \in Pos
        BY <1>3 DEF WalkRun, Hung
    <2> DEFINE t == f.tree
    <2>8. TreeOK(t)
        BY <2>4, <2>5, <2>6, <2>7, RebuiltIs
    <2>9. Tree!Defects(t, root) = {} => Shown(t)
        BY <2>7, <2>8, TreeHolds DEF Passes, Shown
    <2> HIDE DEF t
    <2>10. built'.tree = {t} /\ (built'.defects = {} => Shown(t))
        BY <2>1, <2>9 DEF t
    <2>11. Verified'
        BY <1>2, <2>10 DEF Verified, Shown
    <2>12. Answered'
        BY <1>3, <2>1 DEF Answered
    <2>13. ArenaOK(nodes)'
        BY <1>2, <2>1, FreshArena, ArenaStays
    <2>14. Queued(events')
        BY <2>1 DEF Queued
    <2>15. WalkRun'
        BY <1>2, <1>3, <2>14, WorkerKeepsRun
    <2>16. Flags'
        BY <1>2, <1>3, <2>1, <2>4, <2>5 DEF Flags
    <2>17. QED
        BY <2>11, <2>12, <2>13, <2>15, <2>16 DEF RunInv
<1>6. QED
    BY <1>4, <1>5

(* A run starts with an empty arena and nothing sent (walker.rs, run).     *)
THEOREM RunInitEstablishesInv == RunInit => RunInv
<1> SUFFICES ASSUME RunInit PROVE RunInv
    OBVIOUS
<1>1. /\ Init /\ root = at /\ out = Output({}, Pending) /\ caller = "walk"
      /\ nodes = <<Tree!Placeholder(NoMove)>> /\ looking = FALSE /\ dropped = 0 /\ built.tree = {}
    BY DEF RunInit, Tree!TreeInit, Tree!NotBuilt
<1>2. WalkInv /\ at \in Pos /\ frames = <<>> /\ events = <<>> /\ limited = FALSE /\ verdict = "none" /\ phase = "visit"
    BY <1>1, InitEstablishesInv DEF Init, WalkInv, Typed
<1>3. Hung
    BY <1>1, <1>2 DEF Hung, Depth
<1>4. Queued(events) /\ Returned
    BY <1>2 DEF Queued, Returned
<1>5. ArenaOK(nodes)
    BY <1>1, FreshArena
<1>6. Flags /\ Verified /\ Answered
    BY <1>1, <1>2 DEF Flags, Verified, Answered, Output
<1>7. QED
    BY <1>2, <1>3, <1>4, <1>5, <1>6 DEF RunInv, WalkRun

(* Every step of the walk, of the caller and of the worker thread keeps    *)
(* RunInv (walker.rs run, worker.rs run).                                  *)
THEOREM RunStepKeepsInv == RunInv /\ [RunNext]_runVars => RunInv'
<1> SUFFICES ASSUME RunInv, [RunNext]_runVars PROVE RunInv'
    OBVIOUS
<1>1. WalkRun /\ Flags /\ Verified /\ Answered /\ looking \in BOOLEAN
    BY DEF RunInv, Flags
<1>2. ASSUME UNCHANGED runVars PROVE RunInv'
    <2>1. Answered' /\ looking' \in BOOLEAN
        BY <1>1, <1>2 DEF runVars, Answered
    <2>2. QED
        BY <1>2, <2>1, AsideKeepsInv DEF runVars, vars
<1>3. ASSUME caller # "end", Walking PROVE RunInv'
    <2>1. Walk /\ UNCHANGED <<nodes, queries, looking, budget, dropped, built, caller, root, out>>
        BY <1>3 DEF Walking
    <2>2. WalkRun' /\ limited' = limited
        BY <1>1, <2>1, WalkKeepsRun
    <2>3. Flags' /\ Answered' /\ Verified' /\ ArenaOK(nodes)'
        BY <1>1, <2>1, <2>2, ArenaStays DEF RunInv, Flags, Answered
    <2>4. QED
        BY <2>2, <2>3 DEF RunInv
<1>4. ASSUME caller # "end", AskFinalize \/ AskTree PROVE RunInv'
    <2>1. UNCHANGED <<vars, nodes, looking, dropped, built, root, out>>
        BY <1>4 DEF AskFinalize, AskTree, Ask
    <2>2. out.tree = {}
        BY <1>1, <1>4 DEF Answered
    <2>3. Answered' /\ looking' \in BOOLEAN
        BY <1>1, <2>1, <2>2 DEF Answered
    <2>4. QED
        BY <2>1, <2>3, AsideKeepsInv DEF vars
<1>5. ASSUME caller # "end", GiveUp PROVE RunInv'
    <2>1. UNCHANGED <<vars, nodes, looking, dropped, built, root>> /\ out'.tree = {}
        BY <1>5 DEF GiveUp, Output
    <2>2. Answered' /\ looking' \in BOOLEAN
        BY <1>1, <2>1 DEF Answered
    <2>3. QED
        BY <2>1, <2>2, AsideKeepsInv DEF vars
<1>6. ASSUME caller # "end", Turning PROVE RunInv'
    <2>1. UNCHANGED <<walkVars, events, limited, nodes, dropped, built, root, caller, out>> /\ looking' \in BOOLEAN
        BY <1>6 DEF Turning, Tree!Timeout, Tree!BackToEvents
    <2>2. Answered'
        BY <1>1, <2>1 DEF Answered
    <2>3. QED
        BY <2>1, <2>2, AsideKeepsInv
<1>7. ASSUME caller # "end", Answer PROVE RunInv'
    <2>1. UNCHANGED <<vars, nodes, looking, dropped, built, root>> /\ out'.tree = built.tree /\ caller' = "end"
        BY <1>7 DEF Answer, Output
    <2>2. Answered' /\ looking' \in BOOLEAN
        BY <1>1, <2>1 DEF Answered
    <2>3. QED
        BY <2>1, <2>2, AsideKeepsInv DEF vars
<1>8. QED
    BY <1>2, <1>3, <1>4, <1>5, <1>6, <1>7, ReceivingKeepsInv, FinalizeKeepsInv
       DEF RunNext, Ended, Caller, WorkerThread

(* What the invariant says of the run.                                     *)
LEMMA RunInvImplies ==
    RunInv => RunSound
<1> SUFFICES ASSUME RunInv PROVE RunSound
    OBVIOUS
<1>1. WalkRun /\ WalkInv /\ Returned /\ Flags /\ Verified /\ Answered /\ ArenaOK(nodes)
    BY DEF RunInv, WalkRun
<1>2. WalkSafe
    BY <1>1 DEF WalkInv, WalkSafe
<1>3. ValidTreeProves
    <2> SUFFICES ASSUME out.tree # {}, built.defects = {} PROVE Shown(Proof)
        BY DEF ValidTreeProves, Shown
    <2>1. out.tree = built.tree /\ built.tree # {}
        BY <1>1 DEF Answered
    <2>2. PICK t : built.tree = {t} /\ (built.defects = {} => Shown(t))
        BY <1>1, <2>1 DEF Verified
    <2>3. Proof = t
        BY <2>1, <2>2 DEF Proof
    <2>4. QED
        BY <2>2, <2>3
<1>4. TypeOK
    <2> DEFINE N == Len(nodes)
               T == [mv : Pos \cup {NoMove}, pos : Pos \cup {NoMove}, depth : Nat,
                     outcome : Decisive \cup {NoOutcome}, kids : Seq(1 .. N)]
    <2>1. phase \in {"visit", "fill", "descend", "done"} /\ (verdict # "none" => phase = "done")
        BY <1>1 DEF WalkInv, Typed, Placed
    <2>2. nodes \in Seq(Nodes) /\ N \in Nat /\ \A i \in 1 .. N : \A n \in 1 .. Len(nodes[i].kids) : nodes[i].kids[n] \in 2 .. N
        BY <1>1 DEF ArenaOK, Arena
    <2>3. ASSUME NEW i \in 1 .. N PROVE nodes[i] \in T
        <3> DEFINE n == nodes[i]
        <3>1. n \in Nodes
            BY <2>2
        <3> HIDE DEF N, n
        <3>2. n.kids \in Seq(Nat) /\ \A m \in 1 .. Len(n.kids) : n.kids[m] \in 1 .. N
            BY <2>2, <3>1 DEF Nodes, n
        <3>3. n.kids \in Seq(1 .. N)
            <4> DEFINE kids == n.kids
                       K == 1 .. N
            <4>1. kids \in Seq(Nat) /\ \A m \in 1 .. Len(kids) : kids[m] \in K
                BY <3>2
            <4> HIDE DEF kids, K
            <4>2. kids \in Seq(K)
                BY <4>1
            <4>3. QED
                BY <4>2 DEF kids, K
        <3>4. n \in T
            BY <3>1, <3>3 DEF Nodes
        <3>5. QED
            BY <3>4 DEF n
    <2> HIDE DEF T
    <2>4. nodes \in Seq(T)
        BY <2>2, <2>3
    <2>5. QED
        BY <1>1, <2>1, <2>4 DEF TypeOK, T, Returned, Flags
<1>5. QED
    BY <1>2, <1>3, <1>4 DEF RunSound

(* A tree the validator passes is a proof: whatever events were dropped,   *)
(* whatever the records and the searches said and whatever twin a subtree  *)
(* was copied from, its root has the true outcome and its depth is no      *)
(* shorter than the fastest forced end (validate.rs, worker.rs             *)
(* finalize_tree).                                                         *)
THEOREM RunAlwaysSound == RunSpec => []RunSound
BY RunInitEstablishesInv, RunStepKeepsInv, RunInvImplies, PTL DEF RunSpec

===============================================================================
