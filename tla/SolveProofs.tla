------------------------------ MODULE SolveProofs ------------------------------
(***************************************************************************)
(* Proofs about the search and the solve driver, for every game, every     *)
(* bound and every choice of thresholds, slices, schedules, caps, budgets  *)
(* and capacities: first the types, the soundness of decisive entries and  *)
(* answers, the terminal-entry guarantee and the distinctness of the       *)
(* search path; then how far the work may run past a budget, a slice or    *)
(* the cap of a refinement round, and that the outcome a solve carries     *)
(* from round to round is true.                                            *)
(***************************************************************************)
EXTENDS Solve, TLAPS, FiniteSetTheorems, SequenceTheorems, WellFoundedInduction

-----------------------------------------------------------------------------
(* The inductive invariant *)

Frames ==
    [pos : Pos, thPn : Nat, thDn : Nat, depth : 1 .. PlyMax, slice : Nat, start : Nat,
     kids : {NoKids} \cup UNION {[Succ[p] -> Kids] : p \in Pos},
     pn : 0 .. Inf, dn : 0 .. Inf, best : Pos \cup {NoMove}]

(* What a frame knows of a child is true and fits its depth.               *)
KidOK(c, k, depth) == k.depth < depth /\ Holds(c, k.outcome, k.depth)

FrameInv(f) ==
    /\ Static[f.pos] = NoOutcome
    /\ f.kids # NoKids => /\ f.kids \in [Succ[f.pos] -> Kids]
                          /\ \A c \in Succ[f.pos] : KidOK(c, f.kids[c], f.depth)
    /\ f.best \in Succ[f.pos] \cup {NoMove}

(* A frame that has called dfpn for one of its children.                   *)
Calling(f) == f.kids # NoKids /\ f.best \in Succ[f.pos]

StackOK(s) ==
    /\ s \in Seq(Frames)
    /\ \A i \in 1 .. Len(s) : FrameInv(s[i])
    /\ \A i \in 1 .. Len(s) - 1 : Calling(s[i])
    /\ \A i \in 1 .. Len(s) : Board[s[i].pos] \notin Prefix
    /\ \A i, j \in 1 .. Len(s) : Board[s[i].pos] = Board[s[j].pos] => i = j

(* The lowest frame is the one of the root.                                *)
RootOK(s, r) == s # <<>> => s[1].pos = r.root /\ s[1].depth = r.bound

TableOK(t) ==
    /\ DOMAIN t \subseteq Pos
    /\ t \in [DOMAIN t -> Entries]
    /\ \A p \in DOMAIN t : Holds(p, t[p].outcome, t[p].depth)
    /\ \A p \in DOMAIN t : t[p].outcome = NoOutcome => Static[p] = NoOutcome

ControlOK ==
    /\ pc \in {"chunk", "returned", "done"} => stack = <<>>
    /\ pc = "enter" => IF stack = <<>>
                       THEN call.pos = round.root /\ call.depth = round.bound
                       ELSE Calling(Top) /\ call.depth < Top.depth /\ call.pos = Top.best
    /\ pc = "loop" => stack # <<>> /\ (Top.kids # NoKids => Calling(Top))
    /\ pc = "select" => stack # <<>> /\ Top.kids # NoKids
    /\ pc = "returned" => Holds(round.root, result, round.bound)
    /\ ended = "Decisive" => pc = "done" /\ Holds(round.root, result, round.bound)

ScalarsOK ==
    /\ \A hit \in repCache : hit[1] \in Pos /\ hit[2] \subseteq Keys
    /\ call \in Calls
    /\ pc \in {"chunk", "enter", "loop", "select", "returned", "done"}
    /\ evals \in Nat /\ late \in BOOLEAN
    /\ round \in [root : Pos, bound : 0 .. PlyMax, cap : Nat, begin : Nat,
                  start : Nat, slice : Nat, chunk : Nat]
    /\ result \in Outcomes
    /\ ended \in {"running", "Decisive", "Exhausted", "CapCut", "ResourceCut"}

Inv == TableOK(tt) /\ StackOK(stack) /\ RootOK(stack, round) /\ ScalarsOK /\ ControlOK

-----------------------------------------------------------------------------
(* Lemmas about the operators *)

(* The saturated numbers stay in range whatever they saturate.             *)
LEMMA CappedRange == \A n : Capped(n) \in 0 .. Inf
BY NumberAssumption DEF Capped

(* A decided position has numbers in range.                                *)
LEMMA DecidedRange ==
    ASSUME NEW o, NEW b
    PROVE  PnOf(o, b) \in 0 .. Inf /\ DnOf(o, b) \in 0 .. Inf
BY NumberAssumption DEF PnOf, DnOf

(* Subtraction that saturates at zero.                                     *)
LEMMA MinusNat ==
    ASSUME NEW a \in Int, NEW b \in Int
    PROVE  Minus(a, b) \in Nat
BY DEF Minus

(* A non-terminal position has a child, so its swept table is not NoKids.  *)
LEMMA SweptKids ==
    ASSUME NEW p \in Pos, Static[p] = NoOutcome, NEW k \in [Succ[p] -> Kids]
    PROVE  k # NoKids /\ DOMAIN k = Succ[p]
<1>1. Succ[p] # {} BY PositionAssumption
<1>2. DOMAIN k = Succ[p] OBVIOUS
<1>3. DOMAIN NoKids = {} BY DEF NoKids
<1> QED BY <1>1, <1>2, <1>3

(* What the table says of a position, whether it has an entry or not.      *)
LEMMA ProbeOK ==
    ASSUME TableOK(tt), NEW p \in Pos
    PROVE  /\ Probe(p).best \in Pos \cup {NoMove}
           /\ Probe(p).outcome \in Outcomes \cup {NoOutcome, "absent"}
           /\ Probe(p).pn \in 0 .. Inf /\ Probe(p).dn \in 0 .. Inf
           /\ Probe(p).depth \in Nat /\ Probe(p).rem \in Nat
           /\ Holds(p, Probe(p).outcome, Probe(p).depth)
           /\ Probe(p).outcome = NoOutcome => Static[p] = NoOutcome
<1>1. CASE p \in DOMAIN tt
  <2>1. tt[p] \in Entries BY <1>1 DEF TableOK
  <2> QED BY <1>1, <2>1 DEF Probe, TableOK, Entries
<1>2. CASE p \notin DOMAIN tt
  <2>1. Probe(p) = NoEntry BY <1>2 DEF Probe
  <2> QED BY <2>1, NumberAssumption DEF NoEntry, Holds, Decisive, NoOutcome, Outcomes
<1> QED BY <1>1, <1>2

(* A store of a true entry keeps the table sound, whatever it replaces and *)
(* whatever it evicts.                                                     *)
LEMMA StoreOK ==
    ASSUME TableOK(tt), NEW p \in Pos, NEW e \in Entries, Store(p, e),
           Holds(p, e.outcome, e.depth),
           e.outcome = NoOutcome => Static[p] = NoOutcome
    PROVE  TableOK(tt')
<1> DEFINE kept == DOMAIN tt \ {p}
           table(lost) == [q \in {p} \cup (kept \ lost) |->
                              IF q = p THEN Merged(Probe(p), e) ELSE tt[q]]
           new == Merged(Probe(p), e)
<1>1. PICK lost : tt' = table(lost)
  BY DEF Store, StoreResults
<1>2. /\ Normalised(e) \in Entries
      /\ Normalised(e).outcome = e.outcome
      /\ Normalised(e).depth = e.depth
  <2> DEFINE pn == IF Degenerate(e) THEN 1 ELSE Capped(e.pn)
             dn == IF Degenerate(e) THEN 1 ELSE Capped(e.dn)
             f == [e EXCEPT !.pn = pn]
  <2>1. pn \in 0 .. Inf /\ dn \in 0 .. Inf BY CappedRange, NumberAssumption
  <2>2. Normalised(e) = [f EXCEPT !.dn = dn] BY DEF Normalised
  <2> HIDE DEF pn, dn
  <2>3. f \in Entries /\ f.outcome = e.outcome /\ f.depth = e.depth
    BY <2>1 DEF Entries
  <2> HIDE DEF f
  <2>4. /\ [f EXCEPT !.dn = dn] \in Entries
        /\ [f EXCEPT !.dn = dn].outcome = e.outcome
        /\ [f EXCEPT !.dn = dn].depth = e.depth
    BY <2>1, <2>3 DEF Entries
  <2> QED BY <2>2, <2>4
<1>3. new \in Entries /\ Holds(p, new.outcome, new.depth)
                      /\ (new.outcome = NoOutcome => Static[p] = NoOutcome)
  <2>1. CASE Solved(Probe(p)) /\ ~Solved(e)
    <3>1. new = Probe(p) BY <2>1 DEF Merged
    <3>2. p \in DOMAIN tt BY <2>1 DEF Probe, NoEntry, Solved, Outcomes
    <3>3. new = tt[p] BY <3>1, <3>2 DEF Probe
    <3> QED BY <3>2, <3>3 DEF TableOK
  <2>2. CASE ~(Solved(Probe(p)) /\ ~Solved(e))
    BY <2>2, <1>2 DEF Merged, Holds
  <2> QED BY <2>1, <2>2
<1>4. /\ DOMAIN tt' = {p} \cup (kept \ lost)
      /\ \A q \in DOMAIN tt' : tt'[q] = IF q = p THEN new ELSE tt[q]
  BY <1>1
<1>5. DOMAIN tt' \subseteq Pos BY <1>4 DEF TableOK
<1>6. tt' = [q \in DOMAIN tt' |-> tt'[q]] BY <1>1
<1>7. \A q \in DOMAIN tt' : /\ tt'[q] \in Entries
                            /\ Holds(q, tt'[q].outcome, tt'[q].depth)
                            /\ tt'[q].outcome = NoOutcome => Static[q] = NoOutcome
  BY <1>3, <1>4 DEF TableOK
<1> QED BY <1>5, <1>6, <1>7 DEF TableOK

(* One child, as the evaluation sees it.                                   *)
LEMMA EvaluateOK ==
    ASSUME TableOK(tt), Top.depth \in 1 .. PlyMax, NEW c \in Pos
    PROVE  Evaluate(c) \in Kids /\ KidOK(c, Evaluate(c), Top.depth)
<1> DEFINE e == Probe(c)
           below == Deeper(Top.depth)
           b == ~IsOr(Len(stack))
<1>1. below \in Nat /\ below < Top.depth BY NumberAssumption DEF Deeper, Minus
<1>2. ASSUME NEW o \in Outcomes, NEW d \in Nat, d <= below, NEW r \in BOOLEAN, Holds(c, o, d)
      PROVE  DecidedKid(o, d, r, b) \in Kids /\ KidOK(c, DecidedKid(o, d, r, b), Top.depth)
  <2>1. PnOf(o, b) \in 0 .. Inf /\ DnOf(o, b) \in 0 .. Inf BY DecidedRange
  <2>2. d < Top.depth BY <1>1, <1>2
  <2> QED BY <1>2, <2>1, <2>2 DEF DecidedKid, Kids, KidOK
<1>3. ASSUME NEW pn \in 0 .. Inf, NEW dn \in 0 .. Inf
      PROVE  OpenKid(pn, dn) \in Kids /\ KidOK(c, OpenKid(pn, dn), Top.depth)
  BY <1>1 DEF OpenKid, Kids, KidOK, Holds, Decisive, NoOutcome
<1>4. DecidedKid("Draw", 0, TRUE, b) \in Kids /\ KidOK(c, DecidedKid("Draw", 0, TRUE, b), Top.depth)
  <2>1. "Draw" \in Outcomes /\ Holds(c, "Draw", 0) BY DEF Outcomes, Holds, Decisive
  <2>2. 0 \in Nat /\ 0 <= below BY <1>1
  <2> QED BY <1>2, <2>1, <2>2
<1>5. Resolves(e, below) => /\ DecidedKid(e.outcome, e.depth, FALSE, b) \in Kids
                            /\ KidOK(c, DecidedKid(e.outcome, e.depth, FALSE, b), Top.depth)
  BY <1>2, ProbeOK DEF Resolves, Solved
<1>6. /\ OpenKid(e.pn, e.dn) \in Kids /\ KidOK(c, OpenKid(e.pn, e.dn), Top.depth)
      /\ OpenKid(1, 1) \in Kids /\ KidOK(c, OpenKid(1, 1), Top.depth)
  BY <1>3, ProbeOK, NumberAssumption
<1>7. Static[c] # NoOutcome => /\ DecidedKid(Static[c], 0, FALSE, b) \in Kids
                               /\ KidOK(c, DecidedKid(Static[c], 0, FALSE, b), Top.depth)
  <2>1. Static[c] # NoOutcome => Static[c] \in Outcomes /\ Holds(c, Static[c], 0)
    BY PositionAssumption, TruthAssumption DEF Holds
  <2>2. 0 \in Nat /\ 0 <= below BY <1>1
  <2> QED BY <1>2, <2>1, <2>2
<1> QED BY <1>4, <1>5, <1>6, <1>7 DEF Evaluate

(* What the children prove of their parent is true, by the rules of the    *)
(* game, and one ply deeper than the child it rests on.                    *)
LEMMA VerdictOK ==
    ASSUME NEW p \in Pos, Static[p] = NoOutcome, NEW d \in Nat,
           NEW kids \in [Succ[p] -> Kids], \A c \in Succ[p] : KidOK(c, kids[c], d),
           NEW v \in Verdicts(kids)
    PROVE  /\ v.outcome \in Outcomes /\ v.best \in Succ[p]
           /\ v.depth \in Nat /\ v.depth <= d
           /\ Holds(p, v.outcome, v.depth)
<1> DEFINE verdict(o, S) == {[outcome |-> o, best |-> c, depth |-> kids[c].depth + 1,
                              rep |-> o = "Draw" /\ kids[c].rep] : c \in S}
<1>1. ASSUME NEW o \in Outcomes, NEW S, S \subseteq Succ[p], v \in verdict(o, S),
             \A c \in S : Holds(p, o, kids[c].depth + 1)
      PROVE  /\ v.outcome \in Outcomes /\ v.best \in Succ[p]
             /\ v.depth \in Nat /\ v.depth <= d
             /\ Holds(p, v.outcome, v.depth)
  <2>1. PICK c \in S : v = [outcome |-> o, best |-> c, depth |-> kids[c].depth + 1,
                            rep |-> o = "Draw" /\ kids[c].rep]
    BY <1>1
  <2>2. kids[c].depth \in Nat /\ kids[c].depth < d
    BY <1>1 DEF KidOK, Kids
  <2> QED BY <1>1, <2>1, <2>2
<1>2. \A c \in Succ[p] : /\ c \in Pos /\ kids[c].depth \in Nat /\ Dist[c] \in Nat
                         /\ Holds(c, kids[c].outcome, kids[c].depth)
  BY PositionAssumption, TruthAssumption DEF Kids, KidOK
<1>3. Dist[p] \in Nat BY TruthAssumption
<1>4. \A o : Having(kids, o) \subseteq Succ[p] BY DEF Having
<1>5. CASE Having(kids, "Loss") # {}
  <2>1. v \in verdict("Win", Shallowest(kids, Having(kids, "Loss")))
    BY <1>5 DEF Verdicts
  <2>2. Shallowest(kids, Having(kids, "Loss")) \subseteq Having(kids, "Loss")
    BY DEF Shallowest
  <2>3. \A c \in Having(kids, "Loss") : Holds(p, "Win", kids[c].depth + 1)
    <3> SUFFICES ASSUME NEW c \in Having(kids, "Loss")
                 PROVE  Holds(p, "Win", kids[c].depth + 1)
      OBVIOUS
    <3>1. c \in Succ[p] /\ kids[c].outcome = "Loss" BY <1>4 DEF Having
    <3>2. Truth[c] = "Loss" /\ Dist[c] <= kids[c].depth
      BY <1>2, <3>1 DEF Holds, Decisive
    <3>3. Truth[p] = "Win" /\ Dist[p] <= Dist[c] + 1 BY <3>1, <3>2, TruthAssumption
    <3> QED BY <1>2, <1>3, <3>1, <3>2, <3>3 DEF Holds
  <2> QED BY <1>1, <1>4, <2>1, <2>2, <2>3 DEF Outcomes
<1>6. CASE Having(kids, "Loss") = {} /\ Undecided(kids) = {} /\ Having(kids, "Draw") # {}
  <2>1. v \in verdict("Draw", DeepestDraws(kids)) BY <1>6 DEF Verdicts
  <2>2. DeepestDraws(kids) \subseteq Having(kids, "Draw") BY DEF DeepestDraws, Deepest
  <2>3. \A n : Holds(p, "Draw", n) BY DEF Holds, Decisive
  <2> QED BY <1>1, <1>4, <2>1, <2>2, <2>3 DEF Outcomes
<1>7. CASE Having(kids, "Loss") = {} /\ Undecided(kids) = {} /\ Having(kids, "Draw") = {}
  <2>1. v \in verdict("Loss", Deepest(kids, Having(kids, "Win"))) BY <1>7 DEF Verdicts
  <2>2. \A c \in Succ[p] : kids[c].outcome = "Win"
    <3> SUFFICES ASSUME NEW c \in Succ[p] PROVE kids[c].outcome = "Win"
      OBVIOUS
    <3>1. kids[c].outcome \in {"Win", "Loss", "Draw", NoOutcome} BY DEF Kids, Outcomes
    <3> QED BY <1>7, <3>1 DEF Having, Undecided
  <2>3. Having(kids, "Win") = Succ[p] BY <2>2 DEF Having
  <2>4. \A c \in Succ[p] : Truth[c] = "Win" /\ Dist[c] <= kids[c].depth
    BY <1>2, <2>2 DEF Holds, Decisive
  <2>5. Truth[p] = "Loss" /\ \E c \in Succ[p] : Dist[p] <= Dist[c] + 1
    BY <2>4, TruthAssumption
  <2>6. \A c \in Deepest(kids, Succ[p]) : Holds(p, "Loss", kids[c].depth + 1)
    BY <1>2, <1>3, <2>4, <2>5 DEF Deepest, Holds
  <2>7. Deepest(kids, Succ[p]) \subseteq Succ[p] BY DEF Deepest
  <2> QED BY <1>1, <2>1, <2>3, <2>6, <2>7 DEF Outcomes
<1>8. Undecided(kids) # {} /\ Having(kids, "Loss") = {} => Verdicts(kids) = {}
  BY DEF Verdicts
<1> QED BY <1>5, <1>6, <1>7, <1>8

-----------------------------------------------------------------------------
(* Lemmas about the stack *)

(* The top of a stack that is not empty.                                   *)
LEMMA TopOK ==
    ASSUME StackOK(stack), stack # <<>>
    PROVE  /\ Len(stack) \in Nat \ {0}
           /\ Top \in Frames /\ FrameInv(Top)
<1>1. Len(stack) \in Nat \ {0} BY EmptySeq DEF StackOK
<1>2. Len(stack) \in 1 .. Len(stack) BY <1>1
<1>3. Top \in Frames BY <1>2, ElementOfSeq DEF StackOK, Top
<1> QED BY <1>1, <1>2, <1>3 DEF StackOK, Top

(* The top frame changes, but stays the frame of its position.             *)
LEMMA ReplaceOK ==
    ASSUME StackOK(stack), stack # <<>>, RootOK(stack, round),
           NEW g \in Frames, FrameInv(g), g.pos = Top.pos, g.depth = Top.depth
    PROVE  /\ StackOK(ReplaceTop(g)) /\ RootOK(ReplaceTop(g), round)
           /\ ReplaceTop(g) # <<>>
           /\ ReplaceTop(g)[Len(ReplaceTop(g))] = g
<1> DEFINE s == ReplaceTop(g)
           n == Len(stack)
<1>1. n \in Nat \ {0} /\ n \in 1 .. n BY TopOK
<1>2. stack \in Seq(Frames) BY DEF StackOK
<1>3. /\ s \in Seq(Frames) /\ Len(s) = n
      /\ \A j \in 1 .. n : s[j] = IF j = n THEN g ELSE stack[j]
  BY <1>1, <1>2, ExceptSeq DEF ReplaceTop
<1> HIDE DEF s, n
<1>4. s # <<>> /\ s[Len(s)] = g BY <1>1, <1>3, EmptySeq
<1>5. \A j \in 1 .. n : s[j].pos = stack[j].pos /\ s[j].depth = stack[j].depth
  BY <1>3 DEF Top, n
<1>6. \A j \in 1 .. n : FrameInv(s[j]) BY <1>3 DEF StackOK, n
<1>7. \A j \in 1 .. n - 1 : Calling(s[j])
  <2> SUFFICES ASSUME NEW j \in 1 .. n - 1 PROVE Calling(s[j])
    OBVIOUS
  <2>1. j \in 1 .. n /\ j # n BY <1>1
  <2> QED BY <1>3, <2>1 DEF StackOK, n
<1>8. /\ \A i \in 1 .. n : Board[s[i].pos] \notin Prefix
      /\ \A i, j \in 1 .. n : Board[s[i].pos] = Board[s[j].pos] => i = j
  BY <1>5 DEF StackOK, n
<1>9. RootOK(s, round)
  <2>1. 1 \in 1 .. n BY <1>1
  <2> QED BY <1>5, <2>1 DEF RootOK
<1> QED BY <1>3, <1>4, <1>6, <1>7, <1>8, <1>9 DEF StackOK, s

(* The top frame returns.                                                  *)
LEMMA BelowOK ==
    ASSUME StackOK(stack), stack # <<>>, RootOK(stack, round)
    PROVE  /\ StackOK(Below) /\ RootOK(Below, round)
           /\ Below = <<>> => Top.pos = round.root /\ Top.depth = round.bound
           /\ Below # <<>> => Calling(Below[Len(Below)])
<1> DEFINE s == Below
           n == Len(stack)
<1>1. n \in Nat \ {0} BY TopOK
<1>2. stack \in Seq(Frames) BY DEF StackOK
<1>3. \A i \in 1 .. n - 1 : stack[i] \in Frames
  BY <1>1, <1>2, ElementOfSeq
<1>4. /\ s \in Seq(Frames) /\ Len(s) = n - 1
      /\ \A j \in 1 .. n - 1 : s[j] = stack[j]
  <2> DEFINE m == n - 1
  <2> HIDE DEF n
  <2>1. m \in Int /\ 1 \in Int /\ m - 1 + 1 = m /\ (IF 1 <= m THEN m - 1 + 1 ELSE 0) = m
    BY <1>1
  <2>2. \A j \in 1 .. m : 1 + j - 1 = j OBVIOUS
  <2> HIDE DEF m
  <2>3. /\ SubSeq(stack, 1, m) \in Seq(Frames)
        /\ Len(SubSeq(stack, 1, m)) = IF 1 <= m THEN m - 1 + 1 ELSE 0
        /\ \A j \in 1 .. m - 1 + 1 : SubSeq(stack, 1, m)[j] = stack[1 + j - 1]
    BY <2>1, <1>3, SubSeqProperties DEF m
  <2>4. s = SubSeq(stack, 1, m) BY DEF Below, m, n
  <2> QED BY <2>1, <2>2, <2>3, <2>4 DEF m
<1> HIDE DEF s
<1>5. /\ \A j \in 1 .. n - 1 : FrameInv(s[j]) /\ Calling(s[j]) /\ Board[s[j].pos] \notin Prefix
      /\ \A i, j \in 1 .. n - 1 : Board[s[i].pos] = Board[s[j].pos] => i = j
  <2>1. \A j \in 1 .. n - 1 : j \in 1 .. n BY <1>1
  <2>2. /\ \A j \in 1 .. n : FrameInv(stack[j]) /\ Board[stack[j].pos] \notin Prefix
        /\ \A j \in 1 .. n - 1 : Calling(stack[j])
        /\ \A i, j \in 1 .. n : Board[stack[i].pos] = Board[stack[j].pos] => i = j
    BY DEF StackOK
  <2> HIDE DEF n
  <2> QED BY <1>4, <2>1, <2>2
<1>6. StackOK(s)
  <2>1. \A j \in 1 .. (n - 1) - 1 : j \in 1 .. n - 1 BY <1>1
  <2> QED BY <1>4, <1>5, <2>1 DEF StackOK
<1>7. CASE n = 1
  <2>1. s = <<>> BY <1>4, <1>7, EmptySeq
  <2> QED BY <1>6, <1>7, <2>1 DEF RootOK, Top, s
<1>8. CASE n # 1
  <2>1. s # <<>> /\ n - 1 \in 1 .. n - 1 /\ 1 \in 1 .. n - 1 BY <1>1, <1>4, <1>8, EmptySeq
  <2>2. RootOK(s, round) BY <1>4, <2>1 DEF RootOK
  <2> QED BY <1>4, <1>5, <1>6, <2>1, <2>2 DEF s
<1> QED BY <1>7, <1>8

(* A new frame is pushed for a position that is not on the path.           *)
LEMMA PushOK ==
    ASSUME StackOK(stack), RootOK(stack, round), stack # <<>> => Calling(Top),
           NEW f \in Frames, FrameInv(f), Board[f.pos] \notin Path,
           stack = <<>> => f.pos = round.root /\ f.depth = round.bound
    PROVE  /\ StackOK(Append(stack, f)) /\ RootOK(Append(stack, f), round)
           /\ Append(stack, f) # <<>>
           /\ Append(stack, f)[Len(Append(stack, f))] = f
<1> DEFINE s == Append(stack, f)
           n == Len(stack)
<1>1. stack \in Seq(Frames) /\ n \in Nat BY LenProperties DEF StackOK
<1>2. /\ s \in Seq(Frames) /\ Len(s) = n + 1
      /\ \A j \in 1 .. n : s[j] = stack[j]
      /\ s[n + 1] = f
  BY <1>1, AppendProperties
<1> HIDE DEF s, n
<1>3. s # <<>> /\ s[Len(s)] = f BY <1>1, <1>2, EmptySeq
<1>4. \A j \in 1 .. n + 1 : j \in 1 .. n \/ j = n + 1 BY <1>1
<1>5. \A j \in 1 .. n + 1 : FrameInv(s[j]) /\ Board[s[j].pos] \notin Prefix
  BY <1>2, <1>4 DEF StackOK, Path, n
<1>6. \A j \in 1 .. n : Board[s[j].pos] # Board[f.pos] BY <1>2 DEF Path, n
<1>7. \A i, j \in 1 .. n + 1 : Board[s[i].pos] = Board[s[j].pos] => i = j
  BY <1>2, <1>4, <1>6 DEF StackOK, n
<1>8. \A j \in 1 .. (n + 1) - 1 : Calling(s[j])
  <2> SUFFICES ASSUME NEW j \in 1 .. n PROVE Calling(s[j])
    BY <1>1
  <2>1. CASE j = n
    <3>1. stack # <<>> BY <1>1, <2>1 DEF n
    <3> QED BY <1>2, <2>1, <3>1 DEF Top, n
  <2>2. CASE j # n
    <3>1. j \in 1 .. n - 1 BY <1>1, <2>2
    <3> QED BY <1>2, <3>1 DEF StackOK, n
  <2> QED BY <2>1, <2>2
<1>9. RootOK(s, round)
  <2>1. CASE stack = <<>>
    <3>1. n = 0 BY <2>1 DEF n
    <3> QED BY <1>2, <2>1, <3>1 DEF RootOK
  <2>2. CASE stack # <<>>
    <3>1. 1 \in 1 .. n BY <1>1, <2>2, EmptySeq DEF n
    <3> QED BY <1>2, <2>2, <3>1 DEF RootOK
  <2> QED BY <2>1, <2>2
<1> QED BY <1>2, <1>3, <1>5, <1>7, <1>8, <1>9 DEF StackOK, s

-----------------------------------------------------------------------------
(* The invariant holds initially and is preserved: the returns             *)

(* Every behaviour starts in the invariant.                                *)
LEMMA InitInv == Init => Inv
<1> SUFFICES ASSUME Init PROVE Inv
  OBVIOUS
<1>1. PICK p \in Roots, d \in Bounds, cap \in RoundCaps :
         call = Call(p, Inf, Inf, d, 0) /\ round = Round(p, d, cap, 0)
  BY DEF Init
<1>2. p \in Pos /\ d \in 0 .. PlyMax /\ cap \in Nat /\ Inf \in Nat /\ SliceMax \in Nat /\ FirstSlice \in Nat
  BY PositionAssumption, NumberAssumption
<1>3. call \in Calls BY <1>1, <1>2 DEF Call, Calls
<1>4. round \in [root : Pos, bound : 0 .. PlyMax, cap : Nat, begin : Nat,
                 start : Nat, slice : Nat, chunk : Nat]
  BY <1>1, <1>2, NumberAssumption DEF Round
<1>5. StackOK(stack) /\ RootOK(stack, round)
  <2>1. stack = <<>> /\ Len(stack) = 0 BY DEF Init
  <2>2. stack \in Seq(Frames) BY <2>1
  <2> QED BY <2>1, <2>2 DEF StackOK, RootOK
<1>6. TableOK(tt)
  <2>1. DOMAIN tt = {} /\ tt = [p_ \in {} |-> NoEntry] BY DEF Init
  <2> QED BY <2>1 DEF TableOK
<1>7. ScalarsOK BY <1>3, <1>4 DEF Init, ScalarsOK, Outcomes
<1>8. ControlOK BY DEF Init, ControlOK
<1> QED BY <1>5, <1>6, <1>7, <1>8 DEF Inv

(* A call that never pushed a frame returns.                               *)
LEMMA ReturnEarlyInv ==
    ASSUME Inv, pc = "enter", NEW o \in Outcomes, ReturnEarly(o), TableOK(tt'),
           stack = <<>> => Holds(round.root, o, round.bound)
    PROVE  Inv'
<1>1. /\ stack' = stack /\ round' = round /\ call' = call /\ repCache' = repCache
      /\ evals' = evals /\ late' = late /\ ended' = ended /\ result' = o
      /\ pc' = IF stack = <<>> THEN "returned" ELSE "loop"
  BY DEF ReturnEarly, Return
<1>2. StackOK(stack') /\ RootOK(stack', round') BY <1>1 DEF Inv
<1>3. ScalarsOK' BY <1>1 DEF Inv, ScalarsOK
<1>4. ControlOK'
  <2>1. Top' = Top BY <1>1 DEF Top
  <2>2. stack # <<>> => Calling(Top) BY DEF Inv, ControlOK
  <2>3. ended' # "Decisive" BY <1>1 DEF Inv, ControlOK
  <2> QED BY <1>1, <2>1, <2>2, <2>3 DEF ControlOK
<1> QED BY <1>2, <1>3, <1>4 DEF Inv

(* The top frame returns an outcome that is true within its depth.         *)
LEMMA ReturnBelowInv ==
    ASSUME Inv, pc \in {"loop", "select"}, NEW o \in Outcomes, Return(o, Below),
           TableOK(tt'), Holds(Top.pos, o, Top.depth),
           \A hit \in repCache' : hit[1] \in Pos /\ hit[2] \subseteq Keys
    PROVE  Inv'
<1>1. /\ stack' = Below /\ round' = round /\ call' = call
      /\ evals' = evals /\ late' = late /\ ended' = ended /\ result' = o
      /\ pc' = IF Below = <<>> THEN "returned" ELSE "loop"
  BY DEF Return
<1>2. stack # <<>> BY DEF Inv, ControlOK
<1>3. /\ StackOK(Below) /\ RootOK(Below, round)
      /\ Below = <<>> => Top.pos = round.root /\ Top.depth = round.bound
      /\ Below # <<>> => Calling(Below[Len(Below)])
  BY <1>2, BelowOK DEF Inv
<1>4. StackOK(stack') /\ RootOK(stack', round') BY <1>1, <1>3
<1>5. ScalarsOK' BY <1>1 DEF Inv, ScalarsOK
<1>6. ControlOK'
  <2>1. Below # <<>> => Calling(Top') BY <1>1, <1>3 DEF Top
  <2>2. ended' # "Decisive" BY <1>1 DEF Inv, ControlOK
  <2>3. Below = <<>> => Holds(round'.root, result', round'.bound) BY <1>1, <1>3
  <2> QED BY <1>1, <2>1, <2>2, <2>3 DEF ControlOK
<1> QED BY <1>4, <1>5, <1>6 DEF Inv

-----------------------------------------------------------------------------
(* Preservation: the driver and the clock *)

(* The deadline passes.                                                    *)
LEMMA TimeoutInv == Inv /\ Timeout => Inv'
<1> SUFFICES ASSUME Inv, Timeout PROVE Inv'
  OBVIOUS
<1>1. Top' = Top BY DEF Timeout, Top
<1>2. ControlOK' BY <1>1 DEF Timeout, Inv, ControlOK
<1>3. ScalarsOK' BY DEF Timeout, Inv, ScalarsOK
<1> QED BY <1>2, <1>3 DEF Timeout, Inv

(* The chunk loop of bounded_search.                                       *)
LEMMA DriverInv == Inv /\ Driver => Inv'
<1> SUFFICES ASSUME Inv, Driver PROVE Inv'
  OBVIOUS
<1>1. ASSUME NEW why \in {"Decisive", "Exhausted", "CapCut", "ResourceCut"}, End(why),
             pc \in {"chunk", "returned"},
             why = "Decisive" => Holds(round.root, result, round.bound)
      PROVE  Inv'
  <2>1. stack = <<>> BY <1>1 DEF Inv, ControlOK
  <2>2. ControlOK' BY <1>1, <2>1 DEF End, ControlOK
  <2>3. ScalarsOK' BY <1>1 DEF End, Inv, ScalarsOK
  <2> QED BY <1>1, <2>2, <2>3 DEF End, Inv
<1>2. CASE ChunkCut BY <1>1, <1>2 DEF ChunkCut
<1>3. CASE ChunkCapped
  <2>1. PICK why \in {"CapCut", "ResourceCut"} : End(why) BY <1>3 DEF ChunkCapped
  <2> QED BY <1>1, <1>3, <2>1 DEF ChunkCapped
<1>4. CASE ChunkStart
  <2> DEFINE slice == Lesser(round.chunk, CapLeft)
  <2>1. /\ call' = Call(round.root, Inf, Inf, round.bound, slice)
        /\ round' = [round EXCEPT !.slice = slice, !.start = evals]
        /\ stack' = <<>> /\ pc' = "enter"
        /\ UNCHANGED <<tt, repCache, evals, late, result, ended>>
    BY <1>4 DEF ChunkStart
  <2>2. round \in [root : Pos, bound : 0 .. PlyMax, cap : Nat, begin : Nat,
                   start : Nat, slice : Nat, chunk : Nat] /\ evals \in Nat
    BY DEF Inv, ScalarsOK
  <2>3. CapLeft \in Nat
    <3>1. round.cap \in Int /\ evals - round.begin \in Int BY <2>2
    <3> QED BY <3>1, MinusNat DEF CapLeft
  <2>4. slice \in Nat BY <2>2, <2>3 DEF Lesser
  <2> HIDE DEF slice
  <2>5. /\ round' \in [root : Pos, bound : 0 .. PlyMax, cap : Nat, begin : Nat,
                        start : Nat, slice : Nat, chunk : Nat]
        /\ round'.root = round.root /\ round'.bound = round.bound
    <3> DEFINE r == [round EXCEPT !.slice = slice]
    <3>1. /\ r \in [root : Pos, bound : 0 .. PlyMax, cap : Nat, begin : Nat,
                     start : Nat, slice : Nat, chunk : Nat]
          /\ r.root = round.root /\ r.bound = round.bound
      BY <2>2, <2>4
    <3>2. round' = [r EXCEPT !.start = evals] BY <2>1
    <3> HIDE DEF r
    <3> QED BY <2>2, <3>1, <3>2
  <2>6. call' \in Calls /\ call'.pos = round.root /\ call'.depth = round.bound
    BY <2>1, <2>2, <2>4, NumberAssumption DEF Call, Calls
  <2>7. ScalarsOK' BY <2>1, <2>5, <2>6 DEF Inv, ScalarsOK
  <2>8. ended' # "Decisive" BY <1>4, <2>1 DEF ChunkStart, Inv, ControlOK
  <2>9. ControlOK' BY <2>1, <2>5, <2>6, <2>8 DEF ControlOK
  <2>10. StackOK(stack') /\ RootOK(stack', round')
    <3>1. stack = <<>> BY <1>4 DEF ChunkStart, Inv, ControlOK
    <3> QED BY <2>1, <3>1 DEF Inv, RootOK
  <2> QED BY <2>1, <2>7, <2>9, <2>10 DEF Inv
<1>5. CASE ChunkDecisive
  BY <1>1, <1>5 DEF ChunkDecisive, Inv, ControlOK
<1>6. CASE ChunkExhausted
  <2>1. PICK why \in {"Exhausted", "ResourceCut"} : End(why) BY <1>6 DEF ChunkExhausted
  <2> QED BY <1>1, <1>6, <2>1 DEF ChunkExhausted
<1>7. CASE ChunkNext
  <2>1. /\ round' = [round EXCEPT !.chunk = NextSlice(round.chunk)] /\ pc' = "chunk"
        /\ UNCHANGED <<tt, repCache, stack, call, evals, late, result, ended>>
        /\ pc = "returned"
    BY <1>7 DEF ChunkNext
  <2>2. round \in [root : Pos, bound : 0 .. PlyMax, cap : Nat, begin : Nat,
                   start : Nat, slice : Nat, chunk : Nat] /\ evals \in Nat
    BY DEF Inv, ScalarsOK
  <2>3. NextSlice(round.chunk) \in Nat
    <3>1. round.chunk * Growth \in Nat BY <2>2, NumberAssumption
    <3> QED BY <3>1, NumberAssumption DEF NextSlice, Lesser
  <2>4. /\ round' \in [root : Pos, bound : 0 .. PlyMax, cap : Nat, begin : Nat,
                        start : Nat, slice : Nat, chunk : Nat]
        /\ round'.root = round.root /\ round'.bound = round.bound
    BY <2>1, <2>2, <2>3
  <2>5. ScalarsOK' BY <2>1, <2>4 DEF Inv, ScalarsOK
  <2>6. stack' = <<>> /\ ended' # "Decisive" BY <2>1 DEF Inv, ControlOK
  <2>7. ControlOK' BY <2>1, <2>6 DEF ControlOK
  <2>8. StackOK(stack') /\ RootOK(stack', round') BY <2>1, <2>6 DEF Inv, RootOK
  <2> QED BY <2>1, <2>5, <2>7, <2>8 DEF Inv
<1> QED BY <1>2, <1>3, <1>4, <1>5, <1>6, <1>7 DEF Driver

-----------------------------------------------------------------------------
(* Preservation: entering dfpn *)

(* The checks at entry, and the push of the frame.                         *)
LEMMA EnterInv == Inv /\ Enter => Inv'
<1> SUFFICES ASSUME Inv, Enter PROVE Inv'
  OBVIOUS
<1>1. pc = "enter"
  BY DEF Enter, EnterLate, EnterTerminal, EnterHorizon, EnterRepetition, EnterResolved,
         EnterCachedDraw, EnterFrame, EnteringUnresolved, EnteringFresh, EnteringInside,
         EnteringOpen, Entering
<1>2. /\ TableOK(tt) /\ StackOK(stack) /\ RootOK(stack, round)
      /\ call.pos \in Pos /\ call.depth \in 0 .. PlyMax
      /\ call.thPn \in Nat /\ call.thDn \in Nat /\ call.slice \in Nat
      /\ evals \in Nat
      /\ stack = <<>> => call.pos = round.root /\ call.depth = round.bound
      /\ stack # <<>> => Calling(Top)
  BY <1>1 DEF Inv, ScalarsOK, Calls, ControlOK
<1>3. "Draw" \in Outcomes /\ \A p, d : Holds(p, "Draw", d)
  BY DEF Outcomes, Holds, Decisive
<1>4. CASE EnterLate
  BY <1>1, <1>2, <1>3, <1>4, ReturnEarlyInv DEF EnterLate
<1>5. CASE EnterTerminal
  <2> DEFINE o == Static[call.pos]
             isOr == IsOr(Len(stack) + 1)
             e == [best |-> NoMove, outcome |-> o, pn |-> PnOf(o, isOr),
                   dn |-> DnOf(o, isOr), depth |-> 0, rem |-> PlyMax]
  <2>1. Store(call.pos, e) /\ ReturnEarly(o) /\ o # NoOutcome
    BY <1>5 DEF EnterTerminal
  <2>2. o \in Outcomes BY <1>2, <2>1, PositionAssumption
  <2>3. \A d \in Nat : Holds(call.pos, o, d)
    <3>1. Truth[call.pos] = o /\ Dist[call.pos] = 0
      BY <1>2, <2>1, TruthAssumption
    <3> QED BY <3>1 DEF Holds
  <2>4. e \in Entries
    <3>1. PnOf(o, isOr) \in 0 .. Inf /\ DnOf(o, isOr) \in 0 .. Inf BY DecidedRange
    <3> QED BY <2>2, <3>1, NumberAssumption DEF Entries
  <2>5. Holds(call.pos, e.outcome, e.depth) /\ e.outcome # NoOutcome BY <2>1, <2>3
  <2> HIDE DEF e
  <2>6. TableOK(tt') BY <1>2, <2>1, <2>4, <2>5, StoreOK
  <2>7. stack = <<>> => Holds(round.root, o, round.bound)
    BY <1>2, <2>3 DEF Inv, ScalarsOK
  <2> HIDE DEF o
  <2> QED BY <1>1, <2>1, <2>2, <2>6, <2>7, ReturnEarlyInv
<1>6. CASE EnterHorizon
  <2> DEFINE e == [best |-> NoMove, outcome |-> NoOutcome, pn |-> 1, dn |-> 1,
                   depth |-> 0, rem |-> 0]
  <2>1. Store(call.pos, e) /\ ReturnEarly("Draw") /\ Static[call.pos] = NoOutcome
    BY <1>6 DEF EnterHorizon, EnteringOpen
  <2>2. e \in Entries /\ Holds(call.pos, e.outcome, e.depth)
    BY NumberAssumption DEF Entries, Holds, Decisive, NoOutcome
  <2> HIDE DEF e
  <2>3. TableOK(tt') BY <1>2, <2>1, <2>2, StoreOK
  <2> QED BY <1>1, <1>3, <2>1, <2>3, ReturnEarlyInv
<1>7. CASE EnterRepetition
  BY <1>1, <1>2, <1>3, <1>7, ReturnEarlyInv DEF EnterRepetition
<1>8. CASE EnterResolved
  <2>1. /\ Resolves(Probe(call.pos), call.depth)
        /\ ReturnEarly(tt[call.pos].outcome) /\ tt' = tt
    BY <1>8 DEF EnterResolved, EntryReusable
  <2>2. call.pos \in DOMAIN tt
    BY <2>1 DEF Resolves, Solved, Probe, NoEntry, Outcomes
  <2>3. Probe(call.pos) = tt[call.pos] BY <2>2 DEF Probe
  <2>4. /\ tt[call.pos].outcome \in Outcomes
        /\ tt[call.pos].depth <= call.depth /\ tt[call.pos].depth \in Nat
        /\ Holds(call.pos, tt[call.pos].outcome, tt[call.pos].depth)
    BY <1>2, <2>1, <2>3, ProbeOK DEF Resolves, Solved
  <2>5. Holds(call.pos, tt[call.pos].outcome, call.depth)
    BY <1>2, <2>4, TruthAssumption DEF Holds
  <2> QED BY <1>1, <1>2, <2>1, <2>4, <2>5, ReturnEarlyInv
<1>9. CASE EnterCachedDraw
  BY <1>1, <1>2, <1>3, <1>9, ReturnEarlyInv DEF EnterCachedDraw
<1>10. CASE EnterFrame
  <2> DEFINE f == Frame(call)
  <2>1. /\ stack' = Append(stack, f) /\ pc' = "loop"
        /\ UNCHANGED <<tt, repCache, call, evals, late, round, result, ended>>
        /\ Static[call.pos] = NoOutcome /\ call.depth > 0 /\ Board[call.pos] \notin Path
    BY <1>10 DEF EnterFrame, EnteringUnresolved, EnteringFresh, EnteringInside, EnteringOpen
  <2>2. f \in Frames
    BY <1>2, <2>1, NumberAssumption DEF Frame, Frames
  <2>3. FrameInv(f) /\ f.pos = call.pos /\ f.depth = call.depth /\ f.kids = NoKids
    BY <2>1 DEF Frame, FrameInv
  <2> HIDE DEF f
  <2>4. /\ StackOK(stack') /\ RootOK(stack', round) /\ stack' # <<>>
        /\ stack'[Len(stack')] = f
    BY <1>2, <2>1, <2>2, <2>3, PushOK
  <2>5. ScalarsOK' BY <2>1 DEF Inv, ScalarsOK
  <2>6. Top' = f BY <2>4 DEF Top
  <2>7. ended' # "Decisive" BY <1>1, <2>1 DEF Inv, ControlOK
  <2>8. ControlOK' BY <2>1, <2>3, <2>4, <2>6, <2>7 DEF ControlOK
  <2> QED BY <1>2, <2>1, <2>4, <2>5, <2>8 DEF Inv
<1> QED BY <1>4, <1>5, <1>6, <1>7, <1>8, <1>9, <1>10 DEF Enter

-----------------------------------------------------------------------------
(* Preservation: the loop of the top frame *)

(* The top frame leaves its position undecided.                            *)
LEMMA LeaveOpenInv ==
    ASSUME Inv, pc \in {"loop", "select"}, NEW f \in Frames, f.pos = Top.pos,
           Static[f.pos] = NoOutcome, LeaveOpen(f)
    PROVE  Inv'
<1> DEFINE e == [best |-> f.best, outcome |-> NoOutcome, pn |-> AtLeastOne(f.pn),
                 dn |-> AtLeastOne(f.dn), depth |-> 0, rem |-> f.depth]
<1>1. Store(f.pos, e) /\ Return("Draw", Below) /\ repCache' = repCache
  BY DEF LeaveOpen
<1>2. e \in Entries /\ Holds(f.pos, e.outcome, e.depth)
  <2>1. AtLeastOne(f.pn) \in 0 .. Inf /\ AtLeastOne(f.dn) \in 0 .. Inf
    BY NumberAssumption DEF AtLeastOne, Frames
  <2> QED BY <2>1, NumberAssumption DEF Entries, Frames, Holds, Decisive, NoOutcome
<1> HIDE DEF e
<1>3. f.pos \in Pos BY DEF Frames
<1>4. TableOK(tt') BY <1>1, <1>2, <1>3, StoreOK DEF Inv
<1>5. "Draw" \in Outcomes /\ Holds(Top.pos, "Draw", Top.depth)
  BY DEF Outcomes, Holds, Decisive
<1>6. \A hit \in repCache' : hit[1] \in Pos /\ hit[2] \subseteq Keys
  BY <1>1 DEF Inv, ScalarsOK
<1> QED BY <1>1, <1>4, <1>5, <1>6, ReturnBelowInv

(* The boards above the top frame are boards of positions or the prefix.   *)
LEMMA AboveKeys ==
    ASSUME StackOK(stack), stack # <<>>
    PROVE  Above \subseteq Keys
<1> SUFFICES ASSUME NEW i \in 1 .. Len(stack) - 1
             PROVE  Board[stack[i].pos] \in Keys
  BY DEF Above, Keys
<1>1. i \in 1 .. Len(stack) BY TopOK
<1>2. stack[i] \in Frames BY <1>1, ElementOfSeq DEF StackOK
<1> QED BY <1>2 DEF Frames, Keys

(* The sweep evaluates children soundly, whatever moves it cuts.           *)
LEMMA SweepsOK ==
    ASSUME TableOK(tt), StackOK(stack), stack # <<>>, NEW s \in Sweeps
    PROVE  /\ s.kids \in [Succ[Top.pos] -> Kids]
           /\ \A c \in Succ[Top.pos] : KidOK(c, s.kids[c], Top.depth)
           /\ s.cost \in Nat
<1> DEFINE S == Succ[Top.pos]
           info == [c \in S |-> Evaluate(c)]
           losers == {c \in S : info[c].outcome = "Loss"}
           cut(seen) == [c \in S |-> IF c \in seen THEN info[c] ELSE Unevaluated]
<1>1. Top.pos \in Pos /\ Top.depth \in 1 .. PlyMax /\ Static[Top.pos] = NoOutcome
  BY TopOK DEF Frames, FrameInv
<1>2. S \subseteq Pos /\ IsFiniteSet(S)
  <2>1. S \subseteq Pos BY <1>1, PositionAssumption
  <2> QED BY <2>1, PositionAssumption, FS_Subset
<1>3. \A c \in S : info[c] \in Kids /\ KidOK(c, info[c], Top.depth)
  BY <1>1, <1>2, EvaluateOK
<1>4. \A c \in S : Unevaluated \in Kids /\ KidOK(c, Unevaluated, Top.depth)
  BY <1>1, NumberAssumption
     DEF Unevaluated, OpenKid, Kids, KidOK, Holds, Decisive, NoOutcome
<1>5. \A T : T \subseteq S => Cardinality(T) \in Nat
  BY <1>2, FS_Subset, FS_CardinalityType
<1>6. ASSUME NEW k, NEW n \in Nat, s = [kids |-> k, cost |-> n],
             k \in [S -> Kids], \A c \in S : KidOK(c, k[c], Top.depth)
      PROVE  /\ s.kids \in [S -> Kids]
             /\ \A c \in S : KidOK(c, s.kids[c], Top.depth)
             /\ s.cost \in Nat
  BY <1>6
<1>7. CASE losers = {}
  <2>1. s = [kids |-> info, cost |-> Cardinality(S)] BY <1>7 DEF Sweeps
  <2>2. info \in [S -> Kids] /\ Cardinality(S) \in Nat BY <1>3, <1>5
  <2> QED BY <1>3, <1>6, <2>1, <2>2
<1>8. CASE losers # {}
  <2>1. PICK seen \in SUBSET S : s = [kids |-> cut(seen), cost |-> Cardinality(seen)]
    BY <1>8 DEF Sweeps
  <2>2. Cardinality(seen) \in Nat BY <1>5, <2>1
  <2> DEFINE k == cut(seen)
  <2>3. \A c \in S : k[c] = info[c] \/ k[c] = Unevaluated OBVIOUS
  <2>4. k \in [S -> Kids] /\ \A c \in S : KidOK(c, k[c], Top.depth)
    BY <1>3, <1>4, <2>3
  <2>5. s = [kids |-> k, cost |-> Cardinality(seen)] BY <2>1
  <2> HIDE DEF k
  <2> QED BY <1>6, <2>2, <2>4, <2>5
<1> QED BY <1>7, <1>8

(* The selection keeps the frame and picks one of its undecided children.  *)
LEMMA SelectionsOK ==
    ASSUME StackOK(stack), stack # <<>>, Top.kids # NoKids, NEW f \in Selections
    PROVE  /\ f \in Frames /\ FrameInv(f)
           /\ f.pos = Top.pos /\ f.depth = Top.depth /\ f.kids = Top.kids
           /\ f.best # NoMove => Calling(f)
<1> DEFINE isOr == IsOr(Len(stack))
           with(c) == [Top EXCEPT !.pn = NodePn(Top.kids, isOr),
                                  !.dn = NodeDn(Top.kids, isOr), !.best = c]
<1>1. Top \in Frames /\ FrameInv(Top) /\ DOMAIN Top.kids = Succ[Top.pos] BY TopOK DEF FrameInv
<1>2. PICK c \in Succ[Top.pos] \cup {NoMove} : f = with(c)
  <2>1. Candidates(Top.kids) \subseteq Succ[Top.pos] BY <1>1 DEF Candidates, Having
  <2>2. MostProving(Top.kids, isOr) \subseteq Succ[Top.pos] BY <2>1 DEF MostProving
  <2> QED BY <2>2 DEF Selections
<1>3. NodePn(Top.kids, isOr) \in 0 .. Inf /\ NodeDn(Top.kids, isOr) \in 0 .. Inf
  BY CappedRange DEF NodePn, NodeDn, Least, Total
<1>4. c \in Pos \cup {NoMove}
  BY <1>1, PositionAssumption DEF Frames, FrameInv
<1> DEFINE pn == NodePn(Top.kids, isOr)
           dn == NodeDn(Top.kids, isOr)
           g == [Top EXCEPT !.pn = pn]
           h == [g EXCEPT !.dn = dn]
<1>5. f = [h EXCEPT !.best = c] BY <1>2
<1> HIDE DEF pn, dn, isOr, with
<1>6. pn \in 0 .. Inf /\ dn \in 0 .. Inf BY <1>3 DEF pn, dn
<1>7. g \in Frames /\ g.pos = Top.pos /\ g.depth = Top.depth /\ g.kids = Top.kids
  BY <1>1, <1>6 DEF Frames
<1> HIDE DEF g
<1>8. h \in Frames /\ h.pos = Top.pos /\ h.depth = Top.depth /\ h.kids = Top.kids
  BY <1>6, <1>7 DEF Frames
<1> HIDE DEF h
<1>9. /\ f \in Frames /\ f.pos = Top.pos /\ f.depth = Top.depth /\ f.kids = Top.kids
      /\ f.best = c
  BY <1>4, <1>5, <1>8 DEF Frames
<1> QED BY <1>1, <1>2, <1>9 DEF FrameInv, Calling

(* The call for the selected child stays within the bound.                 *)
LEMMA ChildCallOK ==
    ASSUME NEW f \in Frames, FrameInv(f), Calling(f), evals \in Nat
    PROVE  /\ ChildCall(f) \in Calls /\ ChildCall(f).pos = f.best
           /\ ChildCall(f).depth < f.depth
<1> DEFINE isOr == IsOr(Len(stack))
           k == f.kids[f.best]
           next == EpsCeil(SecondEffort(f.kids, isOr, f.best))
           thPn == IF isOr THEN Lesser(f.thPn, next) ELSE Share(f.thPn, f.pn, k.pn)
           thDn == IF isOr THEN Share(f.thDn, f.dn, k.dn) ELSE Lesser(f.thDn, next)
<1>1. /\ f.pos \in Pos /\ f.thPn \in Nat /\ f.thDn \in Nat /\ f.depth \in 1 .. PlyMax
      /\ f.slice \in Nat /\ f.start \in Nat /\ f.pn \in Nat /\ f.dn \in Nat
  BY NumberAssumption DEF Frames
<1>2. k.pn \in Nat /\ k.dn \in Nat
  <2>1. k \in Kids BY DEF FrameInv, Calling
  <2> QED BY <2>1, NumberAssumption DEF Kids
<1>3. next \in Nat
  <2> DEFINE n == SecondEffort(f.kids, isOr, f.best)
  <2>1. \A m : Capped(m) \in Nat BY CappedRange, NumberAssumption
  <2> QED BY <2>1, NumberAssumption DEF EpsCeil
<1>4. /\ Share(f.thPn, f.pn, k.pn) \in Nat /\ Share(f.thDn, f.dn, k.dn) \in Nat
  <2>1. Minus(f.thPn, f.pn) \in Nat /\ Minus(f.thDn, f.dn) \in Nat
    BY <1>1 DEF Minus
  <2> QED BY <1>2, <2>1, NumberAssumption DEF Share
<1>5. thPn \in Nat /\ thDn \in Nat
  <2> HIDE DEF isOr, k, next
  <2>1. Lesser(f.thPn, next) \in Nat /\ Lesser(f.thDn, next) \in Nat
    BY <1>1, <1>3 DEF Lesser
  <2> QED BY <1>4, <2>1
<1>6. SliceLeft(f) \in Nat
  <2>1. f.slice \in Int /\ Spent(f) \in Int BY <1>1 DEF Spent
  <2> QED BY <2>1, MinusNat DEF SliceLeft
<1>7. Deeper(f.depth) \in 0 .. PlyMax /\ Deeper(f.depth) < f.depth
  BY <1>1, NumberAssumption DEF Deeper, Minus
<1>8. f.best \in Pos BY <1>1, PositionAssumption DEF Calling, FrameInv
<1>9. ChildCall(f) = Call(f.best, thPn, thDn, Deeper(f.depth), SliceLeft(f))
  BY DEF ChildCall
<1> HIDE DEF thPn, thDn
<1> QED BY <1>5, <1>6, <1>7, <1>8, <1>9 DEF Call, Calls

(* A step that keeps the stack's shape and rewrites the top frame.         *)
LEMMA ReplaceInv ==
    ASSUME Inv, stack # <<>>, pc \in {"loop", "select"},
           NEW g \in Frames, FrameInv(g), g.pos = Top.pos, g.depth = Top.depth,
           g.kids # NoKids, stack' = ReplaceTop(g), pc' \in {"select", "enter"},
           pc' = "enter" => Calling(g) /\ call'.pos = g.best /\ call'.depth < g.depth,
           call' \in Calls, evals' \in Nat,
           UNCHANGED <<tt, repCache, late, round, result, ended>>
    PROVE  Inv'
<1>1. /\ StackOK(stack') /\ RootOK(stack', round) /\ stack' # <<>>
      /\ stack'[Len(stack')] = g
  BY ReplaceOK DEF Inv
<1>2. Top' = g BY <1>1 DEF Top
<1>3. ended' # "Decisive" BY DEF Inv, ControlOK
<1>4. ControlOK' BY <1>1, <1>2, <1>3 DEF ControlOK
<1>5. ScalarsOK' BY DEF Inv, ScalarsOK
<1> QED BY <1>1, <1>4, <1>5 DEF Inv

(* The loop: cut, sweep, re-evaluation, verdict, exit, recursion.          *)
LEMMA LoopInv == Inv /\ Loop => Inv'
<1> SUFFICES ASSUME Inv, Loop PROVE Inv'
  OBVIOUS
<1>1. pc \in {"loop", "select"}
  BY DEF Loop, CutFrame, Sweep, Reevaluate, Conclude, GiveUp, Descend, Looping,
         SelectingOpen, Selecting
<1>2. /\ TableOK(tt) /\ StackOK(stack) /\ RootOK(stack, round) /\ stack # <<>>
      /\ evals \in Nat /\ call \in Calls
      /\ pc = "select" => Top.kids # NoKids
      /\ pc = "loop" /\ Top.kids # NoKids => Calling(Top)
  BY <1>1 DEF Inv, ScalarsOK, ControlOK
<1>3. /\ Top \in Frames /\ FrameInv(Top) /\ Top.pos \in Pos /\ Top.depth \in 1 .. PlyMax
      /\ Static[Top.pos] = NoOutcome
  BY <1>2, TopOK DEF Frames, FrameInv
<1>4. CASE CutFrame
  BY <1>1, <1>3, <1>4, LeaveOpenInv DEF CutFrame
<1>5. CASE Sweep
  <2>1. PICK s \in Sweeps : /\ stack' = ReplaceTop([Top EXCEPT !.kids = s.kids])
                            /\ evals' = evals + s.cost
    BY <1>5 DEF Sweep
  <2>2. /\ pc' = "select" /\ UNCHANGED <<tt, repCache, call, late, round, result, ended>>
    BY <1>5 DEF Sweep
  <2>3. /\ s.kids \in [Succ[Top.pos] -> Kids]
        /\ \A c \in Succ[Top.pos] : KidOK(c, s.kids[c], Top.depth)
        /\ s.cost \in Nat
    BY <1>2, SweepsOK
  <2>4. s.kids # NoKids BY <1>3, <2>3, SweptKids
  <2> DEFINE g == [Top EXCEPT !.kids = s.kids]
  <2>5. /\ g \in Frames /\ g.pos = Top.pos /\ g.depth = Top.depth /\ g.kids = s.kids
        /\ g.best = Top.best
    <3>1. s.kids \in UNION {[Succ[p] -> Kids] : p \in Pos} BY <1>3, <2>3
    <3> QED BY <1>3, <3>1 DEF Frames
  <2>6. FrameInv(g) BY <1>3, <2>3, <2>5 DEF FrameInv
  <2> HIDE DEF g
  <2>7. evals' \in Nat /\ call' \in Calls BY <1>2, <2>1, <2>2, <2>3
  <2>8. stack' = ReplaceTop(g) BY <2>1 DEF g
  <2> QED BY <1>1, <1>2, <2>2, <2>4, <2>5, <2>6, <2>7, <2>8, ReplaceInv
<1>6. CASE Reevaluate
  <2> DEFINE c == Top.best
             new == Evaluate(c)
             still == Top.slice # SliceMax /\ new.pn = Top.kids[c].pn /\ new.dn = Top.kids[c].dn
             k == [new EXCEPT !.explored = still]
             g == [Top EXCEPT !.kids[c] = k]
  <2>1. /\ stack' = ReplaceTop(g) /\ evals' = evals + 1 /\ pc' = "select"
        /\ UNCHANGED <<tt, repCache, call, late, round, result, ended>>
        /\ pc = "loop" /\ Top.kids # NoKids
    BY <1>6 DEF Reevaluate, Looping
  <2>2. c \in Succ[Top.pos] /\ c \in Pos
    BY <1>2, <1>3, <2>1, PositionAssumption DEF Calling
  <2>3. new \in Kids /\ KidOK(c, new, Top.depth) BY <1>2, <1>3, <2>2, EvaluateOK
  <2>4. still \in BOOLEAN OBVIOUS
  <2> HIDE DEF still, new
  <2>5. k \in Kids /\ k.outcome = new.outcome /\ k.depth = new.depth
    BY <2>3, <2>4 DEF Kids
  <2>6. KidOK(c, k, Top.depth) BY <2>3, <2>5 DEF KidOK
  <2> HIDE DEF k
  <2>7. /\ Top.kids \in [Succ[Top.pos] -> Kids]
        /\ \A d \in Succ[Top.pos] : KidOK(d, Top.kids[d], Top.depth)
    BY <1>3, <2>1 DEF FrameInv
  <2> DEFINE kids == [Top.kids EXCEPT ![c] = k]
  <2>8. /\ kids \in [Succ[Top.pos] -> Kids]
        /\ \A d \in Succ[Top.pos] : KidOK(d, kids[d], Top.depth)
    BY <2>2, <2>5, <2>6, <2>7
  <2>9. g = [Top EXCEPT !.kids = kids] BY <1>3 DEF Frames
  <2> HIDE DEF kids, g, c
  <2>10. kids # NoKids BY <1>3, <2>8, SweptKids
  <2>11. /\ g \in Frames /\ g.pos = Top.pos /\ g.depth = Top.depth /\ g.kids = kids
         /\ g.best = Top.best
    <3>1. kids \in UNION {[Succ[p] -> Kids] : p \in Pos} BY <1>3, <2>8
    <3> QED BY <1>3, <2>9, <3>1 DEF Frames
  <2>12. FrameInv(g) BY <1>3, <2>8, <2>11 DEF FrameInv
  <2>13. evals' \in Nat /\ call' \in Calls BY <1>2, <2>1
  <2> QED BY <1>1, <1>2, <2>1, <2>10, <2>11, <2>12, <2>13, ReplaceInv
<1>7. CASE Conclude
  <2>1. pc = "select" /\ Top.kids # NoKids BY <1>2, <1>7 DEF Conclude, Selecting
  <2>2. PICK v \in Verdicts(Top.kids) :
           IF v.rep THEN LeaveRepetitionDraw(Top, v) ELSE LeaveSolved(Top, v)
    BY <1>7 DEF Conclude
  <2>3. /\ v.outcome \in Outcomes /\ v.best \in Succ[Top.pos]
        /\ v.depth \in Nat /\ v.depth <= Top.depth
        /\ Holds(Top.pos, v.outcome, v.depth)
    BY <1>3, <2>1, VerdictOK DEF FrameInv
  <2>4. v.best \in Pos BY <1>3, <2>3, PositionAssumption
  <2>5. "Draw" \in Outcomes /\ \A d : Holds(Top.pos, "Draw", d)
    BY DEF Outcomes, Holds, Decisive
  <2>6. CASE v.rep
    <3> DEFINE e == [best |-> v.best, outcome |-> NoOutcome, pn |-> 1, dn |-> 1,
                     depth |-> v.depth, rem |-> PlyMax]
    <3>1. /\ Store(Top.pos, e) /\ Return("Draw", Below)
          /\ repCache' = IF Cardinality(repCache) < CacheCap
                         THEN repCache \cup {<<Top.pos, Above>>} ELSE repCache
      BY <2>2, <2>6 DEF LeaveRepetitionDraw
    <3>2. e \in Entries /\ Holds(Top.pos, e.outcome, e.depth)
      BY <2>3, <2>4, NumberAssumption DEF Entries, Holds, Decisive, NoOutcome
    <3> HIDE DEF e
    <3>3. TableOK(tt') BY <1>2, <1>3, <3>1, <3>2, StoreOK
    <3>4. \A hit \in repCache' : hit[1] \in Pos /\ hit[2] \subseteq Keys
      <4>1. Above \subseteq Keys BY <1>2, AboveKeys
      <4>2. \A hit \in repCache : hit[1] \in Pos /\ hit[2] \subseteq Keys
        BY DEF Inv, ScalarsOK
      <4> QED BY <1>3, <3>1, <4>1, <4>2
    <3> QED BY <1>1, <2>5, <3>1, <3>3, <3>4, ReturnBelowInv
  <2>7. CASE ~v.rep
    <3> DEFINE e == [best |-> v.best, outcome |-> v.outcome, pn |-> 0, dn |-> Inf,
                     depth |-> v.depth, rem |-> PlyMax]
    <3>1. /\ Store(Top.pos, e) /\ Return(v.outcome, Below) /\ repCache' = repCache
      BY <2>2, <2>7 DEF LeaveSolved
    <3>2. e \in Entries /\ Holds(Top.pos, e.outcome, e.depth) /\ e.outcome # NoOutcome
      BY <2>3, <2>4, NumberAssumption DEF Entries, Outcomes, NoOutcome
    <3> HIDE DEF e
    <3>3. TableOK(tt') BY <1>2, <1>3, <3>1, <3>2, StoreOK
    <3>4. \A hit \in repCache' : hit[1] \in Pos /\ hit[2] \subseteq Keys
      BY <3>1 DEF Inv, ScalarsOK
    <3>5. Holds(Top.pos, v.outcome, Top.depth)
      BY <1>3, <2>3, TruthAssumption, NumberAssumption DEF Holds
    <3> QED BY <1>1, <2>3, <3>1, <3>3, <3>4, <3>5, ReturnBelowInv
  <2> QED BY <2>6, <2>7
<1>8. CASE GiveUp
  <2>1. pc = "select" /\ Top.kids # NoKids
    BY <1>2, <1>8 DEF GiveUp, SelectingOpen, Selecting
  <2>2. PICK f \in Selections : LeaveOpen(f) BY <1>8 DEF GiveUp
  <2>3. f \in Frames /\ f.pos = Top.pos BY <1>2, <2>1, SelectionsOK
  <2> QED BY <1>1, <1>3, <2>2, <2>3, LeaveOpenInv
<1>9. CASE Descend
  <2>1. pc = "select" /\ Top.kids # NoKids
    BY <1>2, <1>9 DEF Descend, SelectingOpen, Selecting
  <2>2. PICK f \in Selections : ~Stops(f) /\ stack' = ReplaceTop(f) /\ call' = ChildCall(f)
    BY <1>9 DEF Descend
  <2>3. pc' = "enter" /\ UNCHANGED <<tt, repCache, evals, late, round, result, ended>>
    BY <1>9 DEF Descend
  <2>4. /\ f \in Frames /\ FrameInv(f) /\ f.pos = Top.pos /\ f.depth = Top.depth
        /\ f.kids = Top.kids /\ Calling(f)
    BY <1>2, <2>1, <2>2, SelectionsOK DEF Stops
  <2>5. call' \in Calls /\ call'.pos = f.best /\ call'.depth < f.depth
    BY <1>2, <2>2, <2>4, ChildCallOK
  <2>6. evals' \in Nat BY <1>2, <2>3
  <2> QED BY <1>1, <1>2, <2>1, <2>2, <2>3, <2>4, <2>5, <2>6, ReplaceInv
<1> QED BY <1>4, <1>5, <1>6, <1>7, <1>8, <1>9 DEF Loop

(* Every step preserves the invariant.                                     *)
LEMMA NextInv == Inv /\ [Next]_vars => Inv'
<1> SUFFICES ASSUME Inv, [Next]_vars PROVE Inv'
  OBVIOUS
<1>1. CASE Driver BY <1>1, DriverInv
<1>2. CASE Enter BY <1>2, EnterInv
<1>3. CASE Loop BY <1>3, LoopInv
<1>4. CASE Timeout BY <1>4, TimeoutInv
<1>5. CASE UNCHANGED vars
  <2>1. Top' = Top BY <1>5 DEF vars, Top
  <2>2. ControlOK' BY <1>5, <2>1 DEF vars, Inv, ControlOK
  <2>3. ScalarsOK' BY <1>5 DEF vars, Inv, ScalarsOK
  <2> QED BY <1>5, <2>2, <2>3 DEF vars, Inv
<1> QED BY <1>1, <1>2, <1>3, <1>4, <1>5 DEF Next, Search, Finished

-----------------------------------------------------------------------------
(* What the invariant says *)

(* The strengthening holds in every reachable state of every search.       *)
THEOREM InvAlways == Spec => []Inv
BY InitInv, NextInv, PTL DEF Spec

(* Every variable keeps its type, whatever the game and the bounds.        *)
THEOREM TypeCorrect == Spec => []TypeOK
<1>1. Inv => TypeOK
  <2> SUFFICES ASSUME Inv PROVE TypeOK
    OBVIOUS
  <2>1. \A i \in 1 .. Len(stack) : FrameOK(stack[i])
    <3> SUFFICES ASSUME NEW i \in 1 .. Len(stack) PROVE FrameOK(stack[i])
      OBVIOUS
    <3>1. stack[i] \in Frames /\ FrameInv(stack[i])
      BY ElementOfSeq DEF Inv, StackOK
    <3> QED BY <3>1 DEF FrameOK, Frames, FrameInv
  <2> QED BY <2>1 DEF Inv, TableOK, ScalarsOK, TypeOK
<1> QED BY <1>1, InvAlways, PTL

(* No Win and no Loss in the table is ever wrong or too shallow, for any   *)
(* game: the claim behind every proof the solver prints.                   *)
THEOREM DecisiveEntriesSound == Spec => []DecisiveSound
<1>1. Inv => DecisiveSound BY DEF Inv, TableOK, DecisiveSound
<1> QED BY <1>1, InvAlways, PTL

(* What bounded_search reports as Decisive is the value of the root and is *)
(* forced within the bound of the round.                                   *)
THEOREM AnswerSound == Spec => []AnswerWithinBound
<1>1. Inv => AnswerWithinBound BY DEF Inv, ControlOK, AnswerWithinBound
<1> QED BY <1>1, InvAlways, PTL

(* Entries without an outcome never hide a finished game.                  *)
THEOREM OutcomelessSound == Spec => []OutcomelessNonTerminal
<1>1. Inv => OutcomelessNonTerminal BY DEF Inv, TableOK, OutcomelessNonTerminal
<1> QED BY <1>1, InvAlways, PTL

(* The search path never visits a board twice.                             *)
THEOREM PathSimple == Spec => []PathDistinct
<1>1. Inv => PathDistinct BY DEF Inv, StackOK, PathDistinct
<1> QED BY <1>1, InvAlways, PTL

(* The three together: what every claim of the search rests on.            *)
THEOREM WellFormedAlways == Spec => []WellFormed
BY TypeCorrect, PathSimple, OutcomelessSound, PTL DEF WellFormed

-----------------------------------------------------------------------------
(* Finite sets of numbers *)

(* A finite set of numbers that is not empty has a greatest one.           *)
LEMMA GreatestExists ==
    ASSUME NEW S, S \subseteq Nat, IsFiniteSet(S), S # {}
    PROVE  \E x \in S : \A y \in S : x >= y
<1>n. PICK n \in Nat : \E f \in [1 .. n -> S] : \A y \in S : \E i \in 1 .. n : f[i] = y
    BY FS_NatSurjection DEF ExistsSurjection, Surjection
<1>1. PICK f \in [1 .. n -> S] : \A y \in S : \E i \in 1 .. n : f[i] = y
    BY <1>n
<1>t. \A i \in 1 .. n : f[i] \in Nat
    BY <1>1
<1> DEFINE Bad == {k \in 1 .. n : ~ \E i \in 1 .. k : \A j \in 1 .. k : f[i] >= f[j]}
<1>2. n >= 1
    <2>1. PICK y : y \in S
        OBVIOUS
    <2>2. PICK i \in 1 .. n : f[i] = y
        BY <1>1, <2>1
    <2>3. QED
        BY <2>2
<1>3. CASE Bad = {}
    <2>1. n \in 1 .. n
        BY <1>2
    <2>2. n \notin Bad
        BY <1>3
    <2>3. PICK i \in 1 .. n : \A j \in 1 .. n : f[i] >= f[j]
        BY <2>1, <2>2
    <2>4. f[i] \in S /\ \A y \in S : f[i] >= y
        BY <1>1, <2>3
    <2>5. QED
        BY <2>4
<1>4. CASE Bad # {}
    <2>1. Bad \subseteq Nat
        OBVIOUS
    <2>2. PICK m \in Bad : \A k \in Bad : ~ (<<k, m>> \in OpToRel(<, Nat))
        <3> HIDE DEF Bad
        <3>1. QED
            BY <2>1, <1>4, NatLessThanWellFounded, WFMin
    <2>3. m \in 1 .. n /\ ~ \E i \in 1 .. m : \A j \in 1 .. m : f[i] >= f[j]
        BY <2>2
    <2>4. m # 1
        <3>1. m = 1 => \A j \in 1 .. m : f[m] >= f[j]
            BY <1>t, <2>3
        <3>2. QED
            BY <2>3, <3>1
    <2>5. m - 1 \in 1 .. n /\ m - 1 \notin Bad
        <3>1. m - 1 \in 1 .. n /\ m - 1 \in Nat /\ m \in Nat /\ m - 1 < m
            BY <2>3, <2>4
        <3>2. <<m - 1, m>> \in OpToRel(<, Nat)
            BY <3>1 DEF OpToRel
        <3>3. QED
            BY <2>2, <3>1, <3>2
    <2>6. PICK i \in 1 .. m - 1 : \A j \in 1 .. m - 1 : f[i] >= f[j]
        BY <2>5
    <2>7. f[i] \in Nat /\ f[m] \in Nat /\ \A j \in 1 .. m : j = m \/ j \in 1 .. m - 1
        BY <1>t, <2>3, <2>6
    <2>8. CASE f[i] >= f[m]
        <3>1. i \in 1 .. m /\ \A j \in 1 .. m : f[i] >= f[j]
            BY <2>3, <2>6, <2>7, <2>8
        <3>2. QED
            BY <2>3, <3>1
    <2>9. CASE ~ (f[i] >= f[m])
        <3>1. \A j \in 1 .. m - 1 : f[m] >= f[j]
            <4> SUFFICES ASSUME NEW j \in 1 .. m - 1 PROVE f[m] >= f[j]
                OBVIOUS
            <4>1. f[j] \in Nat /\ f[i] >= f[j]
                BY <1>t, <2>3, <2>6
            <4>2. QED
                BY <4>1, <2>7, <2>9
        <3>2. m \in 1 .. m /\ \A j \in 1 .. m : f[m] >= f[j]
            BY <2>3, <2>7, <3>1
        <3>3. QED
            BY <2>3, <3>2
    <2>10. QED
        BY <2>8, <2>9
<1>5. QED
    BY <1>3, <1>4

(* No position has more moves than the widest, and a sweep that is cut     *)
(* short looks at no more.                                                 *)
LEMMA WidestOK ==
    /\ Widest \in Nat /\ Widest >= 1
    /\ \A p \in Pos : IsFiniteSet(Succ[p]) /\ Cardinality(Succ[p]) <= Widest
<1> DEFINE C == {Cardinality(Succ[p]) : p \in Pos}
           S == C \cup {1}
<1>1. \A p \in Pos : IsFiniteSet(Succ[p]) /\ Cardinality(Succ[p]) \in Nat
    <2> SUFFICES ASSUME NEW p \in Pos PROVE IsFiniteSet(Succ[p])
        BY FS_CardinalityType
    <2>1. IsFiniteSet(Pos) /\ Succ[p] \subseteq Pos
        BY PositionAssumption
    <2>2. QED
        BY <2>1, FS_Subset
<1>2. IsFiniteSet(S)
    <2>1. IsFiniteSet(C)
        <3>1. [p \in Pos |-> Cardinality(Succ[p])] \in Surjection(Pos, C)
            BY DEF Surjection
        <3>2. QED
            BY <3>1, PositionAssumption, FS_Surjection
    <2>2. QED
        BY <2>1, FS_AddElement
<1>3. S \subseteq Nat /\ 1 \in S
    BY <1>1
<1>4. \E x \in S : \A y \in S : x >= y
    <2> HIDE DEF S
    <2>1. QED
        BY <1>2, <1>3, GreatestExists
<1>5. Widest \in S /\ \A y \in S : Widest >= y
    <2>1. Widest = CHOOSE x \in S : \A y \in S : x >= y
        BY DEF Widest, Max
    <2> HIDE DEF S
    <2>2. QED
        BY <1>4, <2>1
<1>6. \A p \in Pos : Cardinality(Succ[p]) \in S
    OBVIOUS
<1> HIDE DEF S
<1>7. QED
    BY <1>1, <1>3, <1>5, <1>6
-----------------------------------------------------------------------------
(* Pacing *)

(* A frame whose slice binds, and the number of child evaluations at which *)
(* it is spent.                                                            *)
Sliced(f) == f.slice # SliceMax
Limit(f) == f.start + f.slice

(* A frame hands what is left of its slice to the one it calls, so all the *)
(* limits above a sliced frame are the same.                               *)
StackPaced(s, n) ==
    /\ \A i \in 1 .. Len(s) :
          /\ s[i].slice <= SliceMax /\ s[i].start <= n
          /\ Sliced(s[i]) => n <= Limit(s[i]) + Widest - 1
    /\ \A i, j \in 1 .. Len(s) :
          i <= j /\ Sliced(s[i]) => Sliced(s[j]) /\ Limit(s[j]) = Limit(s[i])

(* The lowest frame has the slice of the chunk.                            *)
RootPaced(s, r) == s # <<>> => s[1].slice = r.slice /\ s[1].start = r.start

CallPaced ==
    pc = "enter" =>
        /\ call.slice <= SliceMax
        /\ IF stack = <<>> THEN call.slice = round.slice /\ evals = round.start
           ELSE Sliced(Top) => call.slice # SliceMax /\ evals + call.slice = Limit(Top)

(* A chunk is cut so that it ends within the cap of the round.             *)
RoundPaced ==
    /\ round.chunk <= SliceMax
    /\ round.begin <= evals
    /\ pc \in {"enter", "loop", "select", "returned"} =>
          /\ round.slice <= SliceMax
          /\ round.begin <= round.start
          /\ round.start + round.slice <= round.begin + round.cap
    /\ evals <= round.begin + round.cap + Widest - 1

PaceInv ==
    /\ Inv
    /\ StackPaced(stack, evals)
    /\ RootPaced(stack, round)
    /\ CallPaced
    /\ RoundPaced
    /\ evals <= Budget + Widest - 1

(* The numbers that pacing compares are naturals.                          *)
LEMMA PaceNumbers ==
    ASSUME Inv
    PROVE  /\ evals \in Nat /\ call.slice \in Nat /\ Len(stack) \in Nat
           /\ round.chunk \in Nat /\ round.slice \in Nat /\ round.start \in Nat
           /\ round.begin \in Nat /\ round.cap \in Nat
           /\ Widest \in Nat /\ Widest >= 1 /\ SliceMax \in Nat
           /\ Budget \in Nat /\ Budget <= SliceMax
           /\ \A i \in 1 .. Len(stack) :
                 stack[i] \in Frames /\ stack[i].slice \in Nat /\ stack[i].start \in Nat
<1>1. \A i \in 1 .. Len(stack) : stack[i] \in Frames
    BY ElementOfSeq DEF Inv, StackOK
<1>2. stack \in Seq(Frames)
    BY DEF Inv, StackOK
<1>3. Len(stack) \in Nat
    BY <1>2, LenProperties
<1>4. evals \in Nat /\ call.slice \in Nat
    BY DEF Inv, ScalarsOK, Calls
<1>5. /\ round.chunk \in Nat /\ round.slice \in Nat /\ round.start \in Nat
      /\ round.begin \in Nat /\ round.cap \in Nat
    BY DEF Inv, ScalarsOK
<1>6. \A i \in 1 .. Len(stack) : stack[i].slice \in Nat /\ stack[i].start \in Nat
    BY <1>1 DEF Frames
<1>7. QED
    BY <1>1, <1>3, <1>4, <1>5, <1>6, WidestOK, NumberAssumption

(* A step that leaves the frames, the call and the counter alone and       *)
(* enters no call.                                                         *)
LEMMA SteadyKeepsPace ==
    ASSUME PaceInv, Inv', UNCHANGED <<stack, call, round, evals>>,
           \/ pc' = pc
           \/ pc = "enter" /\ pc' \in {"loop", "returned"}
           \/ pc' \in {"chunk", "done"}
    PROVE  PaceInv'
<1>1. StackPaced(stack, evals)' /\ RootPaced(stack, round)' /\ evals' <= Budget + Widest - 1
    BY DEF PaceInv, StackPaced, RootPaced
<1>2. CallPaced'
    BY DEF PaceInv, CallPaced, Top
<1>3. RoundPaced'
    BY DEF PaceInv, RoundPaced
<1>4. QED
    BY <1>1, <1>2, <1>3 DEF PaceInv

(* The stack without its top.                                              *)
LEMMA BelowSeq ==
    ASSUME StackOK(stack), stack # <<>>
    PROVE  /\ Len(stack) \in Nat \ {0} /\ Len(Below) = Len(stack) - 1
           /\ \A j \in 1 .. Len(stack) - 1 : Below[j] = stack[j]
           /\ Below # <<>> => Len(stack) > 1
<1> DEFINE n == Len(stack)
<1>1. n \in Nat \ {0} /\ stack \in Seq(Frames)
    BY TopOK DEF StackOK
<1> DEFINE m == n - 1
<1>2. /\ m \in Nat /\ m \in 1 - 1 .. Len(stack) /\ 1 \in 1 .. Len(stack) + 1
      /\ m - 1 + 1 = m /\ \A j \in 1 .. m : 1 + j - 1 = j
    BY <1>1
<1> HIDE DEF m
<1>3. /\ SubSeq(stack, 1, m) \in Seq(Frames) /\ Len(SubSeq(stack, 1, m)) = m - 1 + 1
      /\ \A j \in 1 .. m - 1 + 1 : SubSeq(stack, 1, m)[j] = stack[1 + j - 1]
    BY <1>1, <1>2, SubSeqProperties
<1>s. SubSeq(stack, 1, m) = Below
    BY DEF Below, m
<1>4. Below \in Seq(Frames) /\ Len(Below) = n - 1 /\ \A j \in 1 .. n - 1 : Below[j] = stack[j]
    BY <1>2, <1>3, <1>s DEF m
<1>5. n = 1 => Below = <<>>
    BY <1>4, EmptySeq
<1>6. QED
    BY <1>1, <1>4, <1>5 DEF n

(* The top frame returns.                                                  *)
LEMMA ReturnKeepsPace ==
    ASSUME PaceInv, Inv', stack # <<>>, pc \in {"loop", "select"}, stack' = Below,
           pc' \in {"loop", "returned"}, UNCHANGED <<round, evals>>
    PROVE  PaceInv'
<1> DEFINE n == Len(stack)
<1>1. /\ n \in Nat \ {0} /\ Len(Below) = n - 1
      /\ \A j \in 1 .. n - 1 : Below[j] = stack[j]
      /\ Below # <<>> => n > 1
    BY BelowSeq DEF PaceInv, Inv
<1>2. \A j \in 1 .. n - 1 : j \in 1 .. n
    BY <1>1
<1>3. StackPaced(Below, evals)
    BY <1>1, <1>2 DEF PaceInv, StackPaced
<1>4. RootPaced(Below, round)
    <2> SUFFICES ASSUME Below # <<>> PROVE RootPaced(Below, round)
        BY DEF RootPaced
    <2>1. 1 \in 1 .. n - 1
        BY <1>1
    <2>2. QED
        BY <1>1, <2>1 DEF PaceInv, RootPaced
<1>5. CallPaced' /\ RoundPaced'
    BY DEF PaceInv, CallPaced, RoundPaced
<1>6. QED
    BY <1>3, <1>4, <1>5 DEF PaceInv

(* A frame works only while the budget and its slice last, so one piece of *)
(* work, however wide, leaves every bound within reach.                    *)
LEMMA WorkPaced ==
    ASSUME PaceInv, Looping, stack # <<>>, NEW n \in Nat, n <= Widest
    PROVE  /\ StackPaced(stack, evals + n)
           /\ evals + n <= Budget + Widest - 1
           /\ evals + n <= round.begin + round.cap + Widest - 1
<1>1. evals < Budget
    BY PaceNumbers, NumberAssumption DEF PaceInv, Looping, OutOfResources
<1>2. Len(stack) \in 1 .. Len(stack) /\ 1 \in 1 .. Len(stack) /\ \A i \in 1 .. Len(stack) : i <= Len(stack)
    BY TopOK DEF PaceInv, Inv
<1>3. Sliced(Top) => evals < Limit(Top)
    <2>1. Top.slice \in Nat /\ Top.start \in Nat /\ evals \in Nat
        BY <1>2, PaceNumbers DEF PaceInv, Top
    <2>2. QED
        BY <2>1 DEF Looping, SliceSpent, Spent, Sliced, Limit
<1>4. \A i \in 1 .. Len(stack) : Sliced(stack[i]) => evals < Limit(stack[i])
    BY <1>2, <1>3 DEF PaceInv, StackPaced, Top
<1>5. \A i \in 1 .. Len(stack) : Limit(stack[i]) \in Nat
    <2> SUFFICES ASSUME NEW i \in 1 .. Len(stack) PROVE Limit(stack[i]) \in Nat
        OBVIOUS
    <2>1. stack[i].slice \in Nat /\ stack[i].start \in Nat
        BY PaceNumbers DEF PaceInv
    <2>2. QED
        BY <2>1 DEF Limit
<1>6. \A i \in 1 .. Len(stack) : Sliced(stack[i]) => evals + n <= Limit(stack[i]) + Widest - 1
    BY <1>4, <1>5, PaceNumbers DEF PaceInv
<1>s. \A i \in 1 .. Len(stack) : stack[i].start <= evals + n
    <2> SUFFICES ASSUME NEW i \in 1 .. Len(stack) PROVE stack[i].start <= evals + n
        OBVIOUS
    <2>1. stack[i].start \in Nat /\ evals \in Nat /\ stack[i].start <= evals
        BY PaceNumbers DEF PaceInv, StackPaced
    <2>2. QED
        BY <2>1
<1>7. StackPaced(stack, evals + n)
    BY <1>6, <1>s DEF PaceInv, StackPaced
<1>8. evals + n <= Budget + Widest - 1
    BY <1>1, PaceNumbers DEF PaceInv
<1>9. evals < round.begin + round.cap
    <2>1. /\ round.slice <= SliceMax /\ round.begin <= round.start
          /\ round.start + round.slice <= round.begin + round.cap
        BY DEF PaceInv, RoundPaced, Looping
    <2>2. CASE round.slice = SliceMax
        BY <1>1, <2>1, <2>2, PaceNumbers DEF PaceInv
    <2>3. CASE round.slice # SliceMax
        <3>1. stack[1].slice = round.slice /\ stack[1].start = round.start
            BY DEF PaceInv, RootPaced
        <3>2. evals < round.start + round.slice
            BY <1>2, <1>4, <2>3, <3>1 DEF Sliced, Limit
        <3>3. QED
            BY <2>1, <3>2, PaceNumbers DEF PaceInv
    <2>4. QED
        BY <2>2, <2>3
<1>10. evals + n <= round.begin + round.cap + Widest - 1
    BY <1>9, PaceNumbers DEF PaceInv
<1>11. QED
    BY <1>7, <1>8, <1>10

(* The top frame is rewritten but keeps its slice.                         *)
LEMMA ReplacePaced ==
    ASSUME PaceInv, stack # <<>>, NEW m \in Nat, StackPaced(stack, m),
           NEW g, g.slice = Top.slice, g.start = Top.start
    PROVE  /\ StackPaced(ReplaceTop(g), m) /\ RootPaced(ReplaceTop(g), round)
           /\ ReplaceTop(g) # <<>> /\ ReplaceTop(g)[Len(ReplaceTop(g))] = g
<1> DEFINE s == ReplaceTop(g)
           n == Len(stack)
<1>1. n \in Nat \ {0} /\ stack \in Seq(Frames)
    BY TopOK DEF PaceInv, Inv, StackOK
<1>2. n \in 1 .. n /\ 1 \in 1 .. n
    BY <1>1
<1>3. /\ s \in Seq(Frames \cup {g}) /\ Len(s) = n
      /\ \A j \in 1 .. n : s[j] = IF j = n THEN g ELSE stack[j]
    <2> DEFINE F == Frames \cup {g}
    <2>1. stack \in Seq(F) /\ g \in F
        BY <1>1
    <2> HIDE DEF F
    <2>2. /\ s \in Seq(F) /\ Len(s) = n
          /\ \A j \in 1 .. n : s[j] = IF j = n THEN g ELSE stack[j]
        BY <1>1, <1>2, <2>1, ExceptSeq DEF ReplaceTop
    <2>3. QED
        BY <2>2 DEF F
<1>4. \A j \in 1 .. n : s[j].slice = stack[j].slice /\ s[j].start = stack[j].start
    BY <1>3 DEF Top
<1> HIDE DEF s
<1>5. s # <<>> /\ s[Len(s)] = g
    BY <1>1, <1>2, <1>3, EmptySeq
<1>6. StackPaced(s, m)
    BY <1>3, <1>4 DEF StackPaced, Sliced, Limit
<1>7. RootPaced(s, round)
    BY <1>2, <1>4 DEF PaceInv, RootPaced
<1>8. QED
    BY <1>5, <1>6, <1>7 DEF s
(* The counter moves by the work of a sweep or of one child.               *)
LEMMA WorkKeepsPace ==
    ASSUME PaceInv, Inv', Looping, stack # <<>>, NEW n \in Nat, n <= Widest,
           NEW g, g.slice = Top.slice, g.start = Top.start,
           stack' = ReplaceTop(g), evals' = evals + n, pc' = "select", round' = round
    PROVE  PaceInv'
<1>1. /\ StackPaced(stack, evals + n)
      /\ evals + n <= Budget + Widest - 1
      /\ evals + n <= round.begin + round.cap + Widest - 1
    BY WorkPaced
<1>2. evals + n \in Nat /\ evals \in Nat /\ round.begin \in Nat
    BY PaceNumbers DEF PaceInv
<1>3. StackPaced(stack, evals)' /\ RootPaced(stack, round)'
    BY <1>1, <1>2, ReplacePaced
<1>4. CallPaced'
    BY DEF CallPaced
<1>5. RoundPaced'
    BY <1>1, <1>2 DEF PaceInv, RoundPaced, Looping
<1>6. QED
    BY <1>1, <1>3, <1>4, <1>5 DEF PaceInv

(* A sweep looks at no more children than there are.                       *)
LEMMA SweepCost ==
    ASSUME Inv, stack # <<>>, NEW s \in Sweeps
    PROVE  s.cost \in Nat /\ s.cost <= Widest
<1> DEFINE S == Succ[Top.pos]
           info == [c \in S |-> Evaluate(c)]
           losers == {c \in S : info[c].outcome = "Loss"}
           cut(seen) == [c \in S |-> IF c \in seen THEN info[c] ELSE Unevaluated]
           swept == {seen \in SUBSET S : \E l \in losers : seen \cap losers = {l}}
<1>1. Top.pos \in Pos
    BY TopOK DEF Inv, Frames
<1>2. IsFiniteSet(S) /\ Cardinality(S) <= Widest /\ Widest \in Nat
    BY <1>1, WidestOK
<1>3. \A seen \in SUBSET S : Cardinality(seen) \in Nat /\ Cardinality(seen) <= Widest
    <2> SUFFICES ASSUME NEW seen \in SUBSET S
                 PROVE  Cardinality(seen) \in Nat /\ Cardinality(seen) <= Widest
        OBVIOUS
    <2>1. IsFiniteSet(seen) /\ Cardinality(seen) <= Cardinality(S)
        BY <1>2, FS_Subset
    <2>2. Cardinality(seen) \in Nat /\ Cardinality(S) \in Nat
        BY <1>2, <2>1, FS_CardinalityType
    <2>3. QED
        BY <1>2, <2>1, <2>2
<1>4. s \in {[kids |-> info, cost |-> Cardinality(S)]}
      \/ s \in {[kids |-> cut(seen), cost |-> Cardinality(seen)] : seen \in swept}
    BY DEF Sweeps
<1>5. \E seen \in SUBSET S : s.cost = Cardinality(seen)
    <2> HIDE DEF info, losers, cut
    <2>1. CASE s \in {[kids |-> info, cost |-> Cardinality(S)]}
        <3>1. s.cost = Cardinality(S)
            BY <2>1
        <3>2. QED
            BY <3>1
    <2>2. CASE s \in {[kids |-> cut(seen), cost |-> Cardinality(seen)] : seen \in swept}
        <3>1. PICK seen \in swept : s = [kids |-> cut(seen), cost |-> Cardinality(seen)]
            BY <2>2
        <3>2. seen \in SUBSET S /\ s.cost = Cardinality(seen)
            BY <3>1
        <3>3. QED
            BY <3>2
    <2>3. QED
        BY <1>4, <2>1, <2>2
<1>6. QED
    BY <1>3, <1>5

(* The selection keeps the slice of the frame.                             *)
LEMMA SelectionSlice ==
    ASSUME StackOK(stack), stack # <<>>, NEW f \in Selections
    PROVE  f.slice = Top.slice /\ f.start = Top.start
<1> DEFINE isOr == IsOr(Len(stack))
           pn == NodePn(Top.kids, isOr)
           dn == NodeDn(Top.kids, isOr)
           with(c) == [Top EXCEPT !.pn = pn, !.dn = dn, !.best = c]
<1>1. PICK c : f = with(c)
    BY DEF Selections
<1>2. Top \in Frames
    BY TopOK
<1> HIDE DEF pn, dn
<1>3. QED
    BY <1>1, <1>2 DEF Frames

(* The driver starts a chunk within the cap, and ends rounds.              *)
LEMMA DriverKeepsPace ==
    ASSUME PaceInv, Driver, Inv'
    PROVE  PaceInv'
<1>1. ASSUME NEW why, End(why)
      PROVE  PaceInv'
    BY <1>1, SteadyKeepsPace DEF End
<1>2. CASE ChunkCut
    BY <1>1, <1>2 DEF ChunkCut
<1>3. CASE ChunkCapped
    BY <1>1, <1>3 DEF ChunkCapped
<1>4. CASE ChunkStart
    <2> DEFINE slice == Lesser(round.chunk, CapLeft)
    <2>1. /\ call' = Call(round.root, Inf, Inf, round.bound, slice)
          /\ round' = [round EXCEPT !.slice = slice, !.start = evals]
          /\ stack' = <<>> /\ pc' = "enter" /\ evals' = evals
        BY <1>4 DEF ChunkStart
    <2>2. slice <= SliceMax /\ evals + slice <= round.begin + round.cap
        <3>1. round.chunk <= SliceMax /\ round.begin <= evals /\ CapLeft > 0
            BY <1>4 DEF PaceInv, RoundPaced, ChunkStart
        <3>2. CapLeft = round.cap - (evals - round.begin)
            BY <3>1, PaceNumbers DEF PaceInv, CapLeft, Minus
        <3>n. round.chunk \in Int /\ CapLeft \in Int
            BY <3>2, PaceNumbers DEF PaceInv
        <3>3. slice <= round.chunk /\ slice <= CapLeft
            BY <3>n DEF Lesser
        <3>4. slice \in Int /\ CapLeft \in Int
            BY <3>n DEF Lesser
        <3>5. /\ round.chunk \in Nat /\ round.cap \in Nat /\ round.begin \in Nat
              /\ evals \in Nat /\ SliceMax \in Nat
            BY PaceNumbers DEF PaceInv
        <3> HIDE DEF slice
        <3>6. slice <= SliceMax
            BY <3>1, <3>3, <3>4, <3>5
        <3>7. evals + slice <= evals + CapLeft
            BY <3>3, <3>4, <3>5
        <3>8. evals + CapLeft = round.begin + round.cap
            BY <3>2, <3>5
        <3>9. QED
            BY <3>6, <3>7, <3>8
    <2> HIDE DEF slice
    <2>3. /\ round'.slice = slice /\ round'.start = evals /\ round'.chunk = round.chunk
          /\ round'.begin = round.begin /\ round'.cap = round.cap
        BY <2>1 DEF PaceInv, Inv, ScalarsOK
    <2>4. CallPaced'
        BY <2>1, <2>2, <2>3 DEF CallPaced, Call
    <2>5. RoundPaced'
        BY <2>1, <2>2, <2>3 DEF PaceInv, RoundPaced
    <2>6. StackPaced(stack, evals)' /\ RootPaced(stack, round)'
        BY <2>1 DEF StackPaced, RootPaced
    <2>7. QED
        BY <2>1, <2>4, <2>5, <2>6 DEF PaceInv
<1>5. CASE ChunkDecisive
    BY <1>1, <1>5 DEF ChunkDecisive
<1>6. CASE ChunkExhausted
    BY <1>1, <1>6 DEF ChunkExhausted
<1>7. CASE ChunkNext
    <2>1. /\ round' = [round EXCEPT !.chunk = NextSlice(round.chunk)] /\ pc' = "chunk"
          /\ stack' = stack /\ evals' = evals /\ stack = <<>>
        BY <1>7 DEF ChunkNext, PaceInv, Inv, ControlOK
    <2>2. NextSlice(round.chunk) <= SliceMax
        <3>1. round.chunk * Growth \in Nat
            BY PaceNumbers, NumberAssumption DEF PaceInv
        <3>2. QED
            BY <3>1, NumberAssumption DEF NextSlice, Lesser
    <2>3. /\ round'.chunk = NextSlice(round.chunk)
          /\ round'.begin = round.begin /\ round'.cap = round.cap
        BY <2>1 DEF PaceInv, Inv, ScalarsOK
    <2>4. CallPaced' /\ RoundPaced'
        BY <2>1, <2>2, <2>3 DEF PaceInv, CallPaced, RoundPaced
    <2>5. StackPaced(stack, evals)' /\ RootPaced(stack, round)'
        BY <2>1 DEF StackPaced, RootPaced
    <2>6. QED
        BY <2>1, <2>4, <2>5 DEF PaceInv
<1>8. QED
    BY <1>2, <1>3, <1>4, <1>5, <1>6, <1>7 DEF Driver

(* A frame is pushed with the slice of its call.                           *)
LEMMA PushKeepsPace ==
    ASSUME PaceInv, EnterFrame, Inv'
    PROVE  PaceInv'
<1> DEFINE f == Frame(call)
           n == Len(stack)
<1>1. /\ stack' = Append(stack, f) /\ pc = "enter" /\ pc' = "loop"
      /\ UNCHANGED <<call, round, evals>>
    BY DEF EnterFrame, EnteringUnresolved, EnteringFresh, EnteringInside, EnteringOpen, Entering
<1>2. f.slice = call.slice /\ f.start = evals
    BY DEF Frame
<1> HIDE DEF f
<1>3. /\ n \in Nat /\ Len(stack') = n + 1
      /\ \A j \in 1 .. n : stack'[j] = stack[j]
      /\ stack'[n + 1] = f
    BY <1>1, AppendProperties DEF PaceInv, Inv, StackOK
<1>4. call.slice \in Nat /\ evals \in Nat /\ call.slice <= SliceMax /\ Widest \in Nat /\ Widest >= 1
    BY <1>1, PaceNumbers DEF PaceInv, CallPaced
<1>5. stack # <<>> => n \in 1 .. n /\ 1 \in 1 .. n /\ \A i \in 1 .. n : i <= n
    BY <1>3, EmptySeq DEF PaceInv, Inv, StackOK
<1>6. ASSUME NEW i \in 1 .. n, Sliced(stack[i])
      PROVE  Sliced(f) /\ Limit(f) = Limit(stack[i])
    <2>1. stack # <<>>
        BY <1>3
    <2>2. Sliced(Top) /\ Limit(Top) = Limit(stack[i])
        BY <1>5, <1>6, <2>1 DEF PaceInv, StackPaced, Top
    <2>3. QED
        BY <1>1, <1>2, <2>1, <2>2 DEF PaceInv, CallPaced, Sliced, Limit
<1>7. StackPaced(stack, evals)'
    <2> DEFINE s == stack'
    <2>1. Len(s) = n + 1 /\ s[n + 1] = f /\ \A j \in 1 .. n : s[j] = stack[j]
        BY <1>3
    <2>2. \A i \in 1 .. n + 1 : i \in 1 .. n \/ i = n + 1
        BY <1>3
    <2>3. f.slice <= SliceMax /\ f.start <= evals /\ (Sliced(f) => evals <= Limit(f) + Widest - 1)
        BY <1>2, <1>4 DEF Limit
    <2> HIDE DEF s, n
    <2>4. \A i \in 1 .. n + 1 :
             /\ s[i].slice <= SliceMax /\ s[i].start <= evals
             /\ Sliced(s[i]) => evals <= Limit(s[i]) + Widest - 1
        BY <2>1, <2>2, <2>3 DEF PaceInv, StackPaced, n
    <2>5. ASSUME NEW i \in 1 .. n + 1, NEW j \in 1 .. n + 1, i <= j, Sliced(s[i])
          PROVE  Sliced(s[j]) /\ Limit(s[j]) = Limit(s[i])
        <3>1. CASE j = n + 1
            <4>1. CASE i = n + 1
                BY <3>1, <4>1, <2>5
            <4>2. CASE i \in 1 .. n
                BY <3>1, <4>2, <2>1, <2>5, <1>6 DEF n
            <4>3. QED
                BY <4>1, <4>2, <2>2
        <3>2. CASE j \in 1 .. n
            <4>1. i \in 1 .. n
                BY <2>5, <3>2, <1>3 DEF n
            <4>2. QED
                BY <3>2, <4>1, <2>1, <2>5 DEF PaceInv, StackPaced, n
        <3>3. QED
            BY <3>1, <3>2, <2>2
    <2>6. evals' = evals
        BY <1>1
    <2>7. QED
        BY <2>1, <2>4, <2>5, <2>6 DEF StackPaced, s
<1>8. RootPaced(stack, round)'
    <2>1. CASE stack = <<>>
        <3>1. stack'[1] = f
            BY <2>1, <1>3
        <3>2. QED
            BY <2>1, <3>1, <1>1, <1>2 DEF PaceInv, CallPaced, RootPaced
    <2>2. CASE stack # <<>>
        BY <2>2, <1>1, <1>3, <1>5 DEF PaceInv, RootPaced
    <2>3. QED
        BY <2>1, <2>2
<1>9. CallPaced' /\ RoundPaced'
    BY <1>1 DEF PaceInv, CallPaced, RoundPaced
<1>10. QED
    BY <1>1, <1>7, <1>8, <1>9 DEF PaceInv

(* A call that pushes no frame leaves the counter as it is.                *)
LEMMA EnterKeepsPace ==
    ASSUME PaceInv, Enter, Inv'
    PROVE  PaceInv'
<1>1. ASSUME NEW o, ReturnEarly(o), pc = "enter"
      PROVE  PaceInv'
    BY <1>1, SteadyKeepsPace DEF ReturnEarly, Return
<1>2. CASE EnterFrame
    BY <1>2, PushKeepsPace
<1>3. CASE ~EnterFrame
    <2>1. pc = "enter" /\ \E o : ReturnEarly(o)
        BY <1>3 DEF Enter, EnterLate, EnterTerminal, EnterHorizon, EnterRepetition, EnterResolved,
                    EnterCachedDraw, EnteringUnresolved, EnteringFresh, EnteringInside,
                    EnteringOpen, Entering
    <2>2. QED
        BY <1>1, <2>1
<1>4. QED
    BY <1>2, <1>3

(* The child gets what is left of the slice.                               *)
LEMMA DescendKeepsPace ==
    ASSUME PaceInv, Descend, Inv'
    PROVE  PaceInv'
<1>1. PICK f \in Selections : ~Stops(f) /\ stack' = ReplaceTop(f) /\ call' = ChildCall(f)
    BY DEF Descend
<1>2. /\ pc = "select" /\ pc' = "enter" /\ UNCHANGED <<round, evals>>
      /\ stack # <<>> /\ StackOK(stack) /\ Top.kids # NoKids
    BY DEF Descend, SelectingOpen, Selecting, PaceInv, Inv, ControlOK
<1>3. f \in Frames /\ f.slice = Top.slice /\ f.start = Top.start
    BY <1>1, <1>2, SelectionsOK, SelectionSlice
<1>4. /\ StackPaced(stack, evals)' /\ RootPaced(stack, round)' /\ stack' # <<>> /\ Top' = f
    <2>1. evals \in Nat /\ StackPaced(stack, evals)
        BY PaceNumbers DEF PaceInv
    <2>2. QED
        BY <1>1, <1>2, <1>3, <2>1, ReplacePaced DEF Top
<1>5. CallPaced'
    <2>1. f.slice \in Nat /\ f.start \in Nat /\ evals \in Nat /\ SliceMax \in Nat
        BY <1>3, PaceNumbers DEF PaceInv, Frames
    <2>2. call'.slice = Minus(f.slice, evals - f.start)
        BY <1>1 DEF ChildCall, Call, SliceLeft, Spent
    <2>3. Sliced(f) => evals - f.start < f.slice
        BY <1>1, <2>1 DEF Stops, SliceSpent, Spent, Sliced
    <2>4. f.slice <= SliceMax /\ (~Sliced(f) => f.slice = SliceMax)
        <3>1. Len(stack) \in 1 .. Len(stack)
            BY <1>2, TopOK
        <3>2. QED
            BY <3>1, <1>3 DEF PaceInv, StackPaced, Top, Sliced
    <2>5. f.start <= evals
        <3>1. Len(stack) \in 1 .. Len(stack)
            BY <1>2, TopOK
        <3>2. QED
            BY <3>1, <1>3 DEF PaceInv, StackPaced, Top
    <2>6. QED
        BY <1>2, <1>4, <2>1, <2>2, <2>3, <2>4, <2>5 DEF CallPaced, Minus, Sliced, Limit
<1>6. RoundPaced'
    BY <1>2 DEF PaceInv, RoundPaced
<1>7. QED
    BY <1>2, <1>4, <1>5, <1>6 DEF PaceInv
(* The loop: the counter moves in a sweep or a re-evaluation only.         *)
LEMMA LoopKeepsPace ==
    ASSUME PaceInv, Loop, Inv'
    PROVE  PaceInv'
<1>1. pc \in {"loop", "select"}
    BY DEF Loop, CutFrame, Sweep, Reevaluate, Conclude, GiveUp, Descend, Looping,
           SelectingOpen, Selecting
<1>2. stack # <<>> /\ StackOK(stack) /\ Top \in Frames
    BY <1>1, TopOK DEF PaceInv, Inv, ControlOK
<1>3. ASSUME NEW o, Return(o, Below)
      PROVE  PaceInv'
    <2>1. stack' = Below /\ pc' \in {"loop", "returned"} /\ UNCHANGED <<round, evals>>
        BY <1>3 DEF Return
    <2>2. QED
        BY <1>1, <1>2, <2>1, ReturnKeepsPace
<1>4. CASE CutFrame
    BY <1>3, <1>4 DEF CutFrame, LeaveOpen
<1>5. CASE Sweep
    <2>1. PICK s \in Sweeps : /\ stack' = ReplaceTop([Top EXCEPT !.kids = s.kids])
                              /\ evals' = evals + s.cost
        BY <1>5 DEF Sweep
    <2>2. Looping /\ pc' = "select" /\ round' = round
        BY <1>5 DEF Sweep
    <2>3. s.cost \in Nat /\ s.cost <= Widest
        BY <1>2, SweepCost DEF PaceInv
    <2> DEFINE g == [Top EXCEPT !.kids = s.kids]
    <2>4. g.slice = Top.slice /\ g.start = Top.start
        BY <1>2 DEF Frames
    <2>5. stack' = ReplaceTop(g)
        BY <2>1
    <2> HIDE DEF g
    <2>6. QED
        BY <1>2, <2>1, <2>2, <2>3, <2>4, <2>5, WorkKeepsPace
<1>6. CASE Reevaluate
    <2> DEFINE c == Top.best
               new == Evaluate(c)
               still == Top.slice # SliceMax /\ new.pn = Top.kids[c].pn /\ new.dn = Top.kids[c].dn
               g == [Top EXCEPT !.kids[c] = [new EXCEPT !.explored = still]]
    <2>1. /\ stack' = ReplaceTop(g) /\ evals' = evals + 1 /\ pc' = "select"
          /\ Looping /\ round' = round
        BY <1>6 DEF Reevaluate
    <2> HIDE DEF still, new, c
    <2>2. g.slice = Top.slice /\ g.start = Top.start
        BY <1>2 DEF Frames
    <2> HIDE DEF g
    <2>3. 1 \in Nat /\ 1 <= Widest
        BY WidestOK
    <2>4. QED
        BY <1>2, <2>1, <2>2, <2>3, WorkKeepsPace
<1>7. CASE Conclude
    BY <1>3, <1>7 DEF Conclude, LeaveRepetitionDraw, LeaveSolved
<1>8. CASE GiveUp
    BY <1>3, <1>8 DEF GiveUp, LeaveOpen
<1>9. CASE Descend
    BY <1>9, DescendKeepsPace
<1>10. QED
    BY <1>4, <1>5, <1>6, <1>7, <1>8, <1>9 DEF Loop

(* Every search starts paced: no work is done, no slice handed out.        *)
LEMMA InitEstablishesPace == Init => PaceInv
<1> SUFFICES ASSUME Init PROVE PaceInv
    OBVIOUS
<1>1. Inv
    BY InitInv
<1>2. PICK p \in Roots, d \in Bounds, cap \in RoundCaps : round = Round(p, d, cap, 0)
    BY DEF Init
<1>3. stack = <<>> /\ Len(stack) = 0 /\ pc = "chunk" /\ evals = 0
    BY DEF Init
<1>4. round.chunk <= SliceMax /\ round.begin = 0 /\ round.cap \in Nat
    BY <1>2, NumberAssumption DEF Round
<1>5. StackPaced(stack, evals) /\ RootPaced(stack, round) /\ CallPaced
    BY <1>3 DEF StackPaced, RootPaced, CallPaced
<1>6. RoundPaced /\ evals <= Budget + Widest - 1
    BY <1>3, <1>4, WidestOK, NumberAssumption DEF RoundPaced
<1>7. QED
    BY <1>1, <1>5, <1>6 DEF PaceInv

(* Every step of a search keeps the pace.                                  *)
LEMMA NextKeepsPace == PaceInv /\ [Next]_vars => PaceInv'
<1> SUFFICES ASSUME PaceInv, [Next]_vars PROVE PaceInv'
    OBVIOUS
<1>1. Inv'
    BY NextInv DEF PaceInv
<1>2. CASE Driver
    BY <1>1, <1>2, DriverKeepsPace
<1>3. CASE Enter
    BY <1>1, <1>3, EnterKeepsPace
<1>4. CASE Loop
    BY <1>1, <1>4, LoopKeepsPace
<1>5. CASE Timeout
    BY <1>1, <1>5, SteadyKeepsPace DEF Timeout
<1>6. CASE UNCHANGED vars
    BY <1>1, <1>6, SteadyKeepsPace DEF vars
<1>7. QED
    BY <1>2, <1>3, <1>4, <1>5, <1>6 DEF Next, Search, Finished

(* What the pace says of the budget and of the slices.                     *)
LEMMA PaceBoundsWork == PaceInv => WorkBounded
<1> SUFFICES ASSUME PaceInv PROVE WorkBounded
    OBVIOUS
<1>1. BudgetOvershoot
    BY DEF PaceInv, BudgetOvershoot
<1>2. SliceOvershoot
    <2> SUFFICES ASSUME NEW i \in 1 .. Len(stack), stack[i].slice # SliceMax
                 PROVE  Spent(stack[i]) <= stack[i].slice + Widest - 1
        BY DEF SliceOvershoot
    <2>1. evals <= stack[i].start + stack[i].slice + Widest - 1
        BY DEF PaceInv, StackPaced, Sliced, Limit
    <2>2. stack[i].start \in Nat /\ stack[i].slice \in Nat /\ evals \in Nat /\ Widest \in Nat
        BY PaceNumbers DEF PaceInv
    <2>3. QED
        BY <2>1, <2>2 DEF Spent
<1>3. QED
    BY <1>1, <1>2 DEF WorkBounded

(* The hard budget, and the slice of every frame on the stack with the     *)
(* work of all it called, are crossed by less than one sweep of the widest *)
(* position: for every depth of recursion, although each is looked at once *)
(* per loop of a frame (core.rs).                                          *)
THEOREM WorkAlwaysBounded == Spec => []WorkBounded
BY InitEstablishesPace, NextKeepsPace, PaceBoundsWork, PTL DEF Spec
-----------------------------------------------------------------------------
(* The principal variation *)

(* The recursive function Lines is the one its equation describes: it is   *)
(* built up from 0, and there is no first length at which that fails.      *)
LEMMA LinesEquation ==
    Lines = [k \in 0 .. MaxPly |->
                IF k = 0 THEN {<<round.root>>} ELSE {Longer(l) : l \in Lines[k - 1]}]
<1> DEFINE Base == {<<round.root>>}
           Grown(L) == {Longer(l) : l \in L}
           Built(f, n) == f = [k \in 0 .. n |-> IF k = 0 THEN Base ELSE Grown(f[k - 1])]
           Bad == {n \in 0 .. MaxPly : ~ \E f : Built(f, n)}
<1>1. MaxPly \in Nat
    BY SolveAssumption, NumberAssumption
<1> HIDE DEF Base, Grown
<1>2. CASE Bad # {}
    <2>1. Bad \subseteq Nat
        BY <1>1
    <2>2. PICK m \in Bad : \A k \in Bad : ~ (<<k, m>> \in OpToRel(<, Nat))
        <3> HIDE DEF Bad
        <3>1. QED
            BY <2>1, <1>2, NatLessThanWellFounded, WFMin
    <2>3. m \in 0 .. MaxPly /\ ~ \E f : Built(f, m)
        BY <2>2
    <2>4. CASE m = 0
        <3> DEFINE f == [k \in 0 .. 0 |-> Base]
        <3>1. Built(f, 0)
            OBVIOUS
        <3>2. QED
            BY <2>3, <2>4, <3>1
    <2>5. CASE m # 0
        <3>1. m - 1 \in 0 .. MaxPly /\ m - 1 \in Nat /\ m \in Nat /\ m - 1 < m
            BY <1>1, <2>3, <2>5
        <3>2. <<m - 1, m>> \in OpToRel(<, Nat)
            BY <3>1 DEF OpToRel
        <3>3. m - 1 \notin Bad
            BY <2>2, <3>2
        <3>4. PICK f : Built(f, m - 1)
            BY <3>1, <3>3
        <3> DEFINE g == [k \in 0 .. m |-> IF k = m THEN Grown(f[m - 1]) ELSE f[k]]
        <3>5. \A k \in 0 .. m - 1 : g[k] = f[k]
            BY <3>1
        <3>6. \A k \in 0 .. m : g[k] = IF k = 0 THEN Base ELSE Grown(g[k - 1])
            <4> SUFFICES ASSUME NEW k \in 0 .. m
                         PROVE  g[k] = IF k = 0 THEN Base ELSE Grown(g[k - 1])
                OBVIOUS
            <4>1. CASE k = m
                <5>1. g[k] = Grown(f[m - 1]) /\ g[m - 1] = f[m - 1]
                    BY <3>1, <3>5, <4>1
                <5>2. QED
                    BY <2>5, <4>1, <5>1
            <4>2. CASE k # m
                <5>1. k \in 0 .. m - 1
                    BY <3>1, <4>2
                <5>2. g[k] = f[k] /\ f[k] = IF k = 0 THEN Base ELSE Grown(f[k - 1])
                    BY <3>4, <3>5, <5>1
                <5>3. k # 0 => g[k - 1] = f[k - 1]
                    BY <3>1, <3>5, <5>1
                <5>4. QED
                    BY <5>2, <5>3
            <4>3. QED
                BY <4>1, <4>2
        <3>7. Built(g, m)
            <4>1. DOMAIN g = 0 .. m /\ g = [k \in 0 .. m |-> g[k]]
                OBVIOUS
            <4> HIDE DEF g
            <4>2. QED
                BY <3>6, <4>1
        <3>8. QED
            BY <2>3, <3>7
    <2>6. QED
        BY <2>4, <2>5
<1>3. CASE Bad = {}
    <2>1. MaxPly \notin Bad /\ MaxPly \in 0 .. MaxPly
        BY <1>1, <1>3
    <2>2. \E f : Built(f, MaxPly)
        BY <2>1
    <2>3. Lines = CHOOSE f : Built(f, MaxPly)
        BY DEF Lines, Base, Grown
    <2> HIDE DEF Built
    <2>4. Built(Lines, MaxPly)
        BY <2>2, <2>3
    <2>5. QED
        BY <2>4 DEF Built, Base, Grown
<1>4. QED
    BY <1>2, <1>3
(* Where a line goes on, the entry has a move to go on with.               *)
LEMMA LongerLine ==
    ASSUME TableOK(tt), NEW l \in Seq(Pos), l # <<>>
    PROVE  Longer(l) \in Seq(Pos) /\ Len(Longer(l)) \in Len(l) .. Len(l) + 1
<1>1. Len(l) \in Nat /\ Len(l) \in 1 .. Len(l)
    BY EmptySeq
<1>2. l[Len(l)] \in Pos
    BY <1>1, ElementOfSeq
<1>3. CASE Follows(l)
    <2> DEFINE m == Probe(l[Len(l)]).best
    <2>1. m \in Pos
        BY <1>2, <1>3, ProbeOK DEF Follows
    <2>2. Longer(l) = Append(l, m)
        BY <1>3 DEF Longer
    <2> HIDE DEF m
    <2>3. QED
        BY <1>1, <2>1, <2>2, AppendProperties
<1>4. CASE ~Follows(l)
    BY <1>1, <1>4 DEF Longer
<1>5. QED
    BY <1>3, <1>4

(* The principal variation is one line, and no longer than max_ply.        *)
LEMMA PvOK ==
    ASSUME TableOK(tt), round.root \in Pos
    PROVE  PvLength \in 0 .. MaxPly
<1> DEFINE Line(k, l) == Lines[k] = {l} /\ Len(l) \in 1 .. k + 1
           Good(k) == \E l \in Seq(Pos) : Line(k, l)
           Bad == {k \in 0 .. MaxPly : ~ Good(k)}
<1>1. MaxPly \in Nat
    BY SolveAssumption, NumberAssumption
<1> DEFINE F(k) == IF k = 0 THEN {<<round.root>>} ELSE {Longer(l) : l \in Lines[k - 1]}
<1>2. \A k \in 0 .. MaxPly : Lines[k] = F(k)
    <2>1. Lines = [k \in 0 .. MaxPly |-> F(k)]
        BY LinesEquation
    <2> HIDE DEF F
    <2>2. QED
        BY <2>1
<1>0. Lines[0] = {<<round.root>>}
    <2>1. 0 \in 0 .. MaxPly
        BY <1>1
    <2>2. F(0) = {<<round.root>>}
        OBVIOUS
    <2> HIDE DEF F
    <2>3. QED
        BY <1>2, <2>1, <2>2
<1>s. \A k \in 0 .. MaxPly : k # 0 => Lines[k] = {Longer(l) : l \in Lines[k - 1]}
    <2>1. \A k \in 0 .. MaxPly : k # 0 => F(k) = {Longer(l) : l \in Lines[k - 1]}
        OBVIOUS
    <2> HIDE DEF F
    <2>2. QED
        BY <1>2, <2>1
<1> HIDE DEF F
<1> HIDE DEF Good
<1>3. CASE Bad # {}
    <2>1. Bad \subseteq Nat
        BY <1>1
    <2>2. PICK m \in Bad : \A k \in Bad : ~ (<<k, m>> \in OpToRel(<, Nat))
        <3> HIDE DEF Bad
        <3>1. QED
            BY <2>1, <1>3, NatLessThanWellFounded, WFMin
    <2>3. m \in 0 .. MaxPly /\ ~ Good(m)
        BY <2>2
    <2>4. CASE m = 0
        <3>1. <<round.root>> \in Seq(Pos) /\ Len(<<round.root>>) = 1
            OBVIOUS
        <3>2. Line(0, <<round.root>>)
            BY <1>0, <3>1
        <3>3. Good(0)
            BY <3>1, <3>2 DEF Good
        <3>4. QED
            BY <2>3, <2>4, <3>3
    <2>5. CASE m # 0
        <3>1. m - 1 \in 0 .. MaxPly /\ m - 1 \in Nat /\ m \in Nat /\ m - 1 < m
            BY <1>1, <2>3, <2>5
        <3>2. <<m - 1, m>> \in OpToRel(<, Nat)
            BY <3>1 DEF OpToRel
        <3>3. m - 1 \notin Bad
            BY <2>2, <3>2
        <3>4. PICK l \in Seq(Pos) : Line(m - 1, l)
            BY <3>1, <3>3 DEF Good
        <3>5. Len(l) \in 1 .. m /\ l # <<>>
            BY <3>1, <3>4
        <3>6. Longer(l) \in Seq(Pos) /\ Len(Longer(l)) \in Len(l) .. Len(l) + 1
            BY <3>5, LongerLine
        <3>7. Lines[m] = {Longer(l)}
            BY <1>s, <2>3, <2>5, <3>4
        <3>8. Len(Longer(l)) \in 1 .. m + 1
            BY <3>1, <3>5, <3>6
        <3>9. QED
            BY <2>3, <3>6, <3>7, <3>8 DEF Good
    <2>6. QED
        BY <2>4, <2>5
<1>4. CASE Bad = {}
    <2>1. MaxPly \notin Bad /\ MaxPly \in 0 .. MaxPly
        BY <1>1, <1>4
    <2>2. PICK l \in Seq(Pos) : Line(MaxPly, l)
        BY <2>1 DEF Good
    <2>3. Pv = l
        BY <2>2 DEF Pv
    <2>4. Len(l) \in 1 .. MaxPly + 1
        BY <2>2
    <2>5. Len(l) - 1 \in 0 .. MaxPly
        BY <1>1, <2>4
    <2>6. QED
        BY <2>3, <2>5 DEF PvLength
<1>5. QED
    BY <1>3, <1>4

-----------------------------------------------------------------------------
(* The solve driver *)

(* The outcome the driver holds is what the root is worth.                 *)
VerdictTrue == best.outcome \in Decisive => Truth[round.root] = best.outcome

(* A round that is over without a decisive answer leaves a Draw.           *)
ResultOK == pc = "chunk" \/ (pc = "done" /\ ended # "Decisive") => result = "Draw"

SolveInv ==
    /\ PaceInv
    /\ ResultOK
    /\ phase \in {"first", "between", "refine", "solved"}
    /\ best \in [outcome : Outcomes, length : 0 .. MaxPly]
    /\ firstEvals \in Nat
    /\ phase = "first" => best.outcome = "Draw"
    /\ phase \in {"between", "solved"} => pc = "done"
    /\ VerdictTrue

(* The search never changes the root of its round, and leaves a Draw       *)
(* unless it says Decisive.                                                *)
LEMMA SearchKeepsRound ==
    ASSUME Inv, ResultOK, Search
    PROVE  round'.root = round.root /\ ResultOK'
<1>r. round \in [root : Pos, bound : 0 .. PlyMax, cap : Nat, begin : Nat,
                 start : Nat, slice : Nat, chunk : Nat]
    BY DEF Inv, ScalarsOK
<1>1. CASE ChunkStart
    BY <1>1, <1>r DEF ChunkStart, ResultOK
<1>2. CASE ChunkNext
    BY <1>2, <1>r DEF ChunkNext, ResultOK
<1>3. CASE ChunkCut \/ ChunkCapped \/ ChunkDecisive \/ ChunkExhausted
    BY <1>3 DEF ChunkCut, ChunkCapped, ChunkDecisive, ChunkExhausted, End, ResultOK
<1>4. CASE Enter
    <2>1. round' = round /\ pc' \in {"loop", "returned"}
        BY <1>4 DEF Enter, EnterLate, EnterTerminal, EnterHorizon, EnterRepetition, EnterResolved,
                    EnterCachedDraw, EnterFrame, ReturnEarly, Return
    <2>2. QED
        BY <2>1 DEF ResultOK
<1>5. CASE Loop
    <2>1. round' = round /\ pc' \in {"select", "enter", "loop", "returned"}
        BY <1>5 DEF Loop, CutFrame, Sweep, Reevaluate, Conclude, GiveUp, Descend,
                    LeaveOpen, LeaveRepetitionDraw, LeaveSolved, Return
    <2>2. QED
        BY <2>1 DEF ResultOK
<1>6. QED
    BY <1>1, <1>2, <1>3, <1>4, <1>5 DEF Search, Driver

(* What a round that is over leaves as its outcome is true.                *)
LEMMA RoundOutcome ==
    ASSUME SolveInv, pc = "done"
    PROVE  /\ [outcome |-> result, length |-> PvLength] \in [outcome : Outcomes, length : 0 .. MaxPly]
           /\ result \in Decisive => Truth[round.root] = result
<1>1. result \in Outcomes /\ TableOK(tt) /\ round.root \in Pos
    BY DEF SolveInv, PaceInv, Inv, ScalarsOK
<1>2. PvLength \in 0 .. MaxPly
    BY <1>1, PvOK
<1>3. ASSUME result \in Decisive PROVE Truth[round.root] = result
    <2>1. ended = "Decisive"
        BY <1>3 DEF SolveInv, ResultOK, Decisive
    <2>2. Holds(round.root, result, round.bound)
        BY <2>1 DEF SolveInv, PaceInv, Inv, ControlOK
    <2>3. QED
        BY <1>3, <2>2 DEF Holds
<1>4. QED
    BY <1>1, <1>2, <1>3

(* The cap of a refinement round is a number.                              *)
LEMMA CapNat ==
    ASSUME firstEvals \in Nat
    PROVE  RoundCapNow \in Nat
<1>1. firstEvals * CapNum \in Nat /\ CapDen \in Nat \ {0} /\ CapMin \in Nat /\ SliceMax \in Nat
    BY SolveAssumption, NumberAssumption
<1>2. (firstEvals * CapNum) \div CapDen \in Int
    BY <1>1
<1>3. QED
    BY <1>1, <1>2 DEF RoundCapNow

(* A refinement round starts on the table the earlier ones left.           *)
LEMMA StartKeepsInv ==
    ASSUME SolveInv, StartRound
    PROVE  SolveInv'
<1> DEFINE r == Round(round.root, best.length - 2, RoundCapNow, evals)
<1>1. /\ phase' = "refine" /\ round' = r /\ result' = "Draw" /\ ended' = "running" /\ pc' = "chunk"
      /\ UNCHANGED <<tt, repCache, stack, call, evals, late, best, improved, firstEvals, status>>
      /\ best.length > 2 /\ pc = "done"
    BY DEF StartRound, Refinable, SolveInv
<1>2. stack = <<>> /\ evals \in Nat /\ round.root \in Pos
    BY <1>1 DEF SolveInv, PaceInv, Inv, ControlOK, ScalarsOK
<1>3. best.length \in 0 .. MaxPly /\ best.length - 2 \in 0 .. PlyMax
    BY <1>1, SolveAssumption, NumberAssumption DEF SolveInv
<1>4. RoundCapNow \in Nat
    BY CapNat DEF SolveInv
<1>5. /\ r \in [root : Pos, bound : 0 .. PlyMax, cap : Nat, begin : Nat,
                start : Nat, slice : Nat, chunk : Nat]
      /\ r.root = round.root /\ r.chunk <= SliceMax /\ r.begin = evals
    BY <1>2, <1>3, <1>4, NumberAssumption DEF Round
<1> HIDE DEF r
<1>6. ScalarsOK'
    BY <1>1, <1>5 DEF SolveInv, PaceInv, Inv, ScalarsOK, Outcomes
<1>7. ControlOK'
    BY <1>1, <1>2 DEF ControlOK
<1>8. Inv'
    BY <1>1, <1>2, <1>6, <1>7 DEF SolveInv, PaceInv, Inv, RootOK
<1>9. PaceInv'
    <2>1. StackPaced(stack, evals)' /\ RootPaced(stack, round)' /\ CallPaced'
        BY <1>1, <1>2 DEF StackPaced, RootPaced, CallPaced
    <2>2. r.cap \in Nat /\ Widest \in Nat /\ Widest >= 1
        BY <1>5, WidestOK
    <2>3. RoundPaced'
        BY <1>1, <1>2, <1>5, <2>2 DEF RoundPaced
    <2>4. QED
        BY <1>1, <1>8, <2>1, <2>3 DEF SolveInv, PaceInv
<1>10. ResultOK' /\ VerdictTrue'
    BY <1>1, <1>5 DEF SolveInv, ResultOK, VerdictTrue
<1>11. QED
    BY <1>1, <1>9, <1>10 DEF SolveInv

(* The driver starts with no line and nothing claimed.                     *)
LEMMA SolveInitInv == SolveInit => SolveInv
<1> SUFFICES ASSUME SolveInit PROVE SolveInv
    OBVIOUS
<1>1. PaceInv
    BY InitEstablishesPace DEF SolveInit
<1>2. MaxPly \in Nat
    BY SolveAssumption, NumberAssumption
<1>3. best \in [outcome : Outcomes, length : 0 .. MaxPly] /\ best.outcome = "Draw"
    BY <1>2 DEF SolveInit, Outcomes
<1>4. ResultOK
    BY DEF SolveInit, Init, ResultOK
<1>5. QED
    BY <1>1, <1>3, <1>4 DEF SolveInit, SolveInv, VerdictTrue, Decisive

(* Every step of the search below and of the driver keeps the invariant.   *)
LEMMA SolveNextInv == SolveInv /\ [SolveNext]_<<vars, solveVars>> => SolveInv'
<1> SUFFICES ASSUME SolveInv, [SolveNext]_<<vars, solveVars>> PROVE SolveInv'
    OBVIOUS
<1>1. CASE InRound
    <2>1. Search /\ UNCHANGED solveVars /\ phase \in {"first", "refine"}
        BY <1>1 DEF InRound
    <2>2. PaceInv'
        BY <2>1, NextKeepsPace DEF SolveInv, Next
    <2>3. round'.root = round.root /\ ResultOK'
        BY <2>1, SearchKeepsRound DEF SolveInv, PaceInv
    <2>4. QED
        BY <2>1, <2>2, <2>3 DEF SolveInv, VerdictTrue, solveVars
<1>2. ASSUME UNCHANGED vars
      PROVE  PaceInv' /\ ResultOK' /\ round' = round /\ pc' = pc
    <2>1. PaceInv'
        BY <1>2, NextKeepsPace DEF SolveInv
    <2>2. ResultOK' /\ round' = round /\ pc' = pc
        BY <1>2 DEF SolveInv, ResultOK, vars
    <2>3. QED
        BY <2>1, <2>2
<1>3. CASE FirstDone
    <2>1. /\ pc = "done" /\ phase' = "between" /\ firstEvals' = evals /\ UNCHANGED vars
          /\ best' = [outcome |-> result, length |-> PvLength]
        BY <1>3 DEF FirstDone
    <2>2. evals \in Nat
        BY PaceNumbers DEF SolveInv, PaceInv
    <2>3. QED
        BY <1>2, <2>1, <2>2, RoundOutcome DEF SolveInv, VerdictTrue
<1>4. CASE StartRound
    BY <1>4, StartKeepsInv
<1>5. CASE RoundImproved
    <2>1. /\ pc = "done" /\ phase' = "between" /\ firstEvals' = firstEvals /\ UNCHANGED vars
          /\ best' = [outcome |-> result, length |-> PvLength]
        BY <1>5 DEF RoundImproved
    <2>2. QED
        BY <1>2, <2>1, RoundOutcome DEF SolveInv, VerdictTrue
<1>6. CASE RoundFailed
    BY <1>2, <1>6 DEF RoundFailed, SolveInv, VerdictTrue
<1>7. CASE RoundsOver
    BY <1>2, <1>7 DEF RoundsOver, SolveInv, VerdictTrue
<1>8. CASE Timeout /\ UNCHANGED solveVars
    <2>1. PaceInv'
        BY <1>8, NextKeepsPace DEF SolveInv, Next
    <2>2. ResultOK' /\ round' = round /\ pc' = pc
        BY <1>8 DEF Timeout, SolveInv, ResultOK
    <2>3. QED
        BY <1>8, <2>1, <2>2 DEF SolveInv, VerdictTrue, solveVars
<1>9. CASE UNCHANGED <<vars, solveVars>>
    BY <1>2, <1>9 DEF SolveInv, VerdictTrue, solveVars
<1>10. QED
    BY <1>1, <1>3, <1>4, <1>5, <1>6, <1>7, <1>8, <1>9 DEF SolveNext, Solving, Returned

(* SolveInv holds in every state of every solve.                           *)
THEOREM SolveInvAlways == SolveSpec => []SolveInv
BY SolveInitInv, SolveNextInv, PTL DEF SolveSpec

(* A refinement round is abandoned within one sweep of its cap, although   *)
(* the cap is only looked at between chunks (run.rs, bounded_search).      *)
THEOREM RoundsAlwaysBounded == SolveSpec => []RoundOvershoot
<1>1. SolveInv => RoundOvershoot
    <2> SUFFICES ASSUME SolveInv PROVE RoundOvershoot
        OBVIOUS
    <2>1. evals <= round.begin + round.cap + Widest - 1
        BY DEF SolveInv, PaceInv, RoundPaced
    <2>2. QED
        BY <2>1, PaceNumbers DEF SolveInv, PaceInv, RoundOvershoot
<1>2. QED
    BY <1>1, SolveInvAlways, PTL

(* Over all the rounds of a solve, on the table and the repetition cache   *)
(* each leaves to the next, the entries stay true, the work stays bounded  *)
(* and the outcome the driver reports is what the root is worth.           *)
THEOREM SolveAlwaysSound == SolveSpec => [](DecisiveSound /\ WorkBounded /\ VerdictTrue)
<1>1. SolveInv => DecisiveSound /\ WorkBounded /\ VerdictTrue
    BY PaceBoundsWork DEF SolveInv, PaceInv, Inv, TableOK, DecisiveSound
<1>2. QED
    BY <1>1, SolveInvAlways, PTL

(* Once a solve has found a winner, no refinement round and no timeout     *)
(* takes the verdict back or turns it round.                               *)
THEOREM VerdictStays ==
    SolveSpec => [][best.outcome \in Decisive => best'.outcome = best.outcome]_<<vars, solveVars>>
<1>1. SolveInv /\ [SolveNext]_<<vars, solveVars>> =>
         [best.outcome \in Decisive => best'.outcome = best.outcome]_<<vars, solveVars>>
    <2> SUFFICES ASSUME SolveInv, [SolveNext]_<<vars, solveVars>>, best.outcome \in Decisive
                 PROVE  best'.outcome = best.outcome
        OBVIOUS
    <2>1. CASE FirstDone
        BY <2>1 DEF FirstDone, SolveInv, Decisive
    <2>2. CASE RoundImproved
        <3>1. best'.outcome = result /\ result # "Draw" /\ pc = "done"
            BY <2>2 DEF RoundImproved, Improves
        <3>2. result \in Decisive
            BY <3>1, RoundOutcome DEF Outcomes, Decisive, SolveInv, PaceInv, Inv, ScalarsOK
        <3>3. QED
            BY <3>1, <3>2, RoundOutcome DEF SolveInv, VerdictTrue
    <2>3. CASE ~FirstDone /\ ~RoundImproved
        BY <2>3 DEF SolveNext, Solving, Returned, InRound, StartRound, RoundFailed, RoundsOver, solveVars
    <2>4. QED
        BY <2>1, <2>2, <2>3
<1>2. QED
    BY <1>1, SolveInvAlways, PTL DEF SolveSpec

===============================================================================
