--------------------------- MODULE PrephasesProofs ---------------------------
(***************************************************************************)
(* What the stages before the main search store, report and claim is true, *)
(* and together they keep to the budget: for any game, any numbers of the  *)
(* schedule, any order of the moves, any loss of table entries and any     *)
(* moment at which a run is cut.                                           *)
(***************************************************************************)
EXTENDS Prephases, TLAPS, FiniteSetTheorems, SequenceTheorems, WellFoundedInduction

-----------------------------------------------------------------------------
(* The invariant of the win prover                                         *)

Entries == [best : Pos \cup {NoMove}, outcome : Outcomes \cup {NoOutcome}, pn : Nat, dn : Nat, depth : Nat, rem : Nat]
Kids == [to : Pos, outcome : Outcomes \cup {NoOutcome}, depth : Nat, pn : Nat, dn : Nat, simulated : BOOLEAN]
Frames == [pos : Pos, thPn : Nat, thDn : Nat, kids : Seq(Kids), at : Nat, best : Pos \cup {NoMove}, pn : Nat, dn : Nat]
Asked == [pos : Pos, thPn : Nat, thDn : Nat]
Calls == [pos : Pos, guide : Pos, best : Pos \cup {NoMove}, todo : Seq(Pos), deepest : Nat]
Trials == [kid : Nat, left : Nat, calls : Seq(Calls), pos : Pos \cup {NoMove}, guide : Pos \cup {NoMove},
           depth : Nat, best : Pos \cup {NoMove}]
Steps == {"idle", "enter", "loop", "return", "replay", "call", "reply", "answered", "extract", "finished"}

ProverTypes ==
    /\ root \in Pos /\ late \in {"no", "deadline", "stop"}
    /\ DOMAIN tt \subseteq Pos /\ tt \in [DOMAIN tt -> Entries]
    /\ frames \in Seq(Frames) /\ call \in Asked
    /\ spent \in Nat /\ cap \in Nat
    /\ trial \in Trials /\ step \in Steps

(* What the proof events say, and what would justify them.                 *)
Says(S, p, o) == \E e \in S : e[1] = p /\ e[2] = o
Justified(S, p, o) ==
    \/ Static[p] = o
    \/ Static[p] = NoOutcome /\ o = "Win" /\ \E c \in Succ[p] : Says(S, c, "Loss")
    \/ Static[p] = NoOutcome /\ o = "Loss" /\ \A c \in Succ[p] : Says(S, c, "Win")

(* Every event is true, and justified by others.                           *)
Grounded(S) ==
    /\ S \subseteq Pos \X Decisive \X Nat
    /\ \A p \in Pos, o \in Decisive : Says(S, p, o) => Truth[p] = o /\ Justified(S, p, o)

(* The table and the frames know nothing that was not reported.            *)
TableSaid == \A p \in DOMAIN tt : tt[p].outcome \in Decisive => Says(proved, p, tt[p].outcome)

FrameOK(S, f) ==
    /\ Static[f.pos] = NoOutcome
    /\ Len(f.kids) = Len(ByLabel[f.pos])
    /\ {f.kids[i].to : i \in DOMAIN f.kids} = Succ[f.pos]
    /\ \A i \in DOMAIN f.kids : f.kids[i].outcome \in Decisive => Says(S, f.kids[i].to, f.kids[i].outcome)

Calling(f) == f.at \in DOMAIN f.kids

Stacked(S, s) ==
    /\ \A i \in DOMAIN s : FrameOK(S, s[i])
    /\ \A i, j \in DOMAIN s : Board[s[i].pos] = Board[s[j].pos] => i = j
    /\ \A i \in DOMAIN s : i < Len(s) => Calling(s[i])
StackOK == Stacked(proved, frames)

ControlOK ==
    /\ step \in {"idle", "extract", "finished"} => frames = <<>>
    /\ step \in {"loop", "return", "replay", "call", "reply", "answered"} => frames # <<>>
    /\ step \in {"enter", "return", "replay", "call", "reply", "answered"} /\ frames # <<>> => Calling(Top)
    /\ step \in {"idle", "enter"} /\ frames = <<>> => call.pos = root
    /\ frames # <<>> => frames[1].pos = root

(* The calls of a replay.  What the n-th of them has called, if it has; a  *)
(* defender has replies left, or has had them answered.                    *)
Pending(calls, pos, n) == IF n < Len(calls) THEN calls[n + 1].pos ELSE pos

CallOK(S, calls, pos, at, n) ==
    LET c == calls[n]
    IN  /\ Static[c.pos] = NoOutcome
        /\ n % 2 = 1 => c.best \in Succ[c.pos] /\ Pending(calls, pos, n) = c.best
        /\ n % 2 = 0 =>
              /\ \A x \in Succ[c.pos] : x \in Range(c.todo) \/ Says(S, x, "Win")
              /\ Range(c.todo) \subseteq Succ[c.pos]
              /\ n < Len(calls) \/ at # "reply" => c.todo # <<>> /\ Head(c.todo) = Pending(calls, pos, n)

CallsOK(S, calls, pos, at) == \A n \in 1 .. Len(calls) : CallOK(S, calls, pos, at, n)

Replaying == step \in {"call", "reply", "answered"}

TrialOK ==
    Replaying =>
        /\ trial.pos \in Pos /\ trial.guide \in Pos
        /\ trial.kid \in DOMAIN Top.kids /\ Top.kids[trial.kid].to = Pending(trial.calls, trial.pos, 0)
        /\ CallsOK(proved, trial.calls, trial.pos, step)
        /\ step = "reply" => Len(trial.calls) % 2 = 0 /\ trial.calls # <<>>
        /\ step = "answered" => Says(proved, trial.pos, Wanted)

ClaimOK ==
    /\ step \in {"extract", "finished"} /\ answer = "Win" => Says(proved, root, "Win")
    /\ claim # <<>> => step = "finished" /\ answer = "Win"

ProverInv ==
    /\ ProverTypes /\ Grounded(proved) /\ TableSaid
    /\ StackOK /\ ControlOK /\ TrialOK /\ ClaimOK

-----------------------------------------------------------------------------
(* The invariant of the budget *)

(* The most the front-end can spend.                                       *)
Highest == cap - 1 + SimulationBudget * MaxMoves + Depth

(* Every active call evaluates one child more on its way out.              *)
Affords(n) == spent < cap \/ spent + n <= Highest
Paid == spent + trial.left * MaxMoves <= cap - 1 + SimulationBudget * MaxMoves

SpentOK ==
    /\ step = "idle" => spent = 0 /\ cap = 0
    /\ step # "idle" => cap \in 1 .. budget
    /\ step = "enter" => spent < cap
    /\ step = "loop" \/ step = "replay" => Affords(Len(frames))
    /\ step = "return" => Affords(Len(frames) + 1)
    /\ Replaying => /\ trial.left <= SimulationBudget
                    /\ Affords(Len(frames))
                    /\ trial.calls # <<>> => Paid
    /\ step \in {"extract", "finished"} => spent <= Highest

-----------------------------------------------------------------------------
(* Numbers and moves                                                       *)

(* A set of numbers that is not empty has a least one.                     *)
LEMMA LeastExists ==
    ASSUME NEW S, S \subseteq Nat, S # {}
    PROVE  \E m \in S : \A k \in S : m <= k
<1>1. PICK m \in S : \A k \in S : ~ (<<k, m>> \in OpToRel(<, Nat))
    BY NatLessThanWellFounded, WFMin
<1>2. \A k \in S : ~ (k < m)
    BY <1>1 DEF OpToRel
<1>3. QED
    BY <1>2

LEMMA CappedNat == \A n : Capped(n) \in Nat
BY NumbersAssumption DEF Capped

LEMMA SuccPos == \A p \in Pos : Succ[p] \subseteq Pos
<1>1. \A p \in Pos : ByLabel[p] \in Seq(Pos) /\ Range(ByLabel[p]) = Succ[p]
    BY MovesAssumption
<1>2. QED
    BY <1>1 DEF Range

(* A sequence that lists the moves of p.                                   *)
Lists(s, p) == s \in Seq(Pos) /\ Len(s) = Len(ByLabel[p]) /\ {s[i] : i \in DOMAIN s} = Succ[p]

LEMMA OrderedLists == \A p \in Pos : Lists(Ordered(p), p)
<1> SUFFICES ASSUME NEW p \in Pos PROVE Lists(Ordered(p), p)
    OBVIOUS
<1>1. ByLabel[p] \in Seq(Pos) /\ {ByLabel[p][i] : i \in DOMAIN ByLabel[p]} = Succ[p]
    BY MovesAssumption DEF Range
<1> DEFINE s == ByLabel[p]
           r == [i \in 1 .. Len(s) |-> s[(Len(s) - i) + 1]]
<1>2. CASE upward
    <2>1. Ordered(p) = ByLabel[p]
        BY <1>2 DEF Ordered
    <2>2. Lists(ByLabel[p], p)
        BY <1>1 DEF Lists
    <2>3. QED
        BY <2>1, <2>2
<1>3. CASE ~upward
    <2>1. Ordered(p) = r
        BY <1>3 DEF Ordered, Reverse
    <2>2. Len(s) \in Nat /\ DOMAIN s = 1 .. Len(s) /\ \A i \in 1 .. Len(s) : s[i] \in Pos
        BY <1>1
    <2> HIDE DEF s
    <2>3. \A i \in 1 .. Len(s) : (Len(s) - i) + 1 \in 1 .. Len(s)
        BY <2>2
    <2>4. r \in [1 .. Len(s) -> Pos]
        BY <2>2, <2>3
    <2>5. r \in Seq(Pos) /\ Len(r) = Len(s) /\ DOMAIN r = 1 .. Len(s)
        BY <2>2, <2>4
    <2>6. ASSUME NEW x \in {s[i] : i \in DOMAIN s}
          PROVE  x \in {r[i] : i \in DOMAIN r}
        <3>1. PICK i \in 1 .. Len(s) : x = s[i]
            BY <2>2
        <3> DEFINE j == (Len(s) - i) + 1
        <3>2. j \in 1 .. Len(s) /\ (Len(s) - j) + 1 = i
            BY <2>2
        <3>3. r[j] = s[i]
            BY <3>2
        <3>4. QED
            BY <2>5, <3>1, <3>2, <3>3
    <2>7. ASSUME NEW x \in {r[i] : i \in DOMAIN r}
          PROVE  x \in {s[i] : i \in DOMAIN s}
        <3>1. PICK i \in 1 .. Len(s) : x = r[i]
            BY <2>5
        <3>2. x = s[(Len(s) - i) + 1]
            BY <3>1
        <3>3. QED
            BY <2>2, <2>3, <3>2
    <2>8. {r[i] : i \in DOMAIN r} = {s[i] : i \in DOMAIN s}
        <3> HIDE DEF r
        <3>1. QED
            BY <2>6, <2>7
    <2>9. Lists(r, p)
        BY <1>1, <2>5, <2>8 DEF s, Lists
    <2>10. QED
        BY <2>1, <2>9
<1>4. QED
    BY <1>2, <1>3

LEMMA SortedLists == \A p \in Pos : Lists(Sorted(p), p)
<1> SUFFICES ASSUME NEW p \in Pos PROVE Lists(Sorted(p), p)
    OBVIOUS
<1> DEFINE s == Ordered(p)
           best == Probe(p).best
           at == CHOOSE i \in DOMAIN s : s[i] = best
           r == [i \in DOMAIN s |-> IF i = 1 THEN best ELSE IF i <= at THEN s[i - 1] ELSE s[i]]
<1>1. s \in Seq(Pos) /\ Len(s) = Len(ByLabel[p]) /\ {s[i] : i \in DOMAIN s} = Succ[p]
    BY OrderedLists DEF Lists
<1>2. Sorted(p) = IF best \in Succ[p] THEN r ELSE s
    BY DEF Sorted
<1>3. CASE best \in Succ[p]
    <2>1. \E i \in DOMAIN s : s[i] = best
        BY <1>1, <1>3
    <2>2. at \in DOMAIN s /\ s[at] = best
        BY <2>1
    <2> HIDE DEF s, best, at
    <2>3. Len(s) \in Nat /\ DOMAIN s = 1 .. Len(s) /\ \A i \in 1 .. Len(s) : s[i] \in Pos
        BY <1>1
    <2>4. best \in Pos
        BY <2>2, <2>3
    <2>5. \A i \in 1 .. Len(s) : r[i] = IF i = 1 THEN best ELSE IF i <= at THEN s[i - 1] ELSE s[i]
        BY <2>3
    <2>6. \A i \in 1 .. Len(s) : r[i] \in Pos
        BY <2>2, <2>3, <2>4, <2>5
    <2>7. r \in [1 .. Len(s) -> Pos]
        BY <2>3, <2>6
    <2>8. r \in Seq(Pos) /\ Len(r) = Len(s) /\ DOMAIN r = 1 .. Len(s)
        BY <2>3, <2>7
    <2> HIDE DEF r
    <2>9. ASSUME NEW x \in {s[i] : i \in DOMAIN s}
          PROVE  x \in {r[i] : i \in DOMAIN r}
        <3>1. PICK i \in 1 .. Len(s) : x = s[i]
            BY <2>3
        <3>2. CASE i > at
            BY <2>2, <2>3, <2>5, <2>8, <3>1, <3>2
        <3>3. CASE i < at
            <4>1. i + 1 \in 1 .. Len(s) /\ i + 1 # 1 /\ i + 1 <= at /\ (i + 1) - 1 = i
                BY <2>2, <2>3, <3>3
            <4>2. r[i + 1] = s[i]
                BY <2>5, <4>1
            <4>3. QED
                BY <2>8, <3>1, <4>1, <4>2
        <3>4. CASE i = at
            <4>1. 1 \in 1 .. Len(s) /\ r[1] = best
                BY <2>3, <2>5, <3>1
            <4>2. QED
                BY <2>2, <2>8, <3>1, <3>4, <4>1
        <3>5. QED
            BY <2>2, <2>3, <3>2, <3>3, <3>4
    <2>10. ASSUME NEW x \in {r[i] : i \in DOMAIN r}
           PROVE  x \in {s[i] : i \in DOMAIN s}
        <3>1. PICK i \in 1 .. Len(s) : x = r[i]
            BY <2>8
        <3>2. CASE i = 1
            BY <2>2, <2>5, <3>1, <3>2
        <3>3. CASE i # 1 /\ i <= at
            <4>1. i - 1 \in 1 .. Len(s)
                BY <2>3, <3>3
            <4>2. QED
                BY <2>3, <2>5, <3>1, <3>3, <4>1
        <3>4. CASE i # 1 /\ ~(i <= at)
            BY <2>3, <2>5, <3>1, <3>4
        <3>5. QED
            BY <3>2, <3>3, <3>4
    <2>11. {r[i] : i \in DOMAIN r} = {s[i] : i \in DOMAIN s}
        BY <2>9, <2>10
    <2>12. QED
        BY <1>1, <1>2, <1>3, <2>8, <2>11 DEF Lists
<1>4. CASE best \notin Succ[p]
    BY <1>1, <1>2, <1>4 DEF Lists
<1>5. QED
    BY <1>3, <1>4

-----------------------------------------------------------------------------
(* Events                                                                  *)

(* Events that are justified by those before them leave all grounded.      *)
LEMMA GroundedGrows ==
    ASSUME NEW S, Grounded(S), NEW E \in SUBSET (Pos \X Decisive \X Nat),
           \A e \in E : Says(S, e[1], e[2]) \/ Justified(S, e[1], e[2])
    PROVE  Grounded(S \cup E)
<1>1. \A p, o : Says(S, p, o) => Says(S \cup E, p, o)
    BY DEF Says
<1>2. \A p, o : Justified(S, p, o) => Justified(S \cup E, p, o)
    BY <1>1 DEF Justified
<1>3. ASSUME NEW p \in Pos, NEW o \in Decisive, Says(S \cup E, p, o)
      PROVE  Truth[p] = o /\ Justified(S \cup E, p, o)
    <2>1. CASE Says(S, p, o)
        BY <1>2, <2>1 DEF Grounded
    <2>2. CASE ~Says(S, p, o)
        <3>1. PICK e \in E : e[1] = p /\ e[2] = o
            BY <1>3, <2>2 DEF Says
        <3>2. Justified(S, p, o)
            BY <2>2, <3>1
        <3>3. Truth[p] = o
            <4>1. /\ Static[p] # NoOutcome => Truth[p] = Static[p]
                  /\ Static[p] = NoOutcome =>
                        Truth[p] = IF \E c \in Succ[p] : Truth[c] = "Loss" THEN "Win"
                                   ELSE IF \A c \in Succ[p] : Truth[c] = "Win" THEN "Loss" ELSE "Draw"
                BY RulesAssumption
            <4>2. CASE Static[p] = o
                BY <4>1, <4>2 DEF Decisive, NoOutcome
            <4>3. CASE Static[p] = NoOutcome /\ o = "Win" /\ \E c \in Succ[p] : Says(S, c, "Loss")
                <5>1. PICK c \in Succ[p] : Says(S, c, "Loss")
                    BY <4>3
                <5>2. c \in Pos /\ "Loss" \in Decisive
                    BY SuccPos DEF Decisive
                <5>3. Truth[c] = "Loss"
                    BY <5>1, <5>2 DEF Grounded
                <5>4. QED
                    BY <4>1, <4>3, <5>3
            <4>4. CASE Static[p] = NoOutcome /\ o = "Loss" /\ \A c \in Succ[p] : Says(S, c, "Win")
                <5>1. \A c \in Succ[p] : c \in Pos
                    BY SuccPos
                <5>2. \A c \in Succ[p] : Truth[c] = "Win"
                    BY <4>4, <5>1 DEF Grounded, Decisive
                <5>3. QED
                    BY <4>1, <4>4, <5>2
            <4>5. QED
                BY <3>2, <4>2, <4>3, <4>4 DEF Justified
        <3>4. QED
            BY <1>2, <3>2, <3>3
    <2>3. QED
        BY <2>1, <2>2
<1>4. S \cup E \subseteq Pos \X Decisive \X Nat
    BY DEF Grounded
<1>5. QED
    BY <1>3, <1>4 DEF Grounded

(* One event more.                                                         *)
LEMMA GroundedOne ==
    ASSUME NEW S, Grounded(S), NEW p \in Pos, NEW o \in Decisive, NEW d \in Nat,
           Says(S, p, o) \/ Justified(S, p, o)
    PROVE  /\ Grounded(S \cup {<<p, o, d>>})
           /\ Says(S \cup {<<p, o, d>>}, p, o)
<1> DEFINE E == {<<p, o, d>>}
<1>1. E \in SUBSET (Pos \X Decisive \X Nat)
    OBVIOUS
<1>2. \A e \in E : e[1] = p /\ e[2] = o
    OBVIOUS
<1>3. \A e \in E : Says(S, e[1], e[2]) \/ Justified(S, e[1], e[2])
    BY <1>2
<1> HIDE DEF E
<1>4. Grounded(S \cup E)
    BY <1>1, <1>3, GroundedGrows
<1>5. Says(S \cup {<<p, o, d>>}, p, o)
    <2>1. <<p, o, d>> \in S \cup {<<p, o, d>>} /\ <<p, o, d>>[1] = p /\ <<p, o, d>>[2] = o
        OBVIOUS
    <2>2. QED
        BY <2>1 DEF Says
<1>6. QED
    BY <1>4, <1>5 DEF E

LEMMA SaysMore == ASSUME NEW S, NEW T, S \subseteq T, NEW p, NEW o, Says(S, p, o) PROVE Says(T, p, o)
BY DEF Says

(* An immediate win and its lost end.                                      *)
LEMMA GroundedMate ==
    ASSUME NEW S, Grounded(S), NEW p \in Pos, Static[p] = NoOutcome,
           NEW c \in Succ[p], Static[c] = "Loss"
    PROVE  Grounded(S \cup MateEvents(p, c)) /\ Says(S \cup MateEvents(p, c), p, "Win")
<1>1. c \in Pos /\ "Loss" \in Decisive /\ "Win" \in Decisive /\ 0 \in Nat /\ 1 \in Nat
    BY SuccPos DEF Decisive
<1>2. Justified(S, c, "Loss")
    BY DEF Justified
<1> DEFINE T == S \cup {<<c, "Loss", 0>>}
<1>3. Grounded(T) /\ Says(T, c, "Loss")
    BY <1>1, <1>2, GroundedOne
<1> HIDE DEF T
<1>4. Justified(T, p, "Win")
    BY <1>3 DEF Justified
<1>5. Grounded(T \cup {<<p, "Win", 1>>}) /\ Says(T \cup {<<p, "Win", 1>>}, p, "Win")
    BY <1>1, <1>3, <1>4, GroundedOne
<1>6. T \cup {<<p, "Win", 1>>} = S \cup MateEvents(p, c)
    BY DEF T, MateEvents
<1>7. QED
    BY <1>5, <1>6

-----------------------------------------------------------------------------
(* The table and the children                                              *)

LEMMA ProbeIs ==
    ASSUME ProverTypes, TableSaid, NEW p \in Pos
    PROVE  /\ Probe(p).best \in Pos \cup {NoMove}
           /\ Probe(p).outcome \in Outcomes \cup {NoOutcome, "absent"}
           /\ Probe(p).pn \in Nat /\ Probe(p).dn \in Nat /\ Probe(p).depth \in Nat
           /\ Probe(p).outcome \in Decisive => Says(proved, p, Probe(p).outcome)
<1>1. CASE p \in DOMAIN tt
    <2>1. Probe(p) = tt[p]
        BY <1>1 DEF Probe
    <2>2. tt[p] \in Entries
        BY <1>1 DEF ProverTypes
    <2>3. /\ tt[p].best \in Pos \cup {NoMove} /\ tt[p].outcome \in Outcomes \cup {NoOutcome}
          /\ tt[p].pn \in Nat /\ tt[p].dn \in Nat /\ tt[p].depth \in Nat
        BY <2>2 DEF Entries
    <2>4. tt[p].outcome \in Decisive => Says(proved, p, tt[p].outcome)
        BY <1>1 DEF TableSaid
    <2>5. QED
        BY <2>1, <2>3, <2>4
<1>2. CASE p \notin DOMAIN tt
    <2>1. Probe(p) = NoEntry
        BY <1>2 DEF Probe
    <2>2. QED
        BY <2>1 DEF NoEntry, Decisive
<1>3. QED
    BY <1>1, <1>2

(* A store of what was reported.                                           *)
LEMMA StoreSaid ==
    ASSUME ProverTypes, TableSaid, NEW p \in Pos, NEW e \in Entries, Store(p, e),
           NEW S, proved \subseteq S, e.outcome \in Decisive => Says(S, p, e.outcome)
    PROVE  /\ DOMAIN tt' \subseteq Pos /\ tt' \in [DOMAIN tt' -> Entries]
           /\ \A q \in DOMAIN tt' : tt'[q].outcome \in Decisive => Says(S, q, tt'[q].outcome)
<1> DEFINE m == Merged(Probe(p), e)
           kept == DOMAIN tt \ {p}
<1>1. PICK lost : tt' = [q \in {p} \cup (kept \ lost) |-> IF q = p THEN m ELSE tt[q]]
    BY DEF Store, StoreResults
<1>2. Normalised(e) \in Entries /\ Normalised(e).outcome = e.outcome
    BY CappedNat DEF Normalised, Entries
<1>3. Solved(Probe(p)) => p \in DOMAIN tt /\ Probe(p) = tt[p]
    BY DEF Solved, Probe, NoEntry, Outcomes
<1>4. m \in Entries /\ (m.outcome \in Decisive => Says(S, p, m.outcome))
    <2>1. CASE Solved(Probe(p)) /\ ~Solved(e)
        <3>1. m = tt[p] /\ p \in DOMAIN tt
            BY <1>3, <2>1 DEF Merged
        <3>2. tt[p] \in Entries
            BY <3>1 DEF ProverTypes
        <3>3. tt[p].outcome \in Decisive => Says(S, p, tt[p].outcome)
            BY <3>1, SaysMore DEF TableSaid
        <3>4. QED
            BY <3>1, <3>2, <3>3
    <2>2. CASE ~(Solved(Probe(p)) /\ ~Solved(e))
        <3>1. m = Normalised(e)
            BY <2>2 DEF Merged
        <3>2. QED
            BY <1>2, <3>1
    <2>3. QED
        BY <2>1, <2>2
<1> HIDE DEF m
<1>5. \A q \in DOMAIN tt : tt[q] \in Entries /\ (tt[q].outcome \in Decisive => Says(S, q, tt[q].outcome))
    BY SaysMore DEF ProverTypes, TableSaid
<1>6. DOMAIN tt' = {p} \cup (kept \ lost) /\ \A q \in DOMAIN tt' : tt'[q] = IF q = p THEN m ELSE tt[q]
    BY <1>1
<1>7. \A q \in DOMAIN tt' : q \in Pos /\ (q = p \/ q \in DOMAIN tt)
    BY <1>6 DEF ProverTypes
<1>8. \A q \in DOMAIN tt' : tt'[q] \in Entries /\ (tt'[q].outcome \in Decisive => Says(S, q, tt'[q].outcome))
    BY <1>4, <1>5, <1>6, <1>7
<1>9. tt' = [q \in DOMAIN tt' |-> tt'[q]]
    BY <1>1
<1>10. QED
    BY <1>7, <1>8, <1>9

LEMMA PnDnNat == \A o, b : PnOf(o, b) \in Nat /\ DnOf(o, b) \in Nat
BY NumbersAssumption DEF PnOf, DnOf

(* What a child is taken for is reported, or plain to see.                 *)
LEMMA ClassifyIs ==
    ASSUME ProverTypes, TableSaid, NEW c \in Pos, NEW path, NEW b
    PROVE  /\ Classify(c, path, b) \in Kids
           /\ Classify(c, path, b).to = c
           /\ Classify(c, path, b).outcome \in Decisive =>
                 \/ Static[c] = Classify(c, path, b).outcome
                 \/ Says(proved, c, Classify(c, path, b).outcome)
<1> DEFINE e == Probe(c)
           k == Classify(c, path, b)
<1>1. /\ e.outcome \in Outcomes \cup {NoOutcome, "absent"}
      /\ e.pn \in Nat /\ e.dn \in Nat /\ e.depth \in Nat
      /\ e.outcome \in Decisive => Says(proved, c, e.outcome)
    BY ProbeIs
<1>2. Static[c] \in Outcomes \cup {NoOutcome}
    BY MovesAssumption
<1>3. \A o \in Outcomes, d \in Nat : /\ SolvedKid(c, o, d, b) \in Kids
                                     /\ SolvedKid(c, o, d, b).to = c /\ SolvedKid(c, o, d, b).outcome = o
    BY PnDnNat DEF SolvedKid, Kids
<1>4. \A m, n \in Nat : /\ OpenKid(c, m, n) \in Kids
                        /\ OpenKid(c, m, n).to = c /\ OpenKid(c, m, n).outcome = NoOutcome
    BY DEF OpenKid, Kids
<1>5. Decisive \subseteq Outcomes /\ NoOutcome \notin Outcomes /\ "Draw" \in Outcomes \ Decisive
    BY DEF Decisive, Outcomes, NoOutcome
<1> HIDE DEF e
<1>6. CASE Static[c] # NoOutcome
    <2>1. k = SolvedKid(c, Static[c], 0, b)
        BY <1>6 DEF Classify
    <2>2. QED
        BY <1>2, <1>3, <1>6, <2>1
<1>7. CASE Static[c] = NoOutcome /\ Board[c] \in path
    <2>1. k = SolvedKid(c, "Draw", 0, b)
        BY <1>7 DEF Classify
    <2>2. QED
        BY <1>3, <1>5, <2>1
<1>8. CASE Static[c] = NoOutcome /\ Board[c] \notin path /\ e.outcome \in Decisive
    <2>1. k = SolvedKid(c, e.outcome, e.depth, b)
        BY <1>8 DEF Classify, e
    <2>2. QED
        BY <1>1, <1>3, <1>5, <1>8, <2>1
<1>9. CASE Static[c] = NoOutcome /\ Board[c] \notin path /\ e.outcome \notin Decisive
    <2>1. k = OpenKid(c, e.pn, e.dn) \/ k = OpenKid(c, 1, 1)
        BY <1>9 DEF Classify, e
    <2>2. QED
        BY <1>1, <1>4, <1>5, <2>1
<1>10. QED
    BY <1>6, <1>7, <1>8, <1>9

-----------------------------------------------------------------------------
(* Choices among the children                                              *)

LEMMA GreatestExists ==
    ASSUME NEW S, S \subseteq Nat, IsFiniteSet(S), S # {}
    PROVE  \E x \in S : \A y \in S : x >= y
<1> DEFINE Above == {u \in Nat : \A y \in S : y <= u}
<1>1. PICK n \in Nat : \E f \in [1 .. n -> S] : \A y \in S : \E i \in 1 .. n : f[i] = y
    BY FS_NatSurjection DEF ExistsSurjection, Surjection
<1>2. PICK f \in [1 .. n -> S] : \A y \in S : \E i \in 1 .. n : f[i] = y
    BY <1>1
<1> DEFINE Bounded == {k \in 0 .. n : \E u \in Nat : \A i \in 1 .. k : f[i] <= u}
           Bad == {k \in 0 .. n : k \notin Bounded}
<1>3. 0 \in Bounded
    OBVIOUS
<1>4. Bad = {}
    <2>1. SUFFICES ASSUME Bad # {} PROVE FALSE
        OBVIOUS
    <2>2. Bad \subseteq Nat
        OBVIOUS
    <2>3. PICK m \in Bad : \A k \in Bad : m <= k
        <3> HIDE DEF Bad
        <3>1. QED
            BY <2>1, <2>2, LeastExists
    <2>4. m # 0 /\ m \in 0 .. n /\ m - 1 \in 0 .. n /\ ~(m <= m - 1)
        BY <1>3, <2>3
    <2>5. m - 1 \in Bounded
        BY <2>3, <2>4
    <2>6. PICK u \in Nat : \A i \in 1 .. m - 1 : f[i] <= u
        BY <2>5
    <2>7. f[m] \in Nat /\ \A i \in 1 .. m : i \in 1 .. m - 1 \/ i = m
        <3>1. m \in 1 .. n
            BY <2>4
        <3>2. f[m] \in S
            BY <1>2, <3>1
        <3>3. f[m] \in Nat
            BY <3>2
        <3>4. \A i \in 1 .. m : i \in 1 .. m - 1 \/ i = m
            BY <3>1
        <3>5. QED
            BY <3>3, <3>4
    <2>8. PICK v \in Nat : u <= v /\ f[m] <= v
        <3>1. CASE u <= f[m]
            BY <2>7, <3>1
        <3>2. CASE f[m] <= u
            BY <2>7, <3>2
        <3>3. f[m] \in Nat /\ u \in Nat
            BY <2>6, <2>7
        <3>4. u <= f[m] \/ f[m] <= u
            BY <3>3
        <3>5. QED
            BY <3>1, <3>2, <3>4
    <2>9. \A i \in 1 .. m : f[i] <= v
        <3> SUFFICES ASSUME NEW i \in 1 .. m PROVE f[i] <= v
            OBVIOUS
        <3>1. i \in 1 .. n
            BY <2>4
        <3>2. f[i] \in Nat
            BY <1>2, <3>1
        <3>3. QED
            BY <2>6, <2>7, <2>8, <3>2
    <2>10. m \in Bounded
        BY <2>4, <2>9
    <2>11. QED
        BY <2>3, <2>10
<1>5. n \in Bounded
    <2>1. n \in 0 .. n
        OBVIOUS
    <2> HIDE DEF Bounded
    <2>2. QED
        BY <1>4, <2>1
<1>6. PICK u \in Nat : \A i \in 1 .. n : f[i] <= u
    BY <1>5
<1>7. u \in Above
    BY <1>2, <1>6
<1>8. PICK g \in Above : \A k \in Above : g <= k
    <2> HIDE DEF Above
    <2>1. Above \subseteq Nat
        BY DEF Above
    <2>2. QED
        BY <1>7, <2>1, LeastExists
<1>9. g \in S
    <2>1. SUFFICES ASSUME g \notin S PROVE FALSE
        OBVIOUS
    <2>2. \A y \in S : y \in Nat /\ y <= g /\ y # g
        BY <1>8, <2>1
    <2>3. PICK y \in S : TRUE
        OBVIOUS
    <2>4. g \in Nat /\ g # 0 /\ g - 1 \in Nat
        BY <1>8, <2>2, <2>3
    <2>5. g - 1 \in Above
        BY <2>2, <2>4
    <2>6. QED
        BY <1>8, <2>4, <2>5
<1>10. QED
    BY <1>8, <1>9

LEMMA LeastIndex ==
    ASSUME NEW n \in Nat, NEW K \in SUBSET (1 .. n), K # {}
    PROVE  \E i \in K : \A j \in 1 .. i - 1 : j \notin K
<1>1. PICK i \in K : \A j \in K : i <= j
    <2>1. K \subseteq Nat
        OBVIOUS
    <2>2. QED
        BY <2>1, LeastExists
<1>2. \A j \in 1 .. i - 1 : ~(i <= j)
    OBVIOUS
<1>3. QED
    BY <1>1, <1>2

LEMMA KidIs ==
    ASSUME NEW s \in Seq(Kids), NEW i \in DOMAIN s
    PROVE  /\ s[i] \in Kids /\ s[i].to \in Pos /\ s[i].outcome \in Outcomes \cup {NoOutcome}
           /\ s[i].depth \in Nat /\ s[i].pn \in Nat /\ s[i].dn \in Nat /\ s[i].simulated \in BOOLEAN
<1>1. s[i] \in Kids
    OBVIOUS
<1>2. QED
    BY <1>1 DEF Kids

(* Of the children with an outcome one is the nearest, one the farthest.   *)
LEMMA NearestIs ==
    ASSUME NEW s \in Seq(Kids), NEW o, \E k \in Range(s) : k.outcome = o
    PROVE  Nearest(s, o) \in Kids /\ Farthest(s, o) \in Kids
<1>1. Len(s) \in Nat /\ DOMAIN s = 1 .. Len(s) /\ Range(s) = {s[i] : i \in 1 .. Len(s)}
    BY DEF Range
<1>2. \A i \in 1 .. Len(s) : s[i] \in Kids /\ s[i].depth \in Nat
    BY <1>1, KidIs
<1> DEFINE Ds == {s[i].depth : i \in {j \in 1 .. Len(s) : s[j].outcome = o}}
<1>3. Ds \subseteq Nat /\ Ds # {} /\ IsFiniteSet(Ds)
    <2> DEFINE Js == {j \in 1 .. Len(s) : s[j].outcome = o}
    <2>1. IsFiniteSet(Js)
        <3>1. IsFiniteSet(1 .. Len(s))
            BY <1>1, FS_Interval
        <3>2. Js \subseteq 1 .. Len(s)
            OBVIOUS
        <3> HIDE DEF Js
        <3>3. QED
            BY <3>1, <3>2, FS_Subset
    <2>2. Ds = {s[i].depth : i \in Js}
        OBVIOUS
    <2>3. IsFiniteSet(Ds)
        <3> DEFINE f == [i \in Js |-> s[i].depth]
        <3>1. f \in [Js -> Ds] /\ \A d \in Ds : \E i \in Js : f[i] = d
            BY <2>2
        <3>2. f \in Surjection(Js, Ds)
            BY <3>1 DEF Surjection
        <3> HIDE DEF Js, Ds, f
        <3>3. QED
            BY <2>1, <3>2, FS_Surjection
    <2>4. Ds \subseteq Nat /\ Ds # {}
        <3>1. PICK k \in Range(s) : k.outcome = o
            OBVIOUS
        <3>2. PICK i \in 1 .. Len(s) : k = s[i]
            BY <1>1
        <3>3. s[i].depth \in Ds
            BY <3>1, <3>2
        <3>4. QED
            BY <1>2, <3>3
    <2>5. QED
        BY <2>3, <2>4
<1>4. PICK i \in 1 .. Len(s) : s[i].outcome = o /\ \A d \in Ds : s[i].depth <= d
    <2>1. PICK m \in Ds : \A d \in Ds : m <= d
        <3> HIDE DEF Ds
        <3>1. QED
            BY <1>3, LeastExists
    <2>2. QED
        BY <2>1
<1>5. PICK g \in 1 .. Len(s) : s[g].outcome = o /\ \A d \in Ds : s[g].depth >= d
    <2>1. PICK m \in Ds : \A d \in Ds : m >= d
        <3> HIDE DEF Ds
        <3>1. QED
            BY <1>3, GreatestExists
    <2>2. QED
        BY <2>1
<1> DEFINE Near(k) == k.outcome = o /\ \A x \in Range(s) : x.outcome = o => k.depth <= x.depth
           Far(k) == k.outcome = o /\ \A x \in Range(s) : x.outcome = o => k.depth >= x.depth
           NearIds == {j \in 1 .. Len(s) : Near(s[j])}
           FarIds == {j \in 1 .. Len(s) : Far(s[j])}
<1>6. i \in NearIds /\ g \in FarIds
    <2>1. \A x \in Range(s) : x.outcome = o => x.depth \in Ds
        BY <1>1
    <2>2. QED
        BY <1>4, <1>5, <2>1
<1>7. PICK a \in NearIds : \A j \in 1 .. a - 1 : j \notin NearIds
    <2> HIDE DEF NearIds
    <2>1. NearIds \in SUBSET (1 .. Len(s))
        BY DEF NearIds
    <2>2. QED
        BY <1>1, <1>6, <2>1, LeastIndex
<1>8. PICK b \in FarIds : \A j \in 1 .. b - 1 : j \notin FarIds
    <2> HIDE DEF FarIds
    <2>1. FarIds \in SUBSET (1 .. Len(s))
        BY DEF FarIds
    <2>2. QED
        BY <1>1, <1>6, <2>1, LeastIndex
<1> HIDE DEF Near, Far
<1>9. \E j \in DOMAIN s : Near(s[j]) /\ \A l \in 1 .. j - 1 : ~Near(s[l])
    <2>1. a \in 1 .. Len(s) /\ Near(s[a]) /\ \A l \in 1 .. a - 1 : l \in 1 .. Len(s)
        BY <1>1, <1>7
    <2>2. QED
        BY <1>1, <1>7, <2>1
<1>10. \E j \in DOMAIN s : Far(s[j]) /\ \A l \in 1 .. j - 1 : ~Far(s[l])
    <2>1. b \in 1 .. Len(s) /\ Far(s[b]) /\ \A l \in 1 .. b - 1 : l \in 1 .. Len(s)
        BY <1>1, <1>8
    <2>2. QED
        BY <1>1, <1>8, <2>1
<1>11. Nearest(s, o) = s[CHOOSE j \in DOMAIN s : Near(s[j]) /\ \A l \in 1 .. j - 1 : ~Near(s[l])]
    BY DEF Nearest, First, Near
<1>12. Farthest(s, o) = s[CHOOSE j \in DOMAIN s : Far(s[j]) /\ \A l \in 1 .. j - 1 : ~Far(s[l])]
    BY DEF Farthest, First, Far
<1>13. QED
    BY <1>1, <1>2, <1>9, <1>10, <1>11, <1>12

(* What the children settle is typed, and justified when it is decisive.   *)
LEMMA SettlesIs ==
    ASSUME NEW f \in Frames, FrameOK(proved, f), f.pos \in Pos
    PROVE  LET found == Settles(f.kids)
           IN  /\ found.outcome \in Outcomes \cup {NoOutcome}
               /\ found.outcome # NoOutcome => found.depth \in Nat /\ found.best \in Pos
               /\ found.outcome \in Decisive => Justified(proved, f.pos, found.outcome)
<1> DEFINE s == f.kids
           found == Settles(s)
           has(o) == \E k \in Range(s) : k.outcome = o
<1>1. s \in Seq(Kids)
    BY DEF Frames
<1>2. Len(s) \in Nat /\ DOMAIN s = 1 .. Len(s) /\ Range(s) = {s[i] : i \in DOMAIN s}
    BY <1>1 DEF Range
<1>3. /\ Static[f.pos] = NoOutcome
      /\ {s[i].to : i \in DOMAIN s} = Succ[f.pos]
      /\ \A i \in DOMAIN s : s[i].outcome \in Decisive => Says(proved, s[i].to, s[i].outcome)
    BY DEF FrameOK
<1> HIDE DEF s
<1>4. \A k \in Range(s) : k \in Kids /\ k.outcome \in Outcomes \cup {NoOutcome}
    BY <1>1, <1>2, KidIs
<1>5. \A k \in Kids : k.depth \in Nat /\ k.to \in Pos
    BY DEF Kids
<1>6. \A o : has(o) => Nearest(s, o) \in Kids /\ Farthest(s, o) \in Kids
    BY <1>1, NearestIs
<1>7. \A o, k : /\ Settled(o, k).outcome = o /\ Settled(o, k).depth = k.depth + 1
                /\ Settled(o, k).best = k.to
    BY DEF Settled
<1> HIDE DEF has
<1>8. Settles(s) = CASE has("Loss") -> Settled("Win", Nearest(s, "Loss"))
          [] ~has("Loss") /\ has(NoOutcome) -> NotSettled
          [] ~has("Loss") /\ ~has(NoOutcome) /\ has("Draw") -> Settled("Draw", Farthest(s, "Draw"))
          [] OTHER -> Settled("Loss", Farthest(s, "Win"))
    BY DEF Settles, has
<1>9. CASE has("Loss")
    <2>1. found = Settled("Win", Nearest(s, "Loss"))
        BY <1>8, <1>9
    <2>2. Nearest(s, "Loss") \in Kids
        BY <1>6, <1>9
    <2>3. found.outcome = "Win" /\ found.depth \in Nat /\ found.best \in Pos
        BY <1>5, <1>7, <2>1, <2>2
    <2>4. PICK i \in DOMAIN s : s[i].outcome = "Loss"
        BY <1>2, <1>9 DEF has
    <2>5. s[i].to \in Succ[f.pos] /\ Says(proved, s[i].to, "Loss")
        BY <1>3, <2>4 DEF Decisive
    <2>6. Justified(proved, f.pos, "Win")
        BY <1>3, <2>5 DEF Justified
    <2>7. QED
        BY <2>3, <2>6 DEF Outcomes, s
<1>10. CASE ~has("Loss") /\ has(NoOutcome)
    <2>1. found = NotSettled
        BY <1>8, <1>10
    <2>2. QED
        BY <2>1 DEF NotSettled, Decisive, NoOutcome, s
<1>11. CASE ~has("Loss") /\ ~has(NoOutcome) /\ has("Draw")
    <2>1. found = Settled("Draw", Farthest(s, "Draw"))
        BY <1>8, <1>11
    <2>2. Farthest(s, "Draw") \in Kids
        BY <1>6, <1>11
    <2>3. found.outcome = "Draw" /\ found.depth \in Nat /\ found.best \in Pos
        BY <1>5, <1>7, <2>1, <2>2
    <2>4. QED
        BY <2>3 DEF Outcomes, Decisive, s
<1>12. CASE ~has("Loss") /\ ~has(NoOutcome) /\ ~has("Draw")
    <2>1. found = Settled("Loss", Farthest(s, "Win"))
        BY <1>8, <1>12
    <2>2. \A k \in Range(s) : k.outcome = "Win"
        BY <1>4, <1>12 DEF has, Outcomes
    <2>3. Range(s) # {}
        <3>1. PICK c \in Succ[f.pos] : TRUE
            BY <1>3, MovesAssumption
        <3>2. PICK i \in DOMAIN s : s[i].to = c
            BY <1>3
        <3>3. QED
            BY <1>2, <3>2
    <2>4. has("Win")
        BY <2>2, <2>3 DEF has
    <2>5. Farthest(s, "Win") \in Kids
        BY <1>6, <2>4
    <2>6. found.outcome = "Loss" /\ found.depth \in Nat /\ found.best \in Pos
        BY <1>5, <1>7, <2>1, <2>5
    <2>7. \A c \in Succ[f.pos] : Says(proved, c, "Win")
        <3> SUFFICES ASSUME NEW c \in Succ[f.pos] PROVE Says(proved, c, "Win")
            OBVIOUS
        <3>1. PICK i \in DOMAIN s : s[i].to = c
            BY <1>3
        <3>2. s[i].outcome = "Win"
            BY <1>2, <2>2
        <3>3. QED
            BY <1>3, <3>1, <3>2 DEF Decisive
    <2>8. Justified(proved, f.pos, "Loss")
        BY <1>3, <2>7 DEF Justified
    <2>9. QED
        BY <2>6, <2>8 DEF Outcomes, s
<1>13. QED
    BY <1>9, <1>10, <1>11, <1>12

(* The numbers of a node are numbers.                                      *)
LEMMA SumsNat ==
    ASSUME NEW s \in Seq(Kids), s # <<>>, NEW b
    PROVE  PnSum(s, b) \in Nat /\ DnSum(s, b) \in Nat
<1>1. Len(s) \in Nat /\ DOMAIN s = 1 .. Len(s) /\ Range(s) = {s[i] : i \in DOMAIN s} /\ 1 \in DOMAIN s
    BY DEF Range
<1>2. \A i \in DOMAIN s : s[i].pn \in Nat /\ s[i].dn \in Nat
    BY KidIs
<1>3. ASSUME NEW g \in [DOMAIN s -> Nat]
      PROVE  \E i \in DOMAIN s : (\A j \in DOMAIN s : g[i] <= g[j]) /\ \A l \in 1 .. i - 1 : ~(\A j \in DOMAIN s : g[l] <= g[j])
    <2> DEFINE S == {g[i] : i \in DOMAIN s}
               K == {i \in DOMAIN s : \A j \in DOMAIN s : g[i] <= g[j]}
    <2>1. S \subseteq Nat /\ S # {}
        BY <1>1
    <2>2. PICK m \in S : \A k \in S : m <= k
        <3> HIDE DEF S
        <3>1. QED
            BY <2>1, LeastExists
    <2>3. K # {}
        BY <2>2
    <2>4. PICK i \in K : \A l \in 1 .. i - 1 : l \notin K
        <3>1. K \in SUBSET (1 .. Len(s))
            BY <1>1
        <3> HIDE DEF K
        <3>2. QED
            BY <1>1, <2>3, <3>1, LeastIndex
    <2>5. \A l \in 1 .. i - 1 : l \in DOMAIN s
        BY <1>1, <2>4
    <2>6. QED
        BY <2>4, <2>5
<1>4. LeastOf(s, LAMBDA k : k.pn) \in Nat
    <2> DEFINE P(k) == \A x \in Range(s) : k.pn <= x.pn
               g == [i \in DOMAIN s |-> s[i].pn]
    <2>1. g \in [DOMAIN s -> Nat]
        BY <1>2
    <2>2. \A i \in DOMAIN s : P(s[i]) <=> \A j \in DOMAIN s : g[i] <= g[j]
        BY <1>1
    <2>3. PICK i \in DOMAIN s : (\A j \in DOMAIN s : g[i] <= g[j]) /\ \A l \in 1 .. i - 1 : ~(\A j \in DOMAIN s : g[l] <= g[j])
        <3> HIDE DEF g
        <3>1. QED
            BY <1>3, <2>1
    <2>4. \A l \in 1 .. i - 1 : l \in DOMAIN s
        BY <1>1, <2>3
    <2>5. P(s[i]) /\ \A l \in 1 .. i - 1 : ~P(s[l])
        <3> HIDE DEF P, g
        <3>1. QED
            BY <2>2, <2>3, <2>4
    <2> DEFINE c == CHOOSE a \in DOMAIN s : P(s[a]) /\ \A l \in 1 .. a - 1 : ~P(s[l])
    <2>6. LeastOf(s, LAMBDA k : k.pn) = s[c].pn
        BY DEF LeastOf, First
    <2>7. c \in DOMAIN s
        <3> HIDE DEF P
        <3>1. QED
            BY <2>5
    <2>8. QED
        BY <1>2, <2>6, <2>7
<1>5. LeastOf(s, LAMBDA k : k.dn) \in Nat
    <2> DEFINE P(k) == \A x \in Range(s) : k.dn <= x.dn
               g == [i \in DOMAIN s |-> s[i].dn]
    <2>1. g \in [DOMAIN s -> Nat]
        BY <1>2
    <2>2. \A i \in DOMAIN s : P(s[i]) <=> \A j \in DOMAIN s : g[i] <= g[j]
        BY <1>1
    <2>3. PICK i \in DOMAIN s : (\A j \in DOMAIN s : g[i] <= g[j]) /\ \A l \in 1 .. i - 1 : ~(\A j \in DOMAIN s : g[l] <= g[j])
        <3> HIDE DEF g
        <3>1. QED
            BY <1>3, <2>1
    <2>4. \A l \in 1 .. i - 1 : l \in DOMAIN s
        BY <1>1, <2>3
    <2>5. P(s[i]) /\ \A l \in 1 .. i - 1 : ~P(s[l])
        <3> HIDE DEF P, g
        <3>1. QED
            BY <2>2, <2>3, <2>4
    <2> DEFINE c == CHOOSE a \in DOMAIN s : P(s[a]) /\ \A l \in 1 .. a - 1 : ~P(s[l])
    <2>6. LeastOf(s, LAMBDA k : k.dn) = s[c].dn
        BY DEF LeastOf, First
    <2>7. c \in DOMAIN s
        <3> HIDE DEF P
        <3>1. QED
            BY <2>5
    <2>8. QED
        BY <1>2, <2>6, <2>7
<1>6. SumCapped(s, LAMBDA k : k.pn) \in Nat /\ SumCapped(s, LAMBDA k : k.dn) \in Nat
    BY CappedNat DEF SumCapped
<1>7. QED
    BY <1>4, <1>5, <1>6 DEF PnSum, DnSum

(* The child searched next, and the number of the one behind it.           *)
LEMMA ForemostIs ==
    ASSUME NEW s \in Seq(Kids), NEW ids \in SUBSET DOMAIN s, ids # {}, NEW b
    PROVE  Foremost(s, ids, b) \in ids
<1>1. Len(s) \in Nat /\ DOMAIN s = 1 .. Len(s)
    OBVIOUS
<1>2. \A i \in ids : i \in Nat /\ Key(s[i], b) \in Nat
    BY <1>1, KidIs DEF Key
<1> DEFINE S == {Key(s[i], b) : i \in ids}
           K == {i \in ids : \A j \in ids : Key(s[i], b) <= Key(s[j], b)}
<1>3. PICK m \in S : \A k \in S : m <= k
    <2>1. S \subseteq Nat /\ S # {}
        BY <1>2
    <2> HIDE DEF S
    <2>2. QED
        BY <2>1, LeastExists
<1>4. PICK i \in K : \A j \in K : i <= j
    <2>1. K \subseteq Nat /\ K # {}
        BY <1>2, <1>3
    <2> HIDE DEF K
    <2>2. QED
        BY <2>1, LeastExists
<1>5. \A j \in ids : Key(s[i], b) < Key(s[j], b) \/ (Key(s[i], b) = Key(s[j], b) /\ i <= j)
    <2> SUFFICES ASSUME NEW j \in ids, ~(Key(s[i], b) < Key(s[j], b))
                 PROVE  Key(s[i], b) = Key(s[j], b) /\ i <= j
        OBVIOUS
    <2>1. i \in ids /\ Key(s[i], b) <= Key(s[j], b)
        BY <1>4
    <2>2. Key(s[i], b) = Key(s[j], b)
        BY <1>2, <2>1
    <2>3. j \in K
        BY <1>4, <2>2
    <2>4. QED
        BY <1>4, <2>2, <2>3
<1>6. i \in ids
    BY <1>4
<1>7. QED
    BY <1>5, <1>6 DEF Foremost

LEMMA RunnerUpNat == ASSUME NEW s \in Seq(Kids), NEW b PROVE RunnerUp(s, b) \in Nat
<1> DEFINE rest == OpenIds(s) \ {Foremost(s, OpenIds(s), b)}
<1>1. rest \subseteq DOMAIN s
    BY DEF OpenIds
<1> HIDE DEF rest
<1>2. RunnerUp(s, b) = IF rest = {} THEN Inf ELSE Key(s[Foremost(s, rest, b)], b)
    BY DEF RunnerUp, rest
<1>3. rest # {} => Foremost(s, rest, b) \in DOMAIN s
    BY <1>1, ForemostIs
<1>4. \A i \in DOMAIN s : Key(s[i], b) \in Nat
    BY KidIs DEF Key
<1>5. QED
    BY <1>2, <1>3, <1>4, NumbersAssumption

LEMMA EpsCeilNat == \A n \in Nat : EpsCeil(n) \in Nat
BY CappedNat, NumbersAssumption DEF EpsCeil

-----------------------------------------------------------------------------
(* The calls of a replay                                                   *)

LEMMA CallIs ==
    ASSUME NEW calls \in Seq(Calls), NEW n \in 1 .. Len(calls)
    PROVE  /\ calls[n] \in Calls /\ calls[n].pos \in Pos /\ calls[n].guide \in Pos
           /\ calls[n].best \in Pos \cup {NoMove} /\ calls[n].todo \in Seq(Pos) /\ calls[n].deepest \in Nat
<1>1. calls[n] \in Calls
    OBVIOUS
<1>2. QED
    BY <1>1 DEF Calls

LEMMA CallsMore ==
    ASSUME NEW S, NEW T, S \subseteq T, NEW calls, NEW pos, NEW at, CallsOK(S, calls, pos, at)
    PROVE  CallsOK(T, calls, pos, at)
<1>1. \A x : Says(S, x, "Win") => Says(T, x, "Win")
    BY SaysMore
<1>2. QED
    BY <1>1 DEF CallsOK, CallOK

(* One call more.                                                          *)
Pushed(calls, c) == Append(calls, c)

LEMMA CallPushed ==
    ASSUME NEW S, NEW calls \in Seq(Calls), NEW pos, CallsOK(S, calls, pos, "call"),
           NEW c \in Calls, c.pos = pos, NEW more, more = Pushed(calls, c),
           NEW next, NEW at, NEW n, n = Len(more), CallOK(S, more, next, at, n)
    PROVE  /\ CallsOK(S, more, next, at)
           /\ more \in Seq(Calls) /\ Len(more) = Len(calls) + 1
           /\ Pending(more, next, 0) = Pending(calls, pos, 0)
<1>1. /\ more \in Seq(Calls) /\ Len(more) = Len(calls) + 1 /\ Len(calls) \in Nat
      /\ \A i \in 1 .. Len(calls) : more[i] = calls[i]
      /\ more[Len(calls) + 1] = c
    BY AppendProperties DEF Pushed
<1>2. CallOK(S, more, next, at, Len(calls) + 1)
    BY <1>1
<1>3. \A i \in 0 .. Len(calls) : Pending(more, next, i) = Pending(calls, pos, i)
    <2> SUFFICES ASSUME NEW i \in 0 .. Len(calls) PROVE Pending(more, next, i) = Pending(calls, pos, i)
        OBVIOUS
    <2>1. CASE i < Len(calls)
        <3>1. i + 1 \in 1 .. Len(calls) /\ i < Len(more)
            BY <1>1, <2>1
        <3>2. QED
            BY <1>1, <2>1, <3>1 DEF Pending
    <2>2. CASE i = Len(calls)
        BY <1>1, <2>2 DEF Pending
    <2>3. QED
        BY <1>1, <2>1, <2>2
<1>4. ASSUME NEW i \in 1 .. Len(calls)
      PROVE  CallOK(S, more, next, at, i)
    <2>1. CallOK(S, calls, pos, "call", i)
        BY DEF CallsOK
    <2>2. more[i] = calls[i] /\ Pending(more, next, i) = Pending(calls, pos, i)
        BY <1>1, <1>3
    <2>3. QED
        BY <2>1, <2>2 DEF CallOK
<1>5. \A i \in 1 .. Len(more) : i \in 1 .. Len(calls) \/ i = Len(calls) + 1
    BY <1>1
<1>6. CallsOK(S, more, next, at)
    BY <1>2, <1>4, <1>5 DEF CallsOK
<1>7. QED
    BY <1>1, <1>3, <1>6

(* The last call returns to the one before it.                             *)
LEMMA CallPopped ==
    ASSUME NEW S, NEW calls \in Seq(Calls), NEW pos, NEW at, CallsOK(S, calls, pos, at), calls # <<>>, NEW then
    PROVE  /\ CallsOK(S, Front(calls), calls[Len(calls)].pos, then)
           /\ Front(calls) \in Seq(Calls) /\ Len(Front(calls)) = Len(calls) - 1
           /\ Pending(Front(calls), calls[Len(calls)].pos, 0) = Pending(calls, pos, 0)
<1> DEFINE less == Front(calls)
           back == calls[Len(calls)].pos
<1>1. Len(calls) \in Nat /\ Len(calls) >= 1
    BY EmptySeq
<1>2. \A i \in 1 .. Len(calls) - 1 : calls[i] \in Calls
    OBVIOUS
<1>3. /\ less \in Seq(Calls) /\ Len(less) = Len(calls) - 1
      /\ \A i \in 1 .. Len(calls) - 1 : less[i] = calls[i]
    <2>1. /\ SubSeq(calls, 1, Len(calls) - 1) \in Seq(Calls)
          /\ Len(SubSeq(calls, 1, Len(calls) - 1)) = IF 1 <= Len(calls) - 1 THEN (Len(calls) - 1) - 1 + 1 ELSE 0
          /\ \A i \in 1 .. (Len(calls) - 1) - 1 + 1 : SubSeq(calls, 1, Len(calls) - 1)[i] = calls[1 + i - 1]
        BY <1>1, <1>2, SubSeqProperties
    <2>2. /\ (IF 1 <= Len(calls) - 1 THEN (Len(calls) - 1) - 1 + 1 ELSE 0) = Len(calls) - 1
          /\ (Len(calls) - 1) - 1 + 1 = Len(calls) - 1
          /\ \A i \in 1 .. Len(calls) - 1 : 1 + i - 1 = i
        <3> DEFINE l == Len(calls)
        <3> HIDE DEF l
        <3>1. l \in Nat /\ l >= 1
            BY <1>1 DEF l
        <3>2. (IF 1 <= l - 1 THEN (l - 1) - 1 + 1 ELSE 0) = l - 1
            BY <3>1
        <3>3. (l - 1) - 1 + 1 = l - 1
            BY <3>1
        <3>4. \A i \in 1 .. l - 1 : 1 + i - 1 = i
            BY <3>1
        <3>5. QED
            BY <3>2, <3>3, <3>4 DEF l
    <2>3. less = SubSeq(calls, 1, Len(calls) - 1)
        BY DEF Front
    <2> HIDE DEF less
    <2>4. QED
        BY <2>1, <2>2, <2>3
<1> HIDE DEF less
<1>4. \A n \in 0 .. Len(less) : Pending(less, back, n) = Pending(calls, pos, n)
    <2> SUFFICES ASSUME NEW n \in 0 .. Len(less) PROVE Pending(less, back, n) = Pending(calls, pos, n)
        OBVIOUS
    <2>1. CASE n < Len(less)
        <3>1. n + 1 \in 1 .. Len(calls) - 1 /\ n < Len(calls)
            BY <1>1, <1>3, <2>1
        <3>2. QED
            BY <1>3, <2>1, <3>1 DEF Pending
    <2>2. CASE n = Len(less)
        <3>1. n < Len(calls) /\ n + 1 = Len(calls)
            BY <1>1, <1>3, <2>2
        <3>2. QED
            BY <2>2, <3>1 DEF Pending
    <2>3. QED
        BY <1>1, <1>3, <2>1, <2>2
<1>5. ASSUME NEW n \in 1 .. Len(less)
      PROVE  CallOK(S, less, back, then, n)
    <2>1. n \in 1 .. Len(calls) /\ n < Len(calls) /\ n \in 0 .. Len(less)
        BY <1>1, <1>3
    <2>2. CallOK(S, calls, pos, at, n)
        BY <2>1 DEF CallsOK
    <2>3. less[n] = calls[n] /\ Pending(less, back, n) = Pending(calls, pos, n)
        BY <1>1, <1>3, <1>4, <2>1
    <2>4. QED
        BY <2>1, <2>2, <2>3 DEF CallOK
<1>6. CallsOK(S, less, back, then)
    BY <1>5 DEF CallsOK
<1>7. QED
    BY <1>1, <1>3, <1>4, <1>6 DEF less

(* The first of the replies left is answered.                              *)
LEMMA CallAnswered ==
    ASSUME NEW S, NEW calls \in Seq(Calls), NEW pos, NEW at, CallsOK(S, calls, pos, at),
           calls # <<>>, Len(calls) % 2 = 0, NEW depth \in Nat, NEW next,
           calls[Len(calls)].todo # <<>>, Says(S, Head(calls[Len(calls)].todo), "Win")
    PROVE  /\ CallsOK(S, Answered(calls, depth), next, "reply")
           /\ Answered(calls, depth) \in Seq(Calls) /\ Len(Answered(calls, depth)) = Len(calls)
           /\ Pending(Answered(calls, depth), next, 0) = Pending(calls, pos, 0)
<1> DEFINE l == Len(calls)
           c == calls[l]
           d == [c EXCEPT !.todo = Tail(@), !.deepest = IF depth > @ THEN depth ELSE @]
           done == [calls EXCEPT ![l] = d]
<1>1. l \in Nat /\ l >= 1 /\ l \in 1 .. Len(calls)
    BY EmptySeq
<1>2. Answered(calls, depth) = done
    BY CallIs, <1>1 DEF Answered, Calls
<1>3. c \in Calls /\ c.todo \in Seq(Pos) /\ c.todo # <<>> /\ c.deepest \in Nat
    BY <1>1, CallIs
<1>4. Tail(c.todo) \in Seq(Pos) /\ Range(c.todo) = {Head(c.todo)} \cup Range(Tail(c.todo))
    <2> DEFINE t == c.todo
    <2>1. /\ t \in Seq(Pos) /\ t # <<>> /\ Tail(t) \in Seq(Pos) /\ Len(Tail(t)) = Len(t) - 1
          /\ \A i \in 1 .. Len(Tail(t)) : Tail(t)[i] = t[i + 1]
        BY <1>3, HeadTailProperties
    <2> HIDE DEF t
    <2>2. /\ Len(t) \in Nat /\ Len(t) >= 1 /\ DOMAIN t = 1 .. Len(t)
          /\ DOMAIN Tail(t) = 1 .. Len(t) - 1 /\ Head(t) = t[1]
        BY <2>1, EmptySeq
    <2>3. ASSUME NEW x \in Range(t)
          PROVE  x \in {Head(t)} \cup Range(Tail(t))
        <3>1. PICK i \in 1 .. Len(t) : x = t[i]
            BY <2>2 DEF Range
        <3>2. i # 1 => i - 1 \in 1 .. Len(t) - 1 /\ Tail(t)[i - 1] = t[i]
            <4>1. i # 1 => i - 1 \in 1 .. Len(t) - 1 /\ (i - 1) + 1 = i
                BY <2>2
            <4>2. QED
                BY <2>1, <4>1
        <3>3. QED
            BY <2>2, <3>1, <3>2 DEF Range
    <2>4. ASSUME NEW x \in {Head(t)} \cup Range(Tail(t))
          PROVE  x \in Range(t)
        <3>1. CASE x = Head(t)
            BY <2>2, <3>1 DEF Range
        <3>2. CASE x \in Range(Tail(t))
            <4>1. PICK i \in 1 .. Len(t) - 1 : x = Tail(t)[i]
                BY <2>2, <3>2 DEF Range
            <4>2. i + 1 \in 1 .. Len(t) /\ x = t[i + 1]
                BY <2>1, <2>2, <4>1
            <4>3. QED
                BY <2>2, <4>2 DEF Range
        <3>3. QED
            BY <3>1, <3>2
    <2>5. QED
        BY <2>1, <2>3, <2>4 DEF t
<1>5. d \in Calls /\ d.pos = c.pos /\ d.todo = Tail(c.todo)
    BY <1>3, <1>4 DEF Calls
<1> HIDE DEF d
<1>6. /\ done \in Seq(Calls) /\ Len(done) = l
      /\ \A i \in 1 .. l : done[i] = IF i = l THEN d ELSE calls[i]
    BY <1>1, <1>5, ExceptSeq
<1> HIDE DEF done
<1>7. \A n \in 0 .. l - 1 : Pending(done, next, n) = Pending(calls, pos, n)
    <2> SUFFICES ASSUME NEW n \in 0 .. l - 1 PROVE Pending(done, next, n) = Pending(calls, pos, n)
        OBVIOUS
    <2>1. n + 1 \in 1 .. l /\ n < l
        BY <1>1
    <2>2. done[n + 1].pos = calls[n + 1].pos
        BY <1>5, <1>6, <2>1
    <2>3. QED
        BY <1>6, <2>1, <2>2 DEF Pending
<1>8. ASSUME NEW n \in 1 .. l
      PROVE  CallOK(S, done, next, "reply", n)
    <2>1. CallOK(S, calls, pos, at, n)
        BY DEF CallsOK
    <2>2. CASE n < l
        <3>1. done[n] = calls[n] /\ Pending(done, next, n) = Pending(calls, pos, n)
            BY <1>1, <1>6, <1>7, <2>2
        <3>2. QED
            BY <1>6, <2>1, <2>2, <3>1 DEF CallOK
    <2>3. CASE n = l
        <3>1. done[n] = d /\ ~(n < Len(done)) /\ n % 2 = 0 /\ ~(n % 2 = 1)
            BY <1>1, <1>6, <2>3
        <3>2. /\ Static[c.pos] = NoOutcome
              /\ \A x \in Succ[c.pos] : x \in Range(c.todo) \/ Says(S, x, "Win")
              /\ Range(c.todo) \subseteq Succ[c.pos]
            BY <2>1, <2>3, <3>1 DEF CallOK
        <3>3. \A x \in Range(c.todo) : x \in Range(d.todo) \/ Says(S, x, "Win")
            BY <1>4, <1>5
        <3>4. QED
            BY <1>4, <1>5, <3>1, <3>2, <3>3 DEF CallOK
    <2>4. QED
        BY <1>1, <2>2, <2>3
<1>9. CallsOK(S, done, next, "reply")
    BY <1>6, <1>8 DEF CallsOK
<1>10. QED
    BY <1>1, <1>2, <1>6, <1>7, <1>9

(* The first of the replies left is called.                                *)
LEMMA CallAsks ==
    ASSUME NEW S, NEW calls \in Seq(Calls), NEW pos, CallsOK(S, calls, pos, "reply"),
           calls # <<>>, Len(calls) % 2 = 0, calls[Len(calls)].todo # <<>>
    PROVE  /\ CallsOK(S, calls, Head(calls[Len(calls)].todo), "call")
           /\ Pending(calls, Head(calls[Len(calls)].todo), 0) = Pending(calls, pos, 0)
<1> DEFINE next == Head(calls[Len(calls)].todo)
<1>1. Len(calls) \in Nat /\ Len(calls) >= 1
    BY EmptySeq
<1> HIDE DEF next
<1>2. \A n \in 0 .. Len(calls) - 1 : Pending(calls, next, n) = Pending(calls, pos, n)
    BY <1>1 DEF Pending
<1>3. ASSUME NEW n \in 1 .. Len(calls)
      PROVE  CallOK(S, calls, next, "call", n)
    <2>1. CallOK(S, calls, pos, "reply", n)
        BY DEF CallsOK
    <2>2. CASE n < Len(calls)
        <3>1. Pending(calls, next, n) = Pending(calls, pos, n)
            BY <1>1, <1>2, <2>2
        <3>2. QED
            BY <2>1, <2>2, <3>1 DEF CallOK
    <2>3. CASE n = Len(calls)
        <3>1. Pending(calls, next, n) = next /\ n % 2 = 0 /\ ~(n % 2 = 1)
            BY <1>1, <2>3 DEF Pending
        <3>2. calls[n].todo # <<>> /\ Head(calls[n].todo) = next
            BY <2>3 DEF next
        <3>3. QED
            BY <2>1, <3>1, <3>2 DEF CallOK
    <2>4. QED
        BY <1>1, <2>2, <2>3
<1>4. QED
    BY <1>1, <1>2, <1>3 DEF CallsOK, next

-----------------------------------------------------------------------------
(* The replays keep the invariant                                          *)

LEMMA FrameMore ==
    ASSUME NEW S, NEW T, S \subseteq T, NEW f, FrameOK(S, f)
    PROVE  FrameOK(T, f)
<1>1. \A p, o : Says(S, p, o) => Says(T, p, o)
    BY SaysMore
<1>2. QED
    BY <1>1 DEF FrameOK

LEMMA TopIs ==
    ASSUME ProverInv, frames # <<>>
    PROVE  /\ Len(frames) \in Nat /\ Len(frames) >= 1 /\ Len(frames) \in 1 .. Len(frames)
           /\ Top = frames[Len(frames)]
           /\ Top \in Frames /\ Top.pos \in Pos /\ Top.kids \in Seq(Kids) /\ Top.kids # <<>>
           /\ Top.thPn \in Nat /\ Top.thDn \in Nat /\ Top.at \in Nat
           /\ Top.best \in Pos \cup {NoMove} /\ Top.pn \in Nat /\ Top.dn \in Nat
           /\ FrameOK(proved, Top)
<1>1. frames \in Seq(Frames)
    BY DEF ProverInv, ProverTypes
<1>2. Len(frames) \in Nat /\ Len(frames) >= 1 /\ Len(frames) \in 1 .. Len(frames)
    BY <1>1, EmptySeq
<1>3. Top = frames[Len(frames)] /\ Top \in Frames
    BY <1>1, <1>2 DEF Top
<1>4. FrameOK(proved, Top)
    BY <1>1, <1>2, <1>3 DEF ProverInv, StackOK, Stacked
<1>5. Top.pos \in Pos /\ Top.kids \in Seq(Kids)
    BY <1>3 DEF Frames
<1>6. Top.kids # <<>>
    <2>1. PICK c \in Succ[Top.pos] : TRUE
        BY <1>4, <1>5, MovesAssumption DEF FrameOK
    <2>2. PICK i \in DOMAIN Top.kids : Top.kids[i].to = c
        BY <1>4 DEF FrameOK
    <2>3. QED
        BY <2>2
<1>7. QED
    BY <1>2, <1>3, <1>4, <1>5, <1>6 DEF Frames

LEMMA TrialIs ==
    ASSUME ProverInv
    PROVE  /\ trial.kid \in Nat /\ trial.left \in Nat /\ trial.calls \in Seq(Calls)
           /\ trial.pos \in Pos \cup {NoMove} /\ trial.guide \in Pos \cup {NoMove}
           /\ trial.depth \in Nat /\ trial.best \in Pos \cup {NoMove}
           /\ trial \in Trials /\ Len(trial.calls) \in Nat
<1>1. trial \in Trials
    BY DEF ProverInv, ProverTypes
<1>2. QED
    BY <1>1 DEF Trials

(* What is enough for a step inside a replay.                              *)
LEMMA WithinReplay ==
    ASSUME ProverInv, Replaying, UNCHANGED aroundReplay,
           spent' \in Nat, trial' \in Trials, step' \in {"call", "reply", "answered", "replay"},
           proved \subseteq proved', Grounded(proved'), TrialOK'
    PROVE  ProverInv'
<1> USE DEF ProverInv
<1>1. /\ tt' = tt /\ frames' = frames /\ call' = call /\ cap' = cap /\ answer' = answer /\ claim' = claim
      /\ root' = root /\ upward' = upward /\ late' = late /\ Top' = Top
    BY DEF aroundReplay, Top
<1>2. ProverTypes'
    BY <1>1 DEF ProverTypes, Steps
<1>3. TableSaid'
    BY <1>1, SaysMore DEF TableSaid
<1>4. StackOK'
    <2>1. \A i \in DOMAIN frames : FrameOK(proved', frames[i])
        BY FrameMore DEF StackOK, Stacked
    <2>2. QED
        BY <1>1, <2>1 DEF StackOK, Stacked
<1>5. ControlOK'
    <2>1. frames # <<>> /\ Calling(Top) /\ frames[1].pos = root
        BY DEF ControlOK, Replaying
    <2>2. QED
        BY <1>1, <2>1 DEF ControlOK
<1>6. ClaimOK'
    <2>1. claim = <<>>
        BY DEF ClaimOK, Replaying
    <2>2. QED
        BY <1>1, <2>1 DEF ClaimOK
<1>7. QED
    BY <1>2, <1>3, <1>4, <1>5, <1>6

LEMMA GaveUp ==
    ASSUME ProverInv, Replaying, UNCHANGED aroundReplay, UNCHANGED proved, NEW n \in Nat, GiveUp(n)
    PROVE  ProverInv'
<1>1. step' = "replay" /\ trial' = NoTrial /\ spent' = spent + n
    BY DEF GiveUp
<1>2. NoTrial \in Trials
    BY EmptySeq DEF NoTrial, Trials
<1>3. spent' \in Nat
    BY <1>1 DEF ProverInv, ProverTypes
<1>4. TrialOK'
    BY <1>1 DEF TrialOK, Replaying
<1>5. Grounded(proved')
    BY DEF ProverInv
<1>6. QED
    BY <1>1, <1>2, <1>3, <1>4, <1>5, WithinReplay

(* What a position already known is worth is reported, or plain to see.    *)
LEMMA KnownIs ==
    ASSUME ProverInv, NEW p \in Pos
    PROVE  /\ KnownTo(p).depth \in Nat /\ KnownTo(p).best \in Pos \cup {NoMove}
           /\ KnownTo(p).outcome \in Outcomes \cup {NoOutcome}
           /\ KnownTo(p).outcome = NoOutcome => Static[p] = NoOutcome
           /\ KnownTo(p).outcome \in Decisive =>
                 Static[p] = KnownTo(p).outcome \/ Says(proved, p, KnownTo(p).outcome)
<1> DEFINE e == Probe(p)
           k == KnownTo(p)
<1>1. /\ e.best \in Pos \cup {NoMove} /\ e.depth \in Nat
      /\ e.outcome \in Decisive => Says(proved, p, e.outcome)
    BY ProbeIs DEF ProverInv
<1>2. Static[p] \in Outcomes \cup {NoOutcome}
    BY MovesAssumption
<1>3. Decisive \subseteq Outcomes /\ NoOutcome \notin Outcomes /\ "Draw" \in Outcomes \ Decisive
    BY DEF Decisive, Outcomes, NoOutcome
<1> HIDE DEF e
<1>4. CASE Static[p] # NoOutcome
    <2>1. k = [outcome |-> Static[p], depth |-> 0, best |-> NoMove]
        BY <1>4 DEF KnownTo
    <2>2. QED
        BY <1>2, <1>4, <2>1
<1>5. CASE Static[p] = NoOutcome /\ Board[p] \in Path \cup Line
    <2>1. k = [outcome |-> "Draw", depth |-> 0, best |-> NoMove]
        BY <1>5 DEF KnownTo
    <2>2. QED
        BY <1>3, <2>1
<1>6. CASE Static[p] = NoOutcome /\ Board[p] \notin Path \cup Line /\ e.outcome \in Decisive
    <2>1. k = [outcome |-> e.outcome, depth |-> e.depth, best |-> e.best]
        BY <1>6 DEF KnownTo, e
    <2>2. QED
        BY <1>1, <1>3, <1>6, <2>1
<1>7. CASE Static[p] = NoOutcome /\ Board[p] \notin Path \cup Line /\ e.outcome \notin Decisive
    <2>1. k = [outcome |-> NoOutcome, depth |-> 0, best |-> NoMove]
        BY <1>7 DEF KnownTo, e
    <2>2. QED
        BY <1>3, <1>7, <2>1
<1>8. QED
    BY <1>4, <1>5, <1>6, <1>7

(* A mate is a move, and a scan costs no more than the moves.              *)
LEMMA MateIs ==
    ASSUME NEW p \in Pos, NEW left \in Nat
    PROVE  /\ Mate(p, left) # NoMove => /\ Mate(p, left) \in Succ[p] /\ Static[Mate(p, left)] = "Loss"
                                        /\ left # 0
           /\ Tried(p, left) \in 0 .. MaxMoves
           /\ left = 0 => Tried(p, left) = 0
<1> DEFINE s == Ordered(p)
           W == Wins(p)
           m == CHOOSE i \in W : \A j \in W : i <= j
<1>1. s \in Seq(Pos) /\ Len(s) = Len(ByLabel[p]) /\ {s[i] : i \in DOMAIN s} = Succ[p]
    BY OrderedLists DEF Lists
<1>2. Len(s) \in Nat /\ DOMAIN s = 1 .. Len(s) /\ Len(s) <= MaxMoves /\ MaxMoves \in Nat
    BY <1>1, StagesAssumption
<1>3. W = {i \in DOMAIN s : Static[s[i]] = "Loss"}
    BY DEF Wins
<1>4. W # {} => m \in W
    <2>1. W \subseteq Nat
        BY <1>2, <1>3
    <2> HIDE DEF W
    <2>2. QED
        BY <2>1, LeastExists
<1>5. Mate(p, left) = IF left = 0 \/ W = {} THEN NoMove ELSE s[m]
    BY DEF Mate
<1>6. Tried(p, left) = CASE left = 0 -> 0 [] left # 0 /\ W = {} -> Len(s) [] OTHER -> m
    BY DEF Tried
<1> HIDE DEF s, W, m
<1>7. W # {} => m \in 1 .. Len(s) /\ s[m] \in Succ[p] /\ Static[s[m]] = "Loss"
    BY <1>1, <1>2, <1>3, <1>4
<1>8. Mate(p, left) # NoMove => left # 0 /\ W # {} /\ Mate(p, left) = s[m]
    BY <1>5
<1>9. CASE left = 0
    BY <1>2, <1>6, <1>8, <1>9
<1>10. CASE left # 0 /\ W = {}
    <2>1. Tried(p, left) = Len(s)
        BY <1>6, <1>10
    <2>2. QED
        BY <1>2, <1>8, <1>10, <2>1
<1>11. CASE left # 0 /\ W # {}
    <2>1. Tried(p, left) = m
        BY <1>6, <1>11
    <2>2. QED
        BY <1>2, <1>7, <1>8, <1>11, <2>1
<1>12. QED
    BY <1>9, <1>10, <1>11

LEMMA PlayIs ==
    ASSUME NEW p, NEW m, Playable(p, m)
    PROVE  Play(p, m) \in Succ[p]
BY DEF Playable, Play

LEMMA ReplayFacts ==
    ASSUME ProverInv, Replaying
    PROVE  /\ trial.pos \in Pos /\ trial.guide \in Pos
           /\ trial.kid \in DOMAIN Top.kids /\ Top.kids[trial.kid].to = Pending(trial.calls, trial.pos, 0)
           /\ CallsOK(proved, trial.calls, trial.pos, step)
           /\ step = "reply" => Len(trial.calls) % 2 = 0 /\ trial.calls # <<>>
           /\ step = "answered" => Says(proved, trial.pos, Wanted)
           /\ spent \in Nat /\ Grounded(proved)
BY DEF ProverInv, TrialOK, ProverTypes

LEMMA Parity ==
    ASSUME NEW n \in Nat
    PROVE  /\ n % 2 \in {0, 1} /\ (n + 1) % 2 \in {0, 1}
           /\ (n + 1) % 2 = 1 <=> n % 2 = 0
<1>1. PICK q \in Nat : n = 2 * q \/ n = 2 * q + 1
    <2>1. n \div 2 \in Nat /\ n % 2 \in {0, 1} /\ n = 2 * (n \div 2) + (n % 2)
        OBVIOUS
    <2>2. QED
        BY <2>1
<1>2. CASE n = 2 * q
    BY <1>1, <1>2
<1>3. CASE n = 2 * q + 1
    <2>1. n % 2 = 1 /\ n + 1 = 2 * (q + 1) /\ (2 * (q + 1)) % 2 = 0
        BY <1>3
    <2>2. QED
        BY <2>1
<1>4. QED
    BY <1>1, <1>2, <1>3

LEMMA WantedIs ==
    ASSUME Len(trial.calls) \in Nat
    PROVE  /\ Wanted \in Decisive
           /\ Wanted = "Win" => Len(trial.calls) % 2 = 0 /\ (Len(trial.calls) + 1) % 2 = 1
           /\ Wanted = "Loss" => Len(trial.calls) % 2 = 1 /\ (Len(trial.calls) + 1) % 2 = 0
<1> DEFINE n == Len(trial.calls)
<1> HIDE DEF n
<1>1. /\ n % 2 \in {0, 1} /\ (n + 1) % 2 \in {0, 1}
      /\ (n + 1) % 2 = 1 <=> n % 2 = 0
    BY Parity DEF n
<1>2. Wanted = IF (n + 1) % 2 = 1 THEN "Win" ELSE "Loss"
    BY DEF Wanted, IsOr, n
<1>3. CASE (n + 1) % 2 = 1
    BY <1>1, <1>2, <1>3 DEF Decisive, n
<1>4. CASE (n + 1) % 2 = 0
    BY <1>1, <1>2, <1>4 DEF Decisive, n
<1>5. QED
    BY <1>1, <1>3, <1>4

LEMMA CallKnownKeeps == ASSUME ProverInv, CallKnown PROVE ProverInv'
<1> DEFINE known == KnownTo(trial.pos)
<1>1. /\ step = "call" /\ known.outcome = Wanted
      /\ proved' = proved \cup {<<trial.pos, Wanted, known.depth>>}
      /\ trial' = [trial EXCEPT !.depth = known.depth, !.best = known.best]
      /\ step' = "answered" /\ spent' = spent /\ UNCHANGED aroundReplay
    BY DEF CallKnown
<1>2. Replaying
    BY <1>1 DEF Replaying
<1>3. trial.pos \in Pos /\ Len(trial.calls) \in Nat /\ trial \in Trials
    BY <1>2, ReplayFacts, TrialIs
<1>4. known.depth \in Nat /\ known.best \in Pos \cup {NoMove} /\ Wanted \in Decisive
      /\ (Static[trial.pos] = Wanted \/ Says(proved, trial.pos, Wanted))
    BY <1>1, <1>3, KnownIs, WantedIs
<1> HIDE DEF known
<1>5. Grounded(proved') /\ Says(proved', trial.pos, Wanted)
    <2>1. Says(proved, trial.pos, Wanted) \/ Justified(proved, trial.pos, Wanted)
        BY <1>4 DEF Justified
    <2>2. QED
        BY <1>1, <1>2, <1>3, <1>4, <2>1, GroundedOne, ReplayFacts
<1>6. /\ trial' \in Trials /\ trial'.pos = trial.pos /\ trial'.guide = trial.guide
      /\ trial'.calls = trial.calls /\ trial'.kid = trial.kid
    BY <1>1, <1>3, <1>4 DEF Trials
<1>7. TrialOK'
    <2>1. Top' = Top /\ Wanted' = Wanted
        BY <1>1, <1>6 DEF aroundReplay, Top, Wanted
    <2>2. CallsOK(proved', trial.calls, trial.pos, step)
        BY <1>1, <1>2, ReplayFacts, CallsMore
    <2>3. CallsOK(proved', trial.calls, trial.pos, "answered")
        BY <1>1, <2>2 DEF CallsOK, CallOK
    <2>4. QED
        BY <1>1, <1>2, <1>5, <1>6, <2>1, <2>3, ReplayFacts DEF TrialOK
<1>8. spent' \in Nat
    BY <1>1, <1>2, ReplayFacts
<1>9. QED
    BY <1>1, <1>2, <1>5, <1>6, <1>7, <1>8, WithinReplay

LEMMA CallFailsKeeps == ASSUME ProverInv, CallFails PROVE ProverInv'
<1>1. Replaying /\ GiveUp(0) /\ UNCHANGED proved /\ UNCHANGED aroundReplay
    BY DEF CallFails, Replaying
<1>2. QED
    BY <1>1, GaveUp

LEMMA AttackLostKeeps == ASSUME ProverInv, AttackLost PROVE ProverInv'
<1>1. Replaying /\ GiveUp(1) /\ UNCHANGED proved /\ UNCHANGED aroundReplay
    BY DEF AttackLost, CallOpen, Replaying
<1>2. QED
    BY <1>1, GaveUp

LEMMA ReplyFailsKeeps == ASSUME ProverInv, ReplyFails PROVE ProverInv'
<1>1. Replaying /\ GiveUp(0) /\ UNCHANGED proved /\ UNCHANGED aroundReplay
    BY DEF ReplyFails, Replaying
<1>2. QED
    BY <1>1, GaveUp

(* The guide's move is one of the table's, and a position.                 *)
LEMMA GuideMoveIs ==
    ASSUME ProverInv, NEW g \in Pos
    PROVE  GuideMove(g) # NoMove => GuideMove(g) \in Pos
BY ProbeIs DEF ProverInv, GuideMove

LEMMA CallOpenIs ==
    ASSUME ProverInv, NEW w, CallOpen(w)
    PROVE  /\ step = "call" /\ Wanted = w /\ Replaying /\ trial.pos \in Pos
           /\ Static[trial.pos] = NoOutcome /\ trial.left \in Nat \ {0} /\ ~Stop(spent)
<1>1. step = "call" /\ Wanted = w /\ KnownTo(trial.pos).outcome = NoOutcome /\ trial.left > 0 /\ ~Stop(spent)
    BY DEF CallOpen
<1>2. Replaying
    BY <1>1 DEF Replaying
<1>3. QED
    BY <1>1, <1>2, ReplayFacts, KnownIs, TrialIs

LEMMA AttackFollowKeeps == ASSUME ProverInv, AttackFollow PROVE ProverInv'
<1> DEFINE move == GuideMove(trial.guide)
           to == Play(trial.pos, Label[move])
           c == Call(to, <<>>)
<1>1. /\ CallOpen("Win") /\ move # NoMove /\ Playable(trial.pos, Label[move])
      /\ trial' = [trial EXCEPT !.left = @ - 1, !.pos = to, !.guide = move, !.calls = Append(@, c)]
      /\ spent' = spent + 1 /\ step' = step /\ proved' = proved /\ UNCHANGED aroundReplay
    BY DEF AttackFollow
<1>2. /\ step = "call" /\ Wanted = "Win" /\ Replaying /\ trial.pos \in Pos
      /\ Static[trial.pos] = NoOutcome /\ trial.left \in Nat \ {0}
    BY <1>1, CallOpenIs
<1>3. /\ trial \in Trials /\ trial.calls \in Seq(Calls) /\ Len(trial.calls) \in Nat
      /\ CallsOK(proved, trial.calls, trial.pos, step) /\ trial.guide \in Pos
    BY <1>2, ReplayFacts, TrialIs
<1>4. move \in Pos
    BY <1>1, <1>3, GuideMoveIs
<1>5. to \in Succ[trial.pos] /\ to \in Pos
    BY <1>1, <1>2, PlayIs, SuccPos
<1> HIDE DEF move, to
<1>6. c \in Calls /\ c.pos = trial.pos /\ c.best = to
    BY <1>2, <1>3, <1>5, EmptySeq DEF Call, Calls
<1> HIDE DEF c
<1>7. (Len(trial.calls) + 1) % 2 = 1 /\ ~((Len(trial.calls) + 1) % 2 = 0)
    <2> DEFINE n == Len(trial.calls) + 1
    <2>0. n % 2 = 1
        BY <1>2, <1>3, WantedIs
    <2>1. n \in Nat
        BY <1>3
    <2> HIDE DEF n
    <2>2. ~(n % 2 = 0)
        BY <2>0, <2>1
    <2>3. QED
        BY <2>0, <2>2 DEF n
<1>8. /\ CallsOK(proved, Append(trial.calls, c), to, "call") /\ Append(trial.calls, c) \in Seq(Calls)
      /\ Pending(Append(trial.calls, c), to, 0) = Pending(trial.calls, trial.pos, 0)
    <2> DEFINE more == Append(trial.calls, c)
    <2>1. more[Len(trial.calls) + 1] = c /\ Len(more) = Len(trial.calls) + 1
        BY <1>3, <1>6, AppendProperties
    <2> HIDE DEF more
    <2>2. Pending(more, to, Len(trial.calls) + 1) = to
        BY <1>3, <2>1 DEF Pending
    <2> DEFINE n == Len(trial.calls) + 1
    <2>n. n % 2 = 1 /\ ~(n % 2 = 0) /\ n = Len(more)
        BY <1>7, <2>1
    <2> HIDE DEF n
    <2>3. CallOK(proved, more, to, "call", n)
        BY <1>2, <1>5, <1>6, <2>n, <2>1, <2>2 DEF CallOK, n
    <2>4. CallsOK(proved, trial.calls, trial.pos, "call")
        BY <1>2, <1>3
    <2>5. QED
        <3>1. more = Append(trial.calls, c)
            BY DEF more
        <3>2. /\ CallsOK(proved, more, to, "call") /\ more \in Seq(Calls)
              /\ Pending(more, to, 0) = Pending(trial.calls, trial.pos, 0)
            <4> DEFINE calls == trial.calls
                       pos == trial.pos
            <4>1. calls \in Seq(Calls) /\ CallsOK(proved, calls, pos, "call") /\ more = Pushed(calls, c) /\ c.pos = pos
                BY <1>3, <1>6, <2>4, <3>1 DEF Pushed
            <4> HIDE DEF calls, pos
            <4>2. /\ CallsOK(proved, more, to, "call") /\ more \in Seq(Calls)
                  /\ Pending(more, to, 0) = Pending(calls, pos, 0)
                BY <1>6, <2>n, <2>3, <4>1, CallPushed
            <4>3. QED
                BY <4>2 DEF calls, pos
        <3>3. QED
            BY <3>1, <3>2
<1>9. /\ trial' \in Trials /\ trial'.pos = to /\ trial'.guide = move /\ trial'.kid = trial.kid
      /\ trial'.calls = Append(trial.calls, c)
    <2>1. trial.left - 1 \in Nat
        BY <1>2
    <2>2. QED
        BY <1>1, <1>3, <1>4, <1>5, <1>8, <2>1 DEF Trials
<1>10. TrialOK'
    <2>1. Top' = Top
        BY <1>1 DEF aroundReplay, Top
    <2>2. QED
        BY <1>1, <1>2, <1>4, <1>5, <1>8, <1>9, <2>1, ReplayFacts DEF TrialOK
<1>11. spent' \in Nat /\ Grounded(proved')
    BY <1>1, <1>2, ReplayFacts
<1>12. QED
    BY <1>1, <1>2, <1>9, <1>10, <1>11, WithinReplay

LEMMA AttackMateKeeps == ASSUME ProverInv, AttackMate PROVE ProverInv'
<1> DEFINE end == Mate(trial.pos, trial.left - 1)
           n == 1 + Tried(trial.pos, trial.left - 1)
<1>1. /\ CallOpen("Win") /\ UNCHANGED aroundReplay
      /\ IF end = NoMove THEN GiveUp(n) /\ UNCHANGED proved
           ELSE /\ proved' = proved \cup MateEvents(trial.pos, end)
                /\ trial' = [trial EXCEPT !.left = @ - 2, !.depth = 1, !.best = end]
                /\ spent' = spent + n /\ step' = "answered"
    BY DEF AttackMate
<1>2. /\ step = "call" /\ Wanted = "Win" /\ Replaying /\ trial.pos \in Pos
      /\ Static[trial.pos] = NoOutcome /\ trial.left \in Nat \ {0}
    BY <1>1, CallOpenIs
<1>3. trial.left - 1 \in Nat
    BY <1>2
<1>4. /\ n \in Nat
      /\ end # NoMove => end \in Succ[trial.pos] /\ Static[end] = "Loss" /\ trial.left - 1 # 0
    <2>1. Tried(trial.pos, trial.left - 1) \in Nat
        BY <1>2, <1>3, MateIs, StagesAssumption
    <2>2. QED
        BY <1>2, <1>3, <2>1, MateIs
<1>5. trial \in Trials /\ spent \in Nat /\ Grounded(proved)
    BY <1>2, ReplayFacts, TrialIs
<1> HIDE DEF end, n
<1>6. CASE end = NoMove
    BY <1>1, <1>2, <1>4, <1>6, GaveUp
<1>7. CASE end # NoMove
    <2>1. Grounded(proved') /\ Says(proved', trial.pos, "Win") /\ proved \subseteq proved'
        BY <1>1, <1>2, <1>4, <1>5, <1>7, GroundedMate
    <2>2. end \in Pos /\ trial.left - 2 \in Nat
        BY <1>2, <1>4, <1>7, SuccPos
    <2>3. /\ trial' \in Trials /\ trial'.pos = trial.pos /\ trial'.guide = trial.guide
          /\ trial'.calls = trial.calls /\ trial'.kid = trial.kid
        <3>1. trial' = [trial EXCEPT !.left = trial.left - 2, !.depth = 1, !.best = end]
            BY <1>1, <1>5, <1>7 DEF Trials
        <3>2. QED
            BY <1>5, <2>2, <3>1 DEF Trials
    <2>4. TrialOK'
        <3>1. Top' = Top /\ Wanted' = Wanted
            BY <1>1, <2>3 DEF aroundReplay, Top, Wanted
        <3>2. CallsOK(proved', trial.calls, trial.pos, step)
            BY <1>2, <2>1, ReplayFacts, CallsMore
        <3>3. CallsOK(proved', trial.calls, trial.pos, "answered")
            BY <1>2, <3>2 DEF CallsOK, CallOK
        <3>4. QED
            BY <1>1, <1>2, <1>7, <2>1, <2>3, <3>1, <3>3, ReplayFacts DEF TrialOK
    <2>5. spent' \in Nat
        BY <1>1, <1>4, <1>5, <1>7
    <2>6. QED
        BY <1>1, <1>2, <1>7, <2>1, <2>3, <2>4, <2>5, WithinReplay
<1>8. QED
    BY <1>6, <1>7

LEMMA DefendKeeps == ASSUME ProverInv, Defend PROVE ProverInv'
<1> DEFINE moves == Ordered(trial.pos)
           c == Call(NoMove, moves)
<1>1. /\ CallOpen("Loss")
      /\ trial' = [trial EXCEPT !.left = @ - 1, !.calls = Append(@, c)]
      /\ spent' = spent + 1 /\ step' = "reply" /\ proved' = proved /\ UNCHANGED aroundReplay
    BY DEF Defend
<1>2. /\ step = "call" /\ Wanted = "Loss" /\ Replaying /\ trial.pos \in Pos
      /\ Static[trial.pos] = NoOutcome /\ trial.left \in Nat \ {0}
    BY <1>1, CallOpenIs
<1>3. /\ trial \in Trials /\ trial.calls \in Seq(Calls) /\ Len(trial.calls) \in Nat
      /\ CallsOK(proved, trial.calls, trial.pos, step) /\ trial.guide \in Pos
    BY <1>2, ReplayFacts, TrialIs
<1>4. moves \in Seq(Pos) /\ Range(moves) = Succ[trial.pos]
    BY <1>2, OrderedLists DEF Lists, Range
<1> HIDE DEF moves
<1>5. c \in Calls /\ c.pos = trial.pos /\ c.todo = moves
    BY <1>2, <1>3, <1>4 DEF Call, Calls
<1> HIDE DEF c
<1>6. (Len(trial.calls) + 1) % 2 = 0 /\ ~((Len(trial.calls) + 1) % 2 = 1)
    <2> DEFINE n == Len(trial.calls) + 1
    <2>0. n % 2 = 0
        BY <1>2, <1>3, WantedIs
    <2>1. n \in Nat
        BY <1>3
    <2> HIDE DEF n
    <2>2. ~(n % 2 = 1)
        BY <2>0, <2>1
    <2>3. QED
        BY <2>0, <2>2 DEF n
<1>7. /\ CallsOK(proved, Append(trial.calls, c), trial.pos, "reply") /\ Append(trial.calls, c) \in Seq(Calls)
      /\ Len(Append(trial.calls, c)) = Len(trial.calls) + 1
      /\ Pending(Append(trial.calls, c), trial.pos, 0) = Pending(trial.calls, trial.pos, 0)
    <2> DEFINE more == Append(trial.calls, c)
    <2>1. more[Len(trial.calls) + 1] = c /\ Len(more) = Len(trial.calls) + 1
        BY <1>3, <1>5, AppendProperties
    <2> HIDE DEF more
    <2>2. ~(Len(trial.calls) + 1 < Len(more))
        BY <1>3, <2>1
    <2> DEFINE n == Len(trial.calls) + 1
    <2>n. n % 2 = 0 /\ ~(n % 2 = 1) /\ n = Len(more)
        BY <1>6, <2>1
    <2> HIDE DEF n
    <2>3. CallOK(proved, more, trial.pos, "reply", n)
        BY <1>2, <1>4, <1>5, <2>n, <2>1, <2>2 DEF CallOK, n
    <2>4. CallsOK(proved, trial.calls, trial.pos, "call")
        BY <1>2, <1>3
    <2>5. QED
        <3>1. more = Append(trial.calls, c)
            BY DEF more
        <3>2. /\ CallsOK(proved, more, trial.pos, "reply") /\ more \in Seq(Calls)
              /\ Len(more) = Len(trial.calls) + 1
              /\ Pending(more, trial.pos, 0) = Pending(trial.calls, trial.pos, 0)
            <4> DEFINE calls == trial.calls
                       pos == trial.pos
            <4>1. calls \in Seq(Calls) /\ CallsOK(proved, calls, pos, "call") /\ more = Pushed(calls, c) /\ c.pos = pos
                BY <1>3, <1>5, <2>4, <3>1 DEF Pushed
            <4> HIDE DEF calls, pos
            <4>2. /\ CallsOK(proved, more, pos, "reply") /\ more \in Seq(Calls)
                  /\ Len(more) = Len(calls) + 1
                  /\ Pending(more, pos, 0) = Pending(calls, pos, 0)
                <5>1. CallOK(proved, more, pos, "reply", n)
                    BY <2>3 DEF pos
                <5>2. QED
                    BY <1>5, <2>n, <4>1, <5>1, CallPushed
            <4>3. QED
                BY <4>2 DEF calls, pos
        <3>3. QED
            BY <3>1, <3>2
<1>8. /\ trial' \in Trials /\ trial'.pos = trial.pos /\ trial'.guide = trial.guide /\ trial'.kid = trial.kid
      /\ trial'.calls = Append(trial.calls, c)
    <2>1. trial.left - 1 \in Nat
        BY <1>2
    <2>2. QED
        BY <1>1, <1>3, <1>7, <2>1 DEF Trials
<1>9. TrialOK'
    <2>1. Top' = Top
        BY <1>1 DEF aroundReplay, Top
    <2>2. Len(trial'.calls) % 2 = 0 /\ trial'.calls # <<>>
        <3>1. Len(trial'.calls) = Len(trial.calls) + 1
            BY <1>7, <1>8
        <3>2. Len(trial'.calls) # 0
            BY <1>3, <3>1
        <3>3. QED
            BY <1>6, <3>1, <3>2, EmptySeq
    <2>3. QED
        BY <1>1, <1>2, <1>3, <1>7, <1>8, <2>1, <2>2, ReplayFacts DEF TrialOK
<1>10. spent' \in Nat /\ Grounded(proved')
    BY <1>1, <1>2, ReplayFacts
<1>11. QED
    BY <1>1, <1>2, <1>8, <1>9, <1>10, WithinReplay

(* The reply looked at.                                                    *)
LEMMA ReplyIs ==
    ASSUME ProverInv, step = "reply", Current.todo # <<>>
    PROVE  /\ Replaying /\ trial.calls # <<>> /\ Len(trial.calls) % 2 = 0
           /\ Current = trial.calls[Len(trial.calls)]
           /\ Current.pos \in Pos /\ Current.guide \in Pos
           /\ Head(Current.todo) \in Succ[Current.pos] /\ Head(Current.todo) \in Pos
<1>1. Replaying
    BY DEF Replaying
<1>2. trial.calls \in Seq(Calls) /\ Len(trial.calls) \in Nat
    BY TrialIs
<1>3. trial.calls # <<>> /\ Len(trial.calls) % 2 = 0 /\ CallsOK(proved, trial.calls, trial.pos, step)
    BY <1>1, ReplayFacts
<1>4. Len(trial.calls) \in 1 .. Len(trial.calls)
    <2> DEFINE calls == trial.calls
    <2>1. calls \in Seq(Calls) /\ calls # <<>>
        BY <1>2, <1>3
    <2> HIDE DEF calls
    <2>2. Len(calls) \in 1 .. Len(calls)
        BY <2>1, EmptySeq
    <2>3. QED
        BY <2>2 DEF calls
<1>5. Current = trial.calls[Len(trial.calls)]
    BY DEF Current
<1>6. Current.pos \in Pos /\ Current.guide \in Pos /\ Current.todo \in Seq(Pos)
    BY <1>2, <1>4, <1>5, CallIs
<1>7. Range(Current.todo) \subseteq Succ[Current.pos]
    BY <1>3, <1>4, <1>5 DEF CallsOK, CallOK
<1>8. Head(Current.todo) \in Range(Current.todo)
    <2> DEFINE todo == Current.todo
    <2>1. todo \in Seq(Pos) /\ todo # <<>>
        BY <1>6
    <2> HIDE DEF todo
    <2>2. 1 \in DOMAIN todo /\ Head(todo) = todo[1]
        BY <2>1, EmptySeq
    <2>3. Head(todo) \in Range(todo)
        BY <2>2 DEF Range
    <2>4. QED
        BY <2>3 DEF todo
<1>9. Head(Current.todo) \in Succ[Current.pos] /\ Head(Current.todo) \in Pos
    BY <1>6, <1>7, <1>8, SuccPos
<1>10. QED
    BY <1>1, <1>3, <1>5, <1>6, <1>9

(* A reply is answered.                                                    *)
LEMMA ReplyAnswered ==
    ASSUME ProverInv, Replaying, UNCHANGED aroundReplay,
           trial.calls # <<>>, Len(trial.calls) % 2 = 0, Current.todo # <<>>,
           NEW depth \in Nat, NEW left \in Nat,
           trial' = [trial EXCEPT !.left = left, !.calls = Answered(@, depth)],
           step' = "reply", spent' \in Nat,
           proved \subseteq proved', Grounded(proved'), Says(proved', Head(Current.todo), "Win")
    PROVE  ProverInv'
<1> DEFINE calls == trial.calls
           pos == trial.pos
<1>1. trial \in Trials /\ calls \in Seq(Calls) /\ pos \in Pos /\ trial.guide \in Pos
    BY ReplayFacts, TrialIs
<1>2. CallsOK(proved', calls, pos, step)
    BY ReplayFacts, CallsMore
<1>3. Current = calls[Len(calls)] /\ calls # <<>> /\ Len(calls) % 2 = 0
    BY DEF Current
<1> HIDE DEF calls, pos
<1>4. /\ CallsOK(proved', Answered(calls, depth), pos, "reply")
      /\ Answered(calls, depth) \in Seq(Calls) /\ Len(Answered(calls, depth)) = Len(calls)
      /\ Pending(Answered(calls, depth), pos, 0) = Pending(calls, pos, 0)
    <2>1. calls[Len(calls)].todo # <<>> /\ Says(proved', Head(calls[Len(calls)].todo), "Win")
        BY <1>3
    <2>2. QED
        BY <1>1, <1>2, <1>3, <2>1, CallAnswered
<1> DEFINE next == Answered(calls, depth)
<1>5. trial' = [trial EXCEPT !.left = left, !.calls = next]
    BY <1>1 DEF Trials, calls
<1> HIDE DEF next
<1>6. /\ trial' \in Trials /\ trial'.pos = pos /\ trial'.guide = trial.guide
      /\ trial'.kid = trial.kid /\ trial'.calls = next
    <2>1. next \in Seq(Calls)
        BY <1>4 DEF next
    <2>2. QED
        BY <1>1, <1>5, <2>1 DEF Trials, pos
<1>7. next # <<>> /\ Len(next) % 2 = 0
    <2>1. next \in Seq(Calls) /\ Len(next) = Len(calls)
        BY <1>4 DEF next
    <2>2. Len(calls) # 0
        BY <1>1, <1>3, EmptySeq
    <2>3. QED
        BY <1>3, <2>1, <2>2, EmptySeq
<1>8. TrialOK'
    <2>1. Top' = Top
        BY DEF aroundReplay, Top
    <2>2. trial.kid \in DOMAIN Top.kids /\ Top.kids[trial.kid].to = Pending(calls, pos, 0)
        BY ReplayFacts DEF calls, pos
    <2>3. CallsOK(proved', next, pos, "reply") /\ Pending(next, pos, 0) = Pending(calls, pos, 0)
        BY <1>4 DEF next
    <2>4. QED
        BY <1>1, <1>6, <1>7, <2>1, <2>2, <2>3 DEF TrialOK
<1>9. QED
    BY <1>6, <1>8, WithinReplay

LEMMA ReplyEndsKeeps == ASSUME ProverInv, ReplyEnds PROVE ProverInv'
<1> DEFINE c == Head(Current.todo)
<1>1. /\ step = "reply" /\ Current.todo # <<>> /\ Static[c] = "Win"
      /\ proved' = proved \cup {<<c, "Win", 0>>}
      /\ trial' = [trial EXCEPT !.calls = Answered(@, 0)]
      /\ step' = step /\ spent' = spent /\ UNCHANGED aroundReplay
    BY DEF ReplyEnds
<1>2. Replaying /\ trial.calls # <<>> /\ Len(trial.calls) % 2 = 0 /\ c \in Pos
    BY <1>1, ReplyIs
<1>3. spent' \in Nat /\ Grounded(proved) /\ trial \in Trials /\ trial.left \in Nat
    BY <1>1, <1>2, ReplayFacts, TrialIs
<1> HIDE DEF c
<1>4. Grounded(proved') /\ Says(proved', c, "Win") /\ proved \subseteq proved'
    <2>1. Justified(proved, c, "Win") /\ "Win" \in Decisive /\ 0 \in Nat
        BY <1>1 DEF Justified, Decisive
    <2>2. QED
        BY <1>1, <1>2, <1>3, <2>1, GroundedOne
<1>5. trial' = [trial EXCEPT !.left = trial.left, !.calls = Answered(@, 0)]
    BY <1>1, <1>3 DEF Trials
<1>6. QED
    BY <1>1, <1>2, <1>3, <1>4, <1>5, ReplyAnswered DEF c

LEMMA ReplyReturnsKeeps == ASSUME ProverInv, ReplyReturns PROVE ProverInv'
<1>1. /\ step = "answered" /\ trial.calls # <<>> /\ Wanted = "Win"
      /\ trial' = [trial EXCEPT !.calls = Answered(@, trial.depth)]
      /\ step' = "reply" /\ spent' = spent /\ proved' = proved /\ UNCHANGED aroundReplay
    BY DEF ReplyReturns
<1>2. Replaying
    BY <1>1 DEF Replaying
<1>3. /\ trial \in Trials /\ trial.calls \in Seq(Calls) /\ Len(trial.calls) \in Nat
      /\ trial.left \in Nat /\ trial.depth \in Nat
      /\ spent' \in Nat /\ Grounded(proved) /\ CallsOK(proved, trial.calls, trial.pos, step)
      /\ Says(proved, trial.pos, Wanted)
    BY <1>1, <1>2, ReplayFacts, TrialIs
<1>4. Len(trial.calls) % 2 = 0
    BY <1>1, <1>3, WantedIs
<1>5. Current.todo # <<>> /\ Head(Current.todo) = trial.pos
    <2> DEFINE calls == trial.calls
               n == Len(calls)
    <2>1. calls \in Seq(Calls) /\ calls # <<>> /\ CallsOK(proved, calls, trial.pos, "answered") /\ n % 2 = 0
        BY <1>1, <1>3, <1>4
    <2>2. Current = calls[n]
        BY DEF Current
    <2> HIDE DEF calls
    <2>3. n \in 1 .. Len(calls) /\ ~(n < Len(calls))
        BY <2>1, EmptySeq
    <2>4. CallOK(proved, calls, trial.pos, "answered", n) /\ Pending(calls, trial.pos, n) = trial.pos
        BY <2>1, <2>3 DEF CallsOK, Pending
    <2> HIDE DEF n
    <2>5. QED
        BY <2>1, <2>2, <2>4 DEF CallOK
<1>6. trial' = [trial EXCEPT !.left = trial.left, !.calls = Answered(@, trial.depth)]
    BY <1>1, <1>3 DEF Trials
<1>7. Says(proved', Head(Current.todo), "Win")
    BY <1>1, <1>3, <1>5
<1>8. QED
    BY <1>1, <1>2, <1>3, <1>4, <1>5, <1>6, <1>7, ReplyAnswered

LEMMA ReplyOpenKeeps == ASSUME ProverInv, ReplyOpen PROVE ProverInv'
<1> DEFINE c == Head(Current.todo)
           end == Mate(c, trial.left)
           n == Tried(c, trial.left)
           left == IF trial.left = 0 THEN 0 ELSE trial.left - 1
           to == Play(Current.guide, Label[c])
<1>1. /\ step = "reply" /\ Current.todo # <<>> /\ Static[c] = NoOutcome /\ UNCHANGED aroundReplay
      /\ \/ /\ end # NoMove
            /\ proved' = proved \cup MateEvents(c, end)
            /\ trial' = [trial EXCEPT !.left = left, !.calls = Answered(@, 1)]
            /\ spent' = spent + n /\ UNCHANGED step
         \/ /\ end = NoMove /\ Probe(c).outcome = "Win"
            /\ proved' = proved \cup {<<c, "Win", Probe(c).depth>>}
            /\ trial' = [trial EXCEPT !.left = left, !.calls = Answered(@, Probe(c).depth)]
            /\ spent' = spent + n /\ UNCHANGED step
         \/ /\ end = NoMove /\ Probe(c).outcome # "Win" /\ Playable(Current.guide, Label[c])
            /\ trial' = [trial EXCEPT !.left = left, !.pos = c, !.guide = to]
            /\ spent' = spent + n /\ step' = "call" /\ UNCHANGED proved
         \/ /\ end = NoMove /\ Probe(c).outcome # "Win" /\ ~Playable(Current.guide, Label[c])
            /\ GiveUp(n) /\ UNCHANGED proved
    BY DEF ReplyOpen
<1>2. /\ Replaying /\ trial.calls # <<>> /\ Len(trial.calls) % 2 = 0 /\ c \in Pos
      /\ Current = trial.calls[Len(trial.calls)] /\ Current.guide \in Pos
    BY <1>1, ReplyIs
<1>3. spent \in Nat /\ Grounded(proved) /\ trial \in Trials /\ trial.left \in Nat /\ trial.calls \in Seq(Calls)
    BY <1>2, ReplayFacts, TrialIs
<1>4. left \in Nat
    BY <1>3
<1>5. n \in Nat /\ (end # NoMove => end \in Succ[c] /\ Static[end] = "Loss")
    <2>1. n \in 0 .. MaxMoves
        BY <1>2, <1>3, MateIs
    <2>2. end # NoMove => end \in Succ[c] /\ Static[end] = "Loss"
        BY <1>2, <1>3, MateIs
    <2> HIDE DEF end, n, c
    <2>3. QED
        BY <2>1, <2>2, StagesAssumption
<1> HIDE DEF c, end, n, left, to
<1>6. CASE /\ end # NoMove
           /\ proved' = proved \cup MateEvents(c, end)
           /\ trial' = [trial EXCEPT !.left = left, !.calls = Answered(@, 1)]
           /\ spent' = spent + n /\ UNCHANGED step
    <2>1. Grounded(proved') /\ Says(proved', c, "Win") /\ proved \subseteq proved'
        BY <1>1, <1>2, <1>3, <1>5, <1>6, GroundedMate
    <2>2. spent' \in Nat /\ step' = "reply" /\ 1 \in Nat
        BY <1>1, <1>3, <1>5, <1>6
    <2>3. QED
        BY <1>1, <1>2, <1>4, <1>6, <2>1, <2>2, ReplyAnswered DEF c
<1>7. CASE /\ end = NoMove /\ Probe(c).outcome = "Win"
           /\ proved' = proved \cup {<<c, "Win", Probe(c).depth>>}
           /\ trial' = [trial EXCEPT !.left = left, !.calls = Answered(@, Probe(c).depth)]
           /\ spent' = spent + n /\ UNCHANGED step
    <2>1. Says(proved, c, "Win") /\ Probe(c).depth \in Nat /\ "Win" \in Decisive
        BY <1>2, <1>7, ProbeIs DEF ProverInv, Decisive
    <2>2. Grounded(proved') /\ Says(proved', c, "Win") /\ proved \subseteq proved'
        BY <1>2, <1>3, <1>7, <2>1, GroundedOne
    <2>3. spent' \in Nat /\ step' = "reply"
        BY <1>1, <1>3, <1>5, <1>7
    <2>4. QED
        BY <1>1, <1>2, <1>4, <1>7, <2>1, <2>2, <2>3, ReplyAnswered DEF c
<1>8. CASE /\ end = NoMove /\ Probe(c).outcome # "Win" /\ Playable(Current.guide, Label[c])
           /\ trial' = [trial EXCEPT !.left = left, !.pos = c, !.guide = to]
           /\ spent' = spent + n /\ step' = "call" /\ UNCHANGED proved
    <2>1. to \in Pos
        BY <1>2, <1>8, PlayIs, SuccPos DEF to
    <2> DEFINE calls == trial.calls
               pos == trial.pos
    <2>2. CallsOK(proved, calls, c, "call") /\ Pending(calls, c, 0) = Pending(calls, pos, 0)
        <3>1. /\ calls \in Seq(Calls) /\ calls # <<>> /\ Len(calls) % 2 = 0
              /\ calls[Len(calls)].todo # <<>> /\ Head(calls[Len(calls)].todo) = c
              /\ CallsOK(proved, calls, pos, "reply")
            BY <1>1, <1>2, <1>3, ReplayFacts DEF c
        <3> HIDE DEF calls, pos
        <3>2. QED
            BY <3>1, CallAsks
    <2>3. /\ trial' \in Trials /\ trial'.pos = c /\ trial'.guide = to
          /\ trial'.calls = calls /\ trial'.kid = trial.kid
        BY <1>2, <1>3, <1>4, <1>8, <2>1 DEF Trials
    <2>4. TrialOK'
        <3>1. Top' = Top
            BY <1>1 DEF aroundReplay, Top
        <3>2. trial.kid \in DOMAIN Top.kids /\ Top.kids[trial.kid].to = Pending(calls, pos, 0)
            BY <1>2, ReplayFacts
        <3> HIDE DEF calls, pos
        <3>3. QED
            BY <1>2, <1>8, <2>1, <2>2, <2>3, <3>1, <3>2 DEF TrialOK
    <2>5. spent' \in Nat /\ Grounded(proved')
        BY <1>3, <1>5, <1>8
    <2>6. QED
        BY <1>1, <1>2, <1>8, <2>3, <2>4, <2>5, WithinReplay
<1>9. CASE GiveUp(n) /\ UNCHANGED proved
    BY <1>1, <1>2, <1>5, <1>9, GaveUp
<1>10. QED
    BY <1>1, <1>6, <1>7, <1>8, <1>9

(* A call returns.                                                         *)
LEMMA CallReturned ==
    ASSUME ProverInv, Replaying, trial.calls # <<>>,
           NEW o \in Decisive, NEW depth \in Nat, NEW best \in Pos \cup {NoMove},
           CallReturns(o, depth, best), Justified(proved, Current.pos, o),
           o = IF Len(trial.calls) % 2 = 1 THEN "Win" ELSE "Loss"
    PROVE  ProverInv'
<1> DEFINE calls == trial.calls
           pos == trial.pos
           less == Front(trial.calls)
           n == Len(trial.calls)
<1>1. /\ proved' = proved \cup {<<Current.pos, o, depth>>}
      /\ trial' = [trial EXCEPT !.pos = Current.pos, !.guide = Current.guide, !.calls = Front(@),
                                !.depth = depth, !.best = best]
      /\ step' = "answered" /\ spent' = spent /\ UNCHANGED aroundReplay
    BY DEF CallReturns
<1>2. /\ trial \in Trials /\ calls \in Seq(Calls) /\ pos \in Pos
      /\ CallsOK(proved, calls, pos, step) /\ Grounded(proved) /\ spent' \in Nat
    BY <1>1, ReplayFacts, TrialIs
<1>3. calls # <<>> /\ Current = calls[n]
    BY DEF Current
<1> HIDE DEF calls
<1>4. n \in Nat /\ n >= 1 /\ n = Len(calls)
    <2>1. n = Len(calls)
        BY DEF calls
    <2> HIDE DEF n
    <2>2. QED
        BY <1>2, <1>3, <2>1, EmptySeq
<1>5. Current.pos \in Pos /\ Current.guide \in Pos
    <2>1. n \in 1 .. Len(calls)
        BY <1>4
    <2> HIDE DEF n
    <2>2. QED
        BY <1>2, <1>3, <2>1, CallIs
<1>6. Grounded(proved') /\ Says(proved', Current.pos, o) /\ proved \subseteq proved'
    BY <1>1, <1>2, <1>5, GroundedOne
<1>7. CallsOK(proved', calls, pos, step)
    BY <1>2, <1>6, CallsMore
<1> HIDE DEF less, n, pos
<1>8. /\ CallsOK(proved', less, Current.pos, "answered") /\ less \in Seq(Calls) /\ Len(less) = n - 1
      /\ Pending(less, Current.pos, 0) = Pending(calls, pos, 0)
    <2>1. less = Front(calls)
        BY DEF less, calls
    <2>2. QED
        BY <1>2, <1>3, <1>4, <1>7, <2>1, CallPopped
<1>9. /\ trial' \in Trials /\ trial'.pos = Current.pos /\ trial'.guide = Current.guide
      /\ trial'.kid = trial.kid /\ trial'.calls = less
    <2>1. trial' = [trial EXCEPT !.pos = Current.pos, !.guide = Current.guide, !.calls = less,
                                 !.depth = depth, !.best = best]
        BY <1>1, <1>2 DEF Trials, less
    <2>2. QED
        BY <1>2, <1>5, <1>8, <2>1 DEF Trials
<1>10. Wanted' = o
    <2>1. Len(trial'.calls) + 1 = n
        BY <1>4, <1>8, <1>9
    <2>2. Wanted' = IF n % 2 = 1 THEN "Win" ELSE "Loss"
        BY <2>1 DEF Wanted, IsOr
    <2>3. QED
        BY <2>2 DEF n
<1>11. TrialOK'
    <2>1. Top' = Top
        BY <1>1 DEF aroundReplay, Top
    <2>2. trial.kid \in DOMAIN Top.kids /\ Top.kids[trial.kid].to = Pending(calls, pos, 0)
        BY ReplayFacts DEF calls, pos
    <2>3. QED
        BY <1>1, <1>5, <1>6, <1>8, <1>9, <1>10, <2>1, <2>2 DEF TrialOK
<1>12. QED
    BY <1>1, <1>2, <1>6, <1>9, <1>11, WithinReplay

LEMMA DefendReturnsKeeps == ASSUME ProverInv, DefendReturns PROVE ProverInv'
<1>1. step = "reply" /\ Current.todo = <<>> /\ CallReturns("Loss", Current.deepest + 1, NoMove)
    BY DEF DefendReturns
<1>2. Replaying
    BY <1>1 DEF Replaying
<1> DEFINE calls == trial.calls
           n == Len(calls)
<1>3. /\ calls \in Seq(Calls) /\ calls # <<>> /\ n % 2 = 0
      /\ CallsOK(proved, calls, trial.pos, "reply") /\ Current = calls[n]
    BY <1>1, <1>2, ReplayFacts, TrialIs DEF Current
<1> HIDE DEF calls
<1>4. n \in 1 .. Len(calls) /\ n \in Nat
    BY <1>3, EmptySeq
<1>5. CallOK(proved, calls, trial.pos, "reply", n)
    BY <1>3, <1>4 DEF CallsOK
<1>6. Current.deepest + 1 \in Nat
    <2>1. Current.deepest \in Nat
        BY <1>3, <1>4, CallIs
    <2>2. QED
        BY <2>1
<1>7. ~(n % 2 = 1)
    <2> HIDE DEF n
    <2>1. QED
        BY <1>3, <1>4
<1> HIDE DEF n
<1>8. Justified(proved, Current.pos, "Loss")
    <2>1. /\ Static[Current.pos] = NoOutcome
          /\ \A x \in Succ[Current.pos] : x \in Range(Current.todo) \/ Says(proved, x, "Win")
        BY <1>3, <1>5 DEF CallOK
    <2>2. Range(Current.todo) = {}
        BY <1>1 DEF Range
    <2>3. QED
        BY <2>1, <2>2 DEF Justified
<1>9. "Loss" = IF Len(trial.calls) % 2 = 1 THEN "Win" ELSE "Loss"
    BY <1>7 DEF n, calls
<1>10. QED
    BY <1>1, <1>2, <1>3, <1>6, <1>8, <1>9, CallReturned DEF calls, Decisive

LEMMA AttackReturnsKeeps == ASSUME ProverInv, AttackReturns PROVE ProverInv'
<1>1. /\ step = "answered" /\ trial.calls # <<>> /\ Wanted = "Loss"
      /\ CallReturns("Win", trial.depth + 1, Current.best)
    BY DEF AttackReturns
<1>2. Replaying
    BY <1>1 DEF Replaying
<1> DEFINE calls == trial.calls
           n == Len(calls)
<1>3. /\ calls \in Seq(Calls) /\ calls # <<>> /\ Len(trial.calls) \in Nat /\ trial.depth \in Nat
      /\ CallsOK(proved, calls, trial.pos, "answered") /\ Current = calls[n]
      /\ Says(proved, trial.pos, "Loss")
    BY <1>1, <1>2, ReplayFacts, TrialIs DEF Current
<1>4. n % 2 = 1
    BY <1>1, <1>3, WantedIs
<1> HIDE DEF calls
<1>5. n \in 1 .. Len(calls) /\ n \in Nat /\ ~(n < Len(calls))
    BY <1>3, EmptySeq
<1>6. CallOK(proved, calls, trial.pos, "answered", n) /\ Pending(calls, trial.pos, n) = trial.pos
    BY <1>3, <1>5 DEF CallsOK, Pending
<1>7. Current.best \in Pos \cup {NoMove}
    BY <1>3, <1>5, CallIs
<1> HIDE DEF n
<1>8. Justified(proved, Current.pos, "Win")
    <2>1. Static[Current.pos] = NoOutcome /\ Current.best \in Succ[Current.pos] /\ Current.best = trial.pos
        BY <1>3, <1>4, <1>6 DEF CallOK
    <2>2. QED
        BY <1>3, <2>1 DEF Justified
<1>9. trial.depth + 1 \in Nat
    BY <1>3
<1>10. "Win" = IF Len(trial.calls) % 2 = 1 THEN "Win" ELSE "Loss"
    BY <1>4 DEF n, calls
<1>11. QED
    BY <1>1, <1>2, <1>7, <1>8, <1>9, <1>10, CallReturned DEF Decisive

-----------------------------------------------------------------------------
(* The search keeps the invariant                                          *)

(* The top frame changes, and stays in order.                              *)
Topped(s, f) == [s EXCEPT ![Len(s)] = f]
Rekidded(f, i, k) == [f EXCEPT !.kids = [@ EXCEPT ![i] = k]]

LEMMA TopChanged ==
    ASSUME ProverInv, frames # <<>>, NEW f \in Frames, NEW S, proved \subseteq S, FrameOK(S, f), f.pos = Top.pos,
           NEW next, next = Topped(frames, f)
    PROVE  /\ next \in Seq(Frames) /\ Len(next) = Len(frames) /\ next # <<>> /\ next[Len(next)] = f
           /\ \A i \in DOMAIN next : FrameOK(S, next[i])
           /\ \A i, j \in DOMAIN next : Board[next[i].pos] = Board[next[j].pos] => i = j
           /\ \A i \in DOMAIN next : i < Len(next) => Calling(next[i])
           /\ next[1].pos = root
<1>1. /\ frames \in Seq(Frames) /\ \A i \in DOMAIN frames : FrameOK(proved, frames[i])
      /\ \A i, j \in DOMAIN frames : Board[frames[i].pos] = Board[frames[j].pos] => i = j
      /\ \A i \in DOMAIN frames : i < Len(frames) => Calling(frames[i])
      /\ frames[1].pos = root
    BY DEF ProverInv, ProverTypes, StackOK, Stacked, ControlOK
<1>2. Len(frames) \in Nat /\ Len(frames) >= 1 /\ Len(frames) \in 1 .. Len(frames) /\ Top = frames[Len(frames)]
    BY TopIs
<1>3. /\ next \in Seq(Frames) /\ Len(next) = Len(frames)
      /\ \A i \in 1 .. Len(frames) : next[i] = IF i = Len(frames) THEN f ELSE frames[i]
    BY <1>1, <1>2, ExceptSeq DEF Topped
<1>4. DOMAIN next = 1 .. Len(frames) /\ DOMAIN frames = 1 .. Len(frames) /\ 1 \in 1 .. Len(frames)
    BY <1>1, <1>2, <1>3
<1>5. \A i \in 1 .. Len(frames) : next[i].pos = frames[i].pos
    BY <1>2, <1>3
<1>6. \A i \in 1 .. Len(frames) : FrameOK(S, next[i])
    BY <1>1, <1>3, <1>4, FrameMore
<1>7. next # <<>>
    BY <1>2, <1>3, EmptySeq
<1>8. \A i, j \in DOMAIN next : Board[next[i].pos] = Board[next[j].pos] => i = j
    <2> SUFFICES ASSUME NEW i \in DOMAIN next, NEW j \in DOMAIN next, Board[next[i].pos] = Board[next[j].pos]
                 PROVE  i = j
        OBVIOUS
    <2>1. next[i].pos = frames[i].pos /\ next[j].pos = frames[j].pos /\ i \in DOMAIN frames /\ j \in DOMAIN frames
        BY <1>4, <1>5
    <2>2. QED
        BY <1>1, <2>1
<1>9. \A i \in DOMAIN next : i < Len(next) => Calling(next[i])
    <2> SUFFICES ASSUME NEW i \in DOMAIN next, i < Len(next) PROVE Calling(next[i])
        OBVIOUS
    <2>1. i \in DOMAIN frames /\ i \in 1 .. Len(frames) /\ i < Len(frames)
        BY <1>3, <1>4
    <2>2. next[i] = frames[i]
        BY <1>3, <2>1
    <2>3. QED
        BY <1>1, <2>1, <2>2
<1>10. QED
    BY <1>1, <1>2, <1>3, <1>4, <1>5, <1>6, <1>7, <1>8, <1>9

(* One of its children changes.                                            *)
LEMMA KidChanged ==
    ASSUME NEW S, NEW T, S \subseteq T, NEW f \in Frames, FrameOK(S, f), NEW i \in DOMAIN f.kids,
           NEW k \in Kids, k.to = f.kids[i].to, k.outcome \in Decisive => Says(T, k.to, k.outcome),
           NEW g, g = Rekidded(f, i, k)
    PROVE  /\ g \in Frames /\ FrameOK(T, g) /\ g.pos = f.pos /\ g.at = f.at
           /\ DOMAIN g.kids = DOMAIN f.kids /\ g.kids[i] = k
<1> DEFINE s == f.kids
           t == [s EXCEPT ![i] = k]
<1>1. s \in Seq(Kids) /\ Len(s) \in Nat /\ DOMAIN s = 1 .. Len(s)
    BY DEF Frames
<1>2. /\ Static[f.pos] = NoOutcome /\ Len(s) = Len(ByLabel[f.pos])
      /\ {s[j].to : j \in DOMAIN s} = Succ[f.pos]
      /\ \A j \in DOMAIN s : s[j].outcome \in Decisive => Says(T, s[j].to, s[j].outcome)
    BY FrameMore DEF FrameOK
<1>3. g = [f EXCEPT !.kids = t]
    BY DEF Frames, Rekidded
<1>4. k.to = s[i].to /\ i \in DOMAIN s
    OBVIOUS
<1> HIDE DEF s
<1>5. /\ t \in Seq(Kids) /\ Len(t) = Len(s)
      /\ \A j \in 1 .. Len(s) : t[j] = IF j = i THEN k ELSE s[j]
    BY <1>1, <1>4, ExceptSeq
<1> HIDE DEF t
<1>6. DOMAIN t = DOMAIN s /\ \A j \in DOMAIN s : t[j].to = s[j].to
    BY <1>1, <1>4, <1>5
<1>7. {t[j].to : j \in DOMAIN t} = Succ[f.pos]
    BY <1>2, <1>6
<1>8. \A j \in DOMAIN t : t[j].outcome \in Decisive => Says(T, t[j].to, t[j].outcome)
    BY <1>1, <1>2, <1>5, <1>6
<1>9. g \in Frames /\ g.pos = f.pos /\ g.kids = t /\ g.at = f.at
    BY <1>3, <1>5 DEF Frames
<1>10. FrameOK(T, g)
    BY <1>2, <1>5, <1>7, <1>8, <1>9 DEF FrameOK
<1>11. QED
    BY <1>1, <1>4, <1>5, <1>6, <1>9, <1>10 DEF s

(* The stack of the next state, when only its top has changed.             *)
LEMMA TopSet ==
    ASSUME ProverInv, frames # <<>>, NEW f \in Frames, frames' = Topped(frames, f),
           proved \subseteq proved', FrameOK(proved', f), f.pos = Top.pos
    PROVE  /\ frames' \in Seq(Frames) /\ Len(frames') = Len(frames) /\ frames' # <<>> /\ Top' = f
           /\ StackOK' /\ frames'[1].pos = root
<1> DEFINE next == Topped(frames, f)
<1>1. next = Topped(frames, f) /\ frames' = next
    OBVIOUS
<1> HIDE DEF next
<1>2. /\ next \in Seq(Frames) /\ Len(next) = Len(frames) /\ next # <<>> /\ next[Len(next)] = f
      /\ \A i \in DOMAIN next : FrameOK(proved', next[i])
      /\ \A i, j \in DOMAIN next : Board[next[i].pos] = Board[next[j].pos] => i = j
      /\ \A i \in DOMAIN next : i < Len(next) => Calling(next[i])
      /\ next[1].pos = root
    BY <1>1, TopChanged
<1>3. StackOK'
    BY <1>1, <1>2 DEF StackOK, Stacked
<1>4. Top' = f
    BY <1>1, <1>2 DEF Top
<1>5. QED
    BY <1>1, <1>2, <1>3, <1>4

LEMMA ReplayStartKeeps == ASSUME ProverInv, ReplayStart PROVE ProverInv'
<1> DEFINE i == CHOOSE n \in Waiting : \A k \in Waiting : n <= k
           k == [Top.kids[i] EXCEPT !.simulated = TRUE]
           f == Rekidded(Top, i, k)
<1>1. /\ step = "replay" /\ Waiting # {} /\ step' = "call"
      /\ frames' = [frames EXCEPT ![Len(frames)].kids[i].simulated = TRUE]
      /\ trial' = [NoTrial EXCEPT !.kid = i, !.left = SimulationBudget,
                                  !.pos = Top.kids[i].to, !.guide = Top.kids[Top.at].to]
      /\ UNCHANGED <<tt, call, spent, cap, proved, answer, claim, root, upward, late>>
    BY DEF ReplayStart
<1>2. frames # <<>> /\ Calling(Top) /\ frames[1].pos = root
    BY <1>1 DEF ProverInv, ControlOK
<1>3. /\ Top \in Frames /\ Top.kids \in Seq(Kids) /\ FrameOK(proved, Top) /\ Top = frames[Len(frames)]
      /\ Len(frames) \in 1 .. Len(frames) /\ frames \in Seq(Frames)
    BY <1>2, TopIs DEF ProverInv, ProverTypes
<1>4. i \in DOMAIN Top.kids
    <2>1. Waiting \subseteq DOMAIN Top.kids /\ Waiting \subseteq Nat
        BY <1>3 DEF Waiting
    <2>2. \E m \in Waiting : \A n \in Waiting : m <= n
        BY <1>1, <2>1, LeastExists
    <2>3. i \in Waiting
        BY <2>2
    <2>4. QED
        BY <2>1, <2>3
<1> HIDE DEF i
<1>5. Top.kids[i] \in Kids /\ Top.kids[i].to \in Pos /\ Top.kids[Top.at].to \in Pos
    BY <1>2, <1>3, <1>4, KidIs DEF Calling
<1>6. k \in Kids /\ k.to = Top.kids[i].to /\ k.outcome = Top.kids[i].outcome
    BY <1>5 DEF Kids
<1>7. frames' = Topped(frames, f)
    BY <1>1, <1>3 DEF Frames, Kids, Topped, Rekidded
<1>8. /\ f \in Frames /\ FrameOK(proved, f) /\ f.pos = Top.pos /\ f.at = Top.at
      /\ f.kids[i] = k /\ DOMAIN f.kids = DOMAIN Top.kids
    <2>1. k.outcome \in Decisive => Says(proved, k.to, k.outcome)
        BY <1>3, <1>4, <1>6 DEF FrameOK
    <2> DEFINE t == Top
    <2> HIDE DEF k
    <2>2. /\ f = Rekidded(t, i, k) /\ proved \subseteq proved /\ t \in Frames /\ FrameOK(proved, t)
          /\ i \in DOMAIN t.kids /\ k \in Kids /\ k.to = t.kids[i].to
        BY <1>3, <1>4, <1>6
    <2> HIDE DEF f, t
    <2>3. /\ f \in Frames /\ FrameOK(proved, f) /\ f.pos = t.pos /\ f.at = t.at
          /\ f.kids[i] = k /\ DOMAIN f.kids = DOMAIN t.kids
        BY <2>1, <2>2, KidChanged
    <2>4. QED
        BY <2>3 DEF t
<1>9. f.kids[i].to = Top.kids[i].to
    BY <1>4, <1>6, <1>8
<1> HIDE DEF f, k
<1>10. frames' \in Seq(Frames) /\ frames' # <<>> /\ Top' = f /\ StackOK' /\ frames'[1].pos = root
    BY <1>1, <1>2, <1>7, <1>8, TopSet
<1>11. /\ trial' \in Trials /\ trial'.pos = Top.kids[i].to /\ trial'.guide = Top.kids[Top.at].to
       /\ trial'.calls = <<>> /\ trial'.kid = i
    <2>1. i \in Nat /\ SimulationBudget \in Nat /\ <<>> \in Seq(Calls)
        BY <1>3, <1>4, NumbersAssumption, EmptySeq
    <2>2. QED
        BY <1>1, <1>5, <2>1 DEF NoTrial, Trials
<1>12. ProverTypes'
    BY <1>1, <1>10, <1>11 DEF ProverInv, ProverTypes, Steps
<1>13. ControlOK'
    BY <1>1, <1>2, <1>8, <1>10 DEF ControlOK, Calling
<1>14. TrialOK'
    <2>1. Pending(trial'.calls, trial'.pos, 0) = trial'.pos
        BY <1>11, EmptySeq DEF Pending
    <2>2. CallsOK(proved', trial'.calls, trial'.pos, step')
        BY <1>11, EmptySeq DEF CallsOK
    <2>3. i \in DOMAIN f.kids /\ f.kids[i].to = trial'.pos
        BY <1>4, <1>8, <1>9, <1>11
    <2>4. QED
        BY <1>1, <1>5, <1>10, <1>11, <2>1, <2>2, <2>3 DEF TrialOK
<1>15. Grounded(proved') /\ TableSaid'
    BY <1>1 DEF ProverInv, TableSaid
<1>16. ClaimOK'
    <2>1. claim = <<>>
        BY <1>1 DEF ProverInv, ClaimOK
    <2>2. QED
        BY <1>1, <2>1 DEF ClaimOK
<1>17. QED
    BY <1>10, <1>12, <1>13, <1>14, <1>15, <1>16 DEF ProverInv

LEMMA ReplaysDoneKeeps == ASSUME ProverInv, ReplaysDone PROVE ProverInv'
<1>1. /\ step = "replay" /\ step' = "loop"
      /\ UNCHANGED <<tt, frames, call, spent, cap, proved, answer, claim, trial, root, upward, late>>
    BY DEF ReplaysDone
<1>2. ProverTypes'
    BY <1>1 DEF ProverInv, ProverTypes, Steps
<1>3. StackOK' /\ TableSaid' /\ Grounded(proved')
    BY <1>1 DEF ProverInv, StackOK, Stacked, TableSaid
<1>4. ControlOK'
    BY <1>1 DEF ProverInv, ControlOK, Top
<1>5. TrialOK' /\ ClaimOK'
    BY <1>1 DEF ProverInv, TrialOK, Replaying, ClaimOK
<1>6. QED
    BY <1>2, <1>3, <1>4, <1>5 DEF ProverInv

LEMMA ReplayWonKeeps == ASSUME ProverInv, ReplayWon PROVE ProverInv'
<1> DEFINE e == Entry("Win", trial.best, 0, Inf, trial.depth)
           k == [SolvedKid(trial.pos, "Win", trial.depth, TRUE) EXCEPT !.simulated = TRUE]
           i == trial.kid
           f == Rekidded(Top, i, k)
<1>1. /\ step = "answered" /\ trial.calls = <<>> /\ Store(trial.pos, e)
      /\ frames' = [frames EXCEPT ![Len(frames)].kids[i] = k]
      /\ step' = "replay" /\ trial' = NoTrial
      /\ UNCHANGED <<call, spent, cap, proved, answer, claim, root, upward, late>>
    BY DEF ReplayWon
<1>2. Replaying /\ frames # <<>> /\ Calling(Top) /\ frames[1].pos = root
    BY <1>1 DEF Replaying, ProverInv, ControlOK
<1>3. /\ Top \in Frames /\ Top.kids \in Seq(Kids) /\ FrameOK(proved, Top) /\ Top = frames[Len(frames)]
      /\ Len(frames) \in 1 .. Len(frames) /\ frames \in Seq(Frames)
    BY <1>2, TopIs DEF ProverInv, ProverTypes
<1>4. /\ trial.pos \in Pos /\ trial.depth \in Nat /\ trial.best \in Pos \cup {NoMove}
      /\ i \in DOMAIN Top.kids /\ Top.kids[i].to = Pending(trial.calls, trial.pos, 0)
      /\ Says(proved, trial.pos, Wanted)
    BY <1>1, <1>2, ReplayFacts, TrialIs
<1>5. Top.kids[i].to = trial.pos /\ Says(proved, trial.pos, "Win")
    <2>1. Len(trial.calls) = 0
        BY <1>1, EmptySeq
    <2>2. Pending(trial.calls, trial.pos, 0) = trial.pos
        BY <2>1 DEF Pending
    <2>3. Wanted = "Win"
        <3>1. IsOr(Len(trial.calls) + 1)
            BY <2>1 DEF IsOr
        <3>2. QED
            BY <3>1 DEF Wanted
    <2>4. QED
        BY <1>4, <2>2, <2>3
<1>6. k \in Kids /\ k.to = trial.pos /\ k.outcome = "Win"
    BY <1>4, PnDnNat DEF SolvedKid, Kids, Outcomes
<1> HIDE DEF k
<1>7. frames' = Topped(frames, f)
    BY <1>1, <1>3 DEF Frames, Topped, Rekidded
<1>8. /\ f \in Frames /\ FrameOK(proved, f) /\ f.pos = Top.pos /\ f.at = Top.at
      /\ DOMAIN f.kids = DOMAIN Top.kids
    <2> DEFINE t == Top
    <2>1. k.outcome \in Decisive => Says(proved, k.to, k.outcome)
        BY <1>5, <1>6
    <2> HIDE DEF i
    <2>2. /\ f = Rekidded(t, i, k) /\ proved \subseteq proved /\ t \in Frames /\ FrameOK(proved, t)
          /\ i \in DOMAIN t.kids /\ k \in Kids /\ k.to = t.kids[i].to
        BY <1>3, <1>4, <1>5, <1>6
    <2> HIDE DEF f, t
    <2>3. /\ f \in Frames /\ FrameOK(proved, f) /\ f.pos = t.pos /\ f.at = t.at
          /\ f.kids[i] = k /\ DOMAIN f.kids = DOMAIN t.kids
        BY <2>1, <2>2, KidChanged
    <2>4. QED
        BY <2>3 DEF t
<1> HIDE DEF f
<1>9. frames' \in Seq(Frames) /\ frames' # <<>> /\ Top' = f /\ StackOK' /\ frames'[1].pos = root
    BY <1>1, <1>2, <1>7, <1>8, TopSet
<1>10. /\ DOMAIN tt' \subseteq Pos /\ tt' \in [DOMAIN tt' -> Entries]
       /\ \A q \in DOMAIN tt' : tt'[q].outcome \in Decisive => Says(proved, q, tt'[q].outcome)
    <2>1. e \in Entries /\ e.outcome = "Win"
        BY <1>4, NumbersAssumption DEF Entry, Entries, Outcomes
    <2> HIDE DEF e
    <2>2. ProverTypes /\ TableSaid
        BY DEF ProverInv
    <2>3. QED
        BY <1>1, <1>4, <1>5, <2>1, <2>2, StoreSaid
<1>11. TableSaid'
    BY <1>1, <1>10 DEF TableSaid
<1>12. ProverTypes'
    <2>1. NoTrial \in Trials
        BY EmptySeq DEF NoTrial, Trials
    <2>2. QED
        BY <1>1, <1>9, <1>10, <2>1 DEF ProverInv, ProverTypes, Steps
<1>13. ControlOK'
    BY <1>1, <1>2, <1>8, <1>9 DEF ControlOK, Calling
<1>14. TrialOK' /\ Grounded(proved')
    BY <1>1 DEF ProverInv, TrialOK, Replaying
<1>15. ClaimOK'
    <2>1. claim = <<>>
        BY <1>1 DEF ProverInv, ClaimOK
    <2>2. QED
        BY <1>1, <2>1 DEF ClaimOK
<1>16. QED
    BY <1>9, <1>11, <1>12, <1>13, <1>14, <1>15 DEF ProverInv

(* Children that are known as they are reported.                           *)
LEMMA EventsGrounded ==
    ASSUME NEW S, Grounded(S), NEW K \in SUBSET Kids,
           \A k \in K : k.outcome \in Decisive => Static[k.to] = k.outcome \/ Says(S, k.to, k.outcome)
    PROVE  /\ Grounded(S \cup Events(K)) /\ S \subseteq S \cup Events(K)
           /\ \A k \in K : k.outcome \in Decisive => Says(S \cup Events(K), k.to, k.outcome)
<1> DEFINE E == Events(K)
<1>1. E = {<<k.to, k.outcome, k.depth>> : k \in {x \in K : x.outcome \in Decisive}}
    BY DEF Events
<1>2. \A k \in K : k.to \in Pos /\ k.depth \in Nat
    BY DEF Kids
<1> HIDE DEF E
<1>3. E \in SUBSET (Pos \X Decisive \X Nat)
    BY <1>1, <1>2
<1>4. ASSUME NEW e \in E
      PROVE  Says(S, e[1], e[2]) \/ Justified(S, e[1], e[2])
    <2>1. PICK k \in K : k.outcome \in Decisive /\ e = <<k.to, k.outcome, k.depth>>
        BY <1>1
    <2>2. e[1] = k.to /\ e[2] = k.outcome
        BY <2>1
    <2>3. QED
        BY <2>1, <2>2 DEF Justified
<1>5. Grounded(S \cup E)
    BY <1>3, <1>4, GroundedGrows
<1>6. ASSUME NEW k \in K, k.outcome \in Decisive
      PROVE  Says(S \cup E, k.to, k.outcome)
    <2> DEFINE e == <<k.to, k.outcome, k.depth>>
    <2>1. e \in S \cup E /\ e[1] = k.to /\ e[2] = k.outcome
        BY <1>1, <1>6
    <2> HIDE DEF e
    <2>2. QED
        BY <2>1 DEF Says
<1>7. QED
    BY <1>5, <1>6 DEF E

(* What is known before a call looks at the children.                      *)
LEMMA ForegoneIs ==
    ASSUME ProverInv, NEW p \in Pos
    PROVE  /\ Foregone(p).depth \in Nat
           /\ Foregone(p).outcome = NoOutcome => Static[p] = NoOutcome /\ Board[p] \notin Path
           /\ Foregone(p).outcome \in Decisive =>
                 Static[p] = Foregone(p).outcome \/ Says(proved, p, Foregone(p).outcome)
<1> DEFINE e == Probe(p)
           k == Foregone(p)
<1>1. e.depth \in Nat /\ (e.outcome \in Decisive => Says(proved, p, e.outcome))
    BY ProbeIs DEF ProverInv
<1>2. "Draw" # NoOutcome /\ "Draw" \notin Decisive /\ NoOutcome \notin Decisive
    BY DEF Decisive, NoOutcome
<1> HIDE DEF e
<1>3. CASE Static[p] # NoOutcome
    <2>1. k = [outcome |-> Static[p], depth |-> 0]
        BY <1>3 DEF Foregone
    <2>2. QED
        BY <1>3, <2>1
<1>4. CASE Static[p] = NoOutcome /\ Board[p] \in Path
    <2>1. k = [outcome |-> "Draw", depth |-> 0]
        BY <1>4 DEF Foregone
    <2>2. QED
        BY <1>2, <2>1
<1>5. CASE Static[p] = NoOutcome /\ Board[p] \notin Path
    <2>1. k = [outcome |-> IF e.outcome \in Decisive THEN e.outcome ELSE NoOutcome, depth |-> e.depth]
        BY <1>5 DEF Foregone, e
    <2>2. QED
        BY <1>1, <1>2, <1>5, <2>1
<1>6. QED
    BY <1>3, <1>4, <1>5

LEMMA EnterAnsweredKeeps == ASSUME ProverInv, EnterAnswered PROVE ProverInv'
<1> DEFINE known == Foregone(call.pos)
           o == IF Stop(spent) THEN "Draw" ELSE known.outcome
<1>1. /\ step = "enter" /\ (Stop(spent) \/ known.outcome # NoOutcome)
      /\ answer' = o
      /\ proved' = proved \cup (IF o \in Decisive THEN {<<call.pos, o, known.depth>>} ELSE {})
      /\ step' = IF frames = <<>> THEN "extract" ELSE "return"
      /\ UNCHANGED <<tt, frames, call, spent, cap, claim, trial, root, upward, late>>
    BY DEF EnterAnswered
<1>2. call.pos \in Pos /\ Grounded(proved)
    BY DEF ProverInv, ProverTypes, Asked
<1>3. known.depth \in Nat /\ (o \in Decisive => Static[call.pos] = o \/ Says(proved, call.pos, o))
    BY <1>2, ForegoneIs DEF Decisive
<1> HIDE DEF known, o
<1>4. Grounded(proved') /\ proved \subseteq proved' /\ (o \in Decisive => Says(proved', call.pos, o))
    <2>1. CASE o \in Decisive
        <3>1. Says(proved, call.pos, o) \/ Justified(proved, call.pos, o)
            BY <1>3, <2>1 DEF Justified
        <3>2. proved' = proved \cup {<<call.pos, o, known.depth>>}
            BY <1>1, <2>1
        <3>3. QED
            BY <1>2, <1>3, <2>1, <3>1, <3>2, GroundedOne
    <2>2. CASE o \notin Decisive
        BY <1>1, <1>2, <2>2
    <2>3. QED
        BY <2>1, <2>2
<1>5. ProverTypes'
    BY <1>1 DEF ProverInv, ProverTypes, Steps
<1>6. TableSaid'
    BY <1>1, <1>4, SaysMore DEF ProverInv, TableSaid
<1>7. StackOK'
    <2>1. \A i \in DOMAIN frames : FrameOK(proved', frames[i])
        BY <1>4, FrameMore DEF ProverInv, StackOK, Stacked
    <2>2. QED
        BY <1>1, <2>1 DEF ProverInv, StackOK, Stacked
<1>8. ControlOK'
    <2>1. Top' = Top
        BY <1>1 DEF Top
    <2>2. QED
        BY <1>1, <2>1 DEF ProverInv, ControlOK
<1>9. TrialOK'
    BY <1>1 DEF TrialOK, Replaying
<1>10. ClaimOK'
    <2>1. claim = <<>>
        BY <1>1 DEF ProverInv, ClaimOK
    <2>2. step' \in {"extract", "finished"} => call.pos = root
        BY <1>1 DEF ProverInv, ControlOK
    <2>3. QED
        BY <1>1, <1>4, <2>1, <2>2 DEF ClaimOK, Decisive
<1>11. QED
    BY <1>4, <1>5, <1>6, <1>7, <1>8, <1>9, <1>10 DEF ProverInv

(* One frame more.                                                         *)
AllCalling(s) == \A i \in DOMAIN s : Calling(s[i])
Fresh(s, f) == \A i \in DOMAIN s : Board[s[i].pos] # Board[f.pos]

LEMMA StackMore ==
    ASSUME NEW S, NEW s \in Seq(Frames), Stacked(S, s), AllCalling(s),
           NEW f \in Frames, FrameOK(S, f), Fresh(s, f), NEW next, next = Pushed(s, f)
    PROVE  /\ next \in Seq(Frames) /\ Len(next) = Len(s) + 1 /\ next # <<>> /\ next[Len(next)] = f
           /\ Stacked(S, next)
           /\ next[1].pos = IF s = <<>> THEN f.pos ELSE s[1].pos
<1>0. /\ \A i \in DOMAIN s : FrameOK(S, s[i])
      /\ \A i, j \in DOMAIN s : Board[s[i].pos] = Board[s[j].pos] => i = j
      /\ \A i \in DOMAIN s : Calling(s[i])
      /\ \A i \in DOMAIN s : Board[s[i].pos] # Board[f.pos]
    BY DEF Stacked, AllCalling, Fresh
<1>1. /\ next \in Seq(Frames) /\ Len(next) = Len(s) + 1 /\ Len(s) \in Nat
      /\ \A i \in 1 .. Len(s) : next[i] = s[i]
      /\ next[Len(s) + 1] = f
    BY AppendProperties DEF Pushed
<1>2. DOMAIN next = 1 .. Len(s) + 1 /\ DOMAIN s = 1 .. Len(s) /\ \A i \in DOMAIN next : i \in DOMAIN s \/ i = Len(s) + 1
    BY <1>1
<1>3. next # <<>> /\ next[Len(next)] = f
    BY <1>1, EmptySeq
<1>4. \A i \in DOMAIN next : FrameOK(S, next[i])
    BY <1>0, <1>1, <1>2
<1>5. \A i \in DOMAIN next : i < Len(next) => Calling(next[i])
    <2> SUFFICES ASSUME NEW i \in DOMAIN next, i < Len(next) PROVE Calling(next[i])
        OBVIOUS
    <2>1. i \in DOMAIN s /\ i \in 1 .. Len(s)
        BY <1>1, <1>2
    <2>2. next[i] = s[i]
        BY <1>1, <2>1
    <2>3. QED
        BY <1>0, <2>1, <2>2
<1>6. \A i, j \in DOMAIN next : Board[next[i].pos] = Board[next[j].pos] => i = j
    <2> SUFFICES ASSUME NEW i \in DOMAIN next, NEW j \in DOMAIN next, Board[next[i].pos] = Board[next[j].pos]
                 PROVE  i = j
        OBVIOUS
    <2>1. \A l \in DOMAIN s : next[l] = s[l]
        BY <1>1, <1>2
    <2>2. CASE i \in DOMAIN s /\ j \in DOMAIN s
        BY <1>0, <2>1, <2>2
    <2>3. CASE i = Len(s) + 1 /\ j = Len(s) + 1
        BY <2>3
    <2>4. CASE i \in DOMAIN s /\ j = Len(s) + 1
        BY <1>0, <1>1, <2>1, <2>4
    <2>5. CASE i = Len(s) + 1 /\ j \in DOMAIN s
        BY <1>0, <1>1, <2>1, <2>5
    <2>6. QED
        BY <1>2, <2>2, <2>3, <2>4, <2>5
<1>7. next[1].pos = IF s = <<>> THEN f.pos ELSE s[1].pos
    <2>1. CASE s = <<>>
        <3>1. Len(s) = 0
            BY <2>1, EmptySeq
        <3>2. next[1] = f
            BY <1>1, <3>1
        <3>3. QED
            BY <2>1, <3>2
    <2>2. CASE s # <<>>
        <3>1. 1 \in 1 .. Len(s)
            BY <1>1, <2>2, EmptySeq
        <3>2. QED
            BY <1>1, <2>2, <3>1
    <2>3. QED
        BY <2>1, <2>2
<1>8. QED
    BY <1>1, <1>3, <1>4, <1>5, <1>6, <1>7 DEF Stacked

(* The children of a position, evaluated.                                  *)
LEMMA EvaluatedIs ==
    ASSUME ProverInv, NEW p \in Pos, NEW path, NEW b, NEW s, s = Evaluated(Sorted(p), path, b)
    PROVE  /\ s \in Seq(Kids) /\ Len(s) = Len(ByLabel[p]) /\ {s[i].to : i \in DOMAIN s} = Succ[p]
           /\ \A k \in Range(s) : /\ k \in Kids
                                  /\ k.outcome \in Decisive => Static[k.to] = k.outcome \/ Says(proved, k.to, k.outcome)
<1> DEFINE moves == Sorted(p)
<1>1. moves \in Seq(Pos) /\ Len(moves) = Len(ByLabel[p]) /\ {moves[i] : i \in DOMAIN moves} = Succ[p]
    BY SortedLists DEF Lists
<1> HIDE DEF moves
<1>2. s = [i \in DOMAIN moves |-> Classify(moves[i], path, b)]
    BY DEF Evaluated, moves
<1>3. Len(moves) \in Nat /\ DOMAIN moves = 1 .. Len(moves) /\ \A i \in DOMAIN moves : moves[i] \in Pos
    BY <1>1
<1>4. \A c \in Pos : /\ Classify(c, path, b) \in Kids /\ Classify(c, path, b).to = c
                     /\ Classify(c, path, b).outcome \in Decisive =>
                           Static[c] = Classify(c, path, b).outcome \/ Says(proved, c, Classify(c, path, b).outcome)
    BY ClassifyIs DEF ProverInv
<1>5. \A i \in DOMAIN moves : s[i] = Classify(moves[i], path, b)
    BY <1>2
<1>6. DOMAIN s = DOMAIN moves /\ \A i \in DOMAIN s : s[i] \in Kids /\ s[i].to = moves[i]
    BY <1>2, <1>3, <1>4, <1>5
<1>7. s \in [1 .. Len(moves) -> Kids]
    BY <1>2, <1>3, <1>6
<1>8. s \in Seq(Kids) /\ Len(s) = Len(moves)
    BY <1>3, <1>7
<1>9. {s[i].to : i \in DOMAIN s} = Succ[p]
    BY <1>1, <1>6
<1>10. \A i \in DOMAIN s : s[i].outcome \in Decisive => Static[s[i].to] = s[i].outcome \/ Says(proved, s[i].to, s[i].outcome)
    BY <1>3, <1>4, <1>5, <1>6
<1>11. QED
    BY <1>1, <1>6, <1>8, <1>9, <1>10 DEF Range

LEMMA EnterOpenKeeps == ASSUME ProverInv, EnterOpen PROVE ProverInv'
<1> DEFINE p == call.pos
           b == ~IsOr(Len(frames) + 1)
           path == Path \cup {Board[p]}
           s == Evaluated(Sorted(p), path, b)
           f == Frame(p, call.thPn, call.thDn, s)
<1>1. /\ step = "enter" /\ ~Stop(spent) /\ Foregone(p).outcome = NoOutcome
      /\ frames' = Append(frames, f)
      /\ proved' = proved \cup Events(Range(s))
      /\ spent' = spent + Len(s)
      /\ step' = "loop"
      /\ UNCHANGED <<tt, call, cap, answer, claim, trial, root, upward, late>>
    BY DEF EnterOpen
<1>2. /\ p \in Pos /\ call.thPn \in Nat /\ call.thDn \in Nat
      /\ frames \in Seq(Frames) /\ Grounded(proved) /\ spent \in Nat
    BY DEF ProverInv, ProverTypes, Asked
<1>3. Static[p] = NoOutcome /\ Board[p] \notin Path
    BY <1>1, <1>2, ForegoneIs
<1> HIDE DEF p, b, path
<1>4. /\ s \in Seq(Kids) /\ Len(s) = Len(ByLabel[p]) /\ {s[i].to : i \in DOMAIN s} = Succ[p]
      /\ \A k \in Range(s) : /\ k \in Kids
                             /\ k.outcome \in Decisive => Static[k.to] = k.outcome \/ Says(proved, k.to, k.outcome)
    BY <1>2, EvaluatedIs
<1> HIDE DEF s
<1>5. Grounded(proved') /\ proved \subseteq proved' /\ \A k \in Range(s) : k.outcome \in Decisive => Says(proved', k.to, k.outcome)
    <2> DEFINE K == Range(s)
    <2>1. K \in SUBSET Kids
        BY <1>4
    <2> HIDE DEF K
    <2>2. \A k \in K : k.outcome \in Decisive => Static[k.to] = k.outcome \/ Says(proved, k.to, k.outcome)
        BY <1>4 DEF K
    <2>3. proved' = proved \cup Events(K)
        BY <1>1 DEF K
    <2>4. QED
        BY <1>2, <2>1, <2>2, <2>3, EventsGrounded DEF K
<1>6. /\ f \in Frames /\ f.pos = p /\ FrameOK(proved', f)
    <2>1. f \in Frames /\ f.pos = p /\ f.kids = s
        BY <1>2, <1>4, NumbersAssumption DEF Frame, Frames
    <2>2. \A i \in DOMAIN s : s[i].outcome \in Decisive => Says(proved', s[i].to, s[i].outcome)
        BY <1>5 DEF Range
    <2> HIDE DEF f
    <2>3. QED
        BY <1>3, <1>4, <2>1, <2>2 DEF FrameOK
<1> HIDE DEF f
<1>7. /\ frames' \in Seq(Frames) /\ Len(frames') = Len(frames) + 1 /\ frames' # <<>> /\ frames'[Len(frames')] = f
      /\ Stacked(proved', frames')
      /\ frames'[1].pos = IF frames = <<>> THEN f.pos ELSE frames[1].pos
    <2>1. \A i \in DOMAIN frames : FrameOK(proved', frames[i])
        BY <1>5, FrameMore DEF ProverInv, StackOK, Stacked
    <2>2. \A i, j \in DOMAIN frames : Board[frames[i].pos] = Board[frames[j].pos] => i = j
        BY DEF ProverInv, StackOK, Stacked
    <2>3. \A i \in DOMAIN frames : Calling(frames[i])
        <3> SUFFICES ASSUME NEW i \in DOMAIN frames PROVE Calling(frames[i])
            OBVIOUS
        <3>1. i \in 1 .. Len(frames) /\ Len(frames) \in Nat /\ frames # <<>>
            BY <1>2, EmptySeq
        <3>2. Calling(Top) /\ Top = frames[Len(frames)]
            BY <1>1, <3>1 DEF ProverInv, ControlOK, Top
        <3>3. i < Len(frames) \/ i = Len(frames)
            BY <3>1
        <3>4. QED
            BY <3>2, <3>3 DEF ProverInv, StackOK, Stacked
    <2>4. \A i \in DOMAIN frames : Board[frames[i].pos] # Board[f.pos]
        <3>1. DOMAIN frames = 1 .. Len(frames)
            BY <1>2
        <3>2. QED
            BY <1>3, <1>6, <3>1 DEF Path
    <2> DEFINE old == frames
               next == frames'
               S == proved'
    <2>5. /\ old \in Seq(Frames) /\ next = Pushed(old, f)
          /\ Stacked(S, old) /\ AllCalling(old) /\ Fresh(old, f)
          /\ f \in Frames /\ FrameOK(S, f)
        BY <1>1, <1>2, <1>6, <2>1, <2>2, <2>3, <2>4 DEF Pushed, Stacked, AllCalling, Fresh
    <2> HIDE DEF old, next, S
    <2>6. /\ next \in Seq(Frames) /\ Len(next) = Len(old) + 1 /\ next # <<>> /\ next[Len(next)] = f
          /\ Stacked(S, next)
          /\ next[1].pos = IF old = <<>> THEN f.pos ELSE old[1].pos
        BY <2>5, StackMore
    <2>7. QED
        BY <2>6 DEF old, next, S
<1>8. spent' \in Nat
    BY <1>1, <1>2, <1>4
<1>9. ProverTypes'
    BY <1>1, <1>7, <1>8 DEF ProverInv, ProverTypes, Steps
<1>10. TableSaid'
    BY <1>1, <1>5, SaysMore DEF ProverInv, TableSaid
<1>11. StackOK'
    BY <1>7 DEF StackOK
<1>12. ControlOK'
    <2>1. frames'[1].pos = root
        BY <1>1, <1>6, <1>7 DEF ProverInv, ControlOK, p
    <2>2. QED
        BY <1>1, <1>7, <2>1 DEF ControlOK
<1>13. TrialOK'
    BY <1>1 DEF TrialOK, Replaying
<1>14. ClaimOK'
    <2>1. claim = <<>>
        BY <1>1 DEF ProverInv, ClaimOK
    <2>2. QED
        BY <1>1, <2>1 DEF ClaimOK
<1>15. QED
    BY <1>5, <1>9, <1>10, <1>11, <1>12, <1>13, <1>14 DEF ProverInv

(* The stack without its top.                                              *)
LEMMA StackLess ==
    ASSUME NEW S, NEW T, S \subseteq T, NEW s \in Seq(Frames), s # <<>>, Stacked(S, s),
           NEW next, next = Front(s)
    PROVE  /\ next \in Seq(Frames) /\ Len(next) = Len(s) - 1 /\ (next = <<>> <=> Len(s) = 1)
           /\ Stacked(T, next)
           /\ next # <<>> => next[1].pos = s[1].pos /\ Calling(next[Len(next)])
<1>0. /\ \A i \in DOMAIN s : FrameOK(S, s[i])
      /\ \A i, j \in DOMAIN s : Board[s[i].pos] = Board[s[j].pos] => i = j
      /\ \A i \in DOMAIN s : i < Len(s) => Calling(s[i])
    BY DEF Stacked
<1>1. Len(s) \in Nat /\ Len(s) >= 1 /\ DOMAIN s = 1 .. Len(s)
    BY EmptySeq
<1> DEFINE l == Len(s)
<1> HIDE DEF l
<1>2. l \in Nat /\ l >= 1 /\ l = Len(s)
    BY <1>1 DEF l
<1>3. next \in Seq(Frames) /\ Len(next) = l - 1 /\ \A i \in 1 .. l - 1 : next[i] = s[i]
    <2>1. \A i \in 1 .. l - 1 : s[i] \in Frames
        BY <1>2
    <2>2. next = SubSeq(s, 1, l - 1)
        BY <1>2 DEF Front
    <2>3. /\ next \in Seq(Frames)
          /\ Len(next) = IF 1 <= l - 1 THEN (l - 1) - 1 + 1 ELSE 0
          /\ \A i \in 1 .. (l - 1) - 1 + 1 : next[i] = s[1 + i - 1]
        <3>1. 1 \in Int /\ l - 1 \in Int
            BY <1>2
        <3>2. QED
            BY <2>1, <2>2, <3>1, SubSeqProperties
    <2>4. (IF 1 <= l - 1 THEN (l - 1) - 1 + 1 ELSE 0) = l - 1 /\ (l - 1) - 1 + 1 = l - 1
        BY <1>2
    <2>5. \A i \in 1 .. l - 1 : 1 + i - 1 = i
        BY <1>2
    <2>6. QED
        BY <2>3, <2>4, <2>5
<1>4. DOMAIN next = 1 .. l - 1 /\ \A i \in DOMAIN next : i \in DOMAIN s /\ i < Len(s) /\ next[i] = s[i]
    BY <1>1, <1>2, <1>3
<1>5. \A i \in DOMAIN next : FrameOK(T, next[i]) /\ Calling(next[i])
    <2> SUFFICES ASSUME NEW i \in DOMAIN next PROVE FrameOK(T, next[i]) /\ Calling(next[i])
        OBVIOUS
    <2>1. i \in DOMAIN s /\ i < Len(s) /\ next[i] = s[i]
        BY <1>4
    <2>2. FrameOK(T, s[i])
        BY <1>0, <2>1, FrameMore
    <2>3. QED
        BY <1>0, <2>1, <2>2
<1>6. \A i, j \in DOMAIN next : Board[next[i].pos] = Board[next[j].pos] => i = j
    <2> SUFFICES ASSUME NEW i \in DOMAIN next, NEW j \in DOMAIN next, Board[next[i].pos] = Board[next[j].pos]
                 PROVE  i = j
        OBVIOUS
    <2>1. i \in DOMAIN s /\ j \in DOMAIN s /\ next[i] = s[i] /\ next[j] = s[j]
        BY <1>4
    <2>2. QED
        BY <1>0, <2>1
<1>7. next = <<>> <=> Len(s) = 1
    <2>1. next = <<>> <=> Len(next) = 0
        BY <1>3, EmptySeq
    <2>2. Len(next) = 0 <=> l = 1
        BY <1>2, <1>3
    <2>3. QED
        BY <1>2, <2>1, <2>2
<1>8. next # <<>> => next[1].pos = s[1].pos /\ Calling(next[Len(next)])
    <2> SUFFICES ASSUME next # <<>> PROVE next[1].pos = s[1].pos /\ Calling(next[Len(next)])
        OBVIOUS
    <2>1. 1 \in DOMAIN next /\ Len(next) \in DOMAIN next
        BY <1>3, <1>4, EmptySeq
    <2>2. QED
        BY <1>4, <1>5, <2>1
<1>9. QED
    BY <1>2, <1>3, <1>5, <1>6, <1>7, <1>8 DEF Stacked

(* A frame ends.                                                           *)
LEMMA LeaveKeeps ==
    ASSUME ProverInv, step = "loop", NEW o \in Outcomes \cup {NoOutcome}, NEW best \in Pos \cup {NoMove},
           NEW pn \in Nat, NEW dn \in Nat, NEW depth \in Nat, Leave(o, best, pn, dn, depth),
           o \in Decisive => Justified(proved, Top.pos, o)
    PROVE  ProverInv'
<1> DEFINE e == IF o \in Decisive
                THEN Entry(o, best, PnOf(o, IsOr(Len(frames))), DnOf(o, IsOr(Len(frames))), depth)
                ELSE IF o = "Draw" THEN Entry(NoOutcome, best, 1, 1, depth)
                ELSE Entry(NoOutcome, best, IF pn = 0 THEN 1 ELSE pn, IF dn = 0 THEN 1 ELSE dn, 0)
           p == Top.pos
<1>1. /\ Store(p, e)
      /\ proved' = proved \cup (IF o \in Decisive THEN {<<p, o, depth>>} ELSE {})
      /\ answer' = IF o \in Decisive THEN o ELSE "Draw"
      /\ frames' = Front(frames)
      /\ step' = IF Len(frames) = 1 THEN "extract" ELSE "return"
      /\ UNCHANGED <<call, spent, cap, claim, trial, root, upward, late>>
    BY DEF Leave
<1>2. frames # <<>> /\ frames[1].pos = root /\ frames \in Seq(Frames) /\ Grounded(proved)
    BY DEF ProverInv, ProverTypes, ControlOK
<1>3. p \in Pos /\ Top = frames[Len(frames)]
    BY <1>2, TopIs
<1>4. e \in Entries /\ (e.outcome \in Decisive => e.outcome = o)
    <2>1. \A x \in Outcomes \cup {NoOutcome}, m \in Nat, n \in Nat, d \in Nat :
              Entry(x, best, m, n, d) \in Entries /\ Entry(x, best, m, n, d).outcome = x
        BY NumbersAssumption DEF Entry, Entries
    <2>2. NoOutcome \notin Decisive
        BY DEF Decisive, NoOutcome
    <2>3. CASE o \in Decisive
        <3> DEFINE m == PnOf(o, IsOr(Len(frames)))
                   n == DnOf(o, IsOr(Len(frames)))
        <3>1. m \in Nat /\ n \in Nat
            BY PnDnNat
        <3>2. e = Entry(o, best, m, n, depth)
            BY <2>3
        <3> HIDE DEF m, n, e
        <3>3. QED
            BY <2>1, <3>1, <3>2
    <2>4. CASE o \notin Decisive /\ o = "Draw"
        <3>1. e = Entry(NoOutcome, best, 1, 1, depth)
            BY <2>4
        <3>2. Entry(NoOutcome, best, 1, 1, depth) \in Entries /\ Entry(NoOutcome, best, 1, 1, depth).outcome = NoOutcome
            BY <2>1
        <3> HIDE DEF e
        <3>3. QED
            BY <2>2, <3>1, <3>2
    <2>5. CASE o \notin Decisive /\ o # "Draw"
        <3> DEFINE m == IF pn = 0 THEN 1 ELSE pn
                   n == IF dn = 0 THEN 1 ELSE dn
        <3>1. m \in Nat /\ n \in Nat
            OBVIOUS
        <3>2. e = Entry(NoOutcome, best, m, n, 0)
            BY <2>5
        <3> HIDE DEF m, n
        <3>3. Entry(NoOutcome, best, m, n, 0) \in Entries /\ Entry(NoOutcome, best, m, n, 0).outcome = NoOutcome
            BY <2>1, <3>1
        <3> HIDE DEF e
        <3>4. QED
            BY <2>2, <3>2, <3>3
    <2>6. QED
        BY <2>3, <2>4, <2>5
<1> HIDE DEF e, p
<1>5. Grounded(proved') /\ proved \subseteq proved' /\ (o \in Decisive => Says(proved', p, o))
    <2>1. CASE o \in Decisive
        <3>1. proved' = proved \cup {<<p, o, depth>>} /\ Justified(proved, p, o)
            BY <1>1, <2>1 DEF p
        <3>2. QED
            BY <1>2, <1>3, <2>1, <3>1, GroundedOne
    <2>2. CASE o \notin Decisive
        BY <1>1, <1>2, <2>2
    <2>3. QED
        BY <2>1, <2>2
<1>6. /\ DOMAIN tt' \subseteq Pos /\ tt' \in [DOMAIN tt' -> Entries]
      /\ \A q \in DOMAIN tt' : tt'[q].outcome \in Decisive => Says(proved', q, tt'[q].outcome)
    <2>1. ProverTypes /\ TableSaid
        BY DEF ProverInv
    <2>2. e.outcome \in Decisive => Says(proved', p, e.outcome)
        BY <1>4, <1>5
    <2> DEFINE S == proved'
    <2>3. proved \subseteq S /\ (e.outcome \in Decisive => Says(S, p, e.outcome))
        BY <1>5, <2>2
    <2> HIDE DEF S
    <2>4. /\ DOMAIN tt' \subseteq Pos /\ tt' \in [DOMAIN tt' -> Entries]
          /\ \A q \in DOMAIN tt' : tt'[q].outcome \in Decisive => Says(S, q, tt'[q].outcome)
        BY <1>1, <1>3, <1>4, <2>1, <2>3, StoreSaid
    <2>5. QED
        BY <2>4 DEF S
<1>7. /\ frames' \in Seq(Frames) /\ (frames' = <<>> <=> Len(frames) = 1)
      /\ Stacked(proved', frames')
      /\ frames' # <<>> => frames'[1].pos = root /\ Calling(Top')
    <2> DEFINE S == proved'
               old == frames
               next == frames'
    <2>1. /\ proved \subseteq S /\ old \in Seq(Frames) /\ old # <<>> /\ Stacked(proved, old)
          /\ next = Front(old) /\ old[1].pos = root
        BY <1>1, <1>2, <1>5 DEF ProverInv, StackOK
    <2>2. Top' = next[Len(next)]
        BY DEF Top
    <2> HIDE DEF S, old, next
    <2>3. /\ next \in Seq(Frames) /\ (next = <<>> <=> Len(old) = 1)
          /\ Stacked(S, next)
          /\ next # <<>> => next[1].pos = old[1].pos /\ Calling(next[Len(next)])
        BY <2>1, StackLess
    <2>4. QED
        BY <2>1, <2>2, <2>3 DEF S, old, next
<1>8. ProverTypes'
    BY <1>1, <1>6, <1>7 DEF ProverInv, ProverTypes, Steps
<1>9. TableSaid'
    BY <1>6 DEF TableSaid
<1>10. StackOK'
    BY <1>7 DEF StackOK
<1>11. ControlOK'
    BY <1>1, <1>7 DEF ControlOK
<1>12. TrialOK'
    BY <1>1 DEF TrialOK, Replaying
<1>13. ClaimOK'
    <2>1. claim = <<>>
        BY DEF ProverInv, ClaimOK
    <2>2. Len(frames) = 1 => p = root
        BY <1>2, <1>3 DEF p
    <2>3. QED
        BY <1>1, <1>5, <2>1, <2>2 DEF ClaimOK, Decisive
<1>14. QED
    BY <1>5, <1>8, <1>9, <1>10, <1>11, <1>12, <1>13 DEF ProverInv

LEMMA LeaveCutKeeps == ASSUME ProverInv, LeaveCut PROVE ProverInv'
<1>1. step = "loop" /\ Leave(NoOutcome, Top.best, Top.pn, Top.dn, 0)
    BY DEF LeaveCut
<1>2. frames # <<>>
    BY <1>1 DEF ProverInv, ControlOK
<1>3. Top.best \in Pos \cup {NoMove} /\ Top.pn \in Nat /\ Top.dn \in Nat
    BY <1>2, TopIs
<1>4. NoOutcome \notin Decisive
    BY DEF NoOutcome, Decisive
<1>5. QED
    BY <1>1, <1>3, <1>4, LeaveKeeps

LEMMA LeaveSettledKeeps == ASSUME ProverInv, LeaveSettled PROVE ProverInv'
<1> DEFINE found == Settles(Top.kids)
<1>1. step = "loop" /\ found.outcome # NoOutcome /\ Leave(found.outcome, found.best, 0, 0, found.depth)
    BY DEF LeaveSettled
<1>2. frames # <<>>
    BY <1>1 DEF ProverInv, ControlOK
<1>3. /\ found.outcome \in Outcomes \cup {NoOutcome}
      /\ found.outcome # NoOutcome => found.depth \in Nat /\ found.best \in Pos
      /\ found.outcome \in Decisive => Justified(proved, Top.pos, found.outcome)
    BY <1>2, TopIs, SettlesIs
<1> HIDE DEF found
<1>4. QED
    BY <1>1, <1>3, LeaveKeeps

(* What settles nothing has an open child.                                 *)
LEMMA SettlesOpen ==
    ASSUME NEW s \in Seq(Kids), Settles(s).outcome = NoOutcome
    PROVE  OpenIds(s) # {}
<1> DEFINE has(o) == \E k \in Range(s) : k.outcome = o
<1>1. Settles(s) = CASE has("Loss") -> Settled("Win", Nearest(s, "Loss"))
          [] ~has("Loss") /\ has(NoOutcome) -> NotSettled
          [] ~has("Loss") /\ ~has(NoOutcome) /\ has("Draw") -> Settled("Draw", Farthest(s, "Draw"))
          [] OTHER -> Settled("Loss", Farthest(s, "Win"))
    BY DEF Settles
<1>2. \A o, k : Settled(o, k).outcome = o
    BY DEF Settled
<1>3. NoOutcome \notin {"Win", "Loss", "Draw"}
    BY DEF NoOutcome
<1> HIDE DEF has
<1>4. has(NoOutcome)
    <2>1. SUFFICES ASSUME ~has(NoOutcome) PROVE FALSE
        OBVIOUS
    <2>2. CASE has("Loss")
        <3>1. Settles(s) = Settled("Win", Nearest(s, "Loss"))
            BY <1>1, <2>2
        <3>2. QED
            BY <1>2, <1>3, <3>1
    <2>3. CASE ~has("Loss") /\ has("Draw")
        <3>1. Settles(s) = Settled("Draw", Farthest(s, "Draw"))
            BY <1>1, <2>1, <2>3
        <3>2. QED
            BY <1>2, <1>3, <3>1
    <2>4. CASE ~has("Loss") /\ ~has("Draw")
        <3>1. Settles(s) = Settled("Loss", Farthest(s, "Win"))
            BY <1>1, <2>1, <2>4
        <3>2. QED
            BY <1>2, <1>3, <3>1
    <2>5. QED
        BY <2>2, <2>3, <2>4
<1>5. QED
    BY <1>4 DEF has, OpenIds, Range

(* The child searched next is one, and the numbers of the node are numbers.*)
LEMMA NextKidIs ==
    ASSUME ProverInv, frames # <<>>, Settles(Top.kids).outcome = NoOutcome
    PROVE  /\ NextKid \in DOMAIN Top.kids /\ NextKid \in Nat
           /\ Top.kids[NextKid].to \in Pos /\ Top.kids[NextKid].pn \in Nat /\ Top.kids[NextKid].dn \in Nat
           /\ NowPn \in Nat /\ NowDn \in Nat
<1> DEFINE s == Top.kids
           b == IsOr(Len(frames))
           ids == OpenIds(s)
<1>1. s \in Seq(Kids) /\ s # <<>>
    BY TopIs
<1>2. NowPn = PnSum(s, b) /\ NowDn = DnSum(s, b) /\ NextKid = Foremost(s, ids, b)
    BY DEF NowPn, NowDn, NextKid
<1>3. Settles(s).outcome = NoOutcome
    OBVIOUS
<1> HIDE DEF s, b
<1>4. NowPn \in Nat /\ NowDn \in Nat
    BY <1>1, <1>2, SumsNat
<1>5. ids # {} /\ ids \in SUBSET DOMAIN s
    BY <1>1, <1>3, SettlesOpen DEF OpenIds
<1> HIDE DEF ids
<1>6. NextKid \in DOMAIN s
    BY <1>1, <1>2, <1>5, ForemostIs
<1>7. s[NextKid].to \in Pos /\ s[NextKid].pn \in Nat /\ s[NextKid].dn \in Nat
    BY <1>1, <1>6, KidIs
<1>8. NextKid \in Nat
    BY <1>1, <1>6
<1>9. QED
    BY <1>4, <1>6, <1>7, <1>8 DEF s

LEMMA LeaveBeyondKeeps == ASSUME ProverInv, LeaveBeyond PROVE ProverInv'
<1>1. /\ step = "loop" /\ Settles(Top.kids).outcome = NoOutcome
      /\ Leave(NoOutcome, Top.kids[NextKid].to, NowPn, NowDn, 0)
    BY DEF LeaveBeyond
<1>2. frames # <<>>
    BY <1>1 DEF ProverInv, ControlOK
<1>3. Top.kids[NextKid].to \in Pos /\ NowPn \in Nat /\ NowDn \in Nat
    BY <1>1, <1>2, NextKidIs
<1>4. NoOutcome \notin Decisive
    BY DEF NoOutcome, Decisive
<1>5. QED
    BY <1>1, <1>3, <1>4, LeaveKeeps

(* The frame of a child about to be searched.                              *)
Descended(f, at, best, pn, dn) == [f EXCEPT !.at = at, !.best = best, !.pn = pn, !.dn = dn]

LEMMA DescendedIs ==
    ASSUME NEW S, NEW f \in Frames, FrameOK(S, f), NEW at \in DOMAIN f.kids, at \in Nat, NEW best \in Pos,
           NEW pn \in Nat, NEW dn \in Nat, NEW g, g = Descended(f, at, best, pn, dn)
    PROVE  g \in Frames /\ FrameOK(S, g) /\ g.pos = f.pos /\ Calling(g)
<1>1. g \in Frames /\ g.pos = f.pos /\ g.kids = f.kids /\ g.at = at
    BY DEF Descended, Frames
<1>2. QED
    BY <1>1 DEF FrameOK, Calling

LEMMA DescendKeeps == ASSUME ProverInv, Descend PROVE ProverInv'
<1> DEFINE isOr == IsOr(Len(frames))
           n == NextKid
           kid == Top.kids[n]
           tight == EpsCeil(RunnerUp(Top.kids, isOr))
           slack(th, now, own) == IF th = Inf THEN Inf ELSE Minus(th, now) + own
           f == Descended(Top, n, kid.to, NowPn, NowDn)
           thPn == IF isOr THEN Lesser(Top.thPn, tight) ELSE slack(Top.thPn, NowPn, kid.pn)
           thDn == IF isOr THEN slack(Top.thDn, NowDn, kid.dn) ELSE Lesser(Top.thDn, tight)
<1>1. /\ step = "loop" /\ Settles(Top.kids).outcome = NoOutcome /\ step' = "enter"
      /\ call' = [pos |-> kid.to, thPn |-> thPn, thDn |-> thDn]
      /\ frames' = [frames EXCEPT ![Len(frames)] =
                       [@ EXCEPT !.at = n, !.best = kid.to, !.pn = NowPn, !.dn = NowDn]]
      /\ UNCHANGED <<tt, spent, cap, proved, answer, claim, trial, root, upward, late>>
    BY DEF Descend
<1>2. frames # <<>> /\ frames[1].pos = root
    BY <1>1 DEF ProverInv, ControlOK
<1>3. /\ Top \in Frames /\ Top.kids \in Seq(Kids) /\ FrameOK(proved, Top) /\ Top = frames[Len(frames)]
      /\ Len(frames) \in 1 .. Len(frames) /\ frames \in Seq(Frames) /\ Top.thPn \in Nat /\ Top.thDn \in Nat
    BY <1>2, TopIs DEF ProverInv, ProverTypes
<1>4. /\ n \in DOMAIN Top.kids /\ n \in Nat /\ kid.to \in Pos /\ kid.pn \in Nat /\ kid.dn \in Nat
      /\ NowPn \in Nat /\ NowDn \in Nat
    BY <1>1, <1>2, NextKidIs
<1>5. thPn \in Nat /\ thDn \in Nat
    <2>1. tight \in Nat
        <3> DEFINE s == Top.kids
        <3>1. s \in Seq(Kids)
            BY <1>3
        <3> HIDE DEF s, isOr
        <3>2. RunnerUp(s, isOr) \in Nat
            BY <3>1, RunnerUpNat
        <3>3. QED
            BY <3>2, EpsCeilNat DEF s
    <2>2. Inf \in Nat
        BY NumbersAssumption
    <2> HIDE DEF isOr, tight, kid
    <2>a. \A th, now, own \in Nat : slack(th, now, own) \in Nat
        BY <2>2 DEF Minus
    <2>3. slack(Top.thPn, NowPn, kid.pn) \in Nat /\ slack(Top.thDn, NowDn, kid.dn) \in Nat
        <3> HIDE DEF slack
        <3>1. QED
            BY <1>3, <1>4, <2>a
    <2>4. Lesser(Top.thPn, tight) \in Nat /\ Lesser(Top.thDn, tight) \in Nat
        BY <1>3, <2>1 DEF Lesser
    <2> HIDE DEF slack
    <2>5. QED
        BY <2>3, <2>4
<1> HIDE DEF n, kid, thPn, thDn, isOr, tight
<1>6. frames' = Topped(frames, f)
    BY <1>1, <1>3 DEF Topped, Descended
<1>7. f \in Frames /\ FrameOK(proved, f) /\ f.pos = Top.pos /\ Calling(f)
    <2> DEFINE t == Top
    <2>1. t \in Frames /\ FrameOK(proved, t) /\ n \in DOMAIN t.kids /\ f = Descended(t, n, kid.to, NowPn, NowDn)
        BY <1>3, <1>4
    <2> HIDE DEF f, t
    <2>2. f.pos = t.pos /\ f \in Frames /\ FrameOK(proved, f) /\ Calling(f)
        BY <1>4, <2>1, DescendedIs
    <2>3. QED
        BY <2>2 DEF t
<1> HIDE DEF f
<1>8. frames' \in Seq(Frames) /\ frames' # <<>> /\ Top' = f /\ StackOK' /\ frames'[1].pos = root
    BY <1>1, <1>2, <1>6, <1>7, TopSet
<1>9. call' \in Asked
    BY <1>1, <1>4, <1>5 DEF Asked
<1>10. ProverTypes'
    BY <1>1, <1>8, <1>9 DEF ProverInv, ProverTypes, Steps
<1>11. ControlOK'
    BY <1>1, <1>7, <1>8 DEF ControlOK
<1>12. TrialOK' /\ Grounded(proved') /\ TableSaid'
    BY <1>1 DEF ProverInv, TrialOK, Replaying, TableSaid
<1>13. ClaimOK'
    <2>1. claim = <<>>
        BY <1>1 DEF ProverInv, ClaimOK
    <2>2. QED
        BY <1>1, <2>1 DEF ClaimOK
<1>14. QED
    BY <1>8, <1>10, <1>11, <1>12, <1>13 DEF ProverInv

LEMMA ReturnKeeps == ASSUME ProverInv, Return PROVE ProverInv'
<1> DEFINE isOr == IsOr(Len(frames))
           b == ~isOr
           i == Top.at
           old == Top.kids[i]
           new == Classify(old.to, Path, b)
           kid == [new EXCEPT !.simulated = old.simulated]
           f == Rekidded(Top, i, kid)
<1>1. /\ step = "return"
      /\ frames' = [frames EXCEPT ![Len(frames)].kids[i] = kid]
      /\ proved' = proved \cup Events({kid})
      /\ step' = IF ~isOr /\ kid.outcome = "Win" THEN "replay" ELSE "loop"
      /\ spent' = spent + 1
      /\ UNCHANGED <<tt, call, cap, answer, claim, trial, root, upward, late>>
    BY DEF Return
<1>2. frames # <<>> /\ frames[1].pos = root /\ i \in DOMAIN Top.kids
    BY <1>1 DEF ProverInv, ControlOK, Calling
<1>3. /\ Top \in Frames /\ Top.kids \in Seq(Kids) /\ FrameOK(proved, Top) /\ Top = frames[Len(frames)]
      /\ Len(frames) \in 1 .. Len(frames) /\ frames \in Seq(Frames)
    BY <1>2, TopIs DEF ProverInv, ProverTypes
<1>4. old.to \in Pos /\ old.simulated \in BOOLEAN
    BY <1>2, <1>3, KidIs
<1> HIDE DEF b, isOr
<1>5. /\ new \in Kids /\ new.to = old.to
      /\ new.outcome \in Decisive => Static[old.to] = new.outcome \/ Says(proved, old.to, new.outcome)
    <2> DEFINE c == old.to
    <2>1. c \in Pos /\ ProverTypes /\ TableSaid
        BY <1>4 DEF ProverInv
    <2> HIDE DEF c
    <2>2. /\ Classify(c, Path, b) \in Kids
          /\ Classify(c, Path, b).to = c
          /\ Classify(c, Path, b).outcome \in Decisive =>
                \/ Static[c] = Classify(c, Path, b).outcome
                \/ Says(proved, c, Classify(c, Path, b).outcome)
        BY <2>1, ClassifyIs
    <2>3. QED
        BY <2>2 DEF c
<1> HIDE DEF new
<1>6. kid \in Kids /\ kid.to = old.to /\ kid.outcome = new.outcome
    BY <1>4, <1>5 DEF Kids
<1>7. frames' = Topped(frames, f)
    BY <1>1, <1>3 DEF Frames, Topped, Rekidded
<1> HIDE DEF kid
<1>8. Grounded(proved') /\ proved \subseteq proved' /\ (kid.outcome \in Decisive => Says(proved', kid.to, kid.outcome))
    <2> DEFINE K == {kid}
    <2>1. K \in SUBSET Kids /\ Grounded(proved)
        BY <1>6 DEF ProverInv
    <2>2. \A k \in K : k.outcome \in Decisive => Static[k.to] = k.outcome \/ Says(proved, k.to, k.outcome)
        BY <1>5, <1>6
    <2>3. proved' = proved \cup Events(K) /\ kid \in K
        BY <1>1
    <2> HIDE DEF K
    <2>4. QED
        BY <2>1, <2>2, <2>3, EventsGrounded
<1>9. f \in Frames /\ FrameOK(proved', f) /\ f.pos = Top.pos /\ f.at = Top.at /\ DOMAIN f.kids = DOMAIN Top.kids
    <2> DEFINE t == Top
               S == proved
               T == proved'
    <2>1. /\ f = Rekidded(t, i, kid) /\ S \subseteq T /\ t \in Frames /\ FrameOK(S, t)
          /\ i \in DOMAIN t.kids /\ kid \in Kids /\ kid.to = t.kids[i].to
          /\ kid.outcome \in Decisive => Says(T, kid.to, kid.outcome)
        BY <1>2, <1>3, <1>6, <1>8
    <2> HIDE DEF f, t, S, T, i
    <2>2. f \in Frames /\ FrameOK(T, f) /\ f.pos = t.pos /\ f.at = t.at /\ DOMAIN f.kids = DOMAIN t.kids
        BY <2>1, KidChanged
    <2>3. QED
        BY <2>2 DEF t, T
<1> HIDE DEF f
<1>10. frames' \in Seq(Frames) /\ frames' # <<>> /\ Top' = f /\ StackOK' /\ frames'[1].pos = root
    BY <1>2, <1>7, <1>8, <1>9, TopSet
<1>11. ProverTypes'
    <2>1. spent' \in Nat
        BY <1>1 DEF ProverInv, ProverTypes
    <2>2. QED
        BY <1>1, <1>10, <2>1 DEF ProverInv, ProverTypes, Steps
<1>12. ControlOK'
    BY <1>1, <1>2, <1>9, <1>10 DEF ControlOK, Calling
<1>13. TrialOK'
    BY <1>1 DEF TrialOK, Replaying
<1>14. TableSaid'
    BY <1>1, <1>8, SaysMore DEF ProverInv, TableSaid
<1>15. ClaimOK'
    <2>1. claim = <<>>
        BY <1>1 DEF ProverInv, ClaimOK
    <2>2. QED
        BY <1>1, <2>1 DEF ClaimOK
<1>16. QED
    BY <1>8, <1>10, <1>11, <1>12, <1>13, <1>14, <1>15 DEF ProverInv

LEMMA ExtractKeeps == ASSUME ProverInv, Extract PROVE ProverInv'
<1>1. /\ step = "extract" /\ step' = "finished"
      /\ \E pv \in {BestLine} : claim' = IF answer = "Win" /\ ValidWin(pv) THEN pv ELSE <<>>
      /\ UNCHANGED <<tt, frames, call, spent, cap, proved, answer, trial, root, upward, late>>
    BY DEF Extract
<1>2. ProverTypes' /\ TableSaid' /\ Grounded(proved') /\ StackOK'
    BY <1>1 DEF ProverInv, ProverTypes, Steps, TableSaid, StackOK, Stacked
<1>3. ControlOK' /\ TrialOK'
    BY <1>1 DEF ProverInv, ControlOK, TrialOK, Replaying
<1>4. ClaimOK'
    BY <1>1 DEF ProverInv, ClaimOK
<1>5. QED
    BY <1>2, <1>3, <1>4 DEF ProverInv

LEMMA ProverStepKeeps == ASSUME ProverInv, ProverStep PROVE ProverInv'
BY EnterAnsweredKeeps, EnterOpenKeeps, LeaveCutKeeps, LeaveSettledKeeps, LeaveBeyondKeeps,
   DescendKeeps, ReturnKeeps, ReplayStartKeeps, CallKnownKeeps, CallFailsKeeps,
   AttackFollowKeeps, AttackMateKeeps, AttackLostKeeps, AttackReturnsKeeps,
   DefendKeeps, ReplyFailsKeeps, ReplyEndsKeeps, ReplyOpenKeeps, ReplyReturnsKeeps, DefendReturnsKeeps,
   ReplayWonKeeps, ReplaysDoneKeeps, ExtractKeeps DEF ProverStep

-----------------------------------------------------------------------------
(* What the front-end spends                                               *)

LEMMA RoomFacts ==
    /\ MaxMoves \in Nat /\ MaxMoves >= 1 /\ SimulationBudget \in Nat /\ SimulationBudget >= 1
    /\ SimulationBudget * MaxMoves \in Nat /\ MaxMoves <= SimulationBudget * MaxMoves
    /\ \A l \in 1 .. SimulationBudget : /\ l * MaxMoves \in Nat /\ (l - 1) * MaxMoves \in Nat
                                        /\ (l - 1) * MaxMoves = l * MaxMoves - MaxMoves
                                        /\ l * MaxMoves <= SimulationBudget * MaxMoves
<1>1. MaxMoves \in Nat /\ MaxMoves >= 1 /\ SimulationBudget \in Nat /\ SimulationBudget >= 1
    BY StagesAssumption, NumbersAssumption
<1> DEFINE m == MaxMoves
           s == SimulationBudget
<1>2. m \in Nat /\ m >= 1 /\ s \in Nat /\ s >= 1
    BY <1>1
<1> HIDE DEF m, s
<1>3. \A l \in 1 .. s : /\ l * m \in Nat /\ (l - 1) * m \in Nat /\ (l - 1) * m = l * m - m
                        /\ l * m <= s * m
    <2> SUFFICES ASSUME NEW l \in 1 .. s
                 PROVE  /\ l * m \in Nat /\ (l - 1) * m \in Nat /\ (l - 1) * m = l * m - m
                        /\ l * m <= s * m
        OBVIOUS
    <2>1. l \in Nat /\ l - 1 \in Nat /\ s - l \in Nat
        BY <1>2
    <2>2. l * m \in Nat /\ (l - 1) * m \in Nat /\ (s - l) * m \in Nat
        BY <1>2, <2>1
    <2>3. (l - 1) * m = l * m - m
        BY <1>2, <2>1
    <2>4. (s - l) * m = s * m - l * m
        BY <1>2, <2>1
    <2>5. s * m \in Nat
        BY <1>2
    <2>6. QED
        BY <2>2, <2>3, <2>4, <2>5
<1>4. s * m \in Nat /\ m <= s * m
    <2>1. s * m \in Nat /\ 1 * m <= s * m
        BY <1>2, <1>3
    <2>2. QED
        BY <1>2, <2>1
<1>5. QED
    BY <1>1, <1>3, <1>4 DEF m, s

(* The boards of the active calls differ, and none of them ends the game.  *)
LEMMA StackedDepth ==
    ASSUME NEW S, NEW s \in Seq(Frames), Stacked(S, s)
    PROVE  Depth \in Nat /\ Len(s) \in Nat /\ Len(s) <= Depth
<1> DEFINE open == {x \in Pos : Static[x] = NoOutcome}
           boards == {Board[p] : p \in open}
           f == [p \in open |-> Board[p]]
           g == [i \in 1 .. Len(s) |-> Board[s[i].pos]]
<1>1. IsFiniteSet(boards)
    <2>1. IsFiniteSet(open)
        <3>1. open \subseteq Pos
            OBVIOUS
        <3> HIDE DEF open
        <3>2. QED
            BY <3>1, MovesAssumption, FS_Subset
    <2>2. f \in Surjection(open, boards)
        BY DEF Surjection
    <2> HIDE DEF open, boards, f
    <2>3. QED
        BY <2>1, <2>2, FS_Surjection
<1>2. Len(s) \in Nat /\ DOMAIN s = 1 .. Len(s)
    OBVIOUS
<1>3. g \in Injection(1 .. Len(s), boards)
    <2>1. \A i \in 1 .. Len(s) : s[i] \in Frames /\ FrameOK(S, s[i])
        BY <1>2 DEF Stacked
    <2>2. \A i \in 1 .. Len(s) : s[i].pos \in open
        BY <2>1 DEF Frames, FrameOK
    <2>3. \A i \in 1 .. Len(s) : Board[s[i].pos] \in boards
        BY <2>2
    <2>4. \A i, j \in 1 .. Len(s) : Board[s[i].pos] = Board[s[j].pos] => i = j
        BY <1>2 DEF Stacked
    <2> HIDE DEF boards
    <2>5. g \in [1 .. Len(s) -> boards] /\ \A i, j \in 1 .. Len(s) : g[i] = g[j] => i = j
        BY <2>3, <2>4
    <2>6. QED
        BY <2>5 DEF Injection, IsInjective
<1>4. Depth = Cardinality(boards)
    BY DEF Depth
<1> HIDE DEF boards, g
<1>5. Cardinality(1 .. Len(s)) <= Cardinality(boards)
    BY <1>1, <1>3, FS_Injection
<1>6. Cardinality(1 .. Len(s)) = Len(s)
    BY <1>2, FS_Interval
<1>7. Cardinality(boards) \in Nat
    BY <1>1, FS_CardinalityType
<1>8. QED
    BY <1>2, <1>4, <1>5, <1>6, <1>7

LEMMA DepthIs ==
    ASSUME ProverInv
    PROVE  Depth \in Nat /\ Len(frames) \in Nat /\ Len(frames) <= Depth
<1> DEFINE S == proved
           s == frames
<1>1. s \in Seq(Frames) /\ Stacked(S, s)
    BY DEF ProverInv, ProverTypes, StackOK
<1> HIDE DEF S, s
<1>2. Depth \in Nat /\ Len(s) \in Nat /\ Len(s) <= Depth
    BY <1>1, StackedDepth
<1>3. QED
    BY <1>2 DEF s

LEMMA SpentTypes ==
    ASSUME ProverInv
    PROVE  spent \in Nat /\ cap \in Nat /\ trial.left \in Nat /\ Len(frames) \in Nat
BY TrialIs, DepthIs DEF ProverInv, ProverTypes

(* A charge that a replay can meet from what it has left, or from the cap. *)
LEMMA AffordsPaid ==
    ASSUME ProverInv, NEW n \in Nat, cap >= 1, n <= (cap - 1) + SimulationBudget * MaxMoves
    PROVE  n + Len(frames) <= Highest
BY DepthIs, SpentTypes, RoomFacts DEF Highest

LEMMA ReplayCharge ==
    ASSUME ProverInv, SpentOK, Replaying, spent < cap, trial.left \in Nat \ {0}, NEW n \in Nat,
           n <= MaxMoves \/ (trial.left >= 2 /\ n <= MaxMoves + 1), cap \in Nat, cap >= 1
    PROVE  spent + n <= (cap - 1) + SimulationBudget * MaxMoves
<1> DEFINE B == SimulationBudget * MaxMoves
<1>1. B \in Nat /\ MaxMoves \in Nat /\ MaxMoves <= B /\ spent \in Nat /\ MaxMoves >= 1
    BY RoomFacts, SpentTypes
<1>2. trial.left <= SimulationBudget
    BY DEF SpentOK
<1>3. CASE n <= MaxMoves
    <2> HIDE DEF B
    <2>1. spent <= cap - 1
        BY <1>1
    <2>2. QED
        BY <1>1, <1>3, <2>1 DEF B
<1>4. CASE trial.left >= 2 /\ n <= MaxMoves + 1
    <2>1. 2 \in 1 .. SimulationBudget
        BY <1>2, <1>4, RoomFacts
    <2>2. 2 * MaxMoves <= B
        BY <2>1, RoomFacts
    <2> HIDE DEF B
    <2>3. MaxMoves + 1 <= B
        BY <1>1, <2>2
    <2>4. spent <= cap - 1
        BY <1>1
    <2>5. QED
        BY <1>1, <1>4, <2>3, <2>4 DEF B
<1>5. QED
    BY <1>3, <1>4

(* A step inside a replay, or out of it.                                   *)
LEMMA SpentReplays ==
    ASSUME ProverInv, SpentOK, budget \in Nat, budget' = budget, Replaying, UNCHANGED aroundReplay,
           step' \in {"call", "reply", "answered", "replay"},
           spent' = spent \/ (spent' \in Nat /\ spent' <= (cap - 1) + SimulationBudget * MaxMoves),
           step' = "replay" \/ (trial'.left <= SimulationBudget /\ (trial'.calls # <<>> => Paid'))
    PROVE  SpentOK'
<1>1. cap \in 1 .. budget /\ cap \in Nat /\ cap >= 1 /\ Affords(Len(frames))
    BY DEF SpentOK, Replaying
<1>2. cap' = cap /\ frames' = frames /\ Highest' = Highest
    BY DEF aroundReplay, Highest
<1>3. Affords(Len(frames))'
    <2>1. CASE spent' = spent
        BY <1>1, <1>2, <2>1 DEF Affords
    <2>2. CASE spent' \in Nat /\ spent' <= (cap - 1) + SimulationBudget * MaxMoves
        <3>1. spent' + Len(frames) <= Highest
            BY <1>1, <2>2, AffordsPaid
        <3>2. QED
            BY <1>2, <3>1 DEF Affords
    <2>3. QED
        BY <2>1, <2>2
<1>4. QED
    BY <1>1, <1>2, <1>3 DEF SpentOK, Replaying

LEMMA SpentGaveUp ==
    ASSUME ProverInv, SpentOK, budget \in Nat, budget' = budget, Replaying, UNCHANGED aroundReplay,
           NEW n \in Nat, GiveUp(n), n = 0 \/ spent + n <= (cap - 1) + SimulationBudget * MaxMoves
    PROVE  SpentOK'
<1>1. step' = "replay" /\ spent' = spent + n /\ spent \in Nat
    BY SpentTypes DEF GiveUp
<1>2. spent' = spent \/ (spent' \in Nat /\ spent' <= (cap - 1) + SimulationBudget * MaxMoves)
    BY <1>1
<1>3. step' \in {"call", "reply", "answered", "replay"}
    BY <1>1
<1>4. QED
    BY <1>1, <1>2, <1>3, SpentReplays

(* What may still be spent when a call of a replay is made.                *)
LEMMA SpentCall ==
    ASSUME ProverInv, SpentOK, budget \in Nat, NEW o, CallOpen(o)
    PROVE  /\ Replaying /\ spent < cap /\ cap \in Nat /\ cap >= 1 /\ spent \in Nat
           /\ trial.left \in Nat /\ trial.left >= 1 /\ trial.left <= SimulationBudget
<1>1. step = "call" /\ ~Stop(spent) /\ trial.left > 0
    BY DEF CallOpen
<1>2. cap \in 1 .. budget /\ trial.left <= SimulationBudget /\ Replaying
    BY <1>1 DEF SpentOK, Replaying
<1>3. spent \in Nat /\ trial.left \in Nat
    BY SpentTypes
<1>4. cap \in Nat /\ cap >= 1
    BY <1>2
<1>5. spent < cap
    BY <1>1, <1>3, <1>4 DEF Stop
<1>6. QED
    BY <1>1, <1>2, <1>3, <1>4, <1>5

LEMMA CallKnownSpends ==
    ASSUME ProverInv, SpentOK, budget \in Nat, budget' = budget, CallKnown PROVE SpentOK'
<1>1. /\ step = "call" /\ step' = "answered" /\ spent' = spent /\ UNCHANGED aroundReplay
      /\ trial' = [trial EXCEPT !.depth = KnownTo(trial.pos).depth, !.best = KnownTo(trial.pos).best]
    BY DEF CallKnown
<1>2. Replaying
    BY <1>1 DEF Replaying
<1>3. trial'.left = trial.left /\ trial'.calls = trial.calls
    BY <1>1, TrialIs DEF Trials
<1>4. trial.left <= SimulationBudget /\ (trial.calls # <<>> => Paid)
    BY <1>2 DEF SpentOK
<1>5. Paid => Paid'
    BY <1>1, <1>3 DEF Paid, aroundReplay
<1>6. trial'.left <= SimulationBudget /\ (trial'.calls # <<>> => Paid')
    BY <1>3, <1>4, <1>5
<1>7. step' \in {"call", "reply", "answered", "replay"}
    BY <1>1
<1>8. QED
    BY <1>1, <1>2, <1>6, <1>7, SpentReplays

LEMMA CallFailsSpends ==
    ASSUME ProverInv, SpentOK, budget \in Nat, budget' = budget, CallFails PROVE SpentOK'
<1>1. step = "call" /\ GiveUp(0) /\ UNCHANGED aroundReplay /\ 0 \in Nat
    BY DEF CallFails
<1>2. Replaying
    BY <1>1 DEF Replaying
<1>3. QED
    BY <1>1, <1>2, SpentGaveUp

LEMMA AttackLostSpends ==
    ASSUME ProverInv, SpentOK, budget \in Nat, budget' = budget, AttackLost PROVE SpentOK'
<1>1. CallOpen("Win") /\ GiveUp(1) /\ UNCHANGED aroundReplay /\ 1 \in Nat
    BY DEF AttackLost
<1>2. Replaying /\ spent < cap /\ cap \in Nat /\ cap >= 1 /\ trial.left \in Nat \ {0}
    BY <1>1, SpentCall
<1>3. 1 <= MaxMoves
    BY RoomFacts
<1>4. spent + 1 <= (cap - 1) + SimulationBudget * MaxMoves
    BY <1>1, <1>2, <1>3, ReplayCharge
<1>5. QED
    BY <1>1, <1>2, <1>4, SpentGaveUp

(* The first call of a replay is met by the cap, a later one by what is    *)
(* left of the replay's own budget.                                        *)
LEMMA PaidOn ==
    ASSUME ProverInv, SpentOK, budget \in Nat, NEW o, CallOpen(o),
           cap' = cap, trial'.left = trial.left - 1, spent' = spent + 1
    PROVE  Paid' /\ spent' \in Nat /\ spent' <= (cap - 1) + SimulationBudget * MaxMoves
<1> DEFINE m == MaxMoves
           B == SimulationBudget * m
           l == trial.left
           x == (l - 1) * m
           y == l * m
<1>1. /\ spent \in Nat /\ cap \in Nat /\ spent < cap /\ cap >= 1 /\ l \in 1 .. SimulationBudget
      /\ m \in Nat /\ m >= 1 /\ B \in Nat
    BY SpentCall, RoomFacts
<1>2. x \in Nat /\ y \in Nat /\ x = y - m /\ y <= B
    BY <1>1, RoomFacts
<1>3. Paid' = (spent' + x <= (cap - 1) + B)
    BY DEF Paid
<1> HIDE DEF m, B, l, x, y
<1>4. spent + 1 <= cap /\ x <= B - 1
    BY <1>1, <1>2
<1>5. spent' + x <= (cap - 1) + B /\ spent' \in Nat /\ spent' <= (cap - 1) + B
    BY <1>1, <1>2, <1>4
<1>6. QED
    BY <1>3, <1>5 DEF B, m

LEMMA AttackFollowSpends ==
    ASSUME ProverInv, SpentOK, budget \in Nat, budget' = budget, AttackFollow PROVE SpentOK'
<1>1. CallOpen("Win") /\ spent' = spent + 1 /\ UNCHANGED step /\ UNCHANGED aroundReplay
    BY DEF AttackFollow
<1>2. trial'.left = trial.left - 1
    BY TrialIs DEF AttackFollow, Trials
<1>3. step = "call" /\ step' \in {"call", "reply", "answered", "replay"}
    BY <1>1 DEF CallOpen
<1>4. Replaying /\ trial.left \in Nat /\ trial.left <= SimulationBudget
    BY <1>1, SpentCall
<1>5. Paid' /\ spent' \in Nat /\ spent' <= (cap - 1) + SimulationBudget * MaxMoves
    BY <1>1, <1>2, PaidOn DEF aroundReplay
<1>6. trial'.left <= SimulationBudget
    BY <1>2, <1>4, RoomFacts
<1>7. QED
    BY <1>1, <1>3, <1>4, <1>5, <1>6, SpentReplays

LEMMA DefendSpends ==
    ASSUME ProverInv, SpentOK, budget \in Nat, budget' = budget, Defend PROVE SpentOK'
<1>1. CallOpen("Loss") /\ spent' = spent + 1 /\ step' = "reply" /\ UNCHANGED aroundReplay
    BY DEF Defend
<1>2. trial'.left = trial.left - 1
    BY TrialIs DEF Defend, Trials
<1>3. step' \in {"call", "reply", "answered", "replay"}
    BY <1>1
<1>4. Replaying /\ trial.left \in Nat /\ trial.left <= SimulationBudget
    BY <1>1, SpentCall
<1>5. Paid' /\ spent' \in Nat /\ spent' <= (cap - 1) + SimulationBudget * MaxMoves
    BY <1>1, <1>2, PaidOn DEF aroundReplay
<1>6. trial'.left <= SimulationBudget
    BY <1>2, <1>4, RoomFacts
<1>7. QED
    BY <1>1, <1>3, <1>4, <1>5, <1>6, SpentReplays

(* A mate is looked for with what is left after the call itself.           *)
LEMMA AttackMateSpends ==
    ASSUME ProverInv, SpentOK, budget \in Nat, budget' = budget, AttackMate PROVE SpentOK'
<1> DEFINE end == Mate(trial.pos, trial.left - 1)
           t == Tried(trial.pos, trial.left - 1)
           n == 1 + t
           m == MaxMoves
           X == (cap - 1) + SimulationBudget * MaxMoves
<1>1. /\ CallOpen("Win") /\ UNCHANGED aroundReplay
      /\ IF end = NoMove THEN GiveUp(n) /\ UNCHANGED proved
         ELSE /\ trial' = [trial EXCEPT !.left = @ - 2, !.depth = 1, !.best = end]
              /\ spent' = spent + n /\ step' = "answered"
    BY DEF AttackMate
<1>2. /\ Replaying /\ spent < cap /\ cap \in Nat /\ cap >= 1 /\ spent \in Nat
      /\ trial.left \in Nat /\ trial.left >= 1 /\ trial.left <= SimulationBudget
    BY <1>1, SpentCall
<1>3. trial.pos \in Pos /\ trial.left - 1 \in Nat
    BY <1>2, ReplayFacts
<1>4. t \in 0 .. m /\ (trial.left - 1 = 0 => t = 0) /\ (end # NoMove => trial.left - 1 # 0)
    BY <1>3, MateIs
<1>5. m \in Nat /\ m >= 1
    BY RoomFacts
<1> HIDE DEF end, t
<1>6. n \in Nat /\ (n <= m \/ (trial.left >= 2 /\ n <= m + 1))
    <2> HIDE DEF m
    <2>1. CASE trial.left - 1 = 0
        BY <1>4, <1>5, <2>1
    <2>2. CASE trial.left - 1 # 0
        BY <1>2, <1>4, <1>5, <2>2
    <2>3. QED
        BY <2>1, <2>2
<1> HIDE DEF n
<1>7. trial.left \in Nat \ {0} /\ SpentOK
    BY <1>2
<1>8. spent + n <= X
    BY <1>2, <1>6, <1>7, ReplayCharge
<1>9. CASE end = NoMove
    BY <1>1, <1>2, <1>6, <1>8, <1>9, SpentGaveUp
<1>10. CASE end # NoMove
    <2>1. spent' = spent + n /\ step' = "answered"
          /\ trial' = [trial EXCEPT !.left = @ - 2, !.depth = 1, !.best = end]
        BY <1>1, <1>10
    <2>2. trial'.left = trial.left - 2 /\ trial'.calls = trial.calls
        BY <2>1, TrialIs DEF Trials
    <2>3. trial.calls # <<>> => Paid'
        <3> SUFFICES ASSUME trial.calls # <<>> PROVE Paid'
            OBVIOUS
        <3> DEFINE l == trial.left
                   y == l * m
                   z == (l - 1) * m
                   x == (l - 2) * m
        <3>1. l \in 1 .. SimulationBudget /\ l - 1 \in 1 .. SimulationBudget
            <4>1. trial.left - 1 # 0 /\ SimulationBudget \in Nat
                BY <1>4, <1>10, RoomFacts
            <4>2. QED
                BY <1>2, <4>1
        <3>2. z \in Nat /\ y \in Nat /\ z = y - m
            BY <3>1, RoomFacts
        <3>3. ((l - 1) - 1) * m \in Nat /\ ((l - 1) - 1) * m = z - m
            BY <3>1, RoomFacts
        <3>4. (l - 1) - 1 = l - 2
            BY <1>2
        <3>5. x \in Nat /\ x = z - m
            BY <3>3, <3>4
        <3>6. spent + y <= X
            <4>1. Paid
                BY <1>2 DEF SpentOK
            <4>2. QED
                BY <4>1 DEF Paid
        <3>7. X \in Int
            BY <1>2, RoomFacts
        <3> HIDE DEF l, x, y, z, m, X
        <3>8. n <= m + 1 /\ n \in Nat
            BY <1>5, <1>6
        <3>9. (spent + n) + x <= X
            BY <1>2, <1>5, <3>2, <3>5, <3>6, <3>7, <3>8
        <3>10. Paid' = ((spent + n) + x <= X)
            BY <2>1, <2>2, <1>1 DEF Paid, aroundReplay, X, x, l, m
        <3>11. QED
            BY <3>9, <3>10
    <2>4. spent' \in Nat /\ spent' <= X
        BY <1>2, <1>6, <1>8, <2>1
    <2>5. trial'.left <= SimulationBudget
        BY <1>2, <2>2, RoomFacts
    <2>6. trial'.left <= SimulationBudget /\ (trial'.calls # <<>> => Paid')
        BY <2>2, <2>3, <2>5
    <2>7. step' \in {"call", "reply", "answered", "replay"}
        BY <2>1
    <2>8. QED
        BY <1>1, <1>2, <2>4, <2>6, <2>7, SpentReplays
<1>11. QED
    BY <1>9, <1>10

(* What holds of a replay while it looks at the replies.                   *)
LEMMA SpentReply ==
    ASSUME ProverInv, SpentOK, budget \in Nat, Replaying, trial.calls # <<>>
    PROVE  Paid /\ trial.left <= SimulationBudget /\ spent \in Nat /\ cap \in Nat /\ cap >= 1
<1>1. cap \in 1 .. budget
    BY DEF SpentOK, Replaying
<1>2. Paid /\ trial.left <= SimulationBudget
    BY DEF SpentOK
<1>3. QED
    BY <1>1, <1>2, SpentTypes

(* A step that spends nothing and leaves what is left alone.               *)
LEMMA SpentNothing ==
    ASSUME ProverInv, SpentOK, budget \in Nat, budget' = budget, Replaying, trial.calls # <<>>,
           UNCHANGED aroundReplay, step' \in {"call", "reply", "answered", "replay"},
           spent' = spent, trial'.left = trial.left
    PROVE  SpentOK'
<1>1. Paid /\ trial.left <= SimulationBudget
    BY SpentReply
<1>2. Paid'
    BY <1>1 DEF Paid, aroundReplay
<1>3. trial'.left <= SimulationBudget /\ (trial'.calls # <<>> => Paid')
    BY <1>1, <1>2
<1>4. QED
    BY <1>3, SpentReplays

LEMMA ReplyFailsSpends ==
    ASSUME ProverInv, SpentOK, budget \in Nat, budget' = budget, ReplyFails PROVE SpentOK'
<1>1. step = "reply" /\ GiveUp(0) /\ UNCHANGED aroundReplay /\ 0 \in Nat
    BY DEF ReplyFails
<1>2. Replaying
    BY <1>1 DEF Replaying
<1>3. QED
    BY <1>1, <1>2, SpentGaveUp

LEMMA ReplyEndsSpends ==
    ASSUME ProverInv, SpentOK, budget \in Nat, budget' = budget, ReplyEnds PROVE SpentOK'
<1>1. step = "reply" /\ step' = step /\ spent' = spent /\ UNCHANGED aroundReplay
    BY DEF ReplyEnds
<1>2. Replaying /\ trial.calls # <<>>
    BY <1>1, ReplayFacts DEF Replaying
<1>3. trial'.left = trial.left
    BY TrialIs DEF ReplyEnds, Trials
<1>4. step' \in {"call", "reply", "answered", "replay"}
    BY <1>1
<1>5. QED
    BY <1>1, <1>2, <1>3, <1>4, SpentNothing

LEMMA ReplyReturnsSpends ==
    ASSUME ProverInv, SpentOK, budget \in Nat, budget' = budget, ReplyReturns PROVE SpentOK'
<1>1. step = "answered" /\ trial.calls # <<>> /\ step' = "reply" /\ spent' = spent /\ UNCHANGED aroundReplay
    BY DEF ReplyReturns
<1>2. Replaying
    BY <1>1 DEF Replaying
<1>3. trial'.left = trial.left
    BY TrialIs DEF ReplyReturns, Trials
<1>4. step' \in {"call", "reply", "answered", "replay"}
    BY <1>1
<1>5. QED
    BY <1>1, <1>2, <1>3, <1>4, SpentNothing

LEMMA CallReturnsSpends ==
    ASSUME ProverInv, SpentOK, budget \in Nat, budget' = budget, Replaying, trial.calls # <<>>,
           NEW o, NEW d, NEW b, CallReturns(o, d, b)
    PROVE  SpentOK'
<1>1. step' = "answered" /\ spent' = spent /\ UNCHANGED aroundReplay
    BY DEF CallReturns
<1>2. trial'.left = trial.left
    BY TrialIs DEF CallReturns, Trials
<1>3. step' \in {"call", "reply", "answered", "replay"}
    BY <1>1
<1>4. QED
    BY <1>1, <1>2, <1>3, SpentNothing

LEMMA DefendReturnsSpends ==
    ASSUME ProverInv, SpentOK, budget \in Nat, budget' = budget, DefendReturns PROVE SpentOK'
<1>1. step = "reply" /\ CallReturns("Loss", Current.deepest + 1, NoMove)
    BY DEF DefendReturns
<1>2. Replaying /\ trial.calls # <<>>
    BY <1>1, ReplayFacts DEF Replaying
<1>3. QED
    BY <1>1, <1>2, CallReturnsSpends

LEMMA AttackReturnsSpends ==
    ASSUME ProverInv, SpentOK, budget \in Nat, budget' = budget, AttackReturns PROVE SpentOK'
<1>1. step = "answered" /\ trial.calls # <<>> /\ CallReturns("Win", trial.depth + 1, Current.best)
    BY DEF AttackReturns
<1>2. Replaying
    BY <1>1 DEF Replaying
<1>3. QED
    BY <1>1, <1>2, CallReturnsSpends

(* Every reply tried is paid for from what the replay has left.            *)
LEMMA ReplyOpenSpends ==
    ASSUME ProverInv, SpentOK, budget \in Nat, budget' = budget, ReplyOpen PROVE SpentOK'
<1> DEFINE c == Head(Current.todo)
           n == Tried(c, trial.left)
           left == IF trial.left = 0 THEN 0 ELSE trial.left - 1
           X == (cap - 1) + SimulationBudget * MaxMoves
<1>1. step = "reply" /\ UNCHANGED aroundReplay /\ Current.todo # <<>>
    BY DEF ReplyOpen
<1>2. Replaying /\ trial.calls # <<>>
    BY <1>1, ReplayFacts DEF Replaying
<1>3. \/ GiveUp(n)
      \/ trial'.left = left /\ spent' = spent + n /\ step' \in {"reply", "call"}
    BY <1>1, TrialIs DEF ReplyOpen, Trials
<1>4. Paid /\ trial.left <= SimulationBudget /\ trial.left \in Nat /\ spent \in Nat /\ cap \in Nat /\ cap >= 1
    BY <1>2, SpentReply, SpentTypes
<1>5. c \in Pos
    BY <1>1, ReplyIs
<1>6. n \in Nat /\ n <= MaxMoves /\ (trial.left = 0 => n = 0)
    BY <1>4, <1>5, MateIs, RoomFacts
<1> HIDE DEF c, n
<1>7. /\ left \in Nat /\ left <= trial.left
      /\ (spent + n) + left * MaxMoves <= X /\ spent + n <= X /\ X \in Int
    <2> DEFINE m == MaxMoves
               l == trial.left
               y == l * m
    <2>1. spent + y <= X /\ X \in Int /\ m \in Nat
        BY <1>4, RoomFacts DEF Paid
    <2>2. CASE l = 0
        <3>1. n = 0 /\ left = 0
            BY <1>6, <2>2
        <3>2. left * MaxMoves = 0 /\ y = 0
            BY <2>1, <2>2, <3>1
        <3> HIDE DEF y, X
        <3>3. QED
            BY <1>4, <2>1, <3>1, <3>2
    <2>3. CASE l # 0
        <3>1. l \in 1 .. SimulationBudget /\ left = l - 1
            BY <1>4, <2>3
        <3>2. (l - 1) * m \in Nat /\ y \in Nat /\ (l - 1) * m = y - m
            BY <3>1, RoomFacts
        <3>3. left * MaxMoves = y - m /\ y - m \in Nat
            BY <3>1, <3>2
        <3> HIDE DEF y, X, m
        <3>4. n <= m
            BY <1>6 DEF m
        <3>5. (spent + n) + (y - m) <= X /\ spent + n <= X
            <4>1. spent \in Nat /\ n \in Nat /\ y \in Nat /\ m \in Nat /\ X \in Int /\ y - m >= 0
                BY <1>4, <1>6, <2>1, <3>2, <3>3
            <4>2. n <= m /\ spent + y <= X
                BY <2>1, <3>4
            <4>3. QED
                BY <4>1, <4>2
        <3>6. left \in Nat /\ left <= trial.left
            BY <1>4, <2>3
        <3>7. QED
            BY <2>1, <3>3, <3>5, <3>6
    <2>4. QED
        BY <2>2, <2>3
<1> HIDE DEF left
<1>8. CASE GiveUp(n)
    BY <1>1, <1>2, <1>6, <1>7, <1>8, SpentGaveUp
<1>9. CASE trial'.left = left /\ spent' = spent + n /\ step' \in {"reply", "call"}
    <2>1. Paid' = ((spent + n) + left * MaxMoves <= X)
        BY <1>1, <1>9 DEF Paid, aroundReplay
    <2>2. Paid'
        BY <1>7, <2>1
    <2>3. trial'.left <= SimulationBudget
        BY <1>4, <1>7, <1>9, RoomFacts
    <2>4. spent' \in Nat /\ spent' <= X
        BY <1>4, <1>6, <1>7, <1>9
    <2>5. step' \in {"call", "reply", "answered", "replay"}
        BY <1>9
    <2>6. trial'.left <= SimulationBudget /\ (trial'.calls # <<>> => Paid')
        BY <2>2, <2>3
    <2>7. QED
        BY <1>1, <1>2, <2>4, <2>5, <2>6, SpentReplays
<1>10. QED
    BY <1>3, <1>8, <1>9

LEMMA EnterAnsweredSpends ==
    ASSUME ProverInv, SpentOK, budget \in Nat, budget' = budget, EnterAnswered PROVE SpentOK'
<1>1. /\ step = "enter" /\ step' \in {"extract", "return"} /\ spent' = spent /\ cap' = cap /\ frames' = frames
    BY DEF EnterAnswered
<1>2. spent < cap /\ cap \in 1 .. budget
    BY <1>1 DEF SpentOK
<1>3. spent \in Nat /\ Depth \in Nat /\ Highest' = Highest
    BY <1>1, SpentTypes, DepthIs DEF Highest
<1>4. spent <= Highest
    BY <1>2, <1>3, RoomFacts DEF Highest
<1>5. QED
    BY <1>1, <1>2, <1>3, <1>4 DEF SpentOK, Affords, Replaying

(* The cap is crossed by the moves of one position at most.                *)
LEMMA EnterOpenSpends ==
    ASSUME ProverInv, SpentOK, budget \in Nat, budget' = budget, EnterOpen PROVE SpentOK'
<1>1. /\ step = "enter" /\ step' = "loop" /\ cap' = cap
      /\ spent' = spent + Len(Sorted(call.pos))
    <2>1. PICK moves \in {Sorted(call.pos)}, path \in {Path \cup {Board[call.pos]}} :
             \E ks \in {Evaluated(moves, path, ~IsOr(Len(frames) + 1))} : spent' = spent + Len(ks)
        BY DEF EnterOpen
    <2>2. moves = Sorted(call.pos)
        OBVIOUS
    <2>3. call.pos \in Pos
        BY DEF ProverInv, ProverTypes, Asked
    <2>4. moves \in Seq(Pos)
        BY <2>2, <2>3, SortedLists DEF Lists
    <2>5. Len(moves) \in Nat /\ DOMAIN moves = 1 .. Len(moves)
        BY <2>4
    <2>6. Len(Evaluated(moves, path, ~IsOr(Len(frames) + 1))) = Len(moves)
        BY <2>5 DEF Evaluated
    <2>7. QED
        BY <2>1, <2>2, <2>6 DEF EnterOpen
<1>2. spent < cap /\ cap \in 1 .. budget
    BY <1>1 DEF SpentOK
<1>3. spent \in Nat /\ Depth \in Nat
    BY SpentTypes, DepthIs
<1>4. Len(Sorted(call.pos)) \in Nat /\ Len(Sorted(call.pos)) <= MaxMoves
    <2>1. call.pos \in Pos
        BY DEF ProverInv, ProverTypes, Asked
    <2>2. Sorted(call.pos) \in Seq(Pos) /\ Len(Sorted(call.pos)) = Len(ByLabel[call.pos])
        BY <2>1, SortedLists DEF Lists
    <2>3. Len(ByLabel[call.pos]) <= MaxMoves
        BY <2>1, StagesAssumption
    <2>4. QED
        BY <2>2, <2>3
<1>5. Len(frames') \in Nat /\ Len(frames') <= Depth
    <2> DEFINE S == proved'
               s == frames'
    <2>1. ProverInv'
        BY EnterOpenKeeps
    <2>2. s \in Seq(Frames) /\ Stacked(S, s)
        BY <2>1 DEF ProverInv, ProverTypes, StackOK
    <2> HIDE DEF S, s
    <2>3. Len(s) \in Nat /\ Len(s) <= Depth
        BY <2>2, StackedDepth
    <2>4. QED
        BY <2>3 DEF s
<1>6. spent' + Len(frames') <= Highest
    <2> DEFINE n == Len(Sorted(call.pos))
               B == SimulationBudget * MaxMoves
               l == Len(frames')
    <2>1. n \in Nat /\ B \in Nat /\ n <= B
        BY <1>4, RoomFacts
    <2>2. spent' = spent + n /\ l \in Nat /\ l <= Depth
        BY <1>1, <1>5
    <2>3. Highest = ((cap - 1) + B) + Depth
        BY DEF Highest
    <2> HIDE DEF n, B, l
    <2>4. spent' + l <= ((cap - 1) + B) + Depth
        BY <1>2, <1>3, <2>1, <2>2
    <2>5. QED
        BY <2>3, <2>4 DEF l
<1>7. Highest' = Highest
    BY <1>1 DEF Highest
<1>8. Affords(Len(frames))'
    BY <1>6, <1>7 DEF Affords
<1>9. QED
    BY <1>1, <1>2, <1>8 DEF SpentOK, Replaying

LEMMA LeaveSpends ==
    ASSUME ProverInv, SpentOK, budget \in Nat, budget' = budget, step = "loop",
           NEW o, NEW best, NEW pn, NEW dn, NEW d, Leave(o, best, pn, dn, d)
    PROVE  SpentOK'
<1>1. /\ frames' = Front(frames) /\ step' = (IF Len(frames) = 1 THEN "extract" ELSE "return")
      /\ spent' = spent /\ cap' = cap
    BY DEF Leave
<1>2. cap \in 1 .. budget /\ Affords(Len(frames)) /\ frames # <<>>
    BY DEF SpentOK, ProverInv, ControlOK
<1>3. spent \in Nat /\ Depth \in Nat /\ Highest' = Highest
    BY <1>1, SpentTypes, DepthIs DEF Highest
<1>4. Len(frames) \in Nat /\ Len(frames) >= 1 /\ Len(frames') = Len(frames) - 1
    <2> DEFINE S == proved
               s == frames
               next == frames'
    <2>1. s \in Seq(Frames) /\ s # <<>> /\ Stacked(S, s) /\ S \subseteq S /\ next = Front(s)
        BY <1>1, <1>2 DEF ProverInv, ProverTypes, StackOK
    <2> HIDE DEF S, s, next
    <2>2. Len(next) = Len(s) - 1
        BY <2>1, StackLess
    <2>3. QED
        BY <1>2, <2>2, TopIs DEF s, next
<1>5. CASE Len(frames) = 1
    <2>1. spent <= Highest
        BY <1>2, <1>3, <1>5, RoomFacts DEF Affords, Highest
    <2>2. QED
        BY <1>1, <1>2, <1>3, <1>5, <2>1 DEF SpentOK, Replaying
<1>6. CASE Len(frames) # 1
    <2>1. Len(frames') + 1 = Len(frames)
        BY <1>4
    <2>2. Affords(Len(frames) + 1)'
        BY <1>1, <1>2, <1>3, <2>1 DEF Affords
    <2>3. QED
        BY <1>1, <1>2, <1>6, <2>2 DEF SpentOK, Replaying
<1>7. QED
    BY <1>5, <1>6

LEMMA LeaveCutSpends ==
    ASSUME ProverInv, SpentOK, budget \in Nat, budget' = budget, LeaveCut PROVE SpentOK'
BY LeaveSpends DEF LeaveCut

LEMMA LeaveSettledSpends ==
    ASSUME ProverInv, SpentOK, budget \in Nat, budget' = budget, LeaveSettled PROVE SpentOK'
BY LeaveSpends DEF LeaveSettled

LEMMA LeaveBeyondSpends ==
    ASSUME ProverInv, SpentOK, budget \in Nat, budget' = budget, LeaveBeyond PROVE SpentOK'
BY LeaveSpends DEF LeaveBeyond

LEMMA DescendSpends ==
    ASSUME ProverInv, SpentOK, budget \in Nat, budget' = budget, Descend PROVE SpentOK'
<1>1. step = "loop" /\ ~Stop(spent) /\ step' = "enter" /\ spent' = spent /\ cap' = cap
    BY DEF Descend
<1>2. cap \in 1 .. budget /\ spent \in Nat
    BY <1>1, SpentTypes DEF SpentOK
<1>3. spent < cap
    BY <1>1, <1>2 DEF Stop
<1>4. QED
    BY <1>1, <1>2, <1>3 DEF SpentOK, Replaying

LEMMA ReturnSpends ==
    ASSUME ProverInv, SpentOK, budget \in Nat, budget' = budget, Return PROVE SpentOK'
<1>1. step = "return" /\ step' \in {"replay", "loop"} /\ spent' = spent + 1 /\ cap' = cap
    BY DEF Return
<1>2. cap \in 1 .. budget /\ Affords(Len(frames) + 1)
    BY <1>1 DEF SpentOK
<1>3. Len(frames') = Len(frames) /\ Len(frames) \in Nat /\ Len(frames) <= Depth /\ Depth \in Nat /\ spent \in Nat
    <2>1. frames \in Seq(Frames)
        BY DEF ProverInv, ProverTypes
    <2>2. Len(frames') = Len(frames)
        BY <2>1 DEF Return
    <2>3. QED
        BY <2>2, DepthIs, SpentTypes
<1>4. Highest' = Highest
    BY <1>1 DEF Highest
<1>5. (spent + 1) + Len(frames) <= Highest
    <2>1. CASE spent < cap
        <3> DEFINE B == SimulationBudget * MaxMoves
        <3>1. B \in Nat /\ B >= 1 /\ Highest = ((cap - 1) + B) + Depth
            BY RoomFacts DEF Highest
        <3> HIDE DEF B
        <3>2. QED
            BY <1>2, <1>3, <2>1, <3>1
    <2>2. CASE spent + (Len(frames) + 1) <= Highest
        <3>1. (spent + 1) + Len(frames) = spent + (Len(frames) + 1)
            BY <1>3
        <3>2. QED
            BY <2>2, <3>1
    <2>3. QED
        BY <1>2, <2>1, <2>2 DEF Affords
<1>6. Affords(Len(frames))'
    BY <1>1, <1>3, <1>4, <1>5 DEF Affords
<1>7. QED
    BY <1>1, <1>2, <1>6 DEF SpentOK, Replaying

LEMMA ReplayStartSpends ==
    ASSUME ProverInv, SpentOK, budget \in Nat, budget' = budget, ReplayStart PROVE SpentOK'
<1>1. /\ step = "replay" /\ step' = "call" /\ spent' = spent /\ cap' = cap
      /\ trial'.left = SimulationBudget /\ trial'.calls = <<>>
    BY DEF ReplayStart, NoTrial
<1>2. cap \in 1 .. budget /\ Affords(Len(frames))
    BY <1>1 DEF SpentOK
<1>3. Len(frames') = Len(frames)
    <2>1. frames \in Seq(Frames)
        BY DEF ProverInv, ProverTypes
    <2>2. QED
        BY <2>1 DEF ReplayStart
<1>4. Affords(Len(frames))'
    BY <1>1, <1>2, <1>3 DEF Affords, Highest
<1>5. QED
    BY <1>1, <1>2, <1>4, RoomFacts DEF SpentOK, Replaying

LEMMA ReplayWonSpends ==
    ASSUME ProverInv, SpentOK, budget \in Nat, budget' = budget, ReplayWon PROVE SpentOK'
<1>1. step = "answered" /\ step' = "replay" /\ spent' = spent /\ cap' = cap
    BY DEF ReplayWon
<1>2. cap \in 1 .. budget /\ Affords(Len(frames))
    BY <1>1 DEF SpentOK, Replaying
<1>3. Len(frames') = Len(frames)
    <2>1. frames \in Seq(Frames)
        BY DEF ProverInv, ProverTypes
    <2>2. QED
        BY <2>1 DEF ReplayWon
<1>4. Affords(Len(frames))'
    BY <1>1, <1>2, <1>3 DEF Affords, Highest
<1>5. QED
    BY <1>1, <1>2, <1>4 DEF SpentOK, Replaying

LEMMA ReplaysDoneSpends ==
    ASSUME ProverInv, SpentOK, budget \in Nat, budget' = budget, ReplaysDone PROVE SpentOK'
BY DEF ReplaysDone, SpentOK, Replaying, Affords, Highest

LEMMA ExtractSpends ==
    ASSUME ProverInv, SpentOK, budget \in Nat, budget' = budget, Extract PROVE SpentOK'
BY DEF Extract, SpentOK, Replaying, Affords, Highest

LEMMA ProverStepSpends ==
    ASSUME ProverInv, SpentOK, budget \in Nat, budget' = budget, ProverStep PROVE SpentOK'
BY EnterAnsweredSpends, EnterOpenSpends, LeaveCutSpends, LeaveSettledSpends, LeaveBeyondSpends,
   DescendSpends, ReturnSpends, ReplayStartSpends, CallKnownSpends, CallFailsSpends,
   AttackFollowSpends, AttackMateSpends, AttackLostSpends, AttackReturnsSpends,
   DefendSpends, ReplyFailsSpends, ReplyEndsSpends, ReplyOpenSpends, ReplyReturnsSpends, DefendReturnsSpends,
   ReplayWonSpends, ReplaysDoneSpends, ExtractSpends DEF ProverStep

-----------------------------------------------------------------------------
(* The stages                                                              *)

Phases == {"front", "probe", "preflight", "general", "done"}

StagesOK ==
    /\ phase \in Phases /\ budget \in Nat
    /\ phase # "front" => step \in {"idle", "finished"}
    /\ result.by = "front" => result.outcome = "Win" /\ step = "finished" /\ answer = "Win"

FrontInv == ProverInv /\ SpentOK /\ StagesOK

LEMMA InitFront == Init => FrontInv
<1> SUFFICES ASSUME Init PROVE FrontInv
    OBVIOUS
<1>1. /\ root \in Pos /\ late = "no" /\ tt = [p \in {} |-> NoEntry] /\ frames = <<>>
      /\ call = [pos |-> root, thPn |-> Inf, thDn |-> Inf]
      /\ spent = 0 /\ cap = 0 /\ proved = {} /\ answer = NoOutcome /\ claim = <<>>
      /\ trial = NoTrial /\ step = "idle" /\ phase = "front" /\ budget \in Nat /\ result = Unsettled
    BY StagesAssumption DEF Init, ProverInit, TableInit
<1>2. ProverTypes
    <2>1. frames \in Seq(Frames) /\ NoTrial \in Trials
        BY <1>1, EmptySeq DEF NoTrial, Trials
    <2>2. call \in Asked
        BY <1>1, NumbersAssumption DEF Asked
    <2>3. DOMAIN tt = {} /\ tt \in [DOMAIN tt -> Entries]
        BY <1>1
    <2>4. QED
        BY <1>1, <2>1, <2>2, <2>3 DEF ProverTypes, Steps
<1>3. Grounded(proved)
    BY <1>1 DEF Grounded, Says
<1>4. TableSaid
    BY <1>1 DEF TableSaid
<1>5. StackOK
    <2>1. DOMAIN frames = {}
        BY <1>1
    <2>2. QED
        BY <2>1 DEF StackOK, Stacked
<1>6. ControlOK
    BY <1>1 DEF ControlOK
<1>7. TrialOK /\ ClaimOK
    BY <1>1 DEF TrialOK, Replaying, ClaimOK
<1>8. SpentOK
    BY <1>1 DEF SpentOK, Replaying
<1>9. StagesOK
    BY <1>1 DEF StagesOK, Phases, Unsettled
<1>10. QED
    BY <1>2, <1>3, <1>4, <1>5, <1>6, <1>7, <1>8, <1>9 DEF ProverInv, FrontInv

(* The other stages leave the prover as it is.                             *)
LEMMA FrontStays ==
    ASSUME FrontInv, UNCHANGED <<proverVars, root, budget>>, late' \in {"no", "deadline", "stop"}
    PROVE  ProverInv' /\ SpentOK'
<1>1. /\ tt' = tt /\ frames' = frames /\ call' = call /\ spent' = spent /\ cap' = cap /\ proved' = proved
      /\ answer' = answer /\ claim' = claim /\ trial' = trial /\ step' = step /\ root' = root /\ budget' = budget
    BY DEF proverVars
<1>2. ProverTypes' /\ Grounded(proved') /\ TableSaid'
    BY <1>1 DEF FrontInv, ProverInv, ProverTypes, TableSaid
<1>3. StackOK' /\ ControlOK'
    BY <1>1 DEF FrontInv, ProverInv, StackOK, Stacked, ControlOK, Top
<1>4. TrialOK'
    BY <1>1 DEF FrontInv, ProverInv, TrialOK, Replaying, Top, Wanted
<1>5. ClaimOK'
    BY <1>1 DEF FrontInv, ProverInv, ClaimOK
<1>6. SpentOK'
    BY <1>1 DEF FrontInv, SpentOK, Replaying, Affords, Paid, Highest
<1>7. QED
    BY <1>2, <1>3, <1>4, <1>5, <1>6 DEF ProverInv

LEMMA FrontStartKeeps == ASSUME FrontInv, FrontStart PROVE FrontInv'
<1>1. /\ phase = "front" /\ step = "idle" /\ step' = "enter" /\ cap' = FrontCap /\ FrontCap > 0
      /\ UNCHANGED <<tt, frames, call, spent, proved, answer, claim, trial, root, upward, late>>
      /\ phase' = phase /\ budget' = budget /\ result' = result
    BY DEF FrontStart, pipeVars
<1>2. FrontCap \in Nat /\ FrontCap <= budget
    BY StagesAssumption DEF FrontCap, Lesser, FrontInv, StagesOK
<1>3. ProverTypes' /\ Grounded(proved') /\ TableSaid' /\ StackOK'
    BY <1>1, <1>2 DEF FrontInv, ProverInv, ProverTypes, TableSaid, StackOK, Stacked, Steps
<1>4. ControlOK' /\ TrialOK' /\ ClaimOK'
    BY <1>1 DEF FrontInv, ProverInv, ControlOK, TrialOK, Replaying, ClaimOK
<1>5. SpentOK'
    BY <1>1, <1>2 DEF FrontInv, SpentOK, Replaying
<1>6. StagesOK'
    BY <1>1 DEF FrontInv, StagesOK
<1>7. QED
    BY <1>3, <1>4, <1>5, <1>6 DEF ProverInv, FrontInv

LEMMA FrontStepKeeps == ASSUME FrontInv, FrontStep PROVE FrontInv'
<1>1. phase = "front" /\ ProverStep /\ phase' = phase /\ budget' = budget /\ result' = result /\ budget \in Nat
    BY DEF FrontStep, pipeVars, FrontInv, StagesOK
<1>2. ProverInv' /\ SpentOK'
    BY <1>1, ProverStepKeeps, ProverStepSpends DEF FrontInv
<1>3. step # "finished"
    BY <1>1 DEF ProverStep, EnterAnswered, EnterOpen, LeaveCut, LeaveSettled, LeaveBeyond, Descend, Return,
                ReplayStart, CallKnown, CallFails, CallOpen, AttackFollow, AttackMate, AttackLost, AttackReturns,
                Defend, ReplyFails, ReplyEnds, ReplyOpen, ReplyReturns, DefendReturns, ReplayWon, ReplaysDone, Extract
<1>4. StagesOK'
    BY <1>1, <1>3 DEF FrontInv, StagesOK
<1>5. QED
    BY <1>2, <1>4 DEF FrontInv

LEMMA FrontDoneKeeps == ASSUME FrontInv, FrontDone PROVE FrontInv'
<1>1. /\ phase = "front" /\ step = "finished" /\ tt' = [p \in {} |-> NoEntry]
      /\ UNCHANGED <<frames, call, spent, cap, proved, answer, claim, trial, step, root, upward, late, budget>>
      /\ \/ claim # <<>> /\ phase' = "done" /\ result' = Answer("front", "Win", claim)
         \/ claim = <<>> /\ phase' = "probe" /\ result' = result
    BY DEF FrontDone, Forget
<1>2. DOMAIN tt' = {} /\ tt' \in [DOMAIN tt' -> Entries]
    BY <1>1
<1>3. ProverTypes' /\ Grounded(proved') /\ TableSaid' /\ StackOK'
    BY <1>1, <1>2 DEF FrontInv, ProverInv, ProverTypes, TableSaid, StackOK, Stacked
<1>4. ControlOK' /\ TrialOK' /\ ClaimOK'
    BY <1>1 DEF FrontInv, ProverInv, ControlOK, TrialOK, Replaying, ClaimOK
<1>5. SpentOK'
    BY <1>1 DEF FrontInv, SpentOK, Replaying, Highest
<1>6. StagesOK'
    <2>1. claim # <<>> => answer = "Win"
        BY DEF FrontInv, ProverInv, ClaimOK
    <2>2. QED
        BY <1>1, <2>1 DEF FrontInv, StagesOK, Answer, Phases
<1>7. QED
    BY <1>3, <1>4, <1>5, <1>6 DEF ProverInv, FrontInv

LEMMA FrontNext == FrontInv /\ [NextStep]_vars => FrontInv'
<1> SUFFICES ASSUME FrontInv, [NextStep]_vars PROVE FrontInv'
    OBVIOUS
<1>0. late \in {"no", "deadline", "stop"} /\ budget \in Nat
    BY DEF FrontInv, ProverInv, ProverTypes, StagesOK
<1>1. CASE UNCHANGED vars
    <2>1. UNCHANGED <<proverVars, root, budget>> /\ late' = late /\ UNCHANGED <<phase, step, result, answer>>
        BY <1>1 DEF vars, proverVars, pipeVars
    <2>2. QED
        BY <1>0, <2>1, FrontStays DEF FrontInv, StagesOK
<1>2. CASE Hurry
    <2>1. UNCHANGED <<proverVars, root, budget>> /\ late' \in {"no", "deadline", "stop"}
          /\ UNCHANGED <<phase, step, result, answer>>
        BY <1>2 DEF Hurry, proverVars, pipeVars
    <2>2. QED
        BY <1>0, <2>1, FrontStays DEF FrontInv, StagesOK
<1>3. CASE FrontSkipped
    <2>1. UNCHANGED <<proverVars, root, budget>> /\ late' = late /\ UNCHANGED <<step, result, answer>>
          /\ phase' = "probe" /\ step = "idle"
        BY <1>3 DEF FrontSkipped, proverVars
    <2>2. QED
        BY <1>0, <2>1, FrontStays DEF FrontInv, StagesOK, Phases
<1>4. CASE FrontStart \/ FrontStep \/ FrontDone
    BY <1>4, FrontStartKeeps, FrontStepKeeps, FrontDoneKeeps
<1>5. CASE ProbeSkipped \/ Probed \/ PreflightSkipped \/ PreflightStart \/ PreflightRuns \/ PreflightDone \/ General
    <2>1. UNCHANGED <<proverVars, root, budget>> /\ late' = late
        BY <1>5 DEF ProbeSkipped, Probed, PreflightSkipped, PreflightStart, PreflightRuns, PreflightDone, General,
                    pipeVars
    <2>2. step' = step /\ answer' = answer
        BY <2>1 DEF proverVars
    <2>3. phase # "front" /\ phase' \in Phases /\ phase' # "front"
        <3>1. CASE ProbeSkipped \/ Probed
            BY <3>1 DEF ProbeSkipped, Probed, Phases
        <3>2. CASE PreflightSkipped \/ PreflightStart \/ PreflightRuns
            BY <3>2 DEF PreflightSkipped, PreflightStart, PreflightRuns, Phases, pipeVars
        <3>3. CASE PreflightDone \/ General
            BY <3>3 DEF PreflightDone, General, Phases
        <3>4. QED
            BY <1>5, <3>1, <3>2, <3>3
    <2>4. result' = result \/ result'.by # "front"
        <3>1. CASE PreflightDone
            <4>1. result' = result \/ result' = Answer("preflight", verdict.outcome, verdict.pv)
                BY <3>1 DEF PreflightDone
            <4>2. QED
                BY <4>1 DEF Answer
        <3>2. CASE General
            <4>1. \E o : result' = Answer("general", o, <<>>)
                BY <3>2 DEF General
            <4>2. QED
                BY <4>1 DEF Answer
        <3>3. CASE ProbeSkipped \/ Probed \/ PreflightSkipped \/ PreflightStart \/ PreflightRuns
            BY <3>3 DEF ProbeSkipped, Probed, PreflightSkipped, PreflightStart, PreflightRuns, pipeVars
        <3>4. QED
            BY <1>5, <3>1, <3>2, <3>3
    <2>5. ProverInv' /\ SpentOK'
        BY <1>0, <2>1, FrontStays
    <2>6. StagesOK'
        BY <2>1, <2>2, <2>3, <2>4 DEF FrontInv, StagesOK
    <2>7. QED
        BY <2>5, <2>6 DEF FrontInv
<1>6. QED
    BY <1>1, <1>2, <1>3, <1>4, <1>5 DEF NextStep, Pipeline

(* What the front-end has stored is true, and every event of it is borne   *)
(* out by other events: in any game, whatever the table loses, in any      *)
(* order of the moves, wherever the run is cut (children.rs,               *)
(* simulation.rs, run.rs).                                                 *)
THEOREM ProverIsSound == Spec => []ProverSound
<1>1. Init => FrontInv
    BY InitFront
<1>2. FrontInv /\ [NextStep]_vars => FrontInv'
    BY FrontNext
<1>3. FrontInv => ProverSound
    <2> SUFFICES ASSUME FrontInv PROVE ProverSound
        OBVIOUS
    <2>1. Grounded(proved) /\ TableSaid /\ DOMAIN tt \subseteq Pos
        BY DEF FrontInv, ProverInv, ProverTypes
    <2>2. ScratchSound
        BY <2>1 DEF ScratchSound, TableSaid, Grounded, Decisive
    <2>3. ProofChained
        <3> DEFINE said(o) == {e[1] : e \in {x \in proved : x[2] = o}}
        <3>1. \A p, o : p \in said(o) <=> Says(proved, p, o)
            BY DEF Says
        <3>2. \A o \in Decisive : said(o) \subseteq Pos
            BY <2>1 DEF Grounded
        <3> HIDE DEF said
        <3>3. \A p \in said("Win") : Justified(proved, p, "Win")
            BY <2>1, <3>1, <3>2 DEF Grounded, Decisive
        <3>4. \A p \in said("Loss") : Justified(proved, p, "Loss")
            BY <2>1, <3>1, <3>2 DEF Grounded, Decisive
        <3>5. \A p \in said("Win") : Static[p] = "Win" \/ Succ[p] \cap said("Loss") # {}
            BY <3>1, <3>3 DEF Justified
        <3>6. \A p \in said("Loss") : Static[p] = "Loss" \/ (Static[p] = NoOutcome /\ Succ[p] \subseteq said("Win"))
            BY <3>1, <3>4 DEF Justified
        <3>7. QED
            BY <3>5, <3>6 DEF ProofChained, said
    <2>4. QED
        BY <2>2, <2>3 DEF ProverSound
<1>4. QED
    BY <1>1, <1>2, <1>3, PTL DEF Spec

-----------------------------------------------------------------------------
(* Recursion over an interval                                              *)

(* A set that holds zero and, with a number, the next one.                 *)
LEMMA Counting ==
    ASSUME NEW N \in Nat, NEW S, 0 \in S, \A k \in 0 .. N : k # 0 /\ k - 1 \in S => k \in S
    PROVE  0 .. N \subseteq S
<1> DEFINE Bad == {k \in 0 .. N : k \notin S}
<1> SUFFICES ASSUME Bad # {} PROVE FALSE
    OBVIOUS
<1>1. Bad \subseteq Nat
    OBVIOUS
<1>2. PICK m \in Bad : \A k \in Bad : ~ (<<k, m>> \in OpToRel(<, Nat))
    <2> HIDE DEF Bad
    <2>1. QED
        BY <1>1, NatLessThanWellFounded, WFMin
<1>3. m \in 0 .. N /\ m \notin S /\ m # 0
    OBVIOUS
<1>4. m - 1 \in Nat /\ m - 1 < m /\ m - 1 \in 0 .. N /\ m \in Nat
    BY <1>3
<1>5. <<m - 1, m>> \in OpToRel(<, Nat)
    BY <1>4 DEF OpToRel
<1>6. m - 1 \notin Bad
    BY <1>2, <1>5
<1>7. QED
    BY <1>3, <1>4, <1>6

(* A value passed on from one number to the next.                          *)
Chained(N, V, a, g, f) ==
    f \in [0 .. N -> V] /\ f[0] = a /\ \A n \in 1 .. N : f[n] = g[<<n, f[n - 1]>>]

LEMMA Chain ==
    ASSUME NEW N \in Nat, NEW V, NEW a \in V, NEW g \in [(1 .. N) \X V -> V]
    PROVE  \E f : Chained(N, V, a, g, f)
<1> DEFINE Told(m, f) == f[0] = a /\ \A n \in 1 .. N : n <= m => f[n] = g[<<n, f[n - 1]>>]
           S == {m \in Nat : \E f \in [0 .. N -> V] : Told(m, f)}
<1>1. 0 \in S
    <2>1. [n \in 0 .. N |-> a] \in [0 .. N -> V]
        OBVIOUS
    <2>2. Told(0, [n \in 0 .. N |-> a])
        OBVIOUS
    <2> HIDE DEF Told
    <2>3. QED
        BY <2>1, <2>2
<1>2. ASSUME NEW m \in 0 .. N, m # 0, m - 1 \in S
      PROVE  m \in S
    <2>1. m \in Nat /\ m - 1 \in Nat /\ m \in 1 .. N /\ m - 1 \in 0 .. N
        BY <1>2
    <2>2. PICK f \in [0 .. N -> V] : Told(m - 1, f)
        BY <1>2
    <2> DEFINE v == g[<<m, f[m - 1]>>]
               h == [f EXCEPT ![m] = v]
    <2>3. v \in V
        BY <2>1
    <2> HIDE DEF v
    <2>4. h \in [0 .. N -> V] /\ h[m] = v /\ \A n \in 0 .. N : n # m => h[n] = f[n]
        BY <2>1, <2>3
    <2> HIDE DEF h
    <2>5. h[0] = a
        BY <2>1, <2>2, <2>4
    <2>6. ASSUME NEW n \in 1 .. N, n <= m
          PROVE  h[n] = g[<<n, h[n - 1]>>]
        <3>1. n - 1 \in 0 .. N /\ n - 1 # m /\ n \in 0 .. N
            BY <2>1, <2>6
        <3>2. h[n - 1] = f[n - 1]
            BY <2>4, <3>1
        <3>3. CASE n = m
            BY <2>4, <3>2, <3>3 DEF v
        <3>4. CASE n # m
            <4>1. n <= m - 1
                BY <2>1, <2>6, <3>4
            <4>2. f[n] = g[<<n, f[n - 1]>>]
                BY <2>2, <4>1
            <4>3. QED
                BY <2>4, <3>1, <3>2, <3>4, <4>2
        <3>5. QED
            BY <3>3, <3>4
    <2>7. Told(m, h)
        BY <2>5, <2>6
    <2> HIDE DEF Told
    <2>8. QED
        BY <2>1, <2>4, <2>7
<1>3. N \in S
    <2> HIDE DEF S
    <2>1. 0 .. N \subseteq S
        BY <1>1, <1>2, Counting
    <2>2. QED
        BY <2>1
<1>4. PICK f \in [0 .. N -> V] : Told(N, f)
    BY <1>3
<1>5. QED
    BY <1>4 DEF Chained

(* What holds at the start, and with each number of the next, holds at the *)
(* end.                                                                    *)
LEMMA Passed ==
    ASSUME NEW N \in Nat, NEW S, 0 \in S, \A n \in 1 .. N : n - 1 \in S => n \in S
    PROVE  \A n \in 0 .. N : n \in S
<1>1. \A k \in 0 .. N : k # 0 /\ k - 1 \in S => k \in S
    OBVIOUS
<1>2. QED
    BY <1>1, Counting

-----------------------------------------------------------------------------
(* The region of the pre-phase                                             *)

Values == {"Win", "Loss", "Draw", "open"}

(* A sweep visits the nodes in turn.                                       *)
LEMMA SweepValuesIs ==
    ASSUME Len(keys) \in Nat, NEW v \in [1 .. Len(keys) -> Values],
           \A i \in 1 .. Len(keys), w \in [1 .. Len(keys) -> Values] : ValueFrom(w, i) \in Values
    PROVE  \E f \in [0 .. Len(keys) -> [1 .. Len(keys) -> Values]] :
              /\ f[0] = v
              /\ \A n \in 1 .. Len(keys) : f[n] = [f[n - 1] EXCEPT ![n] = ValueFrom(f[n - 1], n)]
              /\ Sweep(v, ValueFrom) = f[Len(keys)]
<1> DEFINE N == Len(keys)
           V == [1 .. N -> Values]
           B(w, i) == [w EXCEPT ![i] = ValueFrom(w, i)]
           E(f, i) == IF i = 0 THEN v ELSE With(f[i - 1], LAMBDA w : [w EXCEPT ![i] = ValueFrom(w, i)])
           after == CHOOSE f : f = [i \in 0 .. N |-> E(f, i)]
           g == [x \in (1 .. N) \X V |-> B(x[2], x[1])]
<1>1. \A n \in 1 .. N : \A w \in V : B(w, n) \in V
    OBVIOUS
<1>2. Sweep(v, ValueFrom) = after[N]
    BY DEF Sweep
<1>3. \A f, i : E(f, i) = IF i = 0 THEN v ELSE B(f[i - 1], i)
    BY DEF With
<1>4. N \in Nat /\ v \in V
    OBVIOUS
<1> HIDE DEF B, E, V, N
<1>5. g \in [(1 .. N) \X V -> V] /\ \A n \in 1 .. N : \A w \in V : g[<<n, w>>] = B(w, n)
    BY <1>1
<1> HIDE DEF g
<1>6. PICK f \in [0 .. N -> V] : f[0] = v /\ \A n \in 1 .. N : f[n] = g[<<n, f[n - 1]>>]
    <2>1. g \in [(1 .. N) \X V -> V]
        BY <1>5
    <2>2. N \in Nat /\ v \in V
        BY <1>4
    <2>3. \E f : Chained(N, V, v, g, f)
        BY <2>1, <2>2, Chain
    <2>4. QED
        BY <2>3 DEF Chained
<1>7. \A n \in 1 .. N : f[n] = B(f[n - 1], n)
    <2> SUFFICES ASSUME NEW n \in 1 .. N PROVE f[n] = B(f[n - 1], n)
        OBVIOUS
    <2>1. f[n - 1] \in V
        BY <1>4
    <2>2. QED
        BY <1>5, <1>6, <2>1
<1>8. f = [i \in 0 .. N |-> E(f, i)]
    <2>1. \A i \in 0 .. N : f[i] = E(f, i)
        BY <1>3, <1>4, <1>6, <1>7
    <2>2. QED
        BY <2>1
<1>9. after = [i \in 0 .. N |-> E(after, i)]
    BY <1>8
<1> HIDE DEF after
<1>10. after[0] = v /\ \A n \in 1 .. N : after[n] = B(after[n - 1], n)
    <2>1. \A i \in 0 .. N : after[i] = E(after, i)
        BY <1>9
    <2>2. QED
        BY <1>3, <1>4, <2>1
<1> DEFINE S == {n \in Nat : after[n] \in V}
<1>11. \A n \in 0 .. N : n \in S
    <2>1. 0 \in S
        BY <1>4, <1>10
    <2>2. ASSUME NEW n \in 1 .. N, n - 1 \in S PROVE n \in S
        BY <1>1, <1>4, <1>10, <2>2
    <2> HIDE DEF S
    <2>3. QED
        BY <1>4, <2>1, <2>2, Passed
<1>12. after \in [0 .. N -> V]
    BY <1>9, <1>11
<1>13. QED
    BY <1>2, <1>10, <1>12 DEF B, V, N

(* Distances are numbered the same way.                                    *)
LEMMA SweepDistancesIs ==
    ASSUME Len(keys) \in Nat, NEW v \in [1 .. Len(keys) -> Nat],
           \A i \in 1 .. Len(keys), w \in [1 .. Len(keys) -> Nat] : DistFrom(w, i) \in Nat
    PROVE  \E f \in [0 .. Len(keys) -> [1 .. Len(keys) -> Nat]] :
              /\ f[0] = v
              /\ \A n \in 1 .. Len(keys) : f[n] = [f[n - 1] EXCEPT ![n] = DistFrom(f[n - 1], n)]
              /\ Sweep(v, DistFrom) = f[Len(keys)]
<1> DEFINE N == Len(keys)
           V == [1 .. N -> Nat]
           B(w, i) == [w EXCEPT ![i] = DistFrom(w, i)]
           E(f, i) == IF i = 0 THEN v ELSE With(f[i - 1], LAMBDA w : [w EXCEPT ![i] = DistFrom(w, i)])
           after == CHOOSE f : f = [i \in 0 .. N |-> E(f, i)]
           g == [x \in (1 .. N) \X V |-> B(x[2], x[1])]
<1>1. \A n \in 1 .. N : \A w \in V : B(w, n) \in V
    OBVIOUS
<1>2. Sweep(v, DistFrom) = after[N]
    BY DEF Sweep
<1>3. \A f, i : E(f, i) = IF i = 0 THEN v ELSE B(f[i - 1], i)
    BY DEF With
<1>4. N \in Nat /\ v \in V
    OBVIOUS
<1> HIDE DEF B, E, V, N
<1>5. g \in [(1 .. N) \X V -> V] /\ \A n \in 1 .. N : \A w \in V : g[<<n, w>>] = B(w, n)
    BY <1>1
<1> HIDE DEF g
<1>6. PICK f \in [0 .. N -> V] : f[0] = v /\ \A n \in 1 .. N : f[n] = g[<<n, f[n - 1]>>]
    <2>1. g \in [(1 .. N) \X V -> V]
        BY <1>5
    <2>2. N \in Nat /\ v \in V
        BY <1>4
    <2>3. \E f : Chained(N, V, v, g, f)
        BY <2>1, <2>2, Chain
    <2>4. QED
        BY <2>3 DEF Chained
<1>7. \A n \in 1 .. N : f[n] = B(f[n - 1], n)
    <2> SUFFICES ASSUME NEW n \in 1 .. N PROVE f[n] = B(f[n - 1], n)
        OBVIOUS
    <2>1. f[n - 1] \in V
        BY <1>4
    <2>2. QED
        BY <1>5, <1>6, <2>1
<1>8. f = [i \in 0 .. N |-> E(f, i)]
    <2>1. \A i \in 0 .. N : f[i] = E(f, i)
        BY <1>3, <1>4, <1>6, <1>7
    <2>2. QED
        BY <2>1
<1>9. after = [i \in 0 .. N |-> E(after, i)]
    BY <1>8
<1> HIDE DEF after
<1>10. after[0] = v /\ \A n \in 1 .. N : after[n] = B(after[n - 1], n)
    <2>1. \A i \in 0 .. N : after[i] = E(after, i)
        BY <1>9
    <2>2. QED
        BY <1>3, <1>4, <2>1
<1> DEFINE S == {n \in Nat : after[n] \in V}
<1>11. \A n \in 0 .. N : n \in S
    <2>1. 0 \in S
        BY <1>4, <1>10
    <2>2. ASSUME NEW n \in 1 .. N, n - 1 \in S PROVE n \in S
        BY <1>1, <1>4, <1>10, <2>2
    <2> HIDE DEF S
    <2>3. QED
        BY <1>4, <2>1, <2>2, Passed
<1>12. after \in [0 .. N -> V]
    BY <1>9, <1>11
<1>13. QED
    BY <1>2, <1>10, <1>12 DEF B, V, N

(* A list of boards without a repetition, and one that goes on from it.    *)
Distinct(ks) == ks \in Seq(Boards) /\ \A i, j \in DOMAIN ks : ks[i] = ks[j] => i = j
Extends(more, ks) == Len(ks) <= Len(more) /\ \A i \in 1 .. Len(ks) : more[i] = ks[i]
Grown(ks, b) == IF b \in Range(ks) THEN ks ELSE Append(ks, b)

LEMMA GrownIs ==
    ASSUME NEW ks, Distinct(ks), NEW b \in Boards
    PROVE  /\ Distinct(Grown(ks, b)) /\ Extends(Grown(ks, b), ks)
           /\ \E j \in DOMAIN Grown(ks, b) : Grown(ks, b)[j] = b
<1>1. ks \in Seq(Boards) /\ Len(ks) \in Nat /\ DOMAIN ks = 1 .. Len(ks)
    BY DEF Distinct
<1>2. CASE b \in Range(ks)
    <2>1. Grown(ks, b) = ks
        BY <1>2 DEF Grown
    <2>2. QED
        BY <1>1, <1>2, <2>1 DEF Extends, Range
<1>3. CASE b \notin Range(ks)
    <2> DEFINE more == Append(ks, b)
    <2>1. Grown(ks, b) = more
        BY <1>3 DEF Grown
    <2>2. /\ more \in Seq(Boards) /\ Len(more) = Len(ks) + 1
          /\ \A i \in 1 .. Len(ks) : more[i] = ks[i]
          /\ more[Len(ks) + 1] = b
        BY <1>1, AppendProperties
    <2> HIDE DEF more
    <2>3. DOMAIN more = 1 .. Len(ks) + 1
        BY <2>2
    <2>4. \A i \in DOMAIN ks : ks[i] # b
        BY <1>3 DEF Range
    <2>5. \A i, j \in DOMAIN more : more[i] = more[j] => i = j
        <3> SUFFICES ASSUME NEW i \in DOMAIN more, NEW j \in DOMAIN more, more[i] = more[j] PROVE i = j
            OBVIOUS
        <3>1. i \in 1 .. Len(ks) \/ i = Len(ks) + 1
            BY <1>1, <2>3
        <3>2. j \in 1 .. Len(ks) \/ j = Len(ks) + 1
            BY <1>1, <2>3
        <3>3. \A k \in 1 .. Len(ks) : more[k] # b
            BY <1>1, <2>2, <2>4
        <3>4. CASE i \in 1 .. Len(ks) /\ j \in 1 .. Len(ks)
            BY <1>1, <2>2, <3>4 DEF Distinct
        <3>5. QED
            BY <2>2, <3>1, <3>2, <3>3, <3>4
    <2>6. Distinct(more)
        BY <2>2, <2>5 DEF Distinct
    <2>7. Len(ks) + 1 \in DOMAIN more
        BY <1>1, <2>3
    <2>8. Extends(more, ks)
        BY <1>1, <2>2 DEF Extends
    <2>9. QED
        BY <2>1, <2>2, <2>6, <2>7, <2>8
<1>4. QED
    BY <1>2, <1>3

LEMMA ExtendsOn ==
    ASSUME NEW a, NEW b, NEW c, Distinct(a), Distinct(b), Distinct(c), Extends(b, a), Extends(c, b)
    PROVE  Extends(c, a)
<1>1. Len(a) \in Nat /\ Len(b) \in Nat /\ Len(c) \in Nat
    BY DEF Distinct
<1>2. QED
    BY <1>1 DEF Extends

(* The keys found by the moves of a node, the ones known included.         *)
LEMMA FoundIs ==
    ASSUME Distinct(keys), NEW moves \in Seq(Boards), NEW n \in 0 .. Len(moves)
    PROVE  /\ Distinct(Found(moves, n)) /\ Extends(Found(moves, n), keys)
           /\ \A i \in 1 .. n : \E j \in DOMAIN Found(moves, n) : Found(moves, n)[j] = moves[i]
<1> DEFINE V == {ks \in Seq(Boards) : Distinct(ks)}
           B(w, i) == Grown(w, moves[i])
           E(f, i) == IF i = 0 THEN keys ELSE WithKey(f[i - 1], moves[i])
           found == CHOOSE f : f = [i \in 0 .. n |-> E(f, i)]
           g == [x \in (1 .. n) \X V |-> B(x[2], x[1])]
<1>0. n \in Nat /\ n <= Len(moves) /\ Len(moves) \in Nat /\ \A i \in 1 .. n : moves[i] \in Boards
    OBVIOUS
<1>1. \A i \in 1 .. n : \A w \in V : B(w, i) \in V
    BY <1>0, GrownIs DEF Distinct
<1>2. Found(moves, n) = found[n]
    BY DEF Found
<1>3. \A f, i : E(f, i) = IF i = 0 THEN keys ELSE B(f[i - 1], i)
    <2>1. \A a, b : WithKey(a, b) = Grown(a, b)
        <3> SUFFICES ASSUME NEW a, NEW b PROVE WithKey(a, b) = Grown(a, b)
            OBVIOUS
        <3>1. WithKey(a, b) = CHOOSE x \in {IF b \in Range(ks) THEN ks ELSE Append(ks, b) : ks \in {a}} : TRUE
            BY DEF With, WithKey
        <3> DEFINE G == IF b \in Range(a) THEN a ELSE Append(a, b)
                   T == {IF b \in Range(ks) THEN ks ELSE Append(ks, b) : ks \in {a}}
        <3>2. T = {G}
            OBVIOUS
        <3> HIDE DEF T, G
        <3>3. (CHOOSE x \in T : TRUE) = G
            BY <3>2
        <3>4. QED
            BY <3>1, <3>3 DEF T, G, Grown
    <2>2. QED
        BY <2>1
<1>4. keys \in V
    BY DEF Distinct
<1>5. \A w \in V : Distinct(w)
    OBVIOUS
<1>6. \A w, i : B(w, i) = Grown(w, moves[i])
    OBVIOUS
<1> HIDE DEF B, E, V
<1>7. g \in [(1 .. n) \X V -> V] /\ \A i \in 1 .. n : \A w \in V : g[<<i, w>>] = B(w, i)
    BY <1>1
<1> HIDE DEF g
<1>8. PICK f \in [0 .. n -> V] : f[0] = keys /\ \A i \in 1 .. n : f[i] = g[<<i, f[i - 1]>>]
    <2>1. g \in [(1 .. n) \X V -> V]
        BY <1>7
    <2>2. n \in Nat /\ keys \in V
        BY <1>0, <1>4
    <2>3. \E f : Chained(n, V, keys, g, f)
        BY <2>1, <2>2, Chain
    <2>4. QED
        BY <2>3 DEF Chained
<1>9. \A i \in 1 .. n : f[i] = B(f[i - 1], i)
    <2> SUFFICES ASSUME NEW i \in 1 .. n PROVE f[i] = B(f[i - 1], i)
        OBVIOUS
    <2>1. f[i - 1] \in V
        BY <1>0
    <2>2. QED
        BY <1>7, <1>8, <2>1
<1>10. f = [i \in 0 .. n |-> E(f, i)]
    <2>1. \A i \in 0 .. n : f[i] = E(f, i)
        <3> SUFFICES ASSUME NEW i \in 0 .. n PROVE f[i] = E(f, i)
            OBVIOUS
        <3>1. i # 0 => i \in 1 .. n
            OBVIOUS
        <3>2. QED
            BY <1>3, <1>8, <1>9, <3>1
    <2>2. QED
        BY <2>1
<1>11. found = [i \in 0 .. n |-> E(found, i)]
    BY <1>10
<1> HIDE DEF found
<1>12. found[0] = keys /\ \A i \in 1 .. n : found[i] = B(found[i - 1], i)
    <2>1. \A i \in 0 .. n : found[i] = E(found, i)
        BY <1>11
    <2>2. QED
        BY <1>0, <1>3, <2>1
<1> DEFINE OK(k) == /\ Distinct(found[k]) /\ found[k] \in V /\ Extends(found[k], keys)
                    /\ \A i \in 1 .. k : \E j \in DOMAIN found[k] : found[k][j] = moves[i]
           S == {k \in Nat : OK(k)}
<1>13. 0 \in S
    <2>1. Extends(keys, keys)
        BY DEF Distinct, Extends
    <2>2. QED
        BY <1>4, <1>12, <2>1
<1>14. ASSUME NEW k \in 1 .. n, k - 1 \in S PROVE k \in S
    <2> DEFINE old == found[k - 1]
               new == found[k]
               b == moves[k]
    <2>1. new = Grown(old, b) /\ b \in Boards
        BY <1>0, <1>6, <1>12
    <2>2. Distinct(old) /\ old \in V /\ Extends(old, keys)
        BY <1>14
    <2>3. \A i \in 1 .. k - 1 : \E j \in DOMAIN old : old[j] = moves[i]
        BY <1>14
    <2>4. new \in V
        BY <1>1, <1>12, <2>2
    <2> HIDE DEF old, new, b
    <2>5. Distinct(new) /\ Extends(new, old) /\ \E j \in DOMAIN new : new[j] = b
        BY <2>1, <2>2, GrownIs
    <2>6. Extends(new, keys)
        BY <2>2, <2>5, ExtendsOn
    <2>7. \A j \in DOMAIN old : j \in DOMAIN new /\ new[j] = old[j]
        <3>1. old \in Seq(Boards) /\ new \in Seq(Boards)
            BY <2>2, <2>5 DEF Distinct
        <3>2. Len(old) <= Len(new) /\ \A j \in 1 .. Len(old) : new[j] = old[j]
            BY <2>5 DEF Extends
        <3>3. /\ DOMAIN old = 1 .. Len(old) /\ Len(old) \in Nat
              /\ DOMAIN new = 1 .. Len(new) /\ Len(new) \in Nat
            BY <3>1
        <3>4. 1 .. Len(old) \subseteq 1 .. Len(new)
            BY <3>2, <3>3
        <3>5. QED
            BY <3>2, <3>3, <3>4
    <2>8. \A i \in 1 .. k : \E j \in DOMAIN new : new[j] = moves[i]
        <3> SUFFICES ASSUME NEW i \in 1 .. k PROVE \E j \in DOMAIN new : new[j] = moves[i]
            OBVIOUS
        <3>1. CASE i = k
            BY <2>5, <3>1 DEF b
        <3>2. CASE i # k
            <4>1. i \in 1 .. k - 1
                BY <1>0, <3>2
            <4>2. PICK j \in DOMAIN old : old[j] = moves[i]
                BY <2>3, <4>1
            <4>3. QED
                BY <2>7, <4>2
        <3>3. QED
            BY <3>1, <3>2
    <2>9. OK(k)
        BY <2>4, <2>5, <2>6, <2>8 DEF new
    <2>10. QED
        BY <1>0, <2>9
<1>15. n \in S
    <2> HIDE DEF S
    <2>1. \A k \in 0 .. n : k \in S
        BY <1>0, <1>13, <1>14, Passed
    <2>2. QED
        BY <1>0, <2>1
<1>16. QED
    BY <1>2, <1>15

(* A row of the moves of a node leads to the boards after them.            *)
Linked(ks, i, row) ==
    /\ row \in Seq(Nat) /\ Len(row) = Len(Branches(ks[i]))
    /\ \A j \in 1 .. Len(row) : row[j] \in DOMAIN ks /\ ks[row[j]] = Branches(ks[i])[j]

RegionShape ==
    /\ Distinct(keys) /\ keys # <<>> /\ keys[1] = BoardAt[root]
    /\ head \in 0 .. Len(keys) /\ DOMAIN kids = 1 .. head /\ kids \in Seq(Seq(Nat))
    /\ \A i \in 1 .. head : Linked(keys, i, kids[i])

(* The values found so far are borne out; in the end they are the values   *)
(* of the game without a clock.                                            *)
Borne(w) ==
    /\ w \in [1 .. Len(keys) -> Values]
    /\ \A i \in 1 .. Len(keys) :
          IF End[keys[i]] # "None" THEN w[i] = End[keys[i]]
          ELSE /\ w[i] # "Draw"
               /\ w[i] = "Win" => \E k \in Range(kids[i]) : w[k] = "Loss"
               /\ w[i] = "Loss" => \A k \in Range(kids[i]) : w[k] = "Win"

Fixed(w) ==
    /\ w \in [1 .. Len(keys) -> {"Win", "Loss", "Draw"}]
    /\ \A i \in 1 .. Len(keys) :
          w[i] = IF End[keys[i]] # "None" THEN End[keys[i]]
                 ELSE IF \E k \in Range(kids[i]) : w[k] = "Loss" THEN "Win"
                 ELSE IF \A k \in Range(kids[i]) : w[k] = "Win" THEN "Loss" ELSE "Draw"

Measured == \A i \in 1 .. Len(keys) : dist[i] = DistFrom(dist, i)

LEMMA BranchesIs ==
    ASSUME NEW b \in Boards
    PROVE  /\ Branches(b) \in Seq(Boards) /\ Next[b] \in Seq(Boards)
           /\ End[b] \in {"Win", "Loss", "Draw", "None"}
           /\ Branches(b) = <<>> <=> End[b] # "None"
<1>1. /\ Next[b] \in Seq(Boards) /\ End[b] \in {"Win", "Loss", "Draw", "None"}
      /\ End[b] = "None" => Next[b] # <<>>
    BY RegionAssumption
<1>2. QED
    BY <1>1, EmptySeq DEF Branches

LEMMA NodeOfIs ==
    ASSUME NEW ks, NEW b, \E j \in DOMAIN ks : ks[j] = b
    PROVE  NodeOf(ks, b) \in DOMAIN ks /\ ks[NodeOf(ks, b)] = b
BY DEF NodeOf

LEMMA LaunchShape ==
    ASSUME BoardAt[root] \in Boards, head = 0, kids = <<>>, NEW n, Launch(BoardAt[root], n), root' = root
    PROVE  RegionShape'
<1> DEFINE b == BoardAt[root]
           one == <<b>>
<1>1. keys' = one /\ head' = head /\ kids' = kids /\ b \in Boards
    BY DEF Launch
<1>2. one \in Seq(Boards) /\ Len(one) = 1 /\ DOMAIN one = {1} /\ one[1] = b /\ one # <<>>
    BY <1>1
<1> HIDE DEF one, b
<1>3. Distinct(one)
    BY <1>2 DEF Distinct
<1>4. kids \in Seq(Seq(Nat)) /\ DOMAIN kids = 1 .. 0
    BY EmptySeq
<1>5. BoardAt'[root'] = b
    BY DEF b
<1>6. QED
    BY <1>1, <1>2, <1>3, <1>4, <1>5 DEF RegionShape, b

(* The keys found keep their numbers, and the node expanded gets its row.  *)
LEMMA ExpandShape ==
    ASSUME RegionShape, used \in Nat, quota \in Nat, NEW stopped, Expand(stopped), stage' = "expand", root' = root
    PROVE  RegionShape'
<1> DEFINE moves == Branches(keys[head + 1])
           n == Affordable(Len(moves))
<1>1. \E ks \in {Found(moves, n)} :
         /\ keys' = ks /\ head' = head + 1
         /\ kids' = Append(kids, [i \in 1 .. n |-> NodeOf(ks, moves[i])])
         /\ ~(n < Len(moves))
    BY DEF Expand, Exit
<1>0. n = Affordable(Len(moves)) /\ moves = Branches(keys[head + 1])
    OBVIOUS
<1> HIDE DEF n, moves
<1> DEFINE ks == Found(moves, n)
           row == [i \in 1 .. n |-> NodeOf(ks, moves[i])]
           h == head + 1
<1>2. keys' = ks /\ head' = h /\ kids' = Append(kids, row) /\ ~(n < Len(moves))
    BY <1>1
<1>3. Distinct(keys) /\ keys \in Seq(Boards) /\ head < Len(keys) /\ head \in Nat /\ Len(keys) \in Nat
    BY DEF RegionShape, Distinct, Expand
<1>4. h \in Nat /\ h \in 1 .. Len(keys) /\ keys[h] \in Boards /\ moves = Branches(keys[h])
    BY <1>0, <1>3
<1>5. moves \in Seq(Boards) /\ Len(moves) \in Nat /\ DOMAIN moves = 1 .. Len(moves)
    BY <1>4, BranchesIs
<1>6. n = Len(moves)
    <2>1. n = Affordable(Len(moves))
        BY <1>0
    <2> DEFINE room == (quota - used) - 1
    <2>2. n = IF room >= Len(moves) THEN Len(moves) ELSE IF room > 0 THEN room ELSE 0
        BY <2>1 DEF Affordable
    <2>3. room \in Int
        OBVIOUS
    <2> DEFINE L == Len(moves)
    <2>4. L \in Nat /\ ~(n < L) /\ n = IF room >= L THEN L ELSE IF room > 0 THEN room ELSE 0
        BY <1>2, <1>5, <2>2
    <2> HIDE DEF room, L
    <2>5. n = L
        <3>1. CASE room >= L
            BY <2>4, <3>1
        <3>2. CASE ~(room >= L) /\ room > 0
            BY <2>3, <2>4, <3>2
        <3>3. CASE ~(room >= L) /\ ~(room > 0)
            <4>1. n = 0
                BY <2>4, <3>3
            <4>2. QED
                BY <2>4, <4>1
        <3>4. QED
            BY <3>1, <3>2, <3>3
    <2>6. QED
        BY <2>5 DEF L
<1>7. n \in 0 .. Len(moves)
    BY <1>5, <1>6
<1>8. Distinct(ks) /\ Extends(ks, keys) /\ \A i \in 1 .. n : \E j \in DOMAIN ks : ks[j] = moves[i]
    BY <1>3, <1>5, <1>7, FoundIs
<1> HIDE DEF ks
<1>9. ks \in Seq(Boards) /\ Len(ks) \in Nat /\ DOMAIN ks = 1 .. Len(ks) /\ Len(keys) <= Len(ks)
    BY <1>3, <1>8 DEF Distinct, Extends
<1>10. \A i \in 1 .. Len(keys) : i \in DOMAIN ks /\ ks[i] = keys[i]
    BY <1>3, <1>8, <1>9 DEF Extends
<1>11. \A i \in 1 .. n : NodeOf(ks, moves[i]) \in DOMAIN ks /\ ks[NodeOf(ks, moves[i])] = moves[i]
    BY <1>8, NodeOfIs
<1>12. row \in Seq(Nat) /\ Len(row) = n /\ \A i \in 1 .. n : row[i] \in DOMAIN ks /\ ks[row[i]] = moves[i]
    <2>1. \A i \in 1 .. n : NodeOf(ks, moves[i]) \in Nat
        BY <1>9, <1>11
    <2>2. n \in Nat
        BY <1>5, <1>6
    <2>3. QED
        BY <1>11, <2>1, <2>2
<1> HIDE DEF row
<1>13. Linked(ks, h, row)
    <2>1. ks[h] = keys[h]
        BY <1>4, <1>10
    <2>2. QED
        BY <1>4, <1>6, <1>12, <2>1 DEF Linked
<1>14. kids \in Seq(Seq(Nat)) /\ DOMAIN kids = 1 .. head /\ Len(kids) = head
    <2>1. kids \in Seq(Seq(Nat)) /\ DOMAIN kids = 1 .. head
        BY DEF RegionShape
    <2>2. Len(kids) \in Nat /\ DOMAIN kids = 1 .. Len(kids)
        BY <2>1
    <2>3. QED
        BY <1>3, <2>1, <2>2
<1> DEFINE more == Append(kids, row)
<1>15. more \in Seq(Seq(Nat)) /\ DOMAIN more = 1 .. h /\ more[h] = row /\ \A i \in 1 .. head : more[i] = kids[i]
    <2>1. Len(more) = Len(kids) + 1 /\ more \in Seq(Seq(Nat)) /\ more[Len(kids) + 1] = row
          /\ \A i \in 1 .. Len(kids) : more[i] = kids[i]
        BY <1>12, <1>14, AppendProperties
    <2> HIDE DEF more
    <2>2. QED
        BY <1>14, <2>1
<1> HIDE DEF more
<1>16. ASSUME NEW i \in 1 .. h PROVE Linked(ks, i, more[i])
    <2>1. CASE i = h
        BY <1>13, <1>15, <2>1
    <2>2. CASE i # h
        <3>1. i \in 1 .. head /\ i \in 1 .. Len(keys)
            BY <1>3, <1>4, <2>2
        <3>2. Linked(keys, i, kids[i])
            BY <3>1 DEF RegionShape
        <3>3. ks[i] = keys[i]
            BY <1>10, <3>1
        <3>4. \A j \in DOMAIN keys : j \in DOMAIN ks /\ ks[j] = keys[j]
            BY <1>3, <1>10
        <3>5. QED
            BY <1>15, <3>1, <3>2, <3>3, <3>4 DEF Linked
    <2>3. QED
        BY <2>1, <2>2
<1>17. h \in 0 .. Len(ks)
    BY <1>4, <1>9
<1>18. ks # <<>> /\ ks[1] = keys[1]
    BY <1>3, <1>9, <1>10, EmptySeq
<1>19. keys' = ks /\ head' = h /\ kids' = more
    BY <1>2 DEF more
<1>20. QED
    BY <1>8, <1>15, <1>16, <1>17, <1>18, <1>19 DEF RegionShape

LEMMA LeastIs ==
    ASSUME NEW S, S \subseteq Nat, S # {}
    PROVE  Least(S) \in S /\ \A m \in S : Least(S) <= m
<1>1. \E n \in S : \A m \in S : n <= m
    BY LeastExists
<1>2. QED
    BY <1>1 DEF Least

LEMMA GreatestIs ==
    ASSUME NEW S, S \subseteq Nat, IsFiniteSet(S), S # {}
    PROVE  Greatest(S) \in S /\ \A m \in S : Greatest(S) >= m
<1>1. \E n \in S : \A m \in S : n >= m
    BY GreatestExists
<1>2. QED
    BY <1>1 DEF Greatest

Complete == RegionShape /\ head = Len(keys)

LEMMA RowIs ==
    ASSUME Complete, NEW i \in 1 .. Len(keys)
    PROVE  /\ keys[i] \in Boards /\ End[keys[i]] \in {"Win", "Loss", "Draw", "None"}
           /\ kids[i] \in Seq(Nat) /\ DOMAIN kids[i] = 1 .. Len(kids[i]) /\ Len(kids[i]) \in Nat
           /\ \A j \in DOMAIN kids[i] : kids[i][j] \in 1 .. Len(keys)
           /\ Range(kids[i]) \subseteq 1 .. Len(keys) /\ IsFiniteSet(Range(kids[i]))
           /\ kids[i] = <<>> <=> End[keys[i]] # "None"
           /\ Range(kids[i]) = {} <=> End[keys[i]] # "None"
           /\ \A k \in Range(kids[i]) : keys[k] \in Range(Branches(keys[i]))
           /\ \A b \in Range(Branches(keys[i])) : \E k \in Range(kids[i]) : keys[k] = b
<1> DEFINE row == kids[i]
           moves == Branches(keys[i])
<1>1. keys \in Seq(Boards) /\ DOMAIN keys = 1 .. Len(keys) /\ Len(keys) \in Nat /\ Linked(keys, i, row)
    BY DEF Complete, RegionShape, Distinct
<1>2. keys[i] \in Boards
    BY <1>1
<1>3. /\ End[keys[i]] \in {"Win", "Loss", "Draw", "None"} /\ moves \in Seq(Boards)
      /\ moves = <<>> <=> End[keys[i]] # "None"
    BY <1>2, BranchesIs
<1>4. /\ row \in Seq(Nat) /\ Len(row) = Len(moves)
      /\ \A j \in 1 .. Len(row) : row[j] \in DOMAIN keys /\ keys[row[j]] = moves[j]
    BY <1>1 DEF Linked
<1> HIDE DEF row, moves
<1>5. /\ Len(row) \in Nat /\ DOMAIN row = 1 .. Len(row) /\ DOMAIN moves = 1 .. Len(row)
      /\ row = <<>> <=> Len(row) = 0
      /\ moves = <<>> <=> Len(row) = 0
    BY <1>3, <1>4, EmptySeq
<1>6. Range(row) = {row[j] : j \in 1 .. Len(row)} /\ Range(moves) = {moves[j] : j \in 1 .. Len(row)}
    BY <1>5 DEF Range
<1>7. Range(row) \subseteq 1 .. Len(keys)
    BY <1>1, <1>4, <1>6
<1>8. IsFiniteSet(Range(row))
    <2>1. IsFiniteSet(1 .. Len(keys))
        BY <1>1, FS_Interval
    <2>2. QED
        BY <1>7, <2>1, FS_Subset
<1>9. Range(row) = {} <=> Len(row) = 0
    <2>1. CASE Len(row) # 0
        <3>1. 1 \in 1 .. Len(row)
            BY <1>5, <2>1
        <3>2. row[1] \in Range(row)
            BY <1>6, <3>1
        <3>3. QED
            BY <2>1, <3>2
    <2>2. CASE Len(row) = 0
        <3>1. 1 .. Len(row) = {}
            BY <2>2
        <3>2. QED
            BY <1>6, <2>2, <3>1
    <2>3. QED
        BY <2>1, <2>2
<1>10. \A k \in Range(row) : keys[k] \in Range(moves)
    BY <1>4, <1>6
<1>11. \A b \in Range(moves) : \E k \in Range(row) : keys[k] = b
    <2> SUFFICES ASSUME NEW b \in Range(moves) PROVE \E k \in Range(row) : keys[k] = b
        OBVIOUS
    <2>1. PICK j \in 1 .. Len(row) : b = moves[j]
        BY <1>6
    <2>2. row[j] \in Range(row) /\ keys[row[j]] = b
        BY <1>4, <1>6, <2>1
    <2>3. QED
        BY <2>2
<1>12. \A j \in DOMAIN row : row[j] \in 1 .. Len(keys)
    BY <1>1, <1>4, <1>5
<1>13. QED
    BY <1>2, <1>3, <1>4, <1>5, <1>7, <1>8, <1>9, <1>10, <1>11, <1>12 DEF row, moves

(* A node is judged only by what its children are already known to be.     *)
LEMMA ValueFromIs ==
    ASSUME Complete, NEW w, Borne(w), NEW i \in 1 .. Len(keys)
    PROVE  Borne([w EXCEPT ![i] = ValueFrom(w, i)])
<1> DEFINE v == ValueFrom(w, i)
           x == [w EXCEPT ![i] = v]
<1>1. w \in [1 .. Len(keys) -> Values] /\ v \in Values
    BY DEF Borne, ValueFrom, Values
<1>2. v = IF w[i] # "open" THEN w[i]
          ELSE IF \E k \in Range(kids[i]) : w[k] = "Loss" THEN "Win"
          ELSE IF \A k \in Range(kids[i]) : w[k] = "Win" THEN "Loss" ELSE "open"
    BY DEF ValueFrom
<1> HIDE DEF v
<1>3. x \in [1 .. Len(keys) -> Values] /\ x[i] = v /\ \A m \in 1 .. Len(keys) : m # i => x[m] = w[m]
    BY <1>1
<1> HIDE DEF x
<1>4. \A m \in 1 .. Len(keys) : w[m] # "open" => x[m] = w[m]
    BY <1>2, <1>3
<1>5. ASSUME NEW m \in 1 .. Len(keys)
      PROVE  IF End[keys[m]] # "None" THEN x[m] = End[keys[m]]
             ELSE /\ x[m] # "Draw"
                  /\ x[m] = "Win" => \E k \in Range(kids[m]) : x[k] = "Loss"
                  /\ x[m] = "Loss" => \A k \in Range(kids[m]) : x[k] = "Win"
    <2>1. Range(kids[m]) \subseteq 1 .. Len(keys) /\ End[keys[m]] \in {"Win", "Loss", "Draw", "None"}
        BY RowIs
    <2>2. IF End[keys[m]] # "None" THEN w[m] = End[keys[m]]
          ELSE /\ w[m] # "Draw"
               /\ w[m] = "Win" => \E k \in Range(kids[m]) : w[k] = "Loss"
               /\ w[m] = "Loss" => \A k \in Range(kids[m]) : w[k] = "Win"
        BY DEF Borne
    <2>3. \A k \in Range(kids[m]) : (w[k] = "Loss" => x[k] = "Loss") /\ (w[k] = "Win" => x[k] = "Win")
        BY <1>4, <2>1
    <2>4. CASE w[m] # "open" \/ m # i
        <3>1. x[m] = w[m]
            BY <1>3, <1>4, <2>4
        <3>2. QED
            BY <2>2, <2>3, <3>1
    <2>5. CASE w[m] = "open" /\ m = i
        <3>1. End[keys[m]] = "None"
            BY <2>1, <2>2, <2>5
        <3>2. x[m] = IF \E k \in Range(kids[m]) : w[k] = "Loss" THEN "Win"
                     ELSE IF \A k \in Range(kids[m]) : w[k] = "Win" THEN "Loss" ELSE "open"
            BY <1>2, <1>3, <2>5
        <3>3. QED
            BY <2>3, <3>1, <3>2
    <2>6. QED
        BY <2>4, <2>5
<1>6. Borne(x)
    BY <1>3, <1>5 DEF Borne
<1>7. QED
    BY <1>6 DEF x, v

(* Steps that change one place each, every place once, and change nothing  *)
(* in all, have changed nothing.                                           *)
LEMMA AllSame ==
    ASSUME NEW N \in Nat, NEW V, NEW f, \A n \in 0 .. N : f[n] \in [1 .. N -> V],
           \A n \in 1 .. N : \A m \in 1 .. N : m # n => f[n][m] = f[n - 1][m],
           f[N] = f[0]
    PROVE  \A n \in 0 .. N : f[n] = f[0]
<1>1. \A m \in 1 .. N : \A n \in 0 .. N : n < m => f[n][m] = f[0][m]
    <2> SUFFICES ASSUME NEW m \in 1 .. N PROVE \A n \in 0 .. N : n < m => f[n][m] = f[0][m]
        OBVIOUS
    <2> DEFINE U == {n \in Nat : n < m => f[n][m] = f[0][m]}
    <2>1. 0 \in U
        OBVIOUS
    <2>2. ASSUME NEW n \in 1 .. N, n - 1 \in U PROVE n \in U
        <3>1. n < m => n - 1 < m /\ n # m
            OBVIOUS
        <3>2. QED
            BY <2>2, <3>1
    <2> HIDE DEF U
    <2>3. \A n \in 0 .. N : n \in U
        BY <2>1, <2>2, Passed
    <2>4. QED
        BY <2>3 DEF U
<1>2. \A m \in 1 .. N : \A d \in 0 .. N : m + d <= N => f[m + d][m] = f[m][m]
    <2> SUFFICES ASSUME NEW m \in 1 .. N PROVE \A d \in 0 .. N : m + d <= N => f[m + d][m] = f[m][m]
        OBVIOUS
    <2> DEFINE U == {d \in Nat : m + d <= N => f[m + d][m] = f[m][m]}
    <2>1. 0 \in U
        OBVIOUS
    <2>2. ASSUME NEW d \in 1 .. N, d - 1 \in U PROVE d \in U
        <3>1. CASE m + d <= N
            <4>1. m + d \in 1 .. N /\ m + (d - 1) <= N /\ m # m + d /\ (m + d) - 1 = m + (d - 1)
                BY <3>1
            <4>2. f[m + d][m] = f[(m + d) - 1][m]
                BY <4>1
            <4>3. f[m + (d - 1)][m] = f[m][m]
                BY <2>2, <4>1
            <4>4. QED
                BY <4>1, <4>2, <4>3
        <3>2. QED
            BY <3>1
    <2> HIDE DEF U
    <2>3. \A d \in 0 .. N : d \in U
        BY <2>1, <2>2, Passed
    <2>4. QED
        BY <2>3 DEF U
<1>3. \A m \in 1 .. N : \A n \in 0 .. N : m <= n => f[n][m] = f[0][m]
    <2> SUFFICES ASSUME NEW m \in 1 .. N, NEW n \in 0 .. N, m <= n PROVE f[n][m] = f[0][m]
        OBVIOUS
    <2>1. n - m \in 0 .. N /\ m + (n - m) = n /\ m + (n - m) <= N
        OBVIOUS
    <2>2. f[m + (n - m)][m] = f[m][m]
        BY <1>2, <2>1
    <2>3. N - m \in 0 .. N /\ m + (N - m) = N /\ m + (N - m) <= N
        OBVIOUS
    <2>4. f[m + (N - m)][m] = f[m][m]
        BY <1>2, <2>3
    <2>5. QED
        BY <2>1, <2>2, <2>3, <2>4
<1> SUFFICES ASSUME NEW n \in 0 .. N PROVE f[n] = f[0]
    OBVIOUS
<1>4. \A m \in 1 .. N : f[n][m] = f[0][m]
    <2> SUFFICES ASSUME NEW m \in 1 .. N PROVE f[n][m] = f[0][m]
        OBVIOUS
    <2>1. n < m \/ m <= n
        OBVIOUS
    <2>2. QED
        BY <1>1, <1>3, <2>1
<1>5. f[n] \in [1 .. N -> V] /\ f[0] \in [1 .. N -> V]
    OBVIOUS
<1> DEFINE x == f[n]   y == f[0]
<1>6. x \in [1 .. N -> V] /\ y \in [1 .. N -> V] /\ \A m \in 1 .. N : x[m] = y[m]
    BY <1>4, <1>5
<1> HIDE DEF x, y
<1>7. x = y
    BY <1>6
<1>8. QED
    BY <1>7 DEF x, y

(* A sweep that changes nothing has found a fixpoint.                      *)
LEMMA SweepBorne ==
    ASSUME Complete, NEW w, Borne(w)
    PROVE  /\ Borne(Sweep(w, ValueFrom))
           /\ Sweep(w, ValueFrom) = w => \A i \in 1 .. Len(keys) : ValueFrom(w, i) = w[i]
<1> DEFINE N == Len(keys)
           V == [1 .. N -> Values]
           after == Sweep(w, ValueFrom)
<1>1. N \in Nat /\ w \in V
    BY DEF Complete, RegionShape, Distinct, Borne
<1>2. \A i \in 1 .. N, x \in V : ValueFrom(x, i) \in Values
    BY DEF ValueFrom, Values
<1>3. PICK f \in [0 .. N -> V] :
          /\ f[0] = w
          /\ \A n \in 1 .. N : f[n] = [f[n - 1] EXCEPT ![n] = ValueFrom(f[n - 1], n)]
          /\ after = f[N]
    BY <1>1, <1>2, SweepValuesIs
<1> HIDE DEF after
<1>4. Borne(after)
    <2> DEFINE S == {n \in Nat : Borne(f[n])}
    <2>1. 0 \in S
        BY <1>3
    <2>2. ASSUME NEW n \in 1 .. N, n - 1 \in S PROVE n \in S
        <3>1. Borne(f[n - 1])
            BY <2>2
        <3>2. Borne([f[n - 1] EXCEPT ![n] = ValueFrom(f[n - 1], n)])
            BY <3>1, ValueFromIs
        <3>3. QED
            BY <1>1, <1>3, <3>2
    <2> HIDE DEF S
    <2>3. \A n \in 0 .. N : n \in S
        BY <1>1, <2>1, <2>2, Passed
    <2>4. N \in S
        BY <1>1, <2>3
    <2>5. QED
        BY <1>3, <2>4 DEF S
<1>5. ASSUME after = w, NEW i \in 1 .. N PROVE ValueFrom(w, i) = w[i]
    <2>1. \A n \in 0 .. N : f[n] \in V
        BY <1>3
    <2>2. \A n \in 1 .. N : n - 1 \in 0 .. N /\ n \in 0 .. N
        BY <1>1
    <2>3. \A n \in 1 .. N : \A m \in 1 .. N : m # n => f[n][m] = f[n - 1][m]
        <3> SUFFICES ASSUME NEW n \in 1 .. N, NEW m \in 1 .. N, m # n PROVE f[n][m] = f[n - 1][m]
            OBVIOUS
        <3> DEFINE x == f[n - 1]
        <3>1. x \in V /\ f[n] = [x EXCEPT ![n] = ValueFrom(x, n)]
            BY <1>3, <2>1, <2>2
        <3> HIDE DEF x
        <3>2. f[n][m] = x[m]
            BY <3>1
        <3>3. QED
            BY <3>2 DEF x
    <2>4. \A n \in 1 .. N : f[n][n] = ValueFrom(f[n - 1], n)
        <3> SUFFICES ASSUME NEW n \in 1 .. N PROVE f[n][n] = ValueFrom(f[n - 1], n)
            OBVIOUS
        <3> DEFINE x == f[n - 1]
                   y == ValueFrom(x, n)
        <3>1. x \in V /\ f[n] = [x EXCEPT ![n] = y]
            BY <1>3, <2>1, <2>2
        <3> HIDE DEF x, y
        <3>2. f[n][n] = y
            BY <3>1
        <3>3. QED
            BY <3>2 DEF x, y
    <2>5. \A n \in 0 .. N : f[n] = w
        <3>1. f[N] = f[0]
            BY <1>3, <1>5
        <3>2. \A n \in 0 .. N : f[n] \in [1 .. N -> Values]
            BY <2>1
        <3>3. \A n \in 0 .. N : f[n] = f[0]
            BY <1>1, <2>3, <3>1, <3>2, AllSame
        <3>4. QED
            BY <1>3, <3>3
    <2>6. i - 1 \in 0 .. N /\ i \in 0 .. N
        BY <2>2
    <2>7. f[i - 1] = w /\ f[i] = w
        BY <2>5, <2>6
    <2>8. QED
        BY <2>4, <2>7
<1>6. QED
    BY <1>4, <1>5 DEF after

LEMMA BorneFixed ==
    ASSUME Complete, NEW w, Borne(w), \A i \in 1 .. Len(keys) : ValueFrom(w, i) = w[i]
    PROVE  Fixed([i \in DOMAIN w |-> IF w[i] = "open" THEN "Draw" ELSE w[i]])
<1> DEFINE x == [i \in DOMAIN w |-> IF w[i] = "open" THEN "Draw" ELSE w[i]]
<1>1. w \in [1 .. Len(keys) -> Values]
    BY DEF Borne
<1>2. DOMAIN x = 1 .. Len(keys) /\ \A i \in 1 .. Len(keys) : x[i] = IF w[i] = "open" THEN "Draw" ELSE w[i]
    BY <1>1
<1>3. x = [i \in 1 .. Len(keys) |-> x[i]]
    BY <1>1
<1> HIDE DEF x
<1>4. \A i \in 1 .. Len(keys) : w[i] \in {"Win", "Loss", "Draw", "open"}
    BY <1>1 DEF Values
<1>5. \A i \in 1 .. Len(keys) : x[i] \in {"Win", "Loss", "Draw"}
    BY <1>2, <1>4
<1>6. ASSUME NEW i \in 1 .. Len(keys)
      PROVE  x[i] = IF End[keys[i]] # "None" THEN End[keys[i]]
                    ELSE IF \E k \in Range(kids[i]) : x[k] = "Loss" THEN "Win"
                    ELSE IF \A k \in Range(kids[i]) : x[k] = "Win" THEN "Loss" ELSE "Draw"
    <2>1. Range(kids[i]) \subseteq 1 .. Len(keys) /\ End[keys[i]] \in {"Win", "Loss", "Draw", "None"}
          /\ (Range(kids[i]) = {} <=> End[keys[i]] # "None")
        BY RowIs
    <2>2. IF End[keys[i]] # "None" THEN w[i] = End[keys[i]]
          ELSE /\ w[i] # "Draw"
               /\ w[i] = "Win" => \E k \in Range(kids[i]) : w[k] = "Loss"
               /\ w[i] = "Loss" => \A k \in Range(kids[i]) : w[k] = "Win"
        BY DEF Borne
    <2>3. w[i] = IF w[i] # "open" THEN w[i]
                 ELSE IF \E k \in Range(kids[i]) : w[k] = "Loss" THEN "Win"
                 ELSE IF \A k \in Range(kids[i]) : w[k] = "Win" THEN "Loss" ELSE "open"
        BY DEF ValueFrom
    <2>4. \A k \in Range(kids[i]) : (w[k] = "Loss" <=> x[k] = "Loss") /\ (w[k] = "Win" <=> x[k] = "Win")
        BY <1>2, <2>1
    <2>5. CASE End[keys[i]] # "None"
        BY <1>2, <2>1, <2>2, <2>5
    <2>6. CASE End[keys[i]] = "None" /\ w[i] = "Win"
        <3>1. \E k \in Range(kids[i]) : x[k] = "Loss"
            BY <2>2, <2>4, <2>6
        <3>2. QED
            BY <1>2, <2>6, <3>1
    <2>7. CASE End[keys[i]] = "None" /\ w[i] = "Loss"
        <3>1. \A k \in Range(kids[i]) : x[k] = "Win"
            BY <2>2, <2>4, <2>7
        <3>2. x[i] = "Loss"
            BY <1>2, <2>7
        <3>3. QED
            BY <2>7, <3>1, <3>2
    <2>8. CASE End[keys[i]] = "None" /\ w[i] = "open"
        <3>1. ~(\E k \in Range(kids[i]) : w[k] = "Loss") /\ ~(\A k \in Range(kids[i]) : w[k] = "Win")
            BY <2>3, <2>8
        <3>2. ~(\E k \in Range(kids[i]) : x[k] = "Loss") /\ ~(\A k \in Range(kids[i]) : x[k] = "Win")
            BY <2>4, <3>1
        <3>3. x[i] = "Draw"
            BY <1>2, <2>8
        <3>4. QED
            BY <2>8, <3>2, <3>3
    <2>9. QED
        BY <1>4, <2>2, <2>5, <2>6, <2>7, <2>8
<1>7. Fixed(x)
    BY <1>3, <1>5, <1>6 DEF Fixed
<1>8. QED
    BY <1>7 DEF x

(* What the values of a node say of its children.                          *)
LEMMA FixedIs ==
    ASSUME Complete, Fixed(val), NEW i \in 1 .. Len(keys)
    PROVE  /\ val[i] \in {"Win", "Loss", "Draw"}
           /\ End[keys[i]] # "None" => val[i] = End[keys[i]]
           /\ End[keys[i]] = "None" =>
                 /\ val[i] = "Win" <=> \E k \in Range(kids[i]) : val[k] = "Loss"
                 /\ val[i] = "Loss" <=> \A k \in Range(kids[i]) : val[k] = "Win"
<1>1. val[i] = IF End[keys[i]] # "None" THEN End[keys[i]]
               ELSE IF \E k \in Range(kids[i]) : val[k] = "Loss" THEN "Win"
               ELSE IF \A k \in Range(kids[i]) : val[k] = "Win" THEN "Loss" ELSE "Draw"
    BY DEF Fixed
<1>2. val[i] \in {"Win", "Loss", "Draw"}
    BY DEF Fixed
<1>3. Range(kids[i]) = {} <=> End[keys[i]] # "None"
    BY RowIs
<1>4. CASE End[keys[i]] # "None"
    BY <1>1, <1>2, <1>4
<1>5. CASE End[keys[i]] = "None"
    <2>1. PICK k \in Range(kids[i]) : TRUE
        BY <1>3, <1>5
    <2>2. ~((\E m \in Range(kids[i]) : val[m] = "Loss") /\ (\A m \in Range(kids[i]) : val[m] = "Win"))
        OBVIOUS
    <2>3. QED
        BY <1>1, <1>2, <1>5, <2>2
<1>6. QED
    BY <1>4, <1>5

(* The children a distance is taken over.                                  *)
LEMMA DistFromIs ==
    ASSUME Complete, Fixed(val), NEW d \in [1 .. Len(keys) -> Nat], NEW i \in 1 .. Len(keys)
    PROVE  /\ DistFrom(d, i) \in Nat
           /\ End[keys[i]] # "None" => DistFrom(d, i) = 0
           /\ End[keys[i]] = "None" /\ val[i] = "Win" =>
                 /\ \E k \in Range(kids[i]) : val[k] = "Loss" /\ DistFrom(d, i) = 1 + d[k]
                 /\ \A k \in Range(kids[i]) : val[k] = "Loss" => DistFrom(d, i) <= 1 + d[k]
           /\ End[keys[i]] = "None" /\ val[i] = "Loss" =>
                 /\ \E k \in Range(kids[i]) : DistFrom(d, i) = 1 + d[k]
                 /\ \A k \in Range(kids[i]) : DistFrom(d, i) >= 1 + d[k]
<1> DEFINE R == Range(kids[i])
           L == {x \in R : val[x] = "Loss"}
           won == {d[k] : k \in L}
           lost == {d[k] : k \in R}
<1>1. /\ R \subseteq 1 .. Len(keys) /\ IsFiniteSet(R)
      /\ kids[i] = <<>> <=> End[keys[i]] # "None"
      /\ R = {} <=> End[keys[i]] # "None"
    BY RowIs
<1>2. DistFrom(d, i) = IF kids[i] = <<>> THEN 0
                       ELSE IF val[i] = "Win" THEN 1 + Least(won)
                       ELSE IF val[i] = "Loss" THEN 1 + Greatest(lost) ELSE 0
    BY DEF DistFrom
<1>3. \A k \in R : d[k] \in Nat
    BY <1>1
<1>4. won \subseteq Nat /\ lost \subseteq Nat
    BY <1>3
<1>5. IsFiniteSet(lost)
    <2> DEFINE f == [k \in R |-> d[k]]
    <2>1. f \in Surjection(R, lost)
        BY DEF Surjection
    <2> HIDE DEF f, R, lost
    <2>2. QED
        BY <1>1, <2>1, FS_Surjection
<1>6. L # {} => won # {}
    OBVIOUS
<1>7. R # {} => lost # {}
    OBVIOUS
<1>8. /\ \A x : x \in won <=> \E k \in R : val[k] = "Loss" /\ x = d[k]
      /\ \A x : x \in lost <=> \E k \in R : x = d[k]
    OBVIOUS
<1>9. End[keys[i]] = "None" /\ val[i] = "Win" => L # {}
    BY FixedIs
<1> HIDE DEF won, lost, R, L
<1>10. CASE End[keys[i]] # "None"
    BY <1>1, <1>2, <1>10
<1>11. CASE End[keys[i]] = "None" /\ val[i] = "Win"
    <2>1. won # {} /\ DistFrom(d, i) = 1 + Least(won)
        BY <1>1, <1>2, <1>6, <1>9, <1>11
    <2>2. Least(won) \in won /\ \A m \in won : Least(won) <= m
        BY <1>4, <2>1, LeastIs
    <2>3. Least(won) \in Nat
        BY <1>4, <2>2
    <2>4. PICK k \in R : val[k] = "Loss" /\ Least(won) = d[k]
        BY <1>8, <2>2
    <2>5. \A m \in R : val[m] = "Loss" => Least(won) <= d[m]
        BY <1>8, <2>2
    <2>6. \A m \in R : val[m] = "Loss" => DistFrom(d, i) <= 1 + d[m]
        BY <1>3, <2>1, <2>3, <2>5
    <2>7. \E m \in R : val[m] = "Loss" /\ DistFrom(d, i) = 1 + d[m]
        BY <2>1, <2>4
    <2>8. DistFrom(d, i) \in Nat
        BY <2>1, <2>3
    <2>9. QED
        BY <1>11, <2>6, <2>7, <2>8 DEF R
<1>12. CASE End[keys[i]] = "None" /\ val[i] = "Loss"
    <2>1. lost # {} /\ DistFrom(d, i) = 1 + Greatest(lost)
        BY <1>1, <1>2, <1>7, <1>12
    <2>2. Greatest(lost) \in lost /\ \A m \in lost : Greatest(lost) >= m
        BY <1>4, <1>5, <2>1, GreatestIs
    <2>3. Greatest(lost) \in Nat
        BY <1>4, <2>2
    <2>4. PICK k \in R : Greatest(lost) = d[k]
        BY <1>8, <2>2
    <2>5. \A m \in R : Greatest(lost) >= d[m]
        BY <1>8, <2>2
    <2>6. \A m \in R : DistFrom(d, i) >= 1 + d[m]
        BY <1>3, <2>1, <2>3, <2>5
    <2>7. \E m \in R : DistFrom(d, i) = 1 + d[m]
        BY <2>1, <2>4
    <2>8. DistFrom(d, i) \in Nat
        BY <2>1, <2>3
    <2>9. QED
        BY <1>12, <2>6, <2>7, <2>8 DEF R
<1>13. CASE End[keys[i]] = "None" /\ val[i] # "Win" /\ val[i] # "Loss"
    BY <1>2, <1>13
<1>14. QED
    BY <1>10, <1>11, <1>12, <1>13

LEMMA SweepMeasured ==
    ASSUME Complete, Fixed(val), NEW d \in [1 .. Len(keys) -> Nat]
    PROVE  /\ Sweep(d, DistFrom) \in [1 .. Len(keys) -> Nat]
           /\ Sweep(d, DistFrom) = d => \A i \in 1 .. Len(keys) : DistFrom(d, i) = d[i]
<1> DEFINE N == Len(keys)
           V == [1 .. N -> Nat]
           after == Sweep(d, DistFrom)
<1>1. N \in Nat
    BY DEF Complete, RegionShape, Distinct
<1>2. \A i \in 1 .. N, x \in V : DistFrom(x, i) \in Nat
    BY DistFromIs
<1>3. PICK f \in [0 .. N -> V] :
          /\ f[0] = d
          /\ \A n \in 1 .. N : f[n] = [f[n - 1] EXCEPT ![n] = DistFrom(f[n - 1], n)]
          /\ after = f[N]
    BY <1>1, <1>2, SweepDistancesIs
<1> HIDE DEF after
<1>4. after \in V
    BY <1>1, <1>3
<1>5. ASSUME after = d, NEW i \in 1 .. N PROVE DistFrom(d, i) = d[i]
    <2>1. \A n \in 0 .. N : f[n] \in V
        BY <1>3
    <2>2. \A n \in 1 .. N : n - 1 \in 0 .. N /\ n \in 0 .. N
        BY <1>1
    <2>3. \A n \in 1 .. N : \A m \in 1 .. N : m # n => f[n][m] = f[n - 1][m]
        <3> SUFFICES ASSUME NEW n \in 1 .. N, NEW m \in 1 .. N, m # n PROVE f[n][m] = f[n - 1][m]
            OBVIOUS
        <3> DEFINE x == f[n - 1]
        <3>1. x \in V /\ f[n] = [x EXCEPT ![n] = DistFrom(x, n)]
            BY <1>3, <2>1, <2>2
        <3> HIDE DEF x
        <3>2. f[n][m] = x[m]
            BY <3>1
        <3>3. QED
            BY <3>2 DEF x
    <2>4. \A n \in 1 .. N : f[n][n] = DistFrom(f[n - 1], n)
        <3> SUFFICES ASSUME NEW n \in 1 .. N PROVE f[n][n] = DistFrom(f[n - 1], n)
            OBVIOUS
        <3> DEFINE x == f[n - 1]
                   y == DistFrom(x, n)
        <3>1. x \in V /\ f[n] = [x EXCEPT ![n] = y]
            BY <1>3, <2>1, <2>2
        <3> HIDE DEF x, y
        <3>2. f[n][n] = y
            BY <3>1
        <3>3. QED
            BY <3>2 DEF x, y
    <2>5. \A n \in 0 .. N : f[n] = d
        <3>1. f[N] = f[0]
            BY <1>3, <1>5
        <3>2. \A n \in 0 .. N : f[n] \in [1 .. N -> Nat]
            BY <2>1
        <3>3. \A n \in 0 .. N : f[n] = f[0]
            BY <1>1, <2>3, <3>1, <3>2, AllSame
        <3>4. QED
            BY <1>3, <3>3
    <2>6. i - 1 \in 0 .. N /\ i \in 0 .. N
        BY <2>2
    <2>7. f[i - 1] = d /\ f[i] = d
        BY <2>5, <2>6
    <2>8. QED
        BY <2>4, <2>7
<1>6. QED
    BY <1>4, <1>5 DEF after

(* The distances of a fixpoint.                                            *)
LEMMA MeasuredIs ==
    ASSUME Complete, Fixed(val), dist \in [1 .. Len(keys) -> Nat], Measured, NEW i \in 1 .. Len(keys)
    PROVE  /\ dist[i] \in Nat
           /\ End[keys[i]] # "None" => dist[i] = 0
           /\ End[keys[i]] = "None" /\ val[i] = "Win" =>
                 /\ \E k \in Range(kids[i]) : val[k] = "Loss" /\ dist[i] = 1 + dist[k]
                 /\ \A k \in Range(kids[i]) : val[k] = "Loss" => dist[i] <= 1 + dist[k]
           /\ End[keys[i]] = "None" /\ val[i] = "Loss" =>
                 /\ \E k \in Range(kids[i]) : dist[i] = 1 + dist[k]
                 /\ \A k \in Range(kids[i]) : dist[i] >= 1 + dist[k]
<1>1. dist[i] = DistFrom(dist, i)
    BY DEF Measured
<1>2. QED
    BY <1>1, DistFromIs

-----------------------------------------------------------------------------
(* Boards and positions                                                    *)

Judged == Complete /\ Fixed(val) /\ dist \in [1 .. Len(keys) -> Nat] /\ Measured

LEMMA Children ==
    ASSUME Complete, NEW p \in Pos, NEW i \in 1 .. Len(keys), BoardAt[p] = keys[i], End[keys[i]] = "None"
    PROVE  /\ \A c \in Succ[p] : \E k \in Range(kids[i]) : BoardAt[c] = keys[k]
           /\ \A k \in Range(kids[i]) : \E c \in Succ[p] : BoardAt[c] = keys[k]
<1>1. {BoardAt[c] : c \in Succ[p]} = Range(Next[BoardAt[p]])
    BY BoardsAssumption
<1>2. Range(Branches(keys[i])) = {BoardAt[c] : c \in Succ[p]}
    BY <1>1 DEF Branches
<1>3. /\ \A k \in Range(kids[i]) : keys[k] \in Range(Branches(keys[i]))
      /\ \A b \in Range(Branches(keys[i])) : \E k \in Range(kids[i]) : keys[k] = b
    BY RowIs
<1>4. \A c \in Succ[p] : \E k \in Range(kids[i]) : BoardAt[c] = keys[k]
    <2> SUFFICES ASSUME NEW c \in Succ[p] PROVE \E k \in Range(kids[i]) : BoardAt[c] = keys[k]
        OBVIOUS
    <2>1. BoardAt[c] \in Range(Branches(keys[i]))
        BY <1>2
    <2>2. QED
        BY <1>3, <2>1
<1>5. \A k \in Range(kids[i]) : \E c \in Succ[p] : BoardAt[c] = keys[k]
    BY <1>2, <1>3
<1>6. QED
    BY <1>4, <1>5

(* What the rules and the boards say of a position.                        *)
LEMMA StaticIs ==
    ASSUME NEW p \in Pos
    PROVE  /\ Distance[p] \in Nat /\ ClockAt[p] \in Nat
           /\ Truth[p] \in {"Win", "Loss", "Draw"}
           /\ Static[p] # NoOutcome => Truth[p] = Static[p] /\ Distance[p] = 0
           /\ End[BoardAt[p]] # "None" => Static[p] = End[BoardAt[p]] /\ Static[p] # NoOutcome
           /\ End[BoardAt[p]] = "None" =>
                 Static[p] \in {NoOutcome, "Draw"} /\ (ClockAt[p] < ClockLimit => Static[p] = NoOutcome)
           /\ \A c \in Succ[p] : c \in Pos /\ Distance[c] \in Nat /\ ClockAt[c] \in Nat /\ ClockAt[c] <= ClockAt[p] + 1
<1>1. \A c \in Succ[p] : c \in Pos
    BY SuccPos
<1>2. \A q \in Pos : Distance[q] \in Nat
    BY RulesAssumption
<1>3. \A q \in Pos : ClockAt[q] \in Nat
    BY BoardsAssumption
<1>4. \A c \in Succ[p] : ClockAt[c] <= ClockAt[p] + 1
    BY BoardsAssumption
<1>5. /\ End[BoardAt[p]] # "None" => Static[p] = End[BoardAt[p]]
      /\ End[BoardAt[p]] = "None" =>
            Static[p] \in {NoOutcome, "Draw"} /\ (ClockAt[p] < ClockLimit => Static[p] = NoOutcome)
    BY BoardsAssumption
<1>6. /\ Static[p] # NoOutcome => Truth[p] = Static[p] /\ Distance[p] = 0
      /\ Static[p] = NoOutcome =>
            Truth[p] = IF \E c \in Succ[p] : Truth[c] = "Loss" THEN "Win"
                       ELSE IF \A c \in Succ[p] : Truth[c] = "Win" THEN "Loss" ELSE "Draw"
    BY RulesAssumption
<1>7. Static[p] \in Outcomes \cup {NoOutcome}
    BY MovesAssumption
<1>8. Truth[p] \in {"Win", "Loss", "Draw"}
    BY <1>6, <1>7 DEF Outcomes
<1>9. QED
    BY <1>1, <1>2, <1>3, <1>4, <1>5, <1>6, <1>8 DEF NoOutcome

(* A position decided under the clock is decided without it, no later.     *)
LEMMA FoundEarly ==
    ASSUME Judged, NEW p \in Pos, NEW i \in 1 .. Len(keys), BoardAt[p] = keys[i], Truth[p] \in Decisive
    PROVE  val[i] = Truth[p] /\ dist[i] <= Distance[p]
<1> USE DEF Judged
<1> DEFINE Early(n) == \A q \in Pos, j \in 1 .. Len(keys) :
                          BoardAt[q] = keys[j] /\ Truth[q] \in Decisive /\ Distance[q] <= n
                             => val[j] = Truth[q] /\ dist[j] <= Distance[q]
           S == {n \in Nat : Early(n)}
<1>1. ASSUME NEW n \in Nat, n = 0 \/ Early(n - 1)
      PROVE  Early(n)
    <2> SUFFICES ASSUME NEW q \in Pos, NEW j \in 1 .. Len(keys),
                        BoardAt[q] = keys[j], Truth[q] \in Decisive, Distance[q] <= n
                 PROVE  val[j] = Truth[q] /\ dist[j] <= Distance[q]
        OBVIOUS
    <2>0. Distance[q] \in Nat /\ \A k \in 1 .. Len(keys) : dist[k] \in Nat
        BY StaticIs
    <2>1. CASE Static[q] # NoOutcome
        <3>1. Truth[q] = Static[q]
            BY <2>1, StaticIs
        <3>2. End[keys[j]] # "None"
            BY <3>1, StaticIs DEF Decisive, NoOutcome
        <3>3. Static[q] = End[keys[j]]
            BY <3>2, StaticIs
        <3>4. val[j] = End[keys[j]] /\ dist[j] = 0
            BY <3>2, FixedIs, MeasuredIs
        <3>5. QED
            BY <2>0, <3>1, <3>3, <3>4
    <2>2. CASE Static[q] = NoOutcome /\ Truth[q] = "Win"
        <3>1. End[keys[j]] = "None"
            BY <2>2, StaticIs
        <3>2. PICK c \in Succ[q] : Truth[c] = "Loss" /\ Distance[q] = Distance[c] + 1
            BY <2>2, RulesAssumption
        <3>3. c \in Pos /\ Distance[c] \in Nat
            BY StaticIs
        <3>4. PICK k \in Range(kids[j]) : BoardAt[c] = keys[k]
            BY <3>1, Children
        <3>5. k \in 1 .. Len(keys)
            BY RowIs
        <3>6. n # 0 /\ Distance[c] <= n - 1
            BY <2>0, <3>2, <3>3
        <3>7. val[k] = "Loss" /\ dist[k] <= Distance[c]
            BY <1>1, <3>2, <3>3, <3>4, <3>5, <3>6 DEF Decisive
        <3>8. val[j] = "Win"
            BY <3>1, <3>7, FixedIs
        <3>9. dist[j] <= 1 + dist[k]
            BY <3>1, <3>7, <3>8, MeasuredIs
        <3>10. dist[j] <= Distance[q]
            BY <2>0, <3>2, <3>3, <3>5, <3>7, <3>9
        <3>11. QED
            BY <2>2, <3>8, <3>10
    <2>3. CASE Static[q] = NoOutcome /\ Truth[q] = "Loss"
        <3>1. End[keys[j]] = "None"
            BY <2>3, StaticIs
        <3>2. \A c \in Succ[q] : Truth[c] = "Win"
            <4>1. Truth[q] = IF \E c \in Succ[q] : Truth[c] = "Loss" THEN "Win"
                             ELSE IF \A c \in Succ[q] : Truth[c] = "Win" THEN "Loss" ELSE "Draw"
                BY <2>3, RulesAssumption
            <4>2. QED
                BY <2>3, <4>1
        <3>3. \A c \in Succ[q] : Distance[q] >= Distance[c] + 1
            BY <2>3, RulesAssumption
        <3>4. ASSUME NEW k \in Range(kids[j])
              PROVE  val[k] = "Win" /\ dist[k] + 1 <= Distance[q]
            <4>1. PICK c \in Succ[q] : BoardAt[c] = keys[k]
                BY <3>1, Children
            <4>2. c \in Pos /\ Distance[c] \in Nat /\ k \in 1 .. Len(keys)
                BY StaticIs, RowIs
            <4>3. Truth[c] = "Win" /\ Distance[q] >= Distance[c] + 1
                BY <3>2, <3>3
            <4>4. n # 0 /\ Distance[c] <= n - 1
                BY <2>0, <4>2, <4>3
            <4>5. val[k] = "Win" /\ dist[k] <= Distance[c]
                BY <1>1, <4>1, <4>2, <4>3, <4>4 DEF Decisive
            <4>6. QED
                BY <2>0, <4>2, <4>3, <4>5
        <3>5. val[j] = "Loss"
            BY <3>1, <3>4, FixedIs
        <3>6. PICK k \in Range(kids[j]) : dist[j] = 1 + dist[k]
            BY <3>1, <3>5, MeasuredIs
        <3>7. k \in 1 .. Len(keys)
            BY RowIs
        <3>8. dist[j] <= Distance[q]
            BY <2>0, <3>4, <3>6, <3>7
        <3>9. QED
            BY <2>3, <3>5, <3>8
    <2>4. QED
        BY <2>1, <2>2, <2>3 DEF Decisive
<1>2. \A N \in Nat : N \in S
    <2> SUFFICES ASSUME NEW N \in Nat PROVE N \in S
        OBVIOUS
    <2>1. 0 \in S
        BY <1>1
    <2>2. ASSUME NEW n \in 1 .. N, n - 1 \in S PROVE n \in S
        <3>1. n \in Nat /\ Early(n - 1)
            BY <2>2
        <3> HIDE DEF Early
        <3>2. Early(n)
            BY <1>1, <3>1
        <3>3. QED
            BY <3>1, <3>2
    <2> HIDE DEF S
    <2>3. \A n \in 0 .. N : n \in S
        BY <2>1, <2>2, Passed
    <2>4. QED
        BY <2>3
<1>3. Distance[p] \in Nat
    BY StaticIs
<1>4. Early(Distance[p])
    BY <1>2, <1>3
<1>5. QED
    BY <1>3, <1>4

(* A value found without the clock holds under it while there is time, and *)
(* the end comes no later.                                                 *)
LEMMA HoldsInTime ==
    ASSUME Judged, NEW p \in Pos, NEW i \in 1 .. Len(keys), BoardAt[p] = keys[i], val[i] \in Decisive,
           ClockAt[p] + dist[i] <= ClockLimit - 1
    PROVE  Truth[p] = val[i] /\ Distance[p] <= dist[i]
<1> USE DEF Judged
<1> DEFINE Holds(n) == \A q \in Pos, j \in 1 .. Len(keys) :
                          BoardAt[q] = keys[j] /\ val[j] \in Decisive /\ dist[j] <= n
                             /\ ClockAt[q] + dist[j] <= ClockLimit - 1
                             => Truth[q] = val[j] /\ Distance[q] <= dist[j]
           S == {n \in Nat : Holds(n)}
<1>0. ClockLimit \in Nat
    BY RegionAssumption
<1>1. ASSUME NEW n \in Nat, n = 0 \/ Holds(n - 1)
      PROVE  Holds(n)
    <2> SUFFICES ASSUME NEW q \in Pos, NEW j \in 1 .. Len(keys),
                        BoardAt[q] = keys[j], val[j] \in Decisive, dist[j] <= n,
                        ClockAt[q] + dist[j] <= ClockLimit - 1
                 PROVE  Truth[q] = val[j] /\ Distance[q] <= dist[j]
        OBVIOUS
    <2>0. ClockAt[q] \in Nat /\ Distance[q] \in Nat /\ \A k \in 1 .. Len(keys) : dist[k] \in Nat
        BY StaticIs
    <2>1. CASE End[keys[j]] # "None"
        <3>1. Static[q] = End[keys[j]] /\ Static[q] # NoOutcome
            BY <2>1, StaticIs
        <3>2. Truth[q] = Static[q] /\ Distance[q] = 0
            BY <3>1, StaticIs
        <3>3. val[j] = End[keys[j]]
            BY <2>1, FixedIs
        <3>4. QED
            BY <2>0, <3>1, <3>2, <3>3
    <2>2. ASSUME End[keys[j]] = "None" PROVE Static[q] = NoOutcome
        <3>1. ClockAt[q] < ClockLimit
            BY <1>0, <2>0
        <3>2. QED
            BY <2>2, <3>1, StaticIs
    <2>3. CASE End[keys[j]] = "None" /\ val[j] = "Win"
        <3>1. PICK k \in Range(kids[j]) : val[k] = "Loss" /\ dist[j] = 1 + dist[k]
            BY <2>3, MeasuredIs
        <3>2. PICK c \in Succ[q] : BoardAt[c] = keys[k]
            BY <2>3, Children
        <3>3. c \in Pos /\ ClockAt[c] \in Nat /\ ClockAt[c] <= ClockAt[q] + 1 /\ Distance[c] \in Nat
              /\ k \in 1 .. Len(keys) /\ dist[k] \in Nat
            BY <2>0, StaticIs, RowIs
        <3>4. n # 0 /\ dist[k] <= n - 1 /\ ClockAt[c] + dist[k] <= ClockLimit - 1
            <4> DEFINE a == ClockAt[q]   b == ClockAt[c]   d == dist[k]   e == dist[j]   L == ClockLimit
            <4>1. a \in Nat /\ b \in Nat /\ d \in Nat /\ e \in Nat /\ L \in Nat
                BY <1>0, <2>0, <3>3
            <4>2. e = 1 + d /\ b <= a + 1 /\ e <= n /\ a + e <= L - 1
                BY <3>1, <3>3
            <4> HIDE DEF a, b, d, e, L
            <4>3. n # 0 /\ d <= n - 1 /\ b + d <= L - 1
                BY <4>1, <4>2
            <4>4. QED
                BY <4>3 DEF b, d, L
        <3>5. Truth[c] = "Loss" /\ Distance[c] <= dist[k]
            BY <1>1, <3>1, <3>2, <3>3, <3>4 DEF Decisive
        <3>6. Static[q] = NoOutcome
            BY <2>2, <2>3
        <3>7. Truth[q] = "Win"
            <4>1. Truth[q] = IF \E x \in Succ[q] : Truth[x] = "Loss" THEN "Win"
                             ELSE IF \A x \in Succ[q] : Truth[x] = "Win" THEN "Loss" ELSE "Draw"
                BY <3>6, RulesAssumption
            <4>2. QED
                BY <3>5, <4>1
        <3>8. Distance[q] <= Distance[c] + 1
            BY <3>5, <3>6, <3>7, RulesAssumption
        <3>9. Distance[q] <= dist[j]
            BY <2>0, <3>1, <3>3, <3>5, <3>8
        <3>10. QED
            BY <2>3, <3>7, <3>9
    <2>4. CASE End[keys[j]] = "None" /\ val[j] = "Loss"
        <3>1. ASSUME NEW c \in Succ[q]
              PROVE  Truth[c] = "Win" /\ Distance[c] + 1 <= dist[j]
            <4>1. PICK k \in Range(kids[j]) : BoardAt[c] = keys[k]
                BY <2>4, Children
            <4>2. val[k] = "Win" /\ dist[j] >= 1 + dist[k]
                BY <2>4, FixedIs, MeasuredIs
            <4>3. c \in Pos /\ ClockAt[c] \in Nat /\ ClockAt[c] <= ClockAt[q] + 1 /\ Distance[c] \in Nat
                  /\ k \in 1 .. Len(keys) /\ dist[k] \in Nat
                BY <2>0, StaticIs, RowIs
            <4>4. n # 0 /\ dist[k] <= n - 1 /\ ClockAt[c] + dist[k] <= ClockLimit - 1
                <5> DEFINE a == ClockAt[q]   b == ClockAt[c]   d == dist[k]   e == dist[j]   L == ClockLimit
                <5>1. a \in Nat /\ b \in Nat /\ d \in Nat /\ e \in Nat /\ L \in Nat
                    BY <1>0, <2>0, <4>3
                <5>2. e >= 1 + d /\ b <= a + 1 /\ e <= n /\ a + e <= L - 1
                    BY <4>2, <4>3
                <5> HIDE DEF a, b, d, e, L
                <5>3. n # 0 /\ d <= n - 1 /\ b + d <= L - 1
                    BY <5>1, <5>2
                <5>4. QED
                    BY <5>3 DEF b, d, L
            <4>5. Truth[c] = "Win" /\ Distance[c] <= dist[k]
                BY <1>1, <4>1, <4>2, <4>3, <4>4 DEF Decisive
            <4>6. QED
                BY <2>0, <4>2, <4>3, <4>5
        <3>2. Static[q] = NoOutcome
            BY <2>2, <2>4
        <3>3. Truth[q] = "Loss"
            <4>1. Truth[q] = IF \E x \in Succ[q] : Truth[x] = "Loss" THEN "Win"
                             ELSE IF \A x \in Succ[q] : Truth[x] = "Win" THEN "Loss" ELSE "Draw"
                BY <3>2, RulesAssumption
            <4>2. QED
                BY <3>1, <4>1
        <3>4. PICK c \in Succ[q] : Distance[q] = Distance[c] + 1
            BY <3>2, <3>3, RulesAssumption
        <3>5. QED
            BY <2>4, <3>1, <3>3, <3>4
    <2>5. QED
        BY <2>1, <2>3, <2>4 DEF Decisive
<1>2. \A N \in Nat : N \in S
    <2> SUFFICES ASSUME NEW N \in Nat PROVE N \in S
        OBVIOUS
    <2>1. 0 \in S
        BY <1>1
    <2>2. ASSUME NEW n \in 1 .. N, n - 1 \in S PROVE n \in S
        <3>1. n \in Nat /\ Holds(n - 1)
            BY <2>2
        <3> HIDE DEF Holds
        <3>2. Holds(n)
            BY <1>1, <3>1
        <3>3. QED
            BY <3>1, <3>2
    <2> HIDE DEF S
    <2>3. \A n \in 0 .. N : n \in S
        BY <2>1, <2>2, Passed
    <2>4. QED
        BY <2>3
<1>3. dist[i] \in Nat
    OBVIOUS
<1>4. Holds(dist[i])
    BY <1>2, <1>3
<1>5. QED
    BY <1>3, <1>4

(* So the region is exact: a draw of it is a draw, and a decision claimed  *)
(* in time is the truth, at its distance.                                  *)
LEMMA RegionExact ==
    ASSUME Judged, NEW p \in Pos, NEW i \in 1 .. Len(keys), BoardAt[p] = keys[i]
    PROVE  /\ val[i] = "Draw" => Truth[p] = "Draw"
           /\ val[i] \in Decisive /\ ClockAt[p] + dist[i] <= ClockLimit - 1
                 => Truth[p] = val[i] /\ Distance[p] = dist[i]
<1>1. Truth[p] \in {"Win", "Loss", "Draw"} /\ Distance[p] \in Nat /\ dist[i] \in Nat
    BY StaticIs DEF Judged
<1>2. val[i] = "Draw" => Truth[p] \notin Decisive
    BY FoundEarly DEF Decisive
<1>3. ASSUME val[i] \in Decisive, ClockAt[p] + dist[i] <= ClockLimit - 1
      PROVE  Truth[p] = val[i] /\ Distance[p] = dist[i]
    <2>1. Truth[p] = val[i] /\ Distance[p] <= dist[i]
        BY <1>3, HoldsInTime
    <2>2. dist[i] <= Distance[p]
        BY <1>3, <2>1, FoundEarly
    <2>3. QED
        BY <1>1, <2>1, <2>2
<1>4. QED
    BY <1>1, <1>2, <1>3 DEF Decisive

-----------------------------------------------------------------------------
(* The replay of a strategy                                                *)

Walks == [ok : BOOLEAN, evals : Nat, aborted : BOOLEAN]
Went(line, b, n) == [line |-> Append(line, b), evals |-> n]

LEMMA WentIs ==
    ASSUME NEW at \in Places, NEW b \in Boards, NEW n \in Nat
    PROVE  /\ Went(at.line, b, n) \in Places
           /\ Len(at.line) \in Nat \ {0} /\ Len(Went(at.line, b, n).line) = Len(at.line) + 1
           /\ Last(Went(at.line, b, n).line) = b /\ Went(at.line, b, n).evals = n
           /\ Range(Went(at.line, b, n).line) = Range(at.line) \cup {b}
<1> DEFINE line == at.line
           more == Append(line, b)
<1>1. line \in Seq(Boards) /\ line # <<>>
    BY DEF Places
<1> HIDE DEF line
<1>2. Len(line) \in Nat \ {0} /\ more \in Seq(Boards) /\ more # <<>> /\ Len(more) = Len(line) + 1
      /\ more[Len(line) + 1] = b /\ (\A i \in 1 .. Len(line) : more[i] = line[i])
      /\ DOMAIN more = 1 .. (Len(line) + 1) /\ DOMAIN line = 1 .. Len(line)
    BY <1>1
<1> HIDE DEF more
<1>3. Range(more) = Range(line) \cup {b}
    <2>1. \A x \in Range(more) : x \in Range(line) \cup {b}
        <3> SUFFICES ASSUME NEW i \in DOMAIN more PROVE more[i] \in Range(line) \cup {b}
            BY DEF Range
        <3>1. i = Len(line) + 1 \/ i \in 1 .. Len(line)
            BY <1>2
        <3>2. QED
            BY <1>2, <3>1 DEF Range
    <2>2. \A i \in DOMAIN line : line[i] \in Range(more)
        <3> SUFFICES ASSUME NEW i \in DOMAIN line PROVE line[i] \in Range(more)
            OBVIOUS
        <3>1. i \in DOMAIN more /\ more[i] = line[i]
            BY <1>2
        <3>2. QED
            BY <3>1 DEF Range
    <2>3. b \in Range(more)
        <3>1. Len(line) + 1 \in DOMAIN more
            BY <1>2
        <3>2. QED
            BY <1>2, <3>1 DEF Range
    <2>4. QED
        BY <2>1, <2>2, <2>3 DEF Range
<1>4. Went(at.line, b, n) = [line |-> more, evals |-> n]
    BY DEF Went, more, line
<1>5. QED
    BY <1>2, <1>3, <1>4 DEF Places, Last, line

LEMMA OntoIs ==
    ASSUME NEW at \in Places, NEW b, NEW m, NEW n
    PROVE  /\ Onto([at EXCEPT !.evals = m], b, n) = Went(at.line, b, m + n)
           /\ Onto(at, b, n) = Went(at.line, b, at.evals + n)
    BY DEF Onto, Went, Places

(* One more of the replies.                                                *)
Cover(walk, at, moves, n, w) ==
    IF ~w.ok THEN w
    ELSE IF w.evals + 1 >= quota THEN Walk(FALSE, w.evals + 1, TRUE)
    ELSE IF moves[n] \in Range(at.line) THEN Walk(FALSE, w.evals + 1, FALSE)
    ELSE walk[Went(at.line, moves[n], w.evals + 1)]

Covers(walk, at, moves, f) ==
    /\ f \in [0 .. Len(moves) -> Walks] /\ f[0] = Walk(TRUE, at.evals, FALSE)
    /\ \A n \in 1 .. Len(moves) : f[n] = Cover(walk, at, moves, n, f[n - 1])

(* The walks from the lines one longer are known.                          *)
Given(walk, at) == \A x \in Places : Len(x.line) = Len(at.line) + 1 => walk[x] \in Walks

LEMMA CoverTyped ==
    ASSUME NEW at \in Places, NEW walk, Given(walk, at), NEW moves \in Seq(Boards), quota \in Nat,
           NEW n \in 1 .. Len(moves), NEW w \in Walks
    PROVE  Cover(walk, at, moves, n, w) \in Walks
<1>1. w.ok \in BOOLEAN /\ w.evals \in Nat /\ w.evals + 1 \in Nat
    BY DEF Walks
<1>2. moves[n] \in Boards
    OBVIOUS
<1>3. Went(at.line, moves[n], w.evals + 1) \in Places /\ Len(Went(at.line, moves[n], w.evals + 1).line) = Len(at.line) + 1
    BY <1>1, <1>2, WentIs
<1>4. walk[Went(at.line, moves[n], w.evals + 1)] \in Walks
    BY <1>3 DEF Given
<1>5. Walk(FALSE, w.evals + 1, TRUE) \in Walks /\ Walk(FALSE, w.evals + 1, FALSE) \in Walks
    BY <1>1 DEF Walk, Walks
<1>6. QED
    BY <1>4, <1>5 DEF Cover

LEMMA CoveredIs ==
    ASSUME NEW at \in Places, NEW walk, Given(walk, at), NEW moves \in Seq(Boards), quota \in Nat
    PROVE  \E f : Covers(walk, at, moves, f) /\ Covered(walk, at, moves) = f[Len(moves)]
<1> DEFINE N == Len(moves)
           a == Walk(TRUE, at.evals, FALSE)
           B(w, i) == Cover(walk, at, moves, i, w)
           E(f, i) == IF i = 0 THEN a
                      ELSE With(f[i - 1], LAMBDA w :
                        IF ~w.ok THEN w
                        ELSE IF w.evals + 1 >= quota THEN Walk(FALSE, w.evals + 1, TRUE)
                        ELSE IF moves[i] \in Range(at.line) THEN Walk(FALSE, w.evals + 1, FALSE)
                        ELSE walk[Onto([at EXCEPT !.evals = w.evals], moves[i], 1)])
           after == CHOOSE f : f = [i \in 0 .. N |-> E(f, i)]
           g == [x \in (1 .. N) \X Walks |-> B(x[2], x[1])]
<1>1. \A n \in 1 .. N : \A w \in Walks : B(w, n) \in Walks
    BY CoverTyped
<1>2. Covered(walk, at, moves) = after[N]
    BY DEF Covered
<1>3. \A f, i : E(f, i) = IF i = 0 THEN a ELSE B(f[i - 1], i)
    <2> SUFFICES ASSUME NEW f, NEW i PROVE E(f, i) = IF i = 0 THEN a ELSE B(f[i - 1], i)
        OBVIOUS
    <2> DEFINE w == f[i - 1]
    <2> DEFINE G(x) == IF ~x.ok THEN x
                       ELSE IF x.evals + 1 >= quota THEN Walk(FALSE, x.evals + 1, TRUE)
                       ELSE IF moves[i] \in Range(at.line) THEN Walk(FALSE, x.evals + 1, FALSE)
                       ELSE walk[Onto([at EXCEPT !.evals = x.evals], moves[i], 1)]
               C == CHOOSE x \in {G(v) : v \in {w}} : TRUE
    <2>1. E(f, i) = IF i = 0 THEN a ELSE G(w)
        <3>1. E(f, i) = IF i = 0 THEN a ELSE C
            BY DEF With
        <3> HIDE DEF G
        <3>2. {G(v) : v \in {w}} = {G(w)}
            OBVIOUS
        <3>3. C = G(w)
            BY <3>2
        <3> HIDE DEF C, E
        <3>4. QED
            BY <3>1, <3>3
    <2>2. Onto([at EXCEPT !.evals = w.evals], moves[i], 1) = Went(at.line, moves[i], w.evals + 1)
        BY OntoIs
    <2> HIDE DEF E
    <2>3. QED
        BY <2>1, <2>2 DEF Cover
<1>4. N \in Nat /\ a \in Walks
    BY DEF Places, Walk, Walks
<1>5. Covers(walk, at, moves, after) <=>
         after \in [0 .. N -> Walks] /\ after[0] = a /\ \A n \in 1 .. N : after[n] = B(after[n - 1], n)
    BY DEF Covers
<1> HIDE DEF B, E, N, a
<1>6. g \in [(1 .. N) \X Walks -> Walks] /\ \A n \in 1 .. N : \A w \in Walks : g[<<n, w>>] = B(w, n)
    BY <1>1
<1> HIDE DEF g
<1>7. PICK f \in [0 .. N -> Walks] : f[0] = a /\ \A n \in 1 .. N : f[n] = g[<<n, f[n - 1]>>]
    <2>1. \E f : Chained(N, Walks, a, g, f)
        BY <1>4, <1>6, Chain
    <2>2. QED
        BY <2>1 DEF Chained
<1>8. \A n \in 1 .. N : f[n] = B(f[n - 1], n)
    <2> SUFFICES ASSUME NEW n \in 1 .. N PROVE f[n] = B(f[n - 1], n)
        OBVIOUS
    <2>1. f[n - 1] \in Walks
        BY <1>4
    <2>2. QED
        BY <1>6, <1>7, <2>1
<1>9. f = [i \in 0 .. N |-> E(f, i)]
    <2>1. \A i \in 0 .. N : f[i] = E(f, i)
        BY <1>3, <1>4, <1>7, <1>8
    <2>2. QED
        BY <2>1
<1>10. after = [i \in 0 .. N |-> E(after, i)]
    BY <1>9
<1> HIDE DEF after
<1>11. after[0] = a /\ \A n \in 1 .. N : after[n] = B(after[n - 1], n)
    <2>1. \A i \in 0 .. N : after[i] = E(after, i)
        BY <1>10
    <2>2. QED
        BY <1>3, <1>4, <2>1
<1>12. \A n \in 0 .. N : after[n] \in Walks
    <2> DEFINE S == {n \in 0 .. N : after[n] \in Walks}
    <2>1. 0 \in S
        BY <1>4, <1>11
    <2>2. \A n \in 1 .. N : n - 1 \in S => n \in S
        BY <1>1, <1>4, <1>11
    <2> HIDE DEF S
    <2>3. \A n \in 0 .. N : n \in S
        BY <1>4, <2>1, <2>2, Passed
    <2>4. QED
        BY <2>3 DEF S
<1>13. after \in [0 .. N -> Walks]
    BY <1>10, <1>12
<1>14. Covers(walk, at, moves, after)
    BY <1>5, <1>11, <1>13
<1>15. QED
    BY <1>2, <1>14 DEF N

LEMMA IndexIs ==
    ASSUME NEW moves \in Seq(Boards), NEW b
    PROVE  /\ IndexOf(moves, b) \in Nat \ {0} /\ IndexOf(moves, b) <= Len(moves) + 1
           /\ b \in Range(moves) => IndexOf(moves, b) <= Len(moves)
           /\ IndexOf(moves, b) <= Len(moves) => moves[IndexOf(moves, b)] = b
<1>1. CASE b \in Range(moves)
    <2> DEFINE S == {i \in DOMAIN moves : moves[i] = b}
    <2>1. S # {}
        BY <1>1 DEF Range
    <2>2. S \subseteq Nat
        OBVIOUS
    <2>3. Least(S) \in S
        BY <2>1, <2>2, LeastIs
    <2>4. IndexOf(moves, b) = Least(S)
        BY <1>1 DEF IndexOf
    <2>5. QED
        BY <1>1, <2>3, <2>4
<1>2. CASE b \notin Range(moves)
    BY <1>2 DEF IndexOf
<1>3. QED
    BY <1>1, <1>2

(* Whose turn it is on the last board of a line, and where the move of the *)
(* strategy stands among the moves.                                        *)
Ours(at) == (val[1] = "Win") = (Len(at.line) % 2 = 1)
Searched(plan, at) == IndexOf(Next[Last(at.line)], plan[Last(at.line)])

LEMMA PlaceIs ==
    ASSUME NEW at \in Places, NEW plan
    PROVE  /\ Last(at.line) \in Boards /\ Len(at.line) \in Nat \ {0} /\ at.evals \in Nat
           /\ Next[Last(at.line)] \in Seq(Boards) /\ Len(Next[Last(at.line)]) \in Nat
           /\ End[Last(at.line)] \in {"Win", "Loss", "Draw", "None"}
           /\ Ours(at) \in BOOLEAN
           /\ Searched(plan, at) \in Nat \ {0} /\ Searched(plan, at) <= Len(Next[Last(at.line)]) + 1
           /\ Searched(plan, at) <= Len(Next[Last(at.line)]) =>
                 Next[Last(at.line)][Searched(plan, at)] = plan[Last(at.line)] /\ plan[Last(at.line)] \in Boards
<1>1. at.line \in Seq(Boards) /\ at.line # <<>> /\ at.evals \in Nat
    BY DEF Places
<1>2. Last(at.line) \in Boards /\ Len(at.line) \in Nat \ {0}
    BY <1>1 DEF Last
<1>3. Next[Last(at.line)] \in Seq(Boards) /\ End[Last(at.line)] \in {"Win", "Loss", "Draw", "None"}
    BY <1>2, BranchesIs
<1>4. Ours(at) \in BOOLEAN
    BY DEF Ours
<1>5. Searched(plan, at) \in Nat \ {0} /\ Searched(plan, at) <= Len(Next[Last(at.line)]) + 1
      /\ (Searched(plan, at) <= Len(Next[Last(at.line)]) => Next[Last(at.line)][Searched(plan, at)] = plan[Last(at.line)])
    BY <1>3, IndexIs DEF Searched
<1>6. Searched(plan, at) <= Len(Next[Last(at.line)]) => Next[Last(at.line)][Searched(plan, at)] \in Boards
    <2> DEFINE m == Next[Last(at.line)]   n == Searched(plan, at)
    <2>1. m \in Seq(Boards) /\ n \in Nat \ {0}
        BY <1>3, <1>5
    <2> HIDE DEF m, n
    <2>2. n <= Len(m) => m[n] \in Boards
        BY <2>1
    <2>3. QED
        BY <2>2 DEF m, n
<1>7. QED
    BY <1>1, <1>2, <1>3, <1>4, <1>5, <1>6

Visited(walk, plan, rank, at) ==
    IF End[Last(at.line)] # "None"
    THEN Walk(End[Last(at.line)] = (IF Ours(at) THEN "Win" ELSE "Loss"), at.evals, FALSE)
    ELSE IF Len(at.line) > rank THEN Walk(FALSE, at.evals, FALSE)
    ELSE IF ~Ours(at) THEN Covered(walk, at, Next[Last(at.line)])
    ELSE IF Last(at.line) \notin DOMAIN plan THEN Walk(FALSE, at.evals, FALSE)
    ELSE IF at.evals + Searched(plan, at) >= quota /\ quota <= at.evals + Len(Next[Last(at.line)])
         THEN Walk(FALSE, quota, TRUE)
    ELSE IF Searched(plan, at) > Len(Next[Last(at.line)])
         THEN Walk(FALSE, at.evals + Len(Next[Last(at.line)]), FALSE)
    ELSE IF plan[Last(at.line)] \in Range(at.line) THEN Walk(FALSE, at.evals + Searched(plan, at), FALSE)
    ELSE walk[Went(at.line, plan[Last(at.line)], at.evals + Searched(plan, at))]

LEMMA VisitIs ==
    ASSUME NEW walk, NEW plan, NEW rank, NEW at \in Places
    PROVE  Visit(walk, plan, rank, at) = Visited(walk, plan, rank, at)
<1>1. \A b, n : Onto(at, b, n) = Went(at.line, b, at.evals + n)
    BY OntoIs
<1>2. QED
    BY <1>1 DEF Visit, Visited, Ours, Searched, LoserReplies

LEMMA VisitTyped ==
    ASSUME NEW at \in Places, NEW walk, NEW plan, NEW rank \in Nat, quota \in Nat,
           Len(at.line) <= rank => Given(walk, at)
    PROVE  Visit(walk, plan, rank, at) \in Walks
<1> DEFINE b == Last(at.line)   moves == Next[b]   tried == Searched(plan, at)
<1>1. /\ b \in Boards /\ Len(at.line) \in Nat \ {0} /\ at.evals \in Nat /\ moves \in Seq(Boards) /\ Len(moves) \in Nat
      /\ tried \in Nat \ {0} /\ (tried <= Len(moves) => plan[b] \in Boards)
    BY PlaceIs
<1>2. \A o \in BOOLEAN, n \in Nat, a \in BOOLEAN : Walk(o, n, a) \in Walks
    BY DEF Walk, Walks
<1>3. Walk(End[b] = (IF Ours(at) THEN "Win" ELSE "Loss"), at.evals, FALSE) \in Walks
    BY <1>1, <1>2
<1>4. Len(at.line) <= rank => Covered(walk, at, moves) \in Walks
    <2> SUFFICES ASSUME Given(walk, at) PROVE Covered(walk, at, moves) \in Walks
        OBVIOUS
    <2>1. PICK f : Covers(walk, at, moves, f) /\ Covered(walk, at, moves) = f[Len(moves)]
        BY <1>1, CoveredIs
    <2>2. QED
        BY <1>1, <2>1 DEF Covers
<1> HIDE DEF b, moves, tried
<1>5. at.evals + Len(moves) \in Nat /\ at.evals + tried \in Nat
    BY <1>1
<1>6. /\ Walk(FALSE, at.evals, FALSE) \in Walks /\ Walk(FALSE, quota, TRUE) \in Walks
      /\ Walk(FALSE, at.evals + Len(moves), FALSE) \in Walks /\ Walk(FALSE, at.evals + tried, FALSE) \in Walks
    BY <1>1, <1>2, <1>5
<1>7. ASSUME Len(at.line) <= rank, ~ (tried > Len(moves)) PROVE walk[Went(at.line, plan[b], at.evals + tried)] \in Walks
    <2>1. plan[b] \in Boards
        BY <1>1, <1>7
    <2>2. Went(at.line, plan[b], at.evals + tried) \in Places
          /\ Len(Went(at.line, plan[b], at.evals + tried).line) = Len(at.line) + 1
        BY <1>5, <2>1, WentIs
    <2>3. QED
        BY <1>7, <2>2 DEF Given
<1> DEFINE r1 == Walk(End[b] = (IF Ours(at) THEN "Win" ELSE "Loss"), at.evals, FALSE)
           r2 == Walk(FALSE, at.evals, FALSE)
           r3 == Covered(walk, at, moves)
           r4 == Walk(FALSE, quota, TRUE)
           r5 == Walk(FALSE, at.evals + Len(moves), FALSE)
           r6 == Walk(FALSE, at.evals + tried, FALSE)
           r7 == walk[Went(at.line, plan[b], at.evals + tried)]
<1>8. Visit(walk, plan, rank, at) =
        IF End[b] # "None" THEN r1 ELSE IF Len(at.line) > rank THEN r2 ELSE IF ~Ours(at) THEN r3
        ELSE IF b \notin DOMAIN plan THEN r2
        ELSE IF at.evals + tried >= quota /\ quota <= at.evals + Len(moves) THEN r4
        ELSE IF tried > Len(moves) THEN r5 ELSE IF plan[b] \in Range(at.line) THEN r6 ELSE r7
    BY VisitIs DEF Visited, b, moves, tried
<1>9. r1 \in Walks /\ r2 \in Walks /\ (Len(at.line) <= rank => r3 \in Walks) /\ r4 \in Walks /\ r5 \in Walks /\ r6 \in Walks
    BY <1>3, <1>4, <1>6
<1> HIDE DEF r1, r2, r3, r4, r5, r6, r7
<1>10. Len(at.line) <= rank /\ ~ (tried > Len(moves)) => r7 \in Walks
    BY <1>7 DEF r7
<1>11. ~ (Len(at.line) > rank) => Len(at.line) <= rank
    BY <1>1
<1>12. QED
    BY <1>8, <1>9, <1>10, <1>11

(* A visit depends on the walks from lines one longer, and on a line past  *)
(* the bound on none.                                                      *)
LEMMA VisitSame ==
    ASSUME NEW at \in Places, NEW u, NEW v, NEW plan, NEW rank \in Nat, quota \in Nat,
           Len(at.line) <= rank => Given(u, at) /\ Given(v, at),
           Len(at.line) <= rank => \A x \in Places : Len(x.line) = Len(at.line) + 1 => u[x] = v[x]
    PROVE  Visit(u, plan, rank, at) = Visit(v, plan, rank, at)
<1> DEFINE b == Last(at.line)   moves == Next[b]   tried == Searched(plan, at)
<1>1. /\ b \in Boards /\ Len(at.line) \in Nat \ {0} /\ at.evals \in Nat /\ moves \in Seq(Boards) /\ Len(moves) \in Nat
      /\ tried \in Nat \ {0} /\ (tried <= Len(moves) => plan[b] \in Boards)
    BY PlaceIs
<1>2. CASE Len(at.line) > rank
    <2>1. Visited(u, plan, rank, at) = Visited(v, plan, rank, at)
        BY <1>2 DEF Visited
    <2>2. QED
        BY <2>1, VisitIs
<1>3. CASE Len(at.line) <= rank
    <2>1. \A y \in Boards, n \in Nat : u[Went(at.line, y, n)] = v[Went(at.line, y, n)]
        BY <1>3, WentIs
    <2>2. Covered(u, at, moves) = Covered(v, at, moves)
        <3>1. PICK f : Covers(u, at, moves, f) /\ Covered(u, at, moves) = f[Len(moves)]
            BY <1>1, <1>3, CoveredIs
        <3>2. PICK g : Covers(v, at, moves, g) /\ Covered(v, at, moves) = g[Len(moves)]
            BY <1>1, <1>3, CoveredIs
        <3> DEFINE S == {n \in 0 .. Len(moves) : f[n] = g[n]}
        <3>3. 0 \in S
            <4>1. f[0] = g[0]
                BY <3>1, <3>2 DEF Covers
            <4>2. QED
                BY <1>1, <4>1
        <3>4. ASSUME NEW n \in 1 .. Len(moves), n - 1 \in S
              PROVE  n \in S
            <4>1. f[n] = Cover(u, at, moves, n, f[n - 1]) /\ g[n] = Cover(v, at, moves, n, g[n - 1])
                  /\ f[n - 1] = g[n - 1]
                BY <3>1, <3>2, <3>4 DEF Covers
            <4>2. f[n - 1] \in Walks
                <5>1. n - 1 \in 0 .. Len(moves) /\ f \in [0 .. Len(moves) -> Walks]
                    BY <1>1, <3>1 DEF Covers
                <5>2. QED
                    BY <5>1
            <4>3. f[n - 1].evals + 1 \in Nat /\ moves[n] \in Boards
                <5>1. f[n - 1].evals \in Nat
                    BY <4>2 DEF Walks
                <5>2. moves[n] \in Boards
                    BY <1>1
                <5>3. QED
                    BY <5>1, <5>2
            <4>4. Cover(u, at, moves, n, f[n - 1]) = Cover(v, at, moves, n, f[n - 1])
                BY <2>1, <4>3 DEF Cover
            <4>5. QED
                BY <1>1, <4>1, <4>4
        <3> HIDE DEF S
        <3>5. \A n \in 0 .. Len(moves) : n \in S
            BY <1>1, <3>3, <3>4, Passed
        <3>6. QED
            BY <1>1, <3>1, <3>2, <3>5 DEF S
    <2>3. tried <= Len(moves) =>
             u[Went(at.line, plan[b], at.evals + tried)] = v[Went(at.line, plan[b], at.evals + tried)]
        BY <1>1, <2>1
    <2>4. ~ (tried > Len(moves)) => tried <= Len(moves)
        BY <1>1
    <2>5. Visited(u, plan, rank, at) = Visited(v, plan, rank, at)
        <3> DEFINE cu == Covered(u, at, moves)   wu == u[Went(at.line, plan[b], at.evals + tried)]
                   cv == Covered(v, at, moves)   wv == v[Went(at.line, plan[b], at.evals + tried)]
                   e1 == End[b] = (IF Ours(at) THEN "Win" ELSE "Loss")
                   T(c, w) == IF End[b] # "None" THEN Walk(e1, at.evals, FALSE)
                              ELSE IF Len(at.line) > rank THEN Walk(FALSE, at.evals, FALSE)
                              ELSE IF ~Ours(at) THEN c
                              ELSE IF b \notin DOMAIN plan THEN Walk(FALSE, at.evals, FALSE)
                              ELSE IF at.evals + tried >= quota /\ quota <= at.evals + Len(moves)
                                   THEN Walk(FALSE, quota, TRUE)
                              ELSE IF tried > Len(moves) THEN Walk(FALSE, at.evals + Len(moves), FALSE)
                              ELSE IF plan[b] \in Range(at.line) THEN Walk(FALSE, at.evals + tried, FALSE)
                              ELSE w
        <3>1. Visited(u, plan, rank, at) = T(cu, wu)
            BY DEF Visited
        <3>2. Visited(v, plan, rank, at) = T(cv, wv)
            BY DEF Visited
        <3>3. cu = cv /\ (~ (tried > Len(moves)) => wu = wv)
            BY <2>2, <2>3, <2>4
        <3> HIDE DEF b, moves, tried, cu, wu, cv, wv
        <3>4. T(cu, wu) = T(cv, wv)
            BY <3>3
        <3> HIDE DEF T
        <3>5. QED
            BY <3>1, <3>2, <3>4
    <2>6. QED
        BY <2>5, VisitIs
<1>4. QED
    BY <1>1, <1>2, <1>3

(* The recursion of the replay ends: no line goes past the bound.          *)
Walking(walk, plan, rank) ==
    walk \in [Places -> Walks] /\ \A at \in Places : walk[at] = Visit(walk, plan, rank, at)

LEMMA WalkIs ==
    ASSUME NEW plan, NEW rank \in Nat, quota \in Nat
    PROVE  \E walk : /\ Walking(walk, plan, rank)
                     /\ \A n : Verified(plan, rank, n) = walk[[line |-> <<keys[1]>>, evals |-> n]]
<1> DEFINE N == rank + 1
           V == [Places -> Walks]
           B(w) == [at \in Places |-> Visit(w, plan, rank, at)]
           g == [x \in (1 .. N) \X V |-> B(x[2])]
           a == [at \in Places |-> Walk(FALSE, 0, FALSE)]
<1>0. \A w \in V : \A at \in Places : Given(w, at)
    BY DEF Given
<1>1. \A w \in V : B(w) \in V
    <2> SUFFICES ASSUME NEW w \in V, NEW at \in Places PROVE Visit(w, plan, rank, at) \in Walks
        OBVIOUS
    <2>1. QED
        BY <1>0, VisitTyped
<1>2. a \in V
    BY DEF Walk, Walks
<1>3. \A w \in V : \A at \in Places : B(w)[at] = Visit(w, plan, rank, at)
    OBVIOUS
<1>4. N \in Nat /\ rank < N
    OBVIOUS
<1> HIDE DEF B, V, a, N
<1>5. g \in [(1 .. N) \X V -> V] /\ \A n \in 1 .. N : \A w \in V : g[<<n, w>>] = B(w)
    BY <1>1
<1> HIDE DEF g
<1>6. PICK f \in [0 .. N -> V] : f[0] = a /\ \A n \in 1 .. N : f[n] = g[<<n, f[n - 1]>>]
    <2>1. \E f : Chained(N, V, a, g, f)
        BY <1>2, <1>4, <1>5, Chain
    <2>2. QED
        BY <2>1 DEF Chained
<1>7. \A n \in 1 .. N : f[n - 1] \in V /\ f[n] = B(f[n - 1])
    <2> SUFFICES ASSUME NEW n \in 1 .. N PROVE f[n - 1] \in V /\ f[n] = B(f[n - 1])
        OBVIOUS
    <2>1. f[n - 1] \in V
        BY <1>4
    <2>2. QED
        BY <1>5, <1>6, <2>1
(* The n-th of them is settled on all lines but those with n more to go.   *)
<1> DEFINE Same(u, v, n) == \A at \in Places : Len(at.line) + n > rank + 1 => u[at] = v[at]
           S == {n \in 0 .. N : Same(f[n], B(f[n]), n)}
<1>8. ASSUME NEW u \in V, NEW n \in 1 .. N, n = 1 \/ Same(u, B(u), n - 1)
      PROVE  Same(B(u), B(B(u)), n)
    <2> SUFFICES ASSUME NEW at \in Places, Len(at.line) + n > rank + 1 PROVE B(u)[at] = B(B(u))[at]
        OBVIOUS
    <2>1. B(u) \in V
        BY <1>1
    <2>2. ASSUME Len(at.line) <= rank, NEW x \in Places, Len(x.line) = Len(at.line) + 1
          PROVE  u[x] = B(u)[x]
        <3>1. Len(at.line) \in Nat /\ n \in Nat /\ n # 1
            BY <1>4, <2>2, PlaceIs
        <3>2. Len(x.line) + (n - 1) > rank + 1
            BY <2>2, <3>1
        <3>3. QED
            BY <1>8, <3>1, <3>2
    <2>3. Visit(u, plan, rank, at) = Visit(B(u), plan, rank, at)
        BY <1>0, <2>1, <2>2, VisitSame
    <2>4. QED
        BY <1>3, <2>1, <2>3
<1> HIDE DEF Same
<1>9. 1 \in 1 .. N /\ f[0] \in V
    BY <1>4
<1> DEFINE D == {n \in 0 .. N : n = 0 \/ Same(f[n], B(f[n]), n)}
<1>10. 0 \in D
    BY <1>4
<1>11. ASSUME NEW n \in 1 .. N, n - 1 \in D
       PROVE  n \in D
    <2>1. f[n - 1] \in V /\ f[n] = B(f[n - 1])
        BY <1>7
    <2>2. n = 1 \/ Same(f[n - 1], B(f[n - 1]), n - 1)
        BY <1>4, <1>11
    <2>3. Same(B(f[n - 1]), B(B(f[n - 1])), n)
        BY <1>8, <2>1, <2>2
    <2>4. QED
        BY <1>4, <2>1, <2>3
<1> HIDE DEF D
<1>12. \A n \in 0 .. N : n \in D
    BY <1>4, <1>10, <1>11, Passed
<1>13. Same(f[N], B(f[N]), N) /\ f[N] \in V
    BY <1>4, <1>12 DEF D
<1> DEFINE w == f[N]
<1>14. \A at \in Places : w[at] = Visit(w, plan, rank, at)
    <2> SUFFICES ASSUME NEW at \in Places PROVE w[at] = Visit(w, plan, rank, at)
        OBVIOUS
    <2>1. Len(at.line) + N > rank + 1
        <3>1. Len(at.line) \in Nat \ {0}
            BY PlaceIs
        <3>2. QED
            BY <3>1 DEF N
    <2>2. QED
        BY <1>3, <1>13, <2>1 DEF Same
<1> HIDE DEF w
<1>15. w \in [Places -> Walks] /\ w = [at \in Places |-> Visit(w, plan, rank, at)]
    <2>1. w \in [Places -> Walks]
        BY <1>13 DEF w, V
    <2>2. QED
        BY <1>14, <2>1
<1> DEFINE walk == CHOOSE walk : walk = [at \in Places |-> Visit(walk, plan, rank, at)]
<1>16. walk = [at \in Places |-> Visit(walk, plan, rank, at)]
    BY <1>15
<1>17. \A n : Verified(plan, rank, n) = walk[[line |-> <<keys[1]>>, evals |-> n]]
    BY DEF Verified
<1> HIDE DEF walk
<1>18. \A at \in Places : walk[at] = Visit(walk, plan, rank, at)
    BY <1>16
<1> DEFINE M == {n \in 0 .. N : n = 0 \/ \A at \in Places : Len(at.line) + n > rank + 1 => walk[at] = w[at]}
<1>19. 0 \in M
    BY <1>4
<1>20. ASSUME NEW n \in 1 .. N, n - 1 \in M
       PROVE  n \in M
    <2> SUFFICES ASSUME NEW at \in Places, Len(at.line) + n > rank + 1 PROVE walk[at] = w[at]
        BY <1>4
    <2>1. ASSUME Len(at.line) <= rank, NEW x \in Places, Len(x.line) = Len(at.line) + 1
          PROVE  walk[x] = w[x] /\ w[x] \in Walks
        <3>1. Len(at.line) \in Nat /\ n \in Nat /\ n # 1
            BY <1>4, <2>1, PlaceIs
        <3>2. Len(x.line) + (n - 1) > rank + 1 /\ n - 1 # 0
            BY <2>1, <3>1
        <3>3. QED
            BY <1>15, <1>20, <3>2
    <2>2. Len(at.line) <= rank => Given(walk, at) /\ Given(w, at)
        BY <2>1 DEF Given
    <2>3. Visit(walk, plan, rank, at) = Visit(w, plan, rank, at)
        BY <2>1, <2>2, VisitSame
    <2>4. QED
        BY <1>14, <1>18, <2>3 DEF w
<1> HIDE DEF M
<1>21. \A n \in 0 .. N : n \in M
    BY <1>4, <1>19, <1>20, Passed
<1>22. \A at \in Places : walk[at] = w[at]
    <2> SUFFICES ASSUME NEW at \in Places PROVE walk[at] = w[at]
        OBVIOUS
    <2>1. Len(at.line) + N > rank + 1 /\ N # 0
        <3>1. Len(at.line) \in Nat \ {0}
            BY PlaceIs
        <3>2. QED
            BY <3>1 DEF N
    <2>2. N \in M
        BY <1>4, <1>21
    <2>3. QED
        BY <2>1, <2>2 DEF M
<1>23. walk \in [Places -> Walks]
    BY <1>15, <1>16, <1>22
<1>24. QED
    BY <1>17, <1>18, <1>23 DEF Walking

(* What holds of a line when it holds of those one longer, and of those    *)
(* past the bound, holds of all.                                           *)
LEMMA Backwards ==
    ASSUME NEW rank \in Nat, NEW T,
           \A at \in Places : (Len(at.line) <= rank => \A x \in Places : Len(x.line) = Len(at.line) + 1 => x \in T)
                                 => at \in T
    PROVE  \A at \in Places : at \in T
<1> DEFINE N == rank + 1
           S == {n \in 0 .. N : n = 0 \/ \A at \in Places : Len(at.line) + n > rank + 1 => at \in T}
<1>1. 0 \in S /\ N \in Nat
    OBVIOUS
<1>2. ASSUME NEW n \in 1 .. N, n - 1 \in S
      PROVE  n \in S
    <2> SUFFICES ASSUME NEW at \in Places, Len(at.line) + n > rank + 1 PROVE at \in T
        OBVIOUS
    <2>1. ASSUME Len(at.line) <= rank, NEW x \in Places, Len(x.line) = Len(at.line) + 1
          PROVE  x \in T
        <3>1. Len(at.line) \in Nat /\ n \in Nat /\ n # 1
            BY <2>1, PlaceIs
        <3>2. Len(x.line) + (n - 1) > rank + 1 /\ n - 1 # 0
            BY <2>1, <3>1
        <3>3. QED
            BY <1>2, <3>2
    <2>2. QED
        BY <2>1
<1> HIDE DEF S, N
<1>3. \A n \in 0 .. N : n \in S
    BY <1>1, <1>2, Passed
<1>4. N \in S
    BY <1>1, <1>3
<1>5. SUFFICES ASSUME NEW at \in Places PROVE at \in T
    OBVIOUS
<1>6. Len(at.line) \in Nat \ {0}
    BY PlaceIs
<1>7. Len(at.line) + N > rank + 1 /\ N # 0
    <2>1. Len(at.line) + (rank + 1) > rank + 1
        <3> DEFINE k == Len(at.line)
        <3>1. k \in Nat /\ k # 0
            BY <1>6
        <3> HIDE DEF k
        <3>2. k + (rank + 1) > rank + 1
            BY <3>1
        <3>3. QED
            BY <3>2 DEF k
    <2>2. rank + 1 # 0
        OBVIOUS
    <2>3. QED
        BY <2>1, <2>2 DEF N
<1>8. QED
    BY <1>4, <1>7 DEF S

LEMMA WalkingIs ==
    ASSUME NEW walk, NEW plan, NEW rank, Walking(walk, plan, rank), NEW at \in Places
    PROVE  walk[at] = Visited(walk, plan, rank, at) /\ walk[at] \in Walks /\ Given(walk, at)
    BY VisitIs DEF Walking, Given

(* The replay keeps to what is left of the budget.                         *)
Kept(w) == (w.evals <= quota \/ w.evals <= 1) /\ (w.ok => w.evals < quota \/ w.evals = 0)

LEMMA KeptIs ==
    ASSUME quota \in Nat, NEW n \in Nat, NEW a
    PROVE  /\ n <= quota \/ n <= 1 => Kept(Walk(FALSE, n, a))
           /\ n < quota \/ n = 0 => \A o : Kept(Walk(o, n, a))
<1>1. \A o : Walk(o, n, a).evals = n
    BY DEF Walk
<1>2. Walk(FALSE, n, a).ok = FALSE
    BY DEF Walk
<1>3. n <= quota \/ n <= 1 => Kept(Walk(FALSE, n, a))
    BY <1>1, <1>2 DEF Kept
<1>4. n < quota \/ n = 0 => \A o : Kept(Walk(o, n, a))
    BY <1>1 DEF Kept
<1>5. QED
    BY <1>3, <1>4

LEMMA CoveredKept ==
    ASSUME NEW at \in Places, NEW walk, Given(walk, at), NEW moves \in Seq(Boards), quota \in Nat,
           at.evals < quota \/ at.evals = 0,
           \A x \in Places : Len(x.line) = Len(at.line) + 1 /\ x.evals < quota => Kept(walk[x])
    PROVE  Kept(Covered(walk, at, moves))
<1>1. PICK f : Covers(walk, at, moves, f) /\ Covered(walk, at, moves) = f[Len(moves)]
    BY CoveredIs
<1>2. Len(moves) \in Nat /\ f \in [0 .. Len(moves) -> Walks]
    BY <1>1 DEF Covers
<1> DEFINE S == {n \in 0 .. Len(moves) : Kept(f[n])}
<1>3. 0 \in S
    <2>1. at.evals \in Nat
        BY DEF Places
    <2>2. f[0].ok = TRUE /\ f[0].evals = at.evals
        BY <1>1 DEF Covers, Walk
    <2>3. QED
        BY <1>2, <2>1, <2>2 DEF Kept
<1>4. ASSUME NEW n \in 1 .. Len(moves), n - 1 \in S
      PROVE  n \in S
    <2> DEFINE w == f[n - 1]
    <2>1. w \in Walks /\ Kept(w) /\ f[n] = Cover(walk, at, moves, n, w)
        BY <1>1, <1>2, <1>4 DEF Covers
    <2> HIDE DEF w
    <2>2. w.evals \in Nat /\ w.ok \in BOOLEAN /\ moves[n] \in Boards
        BY <2>1 DEF Walks
    <2>3. CASE ~w.ok
        BY <1>2, <2>1, <2>3 DEF Cover
    <2>4. CASE w.ok /\ w.evals + 1 >= quota
        <3>1. f[n] = Walk(FALSE, w.evals + 1, TRUE)
            BY <2>1, <2>4 DEF Cover
        <3>2. f[n].ok = FALSE /\ f[n].evals = w.evals + 1
            BY <3>1 DEF Walk
        <3>3. w.evals < quota \/ w.evals = 0
            BY <2>1, <2>4 DEF Kept
        <3>4. QED
            BY <1>2, <2>2, <3>2, <3>3 DEF Kept
    <2>5. CASE w.ok /\ ~ (w.evals + 1 >= quota) /\ moves[n] \in Range(at.line)
        <3>1. f[n] = Walk(FALSE, w.evals + 1, FALSE)
            BY <2>1, <2>5 DEF Cover
        <3>2. f[n].ok = FALSE /\ f[n].evals = w.evals + 1
            BY <3>1 DEF Walk
        <3>3. QED
            BY <1>2, <2>2, <2>5, <3>2 DEF Kept
    <2>6. CASE w.ok /\ ~ (w.evals + 1 >= quota) /\ moves[n] \notin Range(at.line)
        <3> DEFINE x == Went(at.line, moves[n], w.evals + 1)
        <3>1. f[n] = walk[x]
            BY <2>1, <2>6 DEF Cover
        <3>2. x \in Places /\ Len(x.line) = Len(at.line) + 1 /\ x.evals = w.evals + 1
            <4>1. w.evals + 1 \in Nat
                BY <2>2
            <4>2. QED
                BY <2>2, <4>1, WentIs
        <3>3. w.evals + 1 < quota
            BY <2>2, <2>6
        <3>4. Kept(walk[x])
            BY <3>2, <3>3
        <3>5. QED
            BY <1>2, <3>1, <3>4
    <2>7. QED
        BY <2>2, <2>3, <2>4, <2>5, <2>6
<1> HIDE DEF S
<1>5. \A n \in 0 .. Len(moves) : n \in S
    BY <1>2, <1>3, <1>4, Passed
<1>6. QED
    BY <1>1, <1>2, <1>5 DEF S

LEMMA WalkKept ==
    ASSUME NEW plan, NEW rank \in Nat, NEW walk, Walking(walk, plan, rank), quota \in Nat
    PROVE  \A at \in Places : at.evals < quota \/ at.evals = 0 => Kept(walk[at])
<1> DEFINE T == {at \in Places : at.evals < quota \/ at.evals = 0 => Kept(walk[at])}
<1>1. ASSUME NEW at \in Places,
             Len(at.line) <= rank => \A x \in Places : Len(x.line) = Len(at.line) + 1 => x \in T
      PROVE  at \in T
    <2> SUFFICES ASSUME at.evals < quota \/ at.evals = 0 PROVE Kept(walk[at])
        OBVIOUS
    <2> DEFINE b == Last(at.line)   moves == Next[b]   tried == Searched(plan, at)   e == at.evals   M == Len(moves)
    <2>1. /\ b \in Boards /\ Len(at.line) \in Nat \ {0} /\ e \in Nat /\ moves \in Seq(Boards) /\ M \in Nat
          /\ tried \in Nat \ {0} /\ tried <= M + 1 /\ (tried <= M => plan[b] \in Boards)
        BY PlaceIs
    <2>2. walk[at] = Visited(walk, plan, rank, at) /\ Given(walk, at)
        BY WalkingIs
    <2>3. quota <= quota
        OBVIOUS
    <2>4. \A o : Kept(Walk(o, e, FALSE))
        <3>1. e < quota \/ e = 0
            OBVIOUS
        <3> HIDE DEF e
        <3>2. QED
            BY <2>1, <3>1, KeptIs
    <2>5. ASSUME Len(at.line) <= rank PROVE Kept(Covered(walk, at, moves))
        <3>1. \A x \in Places : Len(x.line) = Len(at.line) + 1 /\ x.evals < quota => Kept(walk[x])
            BY <1>1, <2>5
        <3>2. QED
            BY <2>1, <2>2, <3>1, CoveredKept
    <2>6. Kept(Walk(FALSE, quota, TRUE))
        BY <2>3, KeptIs
    <2> HIDE DEF b, moves, tried, e, M
    <2>7. ASSUME ~ (e + tried >= quota /\ quota <= e + M), tried > M
          PROVE  Kept(Walk(FALSE, e + M, FALSE))
        <3>1. e + M <= quota /\ e + M \in Nat
            BY <2>1, <2>7
        <3>2. QED
            BY <3>1, KeptIs
    <2>8. ASSUME ~ (e + tried >= quota /\ quota <= e + M), ~ (tried > M)
          PROVE  e + tried < quota /\ tried <= M
        BY <2>1, <2>8
    <2>9. ASSUME e + tried < quota
          PROVE  Kept(Walk(FALSE, e + tried, FALSE))
        <3>1. e + tried <= quota /\ e + tried \in Nat
            BY <2>1, <2>9
        <3>2. QED
            BY <3>1, KeptIs
    <2>10. ASSUME Len(at.line) <= rank, e + tried < quota, tried <= M
           PROVE  Kept(walk[Went(at.line, plan[b], e + tried)])
        <3> DEFINE x == Went(at.line, plan[b], e + tried)
        <3>1. plan[b] \in Boards /\ e + tried \in Nat
            BY <2>1, <2>10
        <3>2. x \in Places /\ Len(x.line) = Len(at.line) + 1 /\ x.evals = e + tried
            BY <3>1, WentIs
        <3> HIDE DEF x
        <3>3. Kept(walk[x])
            BY <1>1, <2>10, <3>2
        <3>4. QED
            BY <3>3 DEF x
    <2>11. Kept(Visited(walk, plan, rank, at))
        <3>1. CASE End[b] # "None"
            BY <2>4, <3>1 DEF Visited, b, e
        <3>2. CASE End[b] = "None" /\ Len(at.line) > rank
            BY <2>4, <3>2 DEF Visited, b, e
        <3>3. CASE End[b] = "None" /\ Len(at.line) <= rank /\ ~Ours(at)
            <4>1. Visited(walk, plan, rank, at) = Covered(walk, at, moves)
                <5>1. ~ (Len(at.line) > rank) /\ ~ (End[b] # "None")
                    BY <2>1, <3>3
                <5>2. QED
                    BY <3>3, <5>1 DEF Visited, b, moves
            <4>2. QED
                BY <2>5, <3>3, <4>1
        <3>4. CASE End[b] = "None" /\ Len(at.line) <= rank /\ Ours(at)
            <4> DEFINE r == walk[Went(at.line, plan[b], e + tried)]
            <4>0. ~ (Len(at.line) > rank)
                BY <2>1, <3>4
            <4>1. Visited(walk, plan, rank, at) =
                    IF b \notin DOMAIN plan THEN Walk(FALSE, e, FALSE)
                    ELSE IF e + tried >= quota /\ quota <= e + M THEN Walk(FALSE, quota, TRUE)
                    ELSE IF tried > M THEN Walk(FALSE, e + M, FALSE)
                    ELSE IF plan[b] \in Range(at.line) THEN Walk(FALSE, e + tried, FALSE) ELSE r
                BY <3>4, <4>0 DEF Visited, b, moves, tried, e, M
            <4>2. e + tried < quota /\ tried <= M => Kept(r)
                BY <2>10, <3>4
            <4> HIDE DEF r, Kept
            <4>3. QED
                BY <2>4, <2>6, <2>7, <2>8, <2>9, <4>1, <4>2
        <3>5. QED
            BY <2>1, <3>1, <3>2, <3>3, <3>4
    <2>12. QED
        BY <2>2, <2>11
<1> HIDE DEF T
<1>2. \A at \in Places : at \in T
    BY <1>1, Backwards
<1>3. QED
    BY <1>2 DEF T

LEMMA KeyIs ==
    ASSUME Complete, NEW i \in 1 .. Len(keys)
    PROVE  NodeOf(keys, keys[i]) = i /\ keys[i] \in Boards
<1>1. Distinct(keys) /\ DOMAIN keys = 1 .. Len(keys)
    BY DEF Complete, RegionShape, Distinct
<1>2. \E j \in DOMAIN keys : keys[j] = keys[i]
    BY <1>1
<1>3. NodeOf(keys, keys[i]) \in DOMAIN keys /\ keys[NodeOf(keys, keys[i])] = keys[i]
    BY <1>2, NodeOfIs
<1>4. QED
    BY <1>1, <1>3, RowIs DEF Distinct

LEMMA MovesIs ==
    ASSUME Complete, NEW i \in 1 .. Len(keys), End[keys[i]] = "None"
    PROVE  /\ Next[keys[i]] \in Seq(Boards) /\ DOMAIN kids[i] = 1 .. Len(Next[keys[i]])
           /\ \A j \in 1 .. Len(Next[keys[i]]) :
                 kids[i][j] \in 1 .. Len(keys) /\ kids[i][j] \in Range(kids[i]) /\ keys[kids[i][j]] = Next[keys[i]][j]
           /\ \A k \in Range(kids[i]) :
                 /\ k \in 1 .. Len(keys) /\ keys[k] \in Range(Next[keys[i]])
                 /\ \E j \in 1 .. Len(Next[keys[i]]) : kids[i][j] = k /\ keys[k] = Next[keys[i]][j]
<1>1. Linked(keys, i, kids[i])
    BY DEF Complete, RegionShape
<1>2. Branches(keys[i]) = Next[keys[i]] /\ Next[keys[i]] \in Seq(Boards)
    BY RowIs, BranchesIs DEF Branches
<1>3. /\ kids[i] \in Seq(Nat) /\ Len(kids[i]) = Len(Next[keys[i]])
      /\ \A j \in 1 .. Len(kids[i]) : kids[i][j] \in DOMAIN keys /\ keys[kids[i][j]] = Next[keys[i]][j]
    BY <1>1, <1>2 DEF Linked
<1>4. DOMAIN kids[i] = 1 .. Len(Next[keys[i]])
    BY <1>3
<1>5. \A j \in 1 .. Len(Next[keys[i]]) :
         kids[i][j] \in 1 .. Len(keys) /\ kids[i][j] \in Range(kids[i]) /\ keys[kids[i][j]] = Next[keys[i]][j]
    BY <1>3, <1>4, RowIs DEF Range
<1>6. \A k \in Range(kids[i]) : \E j \in 1 .. Len(Next[keys[i]]) : kids[i][j] = k
    BY <1>4 DEF Range
<1>7. \A k \in Range(kids[i]) : keys[k] \in Range(Next[keys[i]])
    BY <1>2, RowIs
<1>8. ASSUME NEW k \in Range(kids[i])
      PROVE  \E j \in 1 .. Len(Next[keys[i]]) : kids[i][j] = k /\ keys[k] = Next[keys[i]][j]
    <2>1. PICK j \in 1 .. Len(Next[keys[i]]) : kids[i][j] = k
        BY <1>6
    <2>2. keys[k] = Next[keys[i]][j]
        BY <1>5, <2>1
    <2>3. QED
        BY <2>1, <2>2
<1>9. \A k \in Range(kids[i]) : k \in 1 .. Len(keys)
    BY RowIs
<1>10. QED
    BY <1>2, <1>4, <1>5, <1>7, <1>8, <1>9

LEMMA ChosenIs ==
    ASSUME Judged, NEW i \in 1 .. Len(keys), val[i] = "Win", End[keys[i]] = "None"
    PROVE  Chosen(i) \in Range(kids[i]) /\ val[Chosen(i)] = "Loss" /\ dist[Chosen(i)] + 1 = dist[i]
<1> DEFINE near == {j \in DOMAIN kids[i] : val[kids[i][j]] = "Loss" /\ dist[kids[i][j]] + 1 = dist[i]}
<1>1. PICK k \in Range(kids[i]) : val[k] = "Loss" /\ dist[i] = 1 + dist[k]
    BY MeasuredIs DEF Judged
<1>2. dist[k] \in Nat
    BY RowIs DEF Judged
<1>3. PICK j \in DOMAIN kids[i] : kids[i][j] = k
    BY DEF Range
<1>4. j \in near
    BY <1>1, <1>2, <1>3
<1>5. near \subseteq Nat
    BY RowIs DEF Judged
<1>6. Least(near) \in near
    BY <1>4, <1>5, LeastIs
<1>7. Chosen(i) = kids[i][Least(near)]
    BY DEF Chosen
<1> DEFINE m == Least(near)
<1>8. m \in DOMAIN kids[i] /\ val[kids[i][m]] = "Loss" /\ dist[kids[i][m]] + 1 = dist[i]
    BY <1>6
<1> HIDE DEF m
<1>9. kids[i][m] \in Range(kids[i])
    BY <1>8 DEF Range
<1>10. QED
    BY <1>7, <1>8, <1>9 DEF m

(* The sides take turns along a line.                                      *)
LEMMA OursTurns ==
    ASSUME NEW at \in Places, NEW b \in Boards, NEW n \in Nat
    PROVE  Ours(Went(at.line, b, n)) = ~Ours(at)
<1> DEFINE k == Len(at.line)   o == val[1] = "Win"
<1>1. k \in Nat /\ Len(Went(at.line, b, n).line) = k + 1
    BY WentIs
<1>2. Ours(at) = (o = (k % 2 = 1))
    BY DEF Ours
<1>3. Ours(Went(at.line, b, n)) = (o = ((k + 1) % 2 = 1))
    BY <1>1 DEF Ours
<1> HIDE DEF k, o
<1>4. ((k + 1) % 2 = 1) <=> ~ (k % 2 = 1)
    BY <1>1, Parity
<1>5. o \in BOOLEAN
    BY DEF o
<1>6. (o = ((k + 1) % 2 = 1)) = ~ (o = (k % 2 = 1))
    BY <1>4, <1>5
<1>7. QED
    BY <1>2, <1>3, <1>6

(* A replay that accepts has followed every reply.                         *)
LEMMA CoveredOk ==
    ASSUME NEW at \in Places, NEW walk, Given(walk, at), NEW moves \in Seq(Boards), quota \in Nat,
           Covered(walk, at, moves).ok
    PROVE  \A n \in 1 .. Len(moves) : \E e \in Nat : walk[Went(at.line, moves[n], e)].ok
<1>1. PICK f : Covers(walk, at, moves, f) /\ Covered(walk, at, moves) = f[Len(moves)]
    BY CoveredIs
<1>2. Len(moves) \in Nat /\ f \in [0 .. Len(moves) -> Walks]
    BY <1>1 DEF Covers
<1>3. \A n \in 1 .. Len(moves) : f[n] = Cover(walk, at, moves, n, f[n - 1])
    BY <1>1 DEF Covers
<1> DEFINE M == Len(moves)
           S == {m \in 0 .. M : f[M - m].ok}
<1>4. 0 \in S
    BY <1>1, <1>2
<1>5. ASSUME NEW m \in 1 .. M, m - 1 \in S
      PROVE  m \in S
    <2>1. M - m \in 0 .. M /\ M - (m - 1) \in 1 .. M /\ (M - (m - 1)) - 1 = M - m
        BY <1>2
    <2>2. f[M - (m - 1)].ok
        BY <1>5
    <2>3. f[M - (m - 1)] = Cover(walk, at, moves, M - (m - 1), f[M - m])
        BY <1>3, <2>1
    <2>4. f[M - m].ok \in BOOLEAN
        BY <1>2, <2>1 DEF Walks
    <2>5. f[M - m].ok
        BY <2>2, <2>3, <2>4 DEF Cover
    <2>6. QED
        BY <1>2, <2>5
<1> HIDE DEF S
<1>6. \A m \in 0 .. M : m \in S
    BY <1>2, <1>4, <1>5, Passed
<1>7. \A n \in 0 .. M : f[n].ok
    <2> SUFFICES ASSUME NEW n \in 0 .. M PROVE f[n].ok
        OBVIOUS
    <2>1. M - n \in 0 .. M /\ M - (M - n) = n
        BY <1>2
    <2>2. QED
        BY <1>6, <2>1 DEF S
<1>8. SUFFICES ASSUME NEW n \in 1 .. M PROVE \E e \in Nat : walk[Went(at.line, moves[n], e)].ok
    OBVIOUS
<1> DEFINE w == f[n - 1]
<1>9. f[n].ok /\ f[n] = Cover(walk, at, moves, n, w)
    BY <1>2, <1>3, <1>7
<1>10. w \in Walks /\ w.ok
    BY <1>2, <1>7
<1> HIDE DEF w
<1>11. w.evals + 1 \in Nat
    BY <1>10 DEF Walks
<1>12. \A k, a : Walk(FALSE, k, a).ok = FALSE
    BY DEF Walk
<1>13. f[n] = walk[Went(at.line, moves[n], w.evals + 1)]
    BY <1>9, <1>10, <1>12 DEF Cover
<1>14. QED
    BY <1>9, <1>11, <1>13

(* What a place the replay accepts says of the next ones.                  *)
LEMMA OkIs ==
    ASSUME NEW plan, NEW rank \in Nat, NEW walk, Walking(walk, plan, rank), quota \in Nat,
           NEW at \in Places, walk[at].ok
    PROVE  /\ End[Last(at.line)] # "None" => End[Last(at.line)] = (IF Ours(at) THEN "Win" ELSE "Loss")
           /\ End[Last(at.line)] = "None" => Len(at.line) <= rank
           /\ End[Last(at.line)] = "None" /\ ~Ours(at) =>
                 \A n \in 1 .. Len(Next[Last(at.line)]) :
                    \E e \in Nat : walk[Went(at.line, Next[Last(at.line)][n], e)].ok
           /\ End[Last(at.line)] = "None" /\ Ours(at) =>
                 /\ Last(at.line) \in DOMAIN plan /\ plan[Last(at.line)] \in Boards
                 /\ plan[Last(at.line)] \in Range(Next[Last(at.line)])
                 /\ \E e \in Nat : walk[Went(at.line, plan[Last(at.line)], e)].ok
<1> DEFINE b == Last(at.line)   moves == Next[b]   tried == Searched(plan, at)
<1>1. /\ b \in Boards /\ Len(at.line) \in Nat /\ at.evals \in Nat /\ moves \in Seq(Boards) /\ Len(moves) \in Nat
      /\ Ours(at) \in BOOLEAN
      /\ tried \in Nat \ {0} /\ (tried <= Len(moves) => moves[tried] = plan[b] /\ plan[b] \in Boards)
    BY PlaceIs
<1>2. walk[at] = Visited(walk, plan, rank, at) /\ Given(walk, at)
    BY WalkingIs
<1>3. \A n, a : ~ Walk(FALSE, n, a).ok
    BY DEF Walk
<1>4. ASSUME End[b] # "None" PROVE End[b] = (IF Ours(at) THEN "Win" ELSE "Loss")
    <2> DEFINE o == End[b] = (IF Ours(at) THEN "Win" ELSE "Loss")
    <2>1. walk[at] = Walk(o, at.evals, FALSE)
        BY <1>2, <1>4 DEF Visited
    <2>2. o \in BOOLEAN
        OBVIOUS
    <2> HIDE DEF o
    <2>3. Walk(o, at.evals, FALSE).ok = o
        BY DEF Walk
    <2>4. QED
        BY <2>1, <2>2, <2>3 DEF o
<1>5. ASSUME End[b] = "None" PROVE Len(at.line) <= rank
    <2> SUFFICES ASSUME Len(at.line) > rank PROVE FALSE
        BY <1>1
    <2>1. walk[at] = Walk(FALSE, at.evals, FALSE)
        BY <1>2, <1>5 DEF Visited
    <2>2. QED
        BY <1>3, <2>1
<1>6. ASSUME End[b] = "None", ~Ours(at)
      PROVE  \A n \in 1 .. Len(moves) : \E e \in Nat : walk[Went(at.line, moves[n], e)].ok
    <2>1. ~ (Len(at.line) > rank) /\ ~ (End[b] # "None")
        BY <1>1, <1>5, <1>6
    <2>2. walk[at] = Covered(walk, at, moves)
        BY <1>2, <1>6, <2>1 DEF Visited
    <2>3. QED
        BY <1>1, <1>2, <2>2, CoveredOk
<1>7. ASSUME End[b] = "None", Ours(at)
      PROVE  /\ b \in DOMAIN plan /\ plan[b] \in Boards /\ plan[b] \in Range(moves)
             /\ \E e \in Nat : walk[Went(at.line, plan[b], e)].ok
    <2>1. ~ (Len(at.line) > rank) /\ ~ (End[b] # "None")
        BY <1>1, <1>5, <1>7
    <2> DEFINE e == at.evals   M == Len(moves)   r == walk[Went(at.line, plan[b], e + tried)]
    <2>2. walk[at] = IF b \notin DOMAIN plan THEN Walk(FALSE, e, FALSE)
                     ELSE IF e + tried >= quota /\ quota <= e + M THEN Walk(FALSE, quota, TRUE)
                     ELSE IF tried > M THEN Walk(FALSE, e + M, FALSE)
                     ELSE IF plan[b] \in Range(at.line) THEN Walk(FALSE, e + tried, FALSE) ELSE r
        BY <1>2, <1>7, <2>1 DEF Visited
    <2> HIDE DEF r
    <2>3. b \in DOMAIN plan /\ ~ (tried > M) /\ walk[at] = r
        BY <1>3, <2>2
    <2>4. tried <= M /\ e + tried \in Nat
        BY <1>1, <2>3
    <2>5. plan[b] \in Boards /\ plan[b] = moves[tried] /\ tried \in DOMAIN moves
        BY <1>1, <2>4
    <2>6. plan[b] \in Range(moves)
        BY <2>5 DEF Range
    <2>7. walk[Went(at.line, plan[b], e + tried)].ok
        BY <2>3 DEF r
    <2>8. QED
        BY <2>3, <2>4, <2>5, <2>6, <2>7
<1> HIDE DEF b, moves, tried
<1>8. QED
    BY <1>4, <1>5, <1>6, <1>7 DEF b, moves

(* It accepts only what is won: on every board of an accepted line the     *)
(* side whose turn it is stands as the claim says.                         *)
Stands(at, v) == v = IF Ours(at) THEN "Win" ELSE "Loss"

LEMMA WalkSound ==
    ASSUME Judged, quota \in Nat, NEW plan, NEW rank \in Nat, NEW walk, Walking(walk, plan, rank)
    PROVE  \A at \in Places : \A i \in 1 .. Len(keys) :
              Last(at.line) = keys[i] /\ walk[at].ok => Stands(at, val[i])
<1> USE DEF Judged
<1> DEFINE T == {at \in Places : \A i \in 1 .. Len(keys) :
                                    Last(at.line) = keys[i] /\ walk[at].ok => Stands(at, val[i])}
<1>1. ASSUME NEW at \in Places,
             Len(at.line) <= rank => \A x \in Places : Len(x.line) = Len(at.line) + 1 => x \in T
      PROVE  at \in T
    <2> SUFFICES ASSUME NEW i \in 1 .. Len(keys), Last(at.line) = keys[i], walk[at].ok
                 PROVE  Stands(at, val[i])
        OBVIOUS
    <2>1. CASE End[keys[i]] # "None"
        <3>1. End[keys[i]] = (IF Ours(at) THEN "Win" ELSE "Loss")
            BY <2>1, OkIs
        <3>2. val[i] = End[keys[i]]
            BY <2>1, FixedIs
        <3>3. QED
            BY <3>1, <3>2 DEF Stands
    <2>2. ASSUME End[keys[i]] = "None", NEW k \in Range(kids[i]), NEW e \in Nat, walk[Went(at.line, keys[k], e)].ok
          PROVE  val[k] = IF Ours(at) THEN "Loss" ELSE "Win"
        <3> DEFINE x == Went(at.line, keys[k], e)
        <3>1. k \in 1 .. Len(keys) /\ keys[k] \in Boards
            BY RowIs
        <3>2. x \in Places /\ Len(x.line) = Len(at.line) + 1 /\ Last(x.line) = keys[k] /\ Ours(x) = ~Ours(at)
            <4>1. x \in Places /\ Len(x.line) = Len(at.line) + 1 /\ Last(x.line) = keys[k]
                <5> DEFINE y == keys[k]
                <5>1. y \in Boards
                    BY <3>1
                <5> HIDE DEF y
                <5>2. Went(at.line, y, e) \in Places /\ Len(Went(at.line, y, e).line) = Len(at.line) + 1
                      /\ Last(Went(at.line, y, e).line) = y
                    BY <5>1, WentIs
                <5>3. QED
                    BY <5>2 DEF y
            <4>2. Ours(x) = ~Ours(at)
                BY <3>1, OursTurns
            <4>3. QED
                BY <4>1, <4>2
        <3>3. Len(at.line) <= rank
            BY <2>2, OkIs
        <3> HIDE DEF x
        <3>4. x \in T
            BY <1>1, <3>2, <3>3
        <3>5. walk[x].ok
            BY <2>2 DEF x
        <3>6. Stands(x, val[k])
            BY <3>1, <3>2, <3>4, <3>5
        <3>7. Ours(at) \in BOOLEAN
            BY PlaceIs
        <3>8. QED
            BY <3>2, <3>6, <3>7 DEF Stands
    <2>3. CASE End[keys[i]] = "None" /\ Ours(at)
        <3>1. PICK e \in Nat : walk[Went(at.line, plan[keys[i]], e)].ok
            BY <2>3, OkIs
        <3>2. plan[keys[i]] \in Range(Next[keys[i]])
            BY <2>3, OkIs
        <3>3. PICK k \in Range(kids[i]) : keys[k] = plan[keys[i]]
            BY <2>3, <3>2, RowIs DEF Branches
        <3>4. val[k] = "Loss"
            BY <2>2, <2>3, <3>1, <3>3
        <3>5. val[i] = "Win"
            BY <2>3, <3>4, FixedIs
        <3>6. QED
            BY <2>3, <3>5 DEF Stands
    <2>4. CASE End[keys[i]] = "None" /\ ~Ours(at)
        <3>1. ASSUME NEW k \in Range(kids[i])
              PROVE  val[k] = "Win"
            <4>1. PICK n \in 1 .. Len(Next[keys[i]]) : keys[k] = Next[keys[i]][n]
                BY <2>4, MovesIs
            <4>2. PICK e \in Nat : walk[Went(at.line, Next[keys[i]][n], e)].ok
                BY <2>4, OkIs
            <4>3. QED
                BY <2>2, <2>4, <4>1, <4>2
        <3>2. val[i] = "Loss"
            BY <2>4, <3>1, FixedIs
        <3>3. QED
            BY <2>4, <3>2 DEF Stands
    <2>5. Ours(at) \in BOOLEAN
        BY PlaceIs
    <2>6. QED
        BY <2>1, <2>3, <2>4, <2>5
<1> HIDE DEF T
<1>2. \A at \in Places : at \in T
    BY <1>1, Backwards
<1>3. QED
    BY <1>2 DEF T

-----------------------------------------------------------------------------
(* The strategy                                                            *)

(* The nodes the strategy walks over, level by level.                      *)
Levels(f) == /\ f \in [0 .. dist[1] -> SUBSET (1 .. Len(keys))] /\ f[0] = {1}
             /\ \A n \in 1 .. dist[1] : f[n] = Onward(f[n - 1])

LEMMA RootIs ==
    ASSUME Judged
    PROVE  Len(keys) \in Nat /\ 1 \in 1 .. Len(keys) /\ dist[1] \in Nat /\ keys[1] = BoardAt[root]
<1>1. keys \in Seq(Boards) /\ keys # <<>> /\ keys[1] = BoardAt[root] /\ dist \in [1 .. Len(keys) -> Nat]
    BY DEF Judged, Complete, RegionShape, Distinct
<1>2. Len(keys) \in Nat /\ 1 \in 1 .. Len(keys)
    BY <1>1
<1>3. QED
    BY <1>1, <1>2

LEMMA OnwardIs ==
    ASSUME Judged, NEW w, w \subseteq 1 .. Len(keys)
    PROVE  /\ w \subseteq Onward(w) /\ Onward(w) \subseteq 1 .. Len(keys)
           /\ \A i \in w : End[keys[i]] = "None" =>
                 IF val[i] = "Win" THEN Chosen(i) \in Onward(w) ELSE Range(kids[i]) \subseteq Onward(w)
           /\ \A k \in Onward(w) : k \notin w =>
                 \E i \in w : End[keys[i]] = "None" /\ (IF val[i] = "Win" THEN k = Chosen(i) ELSE k \in Range(kids[i]))
<1> DEFINE F(i) == IF End[keys[i]] # "None" THEN {} ELSE IF val[i] = "Win" THEN {Chosen(i)} ELSE Range(kids[i])
<1>1. Onward(w) = w \cup UNION {F(i) : i \in w}
    BY DEF Onward
<1>2. \A i \in 1 .. Len(keys) : F(i) \subseteq 1 .. Len(keys)
    <2> SUFFICES ASSUME NEW i \in 1 .. Len(keys) PROVE F(i) \subseteq 1 .. Len(keys)
        OBVIOUS
    <2>1. Range(kids[i]) \subseteq 1 .. Len(keys)
        BY RowIs DEF Judged
    <2>2. End[keys[i]] = "None" /\ val[i] = "Win" => Chosen(i) \in Range(kids[i])
        BY ChosenIs
    <2>3. End[keys[i]] \in {"Win", "Loss", "Draw", "None"}
        BY RowIs DEF Judged
    <2>4. QED
        BY <2>1, <2>2, <2>3
<1>3. \A i \in w : End[keys[i]] = "None" => F(i) = IF val[i] = "Win" THEN {Chosen(i)} ELSE Range(kids[i])
    OBVIOUS
<1>4. \A i \in w : \A k \in F(i) : End[keys[i]] = "None" /\ (IF val[i] = "Win" THEN k = Chosen(i) ELSE k \in Range(kids[i]))
    OBVIOUS
<1> HIDE DEF F
<1>5. w \subseteq Onward(w) /\ Onward(w) \subseteq 1 .. Len(keys)
    BY <1>1, <1>2
<1>6. \A i \in w : F(i) \subseteq Onward(w)
    BY <1>1
<1>7. \A i \in w : End[keys[i]] = "None" =>
         IF val[i] = "Win" THEN Chosen(i) \in Onward(w) ELSE Range(kids[i]) \subseteq Onward(w)
    BY <1>3, <1>6
<1>8. \A k \in Onward(w) : k \notin w => \E i \in w : k \in F(i)
    BY <1>1
<1>9. \A k \in Onward(w) : k \notin w =>
         \E i \in w : End[keys[i]] = "None" /\ (IF val[i] = "Win" THEN k = Chosen(i) ELSE k \in Range(kids[i]))
    BY <1>4, <1>8
<1>10. QED
    BY <1>5, <1>7, <1>9

LEMMA WalkedIs ==
    ASSUME Judged
    PROVE  \E f : Levels(f) /\ Walked = f[dist[1]]
<1> DEFINE N == dist[1]
           V == SUBSET (1 .. Len(keys))
           one == {1}
           E(f, i) == IF i = 0 THEN one ELSE With(f[i - 1], Onward)
           after == CHOOSE f : f = [i \in 0 .. N |-> E(f, i)]
           g == [x \in (1 .. N) \X V |-> Onward(x[2])]
<1>0. Len(keys) \in Nat /\ 1 \in 1 .. Len(keys)
    BY RootIs
<1>1. \A w \in V : Onward(w) \in V
    BY OnwardIs
<1>2. Walked = after[N]
    BY DEF Walked
<1>3. \A f, i : E(f, i) = IF i = 0 THEN one ELSE Onward(f[i - 1])
    BY DEF With
<1>4. N \in Nat /\ one \in V
    BY <1>0, RootIs
<1>5. \A f : Levels(f) <=> f \in [0 .. N -> V] /\ f[0] = one /\ \A n \in 1 .. N : f[n] = Onward(f[n - 1])
    BY DEF Levels
<1> HIDE DEF E, V, N, one
<1>6. g \in [(1 .. N) \X V -> V] /\ \A n \in 1 .. N : \A w \in V : g[<<n, w>>] = Onward(w)
    BY <1>1
<1> HIDE DEF g
<1>7. PICK f \in [0 .. N -> V] : f[0] = one /\ \A n \in 1 .. N : f[n] = g[<<n, f[n - 1]>>]
    <2>1. \E f : Chained(N, V, one, g, f)
        BY <1>4, <1>6, Chain
    <2>2. QED
        BY <2>1 DEF Chained
<1>8. \A n \in 1 .. N : f[n] = Onward(f[n - 1])
    <2> SUFFICES ASSUME NEW n \in 1 .. N PROVE f[n] = Onward(f[n - 1])
        OBVIOUS
    <2>1. f[n - 1] \in V
        BY <1>4
    <2>2. QED
        BY <1>6, <1>7, <2>1
<1>9. f = [i \in 0 .. N |-> E(f, i)]
    <2>1. \A i \in 0 .. N : f[i] = E(f, i)
        BY <1>3, <1>4, <1>7, <1>8
    <2>2. QED
        BY <2>1
<1>10. after = [i \in 0 .. N |-> E(after, i)]
    BY <1>9
<1> HIDE DEF after
<1>11. after[0] = one /\ \A n \in 1 .. N : after[n] = Onward(after[n - 1])
    <2>1. \A i \in 0 .. N : after[i] = E(after, i)
        BY <1>10
    <2>2. QED
        BY <1>3, <1>4, <2>1
<1> DEFINE S == {n \in 0 .. N : after[n] \in V}
<1>12. 0 \in S /\ \A n \in 1 .. N : n - 1 \in S => n \in S
    <2>1. 0 \in S
        BY <1>4, <1>11
    <2>2. ASSUME NEW n \in 1 .. N, n - 1 \in S PROVE n \in S
        <3>1. after[n - 1] \in V /\ after[n] = Onward(after[n - 1])
            BY <1>11, <2>2
        <3>2. after[n] \in V
            BY <1>1, <3>1
        <3>3. QED
            BY <1>4, <3>2
    <2>3. QED
        BY <2>1, <2>2
<1> HIDE DEF S
<1>13. \A n \in 0 .. N : n \in S
    BY <1>4, <1>12, Passed
<1>14. after \in [0 .. N -> V]
    BY <1>10, <1>13 DEF S
<1>15. QED
    BY <1>2, <1>5, <1>11, <1>14 DEF N

(* Every level holds the ones before it, and all are walked.               *)
LEMMA LevelsIs ==
    ASSUME Judged, NEW f, Levels(f), Walked = f[dist[1]]
    PROVE  /\ dist[1] \in Nat /\ Walked \subseteq 1 .. Len(keys)
           /\ \A n \in 0 .. dist[1] : f[n] \subseteq Walked /\ f[n] \subseteq 1 .. Len(keys)
<1> DEFINE N == dist[1]
           S == {m \in 0 .. N : f[N - m] \subseteq f[N]}
<1>1. N \in Nat
    BY RootIs
<1>2. \A n \in 0 .. N : f[n] \subseteq 1 .. Len(keys)
    BY DEF Levels
<1>3. 0 \in S
    BY <1>1
<1>4. ASSUME NEW m \in 1 .. N, m - 1 \in S
      PROVE  m \in S
    <2>1. N - m \in 0 .. N /\ N - (m - 1) \in 1 .. N /\ (N - (m - 1)) - 1 = N - m
        BY <1>1
    <2>2. f[N - (m - 1)] \subseteq f[N]
        BY <1>4
    <2>3. f[N - (m - 1)] = Onward(f[N - m])
        BY <2>1 DEF Levels
    <2>4. f[N - m] \subseteq Onward(f[N - m])
        BY <1>2, <2>1, OnwardIs
    <2>5. f[N - m] \subseteq f[N]
        BY <2>2, <2>3, <2>4
    <2>6. QED
        BY <1>1, <2>5
<1> HIDE DEF S
<1>5. \A m \in 0 .. N : m \in S
    BY <1>1, <1>3, <1>4, Passed
<1>6. ASSUME NEW n \in 0 .. N PROVE f[n] \subseteq f[N]
    <2>1. N - n \in 0 .. N /\ N - (N - n) = n
        BY <1>1
    <2>2. QED
        BY <1>5, <2>1 DEF S
<1>7. N \in 0 .. N
    BY <1>1
<1>8. QED
    BY <1>1, <1>2, <1>6, <1>7

(* The strategy answers every win walked over by the child chosen there.   *)
LEMMA StrategyIs ==
    ASSUME Judged
    PROVE  /\ \A i \in Walked : val[i] = "Win" /\ End[keys[i]] = "None" =>
                 keys[i] \in DOMAIN BuiltStrategy /\ BuiltStrategy[keys[i]] = keys[Chosen(i)]
           /\ \A b \in DOMAIN BuiltStrategy :
                 \E i \in Walked : keys[i] = b /\ val[i] = "Win" /\ End[keys[i]] = "None"
<1>1. Walked \subseteq 1 .. Len(keys)
    <2>1. PICK f : Levels(f) /\ Walked = f[dist[1]]
        BY WalkedIs
    <2>2. QED
        BY <2>1, LevelsIs
<1> DEFINE needs == {i \in Walked : val[i] = "Win" /\ End[keys[i]] = "None"}
           B == {keys[i] : i \in needs}
<1>2. BuiltStrategy = [b \in B |-> keys[Chosen(NodeOf(keys, b))]]
    BY DEF BuiltStrategy
<1>3. ASSUME NEW i \in Walked, val[i] = "Win", End[keys[i]] = "None"
      PROVE  keys[i] \in DOMAIN BuiltStrategy /\ BuiltStrategy[keys[i]] = keys[Chosen(i)]
    <2>1. keys[i] \in B
        BY <1>3
    <2>2. NodeOf(keys, keys[i]) = i
        BY <1>1, KeyIs DEF Judged
    <2> HIDE DEF B
    <2>3. QED
        BY <1>2, <2>1, <2>2
<1>4. ASSUME NEW b \in DOMAIN BuiltStrategy
      PROVE  \E i \in Walked : keys[i] = b /\ val[i] = "Win" /\ End[keys[i]] = "None"
    <2>1. b \in B
        BY <1>2
    <2>2. QED
        BY <2>1
<1>5. QED
    BY <1>3, <1>4

(* The lines the strategy allows: every step of them is nearer to the end, *)
(* so that none goes past the bound and none repeats a board.              *)
OnPlan(f, at, i) ==
    /\ i \in 1 .. Len(keys) /\ Last(at.line) = keys[i] /\ Stands(at, val[i])
    /\ Len(at.line) - 1 + dist[i] <= dist[1] /\ i \in f[Len(at.line) - 1]
    /\ \A y \in Range(at.line) : \E m \in 1 .. Len(keys) : keys[m] = y /\ dist[m] >= dist[i]

LEMMA PlanGoesOn ==
    ASSUME Judged, NEW f, Levels(f), NEW at \in Places, NEW i, OnPlan(f, at, i), NEW k \in 1 .. Len(keys),
           dist[k] + 1 <= dist[i], val[k] = (IF Ours(at) THEN "Loss" ELSE "Win"),
           k \in Onward(f[Len(at.line) - 1])
    PROVE  /\ keys[k] \notin Range(at.line) /\ Len(at.line) <= dist[1]
           /\ \A e \in Nat : OnPlan(f, Went(at.line, keys[k], e), k)
<1> DEFINE L == Len(at.line)
<1>1. /\ i \in 1 .. Len(keys) /\ L - 1 + dist[i] <= dist[1] /\ i \in f[L - 1]
      /\ \A y \in Range(at.line) : \E m \in 1 .. Len(keys) : keys[m] = y /\ dist[m] >= dist[i]
    BY DEF OnPlan
<1>2. L \in Nat /\ L # 0 /\ Ours(at) \in BOOLEAN
    BY PlaceIs
<1> HIDE DEF L
<1>3. dist[1] \in Nat /\ \A m \in 1 .. Len(keys) : dist[m] \in Nat
    BY RootIs DEF Judged
<1>4. L <= dist[1] /\ L + dist[k] <= dist[1]
    BY <1>1, <1>2, <1>3
<1>5. keys[k] \notin Range(at.line)
    <2> SUFFICES ASSUME keys[k] \in Range(at.line) PROVE FALSE
        OBVIOUS
    <2>1. PICK m \in 1 .. Len(keys) : keys[m] = keys[k] /\ dist[m] >= dist[i]
        BY <1>1
    <2>2. m = k
        BY <2>1, KeyIs DEF Judged
    <2>3. QED
        BY <1>1, <1>3, <2>1, <2>2
<1>6. ASSUME NEW e \in Nat
      PROVE  OnPlan(f, Went(at.line, keys[k], e), k)
    <2> DEFINE y == keys[k]   x == Went(at.line, y, e)
    <2>1. y \in Boards
        BY KeyIs DEF Judged
    <2> HIDE DEF y
    <2>2. x \in Places /\ Len(x.line) = L + 1 /\ Last(x.line) = y /\ Range(x.line) = Range(at.line) \cup {y}
        BY <2>1, WentIs DEF L
    <2>3. Ours(x) = ~Ours(at)
        BY <2>1, OursTurns
    <2> HIDE DEF x
    <2>4. Stands(x, val[k])
        BY <1>2, <2>3 DEF Stands
    <2>5. Len(x.line) - 1 = L /\ Len(x.line) - 1 + dist[k] <= dist[1]
        BY <1>2, <1>4, <2>2
    <2>6. f[L] = Onward(f[L - 1])
        BY <1>2, <1>3, <1>4 DEF Levels
    <2>7. k \in f[Len(x.line) - 1]
        BY <2>5, <2>6 DEF L
    <2>8. ASSUME NEW z \in Range(x.line)
          PROVE  \E m \in 1 .. Len(keys) : keys[m] = z /\ dist[m] >= dist[k]
        <3>1. CASE z = y
            BY <1>3, <3>1 DEF y
        <3>2. CASE z \in Range(at.line)
            <4>1. PICK m \in 1 .. Len(keys) : keys[m] = z /\ dist[m] >= dist[i]
                BY <1>1, <3>2
            <4>2. dist[m] >= dist[k]
                BY <1>1, <1>3, <4>1
            <4>3. QED
                BY <4>1, <4>2
        <3>3. QED
            BY <2>2, <3>1, <3>2
    <2>9. OnPlan(f, x, k)
        BY <2>2, <2>4, <2>5, <2>7, <2>8 DEF OnPlan, y
    <2>10. QED
        BY <2>9 DEF x, y
<1>7. QED
    BY <1>4, <1>5, <1>6 DEF L

(* A replay of the replies fails for want of budget, or at one of them.    *)
LEMMA CoveredFails ==
    ASSUME NEW at \in Places, NEW walk, Given(walk, at), NEW moves \in Seq(Boards), quota \in Nat,
           \A n \in 1 .. Len(moves) :
              /\ moves[n] \notin Range(at.line)
              /\ \A e \in Nat : walk[Went(at.line, moves[n], e)].ok \/ walk[Went(at.line, moves[n], e)].aborted
    PROVE  Covered(walk, at, moves).ok \/ Covered(walk, at, moves).aborted
<1>1. PICK f : Covers(walk, at, moves, f) /\ Covered(walk, at, moves) = f[Len(moves)]
    BY CoveredIs
<1>2. Len(moves) \in Nat /\ f \in [0 .. Len(moves) -> Walks]
    BY <1>1 DEF Covers
<1> DEFINE S == {n \in 0 .. Len(moves) : f[n].ok \/ f[n].aborted}
<1>3. 0 \in S
    <2>1. f[0] = Walk(TRUE, at.evals, FALSE)
        BY <1>1 DEF Covers
    <2>2. f[0].ok
        BY <2>1 DEF Walk
    <2>3. QED
        BY <1>2, <2>2
<1>4. ASSUME NEW n \in 1 .. Len(moves), n - 1 \in S
      PROVE  n \in S
    <2> DEFINE w == f[n - 1]
    <2>1. w \in Walks /\ (w.ok \/ w.aborted) /\ f[n] = Cover(walk, at, moves, n, w)
        BY <1>1, <1>2, <1>4 DEF Covers
    <2> HIDE DEF w
    <2>2. w.evals + 1 \in Nat
        BY <2>1 DEF Walks
    <2>3. CASE ~w.ok
        BY <1>2, <2>1, <2>3 DEF Cover
    <2>4. CASE w.ok /\ w.evals + 1 >= quota
        <3>1. f[n] = Walk(FALSE, w.evals + 1, TRUE)
            BY <2>1, <2>4 DEF Cover
        <3>2. f[n].aborted = TRUE
            BY <3>1 DEF Walk
        <3>3. QED
            BY <1>2, <3>2
    <2>5. CASE w.ok /\ ~ (w.evals + 1 >= quota)
        <3>1. f[n] = walk[Went(at.line, moves[n], w.evals + 1)]
            BY <2>1, <2>5 DEF Cover
        <3>2. f[n].ok \/ f[n].aborted
            BY <2>2, <3>1
        <3>3. QED
            BY <1>2, <3>2
    <2>6. QED
        BY <2>3, <2>4, <2>5
<1> HIDE DEF S
<1>5. \A n \in 0 .. Len(moves) : n \in S
    BY <1>2, <1>3, <1>4, Passed
<1>6. QED
    BY <1>1, <1>2, <1>5 DEF S

LEMMA PlanHolds ==
    ASSUME Judged, quota \in Nat, NEW f, Levels(f), Walked = f[dist[1]],
           NEW walk, Walking(walk, BuiltStrategy, dist[1])
    PROVE  \A at \in Places : (\E i : OnPlan(f, at, i)) => walk[at].ok \/ walk[at].aborted
<1> DEFINE T == {at \in Places : (\E i : OnPlan(f, at, i)) => walk[at].ok \/ walk[at].aborted}
           plan == BuiltStrategy
           rank == dist[1]
<1>0. rank \in Nat
    BY RootIs
<1> HIDE DEF plan, rank
<1>1. ASSUME NEW at \in Places,
             Len(at.line) <= rank => \A x \in Places : Len(x.line) = Len(at.line) + 1 => x \in T
      PROVE  at \in T
    <2> SUFFICES ASSUME NEW i, OnPlan(f, at, i) PROVE walk[at].ok \/ walk[at].aborted
        OBVIOUS
    <2>1. /\ i \in 1 .. Len(keys) /\ Last(at.line) = keys[i] /\ Stands(at, val[i])
          /\ i \in f[Len(at.line) - 1] /\ Len(at.line) - 1 + dist[i] <= dist[1]
        BY DEF OnPlan
    <2>2. walk[at] = Visited(walk, plan, rank, at) /\ Given(walk, at)
        BY WalkingIs DEF plan, rank
    <2>3. /\ Len(at.line) \in Nat \ {0} /\ at.evals \in Nat /\ Ours(at) \in BOOLEAN
          /\ Next[keys[i]] \in Seq(Boards) /\ Len(Next[keys[i]]) \in Nat
          /\ Searched(plan, at) \in Nat
          /\ End[keys[i]] \in {"Win", "Loss", "Draw", "None"}
        BY <2>1, PlaceIs
    <2>4. dist[i] \in Nat /\ dist[1] \in Nat
        BY <2>1, RootIs DEF Judged
    <2>5. CASE End[keys[i]] # "None"
        <3>1. val[i] = End[keys[i]]
            BY <2>1, <2>5, FixedIs DEF Judged
        <3>2. walk[at] = Walk(End[keys[i]] = (IF Ours(at) THEN "Win" ELSE "Loss"), at.evals, FALSE)
            BY <2>1, <2>2, <2>5 DEF Visited
        <3>3. End[keys[i]] = (IF Ours(at) THEN "Win" ELSE "Loss")
            BY <2>1, <3>1 DEF Stands
        <3>4. walk[at] = Walk(TRUE, at.evals, FALSE)
            BY <3>2, <3>3
        <3>5. QED
            BY <3>4 DEF Walk
    <2>6. ASSUME End[keys[i]] = "None", NEW k \in 1 .. Len(keys), dist[k] + 1 <= dist[i],
                 val[k] = (IF Ours(at) THEN "Loss" ELSE "Win"), k \in Onward(f[Len(at.line) - 1])
          PROVE  /\ keys[k] \notin Range(at.line) /\ Len(at.line) <= rank
                 /\ \A e \in Nat : walk[Went(at.line, keys[k], e)].ok \/ walk[Went(at.line, keys[k], e)].aborted
        <3>1. /\ keys[k] \notin Range(at.line) /\ Len(at.line) <= rank
              /\ \A e \in Nat : OnPlan(f, Went(at.line, keys[k], e), k)
            BY <2>6, PlanGoesOn DEF rank
        <3>2. ASSUME NEW e \in Nat
              PROVE  walk[Went(at.line, keys[k], e)].ok \/ walk[Went(at.line, keys[k], e)].aborted
            <4> DEFINE y == keys[k]   x == Went(at.line, y, e)
            <4>1. y \in Boards /\ OnPlan(f, x, k)
                BY <3>1, KeyIs DEF Judged
            <4> HIDE DEF y
            <4>2. x \in Places /\ Len(x.line) = Len(at.line) + 1
                BY <4>1, WentIs
            <4> HIDE DEF x
            <4>3. x \in T
                BY <1>1, <3>1, <4>2
            <4>4. walk[x].ok \/ walk[x].aborted
                BY <4>1, <4>3
            <4>5. QED
                BY <4>4 DEF x, y
        <3>3. QED
            BY <3>1, <3>2
    <2>7. f[Len(at.line) - 1] \subseteq 1 .. Len(keys) /\ f[Len(at.line) - 1] \subseteq Walked
        <3>1. Len(at.line) - 1 \in 0 .. dist[1]
            BY <2>1, <2>3, <2>4
        <3>2. QED
            BY <3>1, LevelsIs
    <2> DEFINE w == f[Len(at.line) - 1]
    <2>8. IF End[keys[i]] = "None" THEN IF val[i] = "Win" THEN Chosen(i) \in Onward(w) ELSE Range(kids[i]) \subseteq Onward(w) ELSE TRUE
        BY <2>1, <2>7, OnwardIs
    <2>9. CASE End[keys[i]] = "None" /\ ~Ours(at)
        <3>1. val[i] = "Loss"
            BY <2>1, <2>9 DEF Stands
        <3>2. ASSUME NEW k \in Range(kids[i])
              PROVE  /\ keys[k] \notin Range(at.line) /\ Len(at.line) <= rank
                     /\ \A e \in Nat : walk[Went(at.line, keys[k], e)].ok \/ walk[Went(at.line, keys[k], e)].aborted
            <4>1. k \in 1 .. Len(keys)
                BY <2>1, RowIs DEF Judged
            <4>2. val[k] = "Win"
                BY <2>1, <2>9, <3>1, FixedIs DEF Judged
            <4>3. dist[k] + 1 <= dist[i]
                <5>1. dist[i] >= 1 + dist[k] /\ dist[k] \in Nat
                    BY <2>1, <2>9, <3>1, <4>1, MeasuredIs DEF Judged
                <5>2. QED
                    BY <2>4, <5>1
            <4>4. k \in Onward(w)
                BY <2>8, <2>9, <3>1
            <4>5. QED
                BY <2>6, <2>9, <4>1, <4>2, <4>3, <4>4
        <3> DEFINE moves == Next[keys[i]]
        <3>3. \A n \in 1 .. Len(moves) :
                 /\ moves[n] \notin Range(at.line)
                 /\ \A e \in Nat : walk[Went(at.line, moves[n], e)].ok \/ walk[Went(at.line, moves[n], e)].aborted
            <4> SUFFICES ASSUME NEW n \in 1 .. Len(moves)
                         PROVE  /\ moves[n] \notin Range(at.line)
                                /\ \A e \in Nat : walk[Went(at.line, moves[n], e)].ok \/ walk[Went(at.line, moves[n], e)].aborted
                OBVIOUS
            <4>1. kids[i][n] \in Range(kids[i]) /\ keys[kids[i][n]] = moves[n]
                BY <2>1, <2>9, MovesIs DEF Judged
            <4>2. QED
                BY <3>2, <4>1
        <3>4. Len(at.line) <= rank
            <4>1. Range(kids[i]) # {}
                BY <2>1, <2>9, RowIs DEF Judged
            <4>2. QED
                BY <3>2, <4>1
        <3>5. walk[at] = Covered(walk, at, moves)
            <4>1. ~ (Len(at.line) > rank) /\ ~ (End[keys[i]] # "None")
                BY <1>0, <2>3, <2>9, <3>4
            <4>2. QED
                BY <2>1, <2>2, <2>9, <4>1 DEF Visited
        <3> HIDE DEF moves
        <3>6. moves \in Seq(Boards)
            BY <2>3 DEF moves
        <3>7. QED
            BY <2>2, <3>3, <3>5, <3>6, CoveredFails
    <2>10. CASE End[keys[i]] = "None" /\ Ours(at)
        <3>1. val[i] = "Win"
            BY <2>1, <2>10 DEF Stands
        <3> DEFINE c == Chosen(i)   tried == Searched(plan, at)   M == Len(Next[keys[i]])
        <3>2. c \in Range(kids[i]) /\ val[c] = "Loss" /\ dist[c] + 1 = dist[i]
            BY <2>1, <2>10, <3>1, ChosenIs
        <3>3. c \in 1 .. Len(keys) /\ keys[c] \in Range(Next[keys[i]]) /\ keys[c] \in Boards
            BY <2>1, <2>10, <3>2, MovesIs, KeyIs DEF Judged
        <3>4. c \in Onward(w)
            BY <2>8, <2>10, <3>1
        <3> HIDE DEF c
        <3>5. dist[c] \in Nat /\ dist[c] + 1 <= dist[i]
            BY <2>4, <3>2, <3>3 DEF Judged
        <3>6. /\ keys[c] \notin Range(at.line) /\ Len(at.line) <= rank
              /\ \A e \in Nat : walk[Went(at.line, keys[c], e)].ok \/ walk[Went(at.line, keys[c], e)].aborted
            BY <2>6, <2>10, <3>2, <3>3, <3>4, <3>5
        <3>7. keys[i] \in DOMAIN plan /\ plan[keys[i]] = keys[c]
            BY <2>1, <2>7, <2>10, <3>1, StrategyIs DEF plan, c
        <3>8. tried <= M
            BY <2>1, <2>3, <3>3, <3>7, IndexIs DEF Searched
        <3>9. walk[at] = IF at.evals + tried >= quota /\ quota <= at.evals + M THEN Walk(FALSE, quota, TRUE)
                         ELSE walk[Went(at.line, keys[c], at.evals + tried)]
            <4>1. ~ (Len(at.line) > rank) /\ ~ (End[keys[i]] # "None") /\ ~ (keys[i] \notin DOMAIN plan)
                  /\ ~ (tried > M) /\ ~ (plan[keys[i]] \in Range(at.line))
                BY <1>0, <2>3, <2>10, <3>6, <3>7, <3>8
            <4> HIDE DEF tried, M
            <4>2. Visited(walk, plan, rank, at) =
                    IF at.evals + tried >= quota /\ quota <= at.evals + M THEN Walk(FALSE, quota, TRUE)
                    ELSE walk[Went(at.line, plan[keys[i]], at.evals + tried)]
                BY <2>1, <2>10, <4>1 DEF Visited, tried, M
            <4>3. QED
                BY <2>2, <3>7, <4>2
        <3>10. Walk(FALSE, quota, TRUE).aborted
            BY DEF Walk
        <3>11. at.evals + tried \in Nat
            BY <2>3
        <3> HIDE DEF tried, M
        <3>12. QED
            BY <3>6, <3>9, <3>10, <3>11
    <2>11. QED
        BY <2>3, <2>5, <2>9, <2>10
<1> HIDE DEF T
<1>2. \A at \in Places : at \in T
    BY <1>0, <1>1, Backwards
<1>3. QED
    BY <1>2 DEF T

LEMMA Certified ==
    ASSUME Judged, quota \in Nat, val[1] \in Decisive, NEW e \in Nat
    PROVE  Verified(BuiltStrategy, dist[1], e).ok \/ Verified(BuiltStrategy, dist[1], e).aborted
<1> DEFINE rank == dist[1]   line == <<keys[1]>>   at == [line |-> line, evals |-> e]
<1>1. rank \in Nat /\ 1 \in 1 .. Len(keys) /\ keys[1] \in Boards
    BY RootIs, KeyIs DEF Judged
<1>2. PICK walk : /\ Walking(walk, BuiltStrategy, rank)
                  /\ \A n : Verified(BuiltStrategy, rank, n) = walk[[line |-> <<keys[1]>>, evals |-> n]]
    BY <1>1, WalkIs
<1>3. PICK f : Levels(f) /\ Walked = f[dist[1]]
    BY WalkedIs
<1>4. line \in Seq(Boards) /\ Len(line) = 1 /\ line # <<>> /\ Last(line) = keys[1] /\ Range(line) = {keys[1]}
    BY <1>1 DEF Last, Range
<1> HIDE DEF line
<1>5. at \in Places /\ at.line = line
    BY <1>4 DEF Places
<1>6. OnPlan(f, at, 1)
    <2>1. Ours(at) = (val[1] = "Win")
        <3>1. Ours(at) = ((val[1] = "Win") = (1 % 2 = 1))
            BY <1>4, <1>5 DEF Ours
        <3>2. 1 % 2 = 1
            OBVIOUS
        <3>3. QED
            BY <3>1, <3>2
    <2>2. Stands(at, val[1])
        BY <2>1 DEF Stands, Decisive
    <2>3. 1 \in f[0]
        BY <1>3 DEF Levels
    <2>4. Len(at.line) - 1 = 0 /\ 0 + dist[1] <= dist[1] /\ dist[1] >= dist[1]
        BY <1>1, <1>4, <1>5
    <2> HIDE DEF at
    <2>5. QED
        BY <1>1, <1>4, <1>5, <2>2, <2>3, <2>4 DEF OnPlan
<1>7. Verified(BuiltStrategy, rank, e) = walk[at]
    BY <1>2 DEF line
<1> HIDE DEF at
<1>8. walk[at].ok \/ walk[at].aborted
    BY <1>2, <1>3, <1>5, <1>6, PlanHolds
<1>9. QED
    BY <1>7, <1>8

(* A strategy that gives the win away on one board it comes to is refused: *)
(* the replay comes there along a line on which nothing has changed.       *)
LEMMA Strict ==
    ASSUME Judged, quota \in Nat, val[1] \in Decisive, NEW e \in Nat,
           NEW b \in DOMAIN BuiltStrategy, NEW j \in DOMAIN kids[NodeOf(keys, b)],
           val[kids[NodeOf(keys, b)][j]] # "Loss"
    PROVE  ~Verified([BuiltStrategy EXCEPT ![b] = Next[b][j]], dist[1], e).ok
<1> DEFINE rank == dist[1]   line == <<keys[1]>>   start == [line |-> line, evals |-> e]
           plan == [BuiltStrategy EXCEPT ![b] = Next[b][j]]
<1>1. rank \in Nat /\ 1 \in 1 .. Len(keys) /\ keys[1] \in Boards
    BY RootIs, KeyIs DEF Judged
<1>2. PICK walk : /\ Walking(walk, plan, rank)
                  /\ \A n : Verified(plan, rank, n) = walk[[line |-> <<keys[1]>>, evals |-> n]]
    <2> HIDE DEF plan
    <2>1. QED
        BY <1>1, WalkIs
<1>3. PICK f : Levels(f) /\ Walked = f[dist[1]]
    BY WalkedIs
<1>4. line \in Seq(Boards) /\ line # <<>> /\ Last(line) = keys[1]
    BY <1>1 DEF Last
<1> HIDE DEF line
<1>5. start \in Places /\ start.line = line
    BY <1>4 DEF Places
<1>6. Verified(plan, rank, e) = walk[start]
    BY <1>2 DEF line
<1> HIDE DEF start
<1>7. SUFFICES ASSUME walk[start].ok PROVE FALSE
    BY <1>6
<1>8. PICK o \in Walked : keys[o] = b /\ val[o] = "Win" /\ End[b] = "None"
    BY StrategyIs
<1>9. Walked \subseteq 1 .. Len(keys)
    BY <1>3, LevelsIs
<1>10. NodeOf(keys, b) = o /\ b \in Boards /\ o \in 1 .. Len(keys)
    BY <1>8, <1>9, KeyIs DEF Judged
<1>11. plan[b] = Next[b][j] /\ \A y \in DOMAIN plan : y # b => plan[y] = BuiltStrategy[y]
    OBVIOUS
<1> HIDE DEF plan
<1>12. \A m \in 1 .. Len(keys) : dist[m] \in Nat
    BY DEF Judged
(* The boards accepted above it.                                           *)
<1> DEFINE Reached(i) == \E at \in Places : Last(at.line) = keys[i] /\ walk[at].ok
           S == {n \in 0 .. rank : \A i \in f[n] : val[i] \in Decisive /\ (dist[i] >= dist[o] => Reached(i))}
<1>13. 0 \in S
    <2>1. f[0] = {1}
        BY <1>3 DEF Levels
    <2>2. Reached(1)
        BY <1>4, <1>5, <1>7
    <2> HIDE DEF Reached
    <2>3. QED
        BY <1>1, <2>1, <2>2
<1>14. ASSUME NEW n \in 1 .. rank, n - 1 \in S
       PROVE  n \in S
    <2> SUFFICES ASSUME NEW k \in f[n] PROVE val[k] \in Decisive /\ (dist[k] >= dist[o] => Reached(k))
        BY <1>1
    <2> DEFINE w == f[n - 1]
    <2>1. w \subseteq 1 .. Len(keys) /\ w \subseteq Walked /\ f[n] = Onward(w)
        <3>1. n - 1 \in 0 .. dist[1]
            BY <1>1
        <3>2. QED
            BY <1>3, <3>1, LevelsIs DEF Levels
    <2>2. \A i \in w : val[i] \in Decisive /\ (dist[i] >= dist[o] => Reached(i))
        BY <1>14
    <2> HIDE DEF w
    <2>3. k \in 1 .. Len(keys)
        BY <2>1, OnwardIs
    <2>4. CASE k \in w
        BY <2>2, <2>4
    <2>5. CASE k \notin w
        <3>1. PICK i \in w : End[keys[i]] = "None" /\ (IF val[i] = "Win" THEN k = Chosen(i) ELSE k \in Range(kids[i]))
            BY <2>1, <2>5, OnwardIs
        <3>2. i \in 1 .. Len(keys) /\ i \in Walked
            BY <2>1
        <3>3. ASSUME val[i] = "Win" PROVE k \in Range(kids[i]) /\ dist[k] + 1 = dist[i]
            BY <3>1, <3>2, <3>3, ChosenIs
        <3>4. ASSUME val[i] = "Loss" PROVE k \in Range(kids[i]) /\ dist[k] + 1 <= dist[i]
            <4>1. k \in Range(kids[i])
                BY <3>1, <3>4
            <4>2. dist[i] >= 1 + dist[k]
                BY <3>1, <3>2, <3>4, <4>1, MeasuredIs DEF Judged
            <4>3. QED
                BY <1>12, <2>3, <3>2, <4>1, <4>2
        <3>5. ASSUME NEW at \in Places, Last(at.line) = keys[i], walk[at].ok, val[i] = "Win", dist[i] > dist[o]
              PROVE  Reached(k)
            <4>1. Ours(at)
                <5>1. Stands(at, val[i])
                    BY <1>1, <1>2, <3>2, <3>5, WalkSound
                <5>2. QED
                    BY <3>5, <5>1 DEF Stands
            <4>2. keys[i] \in DOMAIN plan /\ \E x \in Nat : walk[Went(at.line, plan[keys[i]], x)].ok
                BY <1>1, <1>2, <3>1, <3>5, <4>1, OkIs
            <4>3. keys[i] # b
                <5>1. SUFFICES ASSUME keys[i] = b PROVE FALSE
                    OBVIOUS
                <5>2. i = o
                    BY <1>10, <3>2, <5>1, KeyIs DEF Judged
                <5>3. QED
                    BY <1>10, <1>12, <3>5, <5>2
            <4>4. plan[keys[i]] = keys[k]
                <5>1. plan[keys[i]] = BuiltStrategy[keys[i]]
                    BY <1>11, <4>2, <4>3
                <5>2. BuiltStrategy[keys[i]] = keys[Chosen(i)]
                    BY <3>1, <3>2, <3>5, StrategyIs
                <5>3. QED
                    BY <3>1, <3>5, <5>1, <5>2
            <4>5. PICK x \in Nat : walk[Went(at.line, keys[k], x)].ok
                BY <4>2, <4>4
            <4> DEFINE y == keys[k]
            <4>6. y \in Boards
                BY <2>3, KeyIs DEF Judged
            <4> HIDE DEF y
            <4>7. Went(at.line, y, x) \in Places /\ Last(Went(at.line, y, x).line) = y
                BY <4>6, WentIs
            <4>8. QED
                BY <4>5, <4>7 DEF y
        <3>6. ASSUME NEW at \in Places, Last(at.line) = keys[i], walk[at].ok, val[i] = "Loss"
              PROVE  Reached(k)
            <4>1. ~Ours(at)
                <5>1. Stands(at, val[i])
                    BY <1>1, <1>2, <3>2, <3>6, WalkSound
                <5>2. QED
                    BY <3>6, <5>1 DEF Stands
            <4>2. \A m \in 1 .. Len(Next[keys[i]]) : \E x \in Nat : walk[Went(at.line, Next[keys[i]][m], x)].ok
                BY <1>1, <1>2, <3>1, <3>6, <4>1, OkIs
            <4>3. PICK m \in 1 .. Len(Next[keys[i]]) : keys[k] = Next[keys[i]][m]
                BY <3>1, <3>2, <3>4, <3>6, MovesIs DEF Judged
            <4>4. PICK x \in Nat : walk[Went(at.line, keys[k], x)].ok
                BY <4>2, <4>3
            <4> DEFINE y == keys[k]
            <4>5. y \in Boards
                BY <2>3, KeyIs DEF Judged
            <4> HIDE DEF y
            <4>6. Went(at.line, y, x) \in Places /\ Last(Went(at.line, y, x).line) = y
                BY <4>5, WentIs
            <4>7. QED
                BY <4>4, <4>6 DEF y
        <3>7. val[i] = "Win" \/ val[i] = "Loss"
            BY <2>2 DEF Decisive
        <3>8. val[k] \in Decisive
            <4>1. val[i] = "Win" => val[k] = "Loss"
                BY <3>1, <3>2, ChosenIs
            <4>2. val[i] = "Loss" => val[k] = "Win"
                BY <3>1, <3>2, <3>4, FixedIs DEF Judged
            <4>3. QED
                BY <3>7, <4>1, <4>2 DEF Decisive
        <3>9. ASSUME dist[k] >= dist[o] PROVE Reached(k)
            <4>1. dist[i] > dist[o]
                <5>1. dist[k] + 1 <= dist[i]
                    BY <1>12, <2>3, <3>2, <3>3, <3>4, <3>7
                <5>2. QED
                    BY <1>10, <1>12, <2>3, <3>2, <3>9, <5>1
            <4>2. dist[i] >= dist[o]
                BY <1>10, <1>12, <3>2, <4>1
            <4>3. PICK at \in Places : Last(at.line) = keys[i] /\ walk[at].ok
                BY <2>2, <4>2
            <4>4. QED
                BY <3>5, <3>6, <3>7, <4>1, <4>3
        <3>10. QED
            BY <3>8, <3>9
    <2>6. QED
        BY <2>4, <2>5
<1> HIDE DEF S
<1>15. \A n \in 0 .. rank : n \in S
    BY <1>1, <1>13, <1>14, Passed
<1>16. rank \in S /\ o \in f[rank]
    BY <1>1, <1>3, <1>8, <1>15
<1>17. Reached(o)
    BY <1>10, <1>12, <1>16 DEF S
<1>18. PICK at \in Places : Last(at.line) = b /\ walk[at].ok
    BY <1>8, <1>17
<1>19. Ours(at)
    <2>1. Stands(at, val[o])
        BY <1>1, <1>2, <1>8, <1>10, <1>18, WalkSound
    <2>2. QED
        BY <1>8, <2>1 DEF Stands
<1>20. PICK x \in Nat : walk[Went(at.line, plan[b], x)].ok
    BY <1>1, <1>2, <1>8, <1>18, <1>19, OkIs
<1> DEFINE k == kids[o][j]   y == plan[b]   to == Went(at.line, y, x)
<1>21. k \in 1 .. Len(keys) /\ y = keys[k] /\ y \in Boards
    <2>1. j \in 1 .. Len(Next[keys[o]])
        BY <1>8, <1>10, MovesIs DEF Judged
    <2>2. k \in 1 .. Len(keys) /\ keys[k] = Next[keys[o]][j]
        BY <1>8, <1>10, <2>1, MovesIs DEF Judged
    <2>3. y = Next[keys[o]][j]
        BY <1>8, <1>11
    <2> HIDE DEF k, y
    <2>4. QED
        BY <2>2, <2>3, KeyIs DEF Judged
<1> HIDE DEF k, y
<1>22. to \in Places /\ Last(to.line) = keys[k]
    BY <1>21, WentIs
<1>23. Ours(to) = ~Ours(at)
    BY <1>21, OursTurns
<1>24. walk[to].ok
    BY <1>20 DEF y
<1> HIDE DEF to
<1>25. Stands(to, val[k])
    BY <1>1, <1>2, <1>21, <1>22, <1>24, WalkSound
<1>26. val[k] = "Loss"
    BY <1>19, <1>23, <1>25 DEF Stands
<1>27. QED
    BY <1>10, <1>26 DEF k

-----------------------------------------------------------------------------
(* The stages of the pre-phase                                             *)

Follows(p, b, c) == (\E x \in Succ[p] : BoardAt[x] = b) /\ c = CHOOSE x \in Succ[p] : BoardAt[x] = b

(* The positions along a line of boards.                                   *)
Along(line, g) ==
    /\ g \in [0 .. Len(line) -> Pos] /\ g[0] = root
    /\ \A n \in 1 .. Len(line) : Follows(g[n - 1], line[n], g[n])

LEMMA LineEndIs ==
    ASSUME NEW line \in Seq(Boards), NEW g, Along(line, g)
    PROVE  LineEnd(line) = Static[g[Len(line)]]
<1> DEFINE N == Len(line)
           B(p, i) == IF p # NoMove /\ \E c \in Succ[p] : BoardAt[c] = line[i]
                      THEN CHOOSE c \in Succ[p] : BoardAt[c] = line[i] ELSE NoMove
           E(f, i) == IF i = 0 THEN root
                      ELSE With(f[i - 1], LAMBDA p :
                              IF p # NoMove /\ \E c \in Succ[p] : BoardAt[c] = line[i]
                              THEN CHOOSE c \in Succ[p] : BoardAt[c] = line[i] ELSE NoMove)
           at == CHOOSE f : f = [i \in 0 .. N |-> E(f, i)]
<1>1. LineEnd(line) = IF at[N] = NoMove THEN NoOutcome ELSE Static[at[N]]
    BY DEF LineEnd
<1>2. \A f, i : E(f, i) = IF i = 0 THEN root ELSE B(f[i - 1], i)
    <2> SUFFICES ASSUME NEW f, NEW i PROVE E(f, i) = IF i = 0 THEN root ELSE B(f[i - 1], i)
        OBVIOUS
    <2> DEFINE w == f[i - 1]
               C == CHOOSE x \in {B(v, i) : v \in {w}} : TRUE
    <2>1. E(f, i) = IF i = 0 THEN root ELSE C
        BY DEF With
    <2> HIDE DEF B
    <2>2. {B(v, i) : v \in {w}} = {B(w, i)}
        OBVIOUS
    <2>3. C = B(w, i)
        BY <2>2
    <2> HIDE DEF C, E
    <2>4. QED
        BY <2>1, <2>3
<1>3. N \in Nat /\ g \in [0 .. N -> Pos] /\ g[0] = root
    BY DEF Along
<1>4. ASSUME NEW n \in 1 .. N PROVE g[n] = B(g[n - 1], n)
    <2>1. Follows(g[n - 1], line[n], g[n])
        BY DEF Along
    <2>2. g[n - 1] \in Pos
        BY <1>3
    <2>3. g[n - 1] # NoMove
        BY <2>2, MovesAssumption
    <2>4. QED
        BY <2>1, <2>3 DEF Follows
<1> HIDE DEF B, E, N
<1>5. g = [i \in 0 .. N |-> E(g, i)]
    <2>1. \A i \in 0 .. N : g[i] = E(g, i)
        BY <1>2, <1>3, <1>4
    <2>2. QED
        BY <1>3, <2>1
<1>6. at = [i \in 0 .. N |-> E(at, i)]
    BY <1>5
<1> HIDE DEF at
<1>7. at[0] = root /\ \A n \in 1 .. N : at[n] = B(at[n - 1], n)
    <2>1. \A i \in 0 .. N : at[i] = E(at, i)
        BY <1>6
    <2>2. QED
        BY <1>2, <1>3, <2>1
<1> DEFINE S == {n \in 0 .. N : at[n] = g[n]}
<1>8. 0 \in S
    BY <1>3, <1>7
<1>9. \A n \in 1 .. N : n - 1 \in S => n \in S
    BY <1>3, <1>4, <1>7
<1> HIDE DEF S
<1>10. \A n \in 0 .. N : n \in S
    BY <1>3, <1>8, <1>9, Passed
<1>11. at[N] = g[N] /\ g[N] \in Pos
    BY <1>3, <1>10 DEF S
<1>12. g[N] # NoMove
    BY <1>11, MovesAssumption
<1>13. QED
    BY <1>1, <1>11, <1>12 DEF N

(* A line goes on by one board.                                            *)
LEMMA AlongMore ==
    ASSUME NEW line \in Seq(Boards), NEW g, Along(line, g), NEW b \in Boards, NEW c \in Pos,
           Follows(g[Len(line)], b, c)
    PROVE  \E h : Along(Append(line, b), h) /\ h[Len(line) + 1] = c
<1> DEFINE N == Len(line)
           more == Append(line, b)
           h == [n \in 0 .. (N + 1) |-> IF n = N + 1 THEN c ELSE g[n]]
<1>1. N \in Nat /\ Len(more) = N + 1 /\ more[N + 1] = b /\ \A n \in 1 .. N : more[n] = line[n]
    OBVIOUS
<1>2. g \in [0 .. N -> Pos] /\ g[0] = root /\ \A n \in 1 .. N : Follows(g[n - 1], line[n], g[n])
    BY DEF Along
<1>3. Follows(g[N], b, c)
    OBVIOUS
<1> HIDE DEF N, more
<1>4. h \in [0 .. (N + 1) -> Pos] /\ h[N + 1] = c /\ \A n \in 0 .. N : h[n] = g[n]
    BY <1>1, <1>2
<1> HIDE DEF h
<1>5. ASSUME NEW n \in 1 .. (N + 1) PROVE Follows(h[n - 1], more[n], h[n])
    <2>1. CASE n = N + 1
        <3>1. n - 1 = N /\ N \in 0 .. N
            BY <1>1, <2>1
        <3>2. h[n - 1] = g[N] /\ more[n] = b /\ h[n] = c
            BY <1>1, <1>4, <2>1, <3>1
        <3>3. QED
            BY <1>3, <3>2
    <2>2. CASE n # N + 1
        <3>1. n \in 1 .. N /\ n \in 0 .. N /\ n - 1 \in 0 .. N
            BY <1>1, <2>2
        <3>2. h[n - 1] = g[n - 1] /\ more[n] = line[n] /\ h[n] = g[n]
            BY <1>1, <1>4, <3>1
        <3>3. QED
            BY <1>2, <3>1, <3>2
    <2>3. QED
        BY <2>1, <2>2
<1>6. h[0] = root
    BY <1>1, <1>2, <1>4
<1>7. Along(more, h) /\ h[N + 1] = c
    BY <1>1, <1>4, <1>5, <1>6 DEF Along
<1>8. QED
    BY <1>7 DEF more, N

(* The node the principal line goes on to.                                 *)
LEMMA AheadIs ==
    ASSUME Judged, NEW i \in 1 .. Len(keys), val[i] \in Decisive, End[keys[i]] = "None"
    PROVE  Ahead(i) \in Range(kids[i]) /\ val[Ahead(i)] = Flip(val[i]) /\ dist[Ahead(i)] + 1 = dist[i]
<1>1. CASE val[i] = "Win"
    <2>1. Chosen(i) \in Range(kids[i]) /\ val[Chosen(i)] = "Loss" /\ dist[Chosen(i)] + 1 = dist[i]
        BY <1>1, ChosenIs
    <2>2. QED
        BY <1>1, <2>1 DEF Ahead, Flip
<1>2. CASE val[i] = "Loss"
    <2> DEFINE far == {j \in DOMAIN kids[i] : \A m \in DOMAIN kids[i] : dist[kids[i][m]] <= dist[kids[i][j]]}
               n == Least(far)
    <2>1. PICK k \in Range(kids[i]) : dist[i] = 1 + dist[k]
        BY <1>2, MeasuredIs DEF Judged
    <2>2. \A k2 \in Range(kids[i]) : dist[i] >= 1 + dist[k2]
        BY <1>2, MeasuredIs DEF Judged
    <2>3. dist[i] \in Nat /\ \A k2 \in Range(kids[i]) : dist[k2] \in Nat
        BY RowIs DEF Judged
    <2>4. PICK j \in DOMAIN kids[i] : kids[i][j] = k
        BY DEF Range
    <2>5. \A m \in DOMAIN kids[i] : kids[i][m] \in Range(kids[i])
        BY DEF Range
    <2>6. j \in far
        BY <2>1, <2>2, <2>3, <2>4, <2>5
    <2>7. far \subseteq Nat
        BY RowIs DEF Judged
    <2>8. n \in far
        BY <2>6, <2>7, LeastIs
    <2>9. n \in DOMAIN kids[i] /\ dist[kids[i][j]] <= dist[kids[i][n]]
        BY <2>4, <2>8
    <2>10. Ahead(i) = kids[i][n]
        BY <1>2 DEF Ahead
    <2> HIDE DEF n
    <2>11. kids[i][n] \in Range(kids[i])
        BY <2>5, <2>9
    <2>12. dist[kids[i][n]] + 1 = dist[i]
        BY <2>1, <2>2, <2>3, <2>4, <2>9, <2>11
    <2>13. End[keys[i]] = "None" /\ val[kids[i][n]] = "Win"
        BY <1>2, <2>11, FixedIs DEF Judged
    <2>14. QED
        BY <1>2, <2>10, <2>11, <2>12, <2>13 DEF Flip
<1>3. QED
    BY <1>1, <1>2 DEF Decisive

Claiming == Judged /\ val[1] \in Decisive /\ InTime(ClockAt[root], dist[1])

(* The line followed so far: it alternates, loses a ply of distance with   *)
(* each ply, and can be played.                                            *)
OnLine ==
    /\ principal \in Seq(Boards) /\ Tip \in 1 .. Len(keys)
    /\ Len(principal) + dist[Tip] = dist[1] /\ val[Tip] = Flipped(val[1], Len(principal))
    /\ \E g : Along(principal, g) /\ BoardAt[g[Len(principal)]] = keys[Tip]

ClaimTrue ==
    /\ verdict.outcome \in {"None", "Draw", "Win", "Loss"}
    /\ verdict.outcome = "Draw" => Truth[root] = "Draw"
    /\ verdict.outcome \in Decisive => Truth[root] = verdict.outcome
    /\ RankExact /\ (verdict.reason = "cert-fail" => used >= quota)

Busy == {"expand", "values", "distances", "judge", "verify", "line"}

Spending ==
    /\ used \in Nat /\ quota \in Nat /\ (used <= quota \/ used <= 1)
    /\ stage \in Busy => used < quota \/ used = 0
    /\ stage = "off" => used = 0

RegionInv ==
    /\ stage \in Busy \cup {"off", "over"} /\ Spending
    /\ stage = "off" => head = 0 /\ kids = <<>>
    /\ stage # "over" => verdict = Nothing
    /\ stage \notin {"line", "over"} => principal = <<>>
    /\ stage = "expand" => RegionShape
    /\ stage = "values" => Complete /\ Borne(val) /\ dist \in [1 .. Len(keys) -> Nat]
    /\ stage = "distances" => Complete /\ Fixed(val) /\ dist \in [1 .. Len(keys) -> Nat]
    /\ stage = "judge" => Judged
    /\ stage = "verify" => Claiming /\ strategy = BuiltStrategy
    /\ stage = "line" => Claiming /\ OnLine
    /\ stage = "over" => ClaimTrue

LEMMA DeferredTrue ==
    ASSUME NEW r, verdict' = Deferred(r), r # "cert-fail" \/ used' >= quota'
    PROVE  ClaimTrue'
<1>1. verdict'.outcome = "None" /\ verdict'.reason = r
    BY DEF Deferred, Nothing
<1>2. RankExact'
    BY <1>1 DEF RankExact, Decisive
<1>3. QED
    BY <1>1, <1>2 DEF ClaimTrue, Decisive

LEMMA OverKeeps ==
    ASSUME stage' = "over", used' \in Nat, quota' \in Nat, used' <= quota' \/ used' <= 1, ClaimTrue'
    PROVE  RegionInv'
    BY DEF RegionInv, Spending, Busy

LEMMA AffordableIs ==
    ASSUME used \in Nat, quota \in Nat, used < quota \/ used = 0, NEW M \in Nat
    PROVE  /\ Affordable(M) \in Nat
           /\ Affordable(M) < M =>
                 used + (Affordable(M) + 1) <= quota \/ used + (Affordable(M) + 1) <= 1
           /\ ~ (Affordable(M) < M) => used + Affordable(M) < quota \/ used + Affordable(M) = 0
<1> DEFINE n == Affordable(M)   room == quota - used - 1
<1>1. n = IF room >= M THEN M ELSE IF room > 0 THEN room ELSE 0
    BY DEF Affordable
<1>2. room \in Int /\ used + room + 1 = quota
    OBVIOUS
<1>3. CASE room >= M
    <2>1. n = M
        BY <1>1, <1>3
    <2>2. used + M < quota
        BY <1>2, <1>3
    <2> HIDE DEF n
    <2>3. QED
        BY <2>1, <2>2 DEF n
<1>4. CASE ~ (room >= M) /\ room > 0
    <2>1. n = room
        BY <1>1, <1>4
    <2>2. room \in Nat /\ room < M /\ used + (room + 1) <= quota
        BY <1>2, <1>4
    <2> HIDE DEF n, room
    <2>3. QED
        BY <2>1, <2>2 DEF n
<1>5. CASE ~ (room >= M) /\ ~ (room > 0)
    <2>1. n = 0
        BY <1>1, <1>5
    <2>2. used + 1 <= quota \/ used + 1 <= 1
        OBVIOUS
    <2>3. ASSUME ~ (0 < M) PROVE used = 0
        <3>1. M = 0 /\ room < 0
            BY <1>2, <1>5, <2>3
        <3>2. QED
            BY <1>2, <3>1
    <2> HIDE DEF n
    <2>4. QED
        BY <2>1, <2>2, <2>3 DEF n
<1>6. QED
    BY <1>3, <1>4, <1>5

LEMMA LaunchKeeps ==
    ASSUME RegionInv, stage = "off", root \in Pos, root' = root, NEW n \in Nat, Launch(BoardAt[root], n)
    PROVE  RegionInv'
<1>1. BoardAt[root] \in Boards
    BY BoardsAssumption
<1>2. head = 0 /\ kids = <<>> /\ used = 0 /\ verdict = Nothing /\ principal = <<>>
    BY DEF RegionInv, Spending
<1>3. RegionShape'
    BY <1>1, <1>2, LaunchShape
<1>4. stage' = "expand" /\ quota' = n /\ used' = 0 /\ verdict' = Nothing /\ principal' = <<>>
    BY <1>2 DEF Launch
<1>5. Spending'
    BY <1>4 DEF Spending, Busy
<1>6. QED
    BY <1>3, <1>4, <1>5 DEF RegionInv, Busy

LEMMA ExpandKeeps ==
    ASSUME RegionInv, root' = root, NEW stopped, Expand(stopped)
    PROVE  RegionInv'
<1>1. /\ stage = "expand" /\ RegionShape /\ used \in Nat /\ quota \in Nat /\ (used < quota \/ used = 0)
      /\ (used <= quota \/ used <= 1) /\ verdict = Nothing /\ principal = <<>>
    BY DEF Expand, RegionInv, Spending, Busy
<1>2. quota' = quota /\ principal' = principal /\ head < Len(keys)
    BY DEF Expand
<1>3. CASE stopped
    <2>1. stage' = "over" /\ verdict' = Deferred("stop") /\ used' = used
        BY <1>3 DEF Expand, Exit
    <2>2. ClaimTrue'
        BY <2>1, DeferredTrue
    <2>3. QED
        BY <1>1, <1>2, <2>1, <2>2, OverKeeps
<1>4. CASE ~stopped
    <2> DEFINE moves == Branches(keys[head + 1])   M == Len(moves)   n == Affordable(M)   ks == Found(moves, n)
    <2>1. /\ used' = used + (IF n < M THEN n + 1 ELSE n)
          /\ IF n < M THEN Exit(Deferred("eval-budget"))
             ELSE IF Len(ks) > RegionBudget THEN Exit(Deferred("region-budget"))
             ELSE UNCHANGED <<stage, verdict>>
        BY <1>4 DEF Expand
    <2>2. M \in Nat
        <3>1. head + 1 \in 1 .. Len(keys) /\ keys \in Seq(Boards)
            BY <1>1, <1>2 DEF RegionShape, Distinct
        <3>2. keys[head + 1] \in Boards
            BY <3>1
        <3>3. moves \in Seq(Boards)
            BY <3>2, BranchesIs
        <3>4. QED
            BY <3>3
    <2> HIDE DEF M, ks
    <2>3. /\ n \in Nat /\ (n < M => used + (n + 1) <= quota \/ used + (n + 1) <= 1)
          /\ (~ (n < M) => used + n < quota \/ used + n = 0)
        BY <1>1, <2>2, AffordableIs
    <2> HIDE DEF n
    <2>4. CASE n < M
        <3>1. used' = used + (n + 1) /\ stage' = "over" /\ verdict' = Deferred("eval-budget")
            BY <2>1, <2>4 DEF Exit
        <3>2. ClaimTrue'
            BY <3>1, DeferredTrue
        <3>3. used' \in Nat /\ quota' \in Nat /\ (used' <= quota' \/ used' <= 1)
            BY <1>1, <1>2, <2>3, <2>4, <3>1
        <3>4. QED
            BY <3>1, <3>2, <3>3, OverKeeps
    <2>5. CASE ~ (n < M)
        <3>1. used' = used + n /\ used' \in Nat /\ (used' < quota \/ used' = 0) /\ (used' <= quota \/ used' <= 1)
            BY <1>1, <2>1, <2>3, <2>5
        <3>2. CASE stage' = "over" /\ verdict' = Deferred("region-budget")
            <4>1. ClaimTrue'
                BY <3>2, DeferredTrue
            <4>2. QED
                BY <1>1, <1>2, <3>1, <3>2, <4>1, OverKeeps
        <3>3. CASE stage' = stage /\ verdict' = verdict
            <4>1. RegionShape'
                BY <1>1, <3>3, ExpandShape
            <4>2. Spending'
                BY <1>1, <1>2, <3>1, <3>3 DEF Spending
            <4>3. QED
                BY <1>1, <1>2, <3>3, <4>1, <4>2 DEF RegionInv, Busy
        <3>4. QED
            BY <2>1, <2>5, <3>2, <3>3 DEF Exit
    <2>6. QED
        BY <2>4, <2>5
<1>5. QED
    BY <1>3, <1>4

LEMMA ClosedKeeps ==
    ASSUME RegionInv, root' = root, Closed
    PROVE  RegionInv'
<1>1. /\ stage = "expand" /\ RegionShape /\ head = Len(keys) /\ Spending /\ verdict = Nothing /\ principal = <<>>
      /\ stage' = "values" /\ UNCHANGED <<keys, head, kids, strategy, principal, used, quota, verdict>>
      /\ val' = [i \in DOMAIN keys |-> IF End[keys[i]] = "None" THEN "open" ELSE End[keys[i]]]
      /\ dist' = [i \in DOMAIN keys |-> 0]
    BY DEF Closed, RegionInv
<1>2. Complete /\ Complete'
    BY <1>1 DEF Complete, RegionShape
<1>3. DOMAIN keys = 1 .. Len(keys) /\ \A i \in 1 .. Len(keys) : End[keys[i]] \in {"Win", "Loss", "Draw", "None"}
    BY <1>2, RowIs DEF Complete, RegionShape, Distinct
<1>4. dist' \in [1 .. Len(keys) -> Nat]
    BY <1>1, <1>3
<1>5. \A i \in 1 .. Len(keys) : val'[i] = IF End[keys[i]] = "None" THEN "open" ELSE End[keys[i]]
    BY <1>1, <1>3
<1>6. val' \in [1 .. Len(keys) -> Values]
    BY <1>1, <1>3 DEF Values
<1>7. Borne(val')
    BY <1>5, <1>6 DEF Borne
<1>8. Borne(val)'
    BY <1>1, <1>7 DEF Borne
<1>9. Spending'
    BY <1>1 DEF Spending, Busy
<1>10. QED
    BY <1>1, <1>2, <1>4, <1>8, <1>9 DEF RegionInv, Busy

(* What is found of the region stays so while it is worked on.             *)
LEMMA RegionSame ==
    ASSUME UNCHANGED <<keys, head, kids>>, root' = root
    PROVE  /\ Complete => Complete' 
           /\ val' = val /\ dist' = dist /\ Judged => Judged'
           /\ val' = val /\ dist' = dist /\ Claiming => Claiming'
           /\ \A v : Borne(v) /\ val' = v => Borne(val)'
           /\ \A v : Fixed(v) /\ val' = v => Fixed(val)'
<1>1. Complete => Complete'
    BY DEF Complete, RegionShape
<1>2. \A v : Borne(v) /\ val' = v => Borne(val)'
    BY DEF Borne
<1>3. \A v : Fixed(v) /\ val' = v => Fixed(val)'
    BY DEF Fixed
<1>4. ASSUME val' = val, dist' = dist PROVE Measured => Measured'
    BY <1>4 DEF Measured, DistFrom
<1>5. val' = val /\ dist' = dist /\ Judged => Judged'
    BY <1>1, <1>3, <1>4 DEF Judged
<1>6. val' = val /\ dist' = dist /\ Claiming => Claiming'
    BY <1>5 DEF Claiming
<1>7. QED
    BY <1>1, <1>2, <1>3, <1>5, <1>6

LEMMA SweepValuesKeeps ==
    ASSUME RegionInv, root' = root, SweepValues
    PROVE  RegionInv'
<1>1. /\ stage = "values" /\ Complete /\ Borne(val) /\ dist \in [1 .. Len(keys) -> Nat] /\ Spending
      /\ verdict = Nothing /\ principal = <<>>
      /\ UNCHANGED <<keys, head, kids, dist, strategy, principal, used, quota, verdict>>
    BY DEF SweepValues, RegionInv
<1> DEFINE v == Sweep(val, ValueFrom)
<1>2. IF v = val THEN /\ val' = [i \in DOMAIN val |-> IF val[i] = "open" THEN "Draw" ELSE val[i]]
                      /\ stage' = "distances"
      ELSE val' = v /\ stage' = stage
    BY DEF SweepValues
<1>3. Borne(v) /\ (v = val => \A i \in 1 .. Len(keys) : ValueFrom(val, i) = val[i])
    BY <1>1, SweepBorne
<1> HIDE DEF v
<1>4. Complete' /\ dist' \in [1 .. Len(keys') -> Nat] /\ verdict' = Nothing /\ principal' = <<>>
    BY <1>1, RegionSame
<1>5. CASE v = val
    <2>1. Fixed([i \in DOMAIN val |-> IF val[i] = "open" THEN "Draw" ELSE val[i]])
        BY <1>1, <1>3, <1>5, BorneFixed
    <2>2. Fixed(val)'
        BY <1>1, <1>2, <1>5, <2>1, RegionSame
    <2>3. stage' = "distances"
        BY <1>2, <1>5
    <2>4. Spending'
        BY <1>1, <2>3 DEF Spending, Busy
    <2>5. QED
        BY <1>4, <2>2, <2>3, <2>4 DEF RegionInv, Busy
<1>6. CASE v # val
    <2>1. val' = v /\ stage' = "values"
        BY <1>1, <1>2, <1>6
    <2>2. Borne(val)'
        BY <1>1, <1>3, <2>1, RegionSame
    <2>3. Spending'
        BY <1>1, <2>1 DEF Spending, Busy
    <2>4. QED
        BY <1>4, <2>1, <2>2, <2>3 DEF RegionInv, Busy
<1>7. QED
    BY <1>5, <1>6

LEMMA SweepDistancesKeeps ==
    ASSUME RegionInv, root' = root, SweepDistances
    PROVE  RegionInv'
<1>1. /\ stage = "distances" /\ Complete /\ Fixed(val) /\ dist \in [1 .. Len(keys) -> Nat] /\ Spending
      /\ verdict = Nothing /\ principal = <<>>
      /\ UNCHANGED <<keys, head, kids, val, strategy, principal, used, quota, verdict>>
    BY DEF SweepDistances, RegionInv
<1> DEFINE d == Sweep(dist, DistFrom)
<1>2. IF d = dist THEN stage' = "judge" /\ dist' = dist ELSE dist' = d /\ stage' = stage
    BY DEF SweepDistances
<1>3. d \in [1 .. Len(keys) -> Nat] /\ (d = dist => \A i \in 1 .. Len(keys) : DistFrom(dist, i) = dist[i])
    BY <1>1, SweepMeasured
<1> HIDE DEF d
<1>4. Complete' /\ Fixed(val)' /\ dist' \in [1 .. Len(keys') -> Nat] /\ verdict' = Nothing /\ principal' = <<>>
    BY <1>1, <1>2, <1>3, RegionSame
<1>5. CASE d = dist
    <2>1. stage' = "judge" /\ dist' = dist
        BY <1>2, <1>5
    <2>2. Measured
        BY <1>3, <1>5 DEF Measured
    <2>3. Judged
        BY <1>1, <2>2 DEF Judged
    <2>4. Judged'
        BY <1>1, <2>1, <2>3, RegionSame
    <2>5. Spending'
        BY <1>1, <2>1 DEF Spending, Busy
    <2>6. QED
        BY <1>4, <2>1, <2>4, <2>5 DEF RegionInv, Busy
<1>6. CASE d # dist
    <2>1. stage' = "distances"
        BY <1>1, <1>2, <1>6
    <2>2. Spending'
        BY <1>1, <2>1 DEF Spending, Busy
    <2>3. QED
        BY <1>4, <2>1, <2>2 DEF RegionInv, Busy
<1>7. QED
    BY <1>5, <1>6

LEMMA WalkedSame ==
    ASSUME UNCHANGED <<keys, kids, val, dist>>, \A v : Onward(v)' = Onward(v)
    PROVE  Walked' = Walked
<1> DEFINE E(f, i) == IF i = 0 THEN {1} ELSE With(f[i - 1], Onward)
           P(f) == f = [i \in 0 .. dist[1] |-> E(f, i)]
<1>1. Walked = (CHOOSE f : P(f))[dist[1]]
    BY DEF Walked
<1>2. Walked' = (CHOOSE f : P(f)')[dist'[1]]
    BY DEF Walked
<1>3. \A f, i : E(f, i)' = E(f, i)
    BY DEF With
<1> HIDE DEF E
<1>4. \A f : P(f)' <=> P(f)
    BY <1>3
<1>5. (CHOOSE f : P(f)') = (CHOOSE f : P(f))
    <2> HIDE DEF P
    <2>1. QED
        BY <1>4
<1>6. QED
    BY <1>1, <1>2, <1>5

LEMMA JudgeKeeps ==
    ASSUME RegionInv, root \in Pos, root' = root, Judge(ClockAt[root])
    PROVE  RegionInv'
<1>1. /\ stage = "judge" /\ Judged /\ Spending /\ verdict = Nothing /\ principal = <<>>
      /\ UNCHANGED <<keys, head, kids, val, dist, principal, used, quota>>
    BY DEF Judge, RegionInv
<1>2. IF val[1] = "Draw" THEN Exit(Claimed("Draw", 0, <<>>)) /\ UNCHANGED strategy
      ELSE IF ~InTime(ClockAt[root], dist[1]) THEN Exit(Deferred("rank-guard")) /\ UNCHANGED strategy
      ELSE strategy' = BuiltStrategy /\ stage' = "verify" /\ UNCHANGED verdict
    BY DEF Judge
<1>3. 1 \in 1 .. Len(keys) /\ keys[1] = BoardAt[root]
    BY <1>1, RootIs
<1>4. used' \in Nat /\ quota' \in Nat /\ (used' <= quota' \/ used' <= 1)
    BY <1>1 DEF Spending
<1>5. CASE val[1] = "Draw"
    <2>1. stage' = "over" /\ verdict' = Claimed("Draw", 0, <<>>)
        BY <1>2, <1>5 DEF Exit
    <2>2. Truth[root] = "Draw"
        BY <1>1, <1>3, <1>5, RegionExact
    <2>3. verdict'.outcome = "Draw" /\ verdict'.reason = ""
        BY <2>1 DEF Claimed
    <2>4. ClaimTrue'
        BY <2>2, <2>3 DEF ClaimTrue, RankExact, Decisive
    <2>5. QED
        BY <1>4, <2>1, <2>4, OverKeeps
<1>6. CASE val[1] # "Draw" /\ ~InTime(ClockAt[root], dist[1])
    <2>1. stage' = "over" /\ verdict' = Deferred("rank-guard")
        BY <1>2, <1>6 DEF Exit
    <2>2. ClaimTrue'
        BY <2>1, DeferredTrue
    <2>3. QED
        BY <1>4, <2>1, <2>2, OverKeeps
<1>7. CASE val[1] # "Draw" /\ InTime(ClockAt[root], dist[1])
    <2>1. strategy' = BuiltStrategy /\ stage' = "verify" /\ verdict' = Nothing /\ principal' = <<>>
        BY <1>1, <1>2, <1>7
    <2>2. val[1] \in Decisive
        BY <1>1, <1>3, <1>7, FixedIs DEF Judged, Decisive
    <2>3. Claiming'
        BY <1>1, <1>7, <2>2, RegionSame DEF Claiming
    <2>4. strategy' = BuiltStrategy'
        <3>1. BuiltStrategy' = BuiltStrategy
            <4>1. \A i : Chosen(i)' = Chosen(i)
                BY <1>1 DEF Chosen
            <4>2. \A v : Onward(v)' = Onward(v)
                BY <1>1, <4>1 DEF Onward
            <4>3. Walked' = Walked
                BY <1>1, <4>2, WalkedSame
            <4>4. QED
                BY <1>1, <4>1, <4>3 DEF BuiltStrategy
        <3>2. QED
            BY <2>1, <3>1
    <2>5. Spending'
        BY <1>1, <2>1 DEF Spending, Busy
    <2>6. QED
        BY <2>1, <2>3, <2>4, <2>5 DEF RegionInv, Busy
<1>8. QED
    BY <1>5, <1>6, <1>7

LEMMA VerifyKeeps ==
    ASSUME RegionInv, root \in Pos, root' = root, Verify
    PROVE  RegionInv'
<1>1. /\ stage = "verify" /\ Claiming /\ Judged /\ strategy = BuiltStrategy /\ Spending /\ verdict = Nothing
      /\ principal = <<>> /\ val[1] \in Decisive
      /\ UNCHANGED <<keys, head, kids, val, dist, strategy, principal, quota>>
    BY DEF Verify, RegionInv, Claiming
<1> DEFINE w == Verified(strategy, dist[1], used)
<1>2. /\ used' = w.evals
      /\ IF w.ok THEN stage' = "line" /\ UNCHANGED verdict
         ELSE IF w.aborted THEN Exit(Deferred(IF w.evals >= quota THEN "eval-budget" ELSE "stop"))
         ELSE Exit(Deferred("cert-fail"))
    BY DEF Verify
<1>3. used \in Nat /\ quota \in Nat /\ (used < quota \/ used = 0)
    BY <1>1 DEF Spending, Busy
<1>4. w.ok \/ w.aborted
    BY <1>1, <1>3, Certified
<1>5. w \in Walks /\ Kept(w)
    <2>1. dist[1] \in Nat /\ 1 \in 1 .. Len(keys)
        BY <1>1, RootIs
    <2>2. PICK walk : /\ Walking(walk, strategy, dist[1])
                      /\ \A n : Verified(strategy, dist[1], n) = walk[[line |-> <<keys[1]>>, evals |-> n]]
        BY <1>3, <2>1, WalkIs
    <2> DEFINE line == <<keys[1]>>   at == [line |-> line, evals |-> used]
    <2>3. keys[1] \in Boards
        BY <1>1, <2>1, KeyIs DEF Judged
    <2>4. line \in Seq(Boards) /\ line # <<>>
        BY <2>3
    <2>5. w = walk[at]
        BY <2>2
    <2> HIDE DEF line
    <2>6. at \in Places /\ at.evals = used
        BY <1>3, <2>4 DEF Places
    <2> HIDE DEF at, w
    <2>7. walk[at] \in Walks
        BY <2>2, <2>6, WalkingIs
    <2>8. Kept(walk[at])
        BY <1>3, <2>1, <2>2, <2>6, WalkKept
    <2>9. QED
        BY <2>5, <2>7, <2>8
<1> HIDE DEF w
<1>6. used' \in Nat /\ quota' \in Nat /\ (used' <= quota' \/ used' <= 1)
    BY <1>1, <1>2, <1>3, <1>5 DEF Kept, Walks
<1>7. CASE w.ok
    <2>1. stage' = "line" /\ verdict' = Nothing /\ principal' = <<>>
        BY <1>1, <1>2, <1>7
    <2>2. Claiming'
        BY <1>1, RegionSame
    <2>3. Spending'
        <3>1. used' < quota' \/ used' = 0
            BY <1>1, <1>2, <1>5, <1>7 DEF Kept
        <3>2. QED
            BY <1>6, <2>1, <3>1 DEF Spending
    <2>4. OnLine'
        <3>1. 1 \in 1 .. Len(keys) /\ dist[1] \in Nat /\ keys[1] = BoardAt[root]
            BY <1>1, RootIs
        <3> DEFINE g == [n \in 0 .. 0 |-> root]
        <3>2. /\ principal' = <<>> /\ Len(principal') = 0 /\ principal' \in Seq(Boards) /\ Tip' = 1
              /\ 1 .. 0 = {} /\ 0 % 2 = 0 /\ 0 + dist[1] = dist[1]
            BY <2>1, <3>1 DEF Tip
        <3>3. Flipped(val[1], 0) = val[1]
            BY <3>2 DEF Flipped
        <3>4. g \in [0 .. 0 -> Pos] /\ g[0] = root
            OBVIOUS
        <3> HIDE DEF g
        <3>5. /\ g \in [0 .. Len(principal') -> Pos] /\ g[0] = root'
              /\ \A n \in 1 .. Len(principal') : Follows(g[n - 1], principal'[n], g[n])
            BY <3>2, <3>4
        <3>6. BoardAt[g[Len(principal')]] = keys'[Tip']
            BY <1>1, <3>1, <3>2, <3>4
        <3>7. Tip' \in 1 .. Len(keys') /\ Len(principal') + dist'[Tip'] = dist'[1]
              /\ val'[Tip'] = Flipped(val'[1], Len(principal'))
            BY <1>1, <3>1, <3>2, <3>3
        <3>8. QED
            BY <3>2, <3>5, <3>6, <3>7 DEF OnLine, Along
    <2>5. QED
        BY <2>1, <2>2, <2>3, <2>4 DEF RegionInv, Busy
<1>8. CASE ~w.ok
    <2>1. stage' = "over" /\ \E r \in {"eval-budget", "stop"} : verdict' = Deferred(r)
        BY <1>2, <1>4, <1>8 DEF Exit
    <2>2. ClaimTrue'
        BY <2>1, DeferredTrue
    <2>3. QED
        BY <1>6, <2>1, <2>2, OverKeeps
<1>9. QED
    BY <1>7, <1>8

LEMMA PlyKeeps ==
    ASSUME RegionInv, root \in Pos, root' = root, Ply
    PROVE  RegionInv'
<1>1. /\ stage = "line" /\ Claiming /\ Judged /\ OnLine /\ Spending /\ verdict = Nothing
      /\ End[keys[Tip]] = "None" /\ val[1] \in Decisive
      /\ UNCHANGED <<keys, head, kids, val, dist, strategy, quota>>
    BY DEF Ply, RegionInv, Claiming
<1> DEFINE i == Tip   k == Ahead(i)   to == keys[k]   moves == Next[keys[i]]   tried == IndexOf(moves, to)
           L == Len(principal)
<1>2. IF used + tried >= quota
      THEN Exit(Deferred("cert-fail")) /\ used' = quota /\ UNCHANGED principal
      ELSE used' = used + tried /\ principal' = Append(principal, to) /\ UNCHANGED <<stage, verdict>>
    BY DEF Ply
<1>3. used \in Nat /\ quota \in Nat /\ (used < quota \/ used = 0)
    BY <1>1 DEF Spending, Busy
<1>4. /\ principal \in Seq(Boards) /\ i \in 1 .. Len(keys) /\ L + dist[i] = dist[1]
      /\ val[i] = Flipped(val[1], L)
      /\ \E g : Along(principal, g) /\ BoardAt[g[L]] = keys[i]
    BY <1>1 DEF OnLine
<1>5. L \in Nat
    BY <1>4
<1> HIDE DEF i, L
<1>6. val[i] \in Decisive
    <2>1. L % 2 \in {0, 1}
        BY <1>5, Parity
    <2>2. QED
        BY <1>1, <1>4 DEF Flipped, Flip, Decisive
<1>7. k \in Range(kids[i]) /\ val[k] = Flip(val[i]) /\ dist[k] + 1 = dist[i]
    BY <1>1, <1>4, <1>6, AheadIs DEF i
<1>8. k \in 1 .. Len(keys) /\ to \in Boards /\ moves \in Seq(Boards)
    BY <1>1, <1>4, <1>7, RowIs, KeyIs, BranchesIs DEF Judged, Complete, RegionShape, Distinct
<1>9. tried \in Nat
    BY <1>8, IndexIs
<1> HIDE DEF k, moves, tried
<1>10. CASE used + tried >= quota
    <2>1. stage' = "over" /\ verdict' = Deferred("cert-fail") /\ used' = quota
        BY <1>2, <1>10 DEF Exit
    <2>2. used' \in Nat /\ quota' \in Nat /\ used' <= quota' /\ used' >= quota'
        BY <1>1, <1>3, <2>1
    <2>3. ClaimTrue'
        BY <2>1, <2>2, DeferredTrue
    <2>4. QED
        BY <2>1, <2>2, <2>3, OverKeeps
<1>11. CASE ~ (used + tried >= quota)
    <2> DEFINE more == Append(principal, to)
    <2>1. used' = used + tried /\ principal' = more /\ stage' = "line" /\ verdict' = Nothing
        BY <1>1, <1>2, <1>11
    <2>2. used' \in Nat /\ used' < quota' /\ used' <= quota'
        BY <1>1, <1>3, <1>9, <1>11, <2>1
    <2>3. Spending'
        BY <1>1, <1>3, <2>1, <2>2 DEF Spending, Busy
    <2>4. Claiming'
        BY <1>1, RegionSame
    <2>5. more \in Seq(Boards) /\ Len(more) = L + 1 /\ more # <<>> /\ Last(more) = to
        BY <1>4, <1>8 DEF Last, L
    <2>6. PICK g : Along(principal, g) /\ BoardAt[g[L]] = keys[i]
        BY <1>4
    <2>7. g[L] \in Pos
        BY <1>5, <2>6 DEF Along, L
    <2>8. PICK c \in Succ[g[L]] : BoardAt[c] = to
        BY <1>1, <1>4, <1>7, <2>6, <2>7, Children DEF Judged, i
    <2> DEFINE d == CHOOSE x \in Succ[g[L]] : BoardAt[x] = to
    <2>9. d \in Succ[g[L]] /\ BoardAt[d] = to
        BY <2>8
    <2>10. Follows(g[L], to, d) /\ d \in Pos
        BY <2>7, <2>9, StaticIs DEF Follows
    <2> HIDE DEF d, to
    <2>11. PICK h : Along(more, h) /\ h[L + 1] = d
        BY <1>4, <1>8, <2>6, <2>10, AlongMore DEF L
    <2> HIDE DEF more
    <2>12. Tip' = k
        <3>1. Tip' = NodeOf(keys, to)
            BY <1>1, <2>1, <2>5 DEF Tip
        <3>2. NodeOf(keys, to) = k
            BY <1>1, <1>8, KeyIs DEF to, Judged
        <3>3. QED
            BY <3>1, <3>2
    <2>13. Len(principal') + dist'[Tip'] = dist'[1]
        <3>1. dist[k] \in Nat /\ dist[i] \in Nat /\ dist[1] \in Nat
            BY <1>1, <1>4, <1>8, RootIs DEF Judged
        <3>2. L + 1 + dist[k] = dist[1]
            <4> DEFINE x == dist[k]   y == dist[i]   z == dist[1]
            <4>1. x \in Nat /\ y \in Nat /\ z \in Nat
                BY <3>1
            <4>2. L + y = z /\ x + 1 = y
                BY <1>4, <1>7
            <4> HIDE DEF x, y, z
            <4>3. L + 1 + x = z
                BY <1>5, <4>1, <4>2
            <4>4. QED
                BY <4>3 DEF x, z
        <3>3. QED
            BY <1>1, <2>1, <2>5, <2>12, <3>2
    <2>14. val'[Tip'] = Flipped(val'[1], Len(principal'))
        <3>1. L % 2 \in {0, 1} /\ (L + 1) % 2 \in {0, 1} /\ ((L + 1) % 2 = 1 <=> L % 2 = 0)
            BY <1>5, Parity
        <3>2. Flip(Flipped(val[1], L)) = Flipped(val[1], L + 1)
            <4> DEFINE a == L % 2   b == (L + 1) % 2
            <4>1. a \in {0, 1} /\ b \in {0, 1} /\ (b = 1 <=> a = 0)
                BY <3>1
            <4>2. Flipped(val[1], L) = IF a = 0 THEN val[1] ELSE Flip(val[1])
                BY DEF Flipped
            <4>3. Flipped(val[1], L + 1) = IF b = 0 THEN val[1] ELSE Flip(val[1])
                BY DEF Flipped
            <4> HIDE DEF a, b
            <4>4. Flip(Flip(val[1])) = val[1]
                BY <1>1 DEF Flip, Decisive
            <4>5. QED
                BY <4>1, <4>2, <4>3, <4>4
        <3>3. QED
            BY <1>1, <1>4, <1>7, <2>1, <2>5, <2>12, <3>2
    <2>15. BoardAt[h[Len(principal')]] = keys'[Tip']
        BY <1>1, <2>1, <2>5, <2>9, <2>11, <2>12 DEF to
    <2>16. /\ h \in [0 .. Len(principal') -> Pos] /\ h[0] = root'
           /\ \A n \in 1 .. Len(principal') : Follows(h[n - 1], principal'[n], h[n])
        BY <2>1, <2>11 DEF Along
    <2>17. OnLine'
        <3>1. principal' \in Seq(Boards) /\ Tip' \in 1 .. Len(keys')
            BY <1>1, <1>8, <2>1, <2>5, <2>12
        <3>2. QED
            BY <3>1, <2>13, <2>14, <2>15, <2>16 DEF OnLine, Along
    <2>18. QED
        BY <2>1, <2>3, <2>4, <2>17 DEF RegionInv, Busy
<1>12. QED
    BY <1>10, <1>11

LEMMA ConcludeKeeps ==
    ASSUME RegionInv, root \in Pos, root' = root, Conclude
    PROVE  RegionInv'
<1>1. /\ stage = "line" /\ Claiming /\ Judged /\ OnLine /\ Spending
      /\ End[keys[Tip]] # "None" /\ val[1] \in Decisive
      /\ UNCHANGED <<keys, head, kids, val, dist, strategy, principal, used, quota>>
      /\ Exit(IF Len(principal) = dist[1] THEN Claimed(val[1], dist[1], principal) ELSE Deferred("cert-fail"))
    BY DEF Conclude, RegionInv, Claiming
<1> DEFINE i == Tip   L == Len(principal)
<1>2. /\ principal \in Seq(Boards) /\ i \in 1 .. Len(keys) /\ L + dist[i] = dist[1]
      /\ val[i] = Flipped(val[1], L)
      /\ \E g : Along(principal, g) /\ BoardAt[g[L]] = keys[i]
    BY <1>1 DEF OnLine
<1>3. L \in Nat
    BY <1>2
<1> HIDE DEF i
<1>4. dist[i] = 0 /\ val[i] = End[keys[i]]
    BY <1>1, <1>2, MeasuredIs, FixedIs DEF Judged, i
<1>5. L = dist[1]
    BY <1>2, <1>3, <1>4
<1>6. stage' = "over" /\ verdict' = Claimed(val[1], dist[1], principal)
    BY <1>1, <1>5 DEF Exit
<1>7. 1 \in 1 .. Len(keys) /\ keys[1] = BoardAt[root] /\ dist[1] \in Nat
    BY <1>1, RootIs
<1>8. Truth[root] = val[1] /\ Distance[root] = dist[1]
    BY <1>1, <1>7, RegionExact DEF Claiming, InTime
<1>9. LineEnd(principal) = Flipped(val[1], L)
    <2>1. PICK g : Along(principal, g) /\ BoardAt[g[L]] = keys[i]
        BY <1>2
    <2>2. LineEnd(principal) = Static[g[L]]
        BY <1>2, <2>1, LineEndIs
    <2>3. g[L] \in Pos
        BY <1>3, <2>1 DEF Along
    <2>4. Static[g[L]] = End[keys[i]]
        BY <1>1, <2>1, <2>3, StaticIs DEF i
    <2>5. QED
        BY <1>2, <1>4, <2>2, <2>4
<1>10. verdict'.outcome = val[1] /\ verdict'.rank = dist[1] /\ verdict'.pv = principal /\ verdict'.reason = ""
    BY <1>6 DEF Claimed
<1>11. LineEnd(principal)' = LineEnd(principal)
    BY <1>1 DEF LineEnd, With
<1>12. PvHolds'
    <2>1. verdict'.pv = principal'
        BY <1>1, <1>10
    <2>2. LineEnd(verdict.pv)' = LineEnd(principal)'
        BY <2>1
    <2>3. Flipped(verdict.outcome, Len(verdict.pv))' = Flipped(val[1], L)
        BY <1>10 DEF Flipped, Flip
    <2>4. LineEnd(verdict.pv)' = Flipped(verdict.outcome, Len(verdict.pv))'
        BY <1>9, <1>11, <2>2, <2>3
    <2>5. QED
        BY <2>4 DEF PvHolds
<1>13. RankExact'
    BY <1>5, <1>8, <1>10, <1>12 DEF RankExact
<1>14. ClaimTrue'
    BY <1>1, <1>8, <1>10, <1>13 DEF ClaimTrue, Decisive
<1>15. used' \in Nat /\ quota' \in Nat /\ (used' <= quota' \/ used' <= 1)
    BY <1>1 DEF Spending
<1>16. QED
    BY <1>6, <1>14, <1>15, OverKeeps

LEMMA PreflightKeeps ==
    ASSUME RegionInv, root \in Pos, root' = root, NEW stopped, PreflightStep(ClockAt[root], stopped)
    PROVE  RegionInv' /\ stage # "off" /\ quota' = quota
<1>1. RegionInv'
    BY ExpandKeeps, ClosedKeeps, SweepValuesKeeps, SweepDistancesKeeps, JudgeKeeps, VerifyKeeps, PlyKeeps,
       ConcludeKeeps DEF PreflightStep
<1>2. stage # "off" /\ quota' = quota
    BY DEF PreflightStep, Expand, Closed, SweepValues, SweepDistances, Judge, Verify, Ply, Conclude
<1>3. QED
    BY <1>1, <1>2

(* The other stages leave the pre-phase as it is.                          *)
LEMMA RegionStays ==
    ASSUME RegionInv, UNCHANGED <<preflightVars, root>>
    PROVE  RegionInv'
<1>1. /\ stage' = stage /\ keys' = keys /\ head' = head /\ kids' = kids /\ val' = val /\ dist' = dist
      /\ strategy' = strategy /\ principal' = principal /\ used' = used /\ quota' = quota /\ verdict' = verdict
      /\ root' = root
    BY DEF preflightVars
<1>2. /\ Complete => Complete'
      /\ Judged => Judged'
      /\ Claiming => Claiming'
      /\ Borne(val) => Borne(val)'
      /\ Fixed(val) => Fixed(val)'
    BY <1>1, RegionSame
<1>3. RegionShape => RegionShape'
    BY <1>1 DEF RegionShape
<1>4. BuiltStrategy' = BuiltStrategy
    <2>1. \A i : Chosen(i)' = Chosen(i)
        BY <1>1 DEF Chosen
    <2>2. \A v : Onward(v)' = Onward(v)
        BY <1>1, <2>1 DEF Onward
    <2>3. Walked' = Walked
        BY <1>1, <2>2, WalkedSame
    <2>4. QED
        BY <1>1, <2>1, <2>3 DEF BuiltStrategy
<1>5. OnLine => OnLine'
    BY <1>1 DEF OnLine, Tip, Along
<1>6. ClaimTrue => ClaimTrue'
    <2>1. LineEnd(verdict.pv)' = LineEnd(verdict.pv)
        BY <1>1 DEF LineEnd, With
    <2>2. PvHolds => PvHolds'
        BY <1>1, <2>1 DEF PvHolds
    <2>3. QED
        BY <1>1, <2>2 DEF ClaimTrue, RankExact
<1>7. Spending'
    BY <1>1 DEF RegionInv, Spending
<1>8. QED
    BY <1>1, <1>2, <1>3, <1>4, <1>5, <1>6, <1>7 DEF RegionInv

-----------------------------------------------------------------------------
(* The invariant of the stages                                             *)

(* What the probe and the pre-phase have spent, of what the front-end left *)
(* them.  The probe can cross its cap by a sweep of the moves, the         *)
(* pre-phase an empty budget by one evaluation.                            *)
ShareOK ==
    /\ limit \in 0 .. budget /\ charged \in Nat
    /\ charged <= limit + MaxMoves /\ (limit = 0 => charged <= 1)
    /\ phase = "front" => limit = budget
    /\ phase \in {"front", "probe"} => charged = 0 /\ stage = "off"
    /\ phase = "preflight" => charged < limit + MaxMoves /\ (limit = 0 => charged = 0)
    /\ phase = "preflight" /\ stage # "off" => quota = Minus(limit, charged)
    /\ phase # "front" /\ claim = <<>> => limit = Minus(budget, spent)
    /\ claim # <<>> => phase \in {"front", "done"} /\ charged = 0

PreflightTrue == result.by = "preflight" => result.outcome = Truth[root]

StagesInv == FrontInv /\ RegionInv /\ ShareOK /\ PreflightTrue

LEMMA InitStages == Init => StagesInv
<1> SUFFICES ASSUME Init PROVE StagesInv
    OBVIOUS
<1>1. FrontInv
    BY InitFront
<1>2. /\ stage = "off" /\ head = 0 /\ kids = <<>> /\ used = 0 /\ quota = 0 /\ verdict = Nothing
      /\ principal = <<>> /\ phase = "front" /\ limit = budget /\ charged = 0 /\ result = Unsettled
      /\ claim = <<>> /\ budget \in Nat
    BY StagesAssumption DEF Init, PreflightInit, ProverInit
<1>3. RegionInv
    BY <1>2 DEF RegionInv, Spending, Busy
<1>4. ShareOK
    BY <1>2, StagesAssumption DEF ShareOK
<1>5. PreflightTrue
    BY <1>2 DEF PreflightTrue, Unsettled
<1>6. QED
    BY <1>1, <1>3, <1>4, <1>5 DEF StagesInv

LEMMA StagesFacts ==
    ASSUME StagesInv
    PROVE  /\ root \in Pos /\ budget \in Nat /\ limit \in Nat /\ charged \in Nat /\ MaxMoves \in Nat
           /\ used \in Nat /\ quota \in Nat /\ spent \in Nat /\ MaxMoves >= 1 /\ limit <= budget
           /\ (used <= quota \/ used <= 1)
    BY StagesAssumption DEF StagesInv, FrontInv, ProverInv, ProverTypes, StagesOK, ShareOK, RegionInv, Spending

(* The front-end, on its own budget.                                       *)
LEMMA FrontShare ==
    ASSUME StagesInv, FrontSkipped \/ FrontStart \/ FrontStep \/ FrontDone
    PROVE  ShareOK'
<1>1. /\ phase = "front" /\ limit = budget /\ charged = 0 /\ stage = "off"
      /\ limit' \in Nat /\ charged' = 0 /\ stage' = "off" /\ budget' = budget
    <2>1. phase = "front" /\ charged' = charged /\ stage' = stage /\ budget' = budget
        BY DEF FrontSkipped, FrontStart, FrontStep, FrontDone, preflightVars, pipeVars
    <2>2. limit = budget /\ charged = 0 /\ stage = "off"
        BY <2>1 DEF StagesInv, ShareOK
    <2>3. limit' = limit \/ limit' = Minus(budget, spent)
        BY DEF FrontSkipped, FrontStart, FrontStep, FrontDone, Shrunk, pipeVars
    <2>4. QED
        BY <2>1, <2>2, <2>3, StagesFacts DEF Minus
<1>2. CASE FrontSkipped
    <2>1. step = "idle" /\ limit' = limit /\ phase' = "probe" /\ claim' = claim /\ spent' = spent
        BY <1>2 DEF FrontSkipped, proverVars
    <2>2. claim = <<>> /\ spent = 0
        BY <2>1 DEF StagesInv, FrontInv, ProverInv, ClaimOK, SpentOK
    <2>3. Minus(budget, spent) = budget
        BY <2>2, StagesFacts DEF Minus
    <2>4. Minus(budget', spent') = limit'
        BY <1>1, <2>1, <2>3
    <2>5. QED
        BY <1>1, <2>1, <2>2, <2>4, StagesFacts DEF ShareOK
<1>3. CASE FrontStart \/ FrontStep
    <2>1. limit' = limit /\ phase' = "front"
        BY <1>1, <1>3 DEF FrontStart, FrontStep, pipeVars
    <2>2. QED
        BY <1>1, <2>1, StagesFacts DEF ShareOK
<1>4. CASE FrontDone
    <2>1. /\ claim' = claim /\ spent' = spent
          /\ \/ claim # <<>> /\ phase' = "done" /\ limit' = limit
             \/ claim = <<>> /\ phase' = "probe" /\ limit' = Minus(budget, spent)
        BY <1>4 DEF FrontDone, Shrunk
    <2>2. Minus(budget, spent) \in 0 .. budget
        BY StagesFacts DEF Minus
    <2>3. Minus(budget', spent') = Minus(budget, spent)
        BY <1>1, <2>1
    <2>4. QED
        BY <1>1, <2>1, <2>2, <2>3, StagesFacts DEF ShareOK
<1>5. QED
    BY <1>2, <1>3, <1>4

(* The probe, within what is left.                                         *)
LEMMA ProbeShare ==
    ASSUME StagesInv, ProbeSkipped \/ Probed
    PROVE  ShareOK'
<1>1. /\ phase = "probe" /\ limit' = limit /\ budget' = budget /\ stage' = stage /\ spent' = spent
      /\ claim' = claim /\ phase' \in {"preflight", "general"}
    BY DEF ProbeSkipped, Probed, preflightVars, proverVars
<1>2. charged = 0 /\ stage = "off" /\ claim = <<>> /\ limit = Minus(budget, spent)
    BY <1>1 DEF StagesInv, ShareOK
<1>3. charged' \in Nat /\ charged' < limit + MaxMoves /\ (limit = 0 => charged' = 0)
    <2>1. CASE ProbeSkipped
        BY <1>2, <2>1, StagesFacts DEF ProbeSkipped
    <2>2. CASE Probed
        <3> DEFINE l == Lesser(limit, ProbeCap)
        <3>1. l > 0 /\ \E n \in {1, l, l + MaxMoves - 1} : charged' = charged + n
            BY <2>2 DEF Probed, ProbeRuns
        <3>2. l \in Nat /\ l <= limit
            BY StagesFacts, StagesAssumption DEF Lesser
        <3> HIDE DEF l
        <3>3. PICK n \in {1, l, l + MaxMoves - 1} : charged' = charged + n
            BY <3>1
        <3>4. charged' = n
            BY <1>2, <3>1, <3>2, <3>3, StagesFacts
        <3>5. n \in Nat /\ n < limit + MaxMoves /\ limit # 0
            BY <3>1, <3>2, StagesFacts
        <3>6. QED
            BY <3>4, <3>5
    <2>3. QED
        BY <2>1, <2>2
<1>4. limit' \in 0 .. budget'
    BY <1>1 DEF StagesInv, ShareOK
<1>5. limit' = Minus(budget', spent')
    BY <1>1, <1>2
<1>6. charged' <= limit' + MaxMoves /\ (limit' = 0 => charged' <= 1)
    BY <1>1, <1>3, StagesFacts
<1>7. QED
    BY <1>1, <1>2, <1>3, <1>4, <1>5, <1>6 DEF ShareOK

(* The pre-phase, within what the probe left; and the main search.         *)
LEMMA PreflightShare ==
    ASSUME StagesInv, PreflightSkipped \/ PreflightStart \/ PreflightRuns \/ PreflightDone \/ General
    PROVE  ShareOK'
<1>1. /\ phase \in {"preflight", "general"} /\ limit' = limit /\ budget' = budget /\ spent' = spent /\ claim' = claim
    BY DEF PreflightSkipped, PreflightStart, PreflightRuns, PreflightDone, General, pipeVars, proverVars
<1>2. claim = <<>> /\ limit = Minus(budget, spent)
    BY <1>1 DEF StagesInv, ShareOK
<1>3. /\ limit \in 0 .. budget /\ charged \in Nat /\ charged <= limit + MaxMoves /\ (limit = 0 => charged <= 1)
      /\ phase = "preflight" => charged < limit + MaxMoves /\ (limit = 0 => charged = 0)
      /\ phase = "preflight" /\ stage # "off" => quota = Minus(limit, charged)
    BY DEF StagesInv, ShareOK
<1>4. limit' = Minus(budget', spent')
    BY <1>1, <1>2
<1>5. CASE PreflightSkipped \/ General
    <2>1. charged' = charged /\ phase' \in {"general", "done"}
        BY <1>5 DEF PreflightSkipped, General
    <2>2. QED
        BY <1>1, <1>2, <1>3, <1>4, <2>1 DEF ShareOK
<1>6. CASE PreflightStart
    <2>1. phase = "preflight" /\ charged' = charged /\ phase' = phase /\ quota' = Minus(limit, charged)
        BY <1>6 DEF PreflightStart, Launch, pipeVars
    <2>2. QED
        BY <1>1, <1>2, <1>3, <1>4, <2>1 DEF ShareOK
<1>7. CASE PreflightRuns
    <2>1. /\ phase = "preflight" /\ charged' = charged /\ phase' = phase /\ root' = root
          /\ PreflightStep(ClockAt[root], late = "stop")
        BY <1>7 DEF PreflightRuns, pipeVars
    <2>2. stage # "off" /\ quota' = quota
        BY <2>1, StagesFacts, PreflightKeeps DEF StagesInv
    <2>3. QED
        BY <1>1, <1>2, <1>3, <1>4, <2>1, <2>2 DEF ShareOK
<1>8. CASE PreflightDone
    <2>1. phase = "preflight" /\ stage = "over" /\ charged' = charged + used /\ phase' \in {"general", "done"}
        BY <1>8 DEF PreflightDone
    <2>2. quota = Minus(limit, charged)
        BY <1>3, <2>1
    <2>3. charged + used <= limit + MaxMoves /\ (limit = 0 => charged + used <= 1)
        <3>1. CASE used <= 1
            BY <1>3, <2>1, <3>1, StagesFacts
        <3>2. CASE used <= quota /\ limit >= charged
            <4>1. quota = limit - charged
                BY <2>2, <3>2 DEF Minus
            <4>2. QED
                BY <3>2, <4>1, StagesFacts
        <3>3. CASE used <= quota /\ ~ (limit >= charged)
            <4>1. quota = 0
                BY <2>2, <3>3 DEF Minus
            <4>2. used = 0
                BY <3>3, <4>1, StagesFacts
            <4>3. QED
                BY <1>3, <4>2, StagesFacts
        <3>4. QED
            BY <3>1, <3>2, <3>3, StagesFacts
    <2>4. charged' \in Nat /\ charged' <= limit' + MaxMoves /\ (limit' = 0 => charged' <= 1)
        BY <1>1, <2>1, <2>3, StagesFacts
    <2>5. QED
        BY <1>1, <1>2, <1>3, <1>4, <2>1, <2>4 DEF ShareOK
<1>9. QED
    BY <1>5, <1>6, <1>7, <1>8

LEMMA StagesNext == StagesInv /\ [NextStep]_vars => StagesInv'
<1> SUFFICES ASSUME StagesInv, [NextStep]_vars PROVE StagesInv'
    OBVIOUS
<1>1. FrontInv'
    BY FrontNext DEF StagesInv
<1>2. CASE UNCHANGED vars \/ Hurry
    <2>1. /\ UNCHANGED <<preflightVars, root>> /\ limit' = limit /\ charged' = charged /\ budget' = budget
          /\ phase' = phase /\ claim' = claim /\ spent' = spent /\ result' = result
        BY <1>2 DEF vars, Hurry, pipeVars, proverVars
    <2>2. RegionInv'
        BY <2>1, RegionStays DEF StagesInv
    <2>3. stage' = stage /\ quota' = quota
        BY <2>1 DEF preflightVars
    <2>4. ShareOK'
        BY <2>1, <2>3 DEF StagesInv, ShareOK
    <2>5. PreflightTrue'
        BY <2>1 DEF StagesInv, PreflightTrue
    <2>6. QED
        BY <1>1, <2>2, <2>4, <2>5 DEF StagesInv
<1>3. CASE FrontSkipped \/ FrontStart \/ FrontStep \/ FrontDone \/ ProbeSkipped \/ Probed
    <2>1. UNCHANGED preflightVars
        BY <1>3 DEF FrontSkipped, FrontStart, FrontStep, FrontDone, ProbeSkipped, Probed
    <2>2. root' = root
        <3>1. CASE FrontStep
            BY <3>1 DEF FrontStep, ProverStep, EnterAnswered, EnterOpen, LeaveCut, LeaveSettled, LeaveBeyond, Leave,
                Descend, Return, ReplayStart, CallKnown, CallFails, CallOpen, AttackFollow, AttackMate, AttackLost,
                AttackReturns, Defend, ReplyFails, ReplyEnds, ReplyOpen, ReplyReturns, DefendReturns, CallReturns,
                ReplayWon, ReplaysDone, Extract, aroundReplay
        <3>2. QED
            BY <1>3, <3>1 DEF FrontSkipped, FrontStart, FrontDone, ProbeSkipped, Probed
    <2>3. result' = result \/ result' = Answer("front", "Win", claim)
        BY <1>3 DEF FrontSkipped, FrontStart, FrontStep, FrontDone, ProbeSkipped, Probed, pipeVars
    <2>4. PreflightTrue'
        BY <2>2, <2>3 DEF StagesInv, PreflightTrue, Answer
    <2>5. RegionInv'
        BY <2>1, <2>2, RegionStays DEF StagesInv
    <2>6. ShareOK'
        BY <1>3, FrontShare, ProbeShare
    <2>7. QED
        BY <1>1, <2>4, <2>5, <2>6 DEF StagesInv
<1>4. CASE PreflightSkipped \/ PreflightDone \/ General
    <2>1. UNCHANGED <<preflightVars, root>>
        BY <1>4 DEF PreflightSkipped, PreflightDone, General
    <2>2. RegionInv'
        BY <2>1, RegionStays DEF StagesInv
    <2>3. ShareOK'
        BY <1>4, PreflightShare
    <2>4. PreflightTrue'
        <3>1. CASE PreflightSkipped
            BY <2>1, <3>1 DEF PreflightSkipped, StagesInv, PreflightTrue
        <3>2. CASE General
            BY <3>2 DEF General, PreflightTrue, Answer
        <3>3. CASE PreflightDone
            <4>1. \/ result' = result
                  \/ verdict.outcome # "None" /\ result' = Answer("preflight", verdict.outcome, verdict.pv)
                BY <3>3 DEF PreflightDone
            <4>2. ClaimTrue
                BY <3>3 DEF PreflightDone, StagesInv, RegionInv
            <4>3. verdict.outcome # "None" => verdict.outcome = Truth[root]
                BY <4>2 DEF ClaimTrue, Decisive
            <4>4. QED
                BY <2>1, <4>1, <4>3 DEF StagesInv, PreflightTrue, Answer
        <3>4. QED
            BY <1>4, <3>1, <3>2, <3>3
    <2>5. QED
        BY <1>1, <2>2, <2>3, <2>4 DEF StagesInv
<1>5. CASE PreflightStart
    <2>1. /\ stage = "off" /\ Launch(BoardAt[root], Minus(limit, charged)) /\ root' = root /\ result' = result
        BY <1>5 DEF PreflightStart, pipeVars
    <2>2. Minus(limit, charged) \in Nat
        BY StagesFacts DEF Minus
    <2>3. RegionInv'
        BY <2>1, <2>2, StagesFacts, LaunchKeeps DEF StagesInv
    <2>4. PreflightTrue'
        BY <2>1 DEF StagesInv, PreflightTrue
    <2>5. ShareOK'
        BY <1>5, PreflightShare
    <2>6. QED
        BY <1>1, <2>3, <2>4, <2>5 DEF StagesInv
<1>6. CASE PreflightRuns
    <2>1. PreflightStep(ClockAt[root], late = "stop") /\ root' = root /\ result' = result
        BY <1>6 DEF PreflightRuns, pipeVars
    <2>2. RegionInv'
        BY <2>1, StagesFacts, PreflightKeeps DEF StagesInv
    <2>3. PreflightTrue'
        BY <2>1 DEF StagesInv, PreflightTrue
    <2>4. ShareOK'
        BY <1>6, PreflightShare
    <2>5. QED
        BY <1>1, <2>2, <2>3, <2>4 DEF StagesInv
<1>7. QED
    BY <1>2, <1>3, <1>4, <1>5, <1>6 DEF NextStep, Pipeline

LEMMA StagesAlways == Spec => []StagesInv
    BY InitStages, StagesNext, PTL DEF Spec

(* An answer given before the main search is the true one, in any game:    *)
(* the front-end has a proof of its win, and the pre-phase, which counts   *)
(* no clock, claims nothing that the clock could end (run.rs, region.rs).  *)
THEOREM AnswersAreTrue == Spec => []AnswerTrue
<1>1. StagesInv => AnswerTrue
    <2> SUFFICES ASSUME StagesInv PROVE AnswerTrue
        OBVIOUS
    <2>1. CASE result.by = "front"
        <3>1. result.outcome = "Win" /\ step = "finished" /\ answer = "Win"
            BY <2>1 DEF StagesInv, FrontInv, StagesOK
        <3>2. Says(proved, root, "Win") /\ Grounded(proved)
            BY <3>1 DEF StagesInv, FrontInv, ProverInv, ClaimOK
        <3>3. Truth[root] = "Win"
            BY <3>2, StagesFacts DEF Grounded, Decisive
        <3>4. QED
            BY <2>1, <3>1, <3>3 DEF AnswerTrue
    <2>2. CASE result.by # "front"
        BY <2>2 DEF StagesInv, PreflightTrue, AnswerTrue
    <2>3. QED
        BY <2>1, <2>2
<1>2. QED
    BY <1>1, StagesAlways, PTL

(* Whatever region the pre-phase closes, the rank it claims is the         *)
(* distance of the end and its line runs to that end; its replay accepts   *)
(* the strategy it has built unless the budget runs out, and refuses it    *)
(* with one of its moves changed for a move that gives the win away        *)
(* (region.rs, verifier.rs, line_to_moves).                                *)
THEOREM PreflightIsExact == Spec => []PreflightExact
<1>1. StagesInv => PreflightExact
    <2> SUFFICES ASSUME StagesInv PROVE PreflightExact
        OBVIOUS
    <2>1. /\ stage # "over" => verdict = Nothing
          /\ stage = "over" => ClaimTrue
          /\ stage = "verify" => Claiming /\ strategy = BuiltStrategy
        BY DEF StagesInv, RegionInv
    <2>2. RankExact
        <3>1. CASE stage = "over"
            BY <2>1, <3>1 DEF ClaimTrue
        <3>2. CASE stage # "over"
            <4>1. verdict.outcome = "None"
                <5>1. verdict = Nothing
                    BY <2>1, <3>2
                <5>2. QED
                    BY <5>1 DEF Nothing
            <4>2. verdict.outcome \notin Decisive
                BY <4>1 DEF Decisive
            <4>3. QED
                BY <4>2 DEF RankExact
        <3>3. QED
            BY <3>1, <3>2
    <2>3. VerifierStrict
        <3> SUFFICES ASSUME stage = "verify", NEW b \in DOMAIN strategy,
                            NEW j \in DOMAIN kids[NodeOf(keys, b)],
                            val[kids[NodeOf(keys, b)][j]] # "Loss"
                     PROVE  ~Verified([strategy EXCEPT ![b] = Next[b][j]], dist[1], used).ok
            BY DEF VerifierStrict
        <3>1. Judged /\ val[1] \in Decisive /\ strategy = BuiltStrategy
            BY <2>1 DEF Claiming
        <3>2. used \in Nat /\ quota \in Nat /\ b \in DOMAIN BuiltStrategy
            BY <3>1, StagesFacts
        <3>3. ~Verified([BuiltStrategy EXCEPT ![b] = Next[b][j]], dist[1], used).ok
            BY <3>1, <3>2, Strict
        <3>4. QED
            BY <3>1, <3>3
    <2>4. CertificateHolds
        BY <2>1 DEF ClaimTrue, CertificateHolds
    <2>5. QED
        BY <2>2, <2>3, <2>4 DEF PreflightExact
<1>2. QED
    BY <1>1, StagesAlways, PTL

LEMMA HighestIs ==
    ASSUME StagesInv
    PROVE  /\ Overshoot \in Nat /\ Overshoot >= MaxMoves
           /\ spent <= budget + Overshoot
           /\ spent < budget \/ Minus(budget, spent) = 0
           /\ spent > 0 => spent < budget + Overshoot
<1> DEFINE o == SimulationBudget * MaxMoves   d == Depth
<1>1. d \in Nat /\ Len(frames) \in Nat
    BY DepthIs DEF StagesInv, FrontInv
<1>2. o \in Nat /\ o >= MaxMoves
    BY StagesAssumption, NumbersAssumption
<1>3. Overshoot = o + d /\ Highest = cap - 1 + o + d
    BY DEF Overshoot, Highest
<1>4. /\ step \in Steps /\ spent \in Nat /\ cap \in Nat /\ budget \in Nat
      /\ step = "idle" => spent = 0
      /\ step # "idle" => cap \in 1 .. budget
    BY DEF StagesInv, FrontInv, ProverInv, ProverTypes, StagesOK, SpentOK
<1>5. step # "idle" => spent < cap \/ spent <= Highest
    <2>1. ASSUME NEW n \in Nat, Affords(n) PROVE spent < cap \/ spent <= Highest
        <3>1. Highest \in Int
            BY <1>1, <1>2, <1>3, <1>4
        <3>2. spent < cap \/ spent + n <= Highest
            BY <2>1 DEF Affords
        <3> HIDE DEF Highest
        <3>3. QED
            BY <1>4, <3>1, <3>2
    <2>2. step \in {"loop", "replay", "call", "reply", "answered"} => Affords(Len(frames))
        BY DEF StagesInv, FrontInv, SpentOK, Replaying
    <2>3. step = "return" => Affords(Len(frames) + 1)
        BY DEF StagesInv, FrontInv, SpentOK
    <2>4. step = "enter" => spent < cap
        BY DEF StagesInv, FrontInv, SpentOK
    <2>5. step \in {"extract", "finished"} => spent <= Highest
        BY DEF StagesInv, FrontInv, SpentOK
    <2>6. Len(frames) + 1 \in Nat
        BY <1>1
    <2>7. QED
        BY <1>1, <1>4, <2>1, <2>2, <2>3, <2>4, <2>5, <2>6 DEF Steps
<1> HIDE DEF o, d
<1>6. MaxMoves \in Nat /\ MaxMoves >= 1
    BY StagesAssumption
<1>7. CASE step = "idle"
    <2>1. spent = 0
        BY <1>4, <1>7
    <2>2. spent < budget \/ Minus(budget, spent) = 0
        BY <1>4, <2>1 DEF Minus
    <2>3. QED
        BY <1>1, <1>2, <1>3, <1>4, <1>6, <2>1, <2>2
<1>8. CASE step # "idle"
    <2>1. cap <= budget /\ (spent < cap \/ spent <= cap - 1 + o + d)
        BY <1>3, <1>4, <1>5, <1>8
    <2>2. spent < budget + (o + d)
        BY <1>1, <1>2, <1>4, <2>1
    <2>3. spent < budget \/ Minus(budget, spent) = 0
        BY <1>4 DEF Minus
    <2>4. QED
        BY <1>1, <1>2, <1>3, <1>4, <1>6, <2>2, <2>3
<1>9. QED
    BY <1>7, <1>8

(* The budget survives being swapped, shrunk and shared out: no counter    *)
(* leaves its range, and all stages together cross the budget by no more   *)
(* than one replay, scans of the moves included, and the calls it unwinds  *)
(* (run.rs, simulation.rs).                                                *)
THEOREM BudgetIsKept == Spec => []BudgetKept
<1>1. StagesInv => BudgetKept
    <2> SUFFICES ASSUME StagesInv PROVE BudgetKept
        OBVIOUS
    <2>1. TypeOK
        <3>1. limit \in 0 .. budget /\ phase \in Phases
            BY DEF StagesInv, ShareOK, FrontInv, StagesOK
        <3>2. late \in {"no", "deadline", "stop"} /\ DOMAIN tt \subseteq Pos /\ frames \in Seq(Frames)
            BY DEF StagesInv, FrontInv, ProverInv, ProverTypes
        <3>3. \A i \in DOMAIN frames : frames[i].pos \in Pos
            <4>1. \A i \in DOMAIN frames : frames[i] \in Frames
                BY <3>2
            <4>2. QED
                BY <4>1 DEF Frames
        <3>4. QED
            BY <3>1, <3>2, <3>3, StagesFacts DEF TypeOK, Phases
    <2>2. WithinBudget
        <3> DEFINE o == Overshoot
        <3>1. /\ charged <= limit + MaxMoves /\ (limit = 0 => charged <= 1)
              /\ phase = "front" => charged = 0
              /\ claim # <<>> => charged = 0
              /\ phase # "front" /\ claim = <<>> => limit = Minus(budget, spent)
            BY DEF StagesInv, ShareOK
        <3>2. /\ o \in Nat /\ o >= MaxMoves /\ spent <= budget + o
              /\ (spent < budget \/ Minus(budget, spent) = 0)
              /\ (spent > 0 => spent < budget + o)
            BY HighestIs
        <3> HIDE DEF o
        <3>3. CASE charged = 0
            BY <3>2, <3>3, StagesFacts DEF WithinBudget, o
        <3>4. CASE charged # 0
            <4>1. limit = Minus(budget, spent)
                BY <3>1, <3>4
            <4>2. CASE spent < budget
                <5>1. limit = budget - spent
                    BY <4>1, <4>2, StagesFacts DEF Minus
                <5>2. spent + charged <= budget + o
                    BY <3>1, <3>2, <5>1, StagesFacts
                <5>3. QED
                    BY <5>2 DEF WithinBudget, o
            <4>3. CASE ~ (spent < budget)
                <5>1. limit = 0
                    BY <3>2, <4>1, <4>3
                <5>2. charged <= 1
                    BY <3>1, <5>1
                <5>3. spent + charged <= budget + o
                    BY <3>2, <5>2, StagesFacts
                <5>4. QED
                    BY <5>3 DEF WithinBudget, o
            <4>4. QED
                BY <4>2, <4>3
        <3>5. QED
            BY <3>3, <3>4
    <2>3. QED
        BY <2>1, <2>2 DEF BudgetKept
<1>2. QED
    BY <1>1, StagesAlways, PTL
=============================================================================
