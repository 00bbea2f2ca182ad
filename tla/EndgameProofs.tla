---------------------------- MODULE EndgameProofs ----------------------------
(***************************************************************************)
(* The generator is right for every game: whatever the sweeps hold at any  *)
(* cell of any pass is true, a finished table is the whole truth and its   *)
(* own mirror image, and nothing ever raises an alarm.                     *)
(*                                                                         *)
(* The first section is about the proof search alone: what is forced in n  *)
(* plies stays so in more, and does not depend on the colours.  The second *)
(* compares a cell of the sweep with it, the third is the invariant.       *)
(***************************************************************************)
EXTENDS EndgameTable, TLAPS, FiniteSetTheorems, WellFoundedInduction

-----------------------------------------------------------------------------
(* What can be forced.                                                     *)

Truths(g) == Forced(g)[Plies]

(* A set that holds zero and, with a number, the next one.                 *)
LEMMA Counting ==
    ASSUME NEW N \in Nat, NEW S, 0 \in S, \A k \in 0 .. N : k # 0 /\ k - 1 \in S => k \in S
    PROVE  0 .. N \subseteq S
<1> DEFINE Bad == {k \in 0 .. N : k \notin S}
<1> SUFFICES ASSUME Bad # {} PROVE FALSE
    OBVIOUS
<1>1. Bad \subseteq Nat
    OBVIOUS
<1>2. PICK m \in Bad : \A k \in Bad : ~ (<<k, m>> \in OpToRel(<, Nat))
    <2> HIDE DEF Bad
    <2>1. QED
        BY <1>1, NatLessThanWellFounded, WFMin
<1>3. m \in 0 .. N /\ m \notin S /\ m # 0
    OBVIOUS
<1>4. m - 1 \in Nat /\ m - 1 < m /\ m - 1 \in 0 .. N /\ m \in Nat
    BY <1>3
<1>5. <<m - 1, m>> \in OpToRel(<, Nat)
    BY <1>4 DEF OpToRel
<1>6. m - 1 \notin Bad
    BY <1>2, <1>5
<1>7. QED
    BY <1>3, <1>4, <1>6

(* The recursive definition has a solution.                                *)
LEMMA ForcedEquation ==
    ASSUME NEW g
    PROVE  Forced(g) = [n \in 0 .. Plies |->
                IF n = 0 THEN AtOnce(g) ELSE OnePlyMore(g, Forced(g)[n - 1])]
<1> DEFINE Base == AtOnce(g)
           Next1(w) == OnePlyMore(g, w)
           Built(f, n) == f = [k \in 0 .. n |-> IF k = 0 THEN Base ELSE Next1(f[k - 1])]
           S == {n \in 0 .. Plies : \E f : Built(f, n)}
<1>0. Plies \in Nat
    BY TableAssumption
<1>1. Forced(g) = CHOOSE f : Built(f, Plies)
    <2>1. \A w : (CHOOSE x \in {OnePlyMore(g, before) : before \in {w}} : x = x) = OnePlyMore(g, w)
        OBVIOUS
    <2>2. QED
        BY <2>1 DEF Forced
<1> HIDE DEF Base, Next1
<1>2. 0 \in S
    <2> DEFINE f == [k \in 0 .. 0 |-> Base]
    <2>1. Built(f, 0)
        OBVIOUS
    <2> HIDE DEF Built, f
    <2>2. QED
        BY <1>0, <2>1
<1>3. ASSUME NEW m \in 0 .. Plies, m # 0, m - 1 \in S
      PROVE  m \in S
    <2>1. m - 1 \in 0 .. Plies /\ m - 1 \in Nat /\ m \in Nat /\ m - 1 < m
        BY <1>0, <1>3
    <2>2. PICK f : Built(f, m - 1)
        BY <1>3
    <2> DEFINE h == [k \in 0 .. m |-> IF k = m THEN Next1(f[m - 1]) ELSE f[k]]
    <2>3. \A k \in 0 .. m - 1 : h[k] = f[k]
        BY <2>1
    <2>4. \A k \in 0 .. m : h[k] = IF k = 0 THEN Base ELSE Next1(h[k - 1])
        <3> SUFFICES ASSUME NEW k \in 0 .. m
                     PROVE  h[k] = IF k = 0 THEN Base ELSE Next1(h[k - 1])
            OBVIOUS
        <3>1. CASE k = m
            <4>1. h[k] = Next1(f[m - 1]) /\ h[m - 1] = f[m - 1]
                BY <2>1, <2>3, <3>1
            <4>2. QED
                BY <1>3, <3>1, <4>1
        <3>2. CASE k # m
            <4>1. k \in 0 .. m - 1
                BY <2>1, <3>2
            <4>2. h[k] = f[k] /\ f[k] = IF k = 0 THEN Base ELSE Next1(f[k - 1])
                BY <2>2, <2>3, <4>1
            <4>3. k # 0 => h[k - 1] = f[k - 1]
                BY <2>1, <2>3, <4>1
            <4>4. QED
                BY <4>2, <4>3
        <3>3. QED
            BY <3>1, <3>2
    <2>5. Built(h, m)
        <3>1. h = [k \in 0 .. m |-> h[k]]
            OBVIOUS
        <3> HIDE DEF h
        <3>2. QED
            BY <2>4, <3>1
    <2>6. QED
        BY <2>5
<1>4. Plies \in S
    <2> HIDE DEF S
    <2>1. QED
        BY <1>0, <1>2, <1>3, Counting
<1>5. \E f : Built(f, Plies)
    BY <1>4
<1> HIDE DEF Built
<1>6. Built(Forced(g), Plies)
    BY <1>1, <1>5
<1>7. QED
    BY <1>6 DEF Built, Base, Next1

(* The depths one by one.                                                  *)
LEMMA ForcedAt ==
    ASSUME NEW g, NEW c \in DOMAIN g, NEW i \in Cells
    PROVE  /\ Forced(g)[0][c][i] = IF g[c][i].end \in Ends THEN g[c][i].end ELSE "open"
           /\ \A n \in 0 .. Plies : n # 0 => Forced(g)[n][c][i] = Judged(g[c][i], Forced(g)[n - 1])
<1>0. Plies \in Nat
    BY TableAssumption
<1> DEFINE F == Forced(g)
<1>1. F = [n \in 0 .. Plies |-> IF n = 0 THEN AtOnce(g) ELSE OnePlyMore(g, F[n - 1])]
    BY ForcedEquation
<1> HIDE DEF F
<1>2. F[0] = AtOnce(g)
    BY <1>0, <1>1
<1>3. \A n \in 0 .. Plies : n # 0 => F[n] = OnePlyMore(g, F[n - 1])
    BY <1>1
<1>4. F[0][c][i] = IF g[c][i].end \in Ends THEN g[c][i].end ELSE "open"
    BY <1>2 DEF AtOnce
<1>5. \A n \in 0 .. Plies : n # 0 => F[n][c][i] = Judged(g[c][i], F[n - 1])
    <2> TAKE n \in 0 .. Plies
    <2> HAVE n # 0
    <2>1. F[n] = [d \in DOMAIN g |-> [j \in Cells |-> Judged(g[d][j], F[n - 1])]]
        BY <1>3 DEF OnePlyMore
    <2>2. QED
        BY <2>1
<1>6. QED
    BY <1>4, <1>5 DEF F

(* The truth is what one more ply does not change.                         *)
LEMMA TruthAt ==
    ASSUME NEW g \in Games, NEW c \in DOMAIN g, NEW i \in Cells
    PROVE  Truths(g)[c][i] = Judged(g[c][i], Truths(g))
<1>1. OnePlyMore(g, Truths(g)) = Truths(g)
    BY GameAssumption DEF Truths
<1>2. OnePlyMore(g, Truths(g))[c][i] = Judged(g[c][i], Truths(g))
    BY DEF OnePlyMore
<1>3. QED
    BY <1>1, <1>2

LEMMA JudgedType ==
    ASSUME NEW b, NEW w
    PROVE  Judged(b, w) \in Ends \cup {"open"}
BY DEF Judged, Ends

LEMMA ForcedType ==
    ASSUME NEW g, NEW c \in DOMAIN g, NEW i \in Cells, NEW n \in 0 .. Plies
    PROVE  Forced(g)[n][c][i] \in Ends \cup {"open"}
<1>1. CASE n = 0
    BY <1>1, ForcedAt DEF Ends
<1>2. CASE n # 0
    BY <1>2, ForcedAt, JudgedType
<1>3. QED
    BY <1>1, <1>2

(* Where a move leads is a board of the game.                              *)
LEMMA MoveLeads ==
    ASSUME NEW g \in Games, NEW c \in DOMAIN g, NEW i \in Cells, NEW m \in g[c][i].moves,
           m.end \notin Ends
    PROVE  /\ m.class \in DOMAIN g /\ m.cell \in Cells /\ g[m.class][m.cell].valid
           /\ m.class = c \/ m.class \in Promotions(g, c)
<1>1. BoardOK(g, c, g[c][i])
    BY GameAssumption
<1>2. /\ m.class \in {c} \cup Promotions(g, c) /\ m.cell \in Cells
      /\ g[m.class][m.cell].valid
    BY <1>1 DEF BoardOK
<1>3. QED
    BY <1>2 DEF Promotions

(* What is known after v is known after w.                                 *)
Grows(g, v, w) == \A c \in DOMAIN g, i \in Cells : v[c][i] # "open" => w[c][i] = v[c][i]

LEMMA WorthGrows ==
    ASSUME NEW g \in Games, NEW c \in DOMAIN g, NEW i \in Cells, NEW m \in g[c][i].moves,
           NEW v, NEW w, Grows(g, v, w), Worth(v, m) # "open"
    PROVE  Worth(w, m) = Worth(v, m)
<1>1. CASE m.end \in Ends
    BY <1>1 DEF Worth
<1>2. CASE m.end \notin Ends
    <2>1. m.class \in DOMAIN g /\ m.cell \in Cells
        BY <1>2, MoveLeads
    <2>2. v[m.class][m.cell] # "open" => w[m.class][m.cell] = v[m.class][m.cell]
        BY <2>1 DEF Grows
    <2>3. QED
        BY <1>2, <2>2 DEF Worth
<1>3. QED
    BY <1>1, <1>2

LEMMA JudgedGrows ==
    ASSUME NEW g \in Games, NEW c \in DOMAIN g, NEW i \in Cells,
           NEW v, NEW w, Grows(g, v, w), Judged(g[c][i], v) # "open"
    PROVE  Judged(g[c][i], w) = Judged(g[c][i], v)
<1> DEFINE b == g[c][i]
           seen(u) == {Worth(u, m) : m \in b.moves}
<1>1. \A m \in b.moves : Worth(v, m) # "open" => Worth(w, m) = Worth(v, m)
    BY WorthGrows
<1>2. CASE b.end \in Ends
    BY <1>2 DEF Judged
<1>3. CASE b.end \notin Ends
    <2>1. "Loss" \in seen(v) => "Loss" \in seen(w)
        BY <1>1
    <2>2. seen(v) \subseteq {"Win"} => seen(w) \subseteq {"Win"}
        BY <1>1
    <2>3. \A u : Judged(b, u) = IF "Loss" \in seen(u) THEN "Win"
                                ELSE IF seen(u) \subseteq {"Win"} THEN "Loss" ELSE "open"
        BY <1>3 DEF Judged
    <2>4. seen(v) \subseteq {"Win"} => "Loss" \notin seen(w)
        BY <2>2
    <2> HIDE DEF seen
    <2>5. QED
        BY <2>1, <2>2, <2>3, <2>4
<1>4. QED
    BY <1>2, <1>3

(* A ply more takes nothing back.                                          *)
LEMMA ForcedGrows ==
    ASSUME NEW g \in Games, NEW n \in 0 .. Plies, n # 0
    PROVE  Grows(g, Forced(g)[n - 1], Forced(g)[n])
<1> DEFINE S == {k \in Nat : k + 1 \in 0 .. Plies => Grows(g, Forced(g)[k], Forced(g)[k + 1])}
<1>0. Plies \in Nat /\ n - 1 \in 0 .. Plies /\ n - 1 \in Nat /\ (n - 1) + 1 = n
    BY TableAssumption
<1>1. 0 \in S
    <2> SUFFICES ASSUME 1 \in 0 .. Plies,
                        NEW c \in DOMAIN g, NEW i \in Cells, Forced(g)[0][c][i] # "open"
                 PROVE  Forced(g)[1][c][i] = Forced(g)[0][c][i]
        BY DEF Grows
    <2>1. g[c][i].end \in Ends /\ Forced(g)[0][c][i] = g[c][i].end
        BY ForcedAt
    <2>2. Forced(g)[1][c][i] = Judged(g[c][i], Forced(g)[1 - 1])
        BY ForcedAt
    <2>3. QED
        BY <2>1, <2>2 DEF Judged
<1>2. ASSUME NEW k \in 0 .. Plies, k # 0, k - 1 \in S
      PROVE  k \in S
    <2> SUFFICES ASSUME k + 1 \in 0 .. Plies
                 PROVE  Grows(g, Forced(g)[k], Forced(g)[k + 1])
        BY <1>0
    <2>1. k \in Nat /\ (k - 1) + 1 = k /\ (k + 1) - 1 = k /\ k + 1 # 0
        BY <1>0
    <2>2. Grows(g, Forced(g)[k - 1], Forced(g)[k])
        BY <1>2, <2>1
    <2> SUFFICES ASSUME NEW c \in DOMAIN g, NEW i \in Cells, Forced(g)[k][c][i] # "open"
                 PROVE  Forced(g)[k + 1][c][i] = Forced(g)[k][c][i]
        BY DEF Grows
    <2>3. Forced(g)[k][c][i] = Judged(g[c][i], Forced(g)[k - 1])
        BY <1>2, ForcedAt
    <2>4. Forced(g)[k + 1][c][i] = Judged(g[c][i], Forced(g)[k])
        <3> DEFINE next == k + 1
        <3>1. next \in 0 .. Plies /\ next # 0 /\ next - 1 = k
            BY <2>1
        <3> HIDE DEF next
        <3>2. Forced(g)[next][c][i] = Judged(g[c][i], Forced(g)[next - 1])
            BY <3>1, ForcedAt
        <3>3. QED
            BY <3>1, <3>2 DEF next
    <2>5. QED
        BY <2>2, <2>3, <2>4, JudgedGrows
<1>3. 0 .. Plies \subseteq S
    <2> HIDE DEF S
    <2>1. QED
        BY <1>0, <1>1, <1>2, Counting
<1>4. QED
    BY <1>0, <1>3

(* What is forced sooner is forced later.                                  *)
LEMMA ForcedStays ==
    ASSUME NEW g \in Games, NEW n \in 0 .. Plies, NEW k \in 0 .. Plies, k <= n
    PROVE  Grows(g, Forced(g)[k], Forced(g)[n])
<1> DEFINE S == {j \in 0 .. Plies : k <= j => Grows(g, Forced(g)[k], Forced(g)[j])}
<1>0. Plies \in Nat
    BY TableAssumption
<1>1. 0 \in S
    <2>1. k <= 0 => k = 0
        OBVIOUS
    <2>2. QED
        BY <1>0, <2>1 DEF Grows
<1>2. ASSUME NEW j \in 0 .. Plies, j # 0, j - 1 \in S
      PROVE  j \in S
    <2>1. CASE k = j
        BY <2>1 DEF Grows
    <2>2. CASE k # j
        <3> SUFFICES ASSUME k <= j PROVE Grows(g, Forced(g)[k], Forced(g)[j])
            OBVIOUS
        <3>1. k <= j - 1
            BY <2>2
        <3>2. Grows(g, Forced(g)[k], Forced(g)[j - 1])
            BY <1>2, <3>1
        <3>3. Grows(g, Forced(g)[j - 1], Forced(g)[j])
            BY <1>2, ForcedGrows
        <3>4. QED
            BY <3>2, <3>3 DEF Grows
    <2>3. QED
        BY <2>1, <2>2
<1>3. 0 .. Plies \subseteq S
    <2> HIDE DEF S
    <2>1. QED
        BY <1>0, <1>1, <1>2, Counting
<1>4. QED
    BY <1>3

(* A cell and its mirror image have the same value.                        *)
Even(g, v) == \A c \in DOMAIN g, i \in Cells : v[c][Mirror[i]] = v[c][i]

LEMMA WorthsWithin ==
    ASSUME NEW g \in Games, NEW c \in DOMAIN g, NEW i \in Cells, NEW j \in Cells, NEW v, Even(g, v),
           Alike(g[c][i], g[c][j])
    PROVE  {Worth(v, m) : m \in g[c][i].moves} \subseteq {Worth(v, m) : m \in g[c][j].moves}
<1> SUFFICES ASSUME NEW m \in g[c][i].moves
             PROVE  \E k \in g[c][j].moves : Worth(v, k) = Worth(v, m)
    OBVIOUS
<1>1. PICK k \in g[c][j].moves : /\ k.end = m.end
                                 /\ m.end \notin Ends => k.class = m.class /\ k.cell = Mirror[m.cell]
    BY DEF Alike
<1>2. CASE m.end \in Ends
    BY <1>1, <1>2 DEF Worth
<1>3. CASE m.end \notin Ends
    <2>1. m.class \in DOMAIN g /\ m.cell \in Cells
        BY <1>3, MoveLeads
    <2>2. v[m.class][Mirror[m.cell]] = v[m.class][m.cell]
        BY <2>1 DEF Even
    <2>3. QED
        BY <1>1, <1>3, <2>2 DEF Worth
<1>4. QED
    BY <1>2, <1>3

LEMMA JudgedEven ==
    ASSUME NEW g \in Games, NEW c \in DOMAIN g, NEW i \in Cells, NEW v, Even(g, v)
    PROVE  Judged(g[c][Mirror[i]], v) = Judged(g[c][i], v)
<1>1. Mirror[i] \in Cells /\ Mirror[Mirror[i]] = i
    BY TableAssumption
<1>2. Alike(g[c][i], g[c][Mirror[i]]) /\ Alike(g[c][Mirror[i]], g[c][i])
    BY <1>1, GameAssumption
<1>3. {Worth(v, m) : m \in g[c][i].moves} = {Worth(v, m) : m \in g[c][Mirror[i]].moves}
    BY <1>1, <1>2, WorthsWithin
<1>4. g[c][Mirror[i]].end = g[c][i].end
    BY <1>2 DEF Alike
<1>5. QED
    BY <1>3, <1>4 DEF Judged

LEMMA TruthsEven ==
    ASSUME NEW g \in Games
    PROVE  Even(g, Truths(g))
<1> DEFINE S == {n \in 0 .. Plies : Even(g, Forced(g)[n])}
<1>0. Plies \in Nat
    BY TableAssumption
<1>1. 0 \in S
    <2> SUFFICES ASSUME NEW c \in DOMAIN g, NEW i \in Cells
                 PROVE  Forced(g)[0][c][Mirror[i]] = Forced(g)[0][c][i]
        BY <1>0 DEF Even
    <2>1. Mirror[i] \in Cells /\ g[c][Mirror[i]].end = g[c][i].end
        BY TableAssumption, GameAssumption DEF Alike
    <2>2. QED
        BY <2>1, ForcedAt
<1>2. ASSUME NEW n \in 0 .. Plies, n # 0, n - 1 \in S
      PROVE  n \in S
    <2> SUFFICES ASSUME NEW c \in DOMAIN g, NEW i \in Cells
                 PROVE  Forced(g)[n][c][Mirror[i]] = Forced(g)[n][c][i]
        BY DEF Even
    <2>1. Mirror[i] \in Cells
        BY TableAssumption
    <2>2. Even(g, Forced(g)[n - 1])
        BY <1>2
    <2>3. Judged(g[c][Mirror[i]], Forced(g)[n - 1]) = Judged(g[c][i], Forced(g)[n - 1])
        BY <2>2, JudgedEven
    <2>4. Forced(g)[n][c][i] = Judged(g[c][i], Forced(g)[n - 1])
        BY <1>2, ForcedAt
    <2>5. Forced(g)[n][c][Mirror[i]] = Judged(g[c][Mirror[i]], Forced(g)[n - 1])
        BY <1>2, <2>1, ForcedAt
    <2>6. QED
        BY <2>3, <2>4, <2>5
<1>3. 0 .. Plies \subseteq S
    <2> HIDE DEF S
    <2>1. QED
        BY <1>0, <1>1, <1>2, Counting
<1>4. QED
    BY <1>0, <1>3 DEF Truths

-----------------------------------------------------------------------------
(* The invariant.                                                          *)

Unknown(i) == value[i] = "unknown"


(* A finished table.                                                       *)
Right(g, c, t) ==
    t = [i \in Cells |-> IF g[c][i].valid THEN Final(Truths(g)[c][i]) ELSE "invalid"]

Busy == phase \in {"sweep", "settle", "solver", "prover"}

BuiltRight ==
    /\ DOMAIN built \subseteq DOMAIN game
    /\ \A c \in DOMAIN built : Right(game, c, built[c])

(* The table being filled: what it holds is right, and what it does not    *)
(* hold was open in all passes but the current one.                        *)
Filled ==
    /\ class \in DOMAIN game
    /\ value \in [Cells -> Ends \cup {"unknown", "invalid"}]
    /\ dtm \in [Cells -> 0 .. PassCap]
    /\ \A i \in Cells :
          /\ value[i] = "invalid" <=> ~game[class][i].valid
          /\ Unknown(i) => game[class][i].end \notin Ends
          /\ value[i] \in Ends => value[i] = Final(Truths(game)[class][i])
          /\ dtm[i] > 0 => Forced(game)[dtm[i] - 1][class][i] = "open"

Swept ==
    /\ at \in 1 .. Cardinality(Cells) + 1 /\ pass \in 1 .. PassCap + 1 /\ changed \in BOOLEAN
    /\ \A i \in Cells : Unknown(i) => Forced(game)[pass - 1][class][i] = "open"
    /\ \A i \in Cells : i < at /\ Unknown(i) => Forced(game)[pass][class][i] = "open"
    /\ ~changed => \A i \in Cells : i < at /\ Unknown(i) => Decide(i) = "unknown"

Stuck == \A i \in Cells : Unknown(i) => Decide(i) = "unknown"
Complete == \A i \in Cells : ~Unknown(i)

EndgameInv ==
    /\ game \in Games /\ plan \in Seq(DOMAIN game)
    /\ phase \in {"open", "sweep", "settle", "solver", "prover", "done", "panic"}
    /\ pass \in 0 .. PassCap + 1 /\ defects = 0
    /\ BuiltRight
    /\ \/ ~Busy /\ value = <<>> /\ dtm = <<>>
       \/ Filled
    /\ Busy => Filled /\ Promotions(game, class) \subseteq DOMAIN built
    /\ phase = "sweep" => Swept
    /\ phase = "settle" => Stuck
    /\ phase \in {"solver", "prover"} => Complete
    /\ phase \in {"open", "done", "panic"} /\ value # <<>> => Complete
    /\ timeout # "none" => phase = "solver" /\ sample \in Cells /\ Legal(sample)

-----------------------------------------------------------------------------
(* A cell of the sweep.                                                    *)

(* What holds while a class is being built or looked at.                   *)
Ground ==
    /\ game \in Games /\ BuiltRight /\ Filled /\ Promotions(game, class) \subseteq DOMAIN built

(* What a move is seen to lead to: an unknown cell of this table, or the   *)
(* truth.                                                                  *)
LEMMA SeenTrue ==
    ASSUME Ground, NEW i \in Cells, NEW m \in game[class][i].moves
    PROVE  LET s == Seen(Resolve(class, m))
           IN  \/ s = Final(Worth(Truths(game), m)) /\ s \in Ends
               \/ s = "unknown" /\ m.end \notin Ends /\ m.class = class /\ m.cell \in Cells
                                /\ Unknown(m.cell)
<1>0. class \in DOMAIN game /\ Plies \in 0 .. Plies
    BY TableAssumption DEF Ground, Filled
<1>1. CASE m.end \in Ends
    <2>1. Seen(Resolve(class, m)) = m.end
        BY <1>1 DEF Seen, Resolve
    <2>2. Final(Worth(Truths(game), m)) = m.end
        BY <1>1 DEF Final, Worth, Ends
    <2>3. QED
        BY <1>1, <2>1, <2>2
<1>2. CASE m.end \notin Ends
    <2>1. /\ m.class \in DOMAIN game /\ m.cell \in Cells /\ game[m.class][m.cell].valid
          /\ m.class = class \/ m.class \in Promotions(game, class)
        BY <1>0, <1>2, MoveLeads DEF Ground
    <2>2. Worth(Truths(game), m) = Truths(game)[m.class][m.cell]
        BY <1>2 DEF Worth
    <2>3. CASE m.class = class
        <3>1. Seen(Resolve(class, m)) = value[m.cell]
            BY <1>2, <2>3 DEF Seen, Resolve
        <3>2. value[m.cell] # "invalid"
            BY <2>1, <2>3 DEF Ground, Filled
        <3>3. value[m.cell] \in Ends \cup {"unknown"}
            BY <2>1, <3>2 DEF Ground, Filled
        <3>4. value[m.cell] \in Ends => value[m.cell] = Final(Truths(game)[m.class][m.cell])
            BY <2>1, <2>3 DEF Ground, Filled
        <3>5. QED
            BY <1>2, <2>1, <2>2, <2>3, <3>1, <3>3, <3>4 DEF Unknown
    <2>4. CASE m.class # class
        <3>1. Seen(Resolve(class, m)) = built[m.class][m.cell]
            BY <1>2, <2>4 DEF Seen, Resolve
        <3>2. m.class \in DOMAIN built
            BY <2>1, <2>4 DEF Ground
        <3>3. Right(game, m.class, built[m.class])
            BY <3>2 DEF Ground, BuiltRight
        <3>4. built[m.class][m.cell] = Final(Truths(game)[m.class][m.cell])
            BY <2>1, <3>3 DEF Right
        <3>5. Truths(game)[m.class][m.cell] \in Ends \cup {"open"}
            BY <1>0, <2>1, ForcedType DEF Truths
        <3>6. Final(Truths(game)[m.class][m.cell]) \in Ends
            BY <3>5 DEF Final, Ends
        <3>7. QED
            BY <2>2, <3>1, <3>4, <3>6
    <2>5. QED
        BY <2>3, <2>4
<1>3. QED
    BY <1>1, <1>2

(* The children of an unknown cell are its moves, and it has some.         *)
LEMMA UnknownCell ==
    ASSUME Ground, NEW i \in Cells, Unknown(i)
    PROVE  /\ game[class][i].end \notin Ends /\ game[class][i].moves # {}
           /\ Children(i) = {Resolve(class, m) : m \in game[class][i].moves}
<1>1. class \in DOMAIN game /\ game \in Games /\ game[class][i].end \notin Ends
    BY DEF Ground, Filled
<1>2. game[class][i].valid
    BY DEF Ground, Filled, Unknown
<1>3. game[class][i].moves # {}
    <2>1. BoardOK(game, class, game[class][i])
        BY <1>1, GameAssumption
    <2>2. QED
        BY <1>1, <1>2, <2>1 DEF BoardOK
<1>4. FirstValue(class, i) = "unknown"
    BY <1>1, <1>2 DEF FirstValue
<1>5. QED
    BY <1>1, <1>3, <1>4 DEF Children

(* A cell is decided rightly.                                              *)
LEMMA DecideTrue ==
    ASSUME Ground, NEW i \in Cells, Unknown(i)
    PROVE  \/ Decide(i) = "unknown"
           \/ Decide(i) \in Ends /\ Decide(i) = Truths(game)[class][i]
<1> DEFINE b == game[class][i]
           s(m) == Seen(Resolve(class, m))
           w(m) == Worth(Truths(game), m)
           seen == {Seen(r) : r \in Children(i)}
<1>1. b.end \notin Ends /\ b.moves # {} /\ Children(i) = {Resolve(class, m) : m \in b.moves}
    BY UnknownCell
<1>2. seen = {s(m) : m \in b.moves}
    BY <1>1
<1>3. Truths(game)[class][i] = Judged(b, Truths(game))
    BY TruthAt DEF Ground, Filled
<1>4. \A m \in b.moves : s(m) = Final(w(m)) \/ s(m) = "unknown"
    BY SeenTrue
<1>5. Judged(b, Truths(game)) = IF "Loss" \in {w(m) : m \in b.moves} THEN "Win"
                                ELSE IF {w(m) : m \in b.moves} \subseteq {"Win"} THEN "Loss" ELSE "open"
    BY <1>1 DEF Judged
<1>6. seen # {}
    BY <1>1, <1>2
<1>7. Decide(i) = IF "Loss" \in seen THEN "Win" ELSE IF seen = {"Win"} THEN "Loss" ELSE "unknown"
    BY <1>6 DEF Decide, Unknown
<1>8. \A m \in b.moves : /\ s(m) = "Loss" => w(m) = "Loss"
                         /\ s(m) = "Win" => w(m) = "Win"
    BY <1>4 DEF Final
<1> HIDE DEF b, s, w, seen
<1>9. CASE "Loss" \in seen
    <2>1. "Loss" \in {w(m) : m \in b.moves}
        BY <1>2, <1>8, <1>9
    <2>2. QED
        BY <1>3, <1>5, <1>7, <1>9, <2>1 DEF Ends
<1>10. CASE "Loss" \notin seen /\ seen = {"Win"}
    <2>1. \A m \in b.moves : w(m) = "Win"
        BY <1>2, <1>8, <1>10
    <2>2. "Loss" \notin {w(m) : m \in b.moves} /\ {w(m) : m \in b.moves} \subseteq {"Win"}
        BY <2>1
    <2>3. QED
        BY <1>3, <1>5, <1>7, <1>10, <2>2 DEF Ends
<1>11. QED
    BY <1>7, <1>9, <1>10

(* What is forced within the passes made so far is decided.                *)
LEMMA DecideReached ==
    ASSUME Ground, NEW n \in 0 .. Plies,
           \A j \in Cells : Unknown(j) => Forced(game)[n][class][j] = "open",
           NEW i \in Cells, Unknown(i), Decide(i) = "unknown"
    PROVE  Judged(game[class][i], Forced(game)[n]) = "open"
<1> DEFINE b == game[class][i]
           s(m) == Seen(Resolve(class, m))
           w(m) == Worth(Forced(game)[n], m)
           seen == {Seen(r) : r \in Children(i)}
<1>0. class \in DOMAIN game /\ game \in Games /\ Plies \in 0 .. Plies /\ n <= Plies
    BY TableAssumption DEF Ground, Filled
<1>1. b.end \notin Ends /\ b.moves # {} /\ Children(i) = {Resolve(class, m) : m \in b.moves}
    BY UnknownCell
<1>2. seen = {s(m) : m \in b.moves}
    BY <1>1
<1>3. Grows(game, Forced(game)[n], Truths(game))
    BY <1>0, ForcedStays DEF Truths
<1>4. \A m \in b.moves : w(m) # "open" => s(m) = Final(w(m))
    <2> SUFFICES ASSUME NEW m \in b.moves, w(m) # "open"
                 PROVE  s(m) = Final(w(m))
        OBVIOUS
    <2>1. Worth(Truths(game), m) = w(m)
        BY <1>0, <1>3, WorthGrows
    <2>2. CASE s(m) = Final(Worth(Truths(game), m))
        BY <2>1, <2>2
    <2>3. CASE m.end \notin Ends /\ m.class = class /\ m.cell \in Cells /\ Unknown(m.cell)
        <3>1. w(m) = "open"
            BY <2>3 DEF Worth
        <3>2. QED
            BY <3>1
    <2>4. QED
        BY <2>2, <2>3, SeenTrue
<1>5. Judged(b, Forced(game)[n]) = IF "Loss" \in {w(m) : m \in b.moves} THEN "Win"
                                   ELSE IF {w(m) : m \in b.moves} \subseteq {"Win"} THEN "Loss" ELSE "open"
    BY <1>1 DEF Judged
<1>6. seen # {}
    BY <1>1, <1>2
<1>7. "Loss" \notin seen /\ seen # {"Win"}
    BY <1>6 DEF Decide, Unknown
<1> HIDE DEF b, s, w, seen
<1>8. CASE "Loss" \in {w(m) : m \in b.moves}
    <2>1. PICK m \in b.moves : w(m) = "Loss"
        BY <1>8
    <2>2. s(m) = "Loss"
        BY <1>4, <2>1 DEF Final
    <2>3. QED
        BY <1>2, <1>7, <2>2
<1>9. CASE {w(m) : m \in b.moves} \subseteq {"Win"}
    <2>1. \A m \in b.moves : w(m) = "Win"
        BY <1>9
    <2>2. \A m \in b.moves : s(m) = "Win"
        BY <1>4, <2>1 DEF Final
    <2>3. QED
        BY <1>2, <1>6, <1>7, <2>2
<1>10. QED
    BY <1>5, <1>8, <1>9 DEF b

(* Once a pass changes nothing, what is left is a draw.                    *)
LEMMA StuckIsDrawn ==
    ASSUME Ground, Stuck, NEW i \in Cells, Unknown(i)
    PROVE  Truths(game)[class][i] = "open"
<1> DEFINE S == {n \in 0 .. Plies : \A j \in Cells : Unknown(j) => Forced(game)[n][class][j] = "open"}
<1>0. Plies \in Nat /\ class \in DOMAIN game
    BY TableAssumption DEF Ground, Filled
<1>1. 0 \in S
    BY <1>0, UnknownCell, ForcedAt
<1>2. ASSUME NEW n \in 0 .. Plies, n # 0, n - 1 \in S
      PROVE  n \in S
    <2> SUFFICES ASSUME NEW j \in Cells, Unknown(j)
                 PROVE  Forced(game)[n][class][j] = "open"
        OBVIOUS
    <2>1. n - 1 \in 0 .. Plies
        BY <1>0, <1>2
    <2>2. Judged(game[class][j], Forced(game)[n - 1]) = "open"
        BY <1>2, <2>1, DecideReached DEF Stuck
    <2>3. QED
        BY <1>0, <1>2, <2>2, ForcedAt
<1>3. 0 .. Plies \subseteq S
    <2> HIDE DEF S
    <2>1. QED
        BY <1>0, <1>1, <1>2, Counting
<1>4. QED
    BY <1>0, <1>3 DEF Truths

(* A right table is its own mirror image.                                  *)
LEMMA RightIsEven ==
    ASSUME NEW g \in Games, NEW c \in DOMAIN g, NEW t, Right(g, c, t)
    PROVE  Asymmetric(t) = {}
<1> SUFFICES ASSUME NEW i \in Cells
             PROVE  t[i] = t[Mirror[i]]
    BY DEF Asymmetric
<1>1. Mirror[i] \in Cells
    BY TableAssumption
<1>2. g[c][Mirror[i]].valid = g[c][i].valid
    BY GameAssumption DEF Alike
<1>3. Truths(g)[c][Mirror[i]] = Truths(g)[c][i]
    BY TruthsEven DEF Even
<1>4. QED
    BY <1>1, <1>2, <1>3 DEF Right

(* A table with no unknown cell is right.                                  *)
LEMMA CompleteIsRight ==
    ASSUME Filled, Complete
    PROVE  Right(game, class, value)
<1>1. \A i \in Cells : value[i] = IF game[class][i].valid THEN Final(Truths(game)[class][i]) ELSE "invalid"
    BY DEF Filled, Complete, Unknown
<1>2. value = [i \in Cells |-> value[i]]
    BY DEF Filled
<1>3. QED
    BY <1>1, <1>2 DEF Right

(* A right table raises no alarm.                                          *)
LEMMA NothingContradicted ==
    ASSUME game \in Games, Filled, Complete
    PROVE  Contradicted = {}
<1>1. class \in DOMAIN game /\ ProveDepth \in 0 .. Plies /\ Plies \in 0 .. Plies /\ ProveDepth <= Plies
    BY TableAssumption DEF Filled
<1>2. Contradicted = {i \in Cells : Legal(i) /\ Prove(ProveDepth)[class][i] \notin {"open", value[i]}}
    BY DEF Contradicted, With
<1>3. Grows(game, Forced(game)[ProveDepth], Truths(game))
    BY <1>1, ForcedStays DEF Truths
<1>4. ASSUME NEW i \in Cells, Legal(i)
      PROVE  Prove(ProveDepth)[class][i] \in {"open", value[i]}
    <2>1. value[i] = Final(Truths(game)[class][i])
        BY <1>4 DEF Legal, Filled
    <2>2. Forced(game)[ProveDepth][class][i] # "open" =>
              Truths(game)[class][i] = Forced(game)[ProveDepth][class][i]
        BY <1>1, <1>3 DEF Grows
    <2>3. QED
        BY <2>1, <2>2 DEF Prove, Final
<1>5. QED
    BY <1>2, <1>4

-----------------------------------------------------------------------------
(* The invariant is inductive.                                             *)

(* Every game and plan start with no table at all.                        *)
THEOREM InitEstablishesInv == Init => EndgameInv
<1> SUFFICES ASSUME Init PROVE EndgameInv
    OBVIOUS
<1>1. game \in Games /\ plan \in Seq(DOMAIN game)
    BY GameAssumption DEF Init
<1>2. DOMAIN built = {}
    BY DEF Init
<1>3. QED
    BY <1>1, <1>2, TableAssumption DEF Init, EndgameInv, BuiltRight, Busy

(* What the invariant says of the table that is being filled.              *)
LEMMA GroundHolds ==
    ASSUME EndgameInv, Busy
    PROVE  Ground
BY DEF EndgameInv, Ground

LEMMA OpenKeepsInv ==
    ASSUME EndgameInv, Open
    PROVE  EndgameInv'
<1> DEFINE c == Head(plan)
<1>1. /\ game' = game /\ built' = built /\ defects' = defects /\ timeout' = timeout /\ sample' = sample
      /\ class' = c /\ plan' = Tail(plan) /\ phase' = "sweep" /\ at' = 1 /\ pass' = 1
      /\ changed' = FALSE /\ phase = "open" /\ plan # <<>>
      /\ value' = [i \in Cells |-> FirstValue(c, i)] /\ dtm' = [i \in Cells |-> 0]
      /\ Promotions(game, c) \subseteq DOMAIN built
    BY DEF Open
<1>2. /\ game \in Games /\ plan \in Seq(DOMAIN game) /\ BuiltRight /\ defects = 0 /\ timeout = "none"
    BY <1>1 DEF EndgameInv
<1>3. c \in DOMAIN game /\ Tail(plan) \in Seq(DOMAIN game)
    BY <1>1, <1>2
<1> HIDE DEF c
<1>4. \A i \in Cells : BoardOK(game, c, game[c][i])
    BY <1>2, <1>3, GameAssumption
<1>5. Cardinality(Cells) \in Nat /\ Plies \in Nat /\ 1 \in 0 .. Plies /\ PassCap \in Nat \ {0}
    BY TableAssumption, FS_CardinalityType
<1>6. \A i \in Cells : /\ FirstValue(c, i) \in Ends \cup {"unknown", "invalid"}
                       /\ FirstValue(c, i) = "invalid" <=> ~game[c][i].valid
                       /\ FirstValue(c, i) = "unknown" => game[c][i].end \notin Ends
                       /\ FirstValue(c, i) \in Ends => FirstValue(c, i) = game[c][i].end
    BY <1>4 DEF FirstValue, BoardOK, Ends
<1>7. \A i \in Cells : game[c][i].end \in Ends => Final(Truths(game)[c][i]) = game[c][i].end
    <2> SUFFICES ASSUME NEW i \in Cells, game[c][i].end \in Ends
                 PROVE  Final(Truths(game)[c][i]) = game[c][i].end
        OBVIOUS
    <2>1. Truths(game)[c][i] = Judged(game[c][i], Truths(game))
        BY <1>2, <1>3, TruthAt
    <2>2. QED
        BY <2>1 DEF Judged, Final, Ends
<1>8. \A i \in Cells : FirstValue(c, i) \in Ends => FirstValue(c, i) = Final(Truths(game)[c][i])
    <2> TAKE i \in Cells
    <2> HAVE FirstValue(c, i) \in Ends
    <2>1. FirstValue(c, i) = game[c][i].end
        BY <1>6
    <2>2. QED
        BY <1>7, <2>1
<1>9. \A i \in Cells : game[c][i].end \notin Ends => Forced(game)[0][c][i] = "open"
    BY <1>3, ForcedAt
<1>10. Filled'
    <2>1. /\ class' \in DOMAIN game' /\ value' \in [Cells -> Ends \cup {"unknown", "invalid"}]
          /\ dtm' \in [Cells -> 0 .. PassCap]
        BY <1>1, <1>3, <1>5, <1>6
    <2>2. \A i \in Cells :
              /\ value'[i] = "invalid" <=> ~game'[class'][i].valid
              /\ value'[i] = "unknown" => game'[class'][i].end \notin Ends
              /\ value'[i] \in Ends => value'[i] = Final(Truths(game')[class'][i])
              /\ ~(dtm'[i] > 0)
        BY <1>1, <1>6, <1>8
    <2>3. QED
        BY <2>1, <2>2 DEF Filled, Unknown
<1>11. Swept'
    <2>1. \A i \in Cells : value'[i] = "unknown" => Forced(game')[pass' - 1][class'][i] = "open"
        BY <1>1, <1>6, <1>9
    <2>2. \A i \in Cells : ~(i < at')
        BY <1>1, TableAssumption
    <2>3. at' \in 1 .. Cardinality(Cells) + 1 /\ pass' \in 1 .. PassCap + 1 /\ changed' \in BOOLEAN
        <3>1. at' \in 1 .. Cardinality(Cells) + 1
            BY <1>1, <1>5
        <3>2. pass' \in 1 .. PassCap + 1
            BY <1>1, <1>5
        <3>3. QED
            BY <1>1, <3>1, <3>2
    <2>4. QED
        BY <2>1, <2>2, <2>3 DEF Swept, Unknown
<1>12. BuiltRight'
    BY <1>1, <1>2 DEF BuiltRight, Right
<1>13. pass' \in 0 .. PassCap + 1
    BY <1>1, <1>5
<1>14. QED
    BY <1>1, <1>2, <1>3, <1>10, <1>11, <1>12, <1>13 DEF EndgameInv, Busy

(* The cell the sweep is at is decided, rightly, or stays unknown; in the  *)
(* latter case it was open in this pass too.                               *)
LEMMA SweepCellKeepsInv ==
    ASSUME EndgameInv, SweepCell
    PROVE  EndgameInv'
<1> DEFINE now == Decide(at)
<1>1. /\ game' = game /\ plan' = plan /\ phase' = phase /\ class' = class /\ built' = built
      /\ pass' = pass /\ timeout' = timeout /\ sample' = sample /\ defects' = defects
      /\ phase = "sweep" /\ at \in Cells /\ at' = at + 1
    BY DEF SweepCell
<1>2. /\ value' = [value EXCEPT ![at] = now] /\ dtm' = [dtm EXCEPT ![at] = PassOf(at, now)]
      /\ changed' = Moved(at, now)
    BY DEF SweepCell
<1>3. Ground /\ Filled /\ Swept /\ Busy /\ game \in Games /\ class \in DOMAIN game
    BY <1>1, GroundHolds DEF EndgameInv, Busy, Ground, Filled
<1>4. Cardinality(Cells) \in Nat /\ Plies \in Nat /\ PassCap \in Nat \ {0} /\ PassCap < Plies
      /\ Cells = 1 .. Cardinality(Cells)
    BY TableAssumption, FS_CardinalityType
<1>5. pass \in 1 .. PassCap + 1 /\ pass \in 0 .. Plies /\ pass - 1 \in 0 .. Plies /\ pass # 0
      /\ at \in 1 .. Cardinality(Cells)
    BY <1>1, <1>3, <1>4 DEF Swept
<1>6. ~Unknown(at) => now = value[at]
    BY DEF Decide, Unknown
<1>7. Unknown(at) => now = "unknown" \/ (now \in Ends /\ now = Truths(game)[class][at])
    BY <1>1, <1>3, DecideTrue
<1>8. Unknown(at) /\ now # "unknown" => Forced(game)[pass - 1][class][at] = "open"
    BY <1>1, <1>3 DEF Swept
<1>9. Unknown(at) /\ now = "unknown" => Forced(game)[pass][class][at] = "open"
    <2> SUFFICES ASSUME Unknown(at), now = "unknown"
                 PROVE  Forced(game)[pass][class][at] = "open"
        OBVIOUS
    <2>1. \A j \in Cells : Unknown(j) => Forced(game)[pass - 1][class][j] = "open"
        BY <1>3 DEF Swept
    <2>2. Judged(game[class][at], Forced(game)[pass - 1]) = "open"
        BY <1>1, <1>3, <1>5, <2>1, DecideReached
    <2>3. QED
        BY <1>1, <1>3, <1>5, <2>2, ForcedAt
<1> HIDE DEF now
<1>10. \A i \in Cells : value'[i] = IF i = at THEN now ELSE value[i]
    BY <1>2, <1>3 DEF Filled
<1>11. \A i \in Cells : value'[i] = "unknown" => Unknown(i)
    BY <1>6, <1>10 DEF Unknown
<1>12. Filled'
    <2>1. now \in Ends \cup {"unknown", "invalid"}
        BY <1>1, <1>3, <1>6, <1>7 DEF Filled
    <2>2. value' \in [Cells -> Ends \cup {"unknown", "invalid"}]
        BY <1>2, <1>3, <2>1 DEF Filled
    <2>3. PassOf(at, now) \in 0 .. PassCap
        BY <1>1, <1>3, <1>4, <1>5 DEF PassOf, Filled
    <2>4. dtm' \in [Cells -> 0 .. PassCap]
        BY <1>2, <1>3, <2>3 DEF Filled
    <2>5. \A i \in Cells : /\ value'[i] = "invalid" <=> ~game[class][i].valid
                           /\ value'[i] = "unknown" => game[class][i].end \notin Ends
                           /\ value'[i] \in Ends => value'[i] = Final(Truths(game)[class][i])
        <3> TAKE i \in Cells
        <3>1. CASE i # at \/ ~Unknown(at)
            <4>1. value'[i] = value[i]
                BY <1>6, <1>10, <3>1
            <4>2. QED
                BY <1>3, <4>1 DEF Filled, Unknown
        <3>2. CASE i = at /\ Unknown(at)
            <4>1. value'[i] = now
                BY <1>10, <3>2
            <4>2. game[class][i].valid /\ game[class][i].end \notin Ends
                BY <1>3, <3>2 DEF Filled, Unknown
            <4>3. now # "invalid" /\ (now \in Ends => now = Truths(game)[class][i])
                BY <1>7, <3>2 DEF Ends
            <4>4. now \in Ends => Final(now) = now
                BY DEF Final, Ends
            <4>5. QED
                BY <4>1, <4>2, <4>3, <4>4
        <3>3. QED
            BY <3>1, <3>2
    <2>6. \A i \in Cells : dtm'[i] > 0 => Forced(game)[dtm'[i] - 1][class][i] = "open"
        <3> SUFFICES ASSUME NEW i \in Cells, dtm'[i] > 0
                     PROVE  Forced(game)[dtm'[i] - 1][class][i] = "open"
            OBVIOUS
        <3>1. CASE i # at \/ now = value[at]
            <4>1. dtm'[i] = dtm[i]
                BY <1>2, <1>3, <3>1 DEF PassOf, Filled
            <4>2. QED
                BY <1>3, <4>1 DEF Filled
        <3>2. CASE i = at /\ now # value[at]
            <4>1. Unknown(at) /\ now # "unknown"
                BY <1>6, <3>2 DEF Unknown
            <4>2. Forced(game)[pass - 1][class][i] = "open"
                BY <1>8, <3>2, <4>1
            <4>3. dtm'[i] = IF pass < PassCap THEN pass ELSE PassCap
                BY <1>1, <1>2, <1>3, <3>2 DEF PassOf, Filled
            <4>4. dtm'[i] - 1 \in 0 .. Plies /\ dtm'[i] - 1 <= pass - 1
                BY <1>4, <1>5, <4>3
            <4>5. Grows(game, Forced(game)[dtm'[i] - 1], Forced(game)[pass - 1])
                BY <1>3, <1>5, <4>4, ForcedStays
            <4>6. Forced(game)[dtm'[i] - 1][class][i] # "open" =>
                      Forced(game)[pass - 1][class][i] = Forced(game)[dtm'[i] - 1][class][i]
                BY <1>3, <4>5 DEF Grows
            <4>7. QED
                BY <4>2, <4>6
        <3>3. QED
            BY <3>1, <3>2
    <2>7. QED
        BY <1>1, <1>3, <2>2, <2>4, <2>5, <2>6 DEF Filled, Unknown
<1>13. Swept'
    <2>1. at' \in 1 .. Cardinality(Cells) + 1 /\ pass' \in 1 .. PassCap + 1 /\ changed' \in BOOLEAN
        BY <1>1, <1>2, <1>3, <1>4, <1>5 DEF Swept, Moved
    <2>2. \A i \in Cells : value'[i] = "unknown" => Forced(game)[pass - 1][class][i] = "open"
        BY <1>3, <1>11 DEF Swept
    <2>3. \A i \in Cells : i < at' /\ value'[i] = "unknown" => Forced(game)[pass][class][i] = "open"
        <3> SUFFICES ASSUME NEW i \in Cells, i < at', value'[i] = "unknown"
                     PROVE  Forced(game)[pass][class][i] = "open"
            OBVIOUS
        <3>1. Unknown(i)
            BY <1>11
        <3>2. CASE i = at
            BY <1>9, <1>10, <3>1, <3>2
        <3>3. CASE i # at
            <4>1. i < at
                BY <1>1, <1>4, <1>5, <3>3
            <4>2. QED
                BY <1>3, <3>1, <4>1 DEF Swept
        <3>4. QED
            BY <3>2, <3>3
    <2>4. ~changed' => \A i \in Cells : i < at' /\ value'[i] = "unknown" => Decide(i)' = "unknown"
        <3> SUFFICES ASSUME ~changed', NEW i \in Cells, i < at', value'[i] = "unknown"
                     PROVE  Decide(i)' = "unknown"
            OBVIOUS
        <3>1. ~changed /\ now = value[at]
            BY <1>2 DEF Moved
        <3>2. value' = value
            BY <1>2, <1>3, <3>1 DEF Filled
        <3>3. Decide(i)' = Decide(i)
            <4>1. Children(i)' = Children(i)
                BY <1>1 DEF Children, FirstValue
            <4>2. \A r : Seen(r)' = Seen(r)
                BY <1>1, <3>2 DEF Seen
            <4>3. QED
                BY <3>2, <4>1, <4>2 DEF Decide
        <3>4. Unknown(i)
            BY <1>11
        <3>5. CASE i = at
            BY <3>1, <3>3, <3>4, <3>5 DEF now, Unknown
        <3>6. CASE i # at
            <4>1. i < at
                BY <1>1, <1>4, <1>5, <3>6
            <4>2. QED
                BY <1>3, <3>1, <3>3, <3>4, <4>1 DEF Swept
        <3>7. QED
            BY <3>5, <3>6
    <2>5. QED
        BY <1>1, <2>1, <2>2, <2>3, <2>4 DEF Swept, Unknown
<1>14. BuiltRight' /\ Promotions(game', class') \subseteq DOMAIN built'
    BY <1>1, <1>3 DEF Ground, BuiltRight, Right
<1>15. QED
    BY <1>1, <1>12, <1>13, <1>14 DEF EndgameInv, Busy

(* A pass that changed something is followed by another, one that did not  *)
(* by the end of the sweeps.                                               *)
LEMMA PassEndKeepsInv ==
    ASSUME EndgameInv, PassEnd
    PROVE  EndgameInv'
<1>1. /\ game' = game /\ plan' = plan /\ class' = class /\ built' = built /\ value' = value
      /\ dtm' = dtm /\ timeout' = timeout /\ sample' = sample /\ defects' = defects
      /\ phase = "sweep" /\ at \notin Cells
    BY DEF PassEnd
<1>2. Filled /\ Swept /\ Promotions(game, class) \subseteq DOMAIN built
    BY <1>1 DEF EndgameInv, Busy
<1>3. Cardinality(Cells) \in Nat /\ Cells = 1 .. Cardinality(Cells) /\ PassCap \in Nat \ {0}
    BY TableAssumption, FS_CardinalityType
<1>4. \A i \in Cells : i < at
    BY <1>1, <1>2, <1>3 DEF Swept
<1>5. Filled' /\ BuiltRight' /\ Promotions(game', class') \subseteq DOMAIN built'
    BY <1>1, <1>2 DEF EndgameInv, Filled, Unknown, BuiltRight, Right
<1>6. CASE changed
    <2>1. /\ phase' = "sweep" /\ at' = 1 /\ changed' = FALSE
          /\ pass' = (IF pass > PassCap THEN pass ELSE pass + 1)
        BY <1>1, <1>6 DEF PassEnd, SweepAgain
    <2>2. pass \in 1 .. PassCap + 1 /\ pass' \in 1 .. PassCap + 1 /\ (pass' - 1 = pass \/ pass' = pass)
        BY <1>2, <1>3, <2>1 DEF Swept
    <2>3. \A i \in Cells : Unknown(i) => Forced(game)[pass' - 1][class][i] = "open"
        <3>1. CASE pass' - 1 = pass
            BY <1>2, <1>4, <3>1 DEF Swept
        <3>2. CASE pass' = pass
            BY <1>2, <3>2 DEF Swept
        <3>3. QED
            BY <2>2, <3>1, <3>2
    <2>4. at' \in 1 .. Cardinality(Cells) + 1
        BY <1>3, <2>1
    <2>5. \A i \in Cells : ~(i < at')
        BY <1>3, <2>1
    <2>6. Swept'
        BY <1>1, <2>1, <2>2, <2>3, <2>4, <2>5 DEF Swept, Unknown
    <2>7. QED
        BY <1>1, <1>5, <2>1, <2>2, <2>6 DEF EndgameInv, Busy
<1>7. CASE ~changed
    <2>1. phase' = "settle" /\ pass' = pass
        BY <1>1, <1>7 DEF PassEnd, SweepAgain
    <2>2. \A i \in Cells : Unknown(i) => Decide(i) = "unknown"
        BY <1>2, <1>4, <1>7 DEF Swept
    <2>3. \A i \in Cells : Decide(i)' = Decide(i)
        <3> TAKE i \in Cells
        <3>1. Children(i)' = Children(i)
            BY <1>1 DEF Children, FirstValue
        <3>2. \A r : Seen(r)' = Seen(r)
            BY <1>1 DEF Seen
        <3>3. QED
            BY <1>1, <3>1, <3>2 DEF Decide
    <2>4. Stuck'
        BY <1>1, <2>2, <2>3 DEF Stuck, Unknown
    <2>5. QED
        BY <1>1, <1>5, <2>1, <2>4 DEF EndgameInv, Busy
<1>8. QED
    BY <1>6, <1>7

(* What the sweeps left unknown is a draw.                                 *)
LEMMA SettleKeepsInv ==
    ASSUME EndgameInv, Settle
    PROVE  EndgameInv'
<1>1. /\ game' = game /\ plan' = plan /\ class' = class /\ built' = built /\ value' = Settled
      /\ dtm' = dtm /\ pass' = pass /\ timeout' = timeout /\ sample' = sample
      /\ defects' = defects + (IF Asymmetric(Settled) = {} THEN 0 ELSE 1)
      /\ phase = "settle" /\ phase' = "solver"
    BY DEF Settle
<1>2. Ground /\ Filled /\ Stuck /\ game \in Games /\ defects = 0
    BY <1>1, GroundHolds DEF EndgameInv, Busy
<1>3. \A i \in Cells : value'[i] = IF Unknown(i) THEN "Draw" ELSE value[i]
    BY <1>1 DEF Settled, Unknown
<1>4. \A i \in Cells : value'[i] # "unknown"
    BY <1>3 DEF Unknown
<1>5. Filled'
    <2>1. value' \in [Cells -> Ends \cup {"unknown", "invalid"}]
        BY <1>1, <1>2 DEF Settled, Filled, Ends
    <2>2. \A i \in Cells : /\ value'[i] = "invalid" <=> ~game[class][i].valid
                           /\ value'[i] \in Ends => value'[i] = Final(Truths(game)[class][i])
        <3> TAKE i \in Cells
        <3>1. CASE Unknown(i)
            <4>1. value'[i] = "Draw" /\ value[i] = "unknown"
                BY <1>3, <3>1 DEF Unknown
            <4>2. Truths(game)[class][i] = "open"
                BY <1>2, <3>1, StuckIsDrawn
            <4>3. value[i] = "invalid" <=> ~game[class][i].valid
                BY <1>2 DEF Filled
            <4>4. QED
                BY <4>1, <4>2, <4>3 DEF Final
        <3>2. CASE ~Unknown(i)
            <4>1. value'[i] = value[i]
                BY <1>3, <3>2
            <4>2. QED
                BY <1>2, <4>1 DEF Filled
        <3>3. QED
            BY <3>1, <3>2
    <2>3. QED
        BY <1>1, <1>2, <1>4, <2>1, <2>2 DEF Filled, Unknown
<1>6. Complete'
    BY <1>4 DEF Complete, Unknown
<1>8. Asymmetric(value') = {}
    <2>1. \A i \in Cells : value'[i] = IF game[class][i].valid
                                         THEN Final(Truths(game)[class][i]) ELSE "invalid"
        BY <1>1, <1>4, <1>5 DEF Filled
    <2>2. value' = [i \in Cells |-> value'[i]]
        BY <1>5 DEF Filled
    <2>3. Right(game, class, value')
        BY <2>1, <2>2 DEF Right
    <2>4. QED
        BY <1>2, <2>3, RightIsEven DEF Filled
<1>9. defects' = 0
    BY <1>1, <1>2, <1>8
<1>10. BuiltRight'
    BY <1>1, <1>2 DEF Ground, BuiltRight, Right
<1>11. Promotions(game', class') \subseteq DOMAIN built' /\ timeout' = "none" /\ pass' \in 0 .. PassCap + 1
    BY <1>1, <1>2 DEF Ground, EndgameInv
<1>12. QED
    BY <1>1, <1>5, <1>6, <1>9, <1>10, <1>11 DEF EndgameInv, Busy

(* The comparisons write nothing into the table, and find nothing wrong    *)
(* with it.                                                                *)
LEMMA SampleKeepsInv ==
    ASSUME EndgameInv, TakeSample \/ CompareSample \/ ToProver
    PROVE  EndgameInv'
<1>1. /\ game' = game /\ plan' = plan /\ class' = class /\ built' = built /\ value' = value
      /\ dtm' = dtm /\ pass' = pass /\ phase = "solver"
    BY DEF TakeSample, CompareSample, ToProver
<1>2. Filled /\ Complete /\ BuiltRight /\ Promotions(game, class) \subseteq DOMAIN built
    BY <1>1 DEF EndgameInv, Busy
<1>3. /\ Filled' /\ Complete' /\ BuiltRight' /\ Promotions(game', class') \subseteq DOMAIN built'
    BY <1>1, <1>2 DEF Filled, Complete, Unknown, BuiltRight, Right
<1>4. CASE TakeSample
    <2>1. /\ phase' = phase /\ defects' = defects /\ sample' \in Cells /\ Legal(sample')
        BY <1>4 DEF TakeSample
    <2>2. Legal(sample)'
        BY <1>1, <2>1 DEF Legal
    <2>3. QED
        BY <1>1, <1>3, <2>1, <2>2 DEF EndgameInv, Busy
<1>5. CASE CompareSample
    <2>1. /\ phase' = phase /\ sample' = sample /\ sample \in Cells /\ Legal(sample)
        BY <1>1, <1>5 DEF CompareSample, EndgameInv
    <2>2. Legal(sample)'
        BY <1>1, <2>1 DEF Legal
    <2>3. value[sample] = Truth(class, sample)
        BY <1>2, <2>1 DEF Filled, Legal, Truth, Prove, Truths
    <2>p. PICK late \in BOOLEAN :
              \E answer \in {Truth(class, sample)} \cup (IF late THEN {"Draw"} ELSE {}) :
                  IF Retry(value[sample], answer, late) THEN timeout' = "long" /\ UNCHANGED defects
                  ELSE /\ defects' = defects + (IF Mismatch(value[sample], answer, late) THEN 1 ELSE 0)
                       /\ timeout' = "none"
        BY <1>5 DEF CompareSample
    <2>4. PICK answer \in {Truth(class, sample)} \cup (IF late THEN {"Draw"} ELSE {}) :
              IF Retry(value[sample], answer, late) THEN timeout' = "long" /\ defects' = defects
              ELSE /\ defects' = defects + (IF Mismatch(value[sample], answer, late) THEN 1 ELSE 0)
                   /\ timeout' = "none"
        BY <2>p
    <2>5. ~Mismatch(value[sample], answer, late)
        BY <2>3, <2>4 DEF Mismatch
    <2>6. defects = 0
        BY DEF EndgameInv
    <2>7. defects' = 0
        BY <2>4, <2>5, <2>6
    <2>8. QED
        BY <1>1, <1>3, <2>1, <2>2, <2>7 DEF EndgameInv, Busy
<1>6. CASE ToProver
    <2>1. phase' = "prover" /\ defects' = defects /\ timeout' = timeout /\ timeout = "none"
        BY <1>6 DEF ToProver
    <2>2. QED
        BY <1>1, <1>3, <2>1 DEF EndgameInv, Busy
<1>7. QED
    BY <1>4, <1>5, <1>6

(* A table that joins the finished ones is right.                          *)
LEMMA ProveSamplesKeepsInv ==
    ASSUME EndgameInv, ProveSamples
    PROVE  EndgameInv'
<1>1. /\ game' = game /\ plan' = plan /\ class' = class /\ value' = value
      /\ dtm' = dtm /\ pass' = pass /\ timeout' = timeout /\ sample' = sample
      /\ phase = "prover" /\ phase' = "open"
      /\ built' = [c \in DOMAIN built \cup {class} |-> IF c = class THEN value ELSE built[c]]
    BY DEF ProveSamples
<1>2. Filled /\ Complete /\ BuiltRight /\ defects = 0 /\ game \in Games /\ timeout = "none"
    BY <1>1 DEF EndgameInv, Busy
<1>3. Right(game, class, value)
    BY <1>2, CompleteIsRight
<1>4. BuiltRight'
    <2>1. DOMAIN built' \subseteq DOMAIN game'
        BY <1>1, <1>2 DEF BuiltRight, Filled
    <2>2. \A c \in DOMAIN built' : built'[c] = IF c = class THEN value ELSE built[c]
        BY <1>1
    <2>3. \A c \in DOMAIN built' : c = class \/ c \in DOMAIN built
        BY <1>1
    <2>4. \A c \in DOMAIN built' : Right(game', c, built'[c])
        <3> TAKE c \in DOMAIN built'
        <3>1. CASE c = class
            BY <1>1, <1>3, <2>2, <3>1
        <3>2. CASE c # class
            <4>1. c \in DOMAIN built /\ built'[c] = built[c]
                BY <2>2, <2>3, <3>2
            <4>2. Right(game, c, built[c])
                BY <1>2, <4>1 DEF BuiltRight
            <4>3. QED
                BY <1>1, <4>1, <4>2
        <3>3. QED
            BY <3>1, <3>2
    <2>5. QED
        BY <2>1, <2>4 DEF BuiltRight
<1>5. defects' = 0
    <2>1. PICK found \in SUBSET Contradicted : defects' = defects + Cardinality(found)
        BY DEF ProveSamples
    <2>2. found = {}
        BY <1>2, <2>1, NothingContradicted
    <2>3. QED
        BY <1>2, <2>1, <2>2, FS_EmptySet
<1>6. Filled' /\ Complete'
    BY <1>1, <1>2 DEF Filled, Complete, Unknown
<1>7. QED
    BY <1>1, <1>2, <1>4, <1>5, <1>6 DEF EndgameInv, Busy

(* No step of the generator breaks the invariant.                          *)
THEOREM StepKeepsInv == EndgameInv /\ [Work]_vars => EndgameInv'
<1> SUFFICES ASSUME EndgameInv, [Work]_vars PROVE EndgameInv'
    OBVIOUS
<1>1. CASE Open
    BY <1>1, OpenKeepsInv
<1>2. CASE SweepCell
    BY <1>2, SweepCellKeepsInv
<1>3. CASE PassEnd
    BY <1>3, PassEndKeepsInv
<1>4. CASE Settle
    BY <1>4, SettleKeepsInv
<1>5. CASE TakeSample \/ CompareSample \/ ToProver
    BY <1>5, SampleKeepsInv
<1>6. CASE ProveSamples
    BY <1>6, ProveSamplesKeepsInv
<1>7. CASE Panic \/ Finish
    <2>1. /\ game' = game /\ plan' = plan /\ class' = class /\ built' = built /\ value' = value
          /\ dtm' = dtm /\ pass' = pass /\ timeout' = timeout /\ sample' = sample /\ defects' = defects
          /\ phase = "open" /\ phase' \in {"panic", "done"}
        BY <1>7 DEF Panic, Finish
    <2>2. BuiltRight' /\ (Filled => Filled') /\ (Complete => Complete')
        BY <2>1 DEF EndgameInv, BuiltRight, Right, Filled, Complete, Unknown
    <2>3. QED
        BY <2>1, <2>2 DEF EndgameInv, Busy
<1>8. CASE UNCHANGED vars
    <2>1. \A i \in Cells : Decide(i)' = Decide(i)
        <3> TAKE i \in Cells
        <3>1. Children(i)' = Children(i)
            BY <1>8 DEF vars, Children, FirstValue
        <3>2. \A r : Seen(r)' = Seen(r)
            BY <1>8 DEF vars, Seen
        <3>3. QED
            BY <1>8, <3>1, <3>2 DEF vars, Decide
    <2>2. /\ BuiltRight' /\ (Filled => Filled') /\ (Complete => Complete')
          /\ (Legal(sample) => Legal(sample)')
        BY <1>8 DEF vars, EndgameInv, BuiltRight, Right, Filled, Complete, Unknown, Legal
    <2>3. (Stuck => Stuck') /\ (Swept => Swept')
        BY <1>8, <2>1 DEF vars, Stuck, Swept, Unknown
    <2>4. QED
        BY <1>8, <2>2, <2>3 DEF vars, EndgameInv, Busy
<1>9. QED
    BY <1>1, <1>2, <1>3, <1>4, <1>5, <1>6, <1>7, <1>8 DEF Work

(* The inductive invariant holds in every behaviour of the generator.      *)
THEOREM InvAlways == Spec => []EndgameInv
BY InitEstablishesInv, StepKeepsInv, PTL DEF Spec

(* Whatever the game, the plan and the order of the cells: what the sweeps *)
(* write is true at any cell of any pass, the pass of a cell is no later   *)
(* than its distance to the end, and a table is its own mirror image       *)
(* (table.rs, Table3::build).                                              *)
THEOREM TablesAlwaysTrue == Spec => []TableTrue
<1>1. EndgameInv => TableTrue
    <2> SUFFICES ASSUME EndgameInv PROVE TableTrue
        OBVIOUS
    <2>0. PassCap \in Nat \ {0} /\ Plies \in Nat
        BY TableAssumption
    <2>1. CASE value = <<>> /\ dtm = <<>>
        <3>1. DOMAIN value = {} /\ DOMAIN dtm = {}
            BY <2>1
        <3>2. TypeOK /\ DecidedTrue /\ PassWithinDistance
            BY <2>1, <3>1 DEF EndgameInv, TypeOK, DecidedTrue, PassWithinDistance
        <3>3. MirrorsAgree
            <4> SUFFICES ASSUME phase = "solver" PROVE Asymmetric(value) = {}
                BY DEF MirrorsAgree
            <4>1. Filled /\ Complete /\ game \in Games
                BY DEF EndgameInv, Busy
            <4>2. QED
                BY <4>1, CompleteIsRight, RightIsEven DEF Filled
        <3>4. QED
            BY <3>2, <3>3 DEF TableTrue
    <2>2. CASE Filled
        <3>1. DOMAIN value = Cells /\ DOMAIN dtm = Cells
            BY <2>2 DEF Filled
        <3>2. TypeOK
            BY <2>0, <2>2, <3>1 DEF EndgameInv, TypeOK, Filled
        <3>3. DecidedTrue
            BY <2>2 DEF Filled, DecidedTrue, Prove, Truths
        <3>4. PassWithinDistance
            BY <2>2, <3>1 DEF Filled, PassWithinDistance, Prove
        <3>5. MirrorsAgree
            <4> SUFFICES ASSUME phase = "solver" PROVE Asymmetric(value) = {}
                BY DEF MirrorsAgree
            <4>1. Complete /\ game \in Games
                BY DEF EndgameInv, Busy
            <4>2. QED
                BY <2>2, <4>1, CompleteIsRight, RightIsEven DEF Filled
        <3>6. QED
            BY <3>2, <3>3, <3>4, <3>5 DEF TableTrue
    <2>3. QED
        BY <2>1, <2>2 DEF EndgameInv
<1>2. QED
    BY InvAlways, <1>1, PTL

(* A table read by a later class, and written to disk, is the whole truth  *)
(* of its class (main.rs, the order of --material).                        *)
THEOREM BuiltAlwaysRight == Spec => []BuiltRight
<1>1. EndgameInv => BuiltRight
    BY DEF EndgameInv
<1>2. QED
    BY InvAlways, <1>1, PTL

(* The mirror test and the two cross-validations raise no alarm, however   *)
(* slow the solver is (main.rs, the exit code).                            *)
THEOREM NeverAlarmed == Spec => []NoFalseAlarm
<1>1. EndgameInv => NoFalseAlarm
    BY DEF EndgameInv, NoFalseAlarm
<1>2. QED
    BY InvAlways, <1>1, PTL
==============================================================================
