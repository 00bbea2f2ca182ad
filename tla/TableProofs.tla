------------------------------ MODULE TableProofs ------------------------------
(***************************************************************************)
(* That the buckets of TranspositionTable are a lossy map, for any keys,   *)
(* buckets and bucket size, and over any number of wraps of the counter.   *)
(***************************************************************************)
EXTENDS TranspositionTable, FiniteSetTheorems, WellFoundedInduction, TLAPS

Data == [best : Keys \cup {NoMove}, outcome : {"Win", "Loss", "Draw", "None"},
         pn : Nat, dn : Nat, depth : Nat, rem : Nat]
Slot == [valid : BOOLEAN, key : Keys \cup {NoKey}, gen : Nat, work : Nat, data : Data]

Typed ==
    /\ table \in [Buckets -> [Slots -> Slot]]
    /\ generation \in 1 .. GenMax

(* A used slot is in the bucket of its key and not of a generation to come. *)
Homed ==
    \A b \in Buckets, i \in Slots :
        table[b][i].valid =>
            /\ table[b][i].key \in Keys /\ Index[table[b][i].key] = b
            /\ table[b][i].gen <= generation

OneCopy == \A k \in Keys : \A i, j \in SlotsOf(k) : i = j

TableInv == Typed /\ Homed /\ OneCopy

-----------------------------------------------------------------------------
(* The least and the greatest of some naturals.                            *)

LEMMA MinOfNats ==
    ASSUME NEW S, S \subseteq Nat, S # {}
    PROVE  Min(S) \in S /\ \A x \in S : Min(S) <= x
<1>1. PICK m \in S : \A x \in S : ~ (<<x, m>> \in OpToRel(<, Nat))
    BY NatLessThanWellFounded, WFMin
<1>2. \A x \in Nat : x < m => <<x, m>> \in OpToRel(<, Nat)
    BY <1>1 DEF OpToRel
<1>3. \A x \in S : m <= x
    <2> SUFFICES ASSUME NEW x \in S PROVE m <= x
        OBVIOUS
    <2>1. ~ (x < m)
        BY <1>1, <1>2
    <2>2. QED
        BY <2>1
<1>4. QED
    BY <1>3 DEF Min

LEMMA MaxOfNats ==
    ASSUME NEW n \in Nat, NEW S, S \subseteq 0 .. n, S # {}
    PROVE  Max(S) \in S /\ \A x \in S : Max(S) >= x
<1> DEFINE T == {n - x : x \in S}
<1>1. T \subseteq Nat /\ T # {}
    <2>1. \A x \in S : n - x \in Nat
        OBVIOUS
    <2>2. QED
        BY <2>1
<1>2. PICK m \in T : \A t \in T : m <= t
    <2> HIDE DEF T
    <2>1. QED
        BY <1>1, MinOfNats
<1>3. PICK y \in S : m = n - y
    BY <1>2
<1>4. \A x \in S : y >= x
    <2> SUFFICES ASSUME NEW x \in S PROVE y >= x
        OBVIOUS
    <2>1. m <= n - x
        BY <1>2
    <2>2. QED
        BY <2>1, <1>3
<1>5. QED
    BY <1>4 DEF Max

-----------------------------------------------------------------------------
(* What store leaves in a slot.                                            *)

LEMMA ClampedIsNormalised ==
    ASSUME NEW e \in Entries
    PROVE  /\ Clamped(e) \in Data /\ Clamped(e).outcome = e.outcome
           /\ Clamped(e) = Abstract!Normalised(e)
<1>1. e \in Data /\ Inf \in Nat
    BY TableAssumption DEF Data
<1>2. /\ e = [best |-> e.best, outcome |-> e.outcome, pn |-> e.pn, dn |-> e.dn,
              depth |-> e.depth, rem |-> e.rem]
      /\ e.best \in Keys \cup {NoMove} /\ e.outcome \in {"Win", "Loss", "Draw", "None"}
      /\ e.pn \in Nat /\ e.dn \in Nat /\ e.depth \in Nat /\ e.rem \in Nat
    BY <1>1 DEF Data
<1> DEFINE pn == Clamped(e).pn
           dn == Clamped(e).dn
<1>3. /\ Clamped(e) = [best |-> e.best, outcome |-> e.outcome, pn |-> pn, dn |-> dn,
                       depth |-> e.depth, rem |-> e.rem]
      /\ pn \in Nat /\ dn \in Nat
    BY <1>1, <1>2 DEF Clamped
<1>4. Clamped(e) = Abstract!Normalised(e)
    <2>1. \A n \in Nat : Abstract!Capped(n) = IF n <= Inf THEN n ELSE Inf
        BY <1>1 DEF Abstract!Capped
    <2>2. Abstract!Degenerate(e) <=> e.outcome = "None" /\ e.pn >= Inf /\ e.dn >= Inf
        BY <1>1, <1>2, <2>1 DEF Abstract!Degenerate, Abstract!NoOutcome
    <2>3. CASE Abstract!Degenerate(e)
        BY <2>2, <2>3 DEF Clamped, Abstract!Normalised
    <2>4. CASE ~ Abstract!Degenerate(e)
        BY <1>2, <2>1, <2>2, <2>4 DEF Clamped, Abstract!Normalised
    <2>5. QED
        BY <2>3, <2>4
<1>5. QED
    BY <1>2, <1>3, <1>4 DEF Data

LEMMA LargerWork ==
    ASSUME NEW v \in Nat, NEW w \in Nat
    PROVE  Max({v, w}) \in Nat
<1>1. CASE v <= w
    BY <1>1, MaxOfNats, {v, w} \subseteq 0 .. w
<1>2. CASE w <= v
    BY <1>2, MaxOfNats, {v, w} \subseteq 0 .. v
<1>3. QED
    BY <1>1, <1>2

(* SolvedAlike: LossyTable's notion of a solved entry is the table's.      *)
LEMMA SolvedAlike ==
    ASSUME NEW d \in Data
    PROVE  Abstract!Solved(d) <=> d.outcome # "None"
BY DEF Data, Abstract!Solved, Abstract!Outcomes

-----------------------------------------------------------------------------
(* What the users see of a table in which every key has one slot.          *)

LEMMA SlotsOfSubset == \A k \in Keys : SlotsOf(k) \subseteq Slots /\ SlotsOf(k) \subseteq Nat
BY TableAssumption DEF SlotsOf, Slots

LEMMA SeenAt ==
    ASSUME TableInv, NEW k \in Keys, NEW i \in SlotsOf(k)
    PROVE  /\ SlotsOf(k) = {i} /\ Min(SlotsOf(k)) = i
           /\ k \in DOMAIN Contents /\ Contents[k] = table[Index[k]][i].data
<1>1. SlotsOf(k) = {i}
    BY DEF TableInv, OneCopy
<1>2. Min(SlotsOf(k)) = i
    BY <1>1, MinOfNats, SlotsOfSubset
<1>3. QED
    BY <1>1, <1>2 DEF Contents

LEMMA Visible ==
    ASSUME TableInv, NEW k
    PROVE  k \in DOMAIN Contents <=> k \in Keys /\ SlotsOf(k) # {}
BY DEF Contents

-----------------------------------------------------------------------------
(* One slot is written.                                                    *)

(* What both stores write at slot i of the bucket of k: nobody else holds  *)
(* k, live, and the slot is live under k from now on.                      *)
Writes(k, i, s) ==
    /\ k \in Keys /\ i \in Slots /\ s \in Slot
    /\ s.valid /\ s.key = k /\ s.gen = generation
    /\ SlotsOf(k) \subseteq {i}
    /\ table' = [table EXCEPT ![Index[k]][i] = s]
    /\ generation' = generation

LEMMA WriteSlots ==
    ASSUME TableInv, NEW k, NEW i, NEW s, Writes(k, i, s)
    PROVE  /\ table' \in [Buckets -> [Slots -> Slot]]
           /\ Index[k] \in Buckets /\ table'[Index[k]][i] = s
           /\ \A b \in Buckets, j \in Slots :
                 (b # Index[k] \/ j # i) => table'[b][j] = table[b][j]
<1>1. Index[k] \in Buckets /\ i \in Slots /\ s \in Slot
    BY TableAssumption DEF Writes
<1>2. table \in [Buckets -> [Slots -> Slot]]
    BY DEF TableInv, Typed
<1>3. table' = [table EXCEPT ![Index[k]] = [table[Index[k]] EXCEPT ![i] = s]]
    BY <1>2, <1>1 DEF Writes
<1>4. [table[Index[k]] EXCEPT ![i] = s] \in [Slots -> Slot]
    BY <1>1, <1>2
<1>5. QED
    BY <1>1, <1>2, <1>3, <1>4

LEMMA WriteMoves ==
    ASSUME TableInv, NEW k, NEW i, NEW s, Writes(k, i, s)
    PROVE  /\ SlotsOf(k)' = {i}
           /\ \A q \in Keys \ {k} :
                 SlotsOf(q)' = IF Index[q] = Index[k] THEN SlotsOf(q) \ {i} ELSE SlotsOf(q)
<1>1. /\ Index[k] \in Buckets /\ table'[Index[k]][i] = s
      /\ \A b \in Buckets, j \in Slots :
            (b # Index[k] \/ j # i) => table'[b][j] = table[b][j]
    BY WriteSlots
<1>2. /\ generation' = generation /\ i \in Slots /\ s.valid /\ s.key = k /\ s.gen = generation
      /\ SlotsOf(k) \subseteq {i}
    BY DEF Writes
<1>3. SlotsOf(k)' = {i}
    BY <1>1, <1>2 DEF SlotsOf, Live
<1>4. ASSUME NEW q \in Keys \ {k}, Index[q] = Index[k]
      PROVE  SlotsOf(q)' = SlotsOf(q) \ {i}
    BY <1>1, <1>2, <1>4 DEF SlotsOf, Live
<1>5. ASSUME NEW q \in Keys \ {k}, Index[q] # Index[k]
      PROVE  SlotsOf(q)' = SlotsOf(q)
    <2>1. Index[q] \in Buckets
        BY TableAssumption
    <2>2. \A j \in Slots : table'[Index[q]][j] = table[Index[q]][j]
        BY <1>1, <1>5, <2>1
    <2>3. QED
        BY <1>2, <2>2 DEF SlotsOf, Live
<1>6. QED
    BY <1>3, <1>4, <1>5

LEMMA WriteKeepsInv ==
    ASSUME TableInv, NEW k, NEW i, NEW s, Writes(k, i, s)
    PROVE  TableInv'
<1>1. /\ k \in Keys /\ i \in Slots /\ s.key = k /\ s.gen = generation
      /\ generation' = generation
    BY DEF Writes
<1>2. Typed'
    BY <1>1, WriteSlots DEF TableInv, Typed
<1>3. Homed'
    <2> SUFFICES ASSUME NEW b \in Buckets, NEW j \in Slots, table'[b][j].valid
                 PROVE  /\ table'[b][j].key \in Keys /\ Index[table'[b][j].key] = b
                        /\ table'[b][j].gen <= generation'
        BY DEF Homed
    <2>1. CASE b = Index[k] /\ j = i
        <3>1. table'[b][j] = s
            BY <2>1, WriteSlots
        <3>2. QED
            BY <3>1, <2>1, <1>1 DEF TableInv, Typed
    <2>2. CASE b # Index[k] \/ j # i
        <3>1. table'[b][j] = table[b][j]
            BY <2>2, WriteSlots
        <3>2. QED
            BY <3>1, <1>1 DEF TableInv, Homed
    <2>3. QED
        BY <2>1, <2>2
<1>4. OneCopy'
    <2> SUFFICES ASSUME NEW q \in Keys, NEW x \in SlotsOf(q)', NEW y \in SlotsOf(q)'
                 PROVE  x = y
        BY DEF OneCopy
    <2>1. CASE q = k
        BY <2>1, WriteMoves
    <2>2. CASE q # k
        <3>1. x \in SlotsOf(q) /\ y \in SlotsOf(q)
            BY <2>2, WriteMoves
        <3>2. QED
            BY <3>1 DEF TableInv, OneCopy
    <2>3. QED
        BY <2>1, <2>2
<1>5. QED
    BY <1>2, <1>3, <1>4 DEF TableInv

(* What the users see afterwards: k with the new data, and without the key *)
(* that lived in the slot, if it is another.                               *)
Lost(k, i) == {q \in Keys \ {k} : Index[q] = Index[k] /\ i \in SlotsOf(q)}

LEMMA WriteContents ==
    ASSUME TableInv, NEW k, NEW i, NEW s, Writes(k, i, s)
    PROVE  /\ DOMAIN Contents' = {k} \cup (DOMAIN Contents \ Lost(k, i))
           /\ Contents'[k] = s.data
           /\ \A q \in DOMAIN Contents' \ {k} : Contents'[q] = Contents[q]
<1>1. TableInv'
    BY WriteKeepsInv
<1>2. k \in DOMAIN Contents' /\ Contents'[k] = s.data
    <2>1. k \in Keys
        BY DEF Writes
    <2>2. SlotsOf(k)' = {i} /\ Min(SlotsOf(k))' = i
        <3>1. SlotsOf(k)' = {i}
            BY WriteMoves
        <3>2. {i} \subseteq Nat
            BY DEF Writes, Slots
        <3>3. QED
            BY <3>1, <3>2, MinOfNats
    <2>3. table'[Index[k]][i] = s
        BY WriteSlots
    <2>4. QED
        BY <2>1, <2>2, <2>3 DEF Contents
<1>3. ASSUME NEW q \in Keys \ {k}
      PROVE  /\ q \in DOMAIN Contents' <=> q \in DOMAIN Contents \ Lost(k, i)
             /\ q \in DOMAIN Contents' => Contents'[q] = Contents[q]
    <2>1. Index[q] \in Buckets
        BY TableAssumption
    <2>2. CASE q \in Lost(k, i)
        <3>1. SlotsOf(q) = {i}
            BY <2>2, SeenAt DEF Lost
        <3>2. SlotsOf(q)' = {}
            BY <2>2, <3>1, WriteMoves DEF Lost
        <3>3. q \notin DOMAIN Contents'
            BY <3>2 DEF Contents
        <3>4. QED
            BY <2>2, <3>3
    <2>3. CASE q \notin Lost(k, i)
        <3>1. SlotsOf(q)' = SlotsOf(q)
            BY <2>3, WriteMoves DEF Lost
        <3>2. q \in DOMAIN Contents' <=> q \in DOMAIN Contents
            BY <3>1 DEF Contents
        <3>3. ASSUME q \in DOMAIN Contents PROVE Contents'[q] = Contents[q]
            <4>1. PICK j \in SlotsOf(q) : TRUE
                BY <3>3 DEF Contents
            <4>2. Min(SlotsOf(q)) = j /\ Contents[q] = table[Index[q]][j].data
                BY <4>1, SeenAt
            <4>3. Min(SlotsOf(q))' = j
                BY <3>1, <4>2
            <4>4. j \in Slots /\ (Index[q] # Index[k] \/ j # i)
                BY <2>3, <4>1, SlotsOfSubset DEF Lost
            <4>5. table'[Index[q]][j] = table[Index[q]][j]
                BY <2>1, <4>4, WriteSlots
            <4>6. Contents'[q] = table'[Index[q]][j].data
                BY <3>2, <3>3, <4>3 DEF Contents
            <4>7. QED
                BY <4>2, <4>5, <4>6
        <3>4. QED
            BY <2>3, <3>2, <3>3
    <2>4. QED
        BY <2>2, <2>3
<1>4. DOMAIN Contents \subseteq Keys /\ DOMAIN Contents' \subseteq Keys
    BY DEF Contents
<1>5. QED
    BY <1>2, <1>3, <1>4 DEF Lost

-----------------------------------------------------------------------------
(* The slot a new key takes.                                               *)

LEMMA TargetSlot ==
    ASSUME TableInv, NEW b \in Buckets
    PROVE  /\ Target(table[b]) \in Slots
           /\ Free(table[b]) # {} => ~ Live(table[b][Target(table[b])])
           /\ Free(table[b]) = {} => Target(table[b]) \in Victims(table[b])
<1> DEFINE row == table[b]
<1>1. row \in [Slots -> Slot] /\ BucketSize \in Nat \ {0}
    BY TableAssumption DEF TableInv, Typed
<1> HIDE DEF row
<1>2. Slots \subseteq Nat /\ Slots \subseteq 0 .. BucketSize /\ 1 \in Slots
    BY <1>1 DEF Slots
<1>3. CASE Free(row) # {}
    <2>1. Free(row) \subseteq Nat
        BY <1>2 DEF Free
    <2>2. Min(Free(row)) \in Free(row)
        BY <1>3, <2>1, MinOfNats
    <2>3. QED
        BY <1>3, <2>2 DEF Target, Free, row
<1>4. CASE Free(row) = {}
    <2> DEFINE Cheap == IF \A i \in Slots : Solved(row[i]) THEN Slots
                        ELSE {i \in Slots : ~ Solved(row[i])}
               C == {row[i].work : i \in Cheap}
    <2>1. Cheap \subseteq Slots /\ Cheap # {}
        BY <1>2
    <2>2. \A i \in Slots : row[i].work \in Nat
        BY <1>1 DEF Slot
    <2>3. C \subseteq Nat /\ C # {}
        BY <2>1, <2>2
    <2>4. PICK i \in Cheap : \A j \in Cheap : row[i].work <= row[j].work
        <3>1. Min(C) \in C /\ \A x \in C : Min(C) <= x
            <4> HIDE DEF C
            <4>1. QED
                BY <2>3, MinOfNats
        <3>2. QED
            BY <3>1
    <2>5. i \in Victims(row)
        <3>1. i \in Slots
            BY <2>1
        <3>2. ASSUME NEW j \in Slots PROVE Cheaper(row[i], row[j])
            <4>1. CASE j \in Cheap
                <5>1. row[i].work <= row[j].work
                    BY <2>4, <4>1
                <5>2. Solved(row[i]) <=> Solved(row[j])
                    BY <2>4, <4>1
                <5>3. QED
                    BY <5>1, <5>2 DEF Cheaper, Solved
            <4>2. CASE j \notin Cheap
                BY <2>4, <4>2 DEF Cheaper
            <4>3. QED
                BY <4>1, <4>2
        <3>3. QED
            BY <3>1, <3>2 DEF Victims
    <2>6. Victims(row) \subseteq 0 .. BucketSize
        BY <1>2 DEF Victims
    <2>7. Max(Victims(row)) \in Victims(row)
        BY <1>1, <2>5, <2>6, MaxOfNats
    <2>8. Target(row) = Max(Victims(row))
        BY <1>4 DEF Target
    <2>9. QED
        BY <1>4, <2>7, <2>8 DEF Victims, row
<1>5. QED
    BY <1>3, <1>4

LEMMA ExistingWrites ==
    ASSUME TableInv, NEW k \in Keys, NEW w \in Works, NEW e \in Entries, StoreExisting(k, w, e)
    PROVE  \E i \in SlotsOf(k) :
              /\ Writes(k, i, Update(table[Index[k]][i], w, e))
              /\ Lost(k, i) = {}
<1> DEFINE i == Min(SlotsOf(k))
           old == table[Index[k]][i]
           new == Update(old, w, e)
<1>1. i \in SlotsOf(k)
    BY MinOfNats, SlotsOfSubset DEF StoreExisting
<1>2. /\ table' = [table EXCEPT ![Index[k]][i] = new]
      /\ generation' = generation
    BY DEF StoreExisting
<1>3. i \in Slots /\ Index[k] \in Buckets /\ old \in Slot
    BY <1>1, TableAssumption DEF SlotsOf, TableInv, Typed
<1>4. old.valid /\ old.key = k /\ old.gen = generation
    BY <1>1 DEF SlotsOf, Live
<1>5. new \in Slot /\ new.valid /\ new.key = k /\ new.gen = generation
    <2>1. w \in Nat
        BY TableAssumption
    <2>2. Max({old.work, w}) \in Nat
        BY <1>3, <2>1, LargerWork DEF Slot
    <2>3. Clamped(e) \in Data
        BY ClampedIsNormalised
    <2>4. QED
        BY <1>3, <1>4, <2>2, <2>3 DEF Update, Slot
<1>6. SlotsOf(k) = {i}
    BY <1>1, SeenAt
<1>7. Lost(k, i) = {}
    BY <1>4 DEF Lost, SlotsOf
<1> HIDE DEF i, new
<1>8. QED
    BY <1>1, <1>2, <1>3, <1>5, <1>6, <1>7 DEF Writes, new

LEMMA NewWrites ==
    ASSUME TableInv, NEW k \in Keys, NEW w \in Works, NEW e \in Entries, StoreNew(k, w, e)
    PROVE  Writes(k, Target(table[Index[k]]),
                  [valid |-> TRUE, key |-> k, gen |-> generation, work |-> w, data |-> Clamped(e)])
<1>1. w \in Nat /\ Index[k] \in Buckets
    BY TableAssumption
<1>2. Clamped(e) \in Data
    BY ClampedIsNormalised
<1>3. generation \in Nat
    BY TableAssumption DEF TableInv, Typed
<1>4. Target(table[Index[k]]) \in Slots
    BY <1>1, TargetSlot
<1>5. QED
    BY <1>1, <1>2, <1>3, <1>4 DEF StoreNew, Writes, Slot

-----------------------------------------------------------------------------
(* Every step keeps the invariant.                                         *)

LEMMA NothingLive ==
    ASSUME Typed, table = Cleared
    PROVE  Homed /\ OneCopy /\ \A k \in Keys : SlotsOf(k) = {}
<1>1. \A b \in Buckets, i \in Slots : ~ table[b][i].valid
    BY DEF Cleared, Vacant
<1>2. \A k \in Keys : SlotsOf(k) = {}
    BY <1>1, TableAssumption DEF SlotsOf, Live
<1>3. QED
    BY <1>1, <1>2 DEF Homed, OneCopy

LEMMA ClearedTyped ==
    Cleared \in [Buckets -> [Slots -> Slot]] /\ 1 \in 1 .. GenMax
<1>1. Vacant \in Slot
    BY DEF Vacant, Slot, Data
<1>2. QED
    BY <1>1, TableAssumption DEF Cleared

LEMMA ClearForgets ==
    ASSUME Clear
    PROVE  TableInv' /\ \A k \in Keys : SlotsOf(k)' = {}
<1>1. Typed'
    BY ClearedTyped DEF Clear, Typed
<1>2. \A b \in Buckets, i \in Slots : ~ table'[b][i].valid
    BY DEF Clear, Cleared, Vacant
<1>3. \A k \in Keys : SlotsOf(k)' = {}
    BY <1>2, TableAssumption DEF SlotsOf, Live
<1>4. QED
    BY <1>1, <1>2, <1>3 DEF TableInv, Homed, OneCopy

(* A generation older than the counter is not live.                        *)
LEMMA NewGenerationForgets ==
    ASSUME TableInv, NewGeneration
    PROVE  TableInv' /\ \A k \in Keys : SlotsOf(k)' = {}
<1>1. CASE generation = GenMax
    BY <1>1, ClearForgets DEF NewGeneration
<1>2. CASE generation # GenMax
    <2>1. generation \in 1 .. GenMax /\ generation' = generation + 1 /\ table' = table
        BY <1>2 DEF NewGeneration, TableInv, Typed
    <2>2. Typed'
        BY <2>1, <1>2, TableAssumption DEF TableInv, Typed
    <2>3. \A b \in Buckets, i \in Slots : table[b][i].gen \in Nat
        BY DEF TableInv, Typed, Slot
    <2>4. \A b \in Buckets, i \in Slots :
              table[b][i].valid => table[b][i].gen < generation'
        BY <2>1, <2>3 DEF TableInv, Homed
    <2>5. Homed'
        <3>1. generation \in Nat
            BY <2>1
        <3>2. QED
            BY <2>1, <2>3, <3>1 DEF TableInv, Homed
    <2>6. \A k \in Keys : SlotsOf(k)' = {}
        <3> SUFFICES ASSUME NEW k \in Keys, NEW i \in SlotsOf(k)' PROVE FALSE
            OBVIOUS
        <3>1. Index[k] \in Buckets /\ i \in Slots
            BY TableAssumption DEF SlotsOf
        <3>2. table[Index[k]][i].valid /\ table[Index[k]][i].gen = generation'
            BY <2>1 DEF SlotsOf, Live
        <3>3. QED
            BY <2>1, <2>3, <2>4, <3>1, <3>2
    <2>7. QED
        BY <2>2, <2>5, <2>6 DEF TableInv, OneCopy
<1>3. QED
    BY <1>1, <1>2

(* The table starts empty.                                                 *)
THEOREM InitEstablishesInv == TableInit => TableInv
BY ClearedTyped, NothingLive DEF TableInit, TableInv, Typed

(* Every store, clear and change of generation keeps the invariant.        *)
THEOREM StepKeepsInv == TableInv /\ [TableNext]_tableVars => TableInv'
<1> SUFFICES ASSUME TableInv, [TableNext]_tableVars PROVE TableInv'
    OBVIOUS
<1>1. CASE Clear
    BY <1>1, ClearForgets
<1>2. CASE NewGeneration
    BY <1>2, NewGenerationForgets
<1>3. ASSUME NEW k \in Keys, NEW w \in Works, NEW e \in Entries, StoreExisting(k, w, e)
      PROVE  TableInv'
    BY <1>3, ExistingWrites, WriteKeepsInv
<1>4. ASSUME NEW k \in Keys, NEW w \in Works, NEW e \in Entries, StoreNew(k, w, e)
      PROVE  TableInv'
    BY <1>4, NewWrites, WriteKeepsInv
<1>5. CASE UNCHANGED tableVars
    BY <1>5 DEF tableVars, TableInv, Typed, Homed, OneCopy, SlotsOf, Live
<1>6. QED
    BY <1>1, <1>2, <1>3, <1>4, <1>5 DEF TableNext

(* The invariant holds in every behaviour of the table.                    *)
THEOREM InvAlways == TableSpec => []TableInv
BY InitEstablishesInv, StepKeepsInv, PTL DEF TableSpec

(* A key is live in one slot at most, so that probe and store, which take  *)
(* the first match, agree for ever on which slot that is (table.rs, store). *)
THEOREM UniqueLiveAlways == TableSpec => []UniqueLive
<1>1. TableInv => UniqueLive
    <2> SUFFICES ASSUME TableInv, NEW k \in Keys PROVE Cardinality(SlotsOf(k)) <= 1
        BY DEF UniqueLive
    <2>1. CASE SlotsOf(k) = {}
        BY <2>1, FS_EmptySet
    <2>2. CASE SlotsOf(k) # {}
        <3>1. PICK i \in SlotsOf(k) : SlotsOf(k) = {i}
            BY <2>2, SeenAt
        <3>2. QED
            BY <3>1, FS_Singleton
    <2>3. QED
        BY <2>1, <2>2
<1>2. QED
    BY <1>1, InvAlways, PTL

-----------------------------------------------------------------------------
(* What a store may cost.                                                  *)

(* The victim was live, in a bucket full of live slots, none cheaper.      *)
LEMMA VictimIsCheapest ==
    ASSUME TableInv, NEW k \in Keys, NEW q \in Lost(k, Target(table[Index[k]]))
    PROVE  LET bucket == table[Index[q]]
               lost == bucket[Min(SlotsOf(q))]
           IN  /\ Free(bucket) = {}
               /\ \A i \in Slots : Live(bucket[i])
               /\ Solved(lost) => \A i \in Slots : Solved(bucket[i]) /\ lost.work <= bucket[i].work
<1> DEFINE b == Index[k]
           t == Target(table[b])
<1>1. b \in Buckets /\ Index[q] = b /\ q \in Keys /\ t \in SlotsOf(q)
    BY TableAssumption DEF Lost
<1>2. Min(SlotsOf(q)) = t
    BY <1>1, SeenAt
<1>3. Live(table[b][t])
    BY <1>1 DEF SlotsOf
<1>4. Free(table[b]) = {} /\ t \in Victims(table[b])
    BY <1>1, <1>3, TargetSlot
<1>5. \A i \in Slots : Live(table[b][i])
    BY <1>4 DEF Free
<1>6. ASSUME Solved(table[b][t]), NEW i \in Slots
      PROVE  Solved(table[b][i]) /\ table[b][t].work <= table[b][i].work
    BY <1>4, <1>6 DEF Victims, Cheaper, Solved
<1> HIDE DEF t
<1>7. QED
    BY <1>1, <1>2, <1>4, <1>5, <1>6

LEMMA StepLosesCheapest ==
    ASSUME TableInv, [TableNext]_tableVars
    PROVE  [CheapestLost]_tableVars
<1> SUFFICES ASSUME TableNext, generation' = generation, table' # Cleared,
                    NEW q \in DOMAIN Contents \ DOMAIN Contents'
             PROVE  LET bucket == table[Index[q]]
                        lost == bucket[Min(SlotsOf(q))]
                    IN  Solved(lost) => \A i \in Slots : /\ Live(bucket[i]) /\ Solved(bucket[i])
                                                         /\ lost.work <= bucket[i].work
    BY DEF CheapestLost
<1>1. CASE Clear
    BY <1>1 DEF Clear
<1>2. CASE NewGeneration
    <2>1. generation' # generation
        BY <1>2 DEF NewGeneration, Clear, TableInv, Typed
    <2>2. QED
        BY <2>1
<1>3. ASSUME NEW k \in Keys, NEW w \in Works, NEW e \in Entries, StoreExisting(k, w, e)
      PROVE  FALSE
    <2>1. PICK i \in SlotsOf(k) : /\ Writes(k, i, Update(table[Index[k]][i], w, e))
                                  /\ Lost(k, i) = {}
        BY <1>3, ExistingWrites
    <2>2. DOMAIN Contents' = {k} \cup (DOMAIN Contents \ Lost(k, i))
        BY <2>1, WriteContents
    <2>3. QED
        BY <2>1, <2>2
<1>4. ASSUME NEW k \in Keys, NEW w \in Works, NEW e \in Entries, StoreNew(k, w, e)
      PROVE  q \in Lost(k, Target(table[Index[k]]))
    <2> DEFINE t == Target(table[Index[k]])
               s == [valid |-> TRUE, key |-> k, gen |-> generation, work |-> w,
                     data |-> Clamped(e)]
    <2>1. Writes(k, t, s)
        BY <1>4, NewWrites
    <2> HIDE DEF t, s
    <2>2. DOMAIN Contents' = {k} \cup (DOMAIN Contents \ Lost(k, t))
        BY <2>1, WriteContents
    <2>3. q \in Lost(k, t)
        BY <2>2
    <2>4. QED
        BY <2>3 DEF t
<1>5. QED
    BY <1>1, <1>2, <1>3, <1>4, VictimIsCheapest DEF TableNext

(* A proof is given up only for a bucket that holds nothing but live       *)
(* proofs, and it is one that cost the least work (table.rs, insert_new).  *)
THEOREM ProofsAlwaysOutlive == TableSpec => ProofsOutlive
BY InvAlways, StepLosesCheapest, PTL DEF TableSpec, ProofsOutlive

-----------------------------------------------------------------------------
(* The refinement: what the users see is LossyTable.                       *)

LEMMA SameCardinality == \A S : Abstract!Cardinality(S) = Cardinality(S)
BY DEF Abstract!Cardinality, Cardinality

(* One slot is written with d, and no key or one is lost.                  *)
LEMMA WriteIsStore ==
    ASSUME TableInv, NEW k, NEW i, NEW s, Writes(k, i, s),
           NEW e \in Entries, s.data = Abstract!Merged(Abstract!Probe(k), e),
           Lost(k, i) = {} \/ /\ k \notin DOMAIN Contents
                              /\ \A j \in Slots : Live(table[Index[k]][j])
                              /\ \E q : Lost(k, i) = {q}
    PROVE  Abstract!Store(k, e)
<1> DEFINE kept == DOMAIN Contents \ {k}
           full == k \notin DOMAIN Contents /\ Cardinality(kept) >= BucketSize
           with(lost) == [q \in {k} \cup (kept \ lost) |->
                             IF q = k THEN Abstract!Merged(Abstract!Probe(k), e) ELSE Contents[q]]
<1>1. Contents' = with(Lost(k, i))
    <2>1. DOMAIN Contents' = {k} \cup (kept \ Lost(k, i))
        BY WriteContents
    <2>2. Contents' = [q \in DOMAIN Contents' |-> Contents'[q]]
        BY DEF Contents
    <2>3. \A q \in DOMAIN Contents' :
              Contents'[q] = IF q = k THEN Abstract!Merged(Abstract!Probe(k), e) ELSE Contents[q]
        BY WriteContents
    <2> HIDE DEF kept
    <2>4. QED
        BY <2>1, <2>2, <2>3
<1>2. CASE Lost(k, i) = {}
    BY <1>1, <1>2 DEF Abstract!Store, Abstract!StoreResults
<1>3. CASE Lost(k, i) # {}
    <2>1. PICK q : Lost(k, i) = {q}
        BY <1>3
    <2>2. k \in Keys /\ Index[k] \in Buckets
        BY TableAssumption DEF Writes
    <2>3. q \in kept
        <3>1. q \in Keys \ {k} /\ i \in SlotsOf(q)
            BY <2>1 DEF Lost
        <3>2. QED
            BY <3>1, SeenAt
    <2>4. full
        <3>1. k \notin DOMAIN Contents /\ \A j \in Slots : Live(table[Index[k]][j])
            BY <1>3
        <3> DEFINE f == [j \in Slots |-> table[Index[k]][j].key]
        <3>2. ASSUME NEW j \in Slots PROVE f[j] \in kept /\ j \in SlotsOf(f[j])
            <4>1. table[Index[k]][j].valid
                BY <3>1 DEF Live
            <4>2. f[j] \in Keys /\ Index[f[j]] = Index[k]
                BY <4>1, <2>2 DEF TableInv, Homed
            <4>3. j \in SlotsOf(f[j])
                BY <3>1, <4>2 DEF SlotsOf
            <4>4. QED
                BY <4>2, <4>3, <3>1, SeenAt
        <3>3. \A x, y \in Slots : f[x] = f[y] => x = y
            <4> SUFFICES ASSUME NEW x \in Slots, NEW y \in Slots, f[x] = f[y] PROVE x = y
                OBVIOUS
            <4>1. f[x] \in Keys /\ x \in SlotsOf(f[x]) /\ y \in SlotsOf(f[x])
                BY <3>2 DEF Contents
            <4> HIDE DEF f
            <4>2. QED
                BY <4>1 DEF TableInv, OneCopy
        <3>4. f \in Injection(Slots, kept)
            <4>1. f \in [Slots -> kept]
                BY <3>2
            <4> HIDE DEF f, kept
            <4>2. QED
                BY <4>1, <3>3 DEF Injection, IsInjective
        <3>5. IsFiniteSet(kept)
            <4>1. kept \in SUBSET Keys
                BY DEF Contents
            <4>2. QED
                BY <4>1, TableAssumption, FS_Subset
        <3>6. Cardinality(Slots) = BucketSize
            BY TableAssumption, FS_Interval DEF Slots
        <3>7. Cardinality(kept) \in Nat /\ Cardinality(Slots) <= Cardinality(kept)
            <4> HIDE DEF f, kept
            <4>1. QED
                BY <3>4, <3>5, FS_Injection, FS_CardinalityType
        <3>8. QED
            BY <3>1, <3>6, <3>7, TableAssumption
    <2>5. Contents' \in {with({r}) : r \in IF full THEN kept ELSE {}}
        <3>1. Contents' = with({q})
            BY <1>1, <2>1
        <3> HIDE DEF with, full, kept
        <3>2. QED
            BY <3>1, <2>3, <2>4
    <2>6. {with({r}) : r \in IF full THEN kept ELSE {}} \subseteq Abstract!StoreResults(k, e)
        <3>1. Abstract!StoreResults(k, e) = {with({})} \cup {with({r}) : r \in IF full THEN kept ELSE {}}
            BY SameCardinality DEF Abstract!StoreResults
        <3>2. QED
            BY <3>1
    <2> HIDE DEF with, full, kept
    <2>7. Contents' \in Abstract!StoreResults(k, e)
        BY <2>5, <2>6
    <2>8. QED
        BY <2>7 DEF Abstract!Store
<1>4. QED
    BY <1>2, <1>3

LEMMA ExistingStores ==
    ASSUME TableInv, NEW k \in Keys, NEW w \in Works, NEW e \in Entries, StoreExisting(k, w, e)
    PROVE  Abstract!Store(k, e)
<1>1. PICK i \in SlotsOf(k) : /\ Writes(k, i, Update(table[Index[k]][i], w, e))
                              /\ Lost(k, i) = {}
    BY ExistingWrites
<1> DEFINE old == table[Index[k]][i]
<1>2. k \in DOMAIN Contents /\ Contents[k] = old.data
    BY <1>1, SeenAt
<1>3. old \in Slot /\ old.data \in Data
    BY TableAssumption, SlotsOfSubset DEF TableInv, Typed, Slot
<1>4. e \in Data
    BY TableAssumption DEF Data
<1>5. Update(old, w, e).data = IF e.outcome # "None" \/ ~ Solved(old) THEN Clamped(e) ELSE old.data
    BY <1>3 DEF Update, Slot
<1>6. Abstract!Probe(k) = old.data
    BY <1>2 DEF Abstract!Probe
<1>7. Update(old, w, e).data = Abstract!Merged(Abstract!Probe(k), e)
    BY <1>3, <1>4, <1>5, <1>6, ClampedIsNormalised, SolvedAlike DEF Abstract!Merged, Solved
<1>8. QED
    BY <1>1, <1>7, WriteIsStore

LEMMA NewStores ==
    ASSUME TableInv, NEW k \in Keys, NEW w \in Works, NEW e \in Entries, StoreNew(k, w, e)
    PROVE  Abstract!Store(k, e)
<1> DEFINE t == Target(table[Index[k]])
           s == [valid |-> TRUE, key |-> k, gen |-> generation, work |-> w, data |-> Clamped(e)]
<1>1. Writes(k, t, s)
    BY NewWrites
<1>2. k \notin DOMAIN Contents
    BY DEF StoreNew, Contents
<1>3. s.data = Abstract!Merged(Abstract!Probe(k), e)
    <2>1. Abstract!Probe(k).outcome = "absent"
        BY <1>2 DEF Abstract!Probe, Abstract!NoEntry
    <2>2. ~ Abstract!Solved(Abstract!Probe(k))
        BY <2>1 DEF Abstract!Solved, Abstract!Outcomes
    <2>3. QED
        BY <2>2, ClampedIsNormalised DEF Abstract!Merged
<1>4. ASSUME Lost(k, t) # {}
      PROVE  (\A j \in Slots : Live(table[Index[k]][j])) /\ \E q : Lost(k, t) = {q}
    <2>1. PICK q \in Lost(k, t) : TRUE
        BY <1>4
    <2>2. \A j \in Slots : Live(table[Index[k]][j])
        BY VictimIsCheapest DEF Lost
    <2>3. \A r \in Lost(k, t) : r = table[Index[k]][t].key
        BY DEF Lost, SlotsOf
    <2>4. Lost(k, t) = {q}
        BY <2>1, <2>3
    <2>5. QED
        BY <2>2, <2>4
<1> HIDE DEF t, s
<1>5. QED
    BY <1>1, <1>2, <1>3, <1>4, WriteIsStore

LEMMA ForgetsAll ==
    ASSUME \A k \in Keys : SlotsOf(k)' = {}
    PROVE  Abstract!Forget
BY DEF Abstract!Forget, Contents

(* The whole table implements LossyTable: a store touches its own key and  *)
(* at most one other, keeps proofs against bounds, and no entry of an      *)
(* older generation is found again, also after the counter wrapped.        *)
THEOREM ImplementsLossyMap == TableSpec => IsLossyMap
<1>1. TableInit => Abstract!TableInit
    <2> SUFFICES ASSUME TableInit PROVE Abstract!TableInit
        OBVIOUS
    <2>1. \A k \in Keys : SlotsOf(k) = {}
        BY ClearedTyped, NothingLive DEF TableInit, Typed
    <2>2. QED
        BY <2>1 DEF Abstract!TableInit, Contents
<1>2. TableInv /\ [TableNext]_tableVars => [Abstract!TableNext(Entries)]_Contents
    <2> SUFFICES ASSUME TableInv, [TableNext]_tableVars
                 PROVE  [Abstract!TableNext(Entries)]_Contents
        OBVIOUS
    <2>1. CASE Clear \/ NewGeneration
        BY <2>1, ClearForgets, NewGenerationForgets, ForgetsAll DEF Abstract!TableNext
    <2>2. ASSUME NEW k \in Keys, NEW w \in Works, NEW e \in Entries,
                 StoreExisting(k, w, e) \/ StoreNew(k, w, e)
          PROVE  Abstract!TableNext(Entries)
        BY <2>2, ExistingStores, NewStores DEF Abstract!TableNext
    <2>3. CASE UNCHANGED tableVars
        BY <2>3 DEF tableVars, Contents, SlotsOf, Live
    <2>4. QED
        BY <2>1, <2>2, <2>3 DEF TableNext
<1>3. QED
    BY <1>1, <1>2, InvAlways, PTL DEF TableSpec, IsLossyMap

================================================================================
