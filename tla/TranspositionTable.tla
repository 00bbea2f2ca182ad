-------------------------- MODULE TranspositionTable --------------------------
(***************************************************************************)
(* src/src/search/tt/table.rs: buckets of a few slots, a generation        *)
(* counter that makes every entry stale at once, and the choice of the     *)
(* slot a new entry takes.  What its users may rely on is LossyTable.      *)
(***************************************************************************)
EXTENDS Integers, FiniteSets, FiniteSetsExt

CONSTANTS
    Keys,           \* positions
    Buckets,
    Index,          \* Index[k]: the bucket of k, whatever the salt
    BucketSize,     \* slots of a bucket, 4 in the code
    NoKey, NoMove, Inf,
    Entries,        \* what the callers store
    Works,          \* the work they report
    GenMax          \* u32::MAX, the last generation before the counter wraps

ASSUME TableAssumption ==
    /\ IsFiniteSet(Keys) /\ NoKey \notin Keys
    /\ Index \in [Keys -> Buckets]
    /\ BucketSize \in Nat \ {0} /\ GenMax \in Nat \ {0}
    /\ Inf \in Nat /\ Works \subseteq Nat
    /\ Entries \subseteq [best : Keys \cup {NoMove}, outcome : {"Win", "Loss", "Draw", "None"},
                         pn : Nat, dn : Nat, depth : Nat, rem : Nat]

VARIABLES
    table,          \* table[b][i]: slot i of bucket b
    generation      \* current_generation

tableVars == <<table, generation>>

Slots == 1 .. BucketSize

(* TtEntry::default(): a slot that was never used.                         *)
Vacant == [valid |-> FALSE, key |-> NoKey, gen |-> 0, work |-> 0,
           data |-> [best |-> NoMove, outcome |-> "None", pn |-> 1, dn |-> 1,
                     depth |-> 0, rem |-> 0]]
Cleared == [b \in Buckets |-> [i \in Slots |-> Vacant]]

Live(s) == s.valid /\ s.gen = generation
Solved(s) == s.data.outcome # "None"

(* The live slots of k.                                                    *)
SlotsOf(k) == {i \in Slots : Live(table[Index[k]][i]) /\ table[Index[k]][i].key = k}

(* store: numbers saturate, and are never both saturated without outcome.  *)
Clamped(e) ==
    LET least(n) == IF n <= Inf THEN n ELSE Inf
    IN  IF e.outcome = "None" /\ e.pn >= Inf /\ e.dn >= Inf
        THEN [e EXCEPT !.pn = 1, !.dn = 1]
        ELSE [e EXCEPT !.pn = least(e.pn), !.dn = least(e.dn)]

TableInit == table = Cleared /\ generation = 1

(* The entry of the key exists: the work is the largest one reported, and  *)
(* bounds do not overwrite a solved result.                                *)
Update(s, w, e) ==
    [s EXCEPT !.work = Max({s.work, w}),
              !.data = IF e.outcome # "None" \/ ~Solved(s) THEN Clamped(e) ELSE s.data]

StoreExisting(k, w, e) ==
    /\ SlotsOf(k) # {}
    /\ LET i == Min(SlotsOf(k))
       IN  table' = [table EXCEPT ![Index[k]][i] = Update(@, w, e)]
    /\ UNCHANGED generation

(* Mutant: the proofs are not looked at.                                   *)
LessWork(s, t) == s.work <= t.work

(* insert_new: a slot that is not live, else the least (solved, work), and *)
(* among equals the last one.                                              *)
Cheaper(s, t) ==
    \/ Solved(t) /\ ~Solved(s)
    \/ Solved(s) = Solved(t) /\ s.work <= t.work

Free(bucket) == {i \in Slots : ~Live(bucket[i])}
Victims(bucket) == {i \in Slots : \A j \in Slots : Cheaper(bucket[i], bucket[j])}
Target(bucket) ==
    IF Free(bucket) # {} THEN Min(Free(bucket)) ELSE Max(Victims(bucket))

(* Mutant: the key is inserted although it was found.                      *)
StoreNewAlways(k, w, e) ==
    /\ table' = [table EXCEPT ![Index[k]][Target(table[Index[k]])] =
                    [valid |-> TRUE, key |-> k, gen |-> generation, work |-> w,
                     data |-> Clamped(e)]]
    /\ UNCHANGED generation

StoreNew(k, w, e) ==
    /\ SlotsOf(k) = {}
    /\ table' = [table EXCEPT ![Index[k]][Target(table[Index[k]])] =
                    [valid |-> TRUE, key |-> k, gen |-> generation, work |-> w,
                     data |-> Clamped(e)]]
    /\ UNCHANGED generation

Clear ==
    /\ table' = Cleared
    /\ generation' = 1

(* Mutant: the counter wraps, and the entries of its first round remain.   *)
NewGenerationWraps ==
    /\ generation' = IF generation = GenMax THEN 1 ELSE generation + 1
    /\ UNCHANGED table

NewGeneration ==
    IF generation = GenMax THEN Clear
    ELSE generation' = generation + 1 /\ UNCHANGED table

TableNext ==
    \/ Clear
    \/ NewGeneration
    \/ \E k \in Keys, w \in Works, e \in Entries : StoreExisting(k, w, e) \/ StoreNew(k, w, e)

TableSpec == TableInit /\ [][TableNext]_tableVars

-----------------------------------------------------------------------------
(* Correctness *)

(* probe: what the users see.                                              *)
Contents ==
    [k \in {k \in Keys : SlotsOf(k) # {}} |-> table[Index[k]][Min(SlotsOf(k))].data]

(* A key is live in one slot at most: probe and store, which both take the *)
(* first match, never see a shadowed second copy, even when slots that     *)
(* went stale before the copy was made are reused.                         *)
UniqueLive == \A k \in Keys : Cardinality(SlotsOf(k)) <= 1

(* A proof is given up only when the bucket holds nothing but live proofs, *)
(* and then it is one that cost the least work.                            *)
CheapestLost ==
    generation' = generation /\ table' # Cleared =>
        \A k \in DOMAIN Contents \ DOMAIN Contents' :
            LET bucket == table[Index[k]]
                lost == bucket[Min(SlotsOf(k))]
            IN  Solved(lost) => \A i \in Slots : /\ Live(bucket[i]) /\ Solved(bucket[i])
                                                 /\ lost.work <= bucket[i].work
ProofsOutlive == [][CheapestLost]_tableVars

(* The table is a lossy map: a store touches its own key and at most one   *)
(* other, keeps proofs against bounds, and no entry of an older generation *)
(* is ever found again, also after the counter wrapped.                    *)
Abstract == INSTANCE LossyTable WITH Pos <- Keys, Ways <- BucketSize, tt <- Contents
IsLossyMap == Abstract!TableInit /\ [][Abstract!TableNext(Entries)]_Contents

===============================================================================
