------------------------------ MODULE LossyTable ------------------------------
(***************************************************************************)
(* The transposition table as its users see it: a map from positions to    *)
(* entries that may lose entries.  A store merges with the entry of the    *)
(* same position and may cost one other entry; a new generation forgets    *)
(* everything.  TranspositionTable, with its buckets and generations,      *)
(* implements it.                                                          *)
(***************************************************************************)
EXTENDS Integers, FiniteSets

CONSTANTS
    Pos,        \* positions (the keys; hash collisions are left out)
    NoMove,     \* Move::NONE
    Inf,        \* INF, the saturated proof number
    Ways        \* live entries from which a store may evict one

VARIABLE tt     \* the live entries, by position

Outcomes == {"Win", "Loss", "Draw"}
NoOutcome == "None"

Capped(n) == IF n \in 0 .. Inf THEN n ELSE Inf      \* min(INF, n)

-----------------------------------------------------------------------------
Solved(e) == e.outcome \in Outcomes

(* probe: the live entry of p, or one that says nothing.                   *)
NoEntry == [best |-> NoMove, outcome |-> "absent", pn |-> 0, dn |-> 0,
            depth |-> 0, rem |-> 0]
Probe(p) == IF p \in DOMAIN tt THEN tt[p] ELSE NoEntry

(* A store never leaves an unsolved entry with both numbers saturated.     *)
Degenerate(e) == e.outcome = NoOutcome /\ Capped(e.pn) = Inf /\ Capped(e.dn) = Inf
Normalised(e) ==
    [e EXCEPT !.pn = IF Degenerate(e) THEN 1 ELSE Capped(e.pn),
              !.dn = IF Degenerate(e) THEN 1 ELSE Capped(e.dn)]

(* Mutant: a store always replaces the entry.                              *)
Replaced(old, e) == Normalised(e)

(* Unsolved bounds never replace a solved entry.                           *)
Merged(old, e) == IF Solved(old) /\ ~Solved(e) THEN old ELSE Normalised(e)

(* The tables a store of e at p can leave: inserting a new key into a full *)
(* bucket loses one other entry.  Which one depends on the work spent on   *)
(* them and on the buckets, so any one may go, or none.                    *)
StoreResults(p, e) ==
    LET kept == DOMAIN tt \ {p}
        full == p \notin DOMAIN tt /\ Cardinality(kept) >= Ways
        with(lost) == [q \in {p} \cup (kept \ lost) |->
                          IF q = p THEN Merged(Probe(p), e) ELSE tt[q]]
    IN  {with({})} \cup {with({q}) : q \in IF full THEN kept ELSE {}}

Store(p, e) == \E t \in StoreResults(p, e) : tt' = t

(* A new generation, or a clear: no entry is found any more.               *)
Forget == tt' = [p \in {} |-> NoEntry]

TableInit == tt = [p \in {} |-> NoEntry]
TableNext(entries) == Forget \/ \E p \in Pos, e \in entries : Store(p, e)

=============================================================================
