------------------------------- MODULE Readers -------------------------------
(***************************************************************************)
(* The two tools that only read the database: proofdb_verify replays the   *)
(* whole tree, and proofdb_flip derives what the open rows already imply,  *)
(* pass by pass, and has every claim recomputed by a second, recursive     *)
(* reading.  Both are functions of the rows.                               *)
(***************************************************************************)
EXTENDS ProofStore

-----------------------------------------------------------------------------
(* verify.rs                                                                *)

Outcome(rows, q) == rows[q].outcome
Proven(rows, q) == Outcome(rows, q) # "open"

DomainsHold(rows, q) ==
    /\ q # <<>> => rows[q].prov # {}
    /\ Proven(rows, q) <=> rows[q].bound # NoBound
    /\ Proven(rows, q) <=> rows[q].status # "none"

\* Mutant: the winner of a finished game is not looked at.
TerminalReached(rows, q) == Kids(rows, q) = {} /\ Replies[q] = {}

TerminalHolds(rows, q) == Kids(rows, q) = {} /\ Replies[q] = {} /\ Ended[q] = Outcome(rows, q)

WinHolds(rows, q) ==
    LET lost == {k \in Kids(rows, q) : Outcome(rows, k) = "loss"}
    IN lost # {} /\ rows[q].bound = Min({rows[k].bound : k \in lost}) + 1

LossHolds(rows, q) ==
    LET kids == Kids(rows, q)
    IN /\ {Last(k) : k \in kids} = Replies[q]
       /\ \A k \in kids : Outcome(rows, k) = "win"
       /\ kids # {} => rows[q].bound = Max({rows[k].bound : k \in kids}) + 1

RowHolds(rows, q) ==
    /\ DomainsHold(rows, q)
    /\ Proven(rows, q) => IF rows[q].bound = 0 THEN TerminalHolds(rows, q)
                          ELSE IF Outcome(rows, q) = "win" THEN WinHolds(rows, q)
                          ELSE LossHolds(rows, q)

\* Every row holds, and the walk from the root, which does not go below a
\* proven terminal, meets every row.
VerifyDb(rows) ==
    /\ <<>> \in DOMAIN rows
    /\ \A q \in DOMAIN rows : RowHolds(rows, q)
    /\ \A q \in DOMAIN rows \ {<<>>} :
          /\ Front(q) \in DOMAIN rows
          /\ ~(Proven(rows, Front(q)) /\ rows[Front(q)].bound = 0)

-----------------------------------------------------------------------------
(* flip: fixpoint.rs                                                        *)

OpenRows == Rows \ ProvenRows

\* What a reply is known to be: a proven row, or a claim of the last pass.
Known(claims) == ProvenRows \cup DOMAIN claims
Status(claims, q) ==
    IF q \in ProvenRows
    THEN [loss |-> db.nodes[q].outcome = "loss", bound |-> db.nodes[q].bound,
          exact |-> db.nodes[q].status = "exact"]
    ELSE [loss |-> ~claims[q].win, bound |-> claims[q].bound, exact |-> claims[q].exact]

After(q) == {Append(q, m) : m \in Replies[q]}

\* Mutant: any known reply will do.
ClaimableEarly(claims, q) == Replies[q] # {} /\ After(q) \cap Known(claims) # {}

\* A claim needs one lost reply, or every reply known and none lost.
Claimable(claims, q) ==
    /\ Replies[q] # {}
    /\ \/ \E r \in After(q) \cap Known(claims) : Status(claims, r).loss
       \/ After(q) \subseteq Known(claims)

\* The claim: bound, coverage, whether the bound is called exact, counts.
Classify(claims, q) ==
    LET known    == {r \in After(q) : r \in Known(claims)}
        lost     == {r \in known : Status(claims, r).loss}
        complete == known = After(q)
        least    == Min({Status(claims, r).bound : r \in lost})
    IN IF lost # {}
       THEN [win |-> TRUE, bound |-> least + 1, complete |-> complete,
             exact |-> complete /\ \A r \in lost : Status(claims, r).bound = least =>
                                                       Status(claims, r).exact,
             witnesses |-> Cardinality(lost), unresolved |-> Cardinality(After(q) \ known)]
       ELSE [win |-> FALSE, bound |-> Max({Status(claims, r).bound : r \in known}) + 1,
             complete |-> TRUE, exact |-> \A r \in known : Status(claims, r).exact,
             witnesses |-> 0, unresolved |-> 0]

Pass(claims) == Table([q \in {p \in OpenRows : Claimable(claims, p)} |-> Classify(claims, q)])

Ceiling == Cardinality(OpenRows) + 8

\* The claims after each pass; the first pass that changes nothing is the last.
Passes ==
    LET after[n \in 0 .. Ceiling] ==
            IF n = 0 THEN << <<>> >>
            ELSE LET done == after[n - 1]
                 IN IF Len(done) > 1 /\ done[Len(done)] = done[Len(done) - 1] THEN done
                    ELSE Append(done, Pass(Last(done)))
    IN after[Ceiling]

\* A pass that drops a claim, raises a bound or changes a side is a defect.
Monotone(old, new) ==
    \A q \in DOMAIN old : /\ q \in DOMAIN new
                          /\ new[q].bound <= old[q].bound
                          /\ new[q].win = old[q].win

-----------------------------------------------------------------------------
(* flip: verify.rs                                                          *)

\* The claims a claim rests on: all its replies, or the lost ones.
RestsOn(claims, q) ==
    {r \in After(q) \cap DOMAIN claims : claims[q].win => ~claims[r].win}

\* The recursive reading of the converged claims.
Verified(claims) ==
    LET ok[q \in DOMAIN claims] ==
            /\ q \in OpenRows
            /\ ~claims[q].win => After(q) \subseteq Known(claims)
            /\ Claimable(claims, q)
            /\ claims[q] = Classify(claims, q)
            /\ \A r \in RestsOn(claims, q) : ok[r]
    IN \A q \in DOMAIN claims : ok[q]

\* The tool: converged within the ceiling, monotone all the way, verified.
FlipResult ==
    LET steps == Passes
        n     == Len(steps)
    IN [ok     |-> /\ steps[n] = steps[n - 1]
                   /\ \A i \in 2 .. n : Monotone(steps[i - 1], steps[i])
                   /\ Verified(steps[n]),
        claims |-> steps[n]]
=============================================================================
