----------------------------- MODULE ProofCycle -----------------------------
(***************************************************************************)
(* The operation of the proof database: harvest sessions and folds, one at *)
(* a time, with crashes, binaries that change on the disk, and the removal *)
(* of shards that are folded.                                              *)
(***************************************************************************)
EXTENDS Fold, Harvest, Readers

CONSTANT MaxFaults      \* binaries that change behind the tools' backs

VARIABLE spoilt         \* the tags whose binary did, in a set that only grows

vars == <<storeVars, fold, session, spoilt>>

Init == StoreInit /\ FoldInit /\ HarvestInit /\ spoilt = {}

Quiet == fold.phase = Idle /\ session.phase = "off"

FoldRuns == session.phase = "off" /\ FoldNext /\ UNCHANGED <<session, spoilt>>
HarvestRuns == fold.phase = Idle /\ HarvestNext /\ UNCHANGED <<fold, spoilt>>

\* Between two runs, the binary of a committed shard is truncated.
Spoil(tag) ==
    /\ Quiet
    /\ Cardinality(spoilt) < MaxFaults
    /\ tag \in DOMAIN sides \ spoilt
    /\ WriteBin(tag, Torn)
    /\ spoilt' = spoilt \cup {tag}
    /\ UNCHANGED <<sides, db, fold, session>>

\* The pairs of the shards that are folded may be deleted.
DeleteTransport ==
    /\ Quiet
    /\ DOMAIN db.shards \cap DOMAIN bins # {}
    /\ bins' = [t \in DOMAIN bins \ DOMAIN db.shards |-> bins[t]]
    /\ sides' = [t \in DOMAIN sides \ DOMAIN db.shards |-> sides[t]]
    /\ UNCHANGED <<db, fold, session, spoilt>>

Next ==
    \/ FoldRuns
    \/ HarvestRuns
    \/ \E tag \in DOMAIN sides : Spoil(tag)
    \/ DeleteTransport

\* A job ends at its budget or its timeout, and the walk moves on to the next.
Spec == Init /\ [][Next]_vars
             /\ WF_vars(SessionStep /\ UNCHANGED <<fold, spoilt>>)
             /\ WF_vars(session.phase = "off" /\ (FoldShard \/ FinishFold) /\ UNCHANGED <<session, spoilt>>)

-----------------------------------------------------------------------------
Tags == {"h", "m"} \X Paths

TypeOK ==
    /\ \A tag \in DOMAIN bins : tag \in Tags /\ (bins[tag] = Torn \/ bins[tag] \in ProofsAt[tag[2]])
    /\ \A tag \in DOMAIN sides :
          tag \in Tags /\ sides[tag].path = tag[2] /\ sides[tag].outcome \in OutcomeNames
    /\ DOMAIN db.shards \subseteq Tags
    /\ Rows \subseteq Paths /\ \A q \in Rows : db.nodes[q].outcome \in OutcomeNames
    /\ DOMAIN db.censor \cup db.drawn \subseteq Paths
    /\ fold.phase \in {Idle, "shards"}
    /\ session.phase \in {"off", "walk", "search", "bin", "sidecar"}

\* The shards of the database overlaid from nothing, in any order: the paths
\* they name or claim, and the shards that name and that claim a path.
Touched(shards) ==
    {<<>>} \cup UNION {Prefixes(shards[t].path) \cup DOMAIN shards[t].sha : t \in DOMAIN shards}
Naming(shards, q) == {t \in DOMAIN shards : IsPrefix(q, shards[t].path)}
Claiming(shards, q) == {t \in DOMAIN shards : q \in DOMAIN shards[t].sha}
Overlay(shards) ==
    [q \in Touched(shards) |-> [outcome |-> IF Claiming(shards, q) = {} THEN "open" ELSE Value[q],
                                prov    |-> Naming(shards, q) \cup Claiming(shards, q),
                                exact   |-> {}]]

\* However many folds, skips, rollbacks and reruns it took, the committed tree
\* is what one fold of all its shards from an empty database gives: the rows,
\* outcomes, bounds and provenance (fold.rs, the idempotent incremental fold).
StandingIsFoldOfShards ==
    db.schema =>
        \E tree \in {Overlay(db.shards)} : \E bounds \in {Bounds(tree)} :
            /\ Rows = DOMAIN tree
            /\ \A q \in Rows : /\ db.nodes[q].outcome = tree[q].outcome
                               /\ db.nodes[q].bound = bounds[q]
                               /\ db.nodes[q].prov = tree[q].prov
            /\ db.builtFrom = {<<t, db.shards[t].sha>> : t \in DOMAIN db.shards}

\* The contract a consumer relies on (docs/spec/global_proof_store.md, 4): a
\* won row keeps a lost child, a lost row every legal reply, a row of bound 0
\* is a finished game, and no row hangs in the air.
StoreContract ==
    \A q \in Rows :
        LET row == db.nodes[q]
            kids == Kids(db.nodes, q)
        IN /\ q # <<>> => Front(q) \in Rows /\ db.nodes[Front(q)].id < row.id
           /\ row.outcome = "win" => \E k \in kids : db.nodes[k].outcome = "loss"
           /\ row.outcome = "loss" => /\ {Last(k) : k \in kids} = Replies[q]
                                      /\ \A k \in kids : db.nodes[k].outcome = "win"
           /\ row.bound = 0 => Replies[q] = {}

Consulted == Quiet /\ db.schema

\* proofdb_verify accepts what the folds commit (proofdb_verify.rs).
VerifierAccepts == Consulted => VerifyDb(db.nodes)

\* One row lost, or one of its fields changed.
Damaged(rows) ==
    {[r \in DOMAIN rows \ {q} |-> rows[r]] : q \in DOMAIN rows}
    \cup {[rows EXCEPT ![q].outcome = o] : q \in DOMAIN rows, o \in OutcomeNames}
    \cup {[rows EXCEPT ![q].bound = b] : q \in DOMAIN rows, b \in {NoBound, 0, 1}}

\* A tree the verifier accepts proves what its rows say, even one that was
\* changed after the fold: outcomes by the rules, bounds that can be kept.
VerifierSound ==
    Consulted =>
        \A rows \in Damaged(db.nodes) :
            VerifyDb(rows) =>
                \A q \in DOMAIN rows : rows[q].outcome # "open" =>
                    rows[q].outcome = Value[q] /\ rows[q].bound >= Distance[q]

\* The verifier accepts every tree the folds commit and no damaged one that
\* claims what is not so (proofdb_verify.rs, verify.rs).
VerifierExact == VerifierAccepts /\ VerifierSound

\* The flip analysis ends without a defect and every claim is right: the
\* outcome is the one of the rules, the bound one that can be kept
\* (flip/mod.rs, the two polarities).
FlipsSound ==
    Consulted =>
        \E flips \in {FlipResult} :
            /\ flips.ok
            /\ \A q \in DOMAIN flips.claims :
                  /\ Value[q] = IF flips.claims[q].win THEN "win" ELSE "loss"
                  /\ flips.claims[q].bound >= Distance[q]

\* A bound that the analysis calls exact is the distance to the end
\* (flip/mod.rs, BoundMode).
ExactFlips ==
    Consulted =>
        \E flips \in {FlipResult} :
            \A q \in DOMAIN flips.claims :
                flips.claims[q].exact => flips.claims[q].bound = Distance[q]

\* A sidecar on the disk means its binary is there and is the one it
\* describes, whatever crashed in between (sidecar.rs, the commit marker);
\* only a binary changed by someone else breaks this.
SidecarCommits ==
    \A tag \in DOMAIN sides \ spoilt : tag \in DOMAIN bins /\ bins[tag] = sides[tag].sha

\* What is durable is whole: the committed tree is the fold of its shards and
\* keeps its contract, and a sidecar commits its binary (fold.rs, sidecar.rs).
StoreSound == TypeOK /\ StandingIsFoldOfShards /\ StoreContract /\ SidecarCommits

Settled == ProvenRows \cup db.drawn \cup Standing \cup session.fresh \cup OrClosedRows(session.scope)

\* White-to-move nodes won by a shard of this session.
WonByChild == {Front(q) : q \in {r \in session.fresh : r # <<>> /\ Value[r] = "loss"
                                                         /\ WhiteToMove(Front(r))}}

\* No visit is spent at or under what is settled within the scope: a proven
\* row, a shard, a proven draw, or a white-to-move node with a lost child,
\* in the database or found in this session (walk.rs, D2 and D3).  Such a node
\* found in this session is no candidate any more and nothing below it is
\* visited; an expansion of its parent may still come to it, since the rule of
\* keys.rs (is_handled) knows rows, shards, draws and records only.  A node
\* that was complete before its child was proved is not closed any more.
NoWorkUnderSettled ==
    session.phase = "search" =>
        /\ ~Under(session.key, {q \in Settled : InScope(q)})
        /\ \A q \in WonByChild \ (session.complete \ session.orClosed) :
              InScope(q) /\ IsPrefix(q, session.key) =>
                  session.key = q /\ q # session.scope /\ q \notin session.order

\* The same without the two exceptions (plan21.md, G2: no further visit at or
\* under the parent of an in-session loss).
NoWorkUnderWon ==
    session.phase = "search" => ~Under(session.key, {q \in WonByChild : InScope(q)})

\* A fold fails only when a file was changed behind its back: what the tools
\* themselves leave on the disk, crashes included, can always be folded.
\* (plan22.md says the fold updates the rows a new shard upgrades.)
OnlyFaultsAbort == fold.cause # "none" => spoilt # {}

\* A session never meets its own shards again.
NoCollision == session.cause # "path collision"

\* Nothing that is settled is searched or written again (walk.rs, keys.rs).
NoWastedVisit == NoWorkUnderSettled /\ NoCollision

\* The database only grows: no fold, import, visit or crash takes a row, an
\* outcome, an id, a shard or a scheduling record back, and bounds and work
\* counters move one way.
Grows ==
    /\ \A q \in Rows : /\ q \in DOMAIN db'.nodes
                       /\ db'.nodes[q].id = db.nodes[q].id
                       /\ db.nodes[q].outcome # "open" =>
                             /\ db'.nodes[q].outcome = db.nodes[q].outcome
                             /\ db'.nodes[q].bound <= db.nodes[q].bound
                       /\ db.nodes[q].prov \subseteq db'.nodes[q].prov
    /\ \A q \in DOMAIN db'.nodes \ Rows, r \in Rows : db.nodes[r].id < db'.nodes[q].id
    /\ \A t \in DOMAIN db.shards : t \in DOMAIN db'.shards /\ db'.shards[t] = db.shards[t]
    /\ \A k \in DOMAIN db.censor : /\ k \in DOMAIN db'.censor
                                   /\ db'.censor[k].work >= db.censor[k].work
                                   /\ db'.censor[k].passes >= db.censor[k].passes
    /\ db.drawn \subseteq db'.drawn
AppendOnly == [][Grows]_vars

\* What is done in a session stays done: nothing leaves `complete`, and no
\* complete node is a candidate again, so that each completes at most once.
DoneStaysDone ==
    session.phase # "off" /\ session'.phase # "off" =>
        /\ session.complete \subseteq session'.complete
        /\ session'.complete \cap session'.order = {}

\* A pick that does not visit retires a candidate.
PickRetires ==
    session.phase = "walk" /\ session'.phase = "walk" =>
        session'.order \subseteq session.order /\ session'.order # session.order

\* A visit goes to a node that is not decided and whose budget is not spent,
\* and comes back with a shard, a draw or work on its record: to one node
\* the session makes no more visits than its base has evaluations.
VisitPays ==
    session.phase \in {"search", "sidecar"} /\ session'.phase = "walk" =>
        LET k == session.key
            Work(censor) == EntryAt(censor, k).work
        IN /\ ~HasShard(k) /\ k \notin db.drawn /\ Work(db.censor) < session.base
           /\ \/ k \in session'.fresh
              \/ k \in db'.drawn
              \/ Work(db'.censor) > Work(db.censor)

\* The walk advances (walk.rs, D3: "each candidate completes at most once, so
\* the loop cannot stall").  On a tree of any size nothing is completed or
\* paid for twice, and there are no more picks between two visits than
\* candidates.  So a cap on the number or the time of visits, which the walk
\* looks at between two iterations (StopWalk), ends any session; without a cap
\* it can only go on by going on to new nodes, as D6 says of an undecided
\* layer.  A finite tree runs out of them, and the session ends by itself.
Advances == DoneStaysDone /\ PickRetires /\ VisitPays
WalkAdvances ==
    /\ [][Advances]_vars
    /\ session.phase # "off" ~> session.phase = "off"

\* While its anchor is undecided the walk has work, so that a session without
\* a cap does not end (walk.rs, D6: "on any undecided layer it always has
\* work").  A finite tree shows that this is not so.
UndecidedHasWork ==
    session.phase = "walk" /\ session.order = {} /\ RootSettled =>
        \/ session.scope \in ProvenRows \cup db.drawn \cup OrClosedRows(session.scope)
        \/ HasShard(session.scope)
        \/ session.scope \in session.orClosed
=============================================================================
