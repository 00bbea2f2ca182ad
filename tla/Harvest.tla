------------------------------- MODULE Harvest -------------------------------
(***************************************************************************)
(* proofdb_harvest: a session walks the censored frontier of the database, *)
(* shallowest path first.  A visit searches one path under a budget; a     *)
(* decisive result becomes a shard on disk, a draw or a censored search a  *)
(* row of the scheduling tables.  The tree rows do not change in a         *)
(* session: only the fold writes them.                                     *)
(***************************************************************************)
EXTENDS ProofStore

CONSTANTS
    Scopes,     \* the paths a session may be anchored at; <<>> is the whole tree
    Bases,      \* the budgets per visit an operator may give, in evaluations
    MaxShards   \* bound: the shards ever on the disk or in the database

\* A base of 0 stands for the standing one (driver.rs, run_walk_session).
ASSUME HarvestAssumption == Scopes \subseteq Paths /\ Bases \subseteq Nat \ {0} /\ MaxShards \in Nat

VARIABLE session    \* the running session

NoSession == [phase |-> "off", cause |-> "none"]
Refused(cause) == [NoSession EXCEPT !.cause = cause]

HarvestInit == session = NoSession

InScope(k) == IsPrefix(session.scope, k)
WhiteToMove(k) == Len(k) % 2 = 0

\* White-to-move parents one of whose children is a proven loss.
OrClosedRows(scope) ==
    {Front(q) : q \in {r \in ProvenRows : /\ db.nodes[r].outcome = "loss" /\ r # <<>>
                                          /\ WhiteToMove(Front(r))
                                          /\ IsPrefix(scope, Front(r))}}

\* Mutant: nothing is or-closed.
DroppedByRows(k, scope) == Under(k, {q \in ProvenRows \cup db.drawn : IsPrefix(scope, q)})

\* A record leaves candidacy under a proven row, an or-closed parent or a
\* draw; only what lies within the scope counts.
Dropped(k, scope) ==
    Under(k, {q \in ProvenRows \cup db.drawn : IsPrefix(scope, q)} \cup OrClosedRows(scope))

HasShard(k) == k \in Standing \cup session.fresh

\* A child that needs no visit.
Handled(k) == \/ k \in Rows
              \/ HasShard(k)
              \/ k \in db.drawn
              \/ EntryAt(db.censor, k).work >= session.base

\* The candidates of a new session.
Frontier(scope) == {k \in DOMAIN db.censor : IsPrefix(scope, k) /\ ~Dropped(k, scope)}

StartSession(scope, base) ==
    /\ session.phase = "off"
    /\ session' =
          IF ~db.schema THEN Refused("no database")
          ELSE IF LostBin THEN Refused("sidecar without bin")
          ELSE IF UnmergedShard THEN Refused("unmerged shard")
          ELSE [phase    |-> "walk",
                cause    |-> "none",
                scope    |-> scope,
                base     |-> base,
                order    |-> Frontier(scope),
                complete |-> {},        \* done with in this session
                orClosed |-> {},        \* won by a child proved in this session
                fresh    |-> {},        \* shards produced in this session
                key      |-> <<>>,      \* the path of the visit
                tree     |-> <<>>]      \* and its proof
    /\ UNCHANGED storeVars

-----------------------------------------------------------------------------
(* One iteration of the walk: pick, then visit, expand or retire.           *)

\* Shallowest first, then by path.
First(S) == CHOOSE k \in S : \A j \in S \ {k} :
                Len(k) < Len(j) \/ (Len(k) = Len(j) /\ LexBefore(k, j))

RootSettled ==
    LET root == session.scope
    IN \/ root \in ProvenRows \/ HasShard(root)
       \/ root \in OrClosedRows(root) \cup session.orClosed
       \/ root \in db.drawn
       \/ root \in session.complete

Visit(k) == session' = [session EXCEPT !.phase = "search", !.key = k]

\* No candidate left: the anchor itself, unless there is nothing to find out.
VisitRoot ==
    /\ session.order = {} /\ ~RootSettled
    /\ Visit(session.scope)

Exhausted ==
    /\ session.order = {} /\ RootSettled
    /\ session' = NoSession

VisitRecord ==
    /\ session.order # {}
    /\ LET k == First(session.order)
       IN EntryAt(db.censor, k).work < session.base /\ Visit(k)

Unhandled(k) == {c \in {Append(k, m) : m \in Replies[k]} : ~Handled(c)}

\* The budget is spent at k: its first unhandled child instead.
Expand ==
    /\ session.order # {}
    /\ LET k == First(session.order)
       IN /\ EntryAt(db.censor, k).work >= session.base
          /\ Unhandled(k) # {}
          /\ Visit(First(Unhandled(k)))

\* Mutant: the record stays in the order.
CompleteAgain ==
    /\ session.order # {}
    /\ LET k == First(session.order)
       IN /\ EntryAt(db.censor, k).work >= session.base
          /\ Unhandled(k) = {}
          /\ session' = [session EXCEPT !.complete = @ \cup {k}]

Complete ==
    /\ session.order # {}
    /\ LET k == First(session.order)
       IN /\ EntryAt(db.censor, k).work >= session.base
          /\ Unhandled(k) = {}
          /\ session' = [session EXCEPT !.complete = @ \cup {k}, !.order = @ \ {k}]

\* A stop file, or a cap on jobs, evaluations or time: only between visits.
StopWalk == session' = NoSession

Iterate ==
    /\ session.phase = "walk"
    /\ VisitRoot \/ Exhausted \/ VisitRecord \/ Expand \/ Complete
    /\ UNCHANGED storeVars

-----------------------------------------------------------------------------
(* The end of a visit.                                                      *)

Walking == [session EXCEPT !.phase = "walk", !.key = <<>>, !.tree = <<>>]
Sweep(S, k) == {j \in S : ~IsPrefix(k, j)}

\* A censored record is a candidate unless it is dropped.
Admitted(k) ==
    session.order \cup (IF Dropped(k, session.scope) \/ Under(k, session.orClosed) THEN {} ELSE {k})

\* The search ran out of budget, or of time with less: the row first.
Censored(evals) ==
    LET k == session.key
    IN /\ Replies[k] # {}
       /\ db' = [db EXCEPT !.censor = Bump(@, k, evals)]
       /\ session' = [Walking EXCEPT !.order = Admitted(k)]
       /\ UNCHANGED <<bins, sides>>

\* The search completed and the value is a draw: the whole subtree is done.
ProvenDraw ==
    LET k == session.key
    IN /\ Value[k] = "draw"
       /\ db' = [db EXCEPT !.drawn = @ \cup {k}]
       /\ session' = [Walking EXCEPT !.order = Sweep(@, k)]
       /\ UNCHANGED <<bins, sides>>

\* A win or a loss whose proof is exported and validated.  Its tag and its
\* path must be new to the session.
Decisive ==
    LET k == session.key
    IN /\ Value[k] # "draw"
       /\ Cardinality(DOMAIN bins \cup DOMAIN db.shards \cup {HarvestTag(k)}) <= MaxShards
       /\ IF HasShard(k) THEN session' = Refused("path collision")
          ELSE \E tree \in ProofsAt[k] :
                  session' = [session EXCEPT !.phase = "bin", !.tree = tree]
       /\ UNCHANGED storeVars

\* The proof could not be exported within its budgets: the session ends.
ExportRejected ==
    /\ Value[session.key] # "draw"
    /\ session' = Refused("export rejected")
    /\ UNCHANGED storeVars

EndSearch ==
    /\ session.phase = "search"
    /\ (\E evals \in {1, session.base} : Censored(evals)) \/ ProvenDraw \/ Decisive \/ ExportRejected

WriteShardBin ==
    /\ session.phase = "bin"
    /\ WriteBin(HarvestTag(session.key), session.tree)
    /\ session' = [session EXCEPT !.phase = "sidecar"]
    /\ UNCHANGED <<sides, db>>

\* A lost child wins its white-to-move parent, once.
ClosesParent(k) ==
    /\ Value[k] = "loss" /\ k # <<>> /\ WhiteToMove(Front(k))
    /\ InScope(Front(k)) /\ Front(k) \notin session.complete

\* The sidecar commits the shard; then the node and what is below it leave
\* the walk, and the parent too if it is won.
WriteShardSidecar ==
    LET k == session.key
        closes == ClosesParent(k)
        left == Sweep(session.order, k)
    IN /\ session.phase = "sidecar"
       /\ WriteSidecar(HarvestTag(k), [path |-> k, outcome |-> Value[k], sha |-> session.tree])
       /\ session' = [Walking EXCEPT
              !.fresh = @ \cup {k},
              !.order = IF closes THEN Sweep(left, Front(k)) ELSE left,
              !.complete = @ \cup (IF closes THEN {Front(k)} ELSE {}),
              !.orClosed = @ \cup (IF closes THEN {Front(k)} ELSE {})]
       /\ UNCHANGED <<bins, db>>

\* The process dies; in the middle of a binary it leaves part of it.
CrashSession ==
    /\ session.phase # "off"
    /\ session' = NoSession
    /\ bins' \in {bins} \cup (IF session.phase = "bin"
                              THEN {Put(bins, HarvestTag(session.key), Torn)} ELSE {})
    /\ UNCHANGED <<sides, db>>

SessionStep == Iterate \/ EndSearch \/ WriteShardBin \/ WriteShardSidecar

HarvestNext ==
    \/ \E scope \in Scopes, base \in Bases : StartSession(scope, base)
    \/ SessionStep
    \/ session.phase = "walk" /\ StopWalk /\ UNCHANGED storeVars
    \/ CrashSession
=============================================================================
