-------------------------------- MODULE Fold --------------------------------
(***************************************************************************)
(* proofdb_merge: one invocation folds every shard of the directory that   *)
(* the database does not have yet into the standing tree, in one           *)
(* transaction.  The sidecars it writes for shards of the legacy manifest  *)
(* are files: a rollback does not take them back.                          *)
(***************************************************************************)
EXTENDS ProofStore

VARIABLE fold       \* the running invocation, with the open transaction

Idle == "idle"
NoFold == [phase |-> Idle, cause |-> "none"]
Aborted(cause) == [phase |-> Idle, cause |-> cause]

FoldInit == fold = NoFold

\* Mutant: the provenance table is not read back.
RestoredBare(q) ==
    [outcome |-> db.nodes[q].outcome,
     prov    |-> {},
     exact   |-> IF db.nodes[q].status = "exact" /\ Kids(db.nodes, q) # {}
                 THEN {db.nodes[q].bound} ELSE {}]

\* The node of a row; an exact claim comes back for the rows with children.
RestoredNode(q) ==
    [outcome |-> db.nodes[q].outcome,
     prov    |-> db.nodes[q].prov,
     exact   |-> IF db.nodes[q].status = "exact" /\ Kids(db.nodes, q) # {}
                 THEN {db.nodes[q].bound} ELSE {}]

\* An empty database has the open root.
StandingTree == IF Rows = {} THEN NewTree ELSE [q \in Rows |-> RestoredNode(q)]

\* Begin the transaction: the schema, the censor import, the standing tree,
\* then one scan of the directory that the rest of the fold relies on.
BeginFold(manifest, import) ==
    /\ fold.phase = Idle
    /\ fold' = IF LostBin THEN Aborted("sidecar without bin")
               ELSE [phase  |-> "shards",
                     cause  |-> "none",
                     todo   |-> DOMAIN bins,
                     seen   |-> DOMAIN sides,
                     manifest |-> manifest,
                     tree   |-> StandingTree,
                     censor |-> IF import THEN UpsertMax(db.censor, OldCensor) ELSE db.censor,
                     shards |-> <<>>]
    /\ UNCHANGED storeVars

Done(tag) == [fold EXCEPT !.todo = @ \ {tag}]

\* A tag the database has: its binary must still be the one that was folded.
SkipMerged(tag) ==
    /\ tag \in DOMAIN db.shards
    /\ fold' = IF bins[tag] = db.shards[tag].sha THEN Done(tag)
               ELSE Aborted("same tag, different bytes")
    /\ UNCHANGED storeVars

\* A binary nobody committed: what an interrupted job leaves.
SkipOrphan(tag) ==
    /\ tag \notin DOMAIN db.shards \cup fold.seen \cup DOMAIN fold.manifest
    /\ fold' = Done(tag)
    /\ UNCHANGED storeVars

\* load_shard: the digest the metadata names, a tree that parses and replays,
\* the outcome and the path of the metadata.
Loads(tag, entry) ==
    /\ bins[tag] = entry.sha
    /\ bins[tag] # Torn
    /\ entry.path \in DOMAIN bins[tag]
    /\ entry.outcome = bins[tag][entry.path]

\* The shard is grafted, overlaid and recorded.
Overlaid(tag, path) ==
    LET tree == GraftPath(fold.tree, path, tag)
    IN IF Contradicts(tree, bins[tag]) THEN Aborted("contradiction")
       ELSE [fold EXCEPT !.todo = @ \ {tag},
                         !.tree = OverlaySubtree(tree, bins[tag], tag),
                         !.shards = Put(@, tag, [path |-> path, sha |-> bins[tag]])]

FoldSidecar(tag) ==
    /\ tag \in fold.seen \ DOMAIN db.shards
    /\ fold' = IF Loads(tag, sides[tag]) THEN Overlaid(tag, sides[tag].path)
               ELSE Aborted("bad shard")
    /\ UNCHANGED storeVars

\* The manifest is the metadata of a shard without sidecar; it names no
\* digest, and the sidecar is written on the spot.
FoldManifest(tag) ==
    /\ tag \in DOMAIN fold.manifest \ (fold.seen \cup DOMAIN db.shards)
    /\ LET entry == [path |-> fold.manifest[tag], outcome |-> Value[fold.manifest[tag]], sha |-> bins[tag]]
       IN IF Loads(tag, entry)
          THEN /\ fold' = Overlaid(tag, entry.path)
               /\ WriteSidecar(tag, entry)
          ELSE fold' = Aborted("bad shard") /\ UNCHANGED sides
    /\ UNCHANGED <<bins, db>>

FoldShard ==
    /\ fold.phase = "shards"
    /\ \E tag \in fold.todo :
          SkipMerged(tag) \/ SkipOrphan(tag) \/ FoldSidecar(tag) \/ FoldManifest(tag)

-----------------------------------------------------------------------------
(* The end of the fold.                                                     *)

\* Rows keep their ids; new rows get the next ones in path order.
RowId(tree, q) ==
    IF q \in Rows THEN db.nodes[q].id
    ELSE LET new == DOMAIN tree \ Rows
         IN Max({-1} \cup {db.nodes[r].id : r \in Rows}) + 1
            + Cardinality({r \in new : LexBefore(r, q)})

\* write_fold_delta compares every standing row with the new tree before it
\* writes: another outcome, or a larger bound, is taken for a corrupted row.
Corrupted(tree, bounds) ==
    \E q \in Rows : \/ tree[q].outcome # db.nodes[q].outcome
                    \/ bounds[q] > db.nodes[q].bound

Delta(tree, bounds) ==
    [q \in DOMAIN tree |-> [id      |-> RowId(tree, q),
                            outcome |-> tree[q].outcome,
                            bound   |-> bounds[q],
                            status  |-> DepthStatus(tree, q),
                            prov    |-> tree[q].prov]]

MissingEntry == \E tag \in DOMAIN fold.manifest :
                    tag \notin DOMAIN db.shards \cup fold.seen \cup DOMAIN bins

FinishFold ==
    /\ fold.phase = "shards"
    /\ fold.todo = {}
    /\ \E bounds \in {Bounds(fold.tree)} :
          LET roots == {fold.shards[tag].path : tag \in DOMAIN fold.shards}
              all   == [tag \in DOMAIN fold.shards \cup DOMAIN db.shards |->
                          IF tag \in DOMAIN fold.shards THEN fold.shards[tag] ELSE db.shards[tag]]
          IN IF MissingEntry
             THEN fold' = Aborted("manifest entry without bin") /\ UNCHANGED db
             ELSE IF \/ Inconsistent(fold.tree, bounds)
                     \/ Corrupted(fold.tree, bounds)
                     \/ \E r \in roots :
                           ~SkeletonValid(fold.tree, Skeleton(fold.tree, bounds, r))
             THEN fold' = Aborted("inconsistent tree") /\ UNCHANGED db
             ELSE /\ fold' = NoFold
                  /\ db' = [schema    |-> TRUE,
                            nodes     |-> Delta(fold.tree, bounds),
                            shards    |-> all,
                            censor    |-> fold.censor,
                            drawn     |-> db.drawn,
                            builtFrom |-> {<<tag, all[tag].sha>> : tag \in DOMAIN all}]
    /\ UNCHANGED <<bins, sides>>

\* The process dies: the transaction is gone, the files stay.
CrashFold ==
    /\ fold.phase # Idle
    /\ fold' = NoFold
    /\ UNCHANGED storeVars

FoldNext ==
    \/ \E manifest \in {Manifest, <<>>}, import \in BOOLEAN : BeginFold(manifest, import)
    \/ FoldShard
    \/ FinishFold
    \/ CrashFold
=============================================================================
