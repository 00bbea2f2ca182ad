----------------------------- MODULE ProofStore -----------------------------
(***************************************************************************)
(* The durable layer of the proof database: the shard directory, where a   *)
(* shard is a binary and a sidecar that commits it, and the SQLite file    *)
(* with the merged tree, the shards folded into it and the two scheduling  *)
(* tables of the harvest.  The fold and the harvest both extend this.      *)
(*                                                                         *)
(* A tag names its path ("h_" and a digest of the path, or an older name), *)
(* and a binary's digest is its content.                                   *)
(***************************************************************************)
EXTENDS PathTrees

CONSTANTS
    Manifest,   \* tag -> path: the entries of the legacy manifest, all validated
    OldShards,  \* tag -> claims: the binaries of those entries, on disk at the start
    OldCensor   \* path -> [work, passes]: the legacy JSON ledger

ASSUME StoreAssumption ==
    /\ \A tag \in DOMAIN Manifest :
          /\ Manifest[tag] \in Paths /\ Value[Manifest[tag]] # "draw"
          /\ tag = <<"m", Manifest[tag]>>
    /\ \A tag \in DOMAIN OldShards : tag \in DOMAIN Manifest /\ OldShards[tag] \in ProofsAt[Manifest[tag]]
    /\ \A p \in DOMAIN OldCensor :
          p \in Paths /\ OldCensor[p].work \in Nat /\ OldCensor[p].passes \in Nat

VARIABLES
    bins,       \* tag -> the content of <tag>.bin
    sides,      \* tag -> the content of <tag>.meta.json
    db          \* the committed database

storeVars == <<bins, sides, db>>

HarvestTag(path) == <<"h", path>>
Torn == [q \in {<<>>} |-> "torn"]    \* a binary that does not parse

OutcomeNames == {"win", "loss", "open"}
Scheduled == [work |-> 0, passes |-> 0]     \* a ledger entry by default

EmptyDb == [schema |-> FALSE, nodes |-> <<>>, shards |-> <<>>,
            censor |-> <<>>, drawn |-> {}, builtFrom |-> {}]

StoreInit ==
    /\ bins = OldShards
    /\ sides = <<>>
    /\ db = EmptyDb

WriteBin(tag, content) == bins' = Put(bins, tag, content)
WriteSidecar(tag, entry) == sides' = Put(sides, tag, entry)

\* A sidecar whose binary is gone: neither tool goes on.
LostBin == \E tag \in DOMAIN sides : tag \notin DOMAIN bins

\* The harvest is refused while a committed shard is not in the database.
UnmergedShard == \E tag \in DOMAIN sides : tag \notin DOMAIN db.shards

Standing == {db.shards[tag].path : tag \in DOMAIN db.shards}
Rows == DOMAIN db.nodes
ProvenRows == {q \in Rows : db.nodes[q].outcome # "open"}

EntryAt(censor, path) == IF path \in DOMAIN censor THEN censor[path] ELSE Scheduled
Max2(a, b) == IF a < b THEN b ELSE a

\* Mutant: the imported row wins.
UpsertLast(censor, imported) ==
    [p \in DOMAIN censor \cup DOMAIN imported |->
        IF p \in DOMAIN imported THEN imported[p] ELSE censor[p]]

\* Importing the legacy ledger keeps the larger of each number.
UpsertMax(censor, imported) ==
    [p \in DOMAIN censor \cup DOMAIN imported |->
        [work   |-> Max2(EntryAt(censor, p).work, EntryAt(imported, p).work),
         passes |-> Max2(EntryAt(censor, p).passes, EntryAt(imported, p).passes)]]

\* A censored visit; the table row and the in-memory record change together.
Bump(censor, path, evals) ==
    Put(censor, path, [work   |-> EntryAt(censor, path).work + evals,
                       passes |-> EntryAt(censor, path).passes + 1])
=============================================================================
