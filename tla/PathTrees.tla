------------------------------ MODULE PathTrees ------------------------------
(***************************************************************************)
(* The tree of move paths the proof database is made of.  A node is named  *)
(* by its path, the sequence of moves from the starting position; a shard  *)
(* is a proof tree rooted at a path, and a merge overlays shards on the    *)
(* standing tree and recomputes every depth bound.                         *)
(*                                                                         *)
(* A move is a number, its move code.  White is to move at even plies.     *)
(***************************************************************************)
EXTENDS Integers, Sequences, FiniteSets, FiniteSetsExt, SequencesExt, TLC

CONSTANTS
    Replies,    \* path -> the legal moves of its position; {} when the game is over
    Ended       \* path of a finished game -> "loss" or "draw", for the side to move

Paths == DOMAIN Replies

ASSUME ReplyTree ==
    /\ IsFiniteSet(Paths) /\ <<>> \in Paths
    /\ \A p \in Paths : /\ p \in Seq(Nat) /\ Replies[p] \subseteq Nat
                        /\ p # <<>> => Front(p) \in Paths /\ Last(p) \in Replies[Front(p)]
                        /\ \A m \in Replies[p] : Append(p, m) \in Paths
    /\ Ended \in [{p \in Paths : Replies[p] = {}} -> {"loss", "draw"}]

\* The value of f, which TLC computes whole to compare it.
Table(f) == CHOOSE g \in {f} : g = g

\* f with the value at x.
Put(f, x, value) == [y \in DOMAIN f \cup {x} |-> IF y = x THEN value ELSE f[y]]

\* The outcome of each position for its side to move, under the rules alone.
Value ==
    LET v[q \in Paths] ==
            IF Replies[q] = {} THEN Ended[q]
            ELSE LET kids == {v[Append(q, m)] : m \in Replies[q]}
                 IN IF "loss" \in kids THEN "win" ELSE IF kids = {"win"} THEN "loss" ELSE "draw"
    IN Table(v)

\* The plies to the end of a decided game when the winner hurries and the
\* loser delays.
Distance == Table([p \in {q \in Paths : Value[q] # "draw"} |->
    LET d[q \in Paths] ==
            LET lost == {d[Append(q, m)] : m \in {m \in Replies[q] : Value[Append(q, m)] = "loss"}}
            IN IF Replies[q] = {} THEN 0
               ELSE IF Value[q] = "win" THEN Min(lost) + 1
               ELSE Max({d[Append(q, m)] : m \in Replies[q]}) + 1
    IN d[p]])

\* k lies at or under one of the paths S.
Under(k, S) == \E q \in S : IsPrefix(q, k)

\* Elementwise by move code, a prefix before its extensions.
LexBefore(p, q) ==
    \/ IsStrictPrefix(p, q)
    \/ \E i \in 1 .. Len(p) : /\ i <= Len(q)
                              /\ SubSeq(p, 1, i - 1) = SubSeq(q, 1, i - 1)
                              /\ p[i] < q[i]

-----------------------------------------------------------------------------
(* Proof trees at a path: a won node keeps one lost child, a lost node all  *)
(* its children.  A shard's claims map each of its paths to an outcome.     *)

WonPaths == {p \in Paths : Value[p] = "win"}
LostMoves(p) == {m \in Replies[p] : Value[Append(p, m)] = "loss"}

Witnesses == {w \in [WonPaths -> UNION {Replies[p] : p \in WonPaths}] :
                 \A p \in WonPaths : w[p] \in LostMoves(p)}

Claims(p, w) ==
    [q \in {q \in Paths : /\ IsPrefix(p, q)
                          /\ \A k \in Len(p) .. Len(q) - 1 :
                                Value[SubSeq(q, 1, k)] = "win" => q[k + 1] = w[SubSeq(q, 1, k)]}
        |-> Value[q]]

\* What the export of a decisive search at p can produce: any validated tree.
ProofsAt == Table([p \in {q \in Paths : Value[q] # "draw"} |->
                      {Claims(p, w) : w \in Witnesses}])

-----------------------------------------------------------------------------
(* The in-memory merge tree: path -> node.                                  *)

OpenNode == [outcome |-> "open", prov |-> {}, exact |-> {}]
NewTree == [q \in {<<>>} |-> OpenNode]
NodeOr(tree, q) == IF q \in DOMAIN tree THEN tree[q] ELSE OpenNode
Kids(tree, q) == {r \in DOMAIN tree : Len(r) = Len(q) + 1 /\ IsPrefix(q, r)}

\* The path to the graft root exists, and the shard is named along it.
GraftPath(tree, p, tag) ==
    [q \in DOMAIN tree \cup Prefixes(p) |->
        IF q \in Prefixes(p) THEN [NodeOr(tree, q) EXCEPT !.prov = @ \cup {tag}] ELSE tree[q]]

Contradicts(tree, claims) ==
    \E q \in DOMAIN tree \cap DOMAIN claims : tree[q].outcome \notin {"open", claims[q]}

\* Every claim is stored, open nodes are upgraded; a finished game claims depth 0 exactly.
OverlaySubtree(tree, claims, tag) ==
    [q \in DOMAIN tree \cup DOMAIN claims |->
        IF q \notin DOMAIN claims THEN tree[q]
        ELSE [outcome |-> claims[q],
              prov    |-> NodeOr(tree, q).prov \cup {tag},
              exact   |-> NodeOr(tree, q).exact \cup (IF Replies[q] = {} THEN {0} ELSE {})]]

NoBound == -1

\* Plies to the end: one more than the best lost child, or than the worst reply.
BoundsOf(outcome) ==
    LET b[q \in DOMAIN outcome] ==
            LET lost == {b[r] : r \in {k \in Kids(outcome, q) : outcome[k] = "loss"}}
                all  == {b[r] : r \in Kids(outcome, q)}
            IN IF outcome[q] = "open" THEN NoBound
               ELSE IF Kids(outcome, q) = {} THEN 0
               ELSE IF outcome[q] = "win" THEN IF lost = {} THEN NoBound ELSE Min(lost) + 1
               ELSE Max(all) + 1
    IN Table(b)
Bounds(tree) == BoundsOf([q \in DOMAIN tree |-> tree[q].outcome])

\* What finalize refuses: a proof with a missing or opposite child, a refuted exact claim.
Inconsistent(tree, bounds) ==
    \E q \in DOMAIN tree :
        /\ tree[q].outcome # "open"
        /\ \/ /\ tree[q].outcome = "loss"
              /\ \E k \in Kids(tree, q) : tree[k].outcome # "win"
           \/ /\ tree[q].outcome = "win" /\ Kids(tree, q) # {}
              /\ \A k \in Kids(tree, q) : tree[k].outcome # "loss"
           \/ \E c \in tree[q].exact : c # bounds[q]

DepthStatus(tree, q) ==
    IF tree[q].outcome = "open" THEN "none"
    ELSE IF Kids(tree, q) = {} \/ tree[q].exact # {} THEN "exact" ELSE "bound"

\* The proof kept for a graft root: the shallowest lost child, lowest move code on ties.
BestChild(tree, bounds, q) ==
    LET lost == {k \in Kids(tree, q) : tree[k].outcome = "loss"}
    IN CHOOSE k \in lost : \A j \in lost \ {k} :
           \/ bounds[k] < bounds[j]
           \/ bounds[k] = bounds[j] /\ Last(k) < Last(j)

Skeleton(tree, bounds, root) ==
    {q \in DOMAIN tree : /\ IsPrefix(root, q)
                         /\ \A k \in Len(root) .. Len(q) - 1 :
                               LET r == SubSeq(q, 1, k)
                               IN tree[r].outcome = "win" =>
                                     SubSeq(q, 1, k + 1) = BestChild(tree, bounds, r)}

\* The replay validator on a reassembled skeleton.
SkeletonValid(tree, skeleton) ==
    \A q \in skeleton :
        LET kids == {k \in skeleton : k # q /\ IsPrefix(q, k) /\ Len(k) = Len(q) + 1}
        IN /\ tree[q].outcome \in {"win", "loss"}
           /\ Replies[q] = {} => tree[q].outcome = Ended[q]
           /\ tree[q].outcome = "win" => kids # {} /\ \A k \in kids : tree[k].outcome = "loss"
           /\ tree[q].outcome = "loss" =>
                 /\ {Last(k) : k \in kids} = Replies[q]
                 /\ \A k \in kids : tree[k].outcome = "win"
=============================================================================
