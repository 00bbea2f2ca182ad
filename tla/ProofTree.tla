------------------------------- MODULE ProofTree -------------------------------
(***************************************************************************)
(* The proof-tree worker of src/src/proof_tree/worker.rs and the replay    *)
(* validator of validate.rs.  The worker thread takes proof events from    *)
(* one channel and queries from another, keeps nodes by path, and at the   *)
(* end rebuilds a tree in which a transposition shares the subtree of its  *)
(* best expanded twin.                                                     *)
(*                                                                         *)
(* A move is identified with the position it leads to, and a hash with its *)
(* position.  The module has no next-state relation of its own: whoever    *)
(* feeds the worker composes it (see Reconstruct).                         *)
(***************************************************************************)
EXTENDS Integers, Sequences, FiniteSets, SequencesExt, FiniteSetsExt

CONSTANTS
    Pos,        \* positions, board and rule-50 clock
    Succ,       \* Succ[p]: positions after one legal move from p
    Static,     \* Static[p]: the outcome of a terminal p, or NoOutcome
    NoMove,     \* Move::NONE, and the hash of a placeholder
    Budgets     \* nodes that fit the memory budget, one is picked for a run

VARIABLES
    nodes,      \* the arena: node i is nodes[i], the root is node 1
    events,     \* the event channel
    queries,    \* the query channel
    looking,    \* the worker has found the event channel empty
    limited,    \* the shared memory_limited flag
    budget,     \* the memory budget of this run
    dropped,    \* events thrown away because of the flag (for the properties)
    built       \* what the last Finalize installed: tree and defects

treeVars == <<nodes, events, queries, looking, limited, budget, dropped, built>>

Outcomes == {"Win", "Loss", "Draw"}
NoOutcome == "None"
Decisive == {"Win", "Loss"}
Opposite(o) == IF o = "Win" THEN "Loss" ELSE "Win"

Placeholder(mv) == [mv |-> mv, pos |-> NoMove, outcome |-> NoOutcome, depth |-> 0, kids |-> <<>>]
NotBuilt == [tree |-> {}, defects |-> {}]

-----------------------------------------------------------------------------
(* Events *)

(* proven_depth: what the depths of the children say about their parent.   *)
ProvenDepth(o, depths) ==
    CASE o = "Win" -> Min(depths \cup (IF depths = {} THEN {0} ELSE {})) + 1
      [] o = "Loss" -> Max(depths \cup {0}) + 1
      [] OTHER -> 0

(* find_or_create_node: follow path from node id, adding placeholders; a   *)
(* new child goes to the front of its parent's list.                       *)
Added(id, mv, ns) ==
    Append([ns EXCEPT ![id].kids = <<Len(ns) + 1>> \o @], Placeholder(mv))
Step(x, mv) ==
    LET known == {k \in ToSet(x.ns[x.id].kids) : x.ns[k].mv = mv}
    IN  IF known # {} THEN [x EXCEPT !.id = CHOOSE k \in known : TRUE]
        ELSE [id |-> Len(x.ns) + 1, ns |-> Added(x.id, mv, x.ns)]
Located(path, ns) ==
    LET at[n \in 0 .. Len(path)] ==
            IF n = 0 THEN [id |-> 1, ns |-> ns] ELSE Step(at[n - 1], path[n])
    IN  at[Len(path)]

(* apply_event: a placeholder takes the claim, a known node the smaller    *)
(* depth.                                                                  *)
Applied(e, n) ==
    [n EXCEPT !.pos = e.pos,
              !.outcome = IF @ = NoOutcome THEN e.outcome ELSE @,
              !.depth = IF n.outcome = NoOutcome \/ e.depth < @ THEN e.depth ELSE @]

(* Mutant: a Loss keeps one child, as a Win does.                          *)
KeptFirst(id, ns) ==
    IF ns[id].outcome \in Decisive /\ ns[id].kids # <<>> THEN <<Head(ns[id].kids)>> ELSE ns[id].kids
(* reconcile_children: a Win keeps its first shallowest Loss child, a Loss *)
(* all its Win children, a Draw nothing.                                   *)
Kept(id, ns) ==
    LET kids == ns[id].kids
        losses == {k \in ToSet(kids) : ns[k].outcome = "Loss"}
        shallow == {i \in DOMAIN kids : kids[i] \in losses /\ \A k \in losses : ns[kids[i]].depth <= ns[k].depth}
        wins[n \in 0 .. Len(kids)] ==
            IF n = 0 THEN <<>>
            ELSE IF ns[kids[n]].outcome = "Win" THEN Append(wins[n - 1], kids[n]) ELSE wins[n - 1]
    IN  CASE ns[id].outcome = "Win" -> IF losses = {} THEN <<>> ELSE <<kids[Min(shallow)]>>
          [] ns[id].outcome = "Loss" -> wins[Len(kids)]
          [] ns[id].outcome = "Draw" -> <<>>
          [] OTHER -> kids
Reconciled(id, ns) == [ns EXCEPT ![id].kids = Kept(id, ns)]

(* process_event on the nodes: realize the node and reconcile it if it was *)
(* a placeholder, then its parent.  Results are sets of one element, which *)
(* TLC evaluates once.                                                     *)
Claimed(e, ns) ==
    {LET own == [at.ns EXCEPT ![at.id] = Applied(e, @)]
     IN  IF at.ns[at.id].outcome = NoOutcome THEN Reconciled(at.id, own) ELSE own :
        at \in {Located(e.path, ns)}}
Processed(e, ns) ==
    IF e.path = <<>> THEN Claimed(e, ns)
    ELSE {Reconciled(up.id, up.ns) :
            up \in {Located(Front(e.path), own) : own \in Claimed(e, ns)}}

(* handle_event: nothing once the flag is up; raise it when the budget is  *)
(* passed.                                                                 *)
Handled(w, e) ==
    IF w.limited THEN {[w EXCEPT !.dropped = @ + 1]}
    ELSE {[w EXCEPT !.nodes = ns, !.limited = Len(ns) > budget] : ns \in Processed(e, w.nodes)}
Worker == [nodes |-> nodes, limited |-> limited, dropped |-> dropped]

-----------------------------------------------------------------------------
(* Finalization *)

Expanded(n) == n.outcome # NoOutcome /\ (n.depth = 0 \/ n.kids # <<>>)
Implied(n, ns) == IF n.depth = 0 THEN 0
                  ELSE ProvenDepth(n.outcome, {ns[k].depth : k \in ToSet(n.kids)})
Consistent(n, ns) == n.depth = Implied(n, ns)

(* build_expanded_index: node i is taken over j for one position and       *)
(* outcome; of equals, the first created.                                  *)
Preferred(i, j, ns) ==
    LET a == ns[i]  b == ns[j]
    IN  IF Consistent(a, ns) # Consistent(b, ns) THEN Consistent(a, ns)
        ELSE IF a.depth # b.depth THEN a.depth < b.depth
        ELSE IF Len(a.kids) # Len(b.kids) THEN Len(a.kids) > Len(b.kids)
        ELSE i < j

(* The node whose subtree stands for node i: its best expanded twin, among *)
(* all nodes ever created, or itself.                                      *)
Canonical(i, ns) ==
    LET twins == {j \in DOMAIN ns : Expanded(ns[j]) /\ ns[j].pos = ns[i].pos
                                                    /\ ns[j].outcome = ns[i].outcome}
    IN  IF twins = {} THEN i
        ELSE CHOOSE j \in twins : \A k \in twins \ {j} : Preferred(j, k, ns)

(* rebuild_node from canonical node to canonical node: a row is a path of  *)
(* the rebuilt tree with the nodes that stand along it.  Placeholders are  *)
(* left out, and a position that is on the path already becomes a leaf;    *)
(* the hash of the root is not put on the path.                            *)
Cut(row, ns) ==
    \E i \in 2 .. Len(row.line) - 1 : ns[row.line[i]].pos = ns[Last(row.line)].pos
Below(row, ns) ==
    IF Cut(row, ns) THEN {}
    ELSE {[path |-> Append(row.path, ns[k].mv), line |-> Append(row.line, Canonical(k, ns))] :
            k \in {k \in ToSet(ns[Last(row.line)].kids) : ns[k].outcome # NoOutcome}}
(* No position comes back along a row that goes on, so that there are no   *)
(* more generations of them than nodes and one.                            *)
Rows(ns) ==
    LET generation[n \in 0 .. Len(ns) + 1] ==
            IF n = 0 THEN {[path |-> <<>>, line |-> <<Canonical(1, ns)>>]}
            ELSE UNION {Below(row, ns) : row \in generation[n - 1]}
    IN  UNION {generation[n] : n \in 0 .. Len(ns) + 1}

(* A tree is a function on its paths; depths from the leaves up.           *)
KidsOf(path, paths) == {q \in paths : Len(q) = Len(path) + 1 /\ Front(q) = path}
Rebuilt(ns) ==
    LET rows == Rows(ns)
        paths == {row.path : row \in rows}
        node(path) == ns[Last((CHOOSE row \in rows : row.path = path).line)]
        deep[path \in paths] ==
            LET kids == KidsOf(path, paths)
            IN  IF kids = {} THEN 0 ELSE ProvenDepth(node(path).outcome, {deep[k] : k \in kids})
    IN  [path \in paths |-> [pos |-> node(path).pos, outcome |-> node(path).outcome,
                             depth |-> deep[path]]]

(* The exit of finalize_tree for an unexpanded internal node.              *)
Unexpanded(t) ==
    \E x \in DOMAIN t : t[x].outcome \in Decisive /\ t[x].depth # 0 /\ KidsOf(x, DOMAIN t) = {}

-----------------------------------------------------------------------------
(* validate_proof_tree: the defects found by replaying tree t from root.   *)

Reached(x, root) == IF x = <<>> THEN root ELSE Last(x)

(* Mutant: a Loss is accepted with any of its replies.                     *)
NoneMissing(t, x, p) == {}
Missing(t, x, p) ==
    IF t[x].outcome = "Loss" THEN Succ[p] \ {Last(k) : k \in KidsOf(x, DOMAIN t)} ELSE {}

(* A path that comes back to a position; the root is not on the path.      *)
Repeats(x) == \E i \in 1 .. Len(x) - 1 : x[i] = Last(x)
Claim(n) == n.outcome \in Decisive
(* The replay goes below an internal node, by its legal moves only.        *)
Replayed(t, root) ==
    {x \in DOMAIN t : \A n \in 0 .. Len(x) - 1 :
        LET y == SubSeq(x, 1, n)
        IN  /\ Claim(t[y]) /\ t[y].depth # 0
            /\ ~Repeats(y)
            /\ x[n + 1] \in Succ[Reached(y, root)]}
(* The subtree of x was replayed to its leaves, none of them cut.          *)
Whole(t, x, replayed) ==
    \A y \in DOMAIN t : IsPrefix(x, y) => y \in replayed /\ ~Repeats(y) /\ Claim(t[y])

(* The rules of the node at path x, replayed to position p.                *)
Broken(t, x, p, replayed) ==
    LET n == t[x]
        kids == KidsOf(x, DOMAIN t)
        inner == Claim(n) /\ n.depth # 0
        implied == IF kids = {} THEN 0 ELSE ProvenDepth(n.outcome, {t[k].depth : k \in kids})
        rules == {<<"not_decisive", ~Claim(n)>>,
                  <<"hash_mismatch", Claim(n) /\ n.pos \notin {p, NoMove}>>,
                  <<"terminal_mismatch", Claim(n) /\ n.depth = 0 /\ Static[p] # n.outcome>>,
                  <<"win_not_single", inner /\ n.outcome = "Win" /\ Cardinality(kids) # 1>>,
                  <<"child_outcome", inner /\ \E k \in kids : t[k].outcome # Opposite(n.outcome)>>,
                  <<"illegal_child_move", inner /\ \E k \in kids : Last(k) \notin Succ[p]>>,
                  <<"loss_incomplete", inner /\ Missing(t, x, p) # {}>>,
                  <<"depth_inconsistent", Whole(t, x, replayed) /\ n.depth # implied>>}
    IN  {r[1] : r \in {r \in rules : r[2]}}

Defects(t, root) ==
    LET replayed == Replayed(t, root)
    IN  UNION {IF Repeats(x) THEN {"cycle_leaf"} ELSE Broken(t, x, Reached(x, root), replayed) :
                x \in replayed}

-----------------------------------------------------------------------------
(* The worker thread *)

TreeInit ==
    /\ nodes = <<Placeholder(NoMove)>>
    /\ events = <<>>
    /\ queries = <<>>
    /\ looking = FALSE
    /\ limited = FALSE
    /\ budget \in Budgets
    /\ dropped = 0
    /\ built = NotBuilt

Send(e) == events' = Append(events, e)

(* recv_timeout returns an event.                                          *)
Receive ==
    /\ ~looking
    /\ events # <<>>
    /\ \E w \in Handled(Worker, Head(events)) :
          nodes' = w.nodes /\ limited' = w.limited /\ dropped' = w.dropped
    /\ events' = Tail(events)
    /\ UNCHANGED <<queries, looking, budget, built>>

(* recv_timeout finds nothing, and the worker turns to the queries; events *)
(* may come in before it reads one.  Back to the events when there is none.*)
Timeout ==
    /\ ~looking
    /\ events = <<>>
    /\ looking' = TRUE
    /\ UNCHANGED <<nodes, events, queries, limited, budget, dropped, built>>
BackToEvents ==
    /\ looking
    /\ queries = <<>>
    /\ looking' = FALSE
    /\ UNCHANGED <<nodes, events, queries, limited, budget, dropped, built>>

(* What the worker holds once the events es are handled.                   *)
Drained(w, es) ==
    LET after[n \in 0 .. Len(es)] ==
            IF n = 0 THEN {w} ELSE UNION {Handled(x, es[n]) : x \in after[n - 1]}
    IN  after[Len(es)]

(* finalize_tree on what is left in the channel: the worker before, and    *)
(* the tree it builds.                                                     *)
Finalized == {[w |-> w, tree |-> Rebuilt(w.nodes)] : w \in Drained(Worker, events)}

(* The process exits when the root has no claim, or the tree an unexpanded *)
(* node.                                                                   *)
Exits(f) == f.w.nodes[1].outcome = NoOutcome \/ Unexpanded(f.tree)
Install(f, root) ==
    /\ built' = [tree |-> {f.tree}, defects |-> Defects(f.tree, root)]
    /\ limited' = f.w.limited
    /\ dropped' = f.w.dropped
    /\ events' = <<>>
    /\ nodes' = <<Placeholder(NoMove)>>     \* the arena is the tree now

===============================================================================
