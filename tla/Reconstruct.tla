------------------------------ MODULE Reconstruct ------------------------------
(***************************************************************************)
(* A reconstruction run (walker.rs, run): the walk of Walker and the       *)
(* worker thread of ProofTree side by side.  After a complete walk the     *)
(* caller looks at the memory flag once, asks the worker to finalize and   *)
(* then for the tree, each over the query channel.                         *)
(***************************************************************************)
EXTENDS Walker

CONSTANT Budgets
VARIABLES nodes, queries, looking, budget, dropped, built,
    caller,     \* how far the caller is: "walk", "finalize", "wait" or "end"
    root,       \* the position of the root FEN
    out         \* what reconstruct returns

Tree == INSTANCE ProofTree

runVars == <<vars, nodes, queries, looking, budget, dropped, built, caller, root, out>>

Pending == "pending"
Output(tree, error) == [tree |-> tree, error |-> error]

RunInit ==
    /\ Init
    /\ Tree!TreeInit
    /\ caller = "walk"
    /\ root = at
    /\ out = Output({}, Pending)

Walking ==
    /\ Walk
    /\ UNCHANGED <<nodes, queries, looking, budget, dropped, built, caller, root, out>>

Ask(what, next) ==
    /\ queries' = Append(queries, what)
    /\ caller' = next
    /\ UNCHANGED <<vars, nodes, looking, budget, dropped, built, root, out>>

(* A complete walk and the flag not seen: finalize, then get the tree.     *)
Complete == verdict \in Decisive /\ ~limited
AskFinalize == caller = "walk" /\ phase = "done" /\ Complete /\ Ask("finalize", "finalize")
AskTree == caller = "finalize" /\ Ask("tree", "wait")

(* Otherwise the worker is joined without finalizing.                      *)
GiveUp ==
    /\ caller = "walk"
    /\ phase = "done"
    /\ ~Complete
    /\ caller' = "end"
    /\ out' = Output({}, IF verdict = "failed" THEN why ELSE "memory")
    /\ UNCHANGED <<vars, nodes, queries, looking, budget, dropped, built, root>>

(* The worker thread.                                                      *)
Receiving == Tree!Receive /\ UNCHANGED <<walkVars, caller, root, out>>
Turning == (Tree!Timeout \/ Tree!BackToEvents) /\ UNCHANGED <<walkVars, caller, root, out>>

Finalize ==
    /\ looking
    /\ queries # <<>>
    /\ Head(queries) = "finalize"
    /\ \E f \in Tree!Finalized :
        IF Tree!Exits(f)
        THEN /\ out' = Output({}, "exit")
             /\ caller' = "end"
             /\ UNCHANGED <<nodes, events, limited, dropped, built>>
        ELSE Tree!Install(f, root) /\ UNCHANGED <<caller, out>>
    /\ queries' = Tail(queries)
    /\ UNCHANGED <<walkVars, looking, budget, root>>

(* GetTree; a tree leaves no error, whatever the flag says by now.         *)
Answer ==
    /\ looking
    /\ queries # <<>>
    /\ Head(queries) = "tree"
    /\ out' = Output(built.tree, "none")
    /\ caller' = "end"
    /\ queries' = Tail(queries)
    /\ UNCHANGED <<vars, nodes, looking, budget, dropped, built, root>>

WorkerThread == Receiving \/ Turning \/ Finalize \/ Answer
Caller == Walking \/ AskFinalize \/ AskTree \/ GiveUp
Ended == caller = "end"

RunNext == ~Ended /\ (Caller \/ WorkerThread)
RunSpec == RunInit /\ [][RunNext]_runVars

(* The caller goes on while it can, and no budget is counted on to stop a  *)
(* search.  The worker thread always has a step until the run ends, so     *)
(* that its weak fairness needs no ENABLED.                                *)
FairRunSpec ==
    /\ RunSpec
    /\ WF_runVars(Caller /\ (phase = "fill" => why' # "budget"))
    /\ []<>Ended \/ []<><<WorkerThread>>_runVars

-----------------------------------------------------------------------------
(* Correctness *)
CONSTANT Dist       \* Dist[p]: the plies of the shortest forced end

(* A winner is as near to the end as the nearest reply that loses allows,  *)
(* a loser as far as some reply of his.                                    *)
ASSUME DistAssumption ==
    \A p \in Pos :
        /\ Dist[p] \in Nat
        /\ Static[p] # NoOutcome => Dist[p] = 0
        /\ Static[p] = NoOutcome /\ Truth[p] = "Win" =>
              \A c \in Succ[p] : Truth[c] = "Loss" => Dist[p] <= Dist[c] + 1
        /\ Static[p] = NoOutcome /\ Truth[p] = "Loss" =>
              \E c \in Succ[p] : Dist[p] <= Dist[c] + 1

Proof == CHOOSE t \in out.tree : TRUE

TypeOK ==
    /\ phase \in {"visit", "fill", "descend", "done"}
    /\ verdict \in Decisive \cup {"failed", "none"}
    /\ (phase = "done") = (verdict # "none")
    /\ limited \in BOOLEAN /\ looking \in BOOLEAN
    /\ nodes \in Seq([mv : Pos \cup {NoMove}, pos : Pos \cup {NoMove}, depth : Nat,
                      outcome : Decisive \cup {NoOutcome}, kids : Seq(1 .. Len(nodes))])
    /\ dropped \in Nat

(* A tree the validator passes is a proof: its root has the true outcome,  *)
(* and its depth is no shorter than the fastest forced end, which it would *)
(* be if a reply were missing anywhere (validate.rs, "a Loss proof must    *)
(* cover all legal replies").  Holds whatever events were dropped and      *)
(* whatever twin a subtree was copied from.                                *)
ValidTreeProves ==
    out.tree # {} /\ built.defects = {} =>
        /\ Proof[<<>>].pos = root
        /\ Proof[<<>>].outcome = Truth[root]
        /\ Proof[<<>>].depth >= Dist[root]

(* A complete walk whose events all arrived passes the validator: neither  *)
(* the order of events and queries, nor the twins chosen, nor the depths   *)
(* records and searches advised put a defect into the tree.                *)
CompleteWalkValid == out.tree # {} /\ dropped = 0 => built.defects = {}

(* What a run promises on any snapshot: of the walk a true outcome or a    *)
(* failure of a kind that can happen, of a tree that passes a proof.       *)
RunSound == WalkSafe /\ TypeOK /\ ValidTreeProves

(* The run ends: records cannot lead the walk round in circles for ever,   *)
(* fills stop doubling, and neither thread waits for the other for good.   *)
RunEnds == <>Ended

(* finalize_tree, worker.rs: "If the final tree contains an unexpanded     *)
(* internal node, the process logs an error and exits."                    *)
NoUnexpandedNode ==
    \A t \in out.tree : \A x \in DOMAIN t :
        Tree!KidsOf(x, DOMAIN t) = {} => Static[t[x].pos] # NoOutcome

===============================================================================
