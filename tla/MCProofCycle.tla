---------------------------- MODULE MCProofCycle ----------------------------
EXTENDS ProofCycle

(* White wins by the first move, is mated after the second, and draws by    *)
(* the third.                                                               *)
MCReplies ==
    (<<>> :> {1, 2, 3}) @@ (<<1>> :> {1}) @@ (<<2>> :> {1}) @@ (<<3>> :> {})
    @@ (<<1, 1>> :> {1}) @@ (<<1, 1, 1>> :> {}) @@ (<<2, 1>> :> {})
MCEnded == (<<1, 1, 1>> :> "loss") @@ (<<2, 1>> :> "loss") @@ (<<3>> :> "draw")

MCManifest == <<"m", <<2>>>> :> <<2>>
MCOldShards == <<"m", <<2>>>> :> [q \in {<<2>>, <<2, 1>>} |-> Value[q]]
MCScopes == {<<>>, <<1>>}

(* The old ledger has a visit that spent nothing.                           *)
MCOldCensor == <<1>> :> [work |-> 0, passes |-> 1]

(* Two winning moves: the first wins in five plies, the second in three,    *)
(* though its proof on file takes the longer way.                           *)
FlipReplies ==
    (<<>> :> {1, 2})
    @@ (<<1>> :> {1}) @@ (<<1, 1>> :> {1}) @@ (<<1, 1, 1>> :> {1}) @@ (<<1, 1, 1, 1>> :> {1})
    @@ (<<1, 1, 1, 1, 1>> :> {})
    @@ (<<2>> :> {1}) @@ (<<2, 1>> :> {1, 2}) @@ (<<2, 1, 1>> :> {}) @@ (<<2, 1, 2>> :> {1})
    @@ (<<2, 1, 2, 1>> :> {1}) @@ (<<2, 1, 2, 1, 1>> :> {1}) @@ (<<2, 1, 2, 1, 1, 1>> :> {1})
    @@ (<<2, 1, 2, 1, 1, 1, 1>> :> {})
FlipEnded == (<<1, 1, 1, 1, 1>> :> "loss") @@ (<<2, 1, 1>> :> "loss")
             @@ (<<2, 1, 2, 1, 1, 1, 1>> :> "loss")
FlipManifest == (<<"m", <<1, 1, 1, 1, 1>>>> :> <<1, 1, 1, 1, 1>>) @@ (<<"m", <<2>>>> :> <<2>>)
FlipShards ==
    (<<"m", <<1, 1, 1, 1, 1>>>> :> (<<1, 1, 1, 1, 1>> :> "loss"))
    @@ (<<"m", <<2>>>> :> [q \in {p \in Paths : IsPrefix(<<2>>, p) /\ p # <<2, 1, 1>>} |-> Value[q]])
=============================================================================
