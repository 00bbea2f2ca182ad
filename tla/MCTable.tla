-------------------------------- MODULE MCTable --------------------------------
(***************************************************************************)
(* One bucket that more keys share than it has slots: buckets do not       *)
(* affect each other.                                                      *)
(***************************************************************************)
EXTENDS TranspositionTable, TLC

CONSTANTS k1, k2, k3, k4, b1

MCKeys == {k1, k2, k3, k4}
MCBuckets == {b1}
MCIndex == [k \in MCKeys |-> b1]

Stored(o, pn, dn) ==
    [best |-> NoMove, outcome |-> o, pn |-> pn, dn |-> dn, depth |-> 0, rem |-> 0]

(* A proof, a repetition draw's or a horizon's bounds, and the degenerate  *)
(* bounds of a frame whose children were all explored.                     *)
MCEntries == {Stored("Win", 0, Inf), Stored("None", 1, 1), Stored("None", Inf, Inf + 1)}

Symmetry == Permutations(MCKeys)
================================================================================
