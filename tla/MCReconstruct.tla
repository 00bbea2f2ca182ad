----------------------------- MODULE MCReconstruct -----------------------------
(***************************************************************************)
(* Reconstruct on a small game.  A snapshot holds the true records of the  *)
(* solved positions but for some that were lost, and possibly false ones.  *)
(***************************************************************************)
EXTENDS Reconstruct, Games

CONSTANTS
    LostSets,   \* sets of positions whose records a snapshot may have lost
    Lying       \* whether a snapshot may hold false records

MCPos == AllPos
MCRoots == RootPos
MCSucc == SuccOf
MCBoard == BoardsOf
ClocksOf == Table([p \in AllPos |-> ClockOf(p)])
MCClock == ClocksOf
MCStatic == StaticOf
MCTruth == TruthOf
MCDist == DistOf

(* A true record; the best move of a Win is a shortest one.  Bound by a    *)
(* set of one element, a table is computed once.                           *)
Record(o, d, best) == [outcome |-> o, depth |-> d, best |-> best]
TrueRecord(p, known, succ) ==
    Record(known[p].outcome, known[p].plies,
           IF known[p].outcome # "Win" \/ succ[p] = {} THEN NoMove
           ELSE CHOOSE c \in succ[p] : known[c].outcome = "Loss"
                                        /\ known[p].plies = known[c].plies + 1)
TrueRecords == UNION {{Table([p \in DOMAIN known |-> TrueRecord(p, known, succ)]) :
                        known \in {Labels}} : succ \in {SuccOf}}
Only(s, kept) == Table([p \in kept |-> s[p]])

(* False records: a drawn line called won, a won root called lost, a best  *)
(* move that is missing or belongs to another position.                    *)
Lies == IF Lying
        THEN {<<>>,
              (100 :> Record("Win", 3, 301)) @@ (301 :> Record("Loss", 2, NoMove)),
              (100 :> Record("Loss", 4, NoMove)) @@ (301 :> Record("Win", 3, 1302)),
              100 :> Record("Draw", 0, NoMove),
              300 :> Record("Loss", 2, NoMove),
              402 :> Record("Win", 5, 103),
              502 :> Record("Win", 5, NoMove),
              1004 :> Record("Win", 3, 1107),
              201 :> Record("Win", 9, 602)}
        ELSE {<<>>}
SnapshotsOf ==
    UNION {{Table(lie @@ Only(true, DOMAIN true \ lost)) : lie \in Lies, lost \in LostSets} :
            true \in TrueRecords}

(* What a search of p may leave: its own record, or that of its children   *)
(* as well; below a root, a false one, or none, when the table was seeded  *)
(* with false records.  A root's search has to go deep enough.             *)
Found(p, true, succ) ==
    IF true[p].outcome \in Decisive THEN {Only(true, {p}), Only(true, {p} \cup succ[p])} ELSE {}
Misled(p, succ) ==
    IF ~Lying \/ p \in RootPos \/ succ[p] = {} THEN {}
    ELSE {<<>>, p :> Record("Win", 1, CHOOSE c \in succ[p] : TRUE),
          p :> Record("Loss", 1, NoMove)}
HarvestsOf ==
    CHOOSE h \in UNION {{Table([p \in DOMAIN true |-> Found(p, true, succ) \cup Misled(p, succ)]) :
                            true \in TrueRecords} : succ \in {SuccOf}} : TRUE

(* As in MCDfpn: the constants above are computed once.                    *)
MCSnapshots == SnapshotsOf
MCHarvests == HarvestsOf

===============================================================================
