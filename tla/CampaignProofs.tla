---------------------------- MODULE CampaignProofs ----------------------------
(***************************************************************************)
(* Proofs about Campaign, for any numbers of moves, replies, workers,      *)
(* sessions, jobs, deaths and faults: the type invariant, that no status   *)
(* is ever wrong, that every status has its proof on disk, that a campaign *)
(* that ends "proven" holds a whole certificate, and that a session   *)
(* that was not resumed searches a leaf with one worker at a time.         *)
(***************************************************************************)
EXTENDS Campaign, TLAPS

-----------------------------------------------------------------------------
(* The inductive invariant *)

(* An id that was given out, by this session or an earlier one.            *)
Past(id) == id[2] <= session /\ (phase # "down" /\ id[2] = session => id[3] < dispatched)

GivenOut ==
    /\ \A j \in queue : Past(j.id)
    /\ \A w \in Workers : work[w] # NoJob => Past(work[w].id)
    /\ \A r \in results : Past(r.id)
    /\ \A l \in Leaves : lock[l] # NoJob => Past(lock[l])

(* An id names one job, which is in one place: in the queue, with the      *)
(* worker it was made for, or answered.                                    *)
OnePlace ==
    /\ \A w \in Workers : work[w] # NoJob => work[w].id[1] = w
    /\ \A i, j \in queue : i.id = j.id => i = j
    /\ \A r, q \in results : r.id = q.id => r = q
    /\ \A j \in queue, w \in Workers : work[w] # NoJob => work[w].id # j.id
    /\ \A r \in results, j \in queue : r.id # j.id
    /\ \A r \in results, w \in Workers : work[w] # NoJob => work[w].id # r.id

(* A lock is held for a job of its own leaf.                               *)
LocksMatch ==
    \A l \in Leaves :
        /\ \A j \in queue : lock[l] = j.id => j.leaf = l
        /\ \A w \in Workers : work[w] # NoJob /\ lock[l] = work[w].id => work[w].leaf = l
        /\ \A r \in results : lock[l] = r.id => r.leaf = l

IdsOK == GivenOut /\ OnePlace /\ LocksMatch

Control ==
    /\ phase = "dispatch" => turn <= N
    /\ exit = "verify_failed" => phase \in {"finishing", "closed"}

(* What is proved about a leaf is true of it.                              *)
ResultsTrue ==
    \A r \in results : r.sound /\ r.outcome \in {"Win", "Loss"} => r.outcome = Value[r.leaf]

TruthOK == ResultsTrue /\ StatusSound /\ StatusBacked

(* The proof of a leaf that this pass has still to read.                   *)
Unread(l) ==
    \E r \in results :
        /\ r.leaf = l /\ r.sound /\ r.outcome = "Win"
        /\ r.id \notin processed /\ r.id \notin cancelled
        /\ phase = "drain" => r.id \in listed

WonInTree ==
    phase # "down" /\ exit # "verify_failed" =>
        \A l \in Leaves : status[l] = "Won" =>
            l \in tree \/ (phase \in {"list", "drain"} /\ Unread(l))

Ledger ==
    /\ synthesized \subseteq tree
    /\ \A c \in Children : Resolved(status, c) => c \in synthesized
    /\ saved # NotSaved =>
           \A c \in Children : Resolved(saved.status, c) => c \in saved.synthesized \cup TerminalLosses
    /\ WonInTree

Inv == TypeOK /\ Control /\ IdsOK /\ TruthOK /\ Ledger

-----------------------------------------------------------------------------
LEMMA NoJobIsNew == NoJob \notin JobIds /\ NoJob \notin Jobs
<1>1. NoJob \notin JobIds
    BY DEF NoJob, JobIds
<1>2. NoJob \notin Jobs
    BY DEF NoJob, Jobs
<1> QED
    BY <1>1, <1>2

LEMMA LocatedIsLeaf ==
    ASSUME TypeOK, NEW r \in results
    PROVE  Located(r) \subseteq Leaves
BY DEF TypeOK, Located, ByLock

(* With or without a lock, a result is merged into its own leaf.           *)
LEMMA LocatedIsOwn ==
    ASSUME TypeOK, LocksMatch, NEW r \in results
    PROVE  Located(r) = {r.leaf} /\ r.leaf \in Leaves
<1>1. r.leaf \in Leaves
    BY DEF TypeOK
<1>2. ByLock(r) \subseteq {r.leaf}
    BY DEF LocksMatch, ByLock
<1> QED
    BY <1>1, <1>2 DEF Located

LEMMA NoId ==
    ASSUME TypeOK
    PROVE  /\ \A j \in queue : j.id # NoJob
           /\ \A v \in Workers : work[v] # NoJob => work[v].id # NoJob
           /\ \A r \in results : r.id # NoJob
<1>1. \A j \in Jobs : j.id # NoJob
    BY NoJobIsNew DEF Jobs
<1> QED
    BY <1>1, NoJobIsNew DEF TypeOK

LEMMA StartUnresolved ==
    \A c \in Children : Resolved(Start, c) => c \in TerminalLosses
BY CampaignAssumption DEF Resolved, TerminalLosses, Replies

LEMMA TypeStep == TypeOK /\ Control /\ [CampaignNext]_campaignVars => TypeOK'
<1> USE CampaignAssumption DEF Workers
<1> SUFFICES ASSUME TypeOK /\ Control, [CampaignNext]_campaignVars
             PROVE  TypeOK'
    OBVIOUS
<1>1. CASE List
    BY <1>1, SMTT(30) DEF List, memory, files, rest, TypeOK, Control, Jobs, JobIds, Image, Outcomes, Status, NotSaved, TerminalLosses
<1>2. ASSUME NEW r \in results, DropCancelled(r) PROVE TypeOK'
    BY <1>2, SMTT(30) DEF DropCancelled, Reading, memory, files, rest, TypeOK, Control, Jobs, JobIds, Image, Outcomes, Status, NotSaved, TerminalLosses
<1>3. ASSUME NEW r \in results, MergeDecisive(r) PROVE TypeOK'
    BY <1>3, SMTT(30) DEF MergeDecisive, Reading, Settle, Unlocked, Located, ByLock, Verified, Verdict, Proves, memory, files, rest, TypeOK, Control, Jobs, JobIds, Image, Outcomes, Status, NotSaved, TerminalLosses
<1>4. ASSUME NEW r \in results, RejectDecisive(r) PROVE TypeOK'
    <2>1. lock' \in [Leaves -> JobIds \cup {NoJob}]
        BY <1>4, LocatedIsLeaf DEF RejectDecisive, Unlocked, TypeOK
    <2>2. processed' \subseteq JobIds /\ listed' \subseteq JobIds
        BY <1>4 DEF RejectDecisive, Reading, TypeOK
    <2> QED
        BY <1>4, <2>1, <2>2 DEF RejectDecisive, Reading, TypeOK, files, rest
<1>5. ASSUME NEW r \in results, MergeDraw(r) PROVE TypeOK'
    BY <1>5, SMTT(30) DEF MergeDraw, Reading, Settle, Unlocked, Located, ByLock, Proves, memory, files, rest, TypeOK, Control, Jobs, JobIds, Image, Outcomes, Status, NotSaved, TerminalLosses
<1>6. ASSUME NEW r \in results, MergeError(r) PROVE TypeOK'
    <2>1. lock' \in [Leaves -> JobIds \cup {NoJob}]
        BY <1>6, LocatedIsLeaf DEF MergeError, Unlocked, TypeOK
    <2>2. processed' \subseteq JobIds /\ listed' \subseteq JobIds
        BY <1>6 DEF MergeError, Reading, TypeOK
    <2> QED
        BY <1>6, <2>1, <2>2 DEF MergeError, Reading, TypeOK, files, rest
<1>7. CASE LeaveDecided
    BY <1>7 DEF LeaveDecided, memory, files, rest, TypeOK, Control, Jobs, JobIds, Image, Outcomes, Status, NotSaved, TerminalLosses
<1>8. CASE SweepLocks
    BY <1>8 DEF SweepLocks, memory, files, rest, TypeOK, Control, Jobs, JobIds, Image, Outcomes, Status, NotSaved, TerminalLosses
<1>9. ASSUME NEW l \in Leaves, Dispatch(l) PROVE TypeOK'
    BY <1>9, SMTT(30) DEF Dispatch, NextTurn, JobId, memory, files, rest, TypeOK, Control, Jobs, JobIds, Image, Outcomes, Status, NotSaved, TerminalLosses
<1>10. CASE SkipWorker
    <2>1. turn' \in 1 .. N + 1 /\ phase' \in {"check", "dispatch"}
        BY <1>10 DEF SkipWorker, NextTurn, TypeOK, Control
    <2> QED
        BY <1>10, <2>1 DEF SkipWorker, NextTurn, TypeOK, rest
<1>11. CASE EndPass
    BY <1>11, SMTT(30) DEF EndPass, Image, memory, files, rest, TypeOK, Control, Jobs, JobIds, Image, Outcomes, Status, NotSaved, TerminalLosses
<1>12. CASE WriteStop
    BY <1>12 DEF WriteStop, memory, files, rest, TypeOK, Control, Jobs, JobIds, Image, Outcomes, Status, NotSaved, TerminalLosses
<1>13. CASE Finish
    BY <1>13 DEF Finish, Image, memory, files, rest, TypeOK, Control, Jobs, JobIds, Image, Outcomes, Status, NotSaved, TerminalLosses
<1>14. CASE Tick
    BY <1>14 DEF Tick, memory, files, rest, TypeOK, Control, Jobs, JobIds, Image, Outcomes, Status, NotSaved, TerminalLosses
<1>15. CASE KillMaster
    <2>1. /\ status' = Start /\ lock' \in [Leaves -> JobIds \cup {NoJob}]
          /\ synthesized' \subseteq Children /\ tree' \subseteq Children
        BY <1>15 DEF KillMaster, Begin, Free, Reemitted, TerminalLosses
    <2>2. turn' \in 1 .. N + 1 /\ dispatched' \in 0 .. MaxJobs
        BY <1>15 DEF KillMaster, Begin
    <2> QED
        BY <1>15, <2>1, <2>2 DEF KillMaster, Begin, TypeOK, files, rest
<1>16. CASE Resume
    <2>1. saved \in [status : [Leaves -> Status], synthesized : SUBSET Children]
        BY <1>16 DEF Resume, TypeOK
    <2>2. /\ status' \in [Leaves -> Status] /\ lock' \in [Leaves -> JobIds \cup {NoJob}]
          /\ synthesized' \subseteq Children /\ tree' \subseteq Children
        BY <1>16, <2>1 DEF Resume, Begin, Free, Reemitted, TerminalLosses
    <2>3. turn' \in 1 .. N + 1 /\ dispatched' \in 0 .. MaxJobs /\ session' \in 1 .. MaxSessions
        BY <1>16 DEF Resume, Begin, TypeOK
    <2> QED
        BY <1>16, <2>2, <2>3 DEF Resume, Begin, TypeOK
<1>17. ASSUME NEW w \in Workers, Claim(w) PROVE TypeOK'
    <2>1. PICK j \in Claimable(w) :
              /\ queue' = queue \ {j}
              /\ work' = work \/ work' = [work EXCEPT ![w] = j]
              /\ markers' = markers \/ markers' = markers \ {j.id}
        BY <1>17 DEF Claim, Take
    <2>2. j \in Jobs
        BY <2>1 DEF Claimable, TypeOK
    <2>3. work' \in [Workers -> Jobs \cup {NoJob}]
        BY <2>1, <2>2 DEF TypeOK
    <2>4. queue' \subseteq Jobs /\ markers' \subseteq JobIds
        BY <2>1 DEF TypeOK
    <2> QED
        BY <1>17, <2>3, <2>4 DEF Claim, TypeOK, memory
<1>18. ASSUME NEW w \in Workers, Report(w) PROVE TypeOK'
    <2>1. work[w] \in Jobs
        BY <1>18 DEF Report, TypeOK
    <2>2. work' \in [Workers -> Jobs \cup {NoJob}]
        BY <1>18 DEF Report, Take, TypeOK
    <2>3. faults' \in 0 .. MaxFaults
        BY <1>18 DEF Report, TypeOK
    <2>4. results' \subseteq [id : JobIds, leaf : Leaves,
                             outcome : Outcomes \cup {"Error"}, sound : BOOLEAN]
        <3>1. PICK a \in Answers(work[w].leaf) \cup FaultyAnswers :
                  results' = {r \in results : r.id # work[w].id} \cup
                      {[id |-> work[w].id, leaf |-> work[w].leaf,
                        outcome |-> a.outcome, sound |-> a.sound]}
            BY <1>18 DEF Report
        <3>2. a.outcome \in Outcomes \cup {"Error"} /\ a.sound \in BOOLEAN
            <4>1. work[w].leaf \in Leaves /\ Value[work[w].leaf] \in Outcomes
                BY <2>1 DEF Jobs
            <4>2. CASE a \in Answers(work[w].leaf)
                <5>1. a.outcome \in {"Draw", Value[work[w].leaf]} /\ a.sound = TRUE
                    BY <4>2 DEF Answers
                <5> QED
                    BY <4>1, <5>1 DEF Outcomes
            <4>3. CASE a \in FaultyAnswers
                <5>1. a.outcome \in {"Error", "Win", "Loss"}
                    BY <4>3 DEF FaultyAnswers
                <5>2. a.sound = TRUE \/ a.sound = FALSE
                    BY <4>3 DEF FaultyAnswers
                <5> QED
                    BY <5>1, <5>2 DEF Outcomes
            <4> QED
                BY <3>1, <4>2, <4>3
        <3> QED
            BY <2>1, <3>1, <3>2 DEF TypeOK, Jobs
    <2> QED
        BY <1>18, <2>2, <2>3, <2>4 DEF Report, TypeOK, memory
<1>19. ASSUME NEW w \in Workers, Die(w) PROVE TypeOK'
    <2>1. work' \in [Workers -> Jobs \cup {NoJob}]
        BY <1>19 DEF Die, Take, TypeOK
    <2> QED
        BY <1>19, <2>1 DEF Die, TypeOK, memory, files
<1>20. CASE UNCHANGED campaignVars
    BY <1>20 DEF campaignVars, memory, files, rest, TypeOK, Control, Jobs, JobIds, Image, Outcomes, Status, NotSaved, TerminalLosses
<1> QED
    BY <1>1, <1>2, <1>3, <1>4, <1>5, <1>6, <1>7, <1>8, <1>9, <1>10, <1>11, <1>12, <1>13, <1>14, <1>15, <1>16, <1>17, <1>18, <1>19, <1>20 DEF CampaignNext, Master, Drain

LEMMA ControlStep == TypeOK /\ Control /\ [CampaignNext]_campaignVars => Control'
<1> USE CampaignAssumption DEF Workers
<1> SUFFICES ASSUME TypeOK /\ Control, [CampaignNext]_campaignVars
             PROVE  Control'
    OBVIOUS
<1>1. CASE List
    BY <1>1 DEF List, memory, files, rest, TypeOK, Control, Running
<1>2. ASSUME NEW r \in results, DropCancelled(r) PROVE Control'
    BY <1>2 DEF DropCancelled, Reading, memory, files, rest, TypeOK, Control, Running
<1>3. ASSUME NEW r \in results, MergeDecisive(r) PROVE Control'
    BY <1>3 DEF MergeDecisive, Reading, Settle, Unlocked, Located, ByLock, Verified, Verdict, Proves, memory, files, rest, TypeOK, Control, Running
<1>4. ASSUME NEW r \in results, RejectDecisive(r) PROVE Control'
    BY <1>4 DEF RejectDecisive, Reading, Unlocked, Located, ByLock, Verified, memory, files, rest, TypeOK, Control, Running
<1>5. ASSUME NEW r \in results, MergeDraw(r) PROVE Control'
    BY <1>5 DEF MergeDraw, Reading, Settle, Unlocked, Located, ByLock, Proves, memory, files, rest, TypeOK, Control, Running
<1>6. ASSUME NEW r \in results, MergeError(r) PROVE Control'
    BY <1>6 DEF MergeError, Reading, Unlocked, Located, ByLock, memory, files, rest, TypeOK, Control, Running
<1>7. CASE LeaveDecided
    BY <1>7 DEF LeaveDecided, memory, files, rest, TypeOK, Control, Running
<1>8. CASE SweepLocks
    BY <1>8 DEF SweepLocks, memory, files, rest, TypeOK, Control, Running
<1>9. ASSUME NEW l \in Leaves, Dispatch(l) PROVE Control'
    BY <1>9 DEF Dispatch, NextTurn, JobId, memory, files, rest, TypeOK, Control, Running
<1>10. CASE SkipWorker
    BY <1>10 DEF SkipWorker, NextTurn, memory, files, rest, TypeOK, Control, Running
<1>11. CASE EndPass
    BY <1>11 DEF EndPass, Image, memory, files, rest, TypeOK, Control, Running
<1>12. CASE WriteStop
    BY <1>12 DEF WriteStop, memory, files, rest, TypeOK, Control, Running
<1>13. CASE Finish
    BY <1>13 DEF Finish, Image, memory, files, rest, TypeOK, Control, Running
<1>14. CASE Tick
    BY <1>14 DEF Tick, memory, files, rest, TypeOK, Control, Running
<1>15. CASE KillMaster
    BY <1>15 DEF KillMaster, Begin, Reemitted, Free, memory, files, rest, TypeOK, Control, Running
<1>16. CASE Resume
    BY <1>16 DEF Resume, Begin, Reemitted, Free, memory, files, rest, TypeOK, Control, Running
<1>17. ASSUME NEW w \in Workers, Claim(w) PROVE Control'
    BY <1>17 DEF Claim, Take, Claimable, memory, files, rest, TypeOK, Control, Running
<1>18. ASSUME NEW w \in Workers, Report(w) PROVE Control'
    BY <1>18 DEF Report, Take, Answers, FaultyAnswers, memory, files, rest, TypeOK, Control, Running
<1>19. ASSUME NEW w \in Workers, Die(w) PROVE Control'
    BY <1>19 DEF Die, Take, memory, files, rest, TypeOK, Control, Running
<1>20. CASE UNCHANGED campaignVars
    BY <1>20 DEF campaignVars, memory, files, rest, TypeOK, Control, Running
<1> QED
    BY <1>1, <1>2, <1>3, <1>4, <1>5, <1>6, <1>7, <1>8, <1>9, <1>10, <1>11, <1>12, <1>13, <1>14, <1>15, <1>16, <1>17, <1>18, <1>19, <1>20 DEF CampaignNext, Master, Drain

LEMMA GivenOutStep == TypeOK /\ Control /\ GivenOut /\ [CampaignNext]_campaignVars => GivenOut'
<1> USE CampaignAssumption DEF Workers
<1> SUFFICES ASSUME TypeOK /\ Control /\ GivenOut, [CampaignNext]_campaignVars
             PROVE  GivenOut'
    OBVIOUS
<1>1. CASE List
    BY <1>1 DEF List, memory, files, rest, TypeOK, Control, GivenOut, Past, Jobs, JobIds, Running
<1>2. ASSUME NEW r \in results, DropCancelled(r) PROVE GivenOut'
    BY <1>2 DEF DropCancelled, Reading, memory, files, rest, TypeOK, Control, GivenOut, Past, Jobs, JobIds, Running
<1>3. ASSUME NEW r \in results, MergeDecisive(r) PROVE GivenOut'
    BY <1>3 DEF MergeDecisive, Reading, Settle, Unlocked, Located, ByLock, Verified, Verdict, Proves, memory, files, rest, TypeOK, Control, GivenOut, Past, Jobs, JobIds, Running
<1>4. ASSUME NEW r \in results, RejectDecisive(r) PROVE GivenOut'
    BY <1>4 DEF RejectDecisive, Reading, Unlocked, Located, ByLock, Verified, memory, files, rest, TypeOK, Control, GivenOut, Past, Jobs, JobIds, Running
<1>5. ASSUME NEW r \in results, MergeDraw(r) PROVE GivenOut'
    BY <1>5 DEF MergeDraw, Reading, Settle, Unlocked, Located, ByLock, Proves, memory, files, rest, TypeOK, Control, GivenOut, Past, Jobs, JobIds, Running
<1>6. ASSUME NEW r \in results, MergeError(r) PROVE GivenOut'
    BY <1>6 DEF MergeError, Reading, Unlocked, Located, ByLock, memory, files, rest, TypeOK, Control, GivenOut, Past, Jobs, JobIds, Running
<1>7. CASE LeaveDecided
    BY <1>7 DEF LeaveDecided, memory, files, rest, TypeOK, Control, GivenOut, Past, Jobs, JobIds, Running
<1>8. CASE SweepLocks
    BY <1>8 DEF SweepLocks, memory, files, rest, TypeOK, Control, GivenOut, Past, Jobs, JobIds, Running
<1>9. ASSUME NEW l \in Leaves, Dispatch(l) PROVE GivenOut'
    BY <1>9, SMTT(30) DEF Dispatch, NextTurn, JobId, memory, files, rest, TypeOK, Control, GivenOut, Past, Jobs, JobIds, Running
<1>10. CASE SkipWorker
    BY <1>10 DEF SkipWorker, NextTurn, memory, files, rest, TypeOK, Control, GivenOut, Past, Jobs, JobIds, Running
<1>11. CASE EndPass
    BY <1>11 DEF EndPass, Image, memory, files, rest, TypeOK, Control, GivenOut, Past, Jobs, JobIds, Running
<1>12. CASE WriteStop
    BY <1>12 DEF WriteStop, memory, files, rest, TypeOK, Control, GivenOut, Past, Jobs, JobIds, Running
<1>13. CASE Finish
    BY <1>13 DEF Finish, Image, memory, files, rest, TypeOK, Control, GivenOut, Past, Jobs, JobIds, Running
<1>14. CASE Tick
    BY <1>14 DEF Tick, memory, files, rest, TypeOK, Control, GivenOut, Past, Jobs, JobIds, Running
<1>15. CASE KillMaster
    BY <1>15 DEF KillMaster, Begin, Reemitted, Free, memory, files, rest, TypeOK, Control, GivenOut, Past, Jobs, JobIds, Running
<1>16. CASE Resume
    BY <1>16, SMTT(30) DEF Resume, Begin, Reemitted, Free, memory, files, rest, TypeOK, Control, GivenOut, Past, Jobs, JobIds, Running
<1>17. ASSUME NEW w \in Workers, Claim(w) PROVE GivenOut'
    <2>1. /\ UNCHANGED <<phase, session, dispatched, results, lock>> /\ queue' \subseteq queue
          /\ \A v \in Workers : work'[v] = work[v] \/ work'[v] \in queue
        BY <1>17 DEF Claim, Take, Claimable, memory, TypeOK
    <2>2. QED
        BY <2>1 DEF GivenOut, Past
<1>18. ASSUME NEW w \in Workers, Report(w) PROVE GivenOut'
    BY <1>18 DEF Report, Take, Answers, FaultyAnswers, memory, files, rest, TypeOK, Control, GivenOut, Past, Jobs, JobIds, Running
<1>19. ASSUME NEW w \in Workers, Die(w) PROVE GivenOut'
    BY <1>19 DEF Die, Take, memory, files, rest, TypeOK, Control, GivenOut, Past, Jobs, JobIds, Running
<1>20. CASE UNCHANGED campaignVars
    BY <1>20 DEF campaignVars, memory, files, rest, TypeOK, Control, GivenOut, Past, Jobs, JobIds, Running
<1> QED
    BY <1>1, <1>2, <1>3, <1>4, <1>5, <1>6, <1>7, <1>8, <1>9, <1>10, <1>11, <1>12, <1>13, <1>14, <1>15, <1>16, <1>17, <1>18, <1>19, <1>20 DEF CampaignNext, Master, Drain

LEMMA OnePlaceStep == TypeOK /\ Control /\ GivenOut /\ OnePlace /\ [CampaignNext]_campaignVars => OnePlace'
<1> USE CampaignAssumption DEF Workers
<1> SUFFICES ASSUME TypeOK /\ Control /\ GivenOut /\ OnePlace, [CampaignNext]_campaignVars
             PROVE  OnePlace'
    OBVIOUS
<1>1. CASE List
    BY <1>1 DEF List, memory, files, rest, TypeOK, Control, GivenOut, OnePlace, Past, Jobs, JobIds
<1>2. ASSUME NEW r \in results, DropCancelled(r) PROVE OnePlace'
    BY <1>2 DEF DropCancelled, Reading, memory, files, rest, TypeOK, Control, GivenOut, OnePlace, Past, Jobs, JobIds
<1>3. ASSUME NEW r \in results, MergeDecisive(r) PROVE OnePlace'
    BY <1>3 DEF MergeDecisive, Reading, Settle, Unlocked, Located, ByLock, Verified, Verdict, Proves, memory, files, rest, TypeOK, Control, GivenOut, OnePlace, Past, Jobs, JobIds
<1>4. ASSUME NEW r \in results, RejectDecisive(r) PROVE OnePlace'
    BY <1>4 DEF RejectDecisive, Reading, Unlocked, Located, ByLock, Verified, memory, files, rest, TypeOK, Control, GivenOut, OnePlace, Past, Jobs, JobIds
<1>5. ASSUME NEW r \in results, MergeDraw(r) PROVE OnePlace'
    BY <1>5 DEF MergeDraw, Reading, Settle, Unlocked, Located, ByLock, Proves, memory, files, rest, TypeOK, Control, GivenOut, OnePlace, Past, Jobs, JobIds
<1>6. ASSUME NEW r \in results, MergeError(r) PROVE OnePlace'
    BY <1>6 DEF MergeError, Reading, Unlocked, Located, ByLock, memory, files, rest, TypeOK, Control, GivenOut, OnePlace, Past, Jobs, JobIds
<1>7. CASE LeaveDecided
    BY <1>7 DEF LeaveDecided, memory, files, rest, TypeOK, Control, GivenOut, OnePlace, Past, Jobs, JobIds
<1>8. CASE SweepLocks
    BY <1>8 DEF SweepLocks, memory, files, rest, TypeOK, Control, GivenOut, OnePlace, Past, Jobs, JobIds
<1>9. ASSUME NEW l \in Leaves, Dispatch(l) PROVE OnePlace'
    BY <1>9, SMTT(30) DEF Dispatch, NextTurn, JobId, memory, files, rest, TypeOK, Control, GivenOut, OnePlace, Past, Jobs, JobIds
<1>10. CASE SkipWorker
    BY <1>10 DEF SkipWorker, NextTurn, memory, files, rest, TypeOK, Control, GivenOut, OnePlace, Past, Jobs, JobIds
<1>11. CASE EndPass
    BY <1>11 DEF EndPass, Image, memory, files, rest, TypeOK, Control, GivenOut, OnePlace, Past, Jobs, JobIds
<1>12. CASE WriteStop
    BY <1>12 DEF WriteStop, memory, files, rest, TypeOK, Control, GivenOut, OnePlace, Past, Jobs, JobIds
<1>13. CASE Finish
    BY <1>13 DEF Finish, Image, memory, files, rest, TypeOK, Control, GivenOut, OnePlace, Past, Jobs, JobIds
<1>14. CASE Tick
    BY <1>14 DEF Tick, memory, files, rest, TypeOK, Control, GivenOut, OnePlace, Past, Jobs, JobIds
<1>15. CASE KillMaster
    BY <1>15 DEF KillMaster, Begin, Reemitted, Free, memory, files, rest, TypeOK, Control, GivenOut, OnePlace, Past, Jobs, JobIds
<1>16. CASE Resume
    BY <1>16 DEF Resume, Begin, Reemitted, Free, memory, files, rest, TypeOK, Control, GivenOut, OnePlace, Past, Jobs, JobIds
<1>17. ASSUME NEW w \in Workers, Claim(w) PROVE OnePlace'
    <2>1. PICK j \in Claimable(w) :
              /\ queue' = queue \ {j}
              /\ work' = work \/ work' = [work EXCEPT ![w] = j]
        BY <1>17 DEF Claim, Take
    <2>2. j \in queue /\ j.id[1] = w /\ j \in Jobs /\ work \in [Workers -> Jobs \cup {NoJob}]
          /\ results' = results
        BY <1>17, <2>1 DEF Claim, Claimable, TypeOK
    <2>3. CASE work' = work
        BY <2>1, <2>2, <2>3 DEF OnePlace
    <2>4. CASE work' = [work EXCEPT ![w] = j]
        <3>1. \A v \in Workers : work'[v] = IF v = w THEN j ELSE work[v]
            BY <2>2, <2>4
        <3>2. \A v \in Workers : work'[v] # NoJob => work'[v].id[1] = v
            BY <2>2, <3>1 DEF OnePlace
        <3>3. \A i, k \in queue' : i.id = k.id => i = k
            BY <2>1 DEF OnePlace
        <3>4. \A i \in queue', v \in Workers : work'[v] # NoJob => work'[v].id # i.id
            BY <2>1, <2>2, <3>1 DEF OnePlace
        <3>5. \A r \in results', i \in queue' : r.id # i.id
            BY <2>1, <2>2 DEF OnePlace
        <3>6. \A r \in results', v \in Workers : work'[v] # NoJob => work'[v].id # r.id
            BY <2>2, <3>1 DEF OnePlace
        <3> QED
            BY <2>2, <3>2, <3>3, <3>4, <3>5, <3>6 DEF OnePlace
    <2> QED
        BY <2>1, <2>3, <2>4
<1>18. ASSUME NEW w \in Workers, Report(w) PROVE OnePlace'
    BY <1>18, SMTT(30) DEF Report, Take, Answers, FaultyAnswers, memory, files, rest, TypeOK, Control, GivenOut, OnePlace, Past, Jobs, JobIds
<1>19. ASSUME NEW w \in Workers, Die(w) PROVE OnePlace'
    BY <1>19 DEF Die, Take, memory, files, rest, TypeOK, Control, GivenOut, OnePlace, Past, Jobs, JobIds
<1>20. CASE UNCHANGED campaignVars
    BY <1>20 DEF campaignVars, memory, files, rest, TypeOK, Control, GivenOut, OnePlace, Past, Jobs, JobIds
<1> QED
    BY <1>1, <1>2, <1>3, <1>4, <1>5, <1>6, <1>7, <1>8, <1>9, <1>10, <1>11, <1>12, <1>13, <1>14, <1>15, <1>16, <1>17, <1>18, <1>19, <1>20 DEF CampaignNext, Master, Drain

LEMMA LocksStep == TypeOK /\ Control /\ IdsOK /\ [CampaignNext]_campaignVars => LocksMatch'
<1> USE CampaignAssumption DEF Workers
<1> SUFFICES ASSUME TypeOK /\ Control /\ IdsOK, [CampaignNext]_campaignVars
             PROVE  LocksMatch'
    OBVIOUS
<1>1. CASE List
    BY <1>1 DEF List, memory, files, rest, TypeOK, Control, IdsOK, GivenOut, LocksMatch, OnePlace, Past, Jobs, JobIds
<1>2. ASSUME NEW r \in results, DropCancelled(r) PROVE LocksMatch'
    BY <1>2 DEF DropCancelled, Reading, memory, files, rest, TypeOK, Control, IdsOK, GivenOut, LocksMatch, OnePlace, Past, Jobs, JobIds
<1>3. ASSUME NEW r \in results, MergeDecisive(r) PROVE LocksMatch'
    <2> Located(r) = {r.leaf} /\ r.leaf \in Leaves
        BY LocatedIsOwn DEF IdsOK
    <2>1. lock' = [lock EXCEPT ![r.leaf] = NoJob]
        BY <1>3 DEF MergeDecisive, Unlocked
    <2>2. \A l \in Leaves : lock'[l] = IF l = r.leaf THEN NoJob ELSE lock[l]
        BY <2>1 DEF TypeOK
    <2>3. UNCHANGED <<queue, work, results>>
        BY <1>3 DEF MergeDecisive, Reading, files, rest
    <2> QED
        BY <2>2, <2>3, NoId DEF IdsOK, LocksMatch
<1>4. ASSUME NEW r \in results, RejectDecisive(r) PROVE LocksMatch'
    <2> Located(r) = {r.leaf} /\ r.leaf \in Leaves
        BY LocatedIsOwn DEF IdsOK
    <2>1. lock' = [lock EXCEPT ![r.leaf] = NoJob]
        BY <1>4 DEF RejectDecisive, Unlocked
    <2>2. \A l \in Leaves : lock'[l] = IF l = r.leaf THEN NoJob ELSE lock[l]
        BY <2>1 DEF TypeOK
    <2>3. UNCHANGED <<queue, work, results>>
        BY <1>4 DEF RejectDecisive, Reading, files, rest
    <2> QED
        BY <2>2, <2>3, NoId DEF IdsOK, LocksMatch
<1>5. ASSUME NEW r \in results, MergeDraw(r) PROVE LocksMatch'
    <2> Located(r) = {r.leaf} /\ r.leaf \in Leaves
        BY LocatedIsOwn DEF IdsOK
    <2>1. lock' = [lock EXCEPT ![r.leaf] = NoJob]
        BY <1>5 DEF MergeDraw, Unlocked
    <2>2. \A l \in Leaves : lock'[l] = IF l = r.leaf THEN NoJob ELSE lock[l]
        BY <2>1 DEF TypeOK
    <2>3. UNCHANGED <<queue, work, results>>
        BY <1>5 DEF MergeDraw, Reading, files, rest
    <2> QED
        BY <2>2, <2>3, NoId DEF IdsOK, LocksMatch
<1>6. ASSUME NEW r \in results, MergeError(r) PROVE LocksMatch'
    <2> Located(r) = {r.leaf} /\ r.leaf \in Leaves
        BY LocatedIsOwn DEF IdsOK
    <2>1. lock' = [lock EXCEPT ![r.leaf] = NoJob]
        BY <1>6 DEF MergeError, Unlocked
    <2>2. \A l \in Leaves : lock'[l] = IF l = r.leaf THEN NoJob ELSE lock[l]
        BY <2>1 DEF TypeOK
    <2>3. UNCHANGED <<queue, work, results>>
        BY <1>6 DEF MergeError, Reading, files, rest
    <2> QED
        BY <2>2, <2>3, NoId DEF IdsOK, LocksMatch
<1>7. CASE LeaveDecided
    BY <1>7 DEF LeaveDecided, memory, files, rest, TypeOK, Control, IdsOK, GivenOut, LocksMatch, OnePlace, Past, Jobs, JobIds
<1>8. CASE SweepLocks
    <2>1. \A l \in Leaves : lock'[l] \in {lock[l], NoJob}
        BY <1>8 DEF SweepLocks
    <2>2. UNCHANGED <<queue, work, results>>
        BY <1>8 DEF SweepLocks, rest
    <2> QED
        BY <2>1, <2>2, NoId DEF IdsOK, LocksMatch
<1>9. ASSUME NEW l \in Leaves, Dispatch(l) PROVE LocksMatch'
    <2> DEFINE id == <<turn, session, dispatched>>
    <2>1. lock' = [lock EXCEPT ![l] = id] /\ queue' = queue \cup {[id |-> id, leaf |-> l]}
          /\ phase = "dispatch" /\ UNCHANGED <<work, results>>
        BY <1>9 DEF Dispatch, JobId, NextTurn, rest
    <2>2. /\ \A j \in queue : j.id # id
          /\ \A v \in Workers : work[v] # NoJob => work[v].id # id
          /\ \A r \in results : r.id # id
          /\ \A k \in Leaves : lock[k] # NoJob => lock[k] # id
        <3>1. ~Past(id)
            BY <2>1 DEF Past, TypeOK
        <3> QED
            BY <3>1 DEF IdsOK, GivenOut
    <2>3. id # NoJob
        BY DEF NoJob
    <2>4. \A k \in Leaves : lock'[k] = IF k = l THEN id ELSE lock[k]
        BY <2>1 DEF TypeOK
    <2> QED
        BY <2>1, <2>2, <2>3, <2>4 DEF IdsOK, LocksMatch
<1>10. CASE SkipWorker
    BY <1>10 DEF SkipWorker, NextTurn, memory, files, rest, TypeOK, Control, IdsOK, GivenOut, LocksMatch, OnePlace, Past, Jobs, JobIds
<1>11. CASE EndPass
    BY <1>11 DEF EndPass, Image, memory, files, rest, TypeOK, Control, IdsOK, GivenOut, LocksMatch, OnePlace, Past, Jobs, JobIds
<1>12. CASE WriteStop
    BY <1>12 DEF WriteStop, memory, files, rest, TypeOK, Control, IdsOK, GivenOut, LocksMatch, OnePlace, Past, Jobs, JobIds
<1>13. CASE Finish
    BY <1>13 DEF Finish, Image, memory, files, rest, TypeOK, Control, IdsOK, GivenOut, LocksMatch, OnePlace, Past, Jobs, JobIds
<1>14. CASE Tick
    BY <1>14 DEF Tick, memory, files, rest, TypeOK, Control, IdsOK, GivenOut, LocksMatch, OnePlace, Past, Jobs, JobIds
<1>15. CASE KillMaster
    <2>1. (\A l \in Leaves : lock'[l] = NoJob) /\ UNCHANGED <<queue, work, results>>
        BY <1>15 DEF KillMaster, Begin, Free, files, rest
    <2> QED
        BY <2>1, NoId DEF LocksMatch
<1>16. CASE Resume
    <2>1. (\A l \in Leaves : lock'[l] = NoJob) /\ queue' = {} /\ UNCHANGED <<work, results>>
        BY <1>16 DEF Resume, Begin, Free
    <2> QED
        BY <2>1, NoId DEF LocksMatch
<1>17. ASSUME NEW w \in Workers, Claim(w) PROVE LocksMatch'
    <2>1. PICK j \in Claimable(w) :
              /\ queue' = queue \ {j}
              /\ work' = work \/ work' = [work EXCEPT ![w] = j]
        BY <1>17 DEF Claim, Take
    <2>2. j \in queue /\ UNCHANGED <<lock, results>>
        BY <1>17, <2>1 DEF Claim, Claimable, memory
    <2>3. \A v \in Workers : work'[v] = work[v] \/ work'[v] = j
        BY <2>1 DEF TypeOK
    <2> QED
        BY <2>1, <2>2, <2>3 DEF IdsOK, LocksMatch
<1>18. ASSUME NEW w \in Workers, Report(w) PROVE LocksMatch'
    BY <1>18 DEF Report, Take, Answers, FaultyAnswers, memory, files, rest, TypeOK, Control, IdsOK, GivenOut, LocksMatch, OnePlace, Past, Jobs, JobIds
<1>19. ASSUME NEW w \in Workers, Die(w) PROVE LocksMatch'
    BY <1>19 DEF Die, Take, memory, files, rest, TypeOK, Control, IdsOK, GivenOut, LocksMatch, OnePlace, Past, Jobs, JobIds
<1>20. CASE UNCHANGED campaignVars
    BY <1>20 DEF campaignVars, memory, files, rest, TypeOK, Control, IdsOK, GivenOut, LocksMatch, OnePlace, Past, Jobs, JobIds
<1> QED
    BY <1>1, <1>2, <1>3, <1>4, <1>5, <1>6, <1>7, <1>8, <1>9, <1>10, <1>11, <1>12, <1>13, <1>14, <1>15, <1>16, <1>17, <1>18, <1>19, <1>20 DEF CampaignNext, Master, Drain

LEMMA ResultsTrueStep == TypeOK /\ ResultsTrue /\ [CampaignNext]_campaignVars => ResultsTrue'
<1> USE CampaignAssumption DEF Workers
<1> SUFFICES ASSUME TypeOK /\ ResultsTrue, [CampaignNext]_campaignVars
             PROVE  ResultsTrue'
    OBVIOUS
<1>1. CASE List
    BY <1>1 DEF List, memory, files, rest, ResultsTrue, TypeOK
<1>2. ASSUME NEW r \in results, DropCancelled(r) PROVE ResultsTrue'
    BY <1>2 DEF DropCancelled, Reading, memory, files, rest, ResultsTrue, TypeOK
<1>3. ASSUME NEW r \in results, MergeDecisive(r) PROVE ResultsTrue'
    BY <1>3 DEF MergeDecisive, Reading, Settle, Unlocked, Located, ByLock, Verified, Verdict, Proves, memory, files, rest, ResultsTrue, TypeOK
<1>4. ASSUME NEW r \in results, RejectDecisive(r) PROVE ResultsTrue'
    BY <1>4 DEF RejectDecisive, Reading, Unlocked, Located, ByLock, Verified, memory, files, rest, ResultsTrue, TypeOK
<1>5. ASSUME NEW r \in results, MergeDraw(r) PROVE ResultsTrue'
    BY <1>5 DEF MergeDraw, Reading, Settle, Unlocked, Located, ByLock, Proves, memory, files, rest, ResultsTrue, TypeOK
<1>6. ASSUME NEW r \in results, MergeError(r) PROVE ResultsTrue'
    BY <1>6 DEF MergeError, Reading, Unlocked, Located, ByLock, memory, files, rest, ResultsTrue, TypeOK
<1>7. CASE LeaveDecided
    BY <1>7 DEF LeaveDecided, memory, files, rest, ResultsTrue, TypeOK
<1>8. CASE SweepLocks
    BY <1>8 DEF SweepLocks, memory, files, rest, ResultsTrue, TypeOK
<1>9. ASSUME NEW l \in Leaves, Dispatch(l) PROVE ResultsTrue'
    BY <1>9 DEF Dispatch, NextTurn, JobId, memory, files, rest, ResultsTrue, TypeOK
<1>10. CASE SkipWorker
    BY <1>10 DEF SkipWorker, NextTurn, memory, files, rest, ResultsTrue, TypeOK
<1>11. CASE EndPass
    BY <1>11 DEF EndPass, Image, memory, files, rest, ResultsTrue, TypeOK
<1>12. CASE WriteStop
    BY <1>12 DEF WriteStop, memory, files, rest, ResultsTrue, TypeOK
<1>13. CASE Finish
    BY <1>13 DEF Finish, Image, memory, files, rest, ResultsTrue, TypeOK
<1>14. CASE Tick
    BY <1>14 DEF Tick, memory, files, rest, ResultsTrue, TypeOK
<1>15. CASE KillMaster
    BY <1>15 DEF KillMaster, Begin, Reemitted, Free, memory, files, rest, ResultsTrue, TypeOK
<1>16. CASE Resume
    BY <1>16 DEF Resume, Begin, Reemitted, Free, memory, files, rest, ResultsTrue, TypeOK
<1>17. ASSUME NEW w \in Workers, Claim(w) PROVE ResultsTrue'
    BY <1>17 DEF Claim, Take, Claimable, memory, files, rest, ResultsTrue, TypeOK
<1>18. ASSUME NEW w \in Workers, Report(w) PROVE ResultsTrue'
    <2>1. PICK a \in Answers(work[w].leaf) \cup FaultyAnswers :
              results' = {r \in results : r.id # work[w].id} \cup
                  {[id |-> work[w].id, leaf |-> work[w].leaf,
                    outcome |-> a.outcome, sound |-> a.sound]}
        BY <1>18 DEF Report
    <2>2. a.sound /\ a.outcome \in {"Win", "Loss"} => a.outcome = Value[work[w].leaf]
        BY DEF Answers, FaultyAnswers
    <2> QED
        BY <2>1, <2>2 DEF ResultsTrue
<1>19. ASSUME NEW w \in Workers, Die(w) PROVE ResultsTrue'
    BY <1>19 DEF Die, Take, memory, files, rest, ResultsTrue, TypeOK
<1>20. CASE UNCHANGED campaignVars
    BY <1>20 DEF campaignVars, memory, files, rest, ResultsTrue, TypeOK
<1> QED
    BY <1>1, <1>2, <1>3, <1>4, <1>5, <1>6, <1>7, <1>8, <1>9, <1>10, <1>11, <1>12, <1>13, <1>14, <1>15, <1>16, <1>17, <1>18, <1>19, <1>20 DEF CampaignNext, Master, Drain

LEMMA StatusStep == TypeOK /\ IdsOK /\ TruthOK /\ [CampaignNext]_campaignVars => (StatusSound /\ StatusBacked)'
<1> USE CampaignAssumption DEF Workers
<1> USE DEF TruthOK
<1> SUFFICES ASSUME TypeOK /\ IdsOK /\ TruthOK, [CampaignNext]_campaignVars
             PROVE  (StatusSound /\ StatusBacked)'
    OBVIOUS
<1>1. CASE List
    <2>1. UNCHANGED <<results, status, saved>>
        BY <1>1 DEF List, memory, files, rest
    <2> QED
        BY <2>1 DEF StatusSound, Sound, StatusBacked, Backed
<1>2. ASSUME NEW r \in results, DropCancelled(r) PROVE (StatusSound /\ StatusBacked)'
    <2>1. UNCHANGED <<results, status, saved>>
        BY <1>2 DEF DropCancelled, Reading, memory, files, rest
    <2> QED
        BY <2>1 DEF StatusSound, Sound, StatusBacked, Backed
<1>3. ASSUME NEW r \in results, MergeDecisive(r) PROVE (StatusSound /\ StatusBacked)'
    <2> Located(r) = {r.leaf} /\ r.leaf \in Leaves
        BY LocatedIsOwn DEF IdsOK
    <2>1. /\ status' = [status EXCEPT ![r.leaf] = Verdict(r.outcome)]
          /\ r.sound /\ r.outcome \in {"Win", "Loss"} /\ UNCHANGED <<results, saved>>
        BY <1>3 DEF MergeDecisive, Verified, Settle, files
    <2>2. \A l \in Leaves : status'[l] = IF l = r.leaf THEN Verdict(r.outcome) ELSE status[l]
        BY <2>1 DEF TypeOK
    <2>3. r.outcome = Value[r.leaf]
        BY <2>1 DEF ResultsTrue
    <2>4. StatusSound'
        BY <2>1, <2>2, <2>3 DEF StatusSound, Sound, Verdict
    <2>5. Backed(status)'
        BY <2>1, <2>2 DEF StatusBacked, Backed
    <2> QED
        BY <2>1, <2>4, <2>5 DEF StatusBacked, Backed
<1>4. ASSUME NEW r \in results, RejectDecisive(r) PROVE (StatusSound /\ StatusBacked)'
    <2>1. UNCHANGED <<results, status, saved>>
        BY <1>4 DEF RejectDecisive, Reading, Unlocked, Located, ByLock, Verified, memory, files, rest
    <2> QED
        BY <2>1 DEF StatusSound, Sound, StatusBacked, Backed
<1>5. ASSUME NEW r \in results, MergeDraw(r) PROVE (StatusSound /\ StatusBacked)'
    <2>1. UNCHANGED <<results, status, saved>>
        BY <1>5 DEF MergeDraw, Reading, Settle, Unlocked, Located, ByLock, Proves, memory, files, rest
    <2> QED
        BY <2>1 DEF StatusSound, Sound, StatusBacked, Backed
<1>6. ASSUME NEW r \in results, MergeError(r) PROVE (StatusSound /\ StatusBacked)'
    <2>1. UNCHANGED <<results, status, saved>>
        BY <1>6 DEF MergeError, Reading, Unlocked, Located, ByLock, memory, files, rest
    <2> QED
        BY <2>1 DEF StatusSound, Sound, StatusBacked, Backed
<1>7. CASE LeaveDecided
    <2>1. UNCHANGED <<results, status, saved>>
        BY <1>7 DEF LeaveDecided, memory, files, rest
    <2> QED
        BY <2>1 DEF StatusSound, Sound, StatusBacked, Backed
<1>8. CASE SweepLocks
    <2>1. UNCHANGED <<results, status, saved>>
        BY <1>8 DEF SweepLocks, memory, files, rest
    <2> QED
        BY <2>1 DEF StatusSound, Sound, StatusBacked, Backed
<1>9. ASSUME NEW l \in Leaves, Dispatch(l) PROVE (StatusSound /\ StatusBacked)'
    <2>1. UNCHANGED <<results, status, saved>>
        BY <1>9 DEF Dispatch, NextTurn, JobId, memory, files, rest
    <2> QED
        BY <2>1 DEF StatusSound, Sound, StatusBacked, Backed
<1>10. CASE SkipWorker
    <2>1. UNCHANGED <<results, status, saved>>
        BY <1>10 DEF SkipWorker, NextTurn, memory, files, rest
    <2> QED
        BY <2>1 DEF StatusSound, Sound, StatusBacked, Backed
<1>11. CASE EndPass
    <2>1. saved' \in {saved, Image} /\ UNCHANGED <<results, status>>
        BY <1>11 DEF EndPass, memory
    <2>2. Image.status = status
        BY DEF Image
    <2> QED
        BY <2>1, <2>2 DEF StatusSound, Sound, StatusBacked, Backed
<1>12. CASE WriteStop
    <2>1. UNCHANGED <<results, status, saved>>
        BY <1>12 DEF WriteStop, memory, files, rest
    <2> QED
        BY <2>1 DEF StatusSound, Sound, StatusBacked, Backed
<1>13. CASE Finish
    <2>1. saved' \in {saved, Image} /\ UNCHANGED <<results, status>>
        BY <1>13 DEF Finish, memory
    <2>2. Image.status = status
        BY DEF Image
    <2> QED
        BY <2>1, <2>2 DEF StatusSound, Sound, StatusBacked, Backed
<1>14. CASE Tick
    <2>1. UNCHANGED <<results, status, saved>>
        BY <1>14 DEF Tick, memory, files, rest
    <2> QED
        BY <2>1 DEF StatusSound, Sound, StatusBacked, Backed
<1>15. CASE KillMaster
    <2>1. status' = Start /\ UNCHANGED <<results, saved>>
        BY <1>15 DEF KillMaster, Begin, files
    <2>2. Sound(Start) /\ Backed(Start)
        BY DEF Sound, Backed
    <2> QED
        BY <2>1, <2>2 DEF StatusSound, Sound, StatusBacked, Backed
<1>16. CASE Resume
    <2>1. status' = saved.status /\ saved # NotSaved /\ UNCHANGED <<results, saved>>
        BY <1>16 DEF Resume, Begin
    <2> QED
        BY <2>1 DEF StatusSound, Sound, StatusBacked, Backed
<1>17. ASSUME NEW w \in Workers, Claim(w) PROVE (StatusSound /\ StatusBacked)'
    <2>1. UNCHANGED <<results, status, saved>>
        BY <1>17 DEF Claim, Take, Claimable, memory, files, rest
    <2> QED
        BY <2>1 DEF StatusSound, Sound, StatusBacked, Backed
<1>18. ASSUME NEW w \in Workers, Report(w) PROVE (StatusSound /\ StatusBacked)'
    <2>1. results \subseteq results'
        <3>1. \A r \in results : r.id # work[w].id
            BY <1>18 DEF Report, IdsOK, OnePlace
        <3> QED
            BY <1>18, <3>1 DEF Report
    <2>2. UNCHANGED <<status, saved>>
        BY <1>18 DEF Report, memory
    <2> QED
        BY <2>1, <2>2 DEF StatusSound, Sound, StatusBacked, Backed
<1>19. ASSUME NEW w \in Workers, Die(w) PROVE (StatusSound /\ StatusBacked)'
    <2>1. UNCHANGED <<results, status, saved>>
        BY <1>19 DEF Die, Take, memory, files, rest
    <2> QED
        BY <2>1 DEF StatusSound, Sound, StatusBacked, Backed
<1>20. CASE UNCHANGED campaignVars
    <2>1. UNCHANGED <<results, status, saved>>
        BY <1>20 DEF campaignVars, memory, files
    <2> QED
        BY <2>1 DEF StatusSound, Sound, StatusBacked, Backed
<1> QED
    BY <1>1, <1>2, <1>3, <1>4, <1>5, <1>6, <1>7, <1>8, <1>9, <1>10, <1>11, <1>12, <1>13, <1>14, <1>15, <1>16, <1>17, <1>18, <1>19, <1>20 DEF CampaignNext, Master, Drain

LEMMA LedgerStep == Inv /\ [CampaignNext]_campaignVars => Ledger'
<1> USE CampaignAssumption DEF Workers
<1> USE DEF Inv
<1> SUFFICES ASSUME Inv, [CampaignNext]_campaignVars
             PROVE  Ledger'
    OBVIOUS
<1>1. CASE List
    <2>1. UNCHANGED <<status, saved, synthesized, tree>>
        BY <1>1 DEF List, files
    <2>2. WonInTree'
        <3>1. /\ phase = "list" /\ phase' = "drain" /\ exit' = exit
              /\ listed' = {r.id : r \in results} \ processed
              /\ UNCHANGED <<results, processed, cancelled>>
            BY <1>1 DEF List, files
        <3>2. ASSUME NEW l \in Leaves, Unread(l) PROVE Unread(l)'
            BY <3>1, <3>2 DEF Unread
        <3> QED
            BY <2>1, <3>1, <3>2 DEF Ledger, WonInTree
    <2> QED
        BY <2>1, <2>2 DEF Ledger, Resolved
<1>2. ASSUME NEW r \in results, DropCancelled(r) PROVE Ledger'
    <2>1. UNCHANGED <<status, saved, synthesized, tree>>
        BY <1>2 DEF DropCancelled, Reading
    <2>2. WonInTree'
        <3>1. /\ phase = "drain" /\ phase' = phase /\ exit' = exit /\ r.id \in cancelled
              /\ processed' = processed \cup {r.id} /\ listed' = listed \ {r.id}
              /\ UNCHANGED <<results, cancelled>>
            BY <1>2 DEF DropCancelled, Reading
        <3>2. ASSUME NEW l \in Leaves, Unread(l) PROVE Unread(l)'
            BY <3>1, <3>2 DEF Unread
        <3> QED
            BY <2>1, <3>1, <3>2 DEF Ledger, WonInTree
    <2> QED
        BY <2>1, <2>2 DEF Ledger, Resolved
<1>3. ASSUME NEW r \in results, MergeDecisive(r) PROVE Ledger'
    <2> DEFINE c == Parent[r.leaf]
    <2> Located(r) = {r.leaf} /\ r.leaf \in Leaves
        BY LocatedIsOwn DEF IdsOK
    <2>1. /\ status' = [status EXCEPT ![r.leaf] = Verdict(r.outcome)]
          /\ synthesized' = synthesized \cup
                 (IF Resolved(status', c) /\ c \notin synthesized THEN {c} ELSE {})
          /\ tree' = tree \cup {r.leaf} \cup
                 (IF Resolved(status', c) /\ c \notin synthesized THEN {c} ELSE {})
          /\ phase = "drain" /\ phase' = phase /\ UNCHANGED <<results, saved, cancelled>>
          /\ processed' = processed \cup {r.id} /\ listed' = listed \ {r.id}
        BY <1>3 DEF MergeDecisive, Settle, Reading, files
    <2>2. \A l \in Leaves : l # r.leaf => status'[l] = status[l]
        BY <2>1 DEF TypeOK
    <2>3. synthesized' \subseteq tree'
        BY <2>1 DEF Ledger
    <2>4. ASSUME NEW d \in Children, Resolved(status', d) PROVE d \in synthesized'
        <3>1. CASE d = c
            BY <2>1, <2>4, <3>1
        <3>2. CASE d # c
            <4>1. Resolved(status, d)
                BY <2>2, <2>4, <3>2 DEF Resolved, Replies
            <4> QED
                BY <2>1, <4>1 DEF Ledger
        <3> QED
            BY <3>1, <3>2
    <2>5. WonInTree'
        <3>1. ASSUME NEW l \in Leaves, l # r.leaf, Unread(l) PROVE Unread(l)'
            BY <2>1, <3>1 DEF Unread, IdsOK, OnePlace
        <3> QED
            BY <2>1, <2>2, <3>1 DEF Ledger, WonInTree, Control
    <2> QED
        BY <2>1, <2>3, <2>4, <2>5 DEF Ledger
<1>4. ASSUME NEW r \in results, RejectDecisive(r) PROVE Ledger'
    <2>1. UNCHANGED <<status, saved, synthesized, tree>>
        BY <1>4 DEF RejectDecisive, Reading, files
    <2>2. WonInTree'
        BY <1>4 DEF RejectDecisive, WonInTree
    <2> QED
        BY <2>1, <2>2 DEF Ledger, Resolved
<1>5. ASSUME NEW r \in results, MergeDraw(r) PROVE Ledger'
    <2> DEFINE c == Parent[r.leaf]
    <2> Located(r) = {r.leaf} /\ r.leaf \in Leaves
        BY LocatedIsOwn DEF IdsOK
    <2>1. UNCHANGED <<status, saved, synthesized>> /\ tree' = tree
        BY <1>5 DEF MergeDraw, Settle, files, Ledger
    <2>2. WonInTree'
        <3>1. /\ phase = "drain" /\ phase' = phase /\ r.outcome = "Draw"
              /\ processed' = processed \cup {r.id} /\ listed' = listed \ {r.id}
              /\ UNCHANGED <<results, cancelled>>
            BY <1>5 DEF MergeDraw, Reading, files
        <3>2. ASSUME NEW l \in Leaves, Unread(l) PROVE Unread(l)'
            BY <3>1, <3>2 DEF Unread, IdsOK, OnePlace
        <3> QED
            BY <2>1, <3>1, <3>2 DEF Ledger, WonInTree, Control
    <2> QED
        BY <2>1, <2>2 DEF Ledger, Resolved
<1>6. ASSUME NEW r \in results, MergeError(r) PROVE Ledger'
    <2>1. UNCHANGED <<status, saved, synthesized, tree>>
        BY <1>6 DEF MergeError, Reading, files
    <2>2. WonInTree'
        <3>1. /\ phase = "drain" /\ phase' = phase /\ exit' = exit /\ r.outcome = "Error"
              /\ processed' = processed \cup {r.id} /\ listed' = listed \ {r.id}
              /\ UNCHANGED <<results, cancelled>>
            BY <1>6 DEF MergeError, Reading, files
        <3>2. ASSUME NEW l \in Leaves, Unread(l) PROVE Unread(l)'
            BY <3>1, <3>2 DEF Unread, IdsOK, OnePlace
        <3> QED
            BY <2>1, <3>1, <3>2 DEF Ledger, WonInTree
    <2> QED
        BY <2>1, <2>2 DEF Ledger, Resolved
<1>7. CASE LeaveDecided
    <2>1. UNCHANGED <<status, saved, synthesized, tree>>
        BY <1>7 DEF LeaveDecided, files
    <2>2. WonInTree'
        <3>1. phase = "drain" /\ listed = {} /\ phase' = "stopping"
            BY <1>7 DEF LeaveDecided
        <3>2. \A l \in Leaves : ~Unread(l)
            BY <3>1 DEF Unread
        <3> QED
            BY <2>1, <3>1, <3>2 DEF Ledger, WonInTree, Control
    <2> QED
        BY <2>1, <2>2 DEF Ledger, Resolved
<1>8. CASE SweepLocks
    <2>1. UNCHANGED <<status, saved, synthesized, tree>>
        BY <1>8 DEF SweepLocks
    <2>2. WonInTree'
        <3>1. phase = "drain" /\ listed = {} /\ phase' = "dispatch" /\ exit' = exit
            BY <1>8 DEF SweepLocks
        <3>2. \A l \in Leaves : ~Unread(l)
            BY <3>1 DEF Unread
        <3> QED
            BY <2>1, <3>1, <3>2 DEF Ledger, WonInTree
    <2> QED
        BY <2>1, <2>2 DEF Ledger, Resolved
<1>9. ASSUME NEW l \in Leaves, Dispatch(l) PROVE Ledger'
    <2>1. UNCHANGED <<status, saved, synthesized, tree>>
        BY <1>9 DEF Dispatch, NextTurn
    <2>2. WonInTree'
        <3>1. phase = "dispatch" /\ phase' \in {"check", "dispatch"} /\ exit' = exit
            BY <1>9 DEF Dispatch, NextTurn
        <3> QED
            BY <2>1, <3>1 DEF Ledger, WonInTree
    <2> QED
        BY <2>1, <2>2 DEF Ledger, Resolved
<1>10. CASE SkipWorker
    <2>1. UNCHANGED <<status, saved, synthesized, tree>>
        BY <1>10 DEF SkipWorker, NextTurn
    <2>2. WonInTree'
        <3>1. phase = "dispatch" /\ phase' \in {"check", "dispatch"} /\ exit' = exit
            BY <1>10 DEF SkipWorker, NextTurn
        <3> QED
            BY <2>1, <3>1 DEF Ledger, WonInTree
    <2> QED
        BY <2>1, <2>2 DEF Ledger, Resolved
<1>11. CASE EndPass
    <2>1. /\ phase = "check" /\ phase' \in {"stopping", "list"} /\ saved' \in {saved, Image}
          /\ UNCHANGED <<status, synthesized, tree>>
        BY <1>11 DEF EndPass
    <2>2. WonInTree'
        BY <2>1 DEF Ledger, WonInTree, Control
    <2> QED
        BY <2>1, <2>2 DEF Ledger, Image, Resolved
<1>12. CASE WriteStop
    <2>1. UNCHANGED <<status, saved, synthesized, tree>>
        BY <1>12 DEF WriteStop, memory
    <2>2. WonInTree'
        BY <1>12, <2>1 DEF WriteStop, memory, Ledger, WonInTree
    <2> QED
        BY <2>1, <2>2 DEF Ledger, Resolved
<1>13. CASE Finish
    <2>1. /\ phase = "finishing" /\ phase' = "closed" /\ saved' = Image
          /\ UNCHANGED <<status, synthesized, tree, exit>>
        BY <1>13 DEF Finish, memory
    <2>2. WonInTree'
        BY <2>1 DEF Ledger, WonInTree
    <2> QED
        BY <2>1, <2>2 DEF Ledger, Image, Resolved
<1>14. CASE Tick
    <2>1. UNCHANGED <<status, saved, synthesized, tree>>
        BY <1>14 DEF Tick, memory, files
    <2>2. WonInTree'
        BY <1>14, <2>1 DEF Tick, memory, files, Ledger, WonInTree, Unread
    <2> QED
        BY <2>1, <2>2 DEF Ledger, Resolved
<1>15. CASE KillMaster
    <2>1. /\ phase' = "down" /\ status' = Start /\ UNCHANGED saved
          /\ synthesized' = TerminalLosses /\ tree' = TerminalLosses
        BY <1>15 DEF KillMaster, Begin, Reemitted, files
    <2>2. \A c \in Children : Resolved(Start, c) => c \in TerminalLosses
        BY StartUnresolved
    <2> QED
        BY <2>1, <2>2 DEF Ledger, WonInTree, Resolved
<1>16. CASE Resume
    <2>1. /\ phase' = "list" /\ status' = saved.status /\ saved # NotSaved
          /\ processed' = {} /\ cancelled' = {} /\ UNCHANGED <<saved, results>>
          /\ synthesized' = saved.synthesized \cup TerminalLosses /\ tree' = synthesized'
        BY <1>16 DEF Resume, Begin, Reemitted
    <2>2. WonInTree'
        <3>1. ASSUME NEW l \in Leaves, saved.status[l] = "Won" PROVE Unread(l)'
            <4>1. Start[l] # "Won"
                OBVIOUS
            <4>2. PICK r \in results : /\ r.leaf = l /\ r.sound /\ r.outcome = "Win"
                BY <2>1, <3>1, <4>1 DEF TruthOK, StatusBacked, Backed, Verdict
            <4> QED
                BY <2>1, <4>2 DEF Unread
        <3> QED
            BY <2>1, <3>1 DEF WonInTree
    <2> QED
        BY <2>1, <2>2 DEF Ledger, Resolved
<1>17. ASSUME NEW w \in Workers, Claim(w) PROVE Ledger'
    <2>1. UNCHANGED <<status, saved, synthesized, tree>>
        BY <1>17 DEF Claim, memory
    <2>2. WonInTree'
        BY <1>17, <2>1 DEF Claim, memory, Ledger, WonInTree, Unread
    <2> QED
        BY <2>1, <2>2 DEF Ledger, Resolved
<1>18. ASSUME NEW w \in Workers, Report(w) PROVE Ledger'
    <2>1. UNCHANGED <<status, saved, synthesized, tree>>
        BY <1>18 DEF Report, memory
    <2>2. WonInTree'
        <3>1. results \subseteq results'
            <4>1. \A r \in results : r.id # work[w].id
                BY <1>18 DEF Report, IdsOK, OnePlace
            <4> QED
                BY <1>18, <4>1 DEF Report
        <3>2. UNCHANGED <<phase, exit, processed, listed, cancelled>>
            BY <1>18 DEF Report, memory
        <3>3. ASSUME NEW l \in Leaves, Unread(l) PROVE Unread(l)'
            BY <3>1, <3>2, <3>3 DEF Unread
        <3> QED
            BY <2>1, <3>2, <3>3 DEF Ledger, WonInTree
    <2> QED
        BY <2>1, <2>2 DEF Ledger, Resolved
<1>19. ASSUME NEW w \in Workers, Die(w) PROVE Ledger'
    <2>1. UNCHANGED <<status, saved, synthesized, tree>>
        BY <1>19 DEF Die, memory, files
    <2>2. WonInTree'
        BY <1>19, <2>1 DEF Die, memory, files, Ledger, WonInTree, Unread
    <2> QED
        BY <2>1, <2>2 DEF Ledger, Resolved
<1>20. CASE UNCHANGED campaignVars
    <2>1. UNCHANGED <<status, saved, synthesized, tree>>
        BY <1>20 DEF campaignVars, memory, files
    <2>2. WonInTree'
        BY <1>20, <2>1 DEF campaignVars, memory, files, Ledger, WonInTree, Unread
    <2> QED
        BY <2>1, <2>2 DEF Ledger, Resolved
<1> QED
    BY <1>1, <1>2, <1>3, <1>4, <1>5, <1>6, <1>7, <1>8, <1>9, <1>10, <1>11, <1>12, <1>13, <1>14, <1>15, <1>16, <1>17, <1>18, <1>19, <1>20 DEF CampaignNext, Master, Drain

-----------------------------------------------------------------------------
(* The theorems *)

LEMMA InvInit == CampaignInit => Inv
<1> USE CampaignAssumption
<1> SUFFICES ASSUME CampaignInit
             PROVE  Inv
    OBVIOUS
<1>1. TypeOK
    <2>1. turn \in 1 .. N + 1 /\ dispatched \in 0 .. MaxJobs /\ session \in 1 .. MaxSessions
          /\ deaths \in 0 .. MaxDeaths /\ faults \in 0 .. MaxFaults
        BY DEF CampaignInit
    <2>2. /\ lock \in [Leaves -> JobIds \cup {NoJob}] /\ work \in [Workers -> Jobs \cup {NoJob}]
          /\ status \in [Leaves -> Status]
          /\ synthesized \subseteq Children /\ tree \subseteq Children
        BY DEF CampaignInit, Free, TerminalLosses
    <2> QED
        BY <2>1, <2>2 DEF CampaignInit, TypeOK
<1>2. Control /\ IdsOK
    BY DEF CampaignInit, Control, IdsOK, GivenOut, OnePlace, LocksMatch, Free
<1>3. TruthOK
    BY DEF CampaignInit, TruthOK, ResultsTrue, StatusSound, Sound, StatusBacked, Backed
<1>4. Ledger
    BY StartUnresolved DEF CampaignInit, Ledger, WonInTree
<1> QED
    BY <1>1, <1>2, <1>3, <1>4 DEF Inv

LEMMA InvStep == Inv /\ [CampaignNext]_campaignVars => Inv'
<1> SUFFICES ASSUME Inv, [CampaignNext]_campaignVars
             PROVE  Inv'
    OBVIOUS
<1>1. TypeOK' /\ Control'
    BY TypeStep, ControlStep DEF Inv
<1>2. IdsOK'
    BY GivenOutStep, OnePlaceStep, LocksStep DEF Inv, IdsOK
<1>3. TruthOK'
    BY ResultsTrueStep, StatusStep DEF Inv, TruthOK
<1>4. Ledger'
    BY LedgerStep
<1> QED
    BY <1>1, <1>2, <1>3, <1>4 DEF Inv

(* The invariant holds in every campaign.                                  *)
THEOREM InvAlways == CampaignSpec => []Inv
BY InvInit, InvStep, PTL DEF CampaignSpec

(* Every reachable state is well typed: campaign/state.rs keeps each leaf  *)
(* in one of three statuses and every id within its session.               *)
THEOREM TypeCorrect == CampaignSpec => []TypeOK
<1>1. Inv => TypeOK
    BY DEF Inv
<1> QED
    BY <1>1, InvAlways, PTL

(* No leaf is ever called Won or Lost wrongly, in memory or in the         *)
(* checkpoint, whatever workers report and whenever anyone dies.           *)
THEOREM StatusesSound == CampaignSpec => []StatusSound
<1>1. Inv => StatusSound
    BY DEF Inv, TruthOK
<1> QED
    BY <1>1, InvAlways, PTL

(* Every merged status has its verified result on disk, so a resumed       *)
(* master can rebuild what was proved.                                     *)
THEOREM StatusesBacked == CampaignSpec => []StatusBacked
<1>1. Inv => StatusBacked
    BY DEF Inv, TruthOK
<1> QED
    BY <1>1, InvAlways, PTL

(* A campaign that ends "proven" holds the facts of the resolved child and *)
(* of every reply to it, over any number of resumes.                       *)
THEOREM CertificatesComplete == CampaignSpec => []CertificateComplete
<1>1. Inv => CertificateComplete
    <2> SUFFICES ASSUME Inv, exit = "proven", phase \in {"stopping", "finishing", "closed"},
                        NEW c \in Children, Resolved(status, c)
                 PROVE  Complete(c)
        BY DEF CertificateComplete
    <2>1. c \in tree
        BY DEF Inv, Ledger
    <2>2. \A l \in Leaves : status[l] = "Won" => l \in tree
        BY DEF Inv, Ledger, WonInTree
    <2>3. \A l \in Replies(c) : status[l] = "Won"
        BY CampaignAssumption DEF Resolved, Replies
    <2> QED
        BY <2>1, <2>2, <2>3 DEF Complete, Replies
<1> QED
    BY <1>1, InvAlways, PTL

-----------------------------------------------------------------------------
(* One job at a time for a leaf, in a session that was not resumed.        *)

(* A result is read once.                                                  *)
ReadOnce == listed \cap processed = {}

(* While no lock can be too old, a leaf whose job is under way or has an   *)
(* answer not yet read is locked for that very job, or is dispatched no    *)
(* more.                                                                   *)
Held(id, l) == lock[l] = id \/ Dead(l)
Covered ==
    /\ \A i \in InFlight : Held(i.id, i.leaf)
    /\ \A r \in results : r.id \in processed \/ Held(r.id, r.leaf)
Flight ==
    session = 1 /\ ~wall =>
        /\ \A i, j \in InFlight : i.leaf = j.leaf => i = j
        /\ phase # "down" => Covered

FlightInv == Inv /\ ReadOnce /\ Flight

(* In flight are well-formed jobs, and none that is answered.              *)
LEMMA InFlightJobs ==
    ASSUME TypeOK, IdsOK
    PROVE  \A i \in InFlight : /\ i \in Jobs /\ i.leaf \in Leaves /\ i.id # NoJob
                               /\ \A r \in results : r.id # i.id
<1> SUFFICES ASSUME NEW i \in InFlight
             PROVE  /\ i \in Jobs /\ i.leaf \in Leaves /\ i.id # NoJob
                    /\ \A r \in results : r.id # i.id
    OBVIOUS
<1>1. i \in queue \/ \E w \in Workers : i = work[w] /\ work[w] # NoJob
    BY DEF InFlight
<1>2. i \in Jobs
    BY <1>1 DEF TypeOK
<1>3. i.leaf \in Leaves /\ i.id # NoJob
    BY <1>2, NoJobIsNew DEF Jobs
<1>4. \A r \in results : r.id # i.id
    BY <1>1 DEF IdsOK, OnePlace
<1>5. QED
    BY <1>2, <1>3, <1>4

LEMMA ReadOnceStep == TypeOK /\ ReadOnce /\ [CampaignNext]_campaignVars => ReadOnce'
<1> SUFFICES ASSUME TypeOK, ReadOnce, [CampaignNext]_campaignVars PROVE ReadOnce'
    OBVIOUS
<1>1. CASE List
    BY <1>1 DEF List, ReadOnce
<1>2. ASSUME NEW r, Reading(r) PROVE ReadOnce'
    BY <1>2 DEF Reading, ReadOnce
<1>3. CASE KillMaster \/ Resume
    BY <1>3 DEF KillMaster, Resume, Begin, ReadOnce
<1>4. CASE UNCHANGED <<listed, processed>>
    BY <1>4 DEF ReadOnce
<1>5. CASE Drain
    BY <1>2, <1>5 DEF Drain, DropCancelled, MergeDecisive, RejectDecisive, MergeDraw, MergeError
<1>6. CASE LeaveDecided \/ SweepLocks \/ SkipWorker \/ EndPass \/ WriteStop \/ Finish \/ Tick
           \/ (\E l \in Leaves : Dispatch(l)) \/ UNCHANGED campaignVars
    BY <1>4, <1>6 DEF LeaveDecided, SweepLocks, SkipWorker, NextTurn, EndPass, WriteStop, Finish,
                      Tick, Dispatch, campaignVars, memory
<1>7. ASSUME NEW w \in Workers, Claim(w) \/ Report(w) \/ Die(w) PROVE ReadOnce'
    BY <1>4, <1>7 DEF Claim, Report, Die, memory
<1>8. QED
    BY <1>1, <1>3, <1>5, <1>6, <1>7 DEF CampaignNext, Master

(* A step of the master that touches no job, lock, status or result.       *)
LEMMA QuietKeepsFlight ==
    ASSUME Flight, UNCHANGED <<session, status, lock, queue, work, results>>,
           wall => wall', processed \subseteq processed', phase = "down" => phase' = "down"
    PROVE  Flight'
<1>1. InFlight' = InFlight
    BY DEF InFlight
<1>2. \A l : Dead(l)' <=> Dead(l)
    BY DEF Dead, Resolved, Refuted
<1>3. \A id, l : Held(id, l)' <=> Held(id, l)
    BY <1>2 DEF Held
<1>4. Covered => Covered'
    BY <1>1, <1>3 DEF Covered
<1>5. QED
    BY <1>1, <1>4 DEF Flight

(* What is decided stays decided when a result is merged.                  *)
LEMMA MergeKeepsDead ==
    ASSUME Inv, NEW r \in results, r.outcome \in {"Win", "Loss"}, Verified(r),
           status' = [status EXCEPT ![r.leaf] = Verdict(r.outcome)]
    PROVE  \A l \in Leaves : Dead(l) => Dead(l)'
<1>1. r.leaf \in Leaves /\ r.outcome = Value[r.leaf]
    BY DEF Inv, TruthOK, ResultsTrue, TypeOK, Verified
<1>2. status \in [Leaves -> Status]
    BY DEF Inv, TypeOK
<1>3. \A m \in Leaves : /\ status[m] = "Won" => status'[m] = "Won"
                        /\ status[m] = "Lost" => status'[m] = "Lost"
                        /\ status[m] # "Open" => status'[m] # "Open"
    <2> SUFFICES ASSUME NEW m \in Leaves
                 PROVE  /\ status[m] = "Won" => status'[m] = "Won"
                        /\ status[m] = "Lost" => status'[m] = "Lost"
                        /\ status[m] # "Open" => status'[m] # "Open"
        OBVIOUS
    <2>1. CASE m = r.leaf
        <3>1. status'[m] = Verdict(Value[m])
            BY <1>1, <1>2, <2>1
        <3>2. /\ status[m] = "Won" => Value[m] = "Win"
              /\ status[m] = "Lost" => Value[m] # "Win"
            BY DEF Inv, TruthOK, StatusSound, Sound
        <3>3. QED
            BY <3>1, <3>2 DEF Verdict
    <2>2. CASE m # r.leaf
        BY <1>2, <2>2
    <2>3. QED
        BY <2>1, <2>2
<1>4. ASSUME NEW c PROVE /\ Resolved(status, c) => Resolved(status', c)
                         /\ Refuted(status, c) => Refuted(status', c)
    BY <1>3 DEF Resolved, Refuted, Replies
<1>5. QED
    BY <1>3, <1>4 DEF Dead

(* A result is read and its leaf unlocked.                                 *)
LEMMA ReadingKeepsFlight ==
    ASSUME FlightInv, NEW r \in results, Reading(r), UNCHANGED <<queue, results>>,
           lock' = Unlocked(r.leaf), \A l \in Leaves : Dead(l) => Dead(l)'
    PROVE  Flight'
<1>1. /\ phase = "drain" /\ r.id \notin processed /\ processed' = processed \cup {r.id}
      /\ UNCHANGED <<session, wall, work>>
    BY DEF Reading, rest, FlightInv, ReadOnce
<1>2. InFlight' = InFlight
    BY <1>1 DEF InFlight
<1>3. r.leaf \in Leaves /\ lock \in [Leaves -> JobIds \cup {NoJob}]
    BY DEF FlightInv, Inv, TypeOK
<1>4. \A l \in Leaves : lock'[l] = IF l = r.leaf THEN NoJob ELSE lock[l]
    BY <1>3 DEF Unlocked
<1>5. ASSUME session = 1, ~wall PROVE Covered'
    <2>1. Held(r.id, r.leaf) /\ Covered
        BY <1>1, <1>5 DEF FlightInv, Flight, Covered
    <2>2. ASSUME NEW i \in InFlight PROVE Held(i.id, i.leaf)'
        <3>1. i.leaf \in Leaves /\ i.id # r.id
            BY InFlightJobs DEF FlightInv, Inv
        <3>2. Held(i.id, i.leaf)
            BY <2>1 DEF Covered
        <3>3. QED
            BY <3>1, <3>2, <2>1, <1>4 DEF Held
    <2>3. ASSUME NEW q \in results PROVE q.id \in processed' \/ Held(q.id, q.leaf)'
        <3>1. q.leaf \in Leaves
            BY DEF FlightInv, Inv, TypeOK
        <3>2. q.id \in processed \/ Held(q.id, q.leaf)
            BY <2>1 DEF Covered
        <3>3. QED
            BY <3>1, <3>2, <2>1, <1>1, <1>4 DEF Held
    <2>4. QED
        BY <1>2, <2>2, <2>3 DEF Covered
<1>6. QED
    BY <1>1, <1>2, <1>5 DEF FlightInv, Flight

LEMMA SweepKeepsFlight == FlightInv /\ SweepLocks => Flight'
<1> SUFFICES ASSUME FlightInv, SweepLocks PROVE Flight'
    OBVIOUS
<1>1. PICK stale \in SUBSET {l \in Leaves : lock[l] # NoJob} :
          LET swept == {l \in Leaves \ stale : Abandon /\ lock[l] # NoJob /\ Dead(l)}
          IN  /\ stale # {} => wall
              /\ lock' = [l \in Leaves |-> IF l \in stale \cup swept THEN NoJob ELSE lock[l]]
    BY DEF SweepLocks
<1>2. UNCHANGED <<session, status, queue, work, results, processed, wall>> /\ phase = "drain"
    BY DEF SweepLocks, rest
<1>3. InFlight' = InFlight
    BY <1>2 DEF InFlight
<1>4. \A l : Dead(l)' <=> Dead(l)
    BY <1>2 DEF Dead, Resolved, Refuted
<1>5. ASSUME ~wall, NEW l \in Leaves, NEW id, Held(id, l) PROVE Held(id, l)'
    <2>1. lock'[l] = lock[l] \/ Dead(l)
        BY <1>1, <1>5
    <2>2. QED
        BY <2>1, <1>4, <1>5 DEF Held
<1>6. (\A i \in InFlight : i.leaf \in Leaves) /\ (\A r \in results : r.leaf \in Leaves)
    BY InFlightJobs DEF FlightInv, Inv, TypeOK
<1>7. QED
    BY <1>2, <1>3, <1>5, <1>6 DEF FlightInv, Flight, Covered

(* An open leaf that is not locked has no job under way.                   *)
LEMMA DispatchKeepsFlight ==
    ASSUME FlightInv, NEW l \in Leaves, Dispatch(l)
    PROVE  Flight'
<1> DEFINE id == JobId(turn, session, dispatched)
           job == [id |-> id, leaf |-> l]
<1>1. /\ phase = "dispatch" /\ lock[l] = NoJob /\ ~Dead(l)
      /\ lock' = [lock EXCEPT ![l] = id] /\ queue' = queue \cup {job}
      /\ UNCHANGED <<session, status, work, results, processed, wall>>
    BY DEF Dispatch, Selectable, NextTurn, rest
<1>2. InFlight' = InFlight \cup {job} /\ job.id = id /\ job.leaf = l
    BY <1>1 DEF InFlight
<1> HIDE DEF id, job
<1>3. lock'[l] = id /\ \A m \in Leaves \ {l} : lock'[m] = lock[m]
    BY <1>1 DEF FlightInv, Inv, TypeOK
<1>4. \A m : Dead(m)' <=> Dead(m)
    BY <1>1 DEF Dead, Resolved, Refuted
<1>5. /\ \A i \in InFlight : i.leaf \in Leaves /\ i.id # NoJob
      /\ \A r \in results : r.leaf \in Leaves /\ r.id # NoJob
    BY InFlightJobs, NoId DEF FlightInv, Inv, TypeOK
<1>6. ASSUME session = 1, ~wall
      PROVE  (\A i, j \in InFlight' : i.leaf = j.leaf => i = j) /\ Covered'
    <2>1. Covered /\ \A i, j \in InFlight : i.leaf = j.leaf => i = j
        BY <1>1, <1>6 DEF FlightInv, Flight
    <2>2. \A i \in InFlight : i.leaf # l
        BY <1>1, <1>5, <2>1 DEF Covered, Held
    <2>3. \A i \in InFlight : Held(i.id, i.leaf)'
        BY <1>3, <1>4, <1>5, <2>1, <2>2 DEF Covered, Held
    <2>4. \A i \in {job} : Held(i.id, i.leaf)'
        BY <1>2, <1>3 DEF Held
    <2>5. \A r \in results : r.id \in processed \/ Held(r.id, r.leaf)'
        BY <1>1, <1>3, <1>4, <1>5, <2>1 DEF Covered, Held
    <2>6. Covered'
        BY <1>1, <1>2, <2>3, <2>4, <2>5 DEF Covered
    <2>7. QED
        BY <1>2, <2>1, <2>2, <2>6
<1>7. QED
    BY <1>1, <1>6 DEF Flight

(* A worker claims, answers or loses a job: nothing new is in flight, and  *)
(* a new result is that of a job that was.                                 *)
LEMMA WorkerKeepsFlight ==
    ASSUME FlightInv, InFlight' \subseteq InFlight,
           \A r \in results' : r \in results \/ \E i \in InFlight : r.id = i.id /\ r.leaf = i.leaf,
           UNCHANGED <<phase, session, status, lock, processed, wall>>
    PROVE  Flight'
<1>1. \A l : Dead(l)' <=> Dead(l)
    BY DEF Dead, Resolved, Refuted
<1>2. \A id, l : Held(id, l)' <=> Held(id, l)
    BY <1>1 DEF Held
<1>3. Covered => Covered'
    BY <1>2 DEF Covered
<1>4. QED
    BY <1>3 DEF FlightInv, Flight

LEMMA FlightStep == FlightInv /\ [CampaignNext]_campaignVars => Flight'
<1> SUFFICES ASSUME FlightInv, [CampaignNext]_campaignVars PROVE Flight'
    OBVIOUS
<1> USE DEF memory, files, rest
<1>1. CASE List \/ LeaveDecided \/ SkipWorker \/ EndPass \/ WriteStop \/ Finish \/ Tick
           \/ UNCHANGED campaignVars
    BY <1>1, QuietKeepsFlight
       DEF FlightInv, List, LeaveDecided, SkipWorker, NextTurn, EndPass, WriteStop, Finish,
           Tick, Running, campaignVars
<1>2. ASSUME NEW r \in results, DropCancelled(r) PROVE Flight'
    BY <1>2, QuietKeepsFlight DEF FlightInv, DropCancelled, Reading
<1>3. ASSUME NEW r \in results, MergeDecisive(r) PROVE Flight'
    <2>1. PICK l \in Located(r) :
              /\ lock' = Unlocked(l)
              /\ status' = [status EXCEPT ![l] = Verdict(r.outcome)]
        BY <1>3 DEF MergeDecisive, Settle
    <2>2. l = r.leaf
        BY <2>1, LocatedIsOwn DEF FlightInv, Inv, IdsOK
    <2>3. \A m \in Leaves : Dead(m) => Dead(m)'
        BY <1>3, <2>1, <2>2, MergeKeepsDead DEF FlightInv, MergeDecisive
    <2>4. QED
        BY <1>3, <2>1, <2>2, <2>3, ReadingKeepsFlight DEF MergeDecisive
<1>4. ASSUME NEW r \in results, RejectDecisive(r) \/ MergeDraw(r) \/ MergeError(r) PROVE Flight'
    <2>1. Reading(r) /\ UNCHANGED <<status, queue, results>> /\ \E l \in Located(r) : lock' = Unlocked(l)
        BY <1>4 DEF RejectDecisive, MergeDraw, MergeError, Settle
    <2>2. lock' = Unlocked(r.leaf)
        BY <2>1, LocatedIsOwn DEF FlightInv, Inv, IdsOK
    <2>3. \A l \in Leaves : Dead(l) => Dead(l)'
        BY <2>1 DEF Dead, Resolved, Refuted
    <2>4. QED
        BY <2>1, <2>2, <2>3, ReadingKeepsFlight
<1>5. CASE SweepLocks \/ \E l \in Leaves : Dispatch(l)
    BY <1>5, SweepKeepsFlight, DispatchKeepsFlight
<1>6. CASE KillMaster
    <2>1. UNCHANGED <<session, queue, work, wall>> /\ phase' = "down"
        BY <1>6 DEF KillMaster, Begin
    <2>2. InFlight' = InFlight
        BY <2>1 DEF InFlight
    <2>3. QED
        BY <2>1, <2>2 DEF FlightInv, Flight
<1>7. CASE Resume
    <2>1. session' = session + 1 /\ session \in 1 .. MaxSessions
        BY <1>7 DEF Resume, FlightInv, Inv, TypeOK
    <2>2. session' # 1
        BY <2>1, CampaignAssumption
    <2>3. QED
        BY <2>2 DEF Flight
<1>8. ASSUME NEW w \in Workers, Claim(w) PROVE Flight'
    <2>1. PICK j \in queue : /\ queue' = queue \ {j}
                             /\ work' = work \/ work' = [work EXCEPT ![w] = j]
        BY <1>8 DEF Claim, Claimable, Take
    <2>2. \A v \in Workers : work'[v] = work[v] \/ work'[v] = j
        BY <2>1 DEF FlightInv, Inv, TypeOK
    <2>3. InFlight' \subseteq InFlight
        BY <2>1, <2>2 DEF InFlight
    <2>4. QED
        BY <1>8, <2>3, WorkerKeepsFlight DEF Claim
<1>9. ASSUME NEW w \in Workers, Report(w) \/ Die(w) PROVE Flight'
    <2>1. work[w] # NoJob /\ work' = [work EXCEPT ![w] = NoJob] /\ queue' = queue
        BY <1>9 DEF Report, Die, Take
    <2>2. \A v \in Workers : work'[v] = work[v] \/ work'[v] = NoJob
        BY <2>1 DEF FlightInv, Inv, TypeOK
    <2>3. InFlight' \subseteq InFlight /\ work[w] \in InFlight
        BY <2>1, <2>2 DEF InFlight
    <2>4. \A r \in results' : r \in results \/ (r.id = work[w].id /\ r.leaf = work[w].leaf)
        BY <1>9 DEF Report, Die
    <2>5. UNCHANGED <<phase, session, status, lock, processed, wall>>
        BY <1>9 DEF Report, Die
    <2>6. QED
        BY <2>3, <2>4, <2>5, WorkerKeepsFlight
<1>10. QED
    BY <1>1, <1>2, <1>3, <1>4, <1>5, <1>6, <1>7, <1>8, <1>9 DEF CampaignNext, Master, Drain

(* In a session that was not resumed a leaf is searched by one worker at a *)
(* time until the wall has passed, and no longer when locks may be         *)
(* released as too old (state.rs select_leaf, release of stale locks).     *)
THEOREM OneInFlightFirst == CampaignSpec => []FirstOneInFlight
<1>1. CampaignInit => FlightInv
    BY InvInit DEF FlightInv, CampaignInit, ReadOnce, Flight, Covered, InFlight
<1>2. FlightInv /\ [CampaignNext]_campaignVars => FlightInv'
    BY InvStep, ReadOnceStep, FlightStep DEF FlightInv, Inv
<1>3. FlightInv => FirstOneInFlight
    BY DEF FlightInv, Flight, FirstOneInFlight, OneInFlight
<1>4. QED
    BY <1>1, <1>2, <1>3, PTL DEF CampaignSpec

=============================================================================
