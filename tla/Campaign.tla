------------------------------- MODULE Campaign -------------------------------
(***************************************************************************)
(* The distributed campaign of src/examples: campaign_master.rs with       *)
(* campaign/state.rs, and campaign_worker.rs.  The master keeps an AND/OR  *)
(* table of the root's children and their replies (the leaves), hands      *)
(* leaves out as jobs, and merges what comes back.  Master and workers are *)
(* processes that share nothing but the session directory, through files   *)
(* that appear and disappear atomically (write_json, rename).  The master  *)
(* can be killed and resumed from its checkpoint; workers can die, and     *)
(* those of an earlier session can still be at work in the next one.       *)
(*                                                                         *)
(* Left out: proof numbers, work and the order of select_leaf (any open    *)
(* unlocked leaf may be chosen), the search inside a job (its answer is    *)
(* whatever a search could say), depths, and I/O errors.                   *)
(***************************************************************************)
EXTENDS Integers, FiniteSets

CONSTANTS
    Children,       \* the positions after a root move
    Leaves,         \* the positions after a reply to one of them
    Parent,         \* Parent[l]
    Terminal,       \* Terminal[c]: outcome of a terminal child for the side to
                    \* move there, or "None"
    Start,          \* Start[l]: status of a leaf by the rules alone
    Value,          \* Value[l]: the truth about it, for the root's side
    N,              \* workers, numbered 1 to N
    Abandon,        \* --abandon
    MaxSessions,    \* bound: runs of the master on the directory
    MaxJobs,        \* bound: jobs a session hands out
    MaxDeaths,      \* bound: workers that die inside a job
    MaxFaults       \* bound: results that carry an error or a false proof

Outcomes == {"Win", "Loss", "Draw"}
Status == {"Open", "Won", "Lost"}
Workers == 1 .. N
Replies(c) == {l \in Leaves : Parent[l] = c}

ASSUME CampaignAssumption ==
    /\ Parent \in [Leaves -> Children] /\ Children # {}
    /\ Terminal \in [Children -> Outcomes \cup {"None"}]
    /\ \A l \in Leaves : Terminal[Parent[l]] = "None"
    /\ \A c \in Children : Terminal[c] = "None" => Replies(c) # {}
    /\ Value \in [Leaves -> Outcomes]
    /\ Start \in [Leaves -> Status]
    /\ \A l \in Leaves : Start[l] = "Open" \/ (Start[l] = "Lost" /\ Value[l] # "Win")
    /\ N \in Nat \ {0} /\ Abandon \in BOOLEAN
    /\ MaxSessions \in Nat \ {0} /\ MaxJobs \in Nat /\ MaxDeaths \in Nat /\ MaxFaults \in Nat

(* A job id is w{w}_{seed}_{n}; the seed is the number of the session.     *)
(* Mutant: one seed for all sessions.                                      *)
Unseeded(w, s, n) == <<w, 1, n>>
JobId(w, s, n) == <<w, s, n>>
NoJob == <<>>

VARIABLES
    \* the master's memory
    phase,          \* where its loop is; "closed" after finish, "down" when killed
    session,        \* runs of the master so far, this one included
    status,         \* status[l]
    lock,           \* lock[l]: Leaf.job, the id of the job in flight, or NoJob
    synthesized,    \* children whose Loss fact was emitted
    proven,         \* root_outcome is Win
    exit,           \* exit_reason
    processed,      \* ids of the results read so far
    listed,         \* ids listed in this pass and not yet read
    cancelled,      \* ids of the jobs abandoned
    dispatched,     \* jobs_dispatched
    turn,           \* the worker the dispatch loop looks at
    tree,           \* children and leaves whose facts the proof tree holds
    \* the session directory
    queue,          \* job files no worker has claimed
    markers,        \* .cancel files, by id
    results,        \* result files
    stop,           \* the STOP file
    saved,          \* master_state.json, or no record
    \* the rest
    wall,           \* max_wall has passed
    work,           \* work[w]: the job worker w is at
    deaths, faults

memory == <<status, lock, synthesized, proven, exit, processed, listed,
            cancelled, dispatched, turn, tree>>
files == <<queue, markers, results, stop, saved>>
rest == <<wall, work, deaths, faults>>
campaignVars == <<phase, session, memory, files, rest>>

Free == [l \in Leaves |-> NoJob]
NotSaved == [status |-> <<>>, synthesized |-> {}]

-----------------------------------------------------------------------------
(* The AND/OR table.  Child::refresh computes two sticky flags; as a leaf  *)
(* never leaves Won or Lost they are functions of the statuses.            *)

Resolved(st, c) ==
    Terminal[c] = "Loss" \/ (Terminal[c] = "None" /\ \A l \in Replies(c) : st[l] = "Won")
Refuted(st, c) ==
    Terminal[c] \in {"Win", "Draw"} \/ \E l \in Replies(c) : st[l] = "Lost"

TerminalLosses == {c \in Children : Terminal[c] = "Loss"}

(* What the master remembers when a session begins with the checkpoint s:  *)
(* no lock, no result read, and the proof tree holding nothing but the     *)
(* facts of the synthesized children, emitted again.                       *)
(* Mutant: only those of the terminal children are.                        *)
EmitTerminal(s) == TerminalLosses
Reemitted(s) == s.synthesized \cup TerminalLosses

Begin(s, phase0) ==
    /\ phase' = phase0
    /\ status' = s.status
    /\ lock' = Free
    /\ synthesized' = s.synthesized \cup TerminalLosses
    /\ proven' = FALSE
    /\ exit' = "timeout"
    /\ processed' = {} /\ listed' = {} /\ cancelled' = {}
    /\ dispatched' = 0
    /\ turn' = 1
    /\ tree' = Reemitted(s)

CampaignInit ==
    /\ phase = "list" /\ session = 1
    /\ status = Start /\ lock = Free
    /\ synthesized = TerminalLosses
    /\ proven = FALSE /\ exit = "timeout"
    /\ processed = {} /\ listed = {} /\ cancelled = {}
    /\ dispatched = 0 /\ turn = 1
    /\ tree = TerminalLosses
    /\ queue = {} /\ markers = {} /\ results = {} /\ stop = FALSE /\ saved = NotSaved
    /\ wall = FALSE
    /\ work = [w \in Workers |-> NoJob]
    /\ deaths = 0 /\ faults = 0

-----------------------------------------------------------------------------
(* The master: one pass of its loop is list, drain, dispatch, check.       *)

List ==
    /\ phase = "list"
    /\ phase' = "drain"
    /\ listed' = {r.id : r \in results} \ processed
    /\ UNCHANGED <<session, status, lock, synthesized, proven, exit, processed,
                   cancelled, dispatched, turn, tree, files, rest>>

Reading(r) ==
    /\ phase = "drain" /\ r.id \in listed
    /\ listed' = listed \ {r.id}
    /\ processed' = processed \cup {r.id}
    /\ UNCHANGED <<session, dispatched, turn, cancelled, rest>>

(* An abandoned job: counted, never merged.                                *)
DropCancelled(r) ==
    /\ Reading(r) /\ r.id \in cancelled
    /\ markers' = markers \ {r.id}
    /\ UNCHANGED <<phase, status, lock, synthesized, proven, exit, tree,
                   queue, results, stop, saved>>

(* The leaf of a result: by the lock, else by the path the result echoes.  *)
ByLock(r) == {l \in Leaves : lock[l] = r.id}
Located(r) == IF ByLock(r) # {} THEN ByLock(r) ELSE {r.leaf}

Unlocked(l) == [lock EXCEPT ![l] = NoJob]

(* The rules are checked in the replay, for the path of the leaf: a result *)
(* that passes says the truth.                                             *)
(* Mutant: the worker's word is taken.                                     *)
AnyOutcome(r) == r.outcome \in {"Win", "Loss"}
Verified(r) == r.sound

(* Mutant: the root is proved by a new synthesis alone.                    *)
ProvesNew(st, c) == Resolved(st, c) /\ c \notin synthesized
Proves(st, c) == Resolved(st, c)

(* refresh, synthesis and the proof of the root, after a result for l.     *)
Settle(l, st, facts) ==
    LET c == Parent[l]
        new == IF Resolved(st, c) /\ c \notin synthesized THEN {c} ELSE {}
    IN  /\ status' = st
        /\ synthesized' = synthesized \cup new
        /\ tree' = tree \cup facts \cup new
        /\ proven' = (proven \/ Proves(st, c))
        /\ exit' = IF Proves(st, c) THEN "proven" ELSE exit

Verdict(o) == IF o = "Win" THEN "Won" ELSE "Lost"

MergeDecisive(r) ==
    /\ Reading(r) /\ r.id \notin cancelled
    /\ r.outcome \in {"Win", "Loss"} /\ Verified(r)
    /\ \E l \in Located(r) :
           /\ lock' = Unlocked(l)
           /\ Settle(l, [status EXCEPT ![l] = Verdict(r.outcome)], {l})
    /\ UNCHANGED <<phase, files>>

(* A proof that does not replay ends the session at once: no STOP file.    *)
RejectDecisive(r) ==
    /\ Reading(r) /\ r.id \notin cancelled
    /\ r.outcome \in {"Win", "Loss"} /\ ~Verified(r)
    /\ \E l \in Located(r) : lock' = Unlocked(l)
    /\ phase' = "finishing"
    /\ proven' = FALSE
    /\ exit' = "verify_failed"
    /\ UNCHANGED <<status, synthesized, tree, files>>

MergeDraw(r) ==
    /\ Reading(r) /\ r.id \notin cancelled /\ r.outcome = "Draw"
    /\ \E l \in Located(r) : lock' = Unlocked(l) /\ Settle(l, status, {})
    /\ UNCHANGED <<phase, files>>

MergeError(r) ==
    /\ Reading(r) /\ r.id \notin cancelled /\ r.outcome = "Error"
    /\ \E l \in Located(r) : lock' = Unlocked(l)
    /\ UNCHANGED <<phase, status, synthesized, proven, exit, tree, files>>

Drain == \E r \in results :
    \/ DropCancelled(r) \/ MergeDecisive(r) \/ RejectDecisive(r)
    \/ MergeDraw(r) \/ MergeError(r)

AllRefuted == \A c \in Children : Refuted(status, c)

(* Root proved or every child refuted: the loop is left.                   *)
LeaveDecided ==
    /\ phase = "drain" /\ listed = {} /\ (proven \/ AllRefuted)
    /\ phase' = "stopping"
    /\ exit' = IF proven THEN exit ELSE "refuted_all"
    /\ UNCHANGED <<session, status, lock, synthesized, proven, processed, listed,
                   cancelled, dispatched, turn, tree, files, rest>>

Dead(l) == \/ Resolved(status, Parent[l]) \/ Refuted(status, Parent[l])
           \/ status[l] # "Open"

(* Locks older than max(max_wall, 900 s) are released, which no lock can   *)
(* be before the wall has passed; then the jobs that lost their purpose    *)
(* are abandoned.                                                          *)
SweepLocks ==
    /\ phase = "drain" /\ listed = {} /\ ~proven /\ ~AllRefuted
    /\ phase' = "dispatch" /\ turn' = 1
    /\ \E stale \in SUBSET {l \in Leaves : lock[l] # NoJob} :
           LET swept == {l \in Leaves \ stale : Abandon /\ lock[l] # NoJob /\ Dead(l)}
           IN  /\ stale # {} => wall
               /\ lock' = [l \in Leaves |-> IF l \in stale \cup swept THEN NoJob ELSE lock[l]]
               /\ cancelled' = cancelled \cup {lock[l] : l \in swept}
               /\ markers' = markers \cup {lock[l] : l \in swept}
    /\ UNCHANGED <<session, status, synthesized, proven, exit, processed, listed,
                   dispatched, tree, queue, results, stop, saved, rest>>

Busy(w) == \E l \in Leaves : lock[l] # NoJob /\ lock[l][1] = w

(* select_leaf: open and unlocked, of a child still undecided.             *)
(* Mutant: the lock is not looked at.                                      *)
OpenLeaves == {l \in Leaves : status[l] = "Open" /\ ~Dead(l)}
Selectable == {l \in Leaves : status[l] = "Open" /\ lock[l] = NoJob /\ ~Dead(l)}

NextTurn ==
    /\ turn' = turn + 1
    /\ phase' = IF turn = N THEN "check" ELSE "dispatch"
    /\ UNCHANGED <<session, status, synthesized, proven, exit, processed, listed,
                   cancelled, tree, markers, results, stop, saved, rest>>

Dispatch(l) ==
    /\ phase = "dispatch" /\ ~Busy(turn) /\ l \in Selectable /\ dispatched < MaxJobs
    /\ LET id == JobId(turn, session, dispatched)
       IN  /\ lock' = [lock EXCEPT ![l] = id]
           /\ queue' = queue \cup {[id |-> id, leaf |-> l]}
    /\ dispatched' = dispatched + 1
    /\ NextTurn

SkipWorker ==
    /\ phase = "dispatch" /\ (Busy(turn) \/ Selectable = {} \/ dispatched = MaxJobs)
    /\ NextTurn
    /\ UNCHANGED <<lock, dispatched, queue>>

Image == [status |-> status, synthesized |-> synthesized]

(* The checkpoint when its timer is due, then the wall clock.              *)
EndPass ==
    /\ phase = "check"
    /\ saved' \in {saved, Image}
    /\ phase' = IF wall THEN "stopping" ELSE "list"
    /\ exit' = IF wall THEN "timeout" ELSE exit
    /\ UNCHANGED <<session, status, lock, synthesized, proven, processed, listed,
                   cancelled, dispatched, turn, tree, queue, markers, results, stop, rest>>

WriteStop ==
    /\ phase = "stopping"
    /\ phase' = "finishing"
    /\ stop' = TRUE
    /\ UNCHANGED <<session, memory, queue, markers, results, saved, rest>>

(* finish: the root fact over a resolved child, the dump of the state.     *)
Finish ==
    /\ phase = "finishing"
    /\ phase' = "closed"
    /\ saved' = Image
    /\ UNCHANGED <<session, memory, queue, markers, results, stop, rest>>

Master == List \/ Drain \/ LeaveDecided \/ SweepLocks \/ (\E l \in Leaves : Dispatch(l))
          \/ SkipWorker \/ EndPass \/ WriteStop \/ Finish

Running == phase \notin {"closed", "down"}

Tick ==
    /\ Running /\ ~wall /\ wall' = TRUE
    /\ UNCHANGED <<phase, session, memory, files, work, deaths, faults>>

(* The process is gone, and all it remembered.                             *)
KillMaster ==
    /\ Running
    /\ Begin([status |-> Start, synthesized |-> {}], "down")
    /\ UNCHANGED <<session, files, rest>>

(* --resume: the checkpoint is loaded, STOP and the job files are removed; *)
(* the results stay.                                                       *)
Resume ==
    /\ ~Running /\ session < MaxSessions /\ saved # NotSaved
    /\ Begin(saved, "list")
    /\ session' = session + 1
    /\ queue' = {} /\ markers' = {} /\ stop' = FALSE /\ wall' = FALSE
    /\ UNCHANGED <<results, saved, work, deaths, faults>>

-----------------------------------------------------------------------------
(* The workers.  A process that is not there and one that finds no job are *)
(* alike to the others: work[w] is NoJob.  The looks at STOP and at the    *)
(* cancel marker are one step with the claim, since whatever comes between *)
(* might as well come after.                                               *)

Take(w, job) == work' = [work EXCEPT ![w] = job]
Claimable(w) == {j \in queue : j.id[1] = w}

Claim(w) ==
    /\ work[w] = NoJob /\ ~stop
    /\ \E j \in Claimable(w) :
           /\ queue' = queue \ {j}
           /\ IF j.id \in markers
              THEN markers' = markers \ {j.id} /\ UNCHANGED work    \* dropped un-run
              ELSE Take(w, j) /\ UNCHANGED markers
    /\ UNCHANGED <<phase, session, memory, results, stop, saved, wall, deaths, faults>>

(* What run_job can write: a proof that replays, a draw (budget spent, or  *)
(* an export that failed), a proof that does not replay, an error.         *)
Answers(l) ==
    {[outcome |-> "Draw", sound |-> TRUE], [outcome |-> Value[l], sound |-> TRUE]}
FaultyAnswers ==
    {[outcome |-> "Error", sound |-> TRUE], [outcome |-> "Win", sound |-> FALSE],
     [outcome |-> "Loss", sound |-> FALSE]}

Report(w) ==
    /\ work[w] # NoJob
    /\ LET j == work[w]
       IN  \E a \in Answers(j.leaf) \cup FaultyAnswers :
               /\ faults' = IF a \in FaultyAnswers THEN faults + 1 ELSE faults
               /\ faults' <= MaxFaults
               /\ results' = {r \in results : r.id # j.id} \cup
                     {[id |-> j.id, leaf |-> j.leaf, outcome |-> a.outcome, sound |-> a.sound]}
    /\ Take(w, NoJob)
    /\ UNCHANGED <<phase, session, memory, queue, markers, stop, saved, wall, deaths>>

(* The process dies, or its time is up, inside a job: the claim is never   *)
(* taken up again.                                                         *)
Die(w) ==
    /\ work[w] # NoJob /\ deaths < MaxDeaths
    /\ deaths' = deaths + 1
    /\ Take(w, NoJob)
    /\ UNCHANGED <<phase, session, memory, files, wall, faults>>

CampaignNext ==
    Master \/ Tick \/ KillMaster \/ Resume \/ \E w \in Workers : Claim(w) \/ Report(w) \/ Die(w)

(* The master is one busy loop; nothing is assumed of the workers, of the  *)
(* clock or of whoever resumes the campaign.                               *)
CampaignSpec ==
    CampaignInit /\ [][CampaignNext]_campaignVars /\ WF_campaignVars(Master)

-----------------------------------------------------------------------------
(* Correctness *)

JobIds == Workers \X (1 .. MaxSessions) \X (0 .. MaxJobs)
Jobs == [id : JobIds, leaf : Leaves]

TypeOK ==
    /\ phase \in {"list", "drain", "dispatch", "check", "stopping", "finishing",
                  "closed", "down"}
    /\ session \in 1 .. MaxSessions /\ dispatched \in 0 .. MaxJobs /\ turn \in 1 .. N + 1
    /\ status \in [Leaves -> Status]
    /\ lock \in [Leaves -> JobIds \cup {NoJob}]
    /\ synthesized \subseteq Children /\ tree \subseteq Children \cup Leaves
    /\ proven \in BOOLEAN
    /\ exit \in {"timeout", "proven", "refuted_all", "verify_failed"}
    /\ processed \subseteq JobIds /\ listed \subseteq JobIds /\ cancelled \subseteq JobIds
    /\ queue \subseteq Jobs /\ markers \subseteq JobIds
    /\ results \subseteq [id : JobIds, leaf : Leaves,
                          outcome : Outcomes \cup {"Error"}, sound : BOOLEAN]
    /\ stop \in BOOLEAN /\ wall \in BOOLEAN
    /\ saved = NotSaved \/ saved \in [status : [Leaves -> Status], synthesized : SUBSET Children]
    /\ work \in [Workers -> Jobs \cup {NoJob}]
    /\ deaths \in 0 .. MaxDeaths /\ faults \in 0 .. MaxFaults

(* No status is ever wrong, in memory or on disk, and no child is called   *)
(* resolved that the opponent can escape from, whatever workers claim.     *)
Sound(st) == \A l \in Leaves : /\ st[l] = "Won" => Value[l] = "Win"
                               /\ st[l] = "Lost" => Value[l] # "Win"
StatusSound == Sound(status) /\ (saved # NotSaved => Sound(saved.status))

(* A status that was not there from the start has its proof on disk: the   *)
(* merge comes after the durable result, no later job writes over it, and  *)
(* a resumed master finds it again.                                        *)
Backed(st) ==
    \A l \in Leaves : st[l] # Start[l] =>
        \E r \in results : r.leaf = l /\ r.sound /\ Verdict(r.outcome) = st[l]
                           /\ r.outcome \in {"Win", "Loss"}
StatusBacked == Backed(status) /\ (saved # NotSaved => Backed(saved.status))

(* A campaign that ends "proven" holds a whole proof: some root move with  *)
(* its own fact and the facts of all its replies, also when most of them   *)
(* were merged by a master that no longer exists.                          *)
Complete(c) == c \in tree /\ Replies(c) \subseteq tree
CertificateComplete ==
    exit = "proven" /\ phase \in {"stopping", "finishing", "closed"} =>
        \A c \in Children : Resolved(status, c) => Complete(c)

(* Until the wall has passed, when no lock is old enough to be released, a *)
(* leaf is searched by one worker of the session at a time.                *)
InFlight == queue \cup ({work[w] : w \in Workers} \ {NoJob})
OneInFlight ==
    ~wall => \A i, j \in InFlight :
        i.leaf = j.leaf /\ i.id[2] = session /\ j.id[2] = session
        /\ i.id \notin cancelled /\ j.id \notin cancelled => i = j

(* So it is for as long as no session was resumed.                         *)
FirstOneInFlight == session = 1 => OneInFlight

(* A job whose answer is on disk does not keep its leaf locked.            *)
Answered(l) == Running /\ lock[l] \in {r.id : r \in results}
AnswersReleaseLocks == \A l \in Leaves : Answered(l) ~> ~Answered(l)

(* When every reply of a root move has its proof on disk, the campaign     *)
(* ends, whichever sessions the proofs come from.                          *)
Provable(c) ==
    \A l \in Replies(c) : \E r \in results : r.leaf = l /\ r.outcome = "Win" /\ r.sound
DecidedStops == \A c \in Children : Running /\ Provable(c) ~> ~Running

(* state.rs:587 "stop on proof / refutation / wall cap": a campaign that    *)
(* ran out of time has not proved its root; a root move that resolves its  *)
(* child is a proof, whether results or the rules alone resolved the child.*)
TimeoutUnproved ==
    phase = "closed" /\ exit = "timeout" => \A c \in Children : ~Resolved(status, c)

(* state.rs:838 "Release stale locks first (worker death)": the leaf of a  *)
(* job that no process has any more does not stay locked while the session *)
(* goes on.                                                                *)
LostJob(l) ==
    /\ Running /\ lock[l] # NoJob
    /\ lock[l] \notin {j.id : j \in InFlight} /\ lock[l] \notin {r.id : r \in results}
LostJobReleased == \A l \in Leaves : LostJob(l) ~> ~LostJob(l)

=============================================================================
