----------------------------- MODULE Portfolio -----------------------------
(***************************************************************************)
(* The race driver (examples/portfolio.rs): one solver process per salt,   *)
(* each with two pipes read by threads of their own and a watcher thread   *)
(* that reports its exit, all feeding the one channel of the event loop.   *)
(*                                                                         *)
(* The channel only interleaves its senders, so the loop is modelled as    *)
(* taking the next line of any pipe, or the exit of any dead racer, in     *)
(* whatever order: a racer's exit may overtake the lines still in its      *)
(* pipes, and the two streams of a racer overtake each other.              *)
(*                                                                         *)
(* A racer is the unmodified solver run with --first-outcome and           *)
(* --outcome-only (main.rs); it is taken to be sound: it reports truth, or *)
(* a draw when its search was cut by its budget or its timeout.            *)
(***************************************************************************)
EXTENDS Naturals, Sequences, FiniteSets

CONSTANTS
    Salts,       \* the racers; 0 is one of the default salts
    Values,      \* what the raced position may be worth
    Budgeted,    \* --budget was given
    MaxCrashes,  \* bound: racers that die while searching
    MaxSpawnFailures  \* bound: racers whose process cannot be started

ASSUME SaltsAssumption == Salts \subseteq Nat /\ IsFiniteSet(Salts) /\ Salts # {}
ASSUME ValuesAssumption == Values \subseteq {"win", "loss", "draw"}

VARIABLES
    truth,    \* the value of the raced position
    proc,     \* proc[s]: "unborn", "searching", "writing", "dead"
    result,   \* result[s]: what the search of s came to, and what cut it
    unwritten,\* unwritten[s]: the lines s has still to print
    pipe,     \* pipe[s][stream]: the lines printed and not yet received
    reported, \* the racers whose Exited event was received
    obs,      \* RaceTracker.racers
    winner,   \* RaceTracker.winner: {s}, or {} while there is none
    due,      \* the wall cap has passed
    pc        \* the driver: "spawn", "check", "recv", "done"

racers == <<truth, proc, result, unwritten, pipe>>
tracker == <<reported, obs, winner>>
vars == <<racers, tracker, due, pc>>

None == "none"
Streams == {"stdout", "stderr"}
Decisive == {"win", "loss"}

-----------------------------------------------------------------------------
(* The racers.                                                             *)

(* What a search can come to.                                              *)
Results ==
    {[outcome |-> truth, cut |-> None]}
    \cup {[outcome |-> "draw", cut |-> c] : c \in {"timeout"} \cup IF Budgeted THEN {"budget exhausted"} ELSE {}}

(* The lines a racer prints at the end, each with its stream; the pv and   *)
(* pv_status lines are one.                                                *)
Script(r) ==
    LET decided == r.outcome \in Decisive
        Line(stream, text, printed) == IF printed THEN <<[stream |-> stream, text |-> text]>> ELSE <<>>
    IN  Line("stderr", r.outcome, decided) \o Line("stdout", r.outcome, TRUE)
        \o Line("stdout", "pv", decided) \o Line("stdout", r.cut, r.cut # None)
        \o Line("stderr", "evals", TRUE)

EndSearch(s) ==
    \E r \in Results :
        /\ proc[s] = "searching"
        /\ r.cut = "timeout" => due
        /\ proc' = [proc EXCEPT ![s] = "writing"]
        /\ result' = [result EXCEPT ![s] = r]
        /\ unwritten' = [unwritten EXCEPT ![s] = Script(r)]
        /\ UNCHANGED <<truth, pipe, tracker, due, pc>>

PrintLine(s) ==
    /\ proc[s] = "writing" /\ unwritten[s] # <<>>
    /\ LET line == Head(unwritten[s])
       IN  pipe' = [pipe EXCEPT ![s][line.stream] = Append(@, line.text)]
    /\ unwritten' = [unwritten EXCEPT ![s] = Tail(@)]
    /\ UNCHANGED <<truth, proc, result, tracker, due, pc>>

Exit(s) ==
    /\ proc[s] = "writing" /\ unwritten[s] = <<>>
    /\ proc' = [proc EXCEPT ![s] = "dead"]
    /\ UNCHANGED <<truth, result, unwritten, pipe, tracker, due, pc>>

Crashed == [outcome |-> "crash", cut |-> None]
NoResult == [outcome |-> None, cut |-> None]

Crash(s) ==
    /\ proc[s] = "searching"
    /\ Cardinality({x \in Salts : result[x] = Crashed}) < MaxCrashes
    /\ proc' = [proc EXCEPT ![s] = "dead"]
    /\ result' = [result EXCEPT ![s] = Crashed]
    /\ UNCHANGED <<truth, unwritten, pipe, tracker, due, pc>>

(* The wall cap and the racers' own timeouts are the same number of        *)
(* seconds; which of them acts first is open.                              *)
CapPasses ==
    /\ ~due /\ pc \in {"check", "recv"}
    /\ due' = TRUE
    /\ UNCHANGED <<racers, tracker, pc>>

-----------------------------------------------------------------------------
(* The tracker.                                                            *)

NewObs == [decisive |-> None, final |-> None, budget |-> FALSE, evals |-> FALSE, pv |-> FALSE,
           exited |-> FALSE, killed |-> FALSE, failed |-> FALSE, wall |-> None]

Live(o) == ~o.exited /\ ~o.killed /\ ~o.failed

(* Mutant: the racer of the default salt is never a kill target.           *)
SparingZero(os, s) == {x \in Salts \ {s, 0} : Live(os[x])}

LiveSaltsExcept(os, s) == {x \in Salts \ {s} : Live(os[x])}

(* on_line without the kill decision. A "timeout" line is like any other   *)
(* line the driver does not know.                                          *)
OnLine(o, stream, text) ==
    CASE text \in Decisive -> [o EXCEPT !.decisive = IF @ = None THEN text ELSE @]
      [] text = "draw" /\ stream = "stdout" -> [o EXCEPT !.final = "draw"]
      [] text = "budget exhausted" -> [o EXCEPT !.budget = TRUE]
      [] text = "evals" -> [o EXCEPT !.evals = TRUE]
      [] text = "pv" -> [o EXCEPT !.pv = TRUE]
      [] OTHER -> o

OnExit(o) == [o EXCEPT !.exited = TRUE, !.wall = IF o.killed THEN @ ELSE "exit"]

MarkKilled(os, targets) ==
    [s \in Salts |-> IF s \in targets THEN [os[s] EXCEPT !.killed = TRUE, !.wall = "kill"] ELSE os[s]]

(* records: the line printed for one racer.                                *)
Record(o) ==
    LET out ==
            CASE o.failed -> <<"error", FALSE>>
              [] ~o.failed /\ o.decisive # None -> <<o.decisive, FALSE>>
              [] ~o.failed /\ o.decisive = None /\ o.killed /\ ~o.budget -> <<"killed", FALSE>>
              [] ~o.failed /\ o.decisive = None /\ o.budget -> <<"draw", TRUE>>
              [] OTHER -> <<IF o.final # None THEN o.final ELSE "error", FALSE>>
    IN  [outcome |-> out[1], censored |-> out[2], wall |-> o.wall,
         evals |-> o.evals /\ ~(o.killed /\ o.decisive = None)]

-----------------------------------------------------------------------------
(* The driver.                                                             *)

Spawn ==
    LET unborn == {s \in Salts : proc[s] = "unborn" /\ ~obs[s].failed}
        s == CHOOSE x \in unborn : \A y \in unborn : x <= y
    IN  /\ pc = "spawn"
        /\ \/ /\ unborn # {}
              /\ proc' = [proc EXCEPT ![s] = "searching"]
              /\ UNCHANGED <<obs, pc>>
           \/ /\ unborn # {}
              /\ Cardinality({x \in Salts : obs[x].failed}) < MaxSpawnFailures
              /\ obs' = [obs EXCEPT ![s].failed = TRUE, ![s].exited = TRUE]
              /\ UNCHANGED <<proc, pc>>
           \/ /\ unborn = {}
              /\ pc' = "check"
              /\ UNCHANGED <<proc, obs>>
        /\ UNCHANGED <<truth, result, unwritten, pipe, reported, winner, due>>

(* kill_racer: what the racer had not printed is lost, what it had stays   *)
(* in its pipes.                                                           *)
Kill(targets, os) ==
    /\ proc' = [s \in Salts |-> IF s \in targets THEN "dead" ELSE proc[s]]
    /\ unwritten' = [s \in Salts |-> IF s \in targets THEN <<>> ELSE unwritten[s]]
    /\ obs' = MarkKilled(os, targets)

(* The head of the loop: past the wall cap every live racer but salt 0 is  *)
(* killed.                                                                 *)
CheckWallCap ==
    /\ pc = "check"
    /\ Kill(IF due THEN LiveSaltsExcept(obs, 0) ELSE {}, obs)
    /\ pc' = "recv"
    /\ UNCHANGED <<truth, result, pipe, reported, winner, due>>

ReceiveLine(s, stream) ==
    /\ pc = "recv" /\ pipe[s][stream] # <<>>
    /\ LET text == Head(pipe[s][stream])
           os == [obs EXCEPT ![s] = OnLine(@, stream, text)]
           first == text \in Decisive /\ winner = {}
       IN  /\ winner' = IF first THEN {s} ELSE winner
           /\ Kill(IF first THEN LiveSaltsExcept(os, s) ELSE {}, os)
    /\ pipe' = [pipe EXCEPT ![s][stream] = Tail(@)]
    /\ pc' = "check"
    /\ UNCHANGED <<truth, result, reported, due>>

ReceiveExit(s) ==
    /\ pc = "recv" /\ proc[s] = "dead" /\ s \notin reported
    /\ reported' = reported \cup {s}
    /\ obs' = [obs EXCEPT ![s] = OnExit(@)]
    /\ pc' = "check"
    /\ UNCHANGED <<racers, winner, due>>

(* Mutant: the loop stops when every racer has exited.                     *)
AllSettled == \A s \in Salts : obs[s].exited

(* Mutant: the loop waits for the exit of every racer, started or not.     *)
EveryoneReported == reported = Salts

(* Every sender is gone: the watchers have reported and the readers have   *)
(* reached the end of their pipes.                                         *)
Disconnected ==
    \A s \in Salts : /\ proc[s] = "dead" => s \in reported
                     /\ proc[s] \in {"dead", "unborn"}
                     /\ \A st \in Streams : pipe[s][st] = <<>>

RecvTimeout ==
    /\ pc = "recv" /\ ~Disconnected
    /\ pc' = "check"
    /\ UNCHANGED <<racers, tracker, due>>

EndRace ==
    /\ pc = "recv" /\ Disconnected
    /\ pc' = "done"
    /\ UNCHANGED <<racers, tracker, due>>

-----------------------------------------------------------------------------
Init ==
    /\ truth \in Values
    /\ proc = [s \in Salts |-> "unborn"]
    /\ result = [s \in Salts |-> NoResult]
    /\ unwritten = [s \in Salts |-> <<>>]
    /\ pipe = [s \in Salts |-> [st \in Streams |-> <<>>]]
    /\ reported = {}
    /\ obs = [s \in Salts |-> NewObs]
    /\ winner = {}
    /\ due = FALSE
    /\ pc = "spawn"

Receive == \E s \in Salts : ReceiveExit(s) \/ \E st \in Streams : ReceiveLine(s, st)

Driver == Spawn \/ CheckWallCap \/ Receive \/ RecvTimeout \/ EndRace

Racer(s) == EndSearch(s) \/ PrintLine(s) \/ Exit(s) \/ Crash(s)

Over == pc = "done" /\ UNCHANGED vars

Next == Driver \/ CapPasses \/ (\E s \in Salts : Racer(s)) \/ Over

Spec == Init /\ [][Next]_vars

(* The driver's loop and the reader threads run, the clock runs, and a     *)
(* racer stops at its own timeout and prints what it has to. A receive     *)
(* that times out leads back to the loop's head, so the events are under   *)
(* strong fairness.                                                        *)
Fairness ==
    /\ WF_vars(Spawn) /\ WF_vars(CheckWallCap) /\ SF_vars(EndRace)
    /\ WF_vars(CapPasses)
    /\ \A s \in Salts : /\ WF_vars(EndSearch(s)) /\ WF_vars(PrintLine(s)) /\ WF_vars(Exit(s))
                        /\ SF_vars(ReceiveExit(s))
                        /\ \A st \in Streams : SF_vars(ReceiveLine(s, st))

FairSpec == Spec /\ Fairness

-----------------------------------------------------------------------------
TypeOK ==
    /\ proc \in [Salts -> {"unborn", "searching", "writing", "dead"}]
    /\ truth \in Values
    /\ \A s \in Salts : result[s] \in Results \cup {Crashed, NoResult}
    /\ reported \subseteq Salts
    /\ winner \subseteq Salts /\ Cardinality(winner) <= 1
    /\ \A s \in winner : obs[s].decisive # None
    /\ pc \in {"spawn", "check", "recv", "done"}

Ended(s) == pc = "done" /\ proc[s] = "dead"
Alone(s) == Ended(s) /\ ~obs[s].killed /\ result[s] # Crashed

(* The record of a racer nobody killed is what the racer printed: its      *)
(* outcome, the censoring of its budget, its evaluations, its pv and its   *)
(* own wall time, though its exit may have been seen before its lines.     *)
RecordsFaithful ==
    \A s \in Salts : Alone(s) =>
        /\ Record(obs[s]).outcome = result[s].outcome
        /\ Record(obs[s]).censored <=> result[s].cut = "budget exhausted"
        /\ Record(obs[s]).evals
        /\ obs[s].pv <=> result[s].outcome \in Decisive
        /\ Record(obs[s]).wall = "exit"

(* No search that its budget cut is recorded as a proven draw, killed or   *)
(* not: a racer killed between its outcome line and its "budget exhausted" *)
(* line is recorded as killed.                                             *)
BudgetNeverProves ==
    \A s \in Salts :
        Ended(s) /\ result[s].cut = "budget exhausted"
        => ~(Record(obs[s]).outcome = "draw" /\ ~Record(obs[s]).censored)

(* A record never claims more, and for a racer left alone no less, than    *)
(* what the racer printed (portfolio.rs records).                          *)
RecordsTrue == RecordsFaithful /\ BudgetNeverProves

(* Once there is a winner no other racer searches, and the winner itself   *)
(* is stopped by nothing but the wall cap; a killed racer keeps the time   *)
(* of its kill.                                                            *)
WinnerRunsAlone ==
    /\ \A w \in winner : /\ \A s \in Salts \ {w} : proc[s] # "searching"
                         /\ obs[w].killed => due
    /\ \A s \in Salts : obs[s].killed => obs[s].wall = "kill"

(* The race is decided when a racer that nobody killed was decisive, and   *)
(* its answer is the value of the position.                                *)
DecidedRace ==
    pc = "done" =>
        /\ \A s \in Salts : Alone(s) /\ result[s].outcome \in Decisive => winner # {}
        /\ \A w \in winner : Record(obs[w]).outcome = truth

(* A decisive racer that is left alone wins, the winner runs on alone and  *)
(* has the right answer (portfolio.rs on_line, on_exit, mark_killed).      *)
OneWinner == TypeOK /\ WinnerRunsAlone /\ DecidedRace

(* Every race ends: the salt the wall cap spares stops at its own timeout. *)
RaceEnds == <>(pc = "done")

(* An uncensored draw is the answer of a search that nothing cut. The code *)
(* does not keep this: a racer that stops at its own timeout prints a draw *)
(* and a "timeout" line, and the tracker ignores that line.                *)
UncensoredDrawProven ==
    \A s \in Salts :
        Ended(s) /\ Record(obs[s]).outcome = "draw" /\ ~Record(obs[s]).censored
        => result[s] # NoResult /\ result[s].cut = None
=============================================================================
