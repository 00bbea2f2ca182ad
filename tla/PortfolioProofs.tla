----------------------------- MODULE PortfolioProofs -----------------------------
(***************************************************************************)
(* That a race has at most one winner, with the right answer, and that the *)
(* records say what the racers printed, for any number of racers, crashes  *)
(* and failed spawns and any order of their lines and exits.               *)
(***************************************************************************)
EXTENDS Portfolio, SequenceTheorems, FiniteSetTheorems, WellFoundedInduction, TLAPS

Texts == Decisive \cup {"draw", "pv", "timeout", "budget exhausted", "evals"}
Lines == [stream : Streams, text : Texts]
Procs == {"unborn", "searching", "writing", "dead"}

(* The results of a search, whatever the truth: nothing cuts a decision.   *)
Found == {r \in [outcome : Decisive \cup {"draw"}, cut : {None, "timeout", "budget exhausted"}] :
             r.outcome \in Decisive => r.cut = None}

Observations ==
    [decisive : Decisive \cup {None}, final : {"draw", None}, budget : BOOLEAN,
     evals : BOOLEAN, pv : BOOLEAN, exited : BOOLEAN, killed : BOOLEAN, failed : BOOLEAN,
     wall : {"exit", "kill", None}]

(* A racer: its process p, result r, lines to print u and pipes q, what    *)
(* the tracker observed of it and whether its exit was reported.           *)
TypedRacer(p, r, u, q, o, exitSeen) ==
    /\ p \in Procs
    /\ r \in Found \cup {Crashed, NoResult}
    /\ u \in Seq(Lines)
    /\ q \in [Streams -> Seq(Texts)]
    /\ o \in Observations
    /\ exitSeen \in BOOLEAN

Lived(p, r, u, o, exitSeen) ==
    /\ p \in {"unborn", "searching"} => r = NoResult
    /\ p = "writing" => r \in Found
    /\ p = "dead" /\ r = NoResult => o.killed
    /\ p # "writing" => u = <<>>
    /\ o.failed => p = "unborn"
    /\ o.killed \/ exitSeen => p = "dead"
    /\ o.exited => o.failed \/ exitSeen
    /\ exitSeen => o.exited /\ (o.killed \/ o.wall = "exit")
    /\ o.killed => o.wall = "kill"

Scripted(r) == IF r \in Found THEN Range(Script(r)) ELSE {}

(* The lines on their way: in the racer, or in one of its pipes.           *)
Travelling(u, q) == Range(u) \cup {l \in Lines : l.text \in Range(q[l.stream])}

(* Only lines of the script travel, and only they were heard of.           *)
Honest(r, u, q, o) ==
    /\ Travelling(u, q) \subseteq Scripted(r)
    /\ o.decisive # None => r \in Found /\ o.decisive = r.outcome
    /\ o.budget => r \in Found /\ r.cut = "budget exhausted"
    /\ o.pv => r \in Found /\ r.outcome \in Decisive

(* The tracker has taken note of a line.                                   *)
Noted(o, l) ==
    /\ l.text \in Decisive => o.decisive # None
    /\ l.text = "draw" => o.final = "draw"
    /\ l.text = "budget exhausted" => o.budget
    /\ l.text = "pv" => o.pv
    /\ l.text = "evals" => o.evals

(* No line of a racer that nobody kills gets lost.                         *)
Complete(r, u, q, o) ==
    ~o.killed => \A l \in Scripted(r) : l \in Travelling(u, q) \/ Noted(o, l)

Sound(p, r, u, q, o, exitSeen) ==
    /\ TypedRacer(p, r, u, q, o, exitSeen)
    /\ Lived(p, r, u, o, exitSeen)
    /\ Honest(r, u, q, o)
    /\ Complete(r, u, q, o)

SoundAt(s) == Sound(proc[s], result[s], unwritten[s], pipe[s], obs[s], s \in reported)

Typed ==
    /\ truth \in Values
    /\ proc = [s \in Salts |-> proc[s]]
    /\ result \in [Salts -> Results \cup {Crashed, NoResult}]
    /\ unwritten = [s \in Salts |-> unwritten[s]]
    /\ pipe = [s \in Salts |-> pipe[s]]
    /\ obs = [s \in Salts |-> obs[s]]
    /\ reported \subseteq Salts
    /\ winner \subseteq Salts
    /\ due \in BOOLEAN
    /\ pc \in {"spawn", "check", "recv", "done"}

(* The winner is the first that was heard to be decisive; the others were  *)
(* stopped for it, or by the wall cap.                                     *)
Won ==
    /\ winner # {} => pc # "spawn"
    /\ \A v, w \in winner : v = w
    /\ \A w \in winner : obs[w].decisive # None
    /\ \A s \in Salts : obs[s].decisive # None => winner # {}
    /\ \A s \in Salts : proc[s] = "searching" => winner \subseteq {s}
    /\ \A s \in Salts : obs[s].killed => due \/ (winner # {} /\ s \notin winner)

RaceInv ==
    /\ Typed
    /\ \A s \in Salts : SoundAt(s)
    /\ Won
    /\ pc = "done" => Disconnected

-----------------------------------------------------------------------------
(* Sequences as the sets of their members.                                 *)

LEMMA Members ==
    ASSUME NEW S, NEW q \in Seq(S)
    PROVE  /\ Range(q) \subseteq S
           /\ q = <<>> => Range(q) = {}
           /\ \A x \in S : Append(q, x) \in Seq(S) /\ Range(Append(q, x)) = Range(q) \cup {x}
           /\ q # <<>> => /\ Head(q) \in S /\ Tail(q) \in Seq(S)
                          /\ Range(q) = {Head(q)} \cup Range(Tail(q))
<1>1. Range(q) = {q[i] : i \in 1 .. Len(q)}
    BY LenProperties DEF Range
<1>2. Range(q) \subseteq S
    BY <1>1, ElementOfSeq
<1>3. ASSUME q = <<>> PROVE Range(q) = {}
    BY <1>3 DEF Range
<1>4. ASSUME NEW x \in S
      PROVE  Append(q, x) \in Seq(S) /\ Range(Append(q, x)) = Range(q) \cup {x}
    <2>1. /\ Append(q, x) \in Seq(S) /\ Len(q) \in Nat /\ Len(Append(q, x)) = Len(q) + 1
          /\ \A i \in 1 .. Len(q) + 1 : Append(q, x)[i] = IF i <= Len(q) THEN q[i] ELSE x
        BY AppendProperties, LenProperties
    <2>2. Range(Append(q, x)) = {Append(q, x)[i] : i \in 1 .. Len(q) + 1}
        BY <2>1, LenProperties DEF Range
    <2>3. QED
        BY <2>1, <2>2, <1>1
<1>5. ASSUME q # <<>>
      PROVE  Head(q) \in S /\ Tail(q) \in Seq(S) /\ Range(q) = {Head(q)} \cup Range(Tail(q))
    <2>1. /\ Head(q) \in S /\ Tail(q) \in Seq(S) /\ Len(Tail(q)) = Len(q) - 1
          /\ \A i \in 1 .. Len(Tail(q)) : Tail(q)[i] = q[i + 1]
        BY <1>5, HeadTailProperties
    <2>2. Range(Tail(q)) = {Tail(q)[i] : i \in 1 .. Len(q) - 1}
        BY <2>1, LenProperties DEF Range
    <2>3. Len(q) \in Nat \ {0} /\ Head(q) = q[1]
        BY <1>5, EmptySeq
    <2> DEFINE t == Tail(q)
               n == Len(q)
    <2>4. n \in Nat \ {0} /\ \A i \in 1 .. n - 1 : t[i] = q[i + 1]
        BY <2>1, <2>3
    <2>5. Range(t) = {t[i] : i \in 1 .. n - 1} /\ Range(q) = {q[i] : i \in 1 .. n}
        BY <2>2, <1>1
    <2> HIDE DEF t, n
    <2>6. \A x : x \in Range(q) => x \in {q[1]} \cup Range(t)
        <3> SUFFICES ASSUME NEW i \in 1 .. n PROVE q[i] \in {q[1]} \cup Range(t)
            BY <2>5
        <3>1. CASE i = 1
            BY <3>1
        <3>2. CASE i # 1
            <4>1. i - 1 \in 1 .. n - 1 /\ (i - 1) + 1 = i
                BY <3>2, <2>4
            <4>2. QED
                BY <4>1, <2>4, <2>5
        <3>3. QED
            BY <3>1, <3>2
    <2>7. \A x : x \in Range(t) => x \in Range(q)
        <3> SUFFICES ASSUME NEW i \in 1 .. n - 1 PROVE t[i] \in Range(q)
            BY <2>5
        <3>1. i + 1 \in 1 .. n
            BY <2>4
        <3>2. QED
            BY <3>1, <2>4, <2>5
    <2>8. q[1] \in Range(q)
        BY <2>4, <2>5
    <2>9. Range(q) = {Head(q)} \cup Range(t)
        BY <2>3, <2>6, <2>7, <2>8
    <2>10. QED
        BY <2>1, <2>9 DEF t
<1>6. QED
    BY <1>2, <1>3, <1>4, <1>5

LEMMA Joined ==
    ASSUME NEW S, NEW s \in Seq(S), NEW t \in Seq(S)
    PROVE  s \o t \in Seq(S) /\ Range(s \o t) = Range(s) \cup Range(t)
<1>1. s \o t \in Seq(S)
    BY ConcatProperties
<1>2. Range(s \o t) = Range(s) \cup Range(t)
    BY RangeConcatenation
<1>3. QED
    BY <1>1, <1>2

LEMMA AtMostOne ==
    ASSUME NEW S, NEW x, NEW printed \in BOOLEAN, printed => x \in S
    PROVE  LET line == IF printed THEN <<x>> ELSE <<>>
           IN  line \in Seq(S) /\ Range(line) = IF printed THEN {x} ELSE {}
<1>1. CASE printed
    <2>1. <<x>> \in Seq(S) /\ Range(<<x>>) = {x}
        BY <1>1 DEF Range
    <2>2. QED
        BY <1>1, <2>1
<1>2. CASE ~printed
    BY <1>2, EmptySeq, Members
<1>3. QED
    BY <1>1, <1>2

LEMMA TextsOf ==
    ASSUME NEW r \in Found
    PROVE  /\ \A st \in Streams, t \in Texts : [stream |-> st, text |-> t] \in Lines
           /\ "stdout" \in Streams /\ "stderr" \in Streams
           /\ r.outcome \in Texts /\ "pv" \in Texts /\ "evals" \in Texts
           /\ r.cut # None => r.cut \in Texts
<1>1. r.outcome \in {"win", "loss", "draw"} /\ r.cut \in {"none", "timeout", "budget exhausted"}
    BY DEF Found, Decisive, None
<1>2. QED
    BY <1>1 DEF Lines, Texts, Streams, Decisive, None

(* What a racer prints.                                                    *)
LEMMA ScriptLines ==
    ASSUME NEW r \in Found
    PROVE  /\ Script(r) \in Seq(Lines)
           /\ Scripted(r) =
                  (IF r.outcome \in Decisive THEN {[stream |-> "stderr", text |-> r.outcome]} ELSE {})
                  \cup {[stream |-> "stdout", text |-> r.outcome]}
                  \cup (IF r.outcome \in Decisive THEN {[stream |-> "stdout", text |-> "pv"]} ELSE {})
                  \cup (IF r.cut # None THEN {[stream |-> "stdout", text |-> r.cut]} ELSE {})
                  \cup {[stream |-> "stderr", text |-> "evals"]}
<1> DEFINE outcome1 == [stream |-> "stderr", text |-> r.outcome]
           outcome2 == [stream |-> "stdout", text |-> r.outcome]
           pv == [stream |-> "stdout", text |-> "pv"]
           cut == [stream |-> "stdout", text |-> r.cut]
           evals == [stream |-> "stderr", text |-> "evals"]
           decided == r.outcome \in Decisive
           censored == r.cut # None
           a == IF decided THEN <<outcome1>> ELSE <<>>
           b == IF TRUE THEN <<outcome2>> ELSE <<>>
           c == IF decided THEN <<pv>> ELSE <<>>
           d == IF censored THEN <<cut>> ELSE <<>>
           e == IF TRUE THEN <<evals>> ELSE <<>>
<1>1. /\ decided \in BOOLEAN /\ censored \in BOOLEAN /\ outcome1 \in Lines /\ outcome2 \in Lines
      /\ pv \in Lines /\ evals \in Lines
      /\ censored => cut \in Lines
    <2>1. r.outcome \in Texts /\ "pv" \in Texts /\ "evals" \in Texts
        BY TextsOf
    <2>2. ASSUME NEW t \in Texts
          PROVE  [stream |-> "stderr", text |-> t] \in Lines /\ [stream |-> "stdout", text |-> t] \in Lines
        BY TextsOf
    <2>3. censored => cut \in Lines
        BY <2>2, TextsOf
    <2>4. outcome1 \in Lines /\ outcome2 \in Lines
        BY <2>1, <2>2
    <2>5. pv \in Lines /\ evals \in Lines
        BY <2>1, <2>2
    <2>6. decided \in BOOLEAN /\ censored \in BOOLEAN
        OBVIOUS
    <2> HIDE DEF decided, censored, cut, outcome1, outcome2, pv, evals
    <2>7. QED
        BY <2>3, <2>4, <2>5, <2>6
<1>2. Script(r) = a \o b \o c \o d \o e
    BY DEF Script
<1> HIDE DEF outcome1, outcome2, pv, cut, evals, decided, censored
<1>3. a \in Seq(Lines) /\ Range(a) = IF decided THEN {outcome1} ELSE {}
    BY <1>1, AtMostOne
<1>4. b \in Seq(Lines) /\ Range(b) = {outcome2}
    BY <1>1, AtMostOne
<1>5. c \in Seq(Lines) /\ Range(c) = IF decided THEN {pv} ELSE {}
    BY <1>1, AtMostOne
<1>6. d \in Seq(Lines) /\ Range(d) = IF censored THEN {cut} ELSE {}
    BY <1>1, AtMostOne
<1>7. e \in Seq(Lines) /\ Range(e) = {evals}
    BY <1>1, AtMostOne
<1> HIDE DEF a, b, c, d, e
<1> DEFINE ab == a \o b
           abc == ab \o c
           abcd == abc \o d
<1>8. ab \in Seq(Lines) /\ Range(ab) = Range(a) \cup Range(b)
    BY <1>3, <1>4, Joined
<1> HIDE DEF ab
<1>9. abc \in Seq(Lines) /\ Range(abc) = Range(ab) \cup Range(c)
    BY <1>5, <1>8, Joined
<1> HIDE DEF abc
<1>10. abcd \in Seq(Lines) /\ Range(abcd) = Range(abc) \cup Range(d)
    BY <1>6, <1>9, Joined
<1> HIDE DEF abcd
<1>11. abcd \o e \in Seq(Lines) /\ Range(abcd \o e) = Range(abcd) \cup Range(e)
    BY <1>7, <1>10, Joined
<1>12. Script(r) = abcd \o e
    BY <1>2 DEF abcd, abc, ab
<1>13. Scripted(r) = Range(abcd \o e)
    BY <1>12 DEF Scripted
<1>14. Script(r) \in Seq(Lines)
    BY <1>11, <1>12
<1>15. Scripted(r) = (IF decided THEN {outcome1} ELSE {}) \cup {outcome2}
                     \cup (IF decided THEN {pv} ELSE {})
                     \cup (IF censored THEN {cut} ELSE {}) \cup {evals}
    BY <1>3, <1>4, <1>5, <1>6, <1>7, <1>8, <1>9, <1>10, <1>11, <1>13
<1>16. QED
    BY <1>14, <1>15 DEF outcome1, outcome2, pv, cut, evals, decided, censored

(* Which lines say what.                                                   *)
LEMMA ScriptTells ==
    ASSUME NEW r \in Found, NEW l \in Scripted(r)
    PROVE  /\ l \in Lines
           /\ l.text \in Decisive => l.text = r.outcome
           /\ l.text = "draw" => l.stream = "stdout"
           /\ l.text = "budget exhausted" => r.cut = "budget exhausted"
           /\ l.text = "pv" => r.outcome \in Decisive
<1>1. /\ r.outcome \in {"win", "loss", "draw"} /\ r.cut \in {"none", "timeout", "budget exhausted"}
      /\ Lines = [stream : {"stdout", "stderr"},
                  text : {"win", "loss", "draw", "pv", "timeout", "budget exhausted", "evals"}]
    BY DEF Found, Lines, Texts, Streams, Decisive, None
<1>2. \/ r.outcome \in Decisive /\ l = [stream |-> "stderr", text |-> r.outcome]
      \/ l = [stream |-> "stdout", text |-> r.outcome]
      \/ r.outcome \in Decisive /\ l = [stream |-> "stdout", text |-> "pv"]
      \/ r.cut # None /\ l = [stream |-> "stdout", text |-> r.cut]
      \/ l = [stream |-> "stderr", text |-> "evals"]
    BY ScriptLines
<1>3. \/ r.outcome \in Decisive /\ l.stream = "stderr" /\ l.text = r.outcome
      \/ l.stream = "stdout" /\ l.text = r.outcome
      \/ r.outcome \in Decisive /\ l.stream = "stdout" /\ l.text = "pv"
      \/ r.cut # None /\ l.stream = "stdout" /\ l.text = r.cut
      \/ l.stream = "stderr" /\ l.text = "evals"
    BY <1>2
<1>4. l \in Lines
    <2>1. \A t \in Texts : /\ [stream |-> "stderr", text |-> t] \in Lines
                          /\ [stream |-> "stdout", text |-> t] \in Lines
        BY TextsOf
    <2>2. QED
        BY <1>2, <2>1, TextsOf
<1>5. QED
    BY <1>1, <1>3, <1>4 DEF Decisive, None

-----------------------------------------------------------------------------
(* What happens to one racer keeps what is known of it.                    *)

LEMMA NotFound == Crashed \notin Found /\ NoResult \notin Found /\ Crashed # NoResult
BY DEF Crashed, NoResult, Found, Decisive, None

LEMMA ResultsFound ==
    truth \in Values =>
        \A r \in Results : r \in Found /\ (r.outcome \in Decisive => r.outcome = truth)
<1> SUFFICES ASSUME truth \in Values, NEW r \in Results
             PROVE  r \in Found /\ (r.outcome \in Decisive => r.outcome = truth)
    OBVIOUS
<1>1. truth \in {"win", "loss", "draw"}
    BY ValuesAssumption
<1> DEFINE cuts == {"timeout"} \cup IF Budgeted THEN {"budget exhausted"} ELSE {}
<1>2. cuts \subseteq {"timeout", "budget exhausted"}
    OBVIOUS
<1>3. r \in {[outcome |-> truth, cut |-> None]} \cup {[outcome |-> "draw", cut |-> c] : c \in cuts}
    BY DEF Results
<1> HIDE DEF cuts
<1>4. CASE r = [outcome |-> truth, cut |-> None]
    BY <1>1, <1>4 DEF Found, Decisive, None
<1>5. ASSUME NEW c \in cuts, r = [outcome |-> "draw", cut |-> c]
      PROVE  r \in Found /\ r.outcome \notin Decisive
    BY <1>2, <1>5 DEF Found, Decisive
<1>6. QED
    BY <1>3, <1>4, <1>5

LEMMA StartSound ==
    ASSUME NEW r, NEW u, NEW q, NEW o, NEW x, Sound("unborn", r, u, q, o, x), ~o.failed
    PROVE  Sound("searching", r, u, q, o, x)
BY DEF Sound, TypedRacer, Lived, Procs

LEMMA FailSound ==
    ASSUME NEW r, NEW u, NEW q, NEW o, NEW x, Sound("unborn", r, u, q, o, x)
    PROVE  Sound("unborn", r, u, q, [o EXCEPT !.failed = TRUE, !.exited = TRUE], x)
<1> DEFINE new == [o EXCEPT !.failed = TRUE, !.exited = TRUE]
<1>1. o \in Observations
    BY DEF Sound, TypedRacer
<1>2. /\ new \in Observations /\ new.failed /\ new.exited
      /\ new.killed = o.killed /\ new.wall = o.wall /\ new.decisive = o.decisive
      /\ new.final = o.final /\ new.budget = o.budget /\ new.pv = o.pv /\ new.evals = o.evals
    BY <1>1 DEF Observations
<1> HIDE DEF new
<1>3. TypedRacer("unborn", r, u, q, new, x) /\ Lived("unborn", r, u, new, x)
    BY <1>2 DEF Sound, TypedRacer, Lived
<1>4. Honest(r, u, q, new) /\ Complete(r, u, q, new)
    BY <1>2 DEF Sound, Honest, Complete, Noted
<1>5. QED
    BY <1>3, <1>4 DEF Sound, new

LEMMA EndSound ==
    ASSUME NEW r, NEW u, NEW q, NEW o, NEW x, Sound("searching", r, u, q, o, x), NEW found \in Found
    PROVE  Sound("writing", found, Script(found), q, o, x)
<1>1. r \notin Found /\ r = NoResult /\ ~o.failed /\ ~x /\ ~o.killed
    BY NotFound DEF Sound, Lived
<1>2. Travelling(u, q) = {}
    BY <1>1 DEF Sound, Honest, Scripted
<1>3. Travelling(Script(found), q) = Scripted(found)
    BY <1>2 DEF Travelling, Scripted
<1>4. TypedRacer("writing", found, Script(found), q, o, x)
    BY ScriptLines DEF Sound, TypedRacer, Procs
<1>5. Lived("writing", found, Script(found), o, x)
    BY <1>1 DEF Sound, Lived
<1>6. Honest(found, Script(found), q, o)
    BY <1>1, <1>3 DEF Sound, Honest
<1>7. Complete(found, Script(found), q, o)
    BY <1>3 DEF Complete
<1>8. QED
    BY <1>4, <1>5, <1>6, <1>7 DEF Sound

LEMMA CrashSound ==
    ASSUME NEW r, NEW u, NEW q, NEW o, NEW x, Sound("searching", r, u, q, o, x)
    PROVE  Sound("dead", Crashed, u, q, o, x)
<1>1. r \notin Found /\ ~o.failed /\ Crashed \notin Found /\ Crashed # NoResult
    BY NotFound DEF Sound, Lived
<1>2. Scripted(r) = {} /\ Scripted(Crashed) = {}
    BY <1>1 DEF Scripted
<1>3. TypedRacer("dead", Crashed, u, q, o, x) /\ Lived("dead", Crashed, u, o, x)
    BY <1>1 DEF Sound, TypedRacer, Lived, Procs
<1>4. Honest(Crashed, u, q, o) /\ Complete(Crashed, u, q, o)
    BY <1>1, <1>2 DEF Sound, Honest, Complete
<1>5. QED
    BY <1>3, <1>4 DEF Sound

LEMMA ExitSound ==
    ASSUME NEW r, NEW u, NEW q, NEW o, NEW x, Sound("writing", r, u, q, o, x), u = <<>>
    PROVE  Sound("dead", r, u, q, o, x)
BY NotFound DEF Sound, TypedRacer, Lived, Procs

LEMMA SeenSound ==
    ASSUME NEW r, NEW u, NEW q, NEW o, NEW x, Sound("dead", r, u, q, o, x)
    PROVE  Sound("dead", r, u, q, OnExit(o), TRUE)
<1> DEFINE new == OnExit(o)
<1>1. o \in Observations
    BY DEF Sound, TypedRacer
<1>2. /\ new \in Observations /\ new.exited
      /\ new.wall = IF o.killed THEN o.wall ELSE "exit"
      /\ new.killed = o.killed /\ new.failed = o.failed /\ new.decisive = o.decisive
      /\ new.final = o.final /\ new.budget = o.budget /\ new.pv = o.pv /\ new.evals = o.evals
    BY <1>1 DEF Observations, OnExit
<1> HIDE DEF new
<1>3. TypedRacer("dead", r, u, q, new, TRUE) /\ Lived("dead", r, u, new, TRUE)
    BY <1>2 DEF Sound, TypedRacer, Lived
<1>4. Honest(r, u, q, new) /\ Complete(r, u, q, new)
    BY <1>2 DEF Sound, Honest, Complete, Noted
<1>5. QED
    BY <1>3, <1>4 DEF Sound, new

LEMMA KillSound ==
    ASSUME NEW p, NEW r, NEW u, NEW q, NEW o, NEW x, Sound(p, r, u, q, o, x), Live(o)
    PROVE  Sound("dead", r, <<>>, q, [o EXCEPT !.killed = TRUE, !.wall = "kill"], x)
<1> DEFINE new == [o EXCEPT !.killed = TRUE, !.wall = "kill"]
<1>1. o \in Observations /\ u \in Seq(Lines)
    BY DEF Sound, TypedRacer
<1>2. /\ new \in Observations /\ new.killed /\ new.wall = "kill"
      /\ new.exited = o.exited /\ new.failed = o.failed /\ new.decisive = o.decisive
      /\ new.final = o.final /\ new.budget = o.budget /\ new.pv = o.pv /\ new.evals = o.evals
    BY <1>1 DEF Observations
<1>3. ~o.exited /\ ~o.failed /\ ~x
    BY DEF Sound, Lived, Live
<1> HIDE DEF new
<1>4. TypedRacer("dead", r, <<>>, q, new, x) /\ Lived("dead", r, <<>>, new, x)
    BY <1>2, <1>3, EmptySeq DEF Sound, TypedRacer, Lived, Procs
<1>5. Travelling(<<>>, q) \subseteq Travelling(u, q)
    <2>1. Range(<<>>) = {}
        BY EmptySeq, Members
    <2>2. QED
        BY <2>1 DEF Travelling
<1>6. Honest(r, <<>>, q, new) /\ Complete(r, <<>>, q, new)
    BY <1>2, <1>5 DEF Sound, Honest, Complete
<1>7. QED
    BY <1>4, <1>6 DEF Sound, new

LEMMA LineIs ==
    \A l, m \in Lines : l.stream = m.stream /\ l.text = m.text => l = m
BY DEF Lines

LEMMA PrintSound ==
    ASSUME NEW r, NEW u, NEW q, NEW o, NEW x, Sound("writing", r, u, q, o, x), u # <<>>
    PROVE  Sound("writing", r, Tail(u),
                 [q EXCEPT ![Head(u).stream] = Append(@, Head(u).text)], o, x)
<1> DEFINE line == Head(u)
           st == line.stream
           to == Append(q[st], line.text)
           new == [q EXCEPT ![st] = to]
<1>1. u \in Seq(Lines) /\ q \in [Streams -> Seq(Texts)]
    BY DEF Sound, TypedRacer
<1>2. line \in Lines /\ Tail(u) \in Seq(Lines) /\ Range(u) = {line} \cup Range(Tail(u))
    BY <1>1, Members
<1>3. st \in Streams /\ line.text \in Texts
    BY <1>2 DEF Lines
<1>4. to \in Seq(Texts) /\ Range(to) = Range(q[st]) \cup {line.text}
    BY <1>1, <1>3, Members
<1>5. /\ new \in [Streams -> Seq(Texts)] /\ new[st] = to
      /\ \A t \in Streams \ {st} : new[t] = q[t]
    BY <1>1, <1>3, <1>4
<1> HIDE DEF new, to, st, line
<1>6. Travelling(Tail(u), new) = Travelling(u, q)
    <2>1. ASSUME NEW l \in Lines
          PROVE  l.text \in Range(new[l.stream]) <=> l.text \in Range(q[l.stream]) \/ l = line
        <3>1. l.stream \in Streams
            BY DEF Lines
        <3>2. CASE l.stream = st
            BY <3>2, <1>2, <1>4, <1>5, LineIs DEF st
        <3>3. CASE l.stream # st
            BY <3>1, <3>3, <1>5 DEF st
        <3>4. QED
            BY <3>2, <3>3
    <2>2. {l \in Lines : l.text \in Range(new[l.stream])}
          = {l \in Lines : l.text \in Range(q[l.stream])} \cup {line}
        BY <2>1, <1>2
    <2>3. QED
        BY <1>2, <2>2 DEF Travelling
<1>7. TypedRacer("writing", r, Tail(u), new, o, x) /\ Lived("writing", r, Tail(u), o, x)
    BY <1>2, <1>5 DEF Sound, TypedRacer, Lived
<1>8. Honest(r, Tail(u), new, o) /\ Complete(r, Tail(u), new, o)
    BY <1>6 DEF Sound, Honest, Complete
<1>9. QED
    BY <1>7, <1>8 DEF Sound, new, to, st, line

(* The tracker goes from o to new when it hears text from the stream st.   *)
Hears(o, st, text, new) ==
    /\ new \in Observations
    /\ new.killed = o.killed /\ new.exited = o.exited
    /\ new.failed = o.failed /\ new.wall = o.wall
    /\ new.decisive = IF text \in Decisive /\ o.decisive = None THEN text ELSE o.decisive
    /\ new.final = IF text = "draw" /\ st = "stdout" THEN "draw" ELSE o.final
    /\ new.budget = (o.budget \/ text = "budget exhausted")
    /\ new.evals = (o.evals \/ text = "evals")
    /\ new.pv = (o.pv \/ text = "pv")

LEMMA OnLineHears ==
    ASSUME NEW o \in Observations, NEW st \in Streams, NEW text \in Texts
    PROVE  Hears(o, st, text, OnLine(o, st, text))
<1>1. CASE text \in Decisive
    <2>1. OnLine(o, st, text) = [o EXCEPT !.decisive = IF @ = None THEN text ELSE @]
        BY <1>1 DEF OnLine, Decisive
    <2>2. QED
        BY <1>1, <2>1 DEF Hears, Observations, Decisive, None
<1>2. CASE text = "draw" /\ st = "stdout"
    <2>1. OnLine(o, st, text) = [o EXCEPT !.final = "draw"]
        BY <1>2 DEF OnLine, Decisive
    <2>2. QED
        BY <1>2, <2>1 DEF Hears, Observations, Decisive, None
<1>3. CASE text = "budget exhausted"
    <2>1. OnLine(o, st, text) = [o EXCEPT !.budget = TRUE]
        BY <1>3 DEF OnLine, Decisive
    <2>2. QED
        BY <1>3, <2>1 DEF Hears, Observations, Decisive, None
<1>4. CASE text = "evals"
    <2>1. OnLine(o, st, text) = [o EXCEPT !.evals = TRUE]
        BY <1>4 DEF OnLine, Decisive
    <2>2. QED
        BY <1>4, <2>1 DEF Hears, Observations, Decisive, None
<1>5. CASE text = "pv"
    <2>1. OnLine(o, st, text) = [o EXCEPT !.pv = TRUE]
        BY <1>5 DEF OnLine, Decisive
    <2>2. QED
        BY <1>5, <2>1 DEF Hears, Observations, Decisive, None
<1>6. CASE text = "timeout" \/ (text = "draw" /\ st # "stdout")
    <2>1. OnLine(o, st, text) = o
        BY <1>6 DEF OnLine, Decisive
    <2>2. QED
        BY <1>6, <2>1 DEF Hears, Observations, Decisive, None
<1>7. QED
    BY <1>1, <1>2, <1>3, <1>4, <1>5, <1>6 DEF Texts, Decisive

LEMMA HearSound ==
    ASSUME NEW p, NEW r, NEW u, NEW q, NEW o, NEW x, Sound(p, r, u, q, o, x),
           NEW st \in Streams, q[st] # <<>>
    PROVE  /\ Sound(p, r, u, [q EXCEPT ![st] = Tail(@)], OnLine(o, st, Head(q[st])), x)
           /\ Head(q[st]) \in Texts
           /\ OnLine(o, st, Head(q[st])).killed = o.killed
           /\ OnLine(o, st, Head(q[st])).decisive # None <=>
                  o.decisive # None \/ Head(q[st]) \in Decisive
<1> DEFINE text == Head(q[st])
           l == [stream |-> st, text |-> text]
           rest == [q EXCEPT ![st] = Tail(q[st])]
           new == OnLine(o, st, text)
<1>1. q \in [Streams -> Seq(Texts)] /\ o \in Observations
    BY DEF Sound, TypedRacer
<1>2. /\ text \in Texts /\ Tail(q[st]) \in Seq(Texts)
      /\ Range(q[st]) = {text} \cup Range(Tail(q[st]))
    BY <1>1, Members
<1>3. /\ rest \in [Streams -> Seq(Texts)] /\ rest[st] = Tail(q[st])
      /\ \A t \in Streams \ {st} : rest[t] = q[t]
    BY <1>1, <1>2
<1>4. l \in Lines /\ l.stream = st /\ l.text = text
    BY <1>2 DEF Lines
<1> HIDE DEF rest, new, l, text
<1>5. /\ l \in Travelling(u, q)
      /\ Travelling(u, rest) \subseteq Travelling(u, q)
      /\ Travelling(u, q) \subseteq Travelling(u, rest) \cup {l}
    <2>1. ASSUME NEW m \in Lines
          PROVE  /\ m.text \in Range(rest[m.stream]) => m.text \in Range(q[m.stream])
                 /\ m.text \in Range(q[m.stream]) => m.text \in Range(rest[m.stream]) \/ m = l
        <3>1. m.stream \in Streams
            BY DEF Lines
        <3>2. CASE m.stream = st
            BY <3>2, <1>2, <1>3, <1>4, LineIs
        <3>3. CASE m.stream # st
            BY <3>1, <3>3, <1>3
        <3>4. QED
            BY <3>2, <3>3
    <2>2. l.text \in Range(q[l.stream])
        BY <1>2, <1>4
    <2>3. QED
        BY <1>4, <2>1, <2>2 DEF Travelling
<1>6. r \in Found /\ l \in Scripted(r)
    BY <1>5 DEF Sound, Honest, Scripted
<1>7. /\ text \in Decisive => text = r.outcome
      /\ text = "draw" => st = "stdout"
      /\ text = "budget exhausted" => r.cut = "budget exhausted"
      /\ text = "pv" => r.outcome \in Decisive
    BY <1>4, <1>6, ScriptTells
<1>8. Hears(o, st, text, new)
    BY <1>1, <1>2, OnLineHears DEF new
<1>9. TypedRacer(p, r, u, rest, new, x) /\ Lived(p, r, u, new, x)
    BY <1>3, <1>8 DEF Hears, Sound, TypedRacer, Lived
<1>10. Honest(r, u, rest, new)
    BY <1>5, <1>6, <1>7, <1>8 DEF Hears, Sound, Honest
<1>11. None \notin Decisive
    BY DEF Decisive, None
<1>12. Complete(r, u, rest, new)
    <2>1. Noted(new, l)
        BY <1>4, <1>7, <1>8, <1>11 DEF Hears, Noted
    <2>2. ASSUME NEW m, Noted(o, m) PROVE Noted(new, m)
        BY <2>2, <1>8, <1>11 DEF Hears, Noted
    <2>3. QED
        BY <2>1, <2>2, <1>5, <1>8 DEF Hears, Sound, Complete
<1>13. Sound(p, r, u, rest, new, x)
    BY <1>9, <1>10, <1>12 DEF Sound
<1>14. QED
    BY <1>2, <1>8, <1>11, <1>13 DEF Hears, rest, new, text

-----------------------------------------------------------------------------
(* The steps of the race.                                                  *)

LEMMA LeastOfNats ==
    ASSUME NEW S, S \subseteq Nat, S # {}
    PROVE  (CHOOSE x \in S : \A y \in S : x <= y) \in S
<1>1. PICK m \in S : \A x \in S : ~ (<<x, m>> \in OpToRel(<, Nat))
    BY NatLessThanWellFounded, WFMin
<1>2. \A x \in Nat : x < m => <<x, m>> \in OpToRel(<, Nat)
    BY <1>1 DEF OpToRel
<1>3. ASSUME NEW y \in S PROVE m <= y
    <2>1. ~ (y < m)
        BY <1>1, <1>2
    <2>2. QED
        BY <2>1
<1>4. QED
    BY <1>3

(* Some racers are killed, after q and os became the pipes and what the    *)
(* tracker observed.                                                       *)
LEMMA KillKeeps ==
    ASSUME Typed, NEW q, NEW os, NEW targets \in SUBSET Salts,
           \A x \in Salts : Sound(proc[x], result[x], unwritten[x], q[x], os[x], x \in reported),
           \A x \in targets : Live(os[x]),
           Kill(targets, os), pipe' = q, result' = result, reported' = reported
    PROVE  \A x \in Salts :
              /\ SoundAt(x)'
              /\ obs'[x].killed <=> os[x].killed \/ x \in targets
              /\ obs'[x].decisive = os[x].decisive
              /\ proc'[x] = IF x \in targets THEN "dead" ELSE proc[x]
<1> SUFFICES ASSUME NEW x \in Salts
             PROVE  /\ SoundAt(x)'
                    /\ obs'[x].killed <=> os[x].killed \/ x \in targets
                    /\ obs'[x].decisive = os[x].decisive
                    /\ proc'[x] = IF x \in targets THEN "dead" ELSE proc[x]
    OBVIOUS
<1>1. /\ proc'[x] = IF x \in targets THEN "dead" ELSE proc[x]
      /\ unwritten'[x] = IF x \in targets THEN <<>> ELSE unwritten[x]
      /\ obs'[x] = IF x \in targets THEN [os[x] EXCEPT !.killed = TRUE, !.wall = "kill"] ELSE os[x]
    BY DEF Kill, MarkKilled
<1>2. os[x] \in Observations
    BY DEF Sound, TypedRacer
<1>3. CASE x \in targets
    <2>1. Sound("dead", result[x], <<>>, q[x],
                [os[x] EXCEPT !.killed = TRUE, !.wall = "kill"], x \in reported)
        BY <1>3, KillSound
    <2>2. SoundAt(x)'
        BY <2>1, <1>1, <1>3 DEF SoundAt
    <2>3. QED
        BY <2>2, <1>1, <1>2, <1>3 DEF Observations
<1>4. CASE x \notin targets
    BY <1>1, <1>4 DEF SoundAt
<1>5. QED
    BY <1>3, <1>4

LEMMA SpawnKeeps == RaceInv /\ Spawn => RaceInv'
<1> SUFFICES ASSUME RaceInv, Spawn PROVE RaceInv'
    OBVIOUS
<1> DEFINE unborn == {s \in Salts : proc[s] = "unborn" /\ ~obs[s].failed}
           s == CHOOSE x \in unborn : \A y \in unborn : x <= y
<1>1. /\ pc = "spawn" /\ UNCHANGED <<truth, result, unwritten, pipe, reported, winner, due>>
      /\ \/ unborn # {} /\ proc' = [proc EXCEPT ![s] = "searching"] /\ UNCHANGED <<obs, pc>>
         \/ /\ unborn # {} /\ UNCHANGED <<proc, pc>>
            /\ obs' = [obs EXCEPT ![s].failed = TRUE, ![s].exited = TRUE]
         \/ pc' = "check" /\ UNCHANGED <<proc, obs>>
    BY DEF Spawn
<1>2. unborn # {} => s \in unborn
    <2>1. unborn \subseteq Nat
        BY SaltsAssumption
    <2> HIDE DEF unborn
    <2>2. QED
        BY <2>1, LeastOfNats
<1> HIDE DEF s
<1>3. winner = {}
    BY <1>1 DEF RaceInv, Won
<1>4. CASE unborn # {} /\ proc' = [proc EXCEPT ![s] = "searching"] /\ UNCHANGED <<obs, pc>>
    <2>1. s \in Salts /\ proc[s] = "unborn" /\ ~obs[s].failed
        BY <1>2, <1>4
    <2>2. Typed'
        BY <1>1, <1>4 DEF RaceInv, Typed, Results
    <2>3. proc'[s] = "searching" /\ \A x \in Salts \ {s} : proc'[x] = proc[x]
        BY <1>4, <2>1 DEF RaceInv, Typed
    <2>4. ASSUME NEW x \in Salts PROVE SoundAt(x)'
        <3>1. SoundAt(x) /\ SoundAt(s)
            BY <2>1 DEF RaceInv
        <3>2. CASE x = s
            BY <3>1, <3>2, <1>1, <1>4, <2>1, <2>3, StartSound DEF SoundAt
        <3>3. CASE x # s
            BY <3>1, <3>3, <1>1, <1>4, <2>3 DEF SoundAt
        <3>4. QED
            BY <3>2, <3>3
    <2>5. Won'
        BY <1>1, <1>3, <1>4 DEF RaceInv, Won
    <2>6. QED
        BY <1>1, <1>4, <2>2, <2>4, <2>5 DEF RaceInv
<1>5. CASE unborn # {} /\ obs' = [obs EXCEPT ![s].failed = TRUE, ![s].exited = TRUE]
           /\ UNCHANGED <<proc, pc>>
    <2>1. s \in Salts /\ proc[s] = "unborn" /\ SoundAt(s)
        BY <1>2, <1>5 DEF RaceInv
    <2>2. Typed'
        BY <1>1, <1>5 DEF RaceInv, Typed, Results
    <2>3. obs'[s] = [obs[s] EXCEPT !.failed = TRUE, !.exited = TRUE]
        <3>1. obs[s] \in Observations /\ obs = [x \in Salts |-> obs[x]]
            BY <2>1 DEF SoundAt, Sound, TypedRacer, RaceInv, Typed
        <3>2. QED
            BY <3>1, <2>1, <1>5 DEF Observations
    <2>4. \A x \in Salts \ {s} : obs'[x] = obs[x]
        BY <1>5, <2>1 DEF RaceInv, Typed
    <2>5. ASSUME NEW x \in Salts
          PROVE  SoundAt(x)' /\ obs'[x].decisive = obs[x].decisive /\ obs'[x].killed = obs[x].killed
        <3>1. SoundAt(x)
            BY DEF RaceInv
        <3>2. CASE x = s
            <4>0. Sound("unborn", result[s], unwritten[s], pipe[s],
                        [obs[s] EXCEPT !.failed = TRUE, !.exited = TRUE], s \in reported)
                BY <2>1, FailSound DEF SoundAt
            <4>1. SoundAt(x)'
                BY <4>0, <3>2, <1>1, <1>5, <2>1, <2>3 DEF SoundAt
            <4>2. obs[x] \in Observations
                BY <3>1 DEF SoundAt, Sound, TypedRacer
            <4>3. QED
                BY <4>1, <4>2, <3>2, <2>3 DEF Observations
        <3>3. CASE x # s
            <4>1. SoundAt(x)'
                BY <3>1, <3>3, <1>1, <1>5, <2>4 DEF SoundAt
            <4>2. QED
                BY <4>1, <3>3, <2>4
        <3>4. QED
            BY <3>2, <3>3
    <2>6. Won'
        BY <1>1, <1>3, <1>5, <2>5 DEF RaceInv, Won
    <2>7. QED
        BY <1>1, <1>5, <2>2, <2>5, <2>6 DEF RaceInv
<1>6. CASE pc' = "check" /\ UNCHANGED <<proc, obs>>
    BY <1>1, <1>3, <1>6 DEF RaceInv, Typed, SoundAt, Won, Results
<1>7. QED
    BY <1>1, <1>4, <1>5, <1>6

(* A step of one racer that the driver does not see.                       *)
LEMMA RacerKeeps ==
    ASSUME RaceInv, NEW s \in Salts, proc[s] \in {"searching", "writing"},
           SoundAt(s)', Typed', UNCHANGED <<truth, tracker, due, pc>>,
           \A x \in Salts \ {s} : /\ proc'[x] = proc[x] /\ result'[x] = result[x]
                                  /\ unwritten'[x] = unwritten[x] /\ pipe'[x] = pipe[x],
           proc'[s] # "searching"
    PROVE  RaceInv'
<1>1. ASSUME NEW x \in Salts PROVE SoundAt(x)'
    <2>1. CASE x # s
        BY <2>1 DEF RaceInv, SoundAt, tracker
    <2>2. QED
        BY <2>1
<1>2. Won'
    BY DEF RaceInv, Won, tracker
<1>3. pc # "done"
    BY DEF RaceInv, Disconnected
<1>4. QED
    BY <1>1, <1>2, <1>3 DEF RaceInv

LEMMA EndSearchKeeps ==
    ASSUME RaceInv, NEW s \in Salts, EndSearch(s)
    PROVE  RaceInv'
<1>1. PICK r \in Results :
          /\ proc[s] = "searching"
          /\ proc' = [proc EXCEPT ![s] = "writing"]
          /\ result' = [result EXCEPT ![s] = r]
          /\ unwritten' = [unwritten EXCEPT ![s] = Script(r)]
          /\ UNCHANGED <<truth, pipe, tracker, due, pc>>
    BY DEF EndSearch
<1>2. /\ proc'[s] = "writing" /\ result'[s] = r /\ unwritten'[s] = Script(r)
      /\ \A x \in Salts \ {s} : /\ proc'[x] = proc[x] /\ result'[x] = result[x]
                                /\ unwritten'[x] = unwritten[x] /\ pipe'[x] = pipe[x]
    BY <1>1 DEF RaceInv, Typed
<1>3. r \in Found
    BY ResultsFound DEF RaceInv, Typed
<1>4. SoundAt(s)'
    BY <1>1, <1>2, <1>3, EndSound DEF RaceInv, SoundAt, tracker
<1>5. Results' = Results
    BY <1>1 DEF Results
<1>6. Typed'
    BY <1>1, <1>5 DEF RaceInv, Typed, tracker
<1>7. QED
    BY <1>1, <1>2, <1>4, <1>6, RacerKeeps

LEMMA PrintLineKeeps ==
    ASSUME RaceInv, NEW s \in Salts, PrintLine(s)
    PROVE  RaceInv'
<1> DEFINE line == Head(unwritten[s])
<1>1. /\ proc[s] = "writing" /\ unwritten[s] # <<>>
      /\ pipe' = [pipe EXCEPT ![s][line.stream] = Append(@, line.text)]
      /\ unwritten' = [unwritten EXCEPT ![s] = Tail(@)]
      /\ UNCHANGED <<truth, proc, result, tracker, due, pc>>
    BY DEF PrintLine
<1> HIDE DEF line
<1>2. /\ unwritten'[s] = Tail(unwritten[s])
      /\ pipe'[s] = [pipe[s] EXCEPT ![line.stream] = Append(@, line.text)]
      /\ \A x \in Salts \ {s} : unwritten'[x] = unwritten[x] /\ pipe'[x] = pipe[x]
    BY <1>1 DEF RaceInv, Typed
<1>3. SoundAt(s)'
    <2>1. Sound("writing", result[s], Tail(unwritten[s]),
                [pipe[s] EXCEPT ![line.stream] = Append(@, line.text)], obs[s], s \in reported)
        BY <1>1, PrintSound DEF RaceInv, SoundAt, line
    <2>2. QED
        BY <1>1, <1>2, <2>1 DEF SoundAt, tracker
<1>4. Typed'
    BY <1>1 DEF RaceInv, Typed, tracker, Results
<1>5. QED
    BY <1>1, <1>2, <1>3, <1>4, RacerKeeps

LEMMA ExitKeeps ==
    ASSUME RaceInv, NEW s \in Salts, Exit(s)
    PROVE  RaceInv'
<1>1. /\ proc[s] = "writing" /\ unwritten[s] = <<>>
      /\ proc' = [proc EXCEPT ![s] = "dead"]
      /\ UNCHANGED <<truth, result, unwritten, pipe, tracker, due, pc>>
    BY DEF Exit
<1>2. proc'[s] = "dead" /\ \A x \in Salts \ {s} : proc'[x] = proc[x]
    BY <1>1 DEF RaceInv, Typed
<1>3. SoundAt(s)'
    BY <1>1, <1>2, ExitSound DEF RaceInv, SoundAt, tracker
<1>4. Typed'
    BY <1>1 DEF RaceInv, Typed, tracker, Results
<1>5. QED
    BY <1>1, <1>2, <1>3, <1>4, RacerKeeps

LEMMA CrashKeeps ==
    ASSUME RaceInv, NEW s \in Salts, Crash(s)
    PROVE  RaceInv'
<1>1. /\ proc[s] = "searching" /\ proc' = [proc EXCEPT ![s] = "dead"]
      /\ result' = [result EXCEPT ![s] = Crashed]
      /\ UNCHANGED <<truth, unwritten, pipe, tracker, due, pc>>
    BY DEF Crash
<1>2. /\ proc'[s] = "dead" /\ result'[s] = Crashed
      /\ \A x \in Salts \ {s} : proc'[x] = proc[x] /\ result'[x] = result[x]
    BY <1>1 DEF RaceInv, Typed
<1>3. SoundAt(s)'
    BY <1>1, <1>2, CrashSound DEF RaceInv, SoundAt, tracker
<1>4. Typed'
    BY <1>1 DEF RaceInv, Typed, tracker, Results
<1>5. QED
    BY <1>1, <1>2, <1>3, <1>4, RacerKeeps

LEMMA CheckWallCapKeeps == RaceInv /\ CheckWallCap => RaceInv'
<1> SUFFICES ASSUME RaceInv, CheckWallCap PROVE RaceInv'
    OBVIOUS
<1> DEFINE targets == IF due THEN LiveSaltsExcept(obs, 0) ELSE {}
<1>1. /\ Kill(targets, obs) /\ pc' = "recv"
      /\ UNCHANGED <<truth, result, pipe, reported, winner, due>>
    BY DEF CheckWallCap
<1>2. targets \in SUBSET Salts /\ (\A x \in targets : Live(obs[x])) /\ (targets # {} => due)
    BY DEF LiveSaltsExcept
<1> HIDE DEF targets
<1>3. \A x \in Salts : /\ SoundAt(x)'
                       /\ obs'[x].killed <=> obs[x].killed \/ x \in targets
                       /\ obs'[x].decisive = obs[x].decisive
                       /\ proc'[x] = IF x \in targets THEN "dead" ELSE proc[x]
    BY <1>1, <1>2, KillKeeps DEF RaceInv, SoundAt
<1>4. Typed'
    BY <1>1 DEF RaceInv, Typed, Results, Kill, MarkKilled
<1>5. Won'
    BY <1>1, <1>2, <1>3, <1>4 DEF RaceInv, Won, Typed
<1>6. QED
    BY <1>1, <1>3, <1>4, <1>5 DEF RaceInv

LEMMA ReceiveLineKeeps ==
    ASSUME RaceInv, NEW s \in Salts, NEW st \in Streams, ReceiveLine(s, st)
    PROVE  RaceInv'
<1> DEFINE text == Head(pipe[s][st])
           heard == OnLine(obs[s], st, text)
           os == [obs EXCEPT ![s] = heard]
           first == text \in Decisive /\ winner = {}
           targets == IF first THEN LiveSaltsExcept(os, s) ELSE {}
           rest == [pipe[s] EXCEPT ![st] = Tail(@)]
<1>1. /\ pc = "recv" /\ pipe[s][st] # <<>>
      /\ winner' = IF first THEN {s} ELSE winner
      /\ Kill(targets, os)
      /\ pipe' = [pipe EXCEPT ![s][st] = Tail(@)]
      /\ pc' = "check" /\ UNCHANGED <<truth, result, reported, due>>
    BY DEF ReceiveLine
<1>2. /\ Sound(proc[s], result[s], unwritten[s], rest, heard, s \in reported)
      /\ heard.killed = obs[s].killed
      /\ heard.decisive # None <=> obs[s].decisive # None \/ text \in Decisive
    BY <1>1, HearSound DEF RaceInv, SoundAt
<1> HIDE DEF heard, rest
<1>3. /\ os[s] = heard /\ pipe'[s] = rest
      /\ \A x \in Salts \ {s} : os[x] = obs[x] /\ pipe'[x] = pipe[x]
    BY <1>1 DEF RaceInv, Typed, rest
<1>4. /\ targets \in SUBSET Salts /\ (\A x \in targets : Live(os[x]))
      /\ targets # {} => first
      /\ s \notin targets
    BY DEF LiveSaltsExcept
<1>5. first => \A x \in Salts \ {s} : x \in targets \/ ~Live(os[x])
    BY DEF LiveSaltsExcept
<1> HIDE DEF targets, os, first
<1>6. \A x \in Salts : Sound(proc[x], result[x], unwritten[x], pipe'[x], os[x], x \in reported)
    BY <1>2, <1>3 DEF RaceInv, SoundAt
<1>7. \A x \in Salts : /\ SoundAt(x)'
                       /\ obs'[x].killed <=> os[x].killed \/ x \in targets
                       /\ obs'[x].decisive = os[x].decisive
                       /\ proc'[x] = IF x \in targets THEN "dead" ELSE proc[x]
    BY <1>1, <1>4, <1>6, KillKeeps DEF RaceInv
<1>8. Typed'
    BY <1>1 DEF RaceInv, Typed, Results, Kill, MarkKilled
<1>9. Won'
    <2>1. CASE first
        <3>1. winner = {} /\ winner' = {s} /\ text \in Decisive
            BY <1>1, <2>1 DEF first
        <3>2. ASSUME NEW x \in Salts \ {s} PROVE proc'[x] # "searching"
            <4>1. CASE x \in targets
                BY <4>1, <1>7
            <4>2. CASE ~Live(os[x])
                BY <4>2, <1>4, <1>6, <1>7 DEF Live, Sound, Lived
            <4>3. QED
                BY <4>1, <4>2, <1>5, <2>1
        <3>3. obs'[s].decisive # None
            BY <1>2, <1>3, <1>7, <3>1
        <3>4. obs'[s].killed => due
            BY <1>2, <1>3, <1>4, <1>7, <3>1 DEF RaceInv, Won
        <3>5. QED
            BY <1>1, <1>7, <3>1, <3>2, <3>3, <3>4 DEF Won
    <2>2. CASE ~first
        <3>1. winner' = winner /\ targets = {} /\ (text \in Decisive => winner # {})
            BY <1>1, <1>4, <2>2 DEF first
        <3>2. \A x \in Salts : /\ obs'[x].killed <=> obs[x].killed
                               /\ obs[x].decisive # None => obs'[x].decisive # None
                               /\ obs'[x].decisive # None => winner # {}
                               /\ proc'[x] = proc[x]
            BY <1>2, <1>3, <1>7, <3>1 DEF RaceInv, Won
        <3>3. QED
            BY <1>1, <3>1, <3>2 DEF RaceInv, Won, Typed
    <2>3. QED
        BY <2>1, <2>2
<1>10. QED
    BY <1>1, <1>7, <1>8, <1>9 DEF RaceInv

LEMMA ReceiveExitKeeps ==
    ASSUME RaceInv, NEW s \in Salts, ReceiveExit(s)
    PROVE  RaceInv'
<1>1. /\ proc[s] = "dead" /\ reported' = reported \cup {s}
      /\ obs' = [obs EXCEPT ![s] = OnExit(@)] /\ pc' = "check"
      /\ UNCHANGED <<truth, proc, result, unwritten, pipe, winner, due>>
    BY DEF ReceiveExit, racers
<1>2. obs'[s] = OnExit(obs[s]) /\ \A x \in Salts \ {s} : obs'[x] = obs[x]
    BY <1>1 DEF RaceInv, Typed
<1>3. Sound("dead", result[s], unwritten[s], pipe[s], OnExit(obs[s]), TRUE)
    BY <1>1, SeenSound DEF RaceInv, SoundAt
<1>4. ASSUME NEW x \in Salts PROVE SoundAt(x)'
    <2>1. CASE x = s
        BY <2>1, <1>1, <1>2, <1>3 DEF SoundAt
    <2>2. CASE x # s
        <3>1. x \in reported' <=> x \in reported
            BY <1>1, <2>2
        <3>2. Sound(proc[x], result[x], unwritten[x], pipe[x], obs[x], x \in reported')
            BY <3>1 DEF RaceInv, SoundAt
        <3>3. QED
            BY <3>2, <1>1, <1>2, <2>2 DEF SoundAt
    <2>3. QED
        BY <2>1, <2>2
<1>5. obs[s] \in Observations
    BY DEF RaceInv, SoundAt, Sound, TypedRacer
<1>6. \A x \in Salts : obs'[x].killed = obs[x].killed /\ obs'[x].decisive = obs[x].decisive
    <2>1. OnExit(obs[s]).killed = obs[s].killed /\ OnExit(obs[s]).decisive = obs[s].decisive
        BY <1>5 DEF OnExit, Observations
    <2>2. QED
        BY <1>2, <2>1
<1>7. Typed'
    BY <1>1 DEF RaceInv, Typed, Results
<1>8. Won'
    BY <1>1, <1>6 DEF RaceInv, Won, Typed
<1>9. QED
    BY <1>1, <1>4, <1>7, <1>8 DEF RaceInv

(* The rest of the driver and the clock.                                   *)
LEMMA OthersKeep ==
    ASSUME RaceInv, RecvTimeout \/ EndRace \/ CapPasses \/ UNCHANGED vars
    PROVE  RaceInv'
<1>1. /\ UNCHANGED <<truth, proc, result, unwritten, pipe, reported, obs, winner>>
      /\ due' \in BOOLEAN /\ (due => due')
      /\ pc' \in {"spawn", "check", "recv", "done"}
      /\ pc # "spawn" => pc' # "spawn"
      /\ pc' = "done" => pc = "done" \/ Disconnected
    BY DEF RaceInv, Typed, RecvTimeout, EndRace, CapPasses, vars, racers, tracker
<1>2. Typed'
    BY <1>1 DEF RaceInv, Typed, Results
<1>3. \A x \in Salts : SoundAt(x)'
    BY <1>1 DEF RaceInv, SoundAt
<1>4. Won'
    BY <1>1 DEF RaceInv, Won
<1>5. pc' = "done" => Disconnected'
    BY <1>1 DEF RaceInv, Disconnected
<1>6. QED
    BY <1>2, <1>3, <1>4, <1>5 DEF RaceInv

-----------------------------------------------------------------------------
(* The invariant.                                                          *)

LEMMA FreshSound == Sound("unborn", NoResult, <<>>, [st \in Streams |-> <<>>], NewObs, FALSE)
<1> DEFINE q == [st \in Streams |-> <<>>]
<1>1. /\ <<>> \in Seq(Lines) /\ Range(<<>>) = {}
      /\ q \in [Streams -> Seq(Texts)] /\ \A st \in Streams : Range(q[st]) = {}
    BY EmptySeq, Members
<1>2. Travelling(<<>>, q) = {}
    BY <1>1 DEF Travelling, Lines
<1> HIDE DEF q
<1>3. NewObs \in Observations
    BY DEF NewObs, Observations, None
<1>4. QED
    BY <1>1, <1>2, <1>3, NotFound
       DEF Sound, TypedRacer, Lived, Honest, Complete, NewObs, Scripted, Procs, q, None

(* The race starts with nobody born, nothing said and nothing recorded.    *)
THEOREM InitEstablishesInv == Init => RaceInv
<1> SUFFICES ASSUME Init PROVE RaceInv
    OBVIOUS
<1>1. ASSUME NEW x \in Salts PROVE SoundAt(x)
    <2>1. /\ proc[x] = "unborn" /\ result[x] = NoResult /\ unwritten[x] = <<>>
          /\ pipe[x] = [st \in Streams |-> <<>>] /\ obs[x] = NewObs
          /\ (x \in reported) = FALSE
        BY DEF Init
    <2>2. QED
        BY <2>1, FreshSound DEF SoundAt
<1>2. Typed
    BY DEF Init, Typed
<1>3. Won
    BY DEF Init, Won, NewObs, None
<1>4. QED
    BY <1>1, <1>2, <1>3 DEF RaceInv, Init

(* Whatever step is taken, by a racer, the driver or the clock.            *)
THEOREM StepKeepsInv == RaceInv /\ [Next]_vars => RaceInv'
<1> SUFFICES ASSUME RaceInv, [Next]_vars PROVE RaceInv'
    OBVIOUS
<1>1. CASE Driver
    BY <1>1, SpawnKeeps, CheckWallCapKeeps, ReceiveLineKeeps, ReceiveExitKeeps, OthersKeep
       DEF Driver, Receive
<1>2. ASSUME NEW s \in Salts, Racer(s) PROVE RaceInv'
    BY <1>2, EndSearchKeeps, PrintLineKeeps, ExitKeeps, CrashKeeps DEF Racer
<1>3. CASE CapPasses \/ Over \/ UNCHANGED vars
    BY <1>3, OthersKeep DEF Over
<1>4. QED
    BY <1>1, <1>2, <1>3 DEF Next

(* In every state of every race.                                           *)
THEOREM InvAlways == Spec => []RaceInv
BY InitEstablishesInv, StepKeepsInv, PTL DEF Spec

-----------------------------------------------------------------------------
(* What it gives.                                                          *)

(* Nothing a racer printed is on its way once the race is over.            *)
LEMMA AllNoted ==
    ASSUME RaceInv, NEW s \in Salts, Alone(s)
    PROVE  result[s] \in Found /\ \A l \in Scripted(result[s]) : Noted(obs[s], l)
<1>1. SoundAt(s) /\ proc[s] = "dead" /\ ~obs[s].killed /\ result[s] # Crashed /\ pc = "done"
    BY DEF RaceInv, Alone, Ended
<1>2. result[s] \in Found /\ unwritten[s] = <<>>
    BY <1>1 DEF SoundAt, Sound, TypedRacer, Lived
<1>3. \A st \in Streams : pipe[s][st] = <<>>
    BY <1>1 DEF RaceInv, Disconnected
<1>4. Travelling(unwritten[s], pipe[s]) = {}
    <2>1. Range(<<>>) = {}
        BY EmptySeq, Members
    <2>2. \A l \in Lines : l.stream \in Streams
        BY DEF Lines
    <2>3. QED
        BY <1>2, <1>3, <2>1, <2>2 DEF Travelling
<1>5. QED
    BY <1>1, <1>2, <1>4 DEF SoundAt, Sound, Complete

LEMMA AloneObserved ==
    ASSUME RaceInv, NEW s \in Salts, Alone(s)
    PROVE  /\ obs[s].evals /\ obs[s].wall = "exit" /\ ~obs[s].failed /\ ~obs[s].killed
           /\ obs[s].decisive = IF result[s].outcome \in Decisive THEN result[s].outcome ELSE None
           /\ result[s].outcome = "draw" => obs[s].final = "draw"
           /\ obs[s].budget <=> result[s].cut = "budget exhausted"
           /\ obs[s].pv <=> result[s].outcome \in Decisive
           /\ obs[s].budget \in BOOLEAN /\ obs[s].pv \in BOOLEAN
           /\ result[s].outcome \in Decisive => result[s].cut = None
           /\ result[s].outcome \in Decisive \cup {"draw"}
<1> DEFINE r == result[s]
           o == obs[s]
<1>1. r \in Found /\ \A l \in Scripted(r) : Noted(o, l)
    BY AllNoted
<1>2. /\ o \in Observations /\ ~o.killed /\ ~o.failed /\ o.wall = "exit"
      /\ o.decisive # None => o.decisive = r.outcome
      /\ o.budget => r.cut = "budget exhausted"
      /\ o.pv => r.outcome \in Decisive
    <2>1. SoundAt(s) /\ proc[s] = "dead" /\ ~o.killed /\ pc = "done"
        BY DEF RaceInv, Alone, Ended
    <2>2. s \in reported
        BY <2>1 DEF RaceInv, Disconnected
    <2>3. QED
        BY <2>1, <2>2 DEF SoundAt, Sound, TypedRacer, Lived, Honest
<1>3. r.outcome \in Decisive \cup {"draw"} /\ (r.outcome \in Decisive => r.cut = None)
    BY <1>1 DEF Found
<1> HIDE DEF r, o
<1>4. /\ [stream |-> "stderr", text |-> "evals"] \in Scripted(r)
      /\ [stream |-> "stdout", text |-> r.outcome] \in Scripted(r)
      /\ r.outcome \in Decisive => [stream |-> "stdout", text |-> "pv"] \in Scripted(r)
      /\ r.cut = "budget exhausted" => [stream |-> "stdout", text |-> r.cut] \in Scripted(r)
    BY <1>1, ScriptLines DEF None
<1>5. /\ o.evals
      /\ r.outcome \in Decisive => o.decisive # None /\ o.pv
      /\ r.outcome = "draw" => o.final = "draw"
      /\ r.cut = "budget exhausted" => o.budget
    BY <1>1, <1>4 DEF Noted
<1>6. o.budget \in BOOLEAN /\ o.pv \in BOOLEAN
    BY <1>2 DEF Observations
<1>7. None \notin Decisive
    BY DEF None, Decisive
<1>8. o.decisive = IF r.outcome \in Decisive THEN r.outcome ELSE None
    <2>1. CASE r.outcome \in Decisive
        BY <2>1, <1>2, <1>5
    <2>2. CASE r.outcome \notin Decisive
        <3>1. o.decisive \in Decisive \cup {None}
            BY <1>2 DEF Observations
        <3>2. QED
            BY <2>2, <3>1, <1>2
    <2>3. QED
        BY <2>1, <2>2
<1>9. QED
    BY <1>2, <1>3, <1>5, <1>6, <1>8 DEF r, o

(* What is printed for a racer.                                            *)
LEMMA RecordOf ==
    ASSUME NEW o \in Observations, ~o.failed
    PROVE  /\ Record(o).wall = o.wall
           /\ o.decisive # None =>
                  /\ Record(o).outcome = o.decisive /\ Record(o).censored = FALSE
           /\ o.decisive = None /\ o.killed /\ ~o.budget => Record(o).outcome = "killed"
           /\ o.decisive = None /\ o.budget =>
                  Record(o).outcome = "draw" /\ Record(o).censored = TRUE
           /\ o.decisive = None /\ ~o.budget /\ ~o.killed /\ o.final # None =>
                  Record(o).outcome = o.final /\ Record(o).censored = FALSE
           /\ ~o.killed /\ o.evals => Record(o).evals
<1>1. Record(o).wall = o.wall /\ (~o.killed /\ o.evals => Record(o).evals)
    BY DEF Record
<1>2. CASE o.decisive # None
    BY <1>1, <1>2 DEF Record
<1>3. CASE o.decisive = None /\ o.killed /\ ~o.budget
    BY <1>1, <1>3 DEF Record
<1>4. CASE o.decisive = None /\ o.budget
    BY <1>1, <1>4 DEF Record
<1>5. CASE o.decisive = None /\ ~o.budget /\ ~o.killed
    BY <1>1, <1>5 DEF Record
<1>6. QED
    BY <1>1, <1>2, <1>3, <1>4, <1>5

LEMMA InvImpliesRecordsTrue == RaceInv => RecordsTrue
<1> SUFFICES ASSUME RaceInv PROVE RecordsTrue
    OBVIOUS
<1>1. RecordsFaithful
    <2> SUFFICES ASSUME NEW s \in Salts, Alone(s)
                 PROVE  /\ Record(obs[s]).outcome = result[s].outcome
                        /\ Record(obs[s]).censored <=> result[s].cut = "budget exhausted"
                        /\ Record(obs[s]).evals
                        /\ obs[s].pv <=> result[s].outcome \in Decisive
                        /\ Record(obs[s]).wall = "exit"
        BY DEF RecordsFaithful
    <2>1. /\ obs[s].evals /\ obs[s].wall = "exit" /\ ~obs[s].failed /\ ~obs[s].killed
          /\ obs[s].decisive = IF result[s].outcome \in Decisive THEN result[s].outcome ELSE None
          /\ result[s].outcome = "draw" => obs[s].final = "draw"
          /\ obs[s].budget <=> result[s].cut = "budget exhausted"
          /\ obs[s].pv <=> result[s].outcome \in Decisive
          /\ obs[s].budget \in BOOLEAN /\ obs[s].pv \in BOOLEAN
          /\ result[s].outcome \in Decisive => result[s].cut = None
          /\ result[s].outcome \in Decisive \cup {"draw"}
        BY AloneObserved
    <2>2. obs[s] \in Observations
        BY DEF RaceInv, SoundAt, Sound, TypedRacer
    <2>3. obs[s].pv <=> result[s].outcome \in Decisive
        BY <2>1
    <2>4. Record(obs[s]).evals /\ Record(obs[s]).wall = "exit"
        BY <2>1, <2>2, RecordOf
    <2>5. CASE result[s].outcome \in Decisive
        <3>1. obs[s].decisive # None /\ obs[s].decisive = result[s].outcome
            BY <2>1, <2>5 DEF Decisive, None
        <3>2. Record(obs[s]).outcome = result[s].outcome /\ Record(obs[s]).censored = FALSE
            BY <2>1, <2>2, <3>1, RecordOf
        <3>3. result[s].cut # "budget exhausted"
            BY <2>1, <2>5 DEF None
        <3>4. QED
            BY <2>3, <2>4, <3>2, <3>3
    <2>6. CASE result[s].outcome = "draw"
        <3>1. obs[s].decisive = None /\ obs[s].final = "draw" /\ obs[s].final # None
            BY <2>1, <2>6 DEF Decisive, None
        <3>2. CASE obs[s].budget
            <4>1. Record(obs[s]).outcome = "draw" /\ Record(obs[s]).censored = TRUE
                BY <2>1, <2>2, <3>1, <3>2, RecordOf
            <4>2. QED
                BY <2>1, <2>3, <2>4, <2>6, <3>2, <4>1
        <3>3. CASE ~obs[s].budget
            <4>1. Record(obs[s]).outcome = "draw" /\ Record(obs[s]).censored = FALSE
                BY <2>1, <2>2, <3>1, <3>3, RecordOf
            <4>2. QED
                BY <2>1, <2>3, <2>4, <2>6, <3>3, <4>1
        <3>4. QED
            BY <3>2, <3>3
    <2>7. QED
        BY <2>1, <2>5, <2>6
<1>2. BudgetNeverProves
    <2> SUFFICES ASSUME NEW s \in Salts, Ended(s), result[s].cut = "budget exhausted"
                 PROVE  ~(Record(obs[s]).outcome = "draw" /\ ~Record(obs[s]).censored)
        BY DEF BudgetNeverProves
    <2>1. SoundAt(s) /\ proc[s] = "dead"
        BY DEF RaceInv, Ended
    <2>2. result[s] \in Found /\ result[s] # Crashed
        <3>1. Crashed.cut = "none" /\ NoResult.cut = "none"
            BY DEF Crashed, NoResult, None
        <3>2. result[s] \in Found \cup {Crashed, NoResult}
            BY <2>1 DEF SoundAt, Sound, TypedRacer
        <3>3. QED
            BY <3>1, <3>2, NotFound
    <2>3. result[s].outcome = "draw"
        BY <2>2 DEF Found, None
    <2>4. obs[s] \in Observations /\ ~obs[s].failed /\ obs[s].decisive = None
        BY <2>1, <2>3 DEF SoundAt, Sound, TypedRacer, Lived, Honest, Observations, Decisive, None
    <2>5. CASE obs[s].budget
        BY <2>4, <2>5, RecordOf
    <2>6. CASE ~obs[s].budget
        <3>1. obs[s].killed
            BY <2>2, <2>6, AloneObserved DEF Alone
        <3>2. QED
            BY <2>4, <2>6, <3>1, RecordOf
    <2>7. QED
        BY <2>5, <2>6
<1>3. QED
    BY <1>1, <1>2 DEF RecordsTrue

LEMMA InvImpliesOneWinner == RaceInv => OneWinner
<1> SUFFICES ASSUME RaceInv PROVE OneWinner
    OBVIOUS
<1>1. TypeOK
    <2>1. Cardinality(winner) <= 1
        <3>1. CASE winner = {}
            BY <3>1, FS_EmptySet
        <3>2. ASSUME NEW w \in winner PROVE Cardinality(winner) <= 1
            <4>1. winner = {w}
                BY <3>2 DEF RaceInv, Won
            <4>2. QED
                BY <4>1, FS_Singleton
        <3>3. QED
            BY <3>1, <3>2
    <2>2. proc \in [Salts -> {"unborn", "searching", "writing", "dead"}]
        <3>1. \A s \in Salts : proc[s] \in Procs
            BY DEF RaceInv, SoundAt, Sound, TypedRacer
        <3>2. proc = [s \in Salts |-> proc[s]]
            BY DEF RaceInv, Typed
        <3>3. QED
            BY <3>1, <3>2 DEF Procs
    <2>3. QED
        BY <2>1, <2>2 DEF TypeOK, RaceInv, Typed, Won
<1>2. WinnerRunsAlone
    <2>1. \A s \in Salts : obs[s].killed => obs[s].wall = "kill"
        BY DEF RaceInv, SoundAt, Sound, Lived
    <2>2. ASSUME NEW w \in winner PROVE obs[w].killed => due
        BY <2>2 DEF RaceInv, Typed, Won
    <2>3. ASSUME NEW w \in winner, NEW s \in Salts \ {w} PROVE proc[s] # "searching"
        BY <2>3 DEF RaceInv, Typed, Won
    <2>4. QED
        BY <2>1, <2>2, <2>3 DEF WinnerRunsAlone
<1>3. DecidedRace
    <2>1. ASSUME NEW s \in Salts, Alone(s), result[s].outcome \in Decisive PROVE winner # {}
        <3>1. obs[s].decisive # None
            BY <2>1, AloneObserved DEF Decisive, None
        <3>2. QED
            BY <3>1 DEF RaceInv, Won
    <2>2. ASSUME NEW w \in winner PROVE Record(obs[w]).outcome = truth
        <3>1. w \in Salts /\ obs[w].decisive # None /\ SoundAt(w)
            BY <2>2 DEF RaceInv, Typed, Won
        <3>2. /\ result[w] \in Found /\ obs[w].decisive = result[w].outcome
              /\ obs[w] \in Observations /\ result[w] # NoResult
            BY <3>1, NotFound DEF SoundAt, Sound, TypedRacer, Honest
        <3>3. ~obs[w].failed
            BY <3>1, <3>2 DEF SoundAt, Sound, Lived
        <3>4. result[w].outcome \in Decisive
            BY <3>1, <3>2 DEF Observations
        <3>5. result[w] \in Results
            BY <3>1, <3>2, NotFound DEF RaceInv, Typed
        <3>6. result[w].outcome = truth
            BY <3>4, <3>5, ResultsFound DEF RaceInv, Typed
        <3>7. QED
            BY <3>1, <3>2, <3>3, <3>6, RecordOf
    <2>3. QED
        BY <2>1, <2>2 DEF DecidedRace
<1>4. QED
    BY <1>1, <1>2, <1>3 DEF OneWinner

(* Whatever the number of racers, their crashes and kills and the order in *)
(* which lines and exits are received: the record of a racer says neither  *)
(* more nor, when nobody killed it, less than the racer printed.           *)
THEOREM RecordsAlwaysTrue == Spec => []RecordsTrue
BY InvAlways, InvImpliesRecordsTrue, PTL

(* The first racer heard to be decisive is the only winner and has the     *)
(* right answer, all others stop searching, and it is stopped by nothing   *)
(* but the wall cap (portfolio.rs on_line, on_exit, mark_killed).          *)
THEOREM OneWinnerAlways == Spec => []OneWinner
BY InvAlways, InvImpliesOneWinner, PTL
=============================================================================
