------------------------- MODULE AgentSessionProofs -------------------------
(***************************************************************************)
(* Proofs about AgentSession, for any number of texts, any backends and    *)
(* any environments: TurnsTrue, part by part.                              *)
(*                                                                         *)
(* Typed strengthens TypeOK by the lines on the wire and what the fields   *)
(* of a call are at each point, and Awaited says that a request waits no   *)
(* longer than its call.  Fresh says that a turn is begun once, and Said   *)
(* that every line, parked event and report of an end tells what the turn  *)
(* came to.  Alone is about ACP agents, whose updates name no turn: as     *)
(* long as nothing is muted, the one turn that may still end is the        *)
(* latest.  Served follows the mode from the user's text to the agent, by  *)
(* way of the adapter and of the requests and answers under way.           *)
(***************************************************************************)
EXTENDS AgentSession, SequenceTheorems, TLAPS

StdinLine  == [what : {"set_mode", "start", "prompt", "interrupt", "reply"}, turn : Turns, data : Modes]
StdoutLine == [what   : {"answer", "end", "question"},
               method : {"none", "set_mode", "start", "interrupt", "prompt"},
               turn   : Turns,
               data   : {"ok", "error", "end_turn", "other", "cancelled", "approval", "unknown", "elicit"}]
Parked     == [turn : TurnRef, how : {"complete", "aborted"}]
Thread     == [machine : {"IDLE", "RUNNING", "INTERRUPTING"}, active : TurnRef, held : TurnRef,
               muted : TurnRef, latest : TurnRef, routed : SUBSET Turns, preparing : BOOLEAN,
               parked : Seq(Parked)]
AgentTurn  == [state : {"none", "working", "asking", "ended"}, mode : Modes,
               how   : {"none", "cancelled", "end_turn", "other", "error"},
               asks  : {"none", "approval", "unknown", "elicit"}]

\* The lines under way; what holds of every two of them.
Lines(q)      == {q[i] : i \in 1 .. Len(q)}
Pairwise(q, R) == \A i, j \in 1 .. Len(q) : i < j => <<q[i], q[j]>> \in R

\* The types, part by part.
Wire ==
    /\ link \in {"open", "dead", "closed"}
    /\ pending \subseteq {"set_mode", "start", "interrupt", "prompt"} \X Turns
    /\ stdin \in Seq(StdinLine) /\ stdout \in Seq(StdoutLine)
    /\ link # "open" => stdin = <<>>
    /\ link = "closed" => stdout = <<>>

Calls ==
    /\ call \in [pc : {"idle", "mode", "mode_sent", "start", "mode_again", "started"}, turn : TurnRef]
    /\ stop \in [pc : {"idle", "asked", "told"}, turn : TurnRef]
    /\ call.pc # "idle" => call.turn \in Turns
    /\ stop.pc # "idle" => stop.turn \in Turns

Runtime ==
    /\ thread \in Thread
    /\ asked \subseteq Turns
    /\ wanted \in [Turns -> Modes]
    /\ reported \in [Turns -> {"none", "complete", "aborted"}]

Outer ==
    /\ kind \in Kinds /\ env \in Envs
    /\ adapter \in [mode : Modes, current : TurnRef, finished : BOOLEAN]
    /\ agent \in [Turns -> AgentTurn]
    /\ agentMode \in Modes

Typed == Wire /\ Calls /\ Runtime /\ Outer

\* The line begins its turn; no turn is begun by two lines.
Begins1(l)  == l.what \in {"start", "prompt"}
BegunOnce   == {p \in StdinLine \X StdinLine : Begins1(p[1]) /\ Begins1(p[2]) => p[1].turn # p[2].turn}

\* The calls had the turn begun.
Called(t) == t <= call.turn /\ (t = call.turn => call.pc \in {"idle", "started"})

Fresh ==
    /\ Pairwise(stdin, BegunOnce)
    /\ \A l \in Lines(stdin) : Begins1(l) => agent[l.turn].state = "none" /\ Called(l.turn)
    /\ \A t \in Turns : agent[t].state # "none" => Called(t)

\* The turn came to this end.
Came(t, how) == agent[t].state = "ended" /\ (how = "aborted" <=> agent[t].how = "cancelled")

\* The line tells of an end; an ACP agent tells of each end by one update.
Tells(l)  == l.what = "end" \/ (l.what = "answer" /\ l.method = "prompt")
EndedOnce == {p \in StdoutLine \X StdoutLine : p[1].what = "end" /\ p[2].what = "end" => p[1].turn # p[2].turn}

\* Only the ends of an ACP agent are parked without the name of the turn.
ParkedTrue ==
    \A e \in Lines(thread.parked) :
        IF kind = "acp" THEN e.turn = NoTurn ELSE e.turn # NoTurn /\ Came(e.turn, e.how)

Said ==
    /\ Pairwise(stdout, EndedOnce)
    /\ \A l \in Lines(stdout) : Tells(l) => agent[l.turn].state = "ended" /\ agent[l.turn].how = l.data
    /\ ParkedTrue
    /\ EndsTrue

\* The turn may still end.
Live(t) ==
    \/ agent[t].state \in {"working", "asking"}
    \/ \E l \in Lines(stdin) : Begins1(l) /\ l.turn = t
    \/ \E l \in Lines(stdout) : l.what = "end" /\ l.turn = t

Alone ==
    kind = "acp" /\ thread.muted = NoTurn =>
    /\ thread.held = NoTurn /\ thread.parked = <<>>
    /\ \A t \in Turns : Live(t) => thread.latest = t /\ thread.machine # "IDLE" /\ call.pc = "idle"

\* A request waits while its call does.
Awaited ==
    \A t \in Turns :
        /\ <<"set_mode", t>> \in pending => t = call.turn /\ call.pc \in {"mode_sent", "mode_again"}
        /\ <<"start", t>> \in pending => t = call.turn /\ call.pc = "started"
        /\ <<"interrupt", t>> \in pending => t = stop.turn /\ stop.pc = "asked"

\* Requests for a mode, and the answers to them.
SetsMode(l)   == l.what = "set_mode"
ModeAnswer(l) == l.what = "answer" /\ l.method = "set_mode"

\* No two requests or answers for a mode are under way, and no prompt is behind one.
OneRequest == {p \in StdinLine \X StdinLine : SetsMode(p[1]) => ~ SetsMode(p[2]) /\ p[2].what # "prompt"}
OneAnswer  == {p \in StdoutLine \X StdoutLine : ~ (ModeAnswer(p[1]) /\ ModeAnswer(p[2]))}

\* The mode of the text is known to the adapter, then to the agent.
AdapterServed ==
    /\ link # "closed" =>
        adapter.mode = IF call.pc \in {"idle", "mode"} THEN "code" ELSE wanted[call.turn]
    /\ call.pc = "mode" => wanted[call.turn] = "plan"

InServed ==
    /\ Pairwise(stdin, OneRequest)
    /\ \A l \in Lines(stdin) :
        /\ l.what = "start" => l.data = wanted[l.turn]
        /\ l.what = "prompt" => agentMode = wanted[l.turn]
        /\ SetsMode(l) => /\ call.pc \in {"mode_sent", "mode_again"} /\ l.data = adapter.mode
                          /\ \A m \in Lines(stdout) : ~ ModeAnswer(m)

OutServed ==
    /\ Pairwise(stdout, OneAnswer)
    /\ \A l \in Lines(stdout) :
        /\ ModeAnswer(l) => call.pc \in {"mode_sent", "mode_again"} /\ agentMode = adapter.mode
        /\ l.what = "answer" /\ l.method \in {"set_mode", "start"} => l.data = "ok"

Served ==
    Without({"refuse", "slow"}) =>
    /\ \A t \in Turns : agent[t].state # "none" => agent[t].mode = wanted[t]
    /\ AdapterServed /\ InServed /\ OutServed

IInv == Typed /\ Fresh /\ Said /\ Alone /\ Awaited /\ Served

-----------------------------------------------------------------------------
(* Lines that are appended and taken. *)

\* The lines of a queue are of its kind.
LEMMA LinesType ==
    ASSUME NEW S, NEW q \in Seq(S)
    PROVE  Lines(q) \subseteq S /\ (Lines(q) = {} <=> q = <<>>)
<1>1. Len(q) \in Nat /\ (Len(q) = 0 <=> q = <<>>) BY EmptySeq, LenProperties
<1>2. \A i \in 1 .. Len(q) : q[i] \in S BY ElementOfSeq
<1>3. q # <<>> => 1 \in 1 .. Len(q) BY <1>1
<1>4. q = <<>> => Lines(q) = {} BY <1>1 DEF Lines
<1>5. q # <<>> => q[1] \in Lines(q) BY <1>3 DEF Lines
<1>6. Lines(q) \subseteq S BY <1>2 DEF Lines
<1> QED BY <1>4, <1>5, <1>6

\* Appending a line adds it, behind all others.
LEMMA LinesAppend ==
    ASSUME NEW S, NEW q \in Seq(S), NEW x \in S
    PROVE  /\ Append(q, x) \in Seq(S)
           /\ Lines(Append(q, x)) = Lines(q) \cup {x}
           /\ \A R : Pairwise(q, R) /\ (\A y \in Lines(q) : <<y, x>> \in R) => Pairwise(Append(q, x), R)
<1> DEFINE a == Append(q, x)
<1>0. Len(q) \in Nat BY LenProperties
<1>1. a \in Seq(S) /\ Len(a) = Len(q) + 1 BY AppendProperties
<1>2. (\A i \in 1 .. Len(q) : a[i] = q[i]) /\ a[Len(q) + 1] = x BY AppendProperties
<1> HIDE DEF a
<1>3. Lines(a) = Lines(q) \cup {x} BY <1>0, <1>1, <1>2 DEF Lines
<1>4. ASSUME NEW R, Pairwise(q, R), \A y \in Lines(q) : <<y, x>> \in R PROVE Pairwise(a, R)
  <2> SUFFICES ASSUME NEW i \in 1 .. Len(a), NEW j \in 1 .. Len(a), i < j PROVE <<a[i], a[j]>> \in R
    BY DEF Pairwise
  <2>1. i \in 1 .. Len(q) /\ a[i] = q[i] /\ q[i] \in Lines(q) BY <1>0, <1>1, <1>2 DEF Lines
  <2>2. CASE j = Len(q) + 1 BY <1>2, <1>4, <2>1, <2>2
  <2>3. CASE j # Len(q) + 1
    <3>1. j \in 1 .. Len(q) /\ a[j] = q[j] BY <1>0, <1>1, <1>2, <2>3
    <3> QED BY <1>4, <2>1, <3>1 DEF Pairwise
  <2> QED BY <2>2, <2>3
<1> QED BY <1>1, <1>3, <1>4 DEF a

\* Taking a line leaves the others, which were behind it.
LEMMA LinesTail ==
    ASSUME NEW S, NEW q \in Seq(S), q # <<>>
    PROVE  /\ Head(q) \in S /\ Tail(q) \in Seq(S)
           /\ Lines(q) = Lines(Tail(q)) \cup {Head(q)}
           /\ \A R : Pairwise(q, R) => Pairwise(Tail(q), R) /\ \A y \in Lines(Tail(q)) : <<Head(q), y>> \in R
<1> DEFINE r == Tail(q)
<1>0. Len(q) \in Nat /\ Len(q) # 0 BY EmptySeq, LenProperties
<1>1. Head(q) = q[1] /\ Head(q) \in S /\ r \in Seq(S) /\ Len(r) = Len(q) - 1
  BY <1>0, HeadTailProperties, ElementOfSeq
<1>2. \A i \in 1 .. Len(r) : r[i] = q[i + 1] BY <1>1, HeadTailProperties
<1> HIDE DEF r
<1>3. \A i \in 1 .. Len(r) : i + 1 \in 1 .. Len(q) BY <1>0, <1>1
<1>4. \A i \in 1 .. Len(q) : i = 1 \/ (i - 1 \in 1 .. Len(r) /\ r[i - 1] = q[i]) BY <1>0, <1>1, <1>2
<1>5. 1 \in 1 .. Len(q) BY <1>0
<1>6. Lines(q) = Lines(r) \cup {Head(q)} BY <1>1, <1>2, <1>3, <1>4, <1>5 DEF Lines
<1>7. ASSUME NEW R, Pairwise(q, R) PROVE Pairwise(r, R)
  BY <1>0, <1>1, <1>2, <1>3, <1>7 DEF Pairwise
<1>8. ASSUME NEW R, Pairwise(q, R), NEW y \in Lines(r) PROVE <<Head(q), y>> \in R
  <2>1. PICK i \in 1 .. Len(r) : y = r[i] BY DEF Lines
  <2>2. i + 1 \in 1 .. Len(q) /\ q[i + 1] = y /\ 1 < i + 1 BY <1>0, <1>1, <1>2, <1>3, <2>1
  <2> QED BY <1>1, <1>5, <1>8, <2>2 DEF Pairwise
<1> QED BY <1>1, <1>6, <1>7, <1>8 DEF r

\* Lines said together come in their order behind those before.
LEMMA LinesConcat ==
    ASSUME NEW S, NEW q \in Seq(S), NEW r \in Seq(S)
    PROVE  /\ q \o r \in Seq(S)
           /\ Lines(q \o r) = Lines(q) \cup Lines(r)
           /\ \A R : Pairwise(q, R) /\ Pairwise(r, R) /\ (\A x \in Lines(q), y \in Lines(r) : <<x, y>> \in R)
                     => Pairwise(q \o r, R)
<1> DEFINE c == q \o r
<1>0. Len(q) \in Nat /\ Len(r) \in Nat BY LenProperties
<1>1. c \in Seq(S) /\ Len(c) = Len(q) + Len(r) BY ConcatProperties
<1>2. \A i \in 1 .. Len(c) : c[i] = IF i <= Len(q) THEN q[i] ELSE r[i - Len(q)] BY <1>1, ConcatProperties
<1> HIDE DEF c
<1>3. \A i \in 1 .. Len(c) : \/ i \in 1 .. Len(q) /\ c[i] = q[i] /\ c[i] \in Lines(q)
                             \/ i - Len(q) \in 1 .. Len(r) /\ c[i] = r[i - Len(q)] /\ c[i] \in Lines(r)
  BY <1>0, <1>1, <1>2 DEF Lines
<1>4. \A i \in 1 .. Len(q) : i \in 1 .. Len(c) /\ c[i] = q[i] BY <1>0, <1>1, <1>2
<1>5. \A i \in 1 .. Len(r) : i + Len(q) \in 1 .. Len(c) /\ c[i + Len(q)] = r[i] BY <1>0, <1>1, <1>2
<1>6. Lines(c) = Lines(q) \cup Lines(r)
  <2>1. Lines(c) \subseteq Lines(q) \cup Lines(r) BY <1>3 DEF Lines
  <2>2. Lines(q) \subseteq Lines(c) BY <1>4 DEF Lines
  <2>3. Lines(r) \subseteq Lines(c)
    <3> SUFFICES ASSUME NEW i \in 1 .. Len(r) PROVE r[i] \in Lines(c)
      BY DEF Lines
    <3>1. i + Len(q) \in 1 .. Len(c) /\ c[i + Len(q)] = r[i] BY <1>5
    <3> QED BY <3>1 DEF Lines
  <2> QED BY <2>1, <2>2, <2>3
<1>7. ASSUME NEW R, Pairwise(q, R), Pairwise(r, R), \A x \in Lines(q), y \in Lines(r) : <<x, y>> \in R
      PROVE  Pairwise(c, R)
  <2> SUFFICES ASSUME NEW i \in 1 .. Len(c), NEW j \in 1 .. Len(c), i < j PROVE <<c[i], c[j]>> \in R
    BY DEF Pairwise
  <2>1. CASE j \in 1 .. Len(q)
    <3>1. i \in 1 .. Len(q) BY <1>0, <2>1
    <3> QED BY <1>4, <1>7, <2>1, <3>1 DEF Pairwise
  <2>2. CASE j \notin 1 .. Len(q) /\ i \in 1 .. Len(q) BY <1>3, <1>4, <1>7, <2>2 DEF Lines
  <2>3. CASE j \notin 1 .. Len(q) /\ i \notin 1 .. Len(q)
    <3>1. /\ i - Len(q) \in 1 .. Len(r) /\ c[i] = r[i - Len(q)]
          /\ j - Len(q) \in 1 .. Len(r) /\ c[j] = r[j - Len(q)]
          /\ i - Len(q) < j - Len(q)
      BY <1>0, <1>1, <1>3, <2>3
    <3> QED BY <1>7, <3>1 DEF Pairwise
  <2> QED BY <2>1, <2>2, <2>3
<1> QED BY <1>1, <1>6, <1>7 DEF c

\* Nothing, one line and two lines.
LEMMA LinesFew ==
    /\ Lines(<<>>) = {} /\ \A R : Pairwise(<<>>, R)
    /\ \A x : Lines(<<x>>) = {x} /\ \A R : Pairwise(<<x>>, R)
    /\ \A x, y : Lines(<<x, y>>) = {x, y} /\ \A R : <<x, y>> \in R => Pairwise(<<x, y>>, R)
<1>1. Lines(<<>>) = {} /\ \A R : Pairwise(<<>>, R) BY DEF Lines, Pairwise
<1>2. \A x : Lines(<<x>>) = {x} /\ \A R : Pairwise(<<x>>, R) BY DEF Lines, Pairwise
<1>3. ASSUME NEW x, NEW y PROVE Lines(<<x, y>>) = {x, y} /\ \A R : <<x, y>> \in R => Pairwise(<<x, y>>, R)
  <2>1. Len(<<x, y>>) = 2 /\ <<x, y>>[1] = x /\ <<x, y>>[2] = y OBVIOUS
  <2>2. 1 .. 2 = {1, 2} OBVIOUS
  <2>3. Lines(<<x, y>>) = {x, y} BY <2>1, <2>2 DEF Lines
  <2>4. ASSUME NEW R, <<x, y>> \in R PROVE Pairwise(<<x, y>>, R)
    <3> SUFFICES ASSUME NEW i \in {1, 2}, NEW j \in {1, 2}, i < j PROVE <<<<x, y>>[i], <<x, y>>[j]>> \in R
      BY <2>1, <2>2 DEF Pairwise
    <3>1. i = 1 /\ j = 2 OBVIOUS
    <3> QED BY <2>4, <3>1
  <2> QED BY <2>3, <2>4
<1> QED BY <1>1, <1>2, <1>3

-----------------------------------------------------------------------------
(* What the steps' common parts do. *)

\* Every line under way is of its kind.
LEMMA LinesIn ==
    ASSUME Wire
    PROVE  Lines(stdin) \subseteq StdinLine /\ Lines(stdout) \subseteq StdoutLine
BY LinesType DEF Wire

\* A line written is the last one, or lost with a dead process.
LEMMA Writing ==
    ASSUME Wire, NEW line \in StdinLine, Write(line)
    PROVE  /\ stdin' \in Seq(StdinLine)
           /\ Lines(stdin) \subseteq Lines(stdin') /\ Lines(stdin') \subseteq Lines(stdin) \cup {line}
           /\ link # "open" => stdin' = stdin
           /\ \A R : Pairwise(stdin, R) /\ (\A y \in Lines(stdin) : <<y, line>> \in R) => Pairwise(stdin', R)
<1> USE DEF Wire
<1>1. CASE link = "open"
  <2>1. stdin' = Append(stdin, line) BY <1>1 DEF Write
  <2> QED BY <1>1, <2>1, LinesAppend
<1>2. CASE link # "open"
  <2>1. stdin' = stdin BY <1>2 DEF Write
  <2> QED BY <1>2, <2>1
<1> QED BY <1>1, <1>2

\* A request is written and waits.
LEMMA Requesting ==
    ASSUME Wire, NEW m \in {"set_mode", "start", "interrupt"}, NEW t \in Turns, NEW mode \in Modes,
           Request(m, t, mode)
    PROVE  /\ Wire' /\ link # "closed" /\ UNCHANGED <<link, stdout>>
           /\ pending' = pending \cup {<<m, t>>}
           /\ Write([what |-> m, turn |-> t, data |-> mode])
           /\ [what |-> m, turn |-> t, data |-> mode] \in StdinLine
<1>1. [what |-> m, turn |-> t, data |-> mode] \in StdinLine BY DEF StdinLine
<1>2. Write([what |-> m, turn |-> t, data |-> mode]) BY DEF Request
<1>3. stdin' \in Seq(StdinLine) /\ (link # "open" => stdin' = stdin) BY <1>1, <1>2, Writing
<1>4. link # "closed" /\ UNCHANGED <<link, stdout>> /\ pending' = pending \cup {<<m, t>>} BY DEF Request
<1> QED BY <1>1, <1>2, <1>3, <1>4 DEF Wire

\* What the agent reads was the first line.
LEMMA Reading ==
    ASSUME Wire, stdin # <<>>, stdin' = Tail(stdin)
    PROVE  /\ Head(stdin) \in StdinLine /\ Head(stdin) \in Lines(stdin)
           /\ stdin' \in Seq(StdinLine) /\ Lines(stdin') \subseteq Lines(stdin)
           /\ \A R : Pairwise(stdin, R) =>
                Pairwise(stdin', R) /\ \A y \in Lines(stdin') : <<Head(stdin), y>> \in R
BY LinesTail DEF Wire

\* What the transport takes was the first line.
LEMMA Taking ==
    ASSUME Wire, NEW what, Take(what)
    PROVE  /\ link # "closed" /\ UNCHANGED <<kind, env, link>> /\ ~ ToReplay
           /\ stdout # <<>> /\ stdout' = Tail(stdout) /\ Head(stdout).what = what
           /\ Head(stdout) \in StdoutLine /\ Head(stdout) \in Lines(stdout)
           /\ stdout' \in Seq(StdoutLine) /\ Lines(stdout') \subseteq Lines(stdout)
           /\ \A R : Pairwise(stdout, R) =>
                Pairwise(stdout', R) /\ \A y \in Lines(stdout') : <<Head(stdout), y>> \in R
<1>1. /\ link # "closed" /\ UNCHANGED <<kind, env, link>> /\ ~ ToReplay
      /\ stdout # <<>> /\ stdout' = Tail(stdout) /\ Head(stdout).what = what BY DEF Take
<1> QED BY <1>1, LinesTail DEF Wire

\* What is said follows what was said.
LEMMA Saying ==
    ASSUME Wire, NEW lines \in Seq(StdoutLine), Say(lines)
    PROVE  /\ UNCHANGED <<kind, env, link, pending, adapter, lifecycle>>
           /\ stdout' \in Seq(StdoutLine)
           /\ Lines(stdout') = Lines(stdout) \cup Lines(lines)
           /\ \A R : /\ Pairwise(stdout, R) /\ Pairwise(lines, R)
                     /\ \A x \in Lines(stdout), y \in Lines(lines) : <<x, y>> \in R
                     => Pairwise(stdout', R)
<1>1. UNCHANGED <<kind, env, link, pending, adapter, lifecycle>> /\ stdout' = stdout \o lines BY DEF Say
<1> QED BY <1>1, LinesConcat DEF Wire

\* How a turn came to its end.
Hows == {"cancelled", "end_turn", "other", "error"}

\* What the agent says of an end.
LEMMA EndSaid ==
    ASSUME NEW t \in Turns, NEW how \in Hows, NEW end \in EndLines(t, how)
    PROVE  /\ end \in Seq(StdoutLine)
           /\ Pairwise(end, EndedOnce) /\ Pairwise(end, OneAnswer)
           /\ \A l \in Lines(end) : /\ l.turn = t /\ l.data = how /\ Tells(l) /\ ~ ModeAnswer(l)
                                    /\ l.what = "answer" => l.method = "prompt"
<1> DEFINE u == Line("end", "none", t, how)
           a == Line("answer", "prompt", t, how)
<1>1. u \in StdoutLine /\ u.what = "end" /\ u.turn = t /\ u.data = how /\ Tells(u) /\ ~ ModeAnswer(u)
  BY DEF Line, StdoutLine, Hows, Tells, ModeAnswer
<1>2. /\ a \in StdoutLine /\ a.what = "answer" /\ a.turn = t /\ a.data = how /\ Tells(a) /\ ~ ModeAnswer(a)
      /\ a.method = "prompt"
  BY DEF Line, StdoutLine, Hows, Tells, ModeAnswer
<1>3. end \in {<<u>>, <<a>>, <<u, a>>, <<a, u>>} BY Zenon DEF EndLines
<1> HIDE DEF u, a
<1>4. <<u, a>> \in EndedOnce /\ <<a, u>> \in EndedOnce BY <1>1, <1>2 DEF EndedOnce
<1>5. <<u, a>> \in OneAnswer /\ <<a, u>> \in OneAnswer BY <1>1, <1>2 DEF OneAnswer
<1>6. /\ Lines(end) \subseteq {u, a}
      /\ Pairwise(end, EndedOnce) /\ Pairwise(end, OneAnswer)
  BY <1>3, <1>4, <1>5, LinesFew
<1>7. end \in Seq(StdoutLine)
  <2>1. <<u>> \in Seq(StdoutLine) /\ <<a>> \in Seq(StdoutLine) BY <1>1, <1>2
  <2>2. <<u, a>> \in Seq(StdoutLine) /\ <<a, u>> \in Seq(StdoutLine) BY <1>1, <1>2
  <2> QED BY <1>3, <2>1, <2>2
<1> QED BY <1>1, <1>2, <1>6, <1>7

-----------------------------------------------------------------------------
(* Types. *)

\* The types of the parts are those of TypeOK.
LEMMA TypesHold == Typed => TypeOK
BY DEF Typed, Wire, Calls, Runtime, Outer, Thread, TypeOK

\* Taking a line keeps the types of what the transport has.
LEMMA WireTaken ==
    ASSUME Wire, NEW what, Take(what), pending' \subseteq pending \cup ({"prompt"} \X Turns),
           stdin' \in Seq(StdinLine), link # "open" => stdin' = stdin
    PROVE  Wire'
BY Taking DEF Wire

\* Saying lines keeps the types of all but the agent's turns.
LEMMA WireSaid ==
    ASSUME Wire, link = "open", stdin' \in Seq(StdinLine), NEW lines \in Seq(StdoutLine), Say(lines)
    PROVE  Wire' /\ Calls' = Calls /\ Runtime' = Runtime /\ UNCHANGED <<kind, env, adapter>>
<1>1. UNCHANGED <<link, pending>> /\ stdout' \in Seq(StdoutLine) BY Saying
<1>2. UNCHANGED <<kind, env, adapter, lifecycle>> BY DEF Say
<1>3. Wire' BY <1>1 DEF Wire
<1>4. Calls' = Calls /\ Runtime' = Runtime BY <1>2 DEF lifecycle, Calls, Runtime
<1> QED BY <1>2, <1>3, <1>4

\* The thread after an end.
LEMMA EndedThread ==
    ASSUME NEW r \in Thread, NEW t \in Turns, NEW how \in {"complete", "aborted"}
    PROVE  Ended(r, t, how) \in Thread /\ Ended(r, t, how).parked = r.parked
<1> DEFINE f == [r EXCEPT !.routed = @ \ {t}, !.latest = IF @ = t THEN NoTurn ELSE @]
<1>1. f \in Thread /\ f.parked = r.parked /\ f.held = r.held BY DEF Thread, TurnRef
<1>2. CASE how = "complete" /\ r.muted # t
  <2>1. Ended(r, t, how) = [f EXCEPT !.machine = IF @ = "RUNNING" THEN "IDLE" ELSE @, !.active = NoTurn]
    BY <1>2, Zenon DEF Ended
  <2> HIDE DEF f
  <2> QED BY <1>1, <2>1 DEF Thread, TurnRef
<1>3. CASE ~ (how = "complete" /\ r.muted # t)
  <2>1. Ended(r, t, how) = [f EXCEPT !.machine = IF r.held = t /\ @ = "INTERRUPTING" THEN "IDLE" ELSE @,
                                     !.held = IF @ = t THEN NoTurn ELSE @, !.muted = NoTurn]
    BY <1>3, Zenon DEF Ended
  <2> HIDE DEF f
  <2> QED BY <1>1, <2>1 DEF Thread, TurnRef
<1> QED BY <1>2, <1>3

\* The end of a turn, and whose it is taken for.
LEMMA Handling ==
    ASSUME Runtime, NEW th \in Thread, NEW id \in TurnRef, NEW how \in {"complete", "aborted"},
           HandleEnd(th, id, how)
    PROVE  /\ thread' \in Thread /\ thread'.parked = th.parked
           /\ reported' \in [Turns -> {"none", "complete", "aborted"}]
           /\ \/ UNCHANGED reported
              \/ \E t \in Turns : /\ IF id = NoTurn THEN t = th.latest /\ thread.muted = NoTurn ELSE t = id
                                  /\ reported[t] = "none" /\ reported' = [reported EXCEPT ![t] = how]
<1> DEFINE r == Routed(th, id)
           t == IF id = NoTurn THEN r.latest ELSE id
<1>1. r \in Thread /\ r.parked = th.parked /\ (id = NoTurn => r = th)
  BY DEF Routed, Thread, TurnRef
<1>2. t \in TurnRef BY <1>1 DEF Thread
<1> HIDE DEF r
<1>3. CASE t = NoTurn \/ IsTurnSuppressed(id) \/ reported[t] # "none"
  <2>1. thread' = r /\ UNCHANGED reported BY <1>3, Zenon DEF HandleEnd, r
  <2> QED BY <1>1, <2>1 DEF Runtime
<1>4. CASE ~ (t = NoTurn \/ IsTurnSuppressed(id) \/ reported[t] # "none")
  <2>1. thread' = Ended(r, t, how) /\ reported' = [reported EXCEPT ![t] = how] BY <1>4, Zenon DEF HandleEnd, r
  <2>2. t \in Turns BY <1>2, <1>4 DEF TurnRef
  <2>3. Ended(r, t, how) \in Thread /\ Ended(r, t, how).parked = r.parked BY <1>1, <2>2, EndedThread
  <2>4. id = NoTurn => t = th.latest /\ thread.muted = NoTurn BY <1>1, <1>4 DEF IsTurnSuppressed
  <2>5. reported' \in [Turns -> {"none", "complete", "aborted"}] BY <2>1 DEF Runtime
  <2> QED BY <1>1, <1>4, <2>1, <2>2, <2>3, <2>4, <2>5
<1> QED BY <1>3, <1>4

\* An event that is parked keeps its kind.
LEMMA Notifying ==
    ASSUME Runtime, NEW id \in TurnRef, NEW how \in {"complete", "aborted"}, Notify(id, how)
    PROVE  /\ thread' \in Thread
           /\ reported' \in [Turns -> {"none", "complete", "aborted"}]
           /\ \/ /\ thread.preparing /\ thread.latest = NoTurn /\ UNCHANGED reported
                 /\ thread' = [thread EXCEPT !.parked = Append(@, [turn |-> id, how |-> how])]
              \/ thread'.parked = thread.parked /\ HandleEnd(thread, id, how)
<1>0. thread \in Thread BY DEF Runtime
<1>1. CASE thread.preparing /\ thread.latest = NoTurn
  <2>1. /\ thread' = [thread EXCEPT !.parked = Append(@, [turn |-> id, how |-> how])] 
        /\ UNCHANGED reported
    BY <1>1 DEF Notify
  <2>2. [turn |-> id, how |-> how] \in Parked BY DEF Parked
  <2>3. thread.parked \in Seq(Parked) BY <1>0 DEF Thread
  <2>4. Append(thread.parked, [turn |-> id, how |-> how]) \in Seq(Parked) BY <2>2, <2>3, LinesAppend
  <2>5. thread' \in Thread BY <1>0, <2>1, <2>4 DEF Thread
  <2> QED BY <1>1, <2>1, <2>5 DEF Runtime
<1>2. CASE ~ (thread.preparing /\ thread.latest = NoTurn)
  <2>1. HandleEnd(thread, id, how) BY <1>2, Zenon DEF Notify
  <2> QED BY <1>0, <2>1, Handling
<1> QED BY <1>1, <1>2

\* The end an adapter may forward, and what it is told as.
Sort(stopReason) == IF stopReason = "cancelled" THEN "aborted" ELSE "complete"

\* An adapter forwards an end, or drops it, and leaves its mode alone.
LEMMA Forwarding ==
    ASSUME Runtime, Outer, NEW id \in TurnRef, NEW how, Forward(id, how)
    PROVE  /\ adapter' \in [mode : Modes, current : TurnRef, finished : BOOLEAN] /\ adapter'.mode = adapter.mode
           /\ \/ UNCHANGED <<adapter, thread, reported>>
              \/ how \in {"end_turn", "cancelled"} /\ Notify(id, Sort(how))
<1>1. CASE how \notin {"end_turn", "cancelled"} \/ ShouldSuppress(id)
  <2>1. UNCHANGED <<adapter, thread, reported>> BY <1>1, Zenon DEF Forward
  <2> QED BY <2>1 DEF Outer
<1>2. CASE ~ (how \notin {"end_turn", "cancelled"} \/ ShouldSuppress(id))
  <2>1. adapter' = [adapter EXCEPT !.current = IF id = NoTurn THEN @ ELSE id, !.finished = TRUE]
    BY <1>2, Zenon DEF Forward
  <2>2. Notify(id, Sort(how)) BY <1>2, Zenon DEF Forward, Sort
  <2>3. adapter' \in [mode : Modes, current : TurnRef, finished : BOOLEAN] /\ adapter'.mode = adapter.mode
    BY <2>1 DEF Outer
  <2> QED BY <1>2, <2>2, <2>3
<1> QED BY <1>1, <1>2

\* The ends the runtime is told of, by the line that tells it.
Ending(id, how) ==
    \/ UNCHANGED <<thread, reported>>
    \/ (kind = "codex" \/ how \in {"end_turn", "cancelled"}) /\ Notify(id, Sort(how))

\* What the event runtime makes of the two lines that end a turn.
LEMMA EndTaken ==
    ASSUME Typed, EndArrives
    PROVE  /\ Ending(IF kind = "codex" THEN Head(stdout).turn ELSE NoTurn, Head(stdout).data)
           /\ kind = "opencode" => UNCHANGED <<thread, reported>>
           /\ adapter' \in [mode : Modes, current : TurnRef, finished : BOOLEAN] /\ adapter'.mode = adapter.mode
<1>0. Runtime /\ Outer BY DEF Typed
<1>1. CASE kind = "codex"
  <2>1. TurnCompleted BY <1>1, Zenon DEF EndArrives, Acp
  <2> QED BY <1>0, <1>1, <2>1 DEF TurnCompleted, Sort, Ending, Outer
<1>2. CASE kind # "codex"
  <2>1. PromptResponse BY <1>2, Zenon DEF EndArrives, Acp
  <2>2. CASE kind = "opencode"
    <3>1. UNCHANGED <<adapter, thread, reported>> BY <2>1, <2>2 DEF PromptResponse
    <3> QED BY <1>0, <1>2, <3>1 DEF Ending, Outer
  <2>3. CASE kind # "opencode"
    <3>1. Forward(NoTurn, Head(stdout).data) BY <2>1, <2>3, Zenon DEF PromptResponse
    <3>2. NoTurn \in TurnRef BY DEF TurnRef
    <3> QED BY <1>0, <1>2, <2>3, <3>1, <3>2, Forwarding DEF Ending
  <2> QED BY <2>2, <2>3
<1> QED BY <1>1, <1>2

\* What it makes of the answer to a prompt.
LEMMA AnswerTaken ==
    ASSUME Typed, PromptAnswered
    PROVE  /\ Ending(Head(stdout).turn, Head(stdout).data)
           /\ kind # "opencode" => UNCHANGED <<thread, reported>>
           /\ adapter' \in [mode : Modes, current : TurnRef, finished : BOOLEAN] /\ adapter'.mode = adapter.mode
<1>0. Runtime /\ Outer /\ Wire BY DEF Typed
<1>1. PromptComplete(Head(stdout).turn, Head(stdout).data) BY DEF PromptAnswered
<1>2. Take("answer") BY DEF PromptAnswered, AnswerTo
<1>3. Head(stdout) \in StdoutLine BY <1>0, <1>2, Taking
<1>4. Head(stdout).turn \in TurnRef BY <1>3 DEF StdoutLine, TurnRef
<1>5. CASE kind = "opencode"
  <2>1. Forward(Head(stdout).turn, Head(stdout).data) BY <1>1, <1>5 DEF PromptComplete
  <2> QED BY <1>0, <1>4, <1>5, <2>1, Forwarding DEF Ending
<1>6. CASE kind # "opencode"
  <2>1. UNCHANGED <<adapter, thread, reported>> BY <1>1, <1>6 DEF PromptComplete
  <2> QED BY <1>0, <1>6, <2>1 DEF Ending, Outer
<1> QED BY <1>5, <1>6

\* The types hold after an end was told.
LEMMA EndingTyped ==
    ASSUME Runtime, NEW id \in TurnRef, NEW how, Ending(id, how)
    PROVE  thread' \in Thread /\ reported' \in [Turns -> {"none", "complete", "aborted"}]
<1>1. Sort(how) \in {"complete", "aborted"} BY DEF Sort
<1> QED BY <1>1, Notifying DEF Ending, Runtime

\* The parts a step leaves alone stay of their types.
LEMMA Kept ==
    /\ Wire /\ UNCHANGED transport => Wire'
    /\ Calls /\ UNCHANGED <<call, stop>> => Calls'
    /\ Runtime /\ UNCHANGED <<thread, asked, wanted, reported>> => Runtime'
    /\ Outer /\ UNCHANGED <<kind, env, adapter, outside>> => Outer'
BY DEF transport, outside, Wire, Calls, Runtime, Outer

\* The types hold after what the lifecycle does.
LEMMA TypedStart ==
    ASSUME Typed, (\E mode \in Modes : SendTurn(mode)) \/ SetMode \/ TurnStart
    PROVE  Typed'
<1> USE DEF Typed
<1>0. Wire /\ Calls /\ Runtime /\ Outer OBVIOUS
<1>1. ASSUME NEW mode \in Modes, SendTurn(mode) PROVE Typed'
  <2> USE <1>1 DEF SendTurn
  <2>1. Wire' /\ Outer' BY Kept
  <2>2. call.turn + 1 \in Turns
    BY AgentSessionAssumption DEF Calls, Turns, TurnRef, NoTurn
  <2>3. Calls' BY <2>2 DEF Calls, TurnRef
  <2>4. Runtime' BY <2>2 DEF Runtime
  <2> QED BY <2>1, <2>3, <2>4
<1>2. CASE SetMode
  <2> USE <1>2 DEF SetMode
  <2>1. Runtime' BY Kept
  <2>2. Outer' BY DEF Outer, Modes, outside
  <2>3. call.turn \in Turns /\ "plan" \in Modes BY DEF Calls, Modes
  <2>4. Calls' /\ Wire'
    <3>1. CASE ~ Acp
      <4>1. call' = [call EXCEPT !.pc = "start"] /\ UNCHANGED transport BY <3>1
      <4> QED BY <2>3, <4>1, Kept DEF Calls
    <3>2. CASE Acp /\ Request("set_mode", call.turn, "plan") /\ call' = [call EXCEPT !.pc = "mode_sent"]
      BY <2>3, <3>2, Requesting DEF Calls
    <3>3. CASE Acp /\ link = "closed" /\ CallFails /\ UNCHANGED transport
      BY <2>3, <3>3, Kept DEF Calls, CallFails
    <3> QED BY <3>1, <3>2, <3>3
  <2> QED BY <2>1, <2>2, <2>4
<1>3. CASE TurnStart
  <2> USE <1>3 DEF TurnStart
  <2>1. Runtime' BY DEF Runtime, Thread
  <2>2. Outer' BY Kept
  <2>3. call.turn \in Turns /\ adapter.mode \in Modes BY DEF Calls, Outer
  <2>4. Calls' /\ Wire'
    <3>1. CASE /\ Request(IF Acp THEN "set_mode" ELSE "start", call.turn, adapter.mode)
               /\ call' = [call EXCEPT !.pc = IF Acp THEN "mode_again" ELSE "started"]
      <4>1. Wire'
        <5>1. CASE Acp BY <2>3, <3>1, <5>1, Requesting
        <5>2. CASE ~ Acp BY <2>3, <3>1, <5>2, Requesting
        <5> QED BY <5>1, <5>2
      <4>2. Calls' BY <2>3, <3>1 DEF Calls
      <4> QED BY <4>1, <4>2
    <3>2. CASE link = "closed" /\ CallFails /\ UNCHANGED transport
      BY <2>3, <3>2, Kept DEF Calls, CallFails
    <3> QED BY <3>1, <3>2
  <2> QED BY <2>1, <2>2, <2>4
<1> QED BY <1>1, <1>2, <1>3

\* The types hold after a line was read by the program.
LEMMA TypedReceived ==
    ASSUME Typed, Awaited, Received
    PROVE  Typed'
<1> USE DEF Typed
<1>0. Wire /\ Calls /\ Runtime /\ Outer OBVIOUS
<1> DEFINE l == Head(stdout)
<1>w. ASSUME NEW what, Take(what), pending' \subseteq pending \cup ({"prompt"} \X Turns), UNCHANGED stdin
      PROVE  Wire' /\ l \in StdoutLine /\ UNCHANGED <<kind, env>>
  <2>1. stdin' \in Seq(StdinLine) /\ (link # "open" => stdin' = stdin) BY <1>w DEF Wire
  <2>2. Wire' BY <1>w, <2>1, WireTaken
  <2> QED BY <1>w, <2>2, Taking
<1>1. CASE ModeSet
  <2> USE <1>1 DEF ModeSet, AnswerTo, Settled
  <2>1. Wire' /\ UNCHANGED <<kind, env>> BY <1>w
  <2>2. Calls' BY DEF Calls
  <2>3. Runtime' /\ Outer' BY <2>1, Kept
  <2> QED BY <2>1, <2>2, <2>3
<1>2. CASE Prompt
  <2> USE <1>2 DEF Prompt, AnswerTo
  <2>1. call.turn \in Turns BY DEF Calls
  <2>2. [what |-> "prompt", turn |-> call.turn, data |-> "code"] \in StdinLine BY <2>1 DEF StdinLine, Modes
  <2>3. stdin' \in Seq(StdinLine) /\ (link # "open" => stdin' = stdin) BY <2>2, Writing
  <2>4. Wire' /\ UNCHANGED <<kind, env>>
    <3>1. pending' \subseteq pending \cup ({"prompt"} \X Turns) BY <2>1
    <3> QED BY <2>3, <3>1, WireTaken, Taking
  <2>5. Calls' BY <2>1 DEF Calls
  <2>6. Runtime' BY <2>1 DEF Runtime, Activated, Thread, TurnRef
  <2>7. Outer' BY <2>1, <2>4 DEF Outer, TurnRef, Modes, outside
  <2> QED BY <2>4, <2>5, <2>6, <2>7
<1>3. CASE Started
  <2> USE <1>3 DEF Started, AnswerTo, Settled
  <2>1. Wire' /\ l \in StdoutLine /\ UNCHANGED <<kind, env>> BY <1>w
  <2>2. Calls' BY DEF Calls
  <2>3. Outer' BY <2>1 DEF Outer, Modes, outside
  <2>4. Runtime'
    <3>1. call.turn \in Turns BY <2>1 DEF Awaited, StdoutLine, Calls
    <3> QED BY <3>1 DEF Runtime, Activated, Thread, TurnRef
  <2> QED BY <2>1, <2>2, <2>3, <2>4
<1>4. CASE Refused
  <2> USE <1>4 DEF Refused, AnswerTo, Settled
  <2>1. Wire' /\ UNCHANGED <<kind, env>> BY <1>w
  <2>2. Calls' BY DEF Calls, CallFails
  <2>3. Runtime' /\ Outer' BY <2>1, Kept
  <2> QED BY <2>1, <2>2, <2>3
<1>5. CASE InterruptAnswered
  <2> USE <1>5 DEF InterruptAnswered, AnswerTo
  <2>1. Wire' /\ UNCHANGED <<kind, env>> BY <1>w
  <2>2. stop.pc = "asked" BY <1>w DEF Awaited, StdoutLine
  <2>3. Calls' BY <2>2 DEF Calls
  <2>4. Runtime' /\ Outer' BY <2>1, Kept
  <2> QED BY <2>1, <2>3, <2>4
<1>6. CASE PromptAnswered
  <2>0. /\ Take("answer") /\ pending' = pending \ {<<"prompt", l.turn>>} /\ UNCHANGED stdin
        /\ UNCHANGED <<call, stop, asked, wanted, outside>>
    BY <1>6 DEF PromptAnswered, AnswerTo
  <2>1. Wire' /\ l \in StdoutLine /\ UNCHANGED <<kind, env>> BY <1>w, <2>0
  <2>2. Calls' BY <2>0, Kept
  <2>3. l.turn \in TurnRef BY <2>1 DEF StdoutLine, TurnRef
  <2>4. Runtime' BY <1>6, <2>0, <2>3, AnswerTaken, EndingTyped DEF Runtime
  <2>5. Outer' BY <1>6, <2>0, <2>1, AnswerTaken DEF Outer, outside
  <2> QED BY <2>1, <2>2, <2>4, <2>5
<1>7. CASE Unawaited
  <2> USE <1>7 DEF Unawaited, lifecycle
  <2>1. Wire' /\ UNCHANGED <<kind, env>> BY <1>w
  <2>2. Calls' /\ Runtime' /\ Outer' BY <2>1, Kept
  <2> QED BY <2>1, <2>2
<1>8. CASE EndArrives
  <2>0. Take("end") /\ UNCHANGED <<pending, stdin, call, stop, asked, wanted, outside>>
    BY <1>8 DEF EndArrives
  <2>1. Wire' /\ l \in StdoutLine /\ UNCHANGED <<kind, env>> BY <1>w, <2>0
  <2>2. Calls' BY <2>0, Kept
  <2>3. (IF kind = "codex" THEN l.turn ELSE NoTurn) \in TurnRef BY <2>1 DEF StdoutLine, TurnRef
  <2>4. Runtime' BY <1>8, <2>0, <2>3, EndTaken, EndingTyped DEF Runtime
  <2>5. Outer' BY <1>8, <2>0, <2>1, EndTaken DEF Outer, outside
  <2> QED BY <2>1, <2>2, <2>4, <2>5
<1>9. CASE Question
  <2>0. Take("question") /\ UNCHANGED <<pending, adapter, call, stop, thread, wanted, reported, outside>>
    BY <1>9 DEF Question
  <2>1. l \in StdoutLine /\ UNCHANGED <<kind, env>> BY <2>0, Taking
  <2>2. l.turn \in Turns BY <2>1 DEF StdoutLine
  <2>3. Wire' /\ asked' \subseteq Turns
    <3>1. CASE l.data = "unknown"
      <4>1. Write([what |-> "reply", turn |-> l.turn, data |-> "code"]) /\ UNCHANGED asked
        BY <1>9, <3>1 DEF Question
      <4>2. [what |-> "reply", turn |-> l.turn, data |-> "code"] \in StdinLine BY <2>2 DEF StdinLine, Modes
      <4>3. stdin' \in Seq(StdinLine) /\ (link # "open" => stdin' = stdin) BY <4>1, <4>2, Writing
      <4> QED BY <2>0, <4>1, <4>3, WireTaken DEF Runtime
    <3>2. CASE l.data # "unknown"
      <4>1. UNCHANGED stdin /\ asked' = Shown(l.turn) BY <1>9, <3>2 DEF Question
      <4>2. Wire' BY <1>w, <2>0, <4>1
      <4> QED BY <2>2, <4>1, <4>2 DEF Shown, Runtime
    <3> QED BY <3>1, <3>2
  <2>4. Calls' /\ Outer' BY <2>0, <2>1, Kept
  <2>5. Runtime' BY <2>0, <2>3 DEF Runtime
  <2> QED BY <2>3, <2>4, <2>5
<1> QED BY <1>1, <1>2, <1>3, <1>4, <1>5, <1>6, <1>7, <1>8, <1>9 DEF Received

\* The types hold after the runtime's own steps and those of a user.
LEMMA TypedRest ==
    ASSUME Typed, Replay \/ Interrupt \/ Interrupted \/ InterruptTimeout \/ ChildClosed \/ Close
                  \/ (\E t \in Turns : Respond(t)
                                       \/ \E m \in {"set_mode", "start", "interrupt", "prompt"} : Timeout(<<m, t>>))
    PROVE  Typed'
<1> USE DEF Typed
<1>0. Wire /\ Calls /\ Runtime /\ Outer OBVIOUS
<1>1. CASE Replay
  <2> DEFINE e == Head(thread.parked)
             th == [thread EXCEPT !.parked = Tail(@)]
  <2>1. thread.parked \in Seq(Parked) /\ thread.parked # <<>> BY <1>1 DEF Replay, ToReplay, Runtime, Thread
  <2>2. e \in Parked /\ Tail(thread.parked) \in Seq(Parked) BY <2>1, LinesTail
  <2>3. e.turn \in TurnRef /\ e.how \in {"complete", "aborted"} BY <2>2 DEF Parked
  <2>4. th \in Thread BY <2>2 DEF Runtime, Thread
  <2>5. /\ HandleEnd(th, e.turn, e.how)
        /\ UNCHANGED <<kind, env, transport, adapter, call, stop, asked, wanted, outside>>
    BY <1>1 DEF Replay
  <2> HIDE DEF e, th
  <2>6. Runtime' BY <2>3, <2>4, <2>5, Handling DEF Runtime
  <2> QED BY <2>5, <2>6, Kept
<1>2. CASE Interrupt
  <2> USE <1>2 DEF Interrupt
  <2>1. thread.active \in Turns
    <3>1. thread.active \in TurnRef /\ stop.turn \in TurnRef /\ thread.active > stop.turn BY DEF Runtime, Thread, Calls
    <3> QED BY <3>1, AgentSessionAssumption DEF TurnRef, Turns, NoTurn
  <2>2. Calls' BY <2>1 DEF Calls, TurnRef
  <2>3. "code" \in Modes BY DEF Modes
  <2>4. Wire'
    <3>1. CASE ~ Acp /\ Request("interrupt", thread.active, "code") BY <2>1, <2>3, <3>1, Requesting
    <3>2. CASE /\ Acp /\ link # "closed"
               /\ Write([what |-> "interrupt", turn |-> thread.active, data |-> "code"])
               /\ UNCHANGED <<link, pending, stdout>>
      <4>1. [what |-> "interrupt", turn |-> thread.active, data |-> "code"] \in StdinLine
        BY <2>1, <2>3 DEF StdinLine
      <4> QED BY <3>2, <4>1, Writing DEF Wire
    <3> QED BY <3>1, <3>2
  <2>5. Runtime' /\ Outer' BY Kept
  <2> QED BY <2>2, <2>4, <2>5
<1>3. CASE Interrupted
  <2> USE <1>3 DEF Interrupted
  <2>1. Wire' /\ Outer' BY Kept
  <2>2. Calls' BY DEF Calls
  <2>3. thread' \in Thread
    <3>1. stop.turn \in TurnRef /\ NoTurn \in TurnRef BY DEF Calls, TurnRef
    <3>2. CASE thread.machine # "RUNNING" BY <3>1, <3>2 DEF Runtime, Thread
    <3>3. CASE thread.machine = "RUNNING" BY <3>1, <3>3 DEF Runtime, Thread
    <3> QED BY <3>2, <3>3
  <2>4. Runtime' BY <2>3 DEF Runtime
  <2> QED BY <2>1, <2>2, <2>4
<1>4. CASE InterruptTimeout
  <2> USE <1>4 DEF InterruptTimeout
  <2>1. Wire' /\ Outer' /\ Calls' BY Kept
  <2>2. Runtime' BY DEF Runtime, Thread, TurnRef
  <2> QED BY <2>1, <2>2
<1>5. CASE ChildClosed
  <2> USE <1>5 DEF ChildClosed, RejectAll
  <2>1. Wire' BY DEF Wire
  <2>2. Calls' BY DEF Calls
  <2>3. Runtime' /\ Outer' BY Kept
  <2> QED BY <2>1, <2>2, <2>3
<1>6. CASE Close
  <2> USE <1>6 DEF Close, RejectAll
  <2>1. Wire' BY DEF Wire
  <2>2. Calls' BY DEF Calls
  <2>3. Runtime' /\ Outer' BY Kept
  <2> QED BY <2>1, <2>2, <2>3
<1>7. ASSUME NEW t \in Turns, Respond(t) PROVE Typed'
  <2> USE <1>7 DEF Respond
  <2>1. [what |-> "reply", turn |-> t, data |-> "code"] \in StdinLine BY DEF StdinLine, Modes
  <2>2. Wire' BY <2>1, Writing DEF Wire
  <2>3. Runtime' BY DEF Runtime
  <2>4. Calls' /\ Outer' BY Kept
  <2> QED BY <2>2, <2>3, <2>4
<1>8. ASSUME NEW t \in Turns, NEW m \in {"set_mode", "start", "interrupt", "prompt"}, Timeout(<<m, t>>)
      PROVE  Typed'
  <2> DEFINE r == <<m, t>>
  <2>0. /\ pending' = pending \ {r}
        /\ IF r[1] \in {"set_mode", "start"} THEN CallFails ELSE UNCHANGED call
        /\ stop' = [stop EXCEPT !.pc = IF r[1] = "interrupt" THEN "idle" ELSE @]
        /\ UNCHANGED <<kind, env, link, stdin, stdout, adapter, thread, asked, wanted, reported, outside>>
    BY <1>8 DEF Timeout
  <2> HIDE DEF r
  <2>1. Wire' BY <2>0 DEF Wire
  <2>2. call' \in {call, [call EXCEPT !.pc = "idle"]} BY <2>0 DEF CallFails
  <2>3. Calls' BY <2>0, <2>2 DEF Calls
  <2>4. Runtime' /\ Outer' BY <2>0, Kept
  <2> QED BY <2>1, <2>3, <2>4
<1> QED BY <1>1, <1>2, <1>3, <1>4, <1>5, <1>6, <1>7, <1>8

\* What the agent does to its turns, a turn at a time.
LEMMA AgentTyped ==
    ASSUME Outer, NEW t \in Turns, NEW a \in AgentTurn, agent' = [agent EXCEPT ![t] = a],
           UNCHANGED <<kind, env, adapter>>, agentMode' \in Modes
    PROVE  Outer'
BY DEF Outer

\* The types hold after the agent brings a turn to its end.
LEMMA StopTyped ==
    ASSUME Typed, link = "open", NEW t \in Turns, NEW how \in Hows, NEW lines \in Seq(StdoutLine),
           stdin' \in Seq(StdinLine), Stops(t, how, lines)
    PROVE  Typed'
<1> USE DEF Typed
<1>1. PICK end \in EndLines(t, how) : Say(lines \o end) BY DEF Stops
<1>2. lines \o end \in Seq(StdoutLine) BY EndSaid, LinesConcat
<1>3. Wire' /\ Calls' /\ Runtime' /\ UNCHANGED <<kind, env, adapter>> BY <1>1, <1>2, WireSaid
<1>4. Outer' BY <1>3 DEF Outer, Stops, AgentTurn, Hows
<1> QED BY <1>3, <1>4

\* The types hold after what the agent does.
LEMMA TypedAgent ==
    ASSUME Typed, AgentReads \/ Exits \/ \E t \in Turns : Asks(t) \/ Ends(t)
    PROVE  Typed'
<1> USE DEF Typed
<1>0. Wire /\ Calls /\ Runtime /\ Outer OBVIOUS
<1> DEFINE l == Head(stdin)
<1>r. ASSUME NEW what, Reads(what)
      PROVE  link = "open" /\ l \in StdinLine /\ stdin' \in Seq(StdinLine) /\ l.turn \in Turns /\ l.data \in Modes
  <2>1. link = "open" /\ stdin # <<>> /\ stdin' = Tail(stdin) BY <1>r DEF Reads
  <2>2. l \in StdinLine /\ stdin' \in Seq(StdinLine) BY <2>1, Reading
  <2> QED BY <2>1, <2>2 DEF StdinLine
<1>a. ASSUME NEW m \in {"set_mode", "start", "interrupt"}, NEW t \in Turns, NEW d \in {"ok", "error"}
      PROVE  <<Line("answer", m, t, d)>> \in Seq(StdoutLine)
  <2>1. Line("answer", m, t, d) \in StdoutLine BY DEF Line, StdoutLine
  <2> QED BY <2>1
<1>f. ASSUME NEW m \in {"set_mode", "start", "interrupt"}, Reads(m), Refuses(m) PROVE Typed'
  <2>1. Say(<<Line("answer", m, l.turn, "error")>>) /\ UNCHANGED outside BY <1>f DEF Refuses
  <2>2. Wire' /\ Calls' /\ Runtime' /\ UNCHANGED <<kind, env, adapter>> BY <1>a, <1>f, <1>r, <2>1, WireSaid
  <2> QED BY <2>1, <2>2, Kept
<1>1. CASE ReadsStart
  <2>1. Reads("start") BY <1>1 DEF ReadsStart
  <2>2. CASE /\ Begins(l.turn, l.data) /\ UNCHANGED agentMode
             /\ Say(<<Line("answer", "start", l.turn, "ok")>>)
    <3>1. Wire' /\ Calls' /\ Runtime' /\ UNCHANGED <<kind, env, adapter>> BY <1>a, <1>r, <2>1, <2>2, WireSaid
    <3>2. Outer' BY <1>r, <2>1, <2>2, <3>1 DEF Outer, Begins, AgentTurn
    <3> QED BY <3>1, <3>2
  <2> QED BY <1>1, <1>f, <2>1, <2>2 DEF ReadsStart
<1>2. CASE ReadsMode
  <2>1. Reads("set_mode") BY <1>2 DEF ReadsMode
  <2>2. CASE /\ agentMode' = l.data /\ UNCHANGED agent
             /\ Say(<<Line("answer", "set_mode", l.turn, "ok")>>)
    <3>1. Wire' /\ Calls' /\ Runtime' /\ UNCHANGED <<kind, env, adapter>> BY <1>a, <1>r, <2>1, <2>2, WireSaid
    <3>2. Outer' BY <1>r, <2>1, <2>2, <3>1 DEF Outer
    <3> QED BY <3>1, <3>2
  <2> QED BY <1>2, <1>f, <2>1, <2>2 DEF ReadsMode
<1>3. CASE ReadsPrompt
  <2>1. /\ Reads("prompt") /\ Begins(l.turn, agentMode)
        /\ UNCHANGED <<kind, env, link, pending, stdout, adapter, lifecycle, agentMode>>
    BY <1>3 DEF ReadsPrompt
  <2>2. Wire' BY <1>r, <2>1 DEF Wire
  <2>3. Calls' /\ Runtime' BY <2>1, Kept DEF lifecycle
  <2>4. Outer' BY <1>r, <2>1 DEF Outer, Begins, AgentTurn
  <2> QED BY <2>2, <2>3, <2>4
<1>4. CASE ReadsInterrupt
  <2> DEFINE answer == IF Acp THEN <<>> ELSE <<Line("answer", "interrupt", l.turn, "ok")>>
  <2>1. Reads("interrupt") BY <1>4 DEF ReadsInterrupt
  <2>2. answer \in Seq(StdoutLine) BY <1>a, <1>r, <2>1
  <2>3. /\ \/ agent[l.turn].state \in {"working", "asking"} /\ Stops(l.turn, "cancelled", answer)
           \/ agent[l.turn].state \notin {"working", "asking"} /\ Say(answer) /\ UNCHANGED outside
           \/ ~ Acp /\ Refuses("interrupt")
    BY <1>4, Zenon DEF ReadsInterrupt
  <2> HIDE DEF answer
  <2>4. CASE Stops(l.turn, "cancelled", answer) BY <1>r, <2>1, <2>2, <2>4, StopTyped DEF Hows
  <2>5. CASE Say(answer) /\ UNCHANGED outside
    <3>1. Wire' /\ Calls' /\ Runtime' /\ UNCHANGED <<kind, env, adapter>> BY <1>r, <2>1, <2>2, <2>5, WireSaid
    <3> QED BY <2>5, <3>1, Kept
  <2> QED BY <1>f, <2>1, <2>3, <2>4, <2>5
<1>5. CASE ReadsReply
  <2>1. /\ Reads("reply")
        /\ agent' = [agent EXCEPT ![l.turn].state = IF @ = "asking" THEN "working" ELSE @]
        /\ UNCHANGED <<kind, env, link, pending, stdout, adapter, lifecycle, agentMode>>
    BY <1>5 DEF ReadsReply
  <2>2. Wire' BY <1>r, <2>1 DEF Wire
  <2>3. Calls' /\ Runtime' BY <2>1, Kept DEF lifecycle
  <2>4. Outer' BY <1>r, <2>1 DEF Outer, AgentTurn
  <2> QED BY <2>2, <2>3, <2>4
<1>6. CASE Ignores
  <2>1. /\ link = "open" /\ stdin # <<>> /\ stdin' = Tail(stdin)
        /\ UNCHANGED <<kind, env, link, pending, stdout, adapter, lifecycle, outside>>
    BY <1>6 DEF Ignores
  <2>2. Wire' BY <2>1, Reading DEF Wire
  <2>3. Calls' /\ Runtime' /\ Outer' BY <2>1, Kept DEF lifecycle
  <2> QED BY <2>2, <2>3
<1>7. ASSUME NEW t \in Turns, Asks(t) PROVE Typed'
  <2>1. PICK what \in {"approval", "unknown"} \cup (env \cap {"elicit"}) :
           /\ agent' = [agent EXCEPT ![t].state = "asking", ![t].asks = what]
           /\ Say(<<Line("question", "none", t, what)>>)
    BY <1>7 DEF Asks
  <2>2. link = "open" /\ UNCHANGED <<stdin, agentMode>> BY <1>7 DEF Asks
  <2>3. what \in {"approval", "unknown", "elicit"} OBVIOUS
  <2>4. Line("question", "none", t, what) \in StdoutLine BY <2>3 DEF Line, StdoutLine
  <2>5. <<Line("question", "none", t, what)>> \in Seq(StdoutLine) BY <2>4
  <2>6. stdin' \in Seq(StdinLine) BY <2>2 DEF Wire
  <2>7. Wire' /\ Calls' /\ Runtime' /\ UNCHANGED <<kind, env, adapter>> BY <2>1, <2>2, <2>5, <2>6, WireSaid
  <2>8. Outer' BY <2>1, <2>2, <2>3, <2>7 DEF Outer, AgentTurn
  <2> QED BY <2>7, <2>8
<1>8. ASSUME NEW t \in Turns, Ends(t) PROVE Typed'
  <2>1. PICK how \in Hows : Stops(t, how, <<>>) BY <1>8 DEF Ends, Hows
  <2>2. link = "open" /\ UNCHANGED stdin BY <1>8 DEF Ends
  <2>3. stdin' \in Seq(StdinLine) BY <2>2 DEF Wire
  <2>4. <<>> \in Seq(StdoutLine) OBVIOUS
  <2> QED BY <2>1, <2>2, <2>3, <2>4, StopTyped
<1>9. CASE Exits
  <2> USE <1>9 DEF Exits
  <2>1. Wire' BY DEF Wire
  <2>2. Calls' /\ Runtime' /\ Outer' BY Kept DEF lifecycle
  <2> QED BY <2>1, <2>2
<1> QED BY <1>1, <1>2, <1>3, <1>4, <1>5, <1>6, <1>7, <1>8, <1>9 DEF AgentReads

\* Every step keeps the types.
LEMMA TypedNext ==
    ASSUME Typed, Awaited, [Next]_vars
    PROVE  Typed'
<1>1. CASE Next
  BY <1>1, TypedStart, TypedReceived, TypedRest, TypedAgent DEF Next
<1>2. CASE UNCHANGED vars
  BY <1>2, Kept DEF vars, lifecycle, Typed
<1> QED BY <1>1, <1>2

\* The types hold at the start.
LEMMA TypedInit == Init => Typed
<1> SUFFICES ASSUME Init PROVE Typed
  OBVIOUS
<1> USE DEF Init
<1>1. NoTurn \in TurnRef BY DEF TurnRef
<1>2. Wire BY DEF Wire
<1>3. Calls BY <1>1 DEF Calls
<1>4. <<>> \in Seq(Parked) OBVIOUS
<1>5. thread \in Thread BY <1>1, <1>4 DEF Thread
<1>6. Runtime BY <1>5 DEF Runtime, Modes
<1>7. [state |-> "none", mode |-> "code", how |-> "none", asks |-> "none"] \in AgentTurn BY DEF AgentTurn, Modes
<1>8. Outer BY <1>1, <1>7 DEF Outer, Modes
<1> QED BY <1>2, <1>3, <1>6, <1>8 DEF Typed

-----------------------------------------------------------------------------
(* Requests and the calls that wait for them. *)

\* The agent is on the far side of the pipes.
AgentSteps == AgentReads \/ Exits \/ \E t \in Turns : Asks(t) \/ Ends(t)

\* The agent touches neither the program nor its requests.
LEMMA FarSide ==
    ASSUME AgentSteps
    PROVE  /\ UNCHANGED <<kind, env, pending, adapter, call, stop, thread, asked, wanted, reported>>
           /\ UNCHANGED link \/ link' = "dead"
<1>1. ASSUME NEW lines, Say(lines) 
      PROVE  UNCHANGED <<kind, env, link, pending, adapter, call, stop, thread, asked, wanted, reported>>
  BY <1>1 DEF Say, lifecycle
<1>2. ASSUME NEW m, Refuses(m)
      PROVE  UNCHANGED <<kind, env, link, pending, adapter, call, stop, thread, asked, wanted, reported>>
  BY <1>1, <1>2 DEF Refuses
<1>3. ASSUME NEW t, NEW how, NEW lines, Stops(t, how, lines)
      PROVE  UNCHANGED <<kind, env, link, pending, adapter, call, stop, thread, asked, wanted, reported>>
  BY <1>1, <1>3 DEF Stops
<1>4. CASE ReadsStart BY <1>1, <1>2, <1>4 DEF ReadsStart
<1>5. CASE ReadsMode BY <1>1, <1>2, <1>5 DEF ReadsMode
<1>6. CASE ReadsPrompt BY <1>6 DEF ReadsPrompt, lifecycle
<1>7. CASE ReadsInterrupt BY <1>1, <1>2, <1>3, <1>7, Zenon DEF ReadsInterrupt
<1>8. CASE ReadsReply BY <1>8 DEF ReadsReply, lifecycle
<1>9. CASE Ignores BY <1>9 DEF Ignores, lifecycle
<1>10. CASE Exits BY <1>10 DEF Exits, lifecycle
<1>11. ASSUME NEW t \in Turns, Asks(t)
       PROVE  UNCHANGED <<kind, env, link, pending, adapter, call, stop, thread, asked, wanted, reported>>
  BY <1>1, <1>11 DEF Asks
<1>12. ASSUME NEW t \in Turns, Ends(t)
       PROVE  UNCHANGED <<kind, env, link, pending, adapter, call, stop, thread, asked, wanted, reported>>
  BY <1>3, <1>12 DEF Ends
<1> QED BY <1>4, <1>5, <1>6, <1>7, <1>8, <1>9, <1>10, <1>11, <1>12 DEF AgentSteps, AgentReads

Methods == {"set_mode", "start", "interrupt", "prompt"}

\* Every step keeps requests and calls together.
LEMMA AwaitedNext ==
    ASSUME Typed, Awaited, [Next]_vars
    PROVE  Awaited'
<1> USE DEF Awaited
<1>0. Calls /\ Wire BY DEF Typed
<1>k. ASSUME UNCHANGED <<pending, call, stop>> PROVE Awaited'
  BY <1>k
<1>1. ASSUME NEW mode \in Modes, SendTurn(mode) PROVE Awaited'
  BY <1>1 DEF SendTurn, transport
<1>2. CASE SetMode
  <2>1. CASE Request("set_mode", call.turn, "plan") /\ call' = [call EXCEPT !.pc = "mode_sent"]
    BY <1>0, <1>2, <2>1 DEF SetMode, Request, Calls
  <2>2. CASE UNCHANGED transport BY <1>0, <1>2, <2>2 DEF SetMode, transport, CallFails, Calls
  <2> QED BY <1>2, <2>1, <2>2 DEF SetMode
<1>3. CASE TurnStart
  <2>1. CASE /\ Request(IF Acp THEN "set_mode" ELSE "start", call.turn, adapter.mode)
             /\ call' = [call EXCEPT !.pc = IF Acp THEN "mode_again" ELSE "started"]
    <3>1. CASE Acp BY <1>0, <1>3, <2>1, <3>1 DEF TurnStart, Request, Calls
    <3>2. CASE ~ Acp BY <1>0, <1>3, <2>1, <3>2 DEF TurnStart, Request, Calls
    <3> QED BY <3>1, <3>2
  <2>2. CASE CallFails /\ UNCHANGED transport BY <1>0, <1>3, <2>2 DEF TurnStart, transport, CallFails, Calls
  <2> QED BY <1>3, <2>1, <2>2 DEF TurnStart
<1>4. CASE ModeSet BY <1>0, <1>4 DEF ModeSet, Settled, Calls
<1>5. CASE Prompt BY <1>0, <1>5 DEF Prompt, Calls
<1>6. CASE Started
  <2>1. Head(stdout).turn \in Turns BY <1>0, <1>6, Taking DEF Started, AnswerTo, StdoutLine
  <2>2. call.pc = "started" BY <1>6, <2>1 DEF Started, AnswerTo
  <2> QED BY <1>0, <1>6, <2>2 DEF Started, Settled, Calls
<1>7. CASE Refused
  <2>1. /\ Head(stdout).turn \in Turns
        /\ Head(stdout).method \in {"set_mode", "start"}
        /\ <<Head(stdout).method, Head(stdout).turn>> \in pending
        /\ pending' = pending \ {<<Head(stdout).method, call.turn>>}
        /\ call' = [call EXCEPT !.pc = "idle"] /\ stop' = stop
    BY <1>0, <1>7, Taking DEF Refused, AnswerTo, StdoutLine, Settled, CallFails
  <2> QED BY <1>0, <2>1 DEF Calls
<1>8. CASE InterruptAnswered BY <1>0, <1>8 DEF InterruptAnswered, Calls
<1>9. CASE PromptAnswered BY <1>9 DEF PromptAnswered
<1>10. CASE Unawaited \/ EndArrives \/ Question BY <1>k, <1>10 DEF Unawaited, EndArrives, Question, lifecycle
<1>11. CASE Replay \/ Interrupted \/ InterruptTimeout
  <2>1. CASE Replay \/ InterruptTimeout BY <1>k, <2>1 DEF Replay, InterruptTimeout, transport
  <2>2. CASE Interrupted BY <1>0, <2>2 DEF Interrupted, transport, Calls
  <2> QED BY <1>11, <2>1, <2>2
<1>12. CASE ChildClosed BY <1>12 DEF ChildClosed, RejectAll
<1>13. CASE Close BY <1>13 DEF Close, RejectAll
<1>14. ASSUME NEW t \in Turns, Respond(t) PROVE Awaited'
  BY <1>k, <1>14 DEF Respond
<1>15. ASSUME NEW t \in Turns, NEW m \in Methods, Timeout(<<m, t>>) PROVE Awaited'
  <2> DEFINE r == <<m, t>>
  <2>1. /\ <<m, t>> \in pending /\ pending' = pending \ {<<m, t>>}
        /\ IF m \in {"set_mode", "start"} THEN CallFails ELSE UNCHANGED call
        /\ stop' = [stop EXCEPT !.pc = IF m = "interrupt" THEN "idle" ELSE @]
    BY <1>15 DEF Timeout
  <2>2. CASE m \in {"set_mode", "start"} BY <1>0, <2>1, <2>2 DEF CallFails, Calls
  <2>3. CASE m = "interrupt" BY <1>0, <2>1, <2>3 DEF Calls
  <2>4. CASE m = "prompt" BY <1>0, <2>1, <2>4 DEF Calls
  <2> QED BY <2>2, <2>3, <2>4 DEF Methods
<1>16. CASE Interrupt
  <2>1. CASE ~ Acp /\ Request("interrupt", thread.active, "code")
    BY <1>0, <1>16, <2>1 DEF Interrupt, Request, Calls
  <2>2. CASE Acp /\ UNCHANGED pending BY <1>0, <1>16, <2>2 DEF Interrupt, Calls
  <2> QED BY <1>16, <2>1, <2>2 DEF Interrupt
<1>17. CASE AgentSteps BY <1>k, <1>17, FarSide
<1>18. CASE UNCHANGED vars BY <1>k, <1>18 DEF vars, transport, lifecycle
<1> QED
  BY <1>1, <1>2, <1>3, <1>4, <1>5, <1>6, <1>7, <1>8, <1>9, <1>10, <1>11, <1>12, <1>13, <1>14, <1>15, <1>16,
     <1>17, <1>18 DEF Next, Received, AgentSteps, Methods

-----------------------------------------------------------------------------
(* What a step sends and says. *)

\* Beyond what was under way, only lines of more are sent, the last ones.
Sent(more) ==
    /\ Lines(stdin') \subseteq Lines(stdin) \cup more
    /\ \A R : Pairwise(stdin, R) /\ (\A y \in Lines(stdin), x \in more : <<y, x>> \in R) => Pairwise(stdin', R)

\* Beyond what was under way, only these lines are said, in this order.
Spoken(lines) ==
    /\ Lines(stdout') \subseteq Lines(stdout) \cup Lines(lines)
    /\ \A R : /\ Pairwise(stdout, R) /\ Pairwise(lines, R)
              /\ \A x \in Lines(stdout), y \in Lines(lines) : <<x, y>> \in R
              => Pairwise(stdout', R)

\* Queues that are kept or emptied gain no line.
LEMMA Silent ==
    /\ UNCHANGED stdin => Sent({})
    /\ stdin' = <<>> => Sent({})
    /\ UNCHANGED stdout => Spoken(<<>>)
    /\ stdout' = <<>> => Spoken(<<>>)
<1>1. UNCHANGED stdin => Sent({}) BY DEF Sent
<1>2. stdin' = <<>> => Sent({}) BY LinesFew DEF Sent
<1>3. UNCHANGED stdout => Spoken(<<>>) BY DEF Spoken
<1>4. stdout' = <<>> => Spoken(<<>>) BY LinesFew DEF Spoken
<1> QED BY <1>1, <1>2, <1>3, <1>4

\* What writing, taking, reading and saying add to the queues.
LEMMA Passing ==
    ASSUME Wire
    PROVE  /\ \A line \in StdinLine : Write(line) => Sent({line})
           /\ \A what : Take(what) => Spoken(<<>>)
           /\ stdin # <<>> /\ stdin' = Tail(stdin) => Sent({})
           /\ \A lines \in Seq(StdoutLine) : Say(lines) => Spoken(lines)
<1>1. ASSUME NEW line \in StdinLine, Write(line) PROVE Sent({line})
  BY <1>1, Writing DEF Sent
<1>2. ASSUME NEW what, Take(what) PROVE Spoken(<<>>)
  BY <1>2, Taking DEF Spoken
<1>3. ASSUME stdin # <<>>, stdin' = Tail(stdin) PROVE Sent({})
  BY <1>3, Reading DEF Sent
<1>4. ASSUME NEW lines \in Seq(StdoutLine), Say(lines) PROVE Spoken(lines)
  BY <1>4, Saying DEF Spoken
<1> QED BY <1>1, <1>2, <1>3, <1>4

\* The call sends the line that begins its turn; any other line, or none, is sent.
SendsBegin ==
    \E l \in StdinLine :
        /\ l.turn = call.turn /\ Sent({l}) /\ call.pc # "idle" /\ call'.turn = call.turn
        /\ \/ TurnStart /\ ~ Acp /\ call.pc = "start" /\ l.what = "start" /\ l.data = adapter.mode /\ call'.pc = "started"
           \/ Prompt /\ call.pc = "mode_again" /\ l.what = "prompt" /\ call'.pc = "idle"

SendsOther ==
    \/ Sent({})
    \/ \E l \in StdinLine :
         /\ Sent({l})
         /\ \/ l.what \in {"interrupt", "reply"}
            \/ (SetMode \/ TurnStart) /\ l.what = "set_mode"

\* The steps of the program and of its users.
NearSteps ==
    \/ \E mode \in Modes : SendTurn(mode)
    \/ SetMode \/ TurnStart \/ Received \/ Replay
    \/ Interrupt \/ Interrupted \/ InterruptTimeout
    \/ ChildClosed \/ Close
    \/ \E t \in Turns : Timeout(<<"set_mode", t>>) \/ Timeout(<<"start", t>>)
                        \/ Timeout(<<"interrupt", t>>) \/ Timeout(<<"prompt", t>>)
    \/ \E t \in Turns : Respond(t)

\* A step is the program's, its users', or the agent's.
LEMMA NextSteps == Next <=> NearSteps \/ AgentSteps
BY Zenon DEF Next, NearSteps, AgentSteps

\* The program leaves the agent alone; its steps send at most one line.
LEMMA NearSide ==
    ASSUME Typed, Awaited, NearSteps
    PROVE  /\ UNCHANGED <<kind, env, outside>> /\ Spoken(<<>>)
           /\ SendsBegin \/ SendsOther
<1> DEFINE Goal == UNCHANGED <<kind, env, outside>> /\ Spoken(<<>>) /\ (SendsBegin \/ SendsOther)
<1>0. Wire /\ Calls /\ Runtime /\ Outer BY DEF Typed
<1>t. ASSUME UNCHANGED transport PROVE Spoken(<<>>) /\ SendsOther
  BY <1>t, Silent DEF transport, SendsOther
<1>w. ASSUME NEW what, Take(what), UNCHANGED stdin PROVE UNCHANGED <<kind, env>> /\ Spoken(<<>>) /\ SendsOther
  BY <1>0, <1>w, Silent, Passing, Taking DEF SendsOther
<1>1. ASSUME NEW mode \in Modes, SendTurn(mode) PROVE Goal
  BY <1>1, <1>t DEF SendTurn
<1>2. CASE SetMode
  <2>1. UNCHANGED <<kind, env, outside>> BY <1>2 DEF SetMode
  <2>2. CASE UNCHANGED transport BY <1>t, <2>1, <2>2
  <2>3. CASE Request("set_mode", call.turn, "plan")
    <3>1. call.turn \in Turns /\ "plan" \in Modes BY <1>0, <1>2 DEF SetMode, Calls, Modes
    <3>2. UNCHANGED stdout BY <1>0, <2>3, <3>1, Requesting
    <3>3. PICK l \in StdinLine : l.what = "set_mode" /\ Sent({l}) BY <1>0, <2>3, <3>1, Requesting, Passing
    <3> QED BY <1>2, <2>1, <3>2, <3>3, Silent DEF SendsOther
  <2> QED BY <1>2, <2>2, <2>3 DEF SetMode
<1>3. CASE TurnStart
  <2>1. UNCHANGED <<kind, env, outside>> BY <1>3 DEF TurnStart
  <2>2. CASE UNCHANGED transport BY <1>t, <2>1, <2>2
  <2>3. CASE /\ Request(IF Acp THEN "set_mode" ELSE "start", call.turn, adapter.mode)
             /\ call' = [call EXCEPT !.pc = IF Acp THEN "mode_again" ELSE "started"]
    <3>1. call.turn \in Turns /\ adapter.mode \in Modes /\ call.pc = "start"
      BY <1>0, <1>3 DEF TurnStart, Calls, Outer
    <3>2. CASE Acp
      <4>1. Request("set_mode", call.turn, adapter.mode) BY <2>3, <3>2
      <4>2. UNCHANGED stdout BY <1>0, <3>1, <4>1, Requesting
      <4>3. PICK l \in StdinLine : l.what = "set_mode" /\ Sent({l}) BY <1>0, <3>1, <4>1, Requesting, Passing
      <4> QED BY <1>3, <2>1, <4>2, <4>3, Silent DEF SendsOther
    <3>3. CASE ~ Acp
      <4>1. Request("start", call.turn, adapter.mode) BY <2>3, <3>3
      <4>2. UNCHANGED stdout BY <1>0, <3>1, <4>1, Requesting
      <4> DEFINE l == [what |-> "start", turn |-> call.turn, data |-> adapter.mode]
      <4>3. l \in StdinLine /\ Sent({l}) BY <1>0, <3>1, <4>1, Requesting, Passing
      <4>4. l.what = "start" /\ l.turn = call.turn /\ l.data = adapter.mode OBVIOUS
      <4>5. call'.turn = call.turn /\ call'.pc = "started" BY <1>0, <2>3, <3>3 DEF Calls
      <4> HIDE DEF l
      <4>6. SendsBegin BY <1>3, <3>1, <3>3, <4>3, <4>4, <4>5 DEF SendsBegin
      <4> QED BY <2>1, <4>2, <4>6, Silent
    <3> QED BY <3>2, <3>3
  <2> QED BY <1>3, <2>2, <2>3 DEF TurnStart
<1>4. CASE Prompt
  <2>1. /\ Take("answer") /\ UNCHANGED outside /\ call.pc = "mode_again" /\ call' = [call EXCEPT !.pc = "idle"]
        /\ Write([what |-> "prompt", turn |-> call.turn, data |-> "code"])
    BY <1>4 DEF Prompt, AnswerTo
  <2> DEFINE l == [what |-> "prompt", turn |-> call.turn, data |-> "code"]
  <2>2. l \in StdinLine BY <1>0, <2>1 DEF StdinLine, Modes, Calls
  <2>3. Sent({l}) BY <1>0, <2>1, <2>2, Passing
  <2>4. l.what = "prompt" /\ l.turn = call.turn OBVIOUS
  <2>5. call'.turn = call.turn /\ call'.pc = "idle" BY <1>0, <2>1 DEF Calls
  <2> HIDE DEF l
  <2>6. SendsBegin BY <1>4, <2>1, <2>2, <2>3, <2>4, <2>5 DEF SendsBegin
  <2> QED BY <1>0, <2>1, <2>6, Taking, Passing
<1>5. CASE ModeSet BY <1>5, <1>w DEF ModeSet, AnswerTo
<1>6. CASE Started BY <1>6, <1>w DEF Started, AnswerTo
<1>7. CASE Refused BY <1>7, <1>w DEF Refused, AnswerTo
<1>8. CASE InterruptAnswered BY <1>8, <1>w DEF InterruptAnswered, AnswerTo
<1>9. CASE PromptAnswered BY <1>9, <1>w DEF PromptAnswered, AnswerTo
<1>10. CASE Unawaited BY <1>10, <1>w DEF Unawaited
<1>11. CASE EndArrives BY <1>11, <1>w DEF EndArrives
<1>12. CASE Question
  <2>1. Take("question") /\ UNCHANGED outside BY <1>12 DEF Question
  <2>2. CASE Head(stdout).data = "unknown"
    <3> DEFINE l == [what |-> "reply", turn |-> Head(stdout).turn, data |-> "code"]
    <3>1. Write(l) BY <1>12, <2>2 DEF Question
    <3>2. l \in StdinLine BY <1>0, <2>1, Taking DEF StdinLine, StdoutLine, Modes
    <3>3. Sent({l}) BY <1>0, <3>1, <3>2, Passing
    <3>4. SendsOther BY <3>2, <3>3 DEF SendsOther
    <3> QED BY <1>0, <2>1, <3>4, Taking, Passing
  <2>3. CASE Head(stdout).data # "unknown" BY <1>12, <1>w, <2>1, <2>3 DEF Question
  <2> QED BY <2>2, <2>3
<1>13. CASE Replay BY <1>13, <1>t DEF Replay
<1>14. CASE Interrupted BY <1>14, <1>t DEF Interrupted
<1>15. CASE InterruptTimeout BY <1>15, <1>t DEF InterruptTimeout
<1>16. CASE ChildClosed BY <1>16, Silent DEF ChildClosed, SendsOther
<1>17. CASE Close BY <1>17, Silent DEF Close, SendsOther
<1>18. ASSUME NEW r, Timeout(r) PROVE Goal
  BY <1>18, Silent DEF Timeout, SendsOther
<1>19. ASSUME NEW t \in Turns, Respond(t) PROVE Goal
  <2> DEFINE l == [what |-> "reply", turn |-> t, data |-> "code"]
  <2>1. Write(l) /\ UNCHANGED <<kind, env, stdout, outside>> BY <1>19 DEF Respond
  <2>2. l \in StdinLine BY DEF StdinLine, Modes
  <2>3. Sent({l}) BY <1>0, <2>1, <2>2, Passing
  <2>4. SendsOther BY <2>2, <2>3 DEF SendsOther
  <2> QED BY <2>1, <2>4, Silent
<1>20. CASE Interrupt
  <2>1. thread.active \in Turns
    <3>1. thread.active \in TurnRef /\ stop.turn \in TurnRef /\ thread.active > stop.turn
      BY <1>0, <1>20 DEF Runtime, Thread, Calls, Interrupt
    <3> QED BY <3>1, AgentSessionAssumption DEF TurnRef, Turns, NoTurn
  <2> DEFINE l == [what |-> "interrupt", turn |-> thread.active, data |-> "code"]
  <2>2. Write(l) /\ UNCHANGED <<kind, env, stdout, outside>> BY <1>20 DEF Interrupt, Request
  <2>3. l \in StdinLine BY <2>1 DEF StdinLine, Modes
  <2>4. Sent({l}) BY <1>0, <2>2, <2>3, Passing
  <2>5. SendsOther BY <2>3, <2>4 DEF SendsOther
  <2> QED BY <2>2, <2>5, Silent
<1> QED
  BY <1>1, <1>2, <1>3, <1>4, <1>5, <1>6, <1>7, <1>8, <1>9, <1>10, <1>11, <1>12, <1>13, <1>14, <1>15, <1>16,
     <1>17, <1>18, <1>19, <1>20, Zenon DEF NearSteps, Received

\* The agent begins the turn of a line, brings a turn to its end, or does neither.
BeginStep(l) ==
    /\ l \in Lines(stdin) /\ Begins1(l) /\ UNCHANGED agentMode
    /\ agent' = [agent EXCEPT ![l.turn].state = "working",
                              ![l.turn].mode = IF l.what = "start" THEN l.data ELSE agentMode]
    /\ \A R : Pairwise(stdin, R) => \A y \in Lines(stdin') : <<l, y>> \in R

StopStep(t, how) ==
    /\ agent[t].state \in {"working", "asking"} /\ UNCHANGED agentMode
    /\ agent' = [agent EXCEPT ![t].state = "ended", ![t].how = how]

QuietStep ==
    \A t \in Turns :
        /\ agent'[t].mode = agent[t].mode /\ agent'[t].how = agent[t].how
        /\ agent'[t].state # agent[t].state => {agent[t].state, agent'[t].state} = {"working", "asking"}

\* What it says of it: its answers to requests, questions, and the end of the turn.
Mute(lines) == Len(lines) < 2 /\ \A m \in Lines(lines) : ~ Tells(m)

EndTold(lines, t, how) ==
    /\ Pairwise(lines, EndedOnce) /\ Pairwise(lines, OneAnswer)
    /\ \A m \in Lines(lines) :
        /\ Tells(m) => m.turn = t /\ m.data = how
        /\ m.what = "answer" => m.method \in {"prompt", "interrupt"}

\* One line that tells of no end.
LEMMA OneLine ==
    ASSUME NEW m \in StdoutLine
    PROVE  <<m>> \in Seq(StdoutLine) /\ (~ Tells(m) => Mute(<<m>>))
BY LinesFew DEF Mute

\* The agent ends a turn and says so.
LEMMA Stopping ==
    ASSUME Wire, NEW t \in Turns, NEW how \in Hows, NEW first, agent[t].state \in {"working", "asking"},
           \/ first = <<>>
           \/ \E m \in StdoutLine : first = <<m>> /\ m.what = "answer" /\ m.method = "interrupt",
           Stops(t, how, first)
    PROVE  StopStep(t, how) /\ \E lines \in Seq(StdoutLine) : Spoken(lines) /\ EndTold(lines, t, how)
<1>1. PICK end \in EndLines(t, how) : Say(first \o end) BY DEF Stops
<1>2. /\ end \in Seq(StdoutLine) /\ Pairwise(end, EndedOnce) /\ Pairwise(end, OneAnswer)
      /\ \A l \in Lines(end) : /\ l.turn = t /\ l.data = how /\ ~ ModeAnswer(l)
                               /\ l.what = "answer" => l.method = "prompt"
  BY EndSaid
<1>3. /\ first \in Seq(StdoutLine) /\ Pairwise(first, EndedOnce) /\ Pairwise(first, OneAnswer)
      /\ \A l \in Lines(first) : l.what = "answer" /\ l.method = "interrupt"
  <2>1. CASE first = <<>> BY <2>1, LinesFew
  <2>2. ASSUME NEW m \in StdoutLine, first = <<m>>, m.what = "answer", m.method = "interrupt" 
        PROVE  /\ first \in Seq(StdoutLine) /\ Pairwise(first, EndedOnce) /\ Pairwise(first, OneAnswer)
               /\ \A l \in Lines(first) : l.what = "answer" /\ l.method = "interrupt"
    BY <2>2, LinesFew, OneLine
  <2> QED BY <2>1, <2>2
<1> DEFINE lines == first \o end
<1>4. lines \in Seq(StdoutLine) /\ Lines(lines) = Lines(first) \cup Lines(end)
  BY <1>2, <1>3, LinesConcat
<1>5. \A x \in Lines(first), y \in Lines(end) : <<x, y>> \in EndedOnce /\ <<x, y>> \in OneAnswer
  BY <1>2, <1>3, LinesType DEF EndedOnce, OneAnswer, ModeAnswer
<1>6. Pairwise(lines, EndedOnce) /\ Pairwise(lines, OneAnswer)
  BY <1>2, <1>3, <1>5, LinesConcat
<1>7. Spoken(lines) BY <1>1, <1>4, Passing
<1> HIDE DEF lines
<1>8. EndTold(lines, t, how) BY <1>2, <1>3, <1>4, <1>6 DEF EndTold, Tells
<1>9. StopStep(t, how) BY DEF StopStep, Stops
<1> QED BY <1>4, <1>7, <1>8, <1>9

\* What an agent's step does to its turns, with the lines it says.
LEMMA AgentDoes ==
    ASSUME Typed, AgentSteps
    PROVE  /\ Sent({})
           /\ \E lines \in Seq(StdoutLine) :
                /\ Spoken(lines)
                /\ \/ Mute(lines) /\ (QuietStep \/ \E l \in StdinLine : BeginStep(l))
                   \/ \E t \in Turns, how \in Hows : EndTold(lines, t, how) /\ StopStep(t, how)
<1> DEFINE Goal == Sent({}) /\ \E lines \in Seq(StdoutLine) :
                     /\ Spoken(lines)
                     /\ \/ Mute(lines) /\ (QuietStep \/ \E l \in StdinLine : BeginStep(l))
                        \/ \E t \in Turns, how \in Hows : EndTold(lines, t, how) /\ StopStep(t, how)
<1> DEFINE l == Head(stdin)
<1>0. Wire /\ Outer BY DEF Typed
<1>e. <<>> \in Seq(StdoutLine) /\ Mute(<<>>) /\ Len(<<>>) = 0 BY LinesFew DEF Mute
<1>q. UNCHANGED agent => QuietStep BY DEF QuietStep
<1>r. ASSUME NEW what, Reads(what)
      PROVE  /\ Sent({}) /\ l \in StdinLine /\ l \in Lines(stdin) /\ l.turn \in Turns /\ l.what = what
             /\ \A R : Pairwise(stdin, R) => \A y \in Lines(stdin') : <<l, y>> \in R
  <2>1. stdin # <<>> /\ stdin' = Tail(stdin) /\ l.what = what BY <1>r DEF Reads
  <2>2. l \in StdinLine BY <1>0, <2>1, Reading
  <2>3. Sent({}) BY <1>0, <2>1, Passing
  <2> QED BY <1>0, <2>1, <2>2, <2>3, Reading DEF StdinLine
<1>a. ASSUME NEW m \in {"set_mode", "start", "interrupt"}, NEW t \in Turns, NEW d \in {"ok", "error"}
      PROVE  /\ Line("answer", m, t, d) \in StdoutLine
             /\ <<Line("answer", m, t, d)>> \in Seq(StdoutLine) /\ Mute(<<Line("answer", m, t, d)>>)
             /\ Line("answer", m, t, d).what = "answer" /\ Line("answer", m, t, d).method = m
  <2>1. Line("answer", m, t, d) \in StdoutLine BY DEF Line, StdoutLine
  <2>2. Line("answer", m, t, d).what = "answer" /\ Line("answer", m, t, d).method = m BY DEF Line
  <2>3. ~ Tells(Line("answer", m, t, d)) BY DEF Line, Tells
  <2> QED BY <2>1, <2>2, <2>3, OneLine
<1>f. ASSUME NEW m \in {"set_mode", "start", "interrupt"}, Reads(m), Refuses(m) PROVE Goal
  <2> DEFINE lines == <<Line("answer", m, l.turn, "error")>>
  <2>1. Say(lines) /\ UNCHANGED agent BY <1>f DEF Refuses, outside
  <2>2. lines \in Seq(StdoutLine) /\ Mute(lines) /\ Sent({}) BY <1>a, <1>f, <1>r
  <2> HIDE DEF lines
  <2> QED BY <1>0, <1>q, <2>1, <2>2, Passing
<1>1. CASE ReadsStart
  <2>1. Reads("start") BY <1>1 DEF ReadsStart
  <2>2. CASE /\ Begins(l.turn, l.data) /\ UNCHANGED agentMode
             /\ Say(<<Line("answer", "start", l.turn, "ok")>>)
    <3>1. BeginStep(l) BY <1>r, <2>1, <2>2 DEF BeginStep, Begins, Begins1
    <3> DEFINE lines == <<Line("answer", "start", l.turn, "ok")>>
    <3>2. lines \in Seq(StdoutLine) /\ Mute(lines) /\ Sent({}) /\ l \in StdinLine BY <1>a, <1>r, <2>1
    <3>3. Spoken(lines) BY <1>0, <2>2, <3>2, Passing
    <3> HIDE DEF lines, l
    <3> QED BY <3>1, <3>2, <3>3
  <2> QED BY <1>1, <1>f, <2>1, <2>2 DEF ReadsStart
<1>2. CASE ReadsMode
  <2>1. Reads("set_mode") BY <1>2 DEF ReadsMode
  <2>2. CASE UNCHANGED agent /\ Say(<<Line("answer", "set_mode", l.turn, "ok")>>)
    <3> DEFINE lines == <<Line("answer", "set_mode", l.turn, "ok")>>
    <3>1. lines \in Seq(StdoutLine) /\ Mute(lines) /\ Sent({}) BY <1>a, <1>r, <2>1
    <3>2. Spoken(lines) BY <1>0, <2>2, <3>1, Passing
    <3> HIDE DEF lines
    <3> QED BY <1>q, <2>2, <3>1, <3>2
  <2> QED BY <1>2, <1>f, <2>1, <2>2 DEF ReadsMode
<1>3. CASE ReadsPrompt
  <2>1. Reads("prompt") /\ Begins(l.turn, agentMode) /\ UNCHANGED <<agentMode, stdout>> BY <1>3 DEF ReadsPrompt
  <2>2. BeginStep(l)
    <3>1. l.what = "prompt" BY <1>r, <2>1
    <3>2. (IF l.what = "start" THEN l.data ELSE agentMode) = agentMode BY <3>1
    <3>3. agent' = [agent EXCEPT ![l.turn].state = "working",
                                 ![l.turn].mode = IF l.what = "start" THEN l.data ELSE agentMode]
      BY <2>1, <3>2 DEF Begins
    <3>4. Begins1(l) BY <3>1 DEF Begins1
    <3> QED BY <1>r, <2>1, <3>3, <3>4 DEF BeginStep
  <2>3. Spoken(<<>>) /\ Sent({}) /\ l \in StdinLine BY <1>r, <2>1, Silent
  <2> HIDE DEF l
  <2> QED BY <1>e, <2>2, <2>3
<1>4. CASE ReadsInterrupt
  <2> DEFINE answer == IF Acp THEN <<>> ELSE <<Line("answer", "interrupt", l.turn, "ok")>>
  <2>1. Reads("interrupt") BY <1>4 DEF ReadsInterrupt
  <2>2. /\ \/ agent[l.turn].state \in {"working", "asking"} /\ Stops(l.turn, "cancelled", answer)
           \/ agent[l.turn].state \notin {"working", "asking"} /\ Say(answer) /\ UNCHANGED outside
           \/ ~ Acp /\ Refuses("interrupt")
    BY <1>4, Zenon DEF ReadsInterrupt
  <2>3. /\ answer \in Seq(StdoutLine) /\ Mute(answer)
        /\ answer = <<>> \/ \E m \in StdoutLine : answer = <<m>> /\ m.what = "answer" /\ m.method = "interrupt"
    <3>1. CASE Acp BY <1>e, <3>1
    <3>2. CASE ~ Acp
      <4>1. answer = <<Line("answer", "interrupt", l.turn, "ok")>> BY <3>2
      <4>2. l.turn \in Turns BY <1>r, <2>1
      <4> HIDE DEF l, answer
      <4> QED BY <1>a, <4>1, <4>2
    <3> QED BY <3>1, <3>2
  <2>4. Sent({}) /\ l.turn \in Turns BY <1>r, <2>1
  <2> HIDE DEF answer, l
  <2>5. CASE agent[l.turn].state \in {"working", "asking"} /\ Stops(l.turn, "cancelled", answer)
    <3>1. "cancelled" \in Hows BY DEF Hows
    <3>2. /\ StopStep(l.turn, "cancelled")
          /\ \E lines \in Seq(StdoutLine) : Spoken(lines) /\ EndTold(lines, l.turn, "cancelled")
      BY <1>0, <2>3, <2>4, <2>5, <3>1, Stopping
    <3> QED BY <2>4, <3>1, <3>2
  <2>6. CASE Say(answer) /\ UNCHANGED outside BY <1>0, <1>q, <2>3, <2>4, <2>6, Passing DEF outside
  <2> QED BY <1>f, <2>1, <2>2, <2>5, <2>6 DEF l
<1>5. CASE ReadsReply
  <2>1. /\ Reads("reply") /\ UNCHANGED stdout
        /\ agent' = [agent EXCEPT ![l.turn].state = IF @ = "asking" THEN "working" ELSE @]
    BY <1>5 DEF ReadsReply
  <2>2. Sent({}) /\ l.turn \in Turns BY <1>r, <2>1
  <2>3. QuietStep BY <1>0, <2>1, <2>2 DEF QuietStep, Outer, AgentTurn
  <2> QED BY <1>e, <2>1, <2>2, <2>3, Silent
<1>6. CASE Ignores
  <2>1. stdin # <<>> /\ stdin' = Tail(stdin) /\ UNCHANGED <<agent, stdout>> BY <1>6 DEF Ignores, outside
  <2> QED BY <1>0, <1>e, <1>q, <2>1, Passing, Silent
<1>7. ASSUME NEW t \in Turns, Asks(t) PROVE Goal
  <2>1. PICK what \in {"approval", "unknown"} \cup (env \cap {"elicit"}) :
           /\ agent' = [agent EXCEPT ![t].state = "asking", ![t].asks = what]
           /\ Say(<<Line("question", "none", t, what)>>)
    BY <1>7 DEF Asks
  <2>2. UNCHANGED stdin /\ agent[t].state = "working" BY <1>7 DEF Asks
  <2>3. what \in {"approval", "unknown", "elicit"} OBVIOUS
  <2>4. Line("question", "none", t, what) \in StdoutLine BY <2>3 DEF Line, StdoutLine
  <2>5. ~ Tells(Line("question", "none", t, what)) BY DEF Line, Tells
  <2>6. QuietStep BY <1>0, <2>1, <2>2 DEF QuietStep, Outer, AgentTurn
  <2> DEFINE lines == <<Line("question", "none", t, what)>>
  <2>7. lines \in Seq(StdoutLine) /\ Mute(lines) BY <2>4, <2>5, OneLine
  <2>8. Spoken(lines) BY <1>0, <2>1, <2>7, Passing
  <2> HIDE DEF lines
  <2> QED BY <2>2, <2>6, <2>7, <2>8, Silent
<1>8. ASSUME NEW t \in Turns, Ends(t) PROVE Goal
  <2>1. PICK how \in Hows : Stops(t, how, <<>>) BY <1>8 DEF Ends, Hows
  <2>2. agent[t].state \in {"working", "asking"} /\ UNCHANGED stdin BY <1>8 DEF Ends
  <2>3. StopStep(t, how) /\ \E lines \in Seq(StdoutLine) : Spoken(lines) /\ EndTold(lines, t, how)
    BY <1>0, <2>1, <2>2, Stopping
  <2> QED BY <2>2, <2>3, Silent
<1>9. CASE Exits
  <2>1. stdin' = <<>> /\ UNCHANGED <<stdout, agent>> BY <1>9 DEF Exits, outside
  <2> QED BY <1>e, <1>q, <2>1, Silent
<1> QED BY <1>1, <1>2, <1>3, <1>4, <1>5, <1>6, <1>7, <1>8, <1>9 DEF AgentSteps, AgentReads

-----------------------------------------------------------------------------
(* A turn is begun once. *)

\* A turn that was begun stays begun, and is not begun again.
LEMMA CalledKept ==
    ASSUME Typed, Awaited, [Next]_vars, NEW t \in Turns, Called(t)
    PROVE  Called(t)'
<1> USE DEF Called
<1>0. Calls /\ Wire BY DEF Typed
<1>n. t \in Int /\ call.turn \in Int BY <1>0 DEF Turns, TurnRef, NoTurn, Calls
<1>k. ASSUME UNCHANGED call PROVE Called(t)'
  BY <1>k
<1>i. ASSUME NEW pc \in {"idle", "started"}, call' = [call EXCEPT !.pc = pc] PROVE Called(t)'
  BY <1>0, <1>i DEF Calls
<1>m. ASSUME NEW pc, call' = [call EXCEPT !.pc = pc], call.pc \notin {"idle", "started"} PROVE Called(t)'
  BY <1>0, <1>m DEF Calls
<1>1. ASSUME NEW mode \in Modes, SendTurn(mode) PROVE Called(t)'
  BY <1>0, <1>1, <1>n DEF SendTurn, Calls
<1>2. CASE SetMode
  <2>1. call.pc = "mode" /\ \E pc : call' = [call EXCEPT !.pc = pc]
    BY <1>2, Zenon DEF SetMode, CallFails
  <2> QED BY <1>m, <2>1
<1>3. CASE TurnStart
  <2>1. call.pc = "start" /\ \E pc : call' = [call EXCEPT !.pc = pc]
    BY <1>3, Zenon DEF TurnStart, CallFails
  <2> QED BY <1>m, <2>1
<1>4. CASE ModeSet BY <1>4, <1>m DEF ModeSet
<1>5. CASE Prompt \/ Started BY <1>5, <1>i DEF Prompt, Started
<1>6. CASE Refused BY <1>6, <1>i DEF Refused, CallFails
<1>7. CASE InterruptAnswered \/ PromptAnswered \/ Unawaited \/ EndArrives \/ Question
  BY <1>k, <1>7 DEF InterruptAnswered, PromptAnswered, Unawaited, EndArrives, Question, lifecycle
<1>8. CASE Replay \/ Interrupted \/ InterruptTimeout \/ Interrupt
  BY <1>k, <1>8 DEF Replay, Interrupted, InterruptTimeout, Interrupt
<1>9. CASE ChildClosed \/ Close
  <2>1. RejectAll BY <1>9 DEF ChildClosed, Close
  <2>2. call' = call \/ call' = [call EXCEPT !.pc = "idle"] BY <1>0, <2>1 DEF RejectAll, Calls
  <2> QED BY <1>i, <1>k, <2>2
<1>10. ASSUME NEW r, Timeout(r) PROVE Called(t)'
  <2>1. CASE CallFails BY <1>i, <2>1 DEF CallFails
  <2>2. CASE UNCHANGED call BY <1>k, <2>2
  <2> QED BY <1>10, <2>1, <2>2 DEF Timeout
<1>11. ASSUME NEW u \in Turns, Respond(u) PROVE Called(t)'
  BY <1>k, <1>11 DEF Respond
<1>12. CASE AgentSteps BY <1>k, <1>12, FarSide
<1>13. CASE UNCHANGED vars BY <1>k, <1>13 DEF vars, lifecycle
<1> QED
  BY <1>1, <1>2, <1>3, <1>4, <1>5, <1>6, <1>7, <1>8, <1>9, <1>10, <1>11, <1>12, <1>13, NextSteps
  DEF NearSteps, Received

\* Every step keeps that a turn is begun once.
LEMMA FreshNext ==
    ASSUME Typed, Awaited, Fresh, [Next]_vars
    PROVE  Fresh'
<1> USE DEF Fresh
<1>0. Wire /\ Outer /\ Calls /\ Lines(stdin) \subseteq StdinLine BY LinesIn DEF Typed
<1>c. \A t \in Turns : Called(t) => Called(t)' BY CalledKept
<1>t. \A l \in StdinLine : l.turn \in Turns BY DEF StdinLine
<1>1. ASSUME NearSteps, SendsBegin PROVE Fresh'
  <2>1. UNCHANGED <<agent>> BY <1>1, NearSide DEF outside
  <2>2. PICK l \in StdinLine : /\ l.turn = call.turn /\ Sent({l})
                               /\ call.pc \in {"start", "mode_again"}
                               /\ call'.turn = call.turn /\ call'.pc \in {"idle", "started"}
    BY <1>1 DEF SendsBegin
  <2>3. l.turn \in Turns /\ ~ Called(l.turn) BY <1>t, <2>2 DEF Called
  <2>4. Called(l.turn)' BY <2>2, <2>3 DEF Called, Turns
  <2>5. agent[l.turn].state = "none" /\ \A y \in Lines(stdin) : Begins1(y) => y.turn # l.turn BY <2>3
  <2>6. \A y \in Lines(stdin) : <<y, l>> \in BegunOnce BY <1>0, <2>5 DEF BegunOnce
  <2>7. Pairwise(stdin, BegunOnce)' BY <2>2, <2>6 DEF Sent, BegunOnce
  <2>8. \A y \in Lines(stdin)' : Begins1(y) => agent'[y.turn].state = "none" /\ Called(y.turn)'
    <3> SUFFICES ASSUME NEW y \in Lines(stdin)', Begins1(y) PROVE agent'[y.turn].state = "none" /\ Called(y.turn)'
      OBVIOUS
    <3>1. CASE y = l BY <2>1, <2>4, <2>5, <3>1
    <3>2. CASE y \in Lines(stdin) BY <1>0, <1>c, <1>t, <2>1, <3>2
    <3> QED BY <2>2, <3>1, <3>2 DEF Sent
  <2> QED BY <1>c, <2>1, <2>7, <2>8 DEF BegunOnce, StdinLine
<1>2. ASSUME NearSteps \/ UNCHANGED vars, SendsOther, UNCHANGED agent PROVE Fresh'
  <2>1. PICK more \in SUBSET StdinLine : Sent(more) /\ \A l \in more : ~ Begins1(l)
    <3>1. CASE Sent({}) BY <3>1
    <3>2. ASSUME NEW l \in StdinLine, Sent({l}), l.what \in {"interrupt", "reply", "set_mode"}
          PROVE  \E more \in SUBSET StdinLine : Sent(more) /\ \A x \in more : ~ Begins1(x)
      <4>1. {l} \in SUBSET StdinLine /\ \A x \in {l} : ~ Begins1(x) BY <3>2 DEF Begins1
      <4> QED BY <3>2, <4>1
    <3> QED BY <1>2, <3>1, <3>2 DEF SendsOther
  <2>2. \A y \in Lines(stdin), l \in more : <<y, l>> \in BegunOnce BY <1>0, <2>1 DEF BegunOnce
  <2>3. Pairwise(stdin, BegunOnce)' BY <2>1, <2>2 DEF Sent, BegunOnce
  <2>4. \A y \in Lines(stdin)' : Begins1(y) => y \in Lines(stdin) BY <2>1 DEF Sent
  <2> QED BY <1>0, <1>2, <1>c, <1>t, <2>3, <2>4
<1>3. ASSUME AgentSteps PROVE Fresh'
  <2>1. Sent({}) BY <1>3, AgentDoes
  <2>2. Pairwise(stdin, BegunOnce)' /\ Lines(stdin)' \subseteq Lines(stdin)
    BY <2>1 DEF Sent, BegunOnce
  <2>3. ASSUME NEW l \in StdinLine, BeginStep(l) PROVE Fresh'
    <3>1. /\ l \in Lines(stdin) /\ Begins1(l)
          /\ agent' = [agent EXCEPT ![l.turn].state = "working",
                                    ![l.turn].mode = IF l.what = "start" THEN l.data ELSE agentMode]
          /\ \A y \in Lines(stdin)' : <<l, y>> \in BegunOnce
      BY <2>3 DEF BeginStep
    <3>2. \A y \in Lines(stdin)' : Begins1(y) => y.turn # l.turn BY <3>1 DEF BegunOnce
    <3>3. \A t \in Turns \ {l.turn} : agent'[t] = agent[t] BY <1>0, <3>1 DEF Outer
    <3>4. Called(l.turn) BY <3>1
    <3> QED BY <1>0, <1>c, <1>t, <2>2, <3>2, <3>3, <3>4
  <2>4. CASE \A t \in Turns : agent'[t].state = "none" <=> agent[t].state = "none"
    BY <1>0, <1>c, <1>t, <2>2, <2>4
  <2>5. ASSUME NEW t \in Turns, NEW how \in Hows, StopStep(t, how)
        PROVE  \A u \in Turns : agent'[u].state = "none" <=> agent[u].state = "none"
    BY <1>0, <2>5 DEF StopStep, Outer, AgentTurn
  <2>6. QuietStep => \A t \in Turns : agent'[t].state = "none" <=> agent[t].state = "none"
    BY Zenon DEF QuietStep
  <2> QED BY <1>3, <2>3, <2>4, <2>5, <2>6, AgentDoes
<1>4. CASE UNCHANGED vars
  <2>1. SendsOther /\ UNCHANGED agent BY <1>4, Silent DEF SendsOther, vars, transport, outside
  <2> QED BY <1>2, <1>4, <2>1
<1>5. CASE NearSteps
  <2>1. UNCHANGED agent /\ (SendsBegin \/ SendsOther) BY <1>5, NearSide DEF outside
  <2> QED BY <1>1, <1>2, <1>5, <2>1
<1> QED BY <1>3, <1>4, <1>5, NextSteps

-----------------------------------------------------------------------------
(* Ends are told as they are. *)

\* What a turn came to does not change.
LEMMA EndedKept ==
    ASSUME Typed, Awaited, Fresh, [Next]_vars, NEW t \in Turns, agent[t].state = "ended"
    PROVE  agent'[t].state = "ended" /\ agent'[t].how = agent[t].how
<1>0. Outer BY DEF Typed
<1>1. CASE UNCHANGED agent BY <1>1
<1>2. CASE NearSteps BY <1>1, <1>2, NearSide DEF outside
<1>3. CASE AgentSteps
  <2>1. CASE QuietStep
    <3>1. /\ agent'[t].how = agent[t].how
          /\ agent'[t].state # agent[t].state => {agent[t].state, agent'[t].state} = {"working", "asking"}
      BY <2>1 DEF QuietStep
    <3>2. "ended" \notin {"working", "asking"} OBVIOUS
    <3>3. agent[t].state \in {agent[t].state, agent'[t].state} OBVIOUS
    <3> QED BY <3>1, <3>2, <3>3
  <2>2. ASSUME NEW l \in StdinLine, BeginStep(l) PROVE agent'[t] = agent[t]
    <3>1. agent[l.turn].state = "none" /\ l.turn \in Turns BY <2>2 DEF BeginStep, Fresh, StdinLine
    <3> QED BY <1>0, <2>2, <3>1 DEF BeginStep, Outer
  <2>3. ASSUME NEW u \in Turns, NEW how \in Hows, StopStep(u, how) PROVE agent'[t] = agent[t]
    <3>1. u # t BY <2>3 DEF StopStep
    <3> QED BY <1>0, <2>3, <3>1 DEF StopStep, Outer
  <2> QED BY <1>3, <2>1, <2>2, <2>3, AgentDoes
<1> QED BY <1>1, <1>2, <1>3, NextSteps DEF vars, outside

\* The steps that touch the thread.
ThreadTouched ==
    \/ TurnStart /\ thread' = [thread EXCEPT !.preparing = TRUE] /\ UNCHANGED reported
    \/ (Prompt \/ Started) /\ Activated(call.turn) /\ UNCHANGED reported
    \/ PromptAnswered \/ EndArrives \/ Replay
    \/ Interrupted /\ UNCHANGED reported
    \/ InterruptTimeout /\ UNCHANGED reported

\* All other steps leave the thread and the reports alone.
LEMMA ThreadSteps ==
    ASSUME [Next]_vars
    PROVE  UNCHANGED <<thread, reported>> \/ ThreadTouched
<1>1. ASSUME NEW mode \in Modes, SendTurn(mode) PROVE UNCHANGED <<thread, reported>>
  BY <1>1 DEF SendTurn
<1>2. CASE SetMode BY <1>2 DEF SetMode
<1>3. CASE TurnStart BY <1>3 DEF TurnStart, ThreadTouched
<1>4. CASE ModeSet \/ Refused \/ InterruptAnswered \/ Unawaited \/ Question
  BY <1>4 DEF ModeSet, Refused, InterruptAnswered, Unawaited, Question, lifecycle
<1>5. CASE Prompt BY <1>5 DEF Prompt, ThreadTouched
<1>6. CASE Started BY <1>6 DEF Started, ThreadTouched
<1>7. CASE PromptAnswered \/ EndArrives \/ Replay BY <1>7 DEF ThreadTouched
<1>8. CASE Interrupt \/ ChildClosed \/ Close BY <1>8 DEF Interrupt, ChildClosed, Close
<1>9. CASE Interrupted \/ InterruptTimeout BY <1>9 DEF Interrupted, InterruptTimeout, ThreadTouched
<1>10. ASSUME NEW r, Timeout(r) PROVE UNCHANGED <<thread, reported>>
  BY <1>10 DEF Timeout
<1>11. ASSUME NEW t \in Turns, Respond(t) PROVE UNCHANGED <<thread, reported>>
  BY <1>11 DEF Respond
<1>12. CASE AgentSteps BY <1>12, FarSide
<1>13. CASE UNCHANGED vars BY <1>13 DEF vars, lifecycle
<1> QED
  BY <1>1, <1>2, <1>3, <1>4, <1>5, <1>6, <1>7, <1>8, <1>9, <1>10, <1>11, <1>12, <1>13, NextSteps
  DEF NearSteps, Received

\* The end a line tells of is the turn's of that line, named or the latest.
LEMMA EndOfLine ==
    ASSUME Typed, Said, Alone, EndArrives \/ PromptAnswered, ~ UNCHANGED <<thread, reported>>
    PROVE  LET l == Head(stdout) IN
           /\ l \in Lines(stdout) /\ l.turn \in Turns /\ Came(l.turn, Sort(l.data))
           /\ Sort(l.data) \in {"complete", "aborted"}
           /\ \/ kind # "acp" /\ Notify(l.turn, Sort(l.data))
              \/ /\ kind = "acp" /\ Notify(NoTurn, Sort(l.data))
                 /\ EndArrives /\ l.what = "end"
                 /\ thread.muted = NoTurn => thread.latest = l.turn
<1> DEFINE l == Head(stdout)
<1>0. Wire /\ Outer /\ Runtime BY DEF Typed
<1>1. l \in Lines(stdout) /\ l \in StdoutLine /\ (EndArrives => l.what = "end")
      /\ (PromptAnswered => l.what = "answer" /\ l.method = "prompt")
  BY <1>0, Taking DEF EndArrives, PromptAnswered, AnswerTo
<1>2. l.turn \in Turns BY <1>1 DEF StdoutLine
<1>3. Tells(l) BY <1>1 DEF Tells
<1>4. agent[l.turn].state = "ended" /\ agent[l.turn].how = l.data BY <1>1, <1>3 DEF Said
<1>5. Came(l.turn, Sort(l.data)) /\ Sort(l.data) \in {"complete", "aborted"} BY <1>4 DEF Came, Sort
<1> HIDE DEF l
<1>6. kind \in {"codex", "acp", "opencode"} BY <1>0, AgentSessionAssumption DEF Outer
<1>7. CASE PromptAnswered
  <2>1. Ending(l.turn, l.data) /\ kind = "opencode" BY <1>7, AnswerTaken DEF l
  <2> QED BY <1>1, <1>2, <1>5, <2>1 DEF Ending, l
<1>8. CASE EndArrives
  <2>1. Ending(IF kind = "codex" THEN l.turn ELSE NoTurn, l.data) /\ kind # "opencode" BY <1>8, EndTaken DEF l
  <2>2. Live(l.turn) BY <1>1, <1>8 DEF Live
  <2>3. kind = "acp" /\ thread.muted = NoTurn => thread.latest = l.turn BY <1>2, <2>2 DEF Alone
  <2>4. Notify(IF kind = "codex" THEN l.turn ELSE NoTurn, Sort(l.data)) BY <2>1, Zenon DEF Ending
  <2>5. CASE kind = "codex" BY <1>1, <1>2, <1>5, <2>4, <2>5 DEF l
  <2>6. CASE kind = "acp" BY <1>1, <1>2, <1>5, <1>8, <2>3, <2>4, <2>6 DEF l
  <2> QED BY <1>6, <2>1, <2>5, <2>6
<1> QED BY <1>7, <1>8

\* Whatever is parked or reported of an end is what the turn came to.
LEMMA Reporting ==
    ASSUME Typed, Said, Alone, [Next]_vars
    PROVE  /\ \A e \in Lines(thread'.parked) :
                IF kind = "acp" THEN e.turn = NoTurn ELSE e.turn # NoTurn /\ Came(e.turn, e.how)
           /\ \A t \in Turns : reported'[t] # "none" => Came(t, reported'[t])
<1> DEFINE Good(e) == IF kind = "acp" THEN e.turn = NoTurn ELSE e.turn # NoTurn /\ Came(e.turn, e.how)
           Goal == /\ \A e \in Lines(thread'.parked) : Good(e)
                   /\ \A t \in Turns : reported'[t] # "none" => Came(t, reported'[t])
<1> SUFFICES Goal
  OBVIOUS
<1>0. Wire /\ Outer /\ Runtime BY DEF Typed
<1>p. \A e \in Lines(thread.parked) : Good(e) BY DEF Said, ParkedTrue
<1>r. \A t \in Turns : reported[t] # "none" => Came(t, reported[t])
  BY <1>0 DEF Said, EndsTrue, Came, Runtime
<1> HIDE DEF Good
<1>k. ASSUME UNCHANGED reported, thread'.parked = thread.parked PROVE Goal
  BY <1>k, <1>p, <1>r
<1>h. ASSUME NEW th \in Thread, NEW id \in TurnRef, NEW how \in {"complete", "aborted"}, HandleEnd(th, id, how),
             \A e \in Lines(th.parked) : Good(e),
             \A t \in Turns : (IF id = NoTurn THEN t = th.latest /\ thread.muted = NoTurn ELSE t = id) => Came(t, how)
      PROVE  Goal
  <2>1. thread'.parked = th.parked BY <1>0, <1>h, Handling
  <2>2. CASE UNCHANGED reported BY <1>h, <1>r, <2>1, <2>2
  <2>3. ASSUME NEW t \in Turns, IF id = NoTurn THEN t = th.latest /\ thread.muted = NoTurn ELSE t = id,
               reported' = [reported EXCEPT ![t] = how]
        PROVE  Goal
    <3>1. Came(t, how) BY <1>h, <2>3
    <3>2. \A u \in Turns : reported'[u] = IF u = t THEN how ELSE reported[u] BY <1>0, <2>3 DEF Runtime
    <3> QED BY <1>h, <1>r, <2>1, <3>1, <3>2
  <2> QED BY <1>0, <1>h, <2>2, <2>3, Handling
<1> HIDE DEF Goal
<1>1. CASE UNCHANGED <<thread, reported>> BY <1>k, <1>1
<1>2. CASE (EndArrives \/ PromptAnswered) /\ ~ UNCHANGED <<thread, reported>>
  <2> DEFINE l == Head(stdout)
             id == IF kind = "acp" THEN NoTurn ELSE l.turn
             how == Sort(l.data)
  <2>1. /\ l.turn \in Turns /\ Came(l.turn, how) /\ how \in {"complete", "aborted"} /\ Notify(id, how)
        /\ kind = "acp" /\ thread.muted = NoTurn => thread.latest = l.turn
    BY <1>2, EndOfLine
  <2> HIDE DEF l, how
  <2>2. id \in TurnRef /\ (id = NoTurn <=> kind = "acp") BY <2>1 DEF TurnRef, Turns, NoTurn
  <2>3. kind # "acp" => id = l.turn OBVIOUS
  <2> HIDE DEF id
  <2>4. CASE /\ UNCHANGED reported
             /\ thread' = [thread EXCEPT !.parked = Append(@, [turn |-> id, how |-> how])]
    <3>1. [turn |-> id, how |-> how] \in Parked BY <2>1, <2>2 DEF Parked
    <3>2. thread.parked \in Seq(Parked) BY <1>0 DEF Runtime, Thread
    <3>3. Lines(Append(thread.parked, [turn |-> id, how |-> how])) = Lines(thread.parked) \cup {[turn |-> id, how |-> how]}
      BY <3>1, <3>2, LinesAppend
    <3>4. thread'.parked = Append(thread.parked, [turn |-> id, how |-> how]) BY <1>0, <2>4 DEF Runtime, Thread
    <3>5. Good([turn |-> id, how |-> how]) BY <2>1, <2>2, <2>3 DEF Good
    <3> QED BY <1>p, <1>r, <2>4, <3>3, <3>4, <3>5 DEF Goal
  <2>5. CASE HandleEnd(thread, id, how)
    <3>1. ASSUME NEW t \in Turns, IF id = NoTurn THEN t = thread.latest /\ thread.muted = NoTurn ELSE t = id
          PROVE  Came(t, how)
      BY <2>1, <2>2, <2>3, <3>1
    <3>2. thread \in Thread BY <1>0 DEF Runtime
    <3> QED BY <1>h, <1>p, <2>1, <2>2, <2>5, <3>1, <3>2
  <2> QED BY <1>0, <2>1, <2>2, <2>4, <2>5, Notifying
<1>3. CASE Replay
  <2> DEFINE e == Head(thread.parked)
             th == [thread EXCEPT !.parked = Tail(@)]
  <2>1. thread.parked \in Seq(Parked) /\ thread.parked # <<>> BY <1>0, <1>3 DEF Replay, ToReplay, Runtime, Thread
  <2>2. /\ e \in Parked /\ Tail(thread.parked) \in Seq(Parked)
        /\ Lines(thread.parked) = Lines(Tail(thread.parked)) \cup {e}
    BY <2>1, LinesTail
  <2>3. e.turn \in TurnRef /\ e.how \in {"complete", "aborted"} BY <2>2 DEF Parked
  <2>4. th \in Thread /\ th.parked = Tail(thread.parked) BY <1>0, <2>2 DEF Runtime, Thread
  <2>5. HandleEnd(th, e.turn, e.how) BY <1>3 DEF Replay
  <2>6. Good(e) /\ \A x \in Lines(th.parked) : Good(x) BY <1>p, <2>2, <2>4
  <2>7. kind = "acp" => thread.muted # NoTurn BY <2>1 DEF Alone
  <2> HIDE DEF e, th
  <2>8. \A t \in Turns : (IF e.turn = NoTurn THEN t = th.latest /\ thread.muted = NoTurn ELSE t = e.turn)
                         => Came(t, e.how)
    BY <2>6, <2>7 DEF Good
  <2> QED BY <1>h, <2>3, <2>4, <2>5, <2>6, <2>8
<1>4. CASE UNCHANGED reported /\ ThreadTouched /\ ~ EndArrives /\ ~ PromptAnswered /\ ~ Replay
  <2>1. thread'.parked = thread.parked
    BY <1>0, <1>4 DEF ThreadTouched, Activated, Interrupted, InterruptTimeout, Runtime, Thread
  <2> QED BY <1>4, <1>k, <2>1
<1>5. CASE ThreadTouched /\ ~ EndArrives /\ ~ PromptAnswered /\ ~ Replay
  <2>1. UNCHANGED reported BY <1>5 DEF ThreadTouched
  <2> QED BY <1>4, <1>5, <2>1
<1> QED BY <1>1, <1>2, <1>3, <1>5, ThreadSteps

\* Every step keeps what is said of ends true.
LEMMA SaidNext ==
    ASSUME Typed, Awaited, Fresh, Said, Alone, [Next]_vars
    PROVE  Said'
<1>0. Wire /\ Outer /\ Runtime /\ Lines(stdout) \subseteq StdoutLine BY LinesIn DEF Typed
<1>1. \A t \in Turns : agent[t].state = "ended" => agent'[t].state = "ended" /\ agent'[t].how = agent[t].how
  BY EndedKept
<1>2. \A t \in Turns, how \in {"complete", "aborted"} : Came(t, how) => Came(t, how)'
  BY <1>1 DEF Came
<1>3. kind' = kind
  BY FarSide, NearSide, NextSteps DEF vars
<1>4. Typed' BY TypedNext
<1>5. ParkedTrue' /\ EndsTrue'
  <2>1. thread'.parked \in Seq(Parked) BY <1>4 DEF Typed, Runtime, Thread
  <2>2. \A e \in Lines(thread'.parked) : e.how \in {"complete", "aborted"} /\ e.turn \in TurnRef
    <3>1. Lines(thread'.parked) \subseteq Parked BY <2>1, LinesType
    <3> QED BY <3>1 DEF Parked
  <2>3. \A e \in Lines(thread'.parked) : e.turn # NoTurn => e.turn \in Turns BY <2>2 DEF TurnRef
  <2>4. ParkedTrue' BY <1>2, <1>3, <2>2, <2>3, Reporting DEF ParkedTrue, Lines
  <2>5. \A t \in Turns : reported'[t] # "none" => reported'[t] \in {"complete", "aborted"}
    BY <1>4 DEF Typed, Runtime
  <2>6. \A t \in Turns : reported'[t] # "none" => Came(t, reported'[t]) BY Reporting
  <2>7. EndsTrue' BY <1>1, <2>5, <2>6 DEF EndsTrue, Came
  <2> QED BY <2>4, <2>7
<1>t. \A l \in StdoutLine : l.turn \in Turns BY DEF StdoutLine
<1>6. CASE Spoken(<<>>)
  <2>1. Pairwise(stdout, EndedOnce)' /\ Lines(stdout)' \subseteq Lines(stdout)
    BY <1>6, LinesFew DEF Spoken, Said, EndedOnce
  <2>2. \A l \in Lines(stdout)' : Tells(l) => agent'[l.turn].state = "ended" /\ agent'[l.turn].how = l.data
    BY <1>0, <1>1, <1>t, <2>1 DEF Said
  <2> QED BY <1>5, <2>1, <2>2 DEF Said, Tells
<1>7. ASSUME NEW lines \in Seq(StdoutLine), Spoken(lines), Mute(lines) PROVE Said'
  <2>1. Lines(lines) \subseteq StdoutLine BY LinesType
  <2>2. Pairwise(lines, EndedOnce)
    <3>1. Len(lines) \in Nat /\ Len(lines) < 2 BY <1>7, LenProperties DEF Mute
    <3> QED BY <3>1 DEF Pairwise
  <2>3. \A x \in Lines(stdout), y \in Lines(lines) : <<x, y>> \in EndedOnce
    BY <1>0, <1>7, <2>1 DEF EndedOnce, Mute, Tells
  <2>4. Pairwise(stdout, EndedOnce)' BY <1>7, <2>2, <2>3 DEF Spoken, Said, EndedOnce
  <2>5. \A l \in Lines(stdout)' : Tells(l) => l \in Lines(stdout) BY <1>7 DEF Spoken, Mute
  <2>6. \A l \in Lines(stdout)' : Tells(l) => agent'[l.turn].state = "ended" /\ agent'[l.turn].how = l.data
    BY <1>0, <1>1, <1>t, <2>5 DEF Said
  <2> QED BY <1>5, <2>4, <2>6 DEF Said, Tells
<1>8. ASSUME NEW lines \in Seq(StdoutLine), Spoken(lines), NEW t \in Turns, NEW how \in Hows,
             EndTold(lines, t, how), StopStep(t, how)
      PROVE  Said'
  <2>1. Lines(lines) \subseteq StdoutLine BY LinesType
  <2>2. \A x \in Lines(stdout) : Tells(x) => x.turn # t BY <1>8 DEF Said, StopStep
  <2>3. \A x \in Lines(stdout), y \in Lines(lines) : <<x, y>> \in EndedOnce
    BY <1>0, <1>8, <2>1, <2>2 DEF EndedOnce, EndTold, Tells
  <2>4. Pairwise(lines, EndedOnce) BY <1>8 DEF EndTold
  <2>5. Pairwise(stdout, EndedOnce)' BY <1>8, <2>3, <2>4 DEF Spoken, Said, EndedOnce
  <2>6. agent'[t].state = "ended" /\ agent'[t].how = how BY <1>0, <1>8 DEF StopStep, Outer, AgentTurn
  <2>7. \A l \in Lines(stdout)' : Tells(l) => agent'[l.turn].state = "ended" /\ agent'[l.turn].how = l.data
    <3> SUFFICES ASSUME NEW l \in Lines(stdout)', Tells(l)
                 PROVE  agent'[l.turn].state = "ended" /\ agent'[l.turn].how = l.data
      OBVIOUS
    <3>1. CASE l \in Lines(stdout) BY <1>0, <1>1, <1>t, <3>1 DEF Said
    <3>2. CASE l \in Lines(lines) BY <1>8, <2>6, <3>2 DEF EndTold
    <3> QED BY <1>8, <3>1, <3>2 DEF Spoken
  <2> QED BY <1>5, <2>5, <2>7 DEF Said, Tells
<1>9. CASE UNCHANGED vars
  <2>1. UNCHANGED stdout BY <1>9 DEF vars, transport
  <2> QED BY <1>6, <2>1, Silent
<1>10. CASE NearSteps BY <1>6, <1>10, NearSide
<1>11. CASE AgentSteps BY <1>7, <1>8, <1>11, AgentDoes
<1> QED BY <1>9, <1>10, <1>11, NextSteps

-----------------------------------------------------------------------------
(* The one turn of an ACP agent that may still end. *)

\* Only the line that begins a turn gives it life.
LEMMA LiveKept ==
    ASSUME Typed, Awaited, [Next]_vars, NEW t \in Turns, Live(t)'
    PROVE  Live(t) \/ (NearSteps /\ SendsBegin /\ t = call.turn)
<1>0. Outer /\ Wire /\ Lines(stdin) \subseteq StdinLine BY LinesIn DEF Typed
<1>l. /\ \A l \in Lines(stdin) : Begins1(l) /\ l.turn = t => Live(t)
      /\ \A l \in Lines(stdout) : l.what = "end" /\ l.turn = t => Live(t)
  BY DEF Live
<1>1. CASE SendsOther /\ Spoken(<<>>) /\ UNCHANGED agent
  <2>1. \A l \in Lines(stdin)' : Begins1(l) => l \in Lines(stdin)
    BY <1>1 DEF SendsOther, Sent, Begins1
  <2>2. Lines(stdout)' \subseteq Lines(stdout) BY <1>1, LinesFew DEF Spoken
  <2> QED BY <1>1, <2>1, <2>2 DEF Live, Begins1
<1>2. CASE NearSteps /\ SendsBegin
  <2>1. UNCHANGED agent /\ Spoken(<<>>) BY <1>2, NearSide DEF outside
  <2>2. PICK l \in StdinLine : l.turn = call.turn /\ Sent({l}) BY <1>2 DEF SendsBegin
  <2>3. Lines(stdin)' \subseteq Lines(stdin) \cup {l} BY <2>2 DEF Sent
  <2>4. Lines(stdout)' \subseteq Lines(stdout) BY <2>1, LinesFew DEF Spoken
  <2> QED BY <1>2, <2>1, <2>2, <2>3, <2>4 DEF Live, Begins1
<1>3. CASE AgentSteps
  <2>1. Lines(stdin)' \subseteq Lines(stdin) BY <1>3, AgentDoes DEF Sent
  <2>2. ASSUME NEW l \in StdinLine, BeginStep(l), NEW lines \in Seq(StdoutLine), Spoken(lines), Mute(lines)
        PROVE  Live(t)
    <3>1. l \in Lines(stdin) /\ Begins1(l) BY <2>2 DEF BeginStep
    <3>2. CASE l.turn = t BY <1>l, <3>1, <3>2
    <3>3. CASE l.turn # t
      <4>1. agent'[t] = agent[t] BY <1>0, <2>2, <3>3 DEF BeginStep, Outer
      <4>2. \A x \in Lines(stdout)' : x.what = "end" => x \in Lines(stdout) BY <2>2 DEF Spoken, Mute, Tells
      <4> QED BY <2>1, <4>1, <4>2 DEF Live, Begins1
    <3> QED BY <3>2, <3>3
  <2>3. ASSUME QuietStep, NEW lines \in Seq(StdoutLine), Spoken(lines), Mute(lines)
        PROVE  Live(t)
    <3>1. agent'[t].state \in {"working", "asking"} => agent[t].state \in {"working", "asking"}
      <4>1. agent'[t].state # agent[t].state => {agent[t].state, agent'[t].state} = {"working", "asking"}
        BY <2>3 DEF QuietStep
      <4>2. agent[t].state \in {agent[t].state, agent'[t].state} OBVIOUS
      <4> QED BY <4>1, <4>2
    <3>2. \A x \in Lines(stdout)' : x.what = "end" => x \in Lines(stdout) BY <2>3 DEF Spoken, Mute, Tells
    <3> QED BY <2>1, <3>1, <3>2 DEF Live, Begins1
  <2>4. ASSUME NEW u \in Turns, NEW how \in Hows, StopStep(u, how),
               NEW lines \in Seq(StdoutLine), Spoken(lines), EndTold(lines, u, how)
        PROVE  Live(t)
    <3>1. CASE u = t BY <2>4, <3>1 DEF StopStep, Live
    <3>2. CASE u # t
      <4>1. agent'[t] = agent[t] BY <1>0, <2>4, <3>2 DEF StopStep, Outer
      <4>2. \A x \in Lines(stdout)' : x.what = "end" /\ x.turn = t => x \in Lines(stdout)
        BY <2>4, <3>2 DEF Spoken, EndTold, Tells
      <4> QED BY <2>1, <4>1, <4>2 DEF Live, Begins1
    <3> QED BY <3>1, <3>2
  <2> QED BY <1>3, <2>2, <2>3, <2>4, AgentDoes
<1>4. CASE UNCHANGED vars
  <2>1. SendsOther /\ Spoken(<<>>) /\ UNCHANGED agent
    BY <1>4, Silent DEF SendsOther, vars, transport, outside
  <2> QED BY <1>1, <2>1
<1>5. CASE NearSteps
  <2>1. UNCHANGED agent /\ Spoken(<<>>) /\ (SendsBegin \/ SendsOther) BY <1>5, NearSide DEF outside
  <2> QED BY <1>1, <1>2, <1>5, <2>1
<1> QED BY <1>3, <1>4, <1>5, NextSteps

\* When the latest turn's end is taken, no turn may end any more.
LEMMA NoneLives ==
    ASSUME Typed, Awaited, Fresh, Said, Alone, kind = "acp", thread.muted = NoTurn, EndArrives, NEW t \in Turns
    PROVE  ~ Live(t)'
<1> SUFFICES ASSUME Live(t)' PROVE FALSE
  OBVIOUS
<1> DEFINE l == Head(stdout)
<1>0. Wire BY DEF Typed
<1>1. /\ l \in Lines(stdout) /\ l \in StdoutLine /\ l.what = "end"
      /\ UNCHANGED <<stdin, agent>> /\ Lines(stdout)' \subseteq Lines(stdout)
      /\ \A R : Pairwise(stdout, R) => \A y \in Lines(stdout') : <<l, y>> \in R
  BY <1>0, Taking DEF EndArrives, outside
<1> HIDE DEF l
<1>2. l.turn \in Turns /\ Live(l.turn) BY <1>1 DEF Live, StdoutLine
<1>3. Live(t) BY <1>1 DEF Live, Begins1
<1>4. t = l.turn BY <1>2, <1>3 DEF Alone
<1>5. agent[t].state = "ended" BY <1>1, <1>4 DEF Said, Tells
<1>6. \A x \in Lines(stdin) : Begins1(x) => x.turn # t BY <1>5 DEF Fresh
<1>7. \A y \in Lines(stdout)' : <<l, y>> \in EndedOnce BY <1>1 DEF Said
<1>8. \A y \in Lines(stdout)' : y.what = "end" => y.turn # t BY <1>1, <1>4, <1>7 DEF EndedOnce
<1> QED BY <1>1, <1>5, <1>6, <1>8 DEF Live, Begins1

\* A call begins only when the thread is free.
LEMMA IdleKept ==
    ASSUME Typed, Awaited, [Next]_vars, call.pc = "idle", thread.machine # "IDLE"
    PROVE  call'.pc = "idle"
<1>0. Calls /\ Wire BY DEF Typed
<1>k. ASSUME UNCHANGED call PROVE call'.pc = "idle"
  BY <1>k
<1>i. ASSUME call' = [call EXCEPT !.pc = "idle"] PROVE call'.pc = "idle"
  BY <1>0, <1>i DEF Calls
<1>1. ASSUME NEW mode \in Modes, SendTurn(mode) PROVE FALSE
  BY <1>1 DEF SendTurn
<1>2. CASE SetMode \/ TurnStart \/ ModeSet BY <1>2 DEF SetMode, TurnStart, ModeSet
<1>3. CASE Prompt \/ Started BY <1>3, <1>i DEF Prompt, Started
<1>4. CASE Refused BY <1>4, <1>i DEF Refused, CallFails
<1>5. CASE InterruptAnswered \/ PromptAnswered \/ Unawaited \/ EndArrives \/ Question
  BY <1>k, <1>5 DEF InterruptAnswered, PromptAnswered, Unawaited, EndArrives, Question, lifecycle
<1>6. CASE Replay \/ Interrupted \/ InterruptTimeout \/ Interrupt
  BY <1>k, <1>6 DEF Replay, Interrupted, InterruptTimeout, Interrupt
<1>7. CASE ChildClosed \/ Close
  <2>1. RejectAll BY <1>7 DEF ChildClosed, Close
  <2> QED BY <1>0, <2>1 DEF RejectAll, Calls
<1>8. ASSUME NEW r, Timeout(r) PROVE call'.pc = "idle"
  <2>1. CASE CallFails BY <1>i, <2>1 DEF CallFails
  <2>2. CASE UNCHANGED call BY <1>k, <2>2
  <2> QED BY <1>8, <2>1, <2>2 DEF Timeout
<1>9. ASSUME NEW u \in Turns, Respond(u) PROVE call'.pc = "idle"
  BY <1>k, <1>9 DEF Respond
<1>10. CASE AgentSteps BY <1>k, <1>10, FarSide
<1>11. CASE UNCHANGED vars BY <1>k, <1>11 DEF vars, lifecycle
<1> QED
  BY <1>1, <1>2, <1>3, <1>4, <1>5, <1>6, <1>7, <1>8, <1>9, <1>10, <1>11, NextSteps
  DEF NearSteps, Received

\* What is muted at an ACP agent stays muted: its ends are not looked at.
LEMMA MutedKept ==
    ASSUME Typed, Said, Alone, [Next]_vars, kind = "acp", thread.muted # NoTurn
    PROVE  thread'.muted # NoTurn
<1>0. Wire /\ Outer /\ Runtime /\ Calls BY DEF Typed
<1>h. ASSUME NEW th, th.muted = thread.muted, NEW how, HandleEnd(th, NoTurn, how) PROVE thread'.muted # NoTurn
  BY <1>h, Zenon DEF HandleEnd, IsTurnSuppressed, Routed
<1>1. CASE UNCHANGED thread BY <1>1
<1>2. CASE (EndArrives \/ PromptAnswered) /\ ~ UNCHANGED <<thread, reported>>
  <2> DEFINE how == Sort(Head(stdout).data)
  <2>1. Notify(NoTurn, how) /\ how \in {"complete", "aborted"} BY <1>2, EndOfLine
  <2> HIDE DEF how
  <2>2. NoTurn \in TurnRef BY DEF TurnRef
  <2>3. CASE thread' = [thread EXCEPT !.parked = Append(@, [turn |-> NoTurn, how |-> how])]
    BY <1>0, <2>3 DEF Runtime, Thread
  <2> QED BY <1>0, <1>h, <2>1, <2>2, <2>3, Notifying
<1>3. CASE Replay
  <2> DEFINE e == Head(thread.parked)
             th == [thread EXCEPT !.parked = Tail(@)]
  <2>1. thread.parked \in Seq(Parked) /\ thread.parked # <<>> BY <1>0, <1>3 DEF Replay, ToReplay, Runtime, Thread
  <2>2. e \in Lines(thread.parked) BY <2>1, LinesTail
  <2>3. e.turn = NoTurn BY <2>2 DEF Said, ParkedTrue
  <2>4. HandleEnd(th, e.turn, e.how) BY <1>3 DEF Replay
  <2>5. th.muted = thread.muted BY <1>0 DEF Runtime, Thread
  <2> HIDE DEF e, th
  <2> QED BY <1>h, <2>3, <2>4, <2>5
<1>4. CASE TurnStart /\ thread' = [thread EXCEPT !.preparing = TRUE] BY <1>0, <1>4 DEF Runtime, Thread
<1>5. CASE Activated(call.turn) BY <1>0, <1>5 DEF Activated, Runtime, Thread
<1>6. CASE Interrupted
  <2>1. stop.turn \in Turns BY <1>0, <1>6 DEF Interrupted, Calls
  <2>2. stop.turn # NoTurn BY <2>1 DEF Turns, NoTurn
  <2> QED BY <1>0, <1>6, <2>2 DEF Interrupted, Runtime, Thread
<1>7. CASE InterruptTimeout BY <1>0, <1>7 DEF InterruptTimeout, Runtime, Thread
<1> QED BY <1>1, <1>2, <1>3, <1>4, <1>5, <1>6, <1>7, ThreadSteps DEF ThreadTouched

\* An end holds no new interrupt.
LEMMA HeldEnded ==
    ASSUME NEW r \in Thread, NEW t \in Turns, NEW how
    PROVE  Ended(r, t, how).held \in {r.held, NoTurn}
<1> DEFINE f == [r EXCEPT !.routed = @ \ {t}, !.latest = IF @ = t THEN NoTurn ELSE @]
<1>1. f.held = r.held /\ f \in Thread BY DEF Thread, TurnRef
<1>2. CASE how = "complete" /\ r.muted # t
  <2>1. Ended(r, t, how) = [f EXCEPT !.machine = IF @ = "RUNNING" THEN "IDLE" ELSE @, !.active = NoTurn]
    BY <1>2, Zenon DEF Ended
  <2> HIDE DEF f
  <2> QED BY <1>1, <2>1 DEF Thread
<1>3. CASE ~ (how = "complete" /\ r.muted # t)
  <2>1. Ended(r, t, how) = [f EXCEPT !.machine = IF r.held = t /\ @ = "INTERRUPTING" THEN "IDLE" ELSE @,
                                     !.held = IF @ = t THEN NoTurn ELSE @, !.muted = NoTurn]
    BY <1>3, Zenon DEF Ended
  <2> HIDE DEF f
  <2> QED BY <1>1, <2>1 DEF Thread
<1> QED BY <1>2, <1>3

\* Every step keeps an ACP agent's turn alone.
LEMMA AloneNext ==
    ASSUME Typed, Awaited, Fresh, Said, Alone, [Next]_vars
    PROVE  Alone'
<1>0. Wire /\ Outer /\ Runtime /\ Calls BY DEF Typed
<1>k. kind' = kind BY FarSide, NearSide, NextSteps DEF vars
<1> SUFFICES ASSUME kind = "acp", thread'.muted = NoTurn
             PROVE  /\ thread'.held = NoTurn /\ thread'.parked = <<>>
                    /\ \A t \in Turns : Live(t)' =>
                         thread'.latest = t /\ thread'.machine # "IDLE" /\ call'.pc = "idle"
  BY <1>k DEF Alone, Live
<1>1. /\ thread.muted = NoTurn /\ thread.held = NoTurn /\ thread.parked = <<>>
      /\ \A t \in Turns : Live(t) => thread.latest = t /\ thread.machine # "IDLE" /\ call.pc = "idle"
  <2>1. thread.muted = NoTurn BY MutedKept
  <2> QED BY <2>1 DEF Alone
<1>2. ~ Replay BY <1>1 DEF Replay, ToReplay
<1>3. CASE EndArrives /\ ~ UNCHANGED <<thread, reported>>
  <2> DEFINE l == Head(stdout)
             how == Sort(l.data)
  <2>1. l.turn \in Turns /\ Notify(NoTurn, how) /\ how \in {"complete", "aborted"} /\ thread.latest = l.turn
    BY <1>1, <1>3, EndOfLine
  <2> HIDE DEF l, how
  <2>2. thread.latest # NoTurn /\ NoTurn \in TurnRef BY <2>1 DEF Turns, NoTurn, TurnRef
  <2>3. HandleEnd(thread, NoTurn, how) BY <2>1, <2>2, Zenon DEF Notify
  <2>4. thread \in Thread BY <1>0 DEF Runtime
  <2>5. thread'.parked = thread.parked BY <1>0, <2>1, <2>2, <2>3, <2>4, Handling
  <2>6. thread' = thread \/ \E t \in Turns : thread' = Ended(thread, t, how)
    <3>1. Routed(thread, NoTurn) = thread BY Zenon DEF Routed
    <3>2. thread' = thread \/ thread' = Ended(thread, thread.latest, how) BY <2>3, <3>1, Zenon DEF HandleEnd
    <3> QED BY <2>1, <3>2
  <2>7. thread'.held \in {thread.held, NoTurn} BY <2>4, <2>6, HeldEnded
  <2>8. \A t \in Turns : ~ Live(t)' BY <1>1, <1>3, NoneLives
  <2> QED BY <1>1, <2>5, <2>7, <2>8
<1>4. CASE NearSteps /\ SendsBegin
  <2>1. Prompt /\ call.pc = "mode_again" /\ call'.pc = "idle" BY <1>4 DEF SendsBegin, Acp
  <2>2. \A t \in Turns : ~ Live(t) BY <1>1, <2>1
  <2>3. \A t \in Turns : Live(t)' => t = call.turn BY <2>2, LiveKept
  <2>4. Activated(call.turn) BY <2>1 DEF Prompt
  <2>5. /\ thread'.held = thread.held /\ thread'.parked = thread.parked
        /\ thread'.latest = call.turn /\ thread'.machine = "RUNNING"
    BY <1>0, <2>4 DEF Activated, Runtime, Thread
  <2> QED BY <1>1, <2>1, <2>3, <2>5
<1>5. CASE ~ (NearSteps /\ SendsBegin) /\ (EndArrives => UNCHANGED <<thread, reported>>)
  <2>1. \A t \in Turns : Live(t)' => Live(t) BY <1>5, LiveKept
  <2>2. \/ UNCHANGED thread
        \/ TurnStart /\ thread' = [thread EXCEPT !.preparing = TRUE]
        \/ (Prompt \/ Started) /\ Activated(call.turn)
        \/ Interrupted
    <3>1. PromptAnswered => UNCHANGED thread BY AnswerTaken
    <3>2. ~ InterruptTimeout BY <1>1 DEF InterruptTimeout
    <3> QED BY <1>2, <1>5, <3>1, <3>2, ThreadSteps DEF ThreadTouched
  <2>3. thread'.held = NoTurn /\ thread'.parked = <<>>
    <3>1. CASE UNCHANGED thread BY <1>1, <3>1
    <3>2. CASE thread' = [thread EXCEPT !.preparing = TRUE] BY <1>0, <1>1, <3>2 DEF Runtime, Thread
    <3>3. CASE Activated(call.turn) BY <1>0, <1>1, <3>3 DEF Activated, Runtime, Thread
    <3>4. CASE Interrupted
      <4>1. stop.turn # NoTurn BY <1>0, <3>4 DEF Interrupted, Calls, Turns, NoTurn
      <4>2. thread' = [thread EXCEPT !.active = NoTurn] BY <1>0, <3>4, <4>1 DEF Interrupted, Runtime, Thread
      <4> QED BY <1>0, <1>1, <4>2 DEF Runtime, Thread
    <3> QED BY <2>2, <3>1, <3>2, <3>3, <3>4
  <2>4. ASSUME NEW t \in Turns, Live(t)'
        PROVE  thread'.latest = t /\ thread'.machine # "IDLE" /\ call'.pc = "idle"
    <3>1. thread.latest = t /\ thread.machine # "IDLE" /\ call.pc = "idle" BY <1>1, <2>1, <2>4
    <3>2. call'.pc = "idle" BY <3>1, IdleKept
    <3>3. ~ TurnStart /\ ~ Prompt BY <3>1 DEF TurnStart, Prompt
    <3>4. ~ Started
      <4>1. Started => Head(stdout).turn \in Turns BY <1>0, Taking DEF Started, AnswerTo, StdoutLine
      <4> QED BY <3>1, <4>1 DEF Started, AnswerTo, Awaited
    <3>5. CASE UNCHANGED thread BY <3>1, <3>2, <3>5
    <3>6. CASE Interrupted
      <4>1. stop.turn # NoTurn BY <1>0, <3>6 DEF Interrupted, Calls, Turns, NoTurn
      <4>2. thread' = [thread EXCEPT !.active = NoTurn] BY <1>0, <3>6, <4>1 DEF Interrupted, Runtime, Thread
      <4> QED BY <1>0, <3>1, <3>2, <4>2 DEF Runtime, Thread
    <3> QED BY <2>2, <3>3, <3>4, <3>5, <3>6
  <2> QED BY <2>3, <2>4
<1> QED BY <1>3, <1>4, <1>5

-----------------------------------------------------------------------------
(* The mode of a text reaches the agent. *)

\* A step that sends no request for a mode and says no answer to one.
LEMMA ServedQuiet ==
    ASSUME Typed, Served, Without({"refuse", "slow"}),
           UNCHANGED <<env, call, wanted, agentMode>>, adapter'.mode = adapter.mode,
           link' # "closed" => link # "closed",
           \A t \in Turns : agent'[t].state # "none" => agent'[t].mode = wanted[t],
           NEW more \in SUBSET StdinLine, Sent(more), \A l \in more : l.what \in {"interrupt", "reply"},
           NEW lines \in Seq(StdoutLine), Spoken(lines), Pairwise(lines, OneAnswer),
           \A l \in Lines(lines) : l.what = "answer" => l.method # "set_mode" /\ (l.method = "start" => l.data = "ok")
    PROVE  Served'
<1>0. Lines(stdin) \subseteq StdinLine /\ Lines(stdout) \subseteq StdoutLine /\ Lines(lines) \subseteq StdoutLine
  BY LinesIn, LinesType DEF Typed
<1>1. AdapterServed /\ InServed /\ OutServed BY DEF Served
<1>2. AdapterServed' BY <1>1 DEF AdapterServed
<1>3. OutServed'
  <2>1. \A x \in Lines(stdout), y \in Lines(lines) : <<x, y>> \in OneAnswer BY <1>0 DEF OneAnswer, ModeAnswer
  <2>2. Pairwise(stdout, OneAnswer)' BY <1>1, <2>1 DEF OutServed, Spoken, OneAnswer
  <2>3. Lines(stdout)' \subseteq Lines(stdout) \cup Lines(lines) BY DEF Spoken
  <2> QED BY <1>1, <2>2, <2>3 DEF OutServed, ModeAnswer
<1>4. InServed'
  <2>1. \A y \in Lines(stdin), l \in more : <<y, l>> \in OneRequest BY <1>0 DEF OneRequest, SetsMode
  <2>2. Pairwise(stdin, OneRequest)' BY <1>1, <2>1 DEF InServed, Sent, OneRequest
  <2>3. Lines(stdin)' \subseteq Lines(stdin) \cup more BY DEF Sent
  <2>4. \A m \in Lines(stdout)' : ModeAnswer(m) => m \in Lines(stdout) BY DEF Spoken, ModeAnswer
  <2> QED BY <1>1, <2>2, <2>3, <2>4 DEF InServed, SetsMode, ModeAnswer
<1> QED BY <1>2, <1>3, <1>4 DEF Served, Without

\* Where no request for a mode and no answer to one is left, call and adapter may go on.
LEMMA ServedFree ==
    ASSUME Typed, Served, Without({"refuse", "slow"}), UNCHANGED env,
           \A l \in Lines(stdin) : ~ SetsMode(l), \A l \in Lines(stdout)' : ~ ModeAnswer(l),
           UNCHANGED outside, AdapterServed', Spoken(<<>>),
           \A t \in Turns : Called(t) => wanted'[t] = wanted[t], Fresh,
           NEW more \in SUBSET StdinLine, Sent(more),
           \A l \in more : /\ l.what = "start" => l.data = wanted'[l.turn]
                           /\ l.what = "prompt" => agentMode = wanted'[l.turn]
                           /\ SetsMode(l) => call'.pc \in {"mode_sent", "mode_again"} /\ l.data = adapter'.mode
    PROVE  Served'
<1>0. Lines(stdin) \subseteq StdinLine /\ Lines(stdout) \subseteq StdoutLine
  BY LinesIn DEF Typed
<1>1. InServed /\ OutServed BY DEF Served
<1>2. \A t \in Turns : agent'[t].state # "none" => agent'[t].mode = wanted'[t]
  BY DEF Served, Fresh, outside
<1>3. OutServed'
  <2>1. Lines(stdout)' \subseteq Lines(stdout) BY LinesFew DEF Spoken
  <2>2. Pairwise(stdout, OneAnswer)' BY <1>1, LinesFew DEF OutServed, Spoken, OneAnswer
  <2> QED BY <1>1, <2>1, <2>2 DEF OutServed, ModeAnswer
<1>4. InServed'
  <2>1. \A y \in Lines(stdin), l \in more : <<y, l>> \in OneRequest BY <1>0 DEF OneRequest
  <2>2. Pairwise(stdin, OneRequest)' BY <1>1, <2>1 DEF InServed, Sent, OneRequest
  <2>3. ASSUME NEW l \in Lines(stdin)
        PROVE  (l.what = "start" => l.data = wanted'[l.turn]) /\ (l.what = "prompt" => agentMode = wanted'[l.turn])
    <3>1. l.turn \in Turns BY <1>0 DEF StdinLine
    <3>2. Begins1(l) => wanted'[l.turn] = wanted[l.turn] BY <3>1 DEF Fresh
    <3> QED BY <1>1, <3>2 DEF InServed, Begins1
  <2>4. Lines(stdin)' \subseteq Lines(stdin) \cup more BY DEF Sent
  <2> QED BY <2>2, <2>3, <2>4 DEF InServed, outside, SetsMode
<1> QED BY <1>2, <1>3, <1>4 DEF Served, Without

\* Where the call waits for no mode, none is under way.
LEMMA NoModeUnderWay ==
    ASSUME Served, Without({"refuse", "slow"}), call.pc \notin {"mode_sent", "mode_again"}
    PROVE  (\A l \in Lines(stdin) : ~ SetsMode(l)) /\ (\A l \in Lines(stdout) : ~ ModeAnswer(l))
BY DEF Served, InServed, OutServed

\* The answer for a mode is the only one, and nothing asks for another.
LEMMA LastMode ==
    ASSUME Typed, Served, Without({"refuse", "slow"}), Take("answer"), ModeAnswer(Head(stdout))
    PROVE  (\A l \in Lines(stdin) : ~ SetsMode(l)) /\ (\A l \in Lines(stdout)' : ~ ModeAnswer(l))
<1>1. /\ Head(stdout) \in Lines(stdout)
      /\ \A R : Pairwise(stdout, R) => \A y \in Lines(stdout') : <<Head(stdout), y>> \in R
  BY Taking DEF Typed
<1>2. \A l \in Lines(stdin) : ~ SetsMode(l) BY <1>1 DEF Served, InServed
<1>3. \A y \in Lines(stdout)' : <<Head(stdout), y>> \in OneAnswer BY <1>1 DEF Served, OutServed
<1> QED BY <1>2, <1>3 DEF OneAnswer

\* The steps of a call's beginning.
LEMMA ServedCall ==
    ASSUME Typed, Awaited, Fresh, Served, Without({"refuse", "slow"}),
           (\E mode \in Modes : SendTurn(mode)) \/ SetMode \/ TurnStart \/ ModeSet \/ Prompt \/ Started
    PROVE  Served'
<1>0. Wire /\ Calls /\ Runtime /\ Outer BY DEF Typed
<1>e. {} \in SUBSET StdinLine OBVIOUS
<1>a. AdapterServed BY DEF Served
<1>1. ASSUME NEW mode \in Modes, SendTurn(mode) PROVE Served'
  <2>1. /\ call.pc = "idle" /\ UNCHANGED <<env, transport, adapter, outside>>
        /\ call' = [pc |-> IF mode = "plan" THEN "mode" ELSE "start", turn |-> call.turn + 1]
        /\ wanted' = [wanted EXCEPT ![call.turn + 1] = mode]
    BY <1>1 DEF SendTurn
  <2>2. call.turn + 1 \in Turns /\ call.turn \in Int
    BY <1>0, <1>1, AgentSessionAssumption DEF SendTurn, Calls, Turns, TurnRef, NoTurn
  <2>3. wanted'[call'.turn] = mode BY <1>0, <2>1, <2>2 DEF Runtime
  <2>4. mode # "plan" => mode = "code" BY DEF Modes
  <2>5. AdapterServed' BY <1>a, <2>1, <2>3, <2>4 DEF AdapterServed, transport
  <2>6. \A t \in Turns : Called(t) => wanted'[t] = wanted[t]
    <3>1. \A t \in Turns : Called(t) => t # call.turn + 1 BY <2>2 DEF Called, Turns
    <3> QED BY <1>0, <2>1, <3>1 DEF Runtime
  <2>7. Sent({}) /\ Spoken(<<>>) /\ Lines(stdout)' = Lines(stdout) BY <2>1, Silent DEF transport
  <2>8. (\A l \in Lines(stdin) : ~ SetsMode(l)) /\ (\A l \in Lines(stdout)' : ~ ModeAnswer(l))
    BY <2>1, <2>7, NoModeUnderWay
  <2> QED BY <1>e, <2>1, <2>5, <2>6, <2>7, <2>8, ServedFree
<1>2. CASE SetMode
  <2>1. /\ call.pc = "mode" /\ UNCHANGED <<env, outside, wanted>> /\ adapter' = [adapter EXCEPT !.mode = "plan"]
    BY <1>2 DEF SetMode
  <2>2. call.turn \in Turns /\ wanted[call.turn] = "plan" /\ adapter'.mode = "plan"
    BY <1>0, <1>a, <2>1 DEF Calls, AdapterServed, Outer
  <2>3. (\A l \in Lines(stdin) : ~ SetsMode(l)) /\ (\A l \in Lines(stdout) : ~ ModeAnswer(l))
    BY <2>1, NoModeUnderWay
  <2>4. CASE call' = [call EXCEPT !.pc = "start"] /\ UNCHANGED transport
    <3>1. call'.pc = "start" /\ call'.turn = call.turn BY <1>0, <2>4 DEF Calls
    <3>2. AdapterServed' BY <2>1, <2>2, <3>1 DEF AdapterServed
    <3>3. Sent({}) /\ Spoken(<<>>) /\ Lines(stdout)' = Lines(stdout) BY <2>4, Silent DEF transport
    <3> QED BY <1>e, <2>1, <2>3, <3>2, <3>3, ServedFree
  <2>5. CASE link = "closed" /\ CallFails /\ UNCHANGED transport
    <3>1. call'.pc = "idle" /\ link' = "closed" BY <1>0, <2>5 DEF Calls, CallFails, transport
    <3>2. AdapterServed' BY <3>1 DEF AdapterServed
    <3>3. Sent({}) /\ Spoken(<<>>) /\ Lines(stdout)' = Lines(stdout) BY <2>5, Silent DEF transport
    <3> QED BY <1>e, <2>1, <2>3, <3>2, <3>3, ServedFree
  <2>6. CASE Request("set_mode", call.turn, "plan") /\ call' = [call EXCEPT !.pc = "mode_sent"]
    <3> DEFINE l == [what |-> "set_mode", turn |-> call.turn, data |-> "plan"]
    <3>1. call'.pc = "mode_sent" /\ call'.turn = call.turn BY <1>0, <2>6 DEF Calls
    <3>2. AdapterServed' BY <2>1, <2>2, <3>1 DEF AdapterServed
    <3>3. "plan" \in Modes BY DEF Modes
    <3>4. l \in StdinLine /\ Write(l) /\ UNCHANGED stdout BY <1>0, <2>2, <2>6, <3>3, Requesting
    <3>5. Sent({l}) /\ Spoken(<<>>) BY <1>0, <3>4, Passing, Silent
    <3>6. l.what = "set_mode" /\ l.data = "plan" OBVIOUS
    <3> HIDE DEF l
    <3>7. \A x \in {l} : /\ x.what = "start" => x.data = wanted'[x.turn]
                         /\ x.what = "prompt" => agentMode = wanted'[x.turn]
                         /\ SetsMode(x) => call'.pc \in {"mode_sent", "mode_again"} /\ x.data = adapter'.mode
      BY <2>2, <3>1, <3>6
    <3>8. {l} \in SUBSET StdinLine /\ Lines(stdout)' = Lines(stdout) BY <3>4
    <3> QED BY <2>1, <2>3, <3>2, <3>5, <3>7, <3>8, ServedFree
  <2> QED BY <1>2, <2>4, <2>5, <2>6 DEF SetMode
<1>3. CASE TurnStart
  <2>1. call.pc = "start" /\ UNCHANGED <<env, outside, adapter, wanted>>
    BY <1>3 DEF TurnStart
  <2>2. call.turn \in Turns /\ adapter.mode \in Modes /\ (link # "closed" => adapter.mode = wanted[call.turn])
    BY <1>0, <1>a, <2>1 DEF Calls, AdapterServed, Outer
  <2>3. (\A l \in Lines(stdin) : ~ SetsMode(l)) /\ (\A l \in Lines(stdout) : ~ ModeAnswer(l))
    BY <2>1, NoModeUnderWay
  <2>4. CASE link = "closed" /\ CallFails /\ UNCHANGED transport
    <3>1. call'.pc = "idle" /\ link' = "closed" BY <1>0, <2>4 DEF Calls, CallFails, transport
    <3>2. AdapterServed' BY <3>1 DEF AdapterServed
    <3>3. Sent({}) /\ Spoken(<<>>) /\ Lines(stdout)' = Lines(stdout) BY <2>4, Silent DEF transport
    <3> QED BY <1>e, <2>1, <2>3, <3>2, <3>3, ServedFree
  <2>5. ASSUME NEW m \in {"set_mode", "start"}, Request(m, call.turn, adapter.mode),
               NEW pc \in {"mode_again", "started"}, call' = [call EXCEPT !.pc = pc],
               m = "set_mode" => pc = "mode_again"
        PROVE  Served'
    <3> DEFINE l == [what |-> m, turn |-> call.turn, data |-> adapter.mode]
    <3>1. call'.pc = pc /\ call'.turn = call.turn BY <1>0, <2>5 DEF Calls
    <3>2. /\ l \in StdinLine /\ Write(l) /\ UNCHANGED <<link, stdout>> /\ link # "closed"
      BY <1>0, <2>2, <2>5, Requesting
    <3>3. AdapterServed' BY <2>1, <2>2, <2>5, <3>1, <3>2 DEF AdapterServed
    <3>4. Sent({l}) /\ Spoken(<<>>) BY <1>0, <3>2, Passing, Silent
    <3>5. l.what = m /\ l.data = adapter.mode /\ l.turn = call.turn OBVIOUS
    <3> HIDE DEF l
    <3>6. \A x \in {l} : /\ x.what = "start" => x.data = wanted'[x.turn]
                         /\ x.what = "prompt" => agentMode = wanted'[x.turn]
                         /\ SetsMode(x) => call'.pc \in {"mode_sent", "mode_again"} /\ x.data = adapter'.mode
      BY <2>1, <2>2, <2>5, <3>1, <3>2, <3>5 DEF SetsMode
    <3>7. {l} \in SUBSET StdinLine /\ Lines(stdout)' = Lines(stdout) BY <3>2
    <3> QED BY <2>1, <2>3, <3>3, <3>4, <3>6, <3>7, ServedFree
  <2>6. CASE /\ Request(IF Acp THEN "set_mode" ELSE "start", call.turn, adapter.mode)
             /\ call' = [call EXCEPT !.pc = IF Acp THEN "mode_again" ELSE "started"]
    <3>1. CASE Acp BY <2>5, <2>6, <3>1
    <3>2. CASE ~ Acp BY <2>5, <2>6, <3>2
    <3> QED BY <3>1, <3>2
  <2> QED BY <1>3, <2>4, <2>6 DEF TurnStart
<1>4. CASE ModeSet
  <2>1. /\ Take("answer") /\ UNCHANGED <<wanted, outside, stdin, adapter>> /\ Head(stdout).method = "set_mode"
        /\ call.pc = "mode_sent" /\ call' = [call EXCEPT !.pc = "start"]
    BY <1>4 DEF ModeSet, AnswerTo
  <2>2. UNCHANGED <<env, link>> /\ link # "closed" /\ Spoken(<<>>) /\ Sent({}) /\ ModeAnswer(Head(stdout))
    BY <1>0, <2>1, Taking, Passing, Silent DEF ModeAnswer
  <2>3. (\A l \in Lines(stdin) : ~ SetsMode(l)) /\ (\A l \in Lines(stdout)' : ~ ModeAnswer(l))
    BY <2>1, <2>2, LastMode
  <2>4. call'.pc = "start" /\ call'.turn = call.turn BY <1>0, <2>1 DEF Calls
  <2>5. AdapterServed' BY <1>a, <2>1, <2>2, <2>4 DEF AdapterServed
  <2> QED BY <1>e, <2>1, <2>2, <2>3, <2>5, ServedFree
<1>5. CASE Prompt
  <2>1. /\ Take("answer") /\ UNCHANGED <<wanted, outside>> /\ Head(stdout).method = "set_mode"
        /\ call.pc = "mode_again" /\ call' = [call EXCEPT !.pc = "idle"]
        /\ adapter'.mode = "code"
        /\ Write([what |-> "prompt", turn |-> call.turn, data |-> "code"])
    BY <1>5 DEF Prompt, AnswerTo
  <2>2. UNCHANGED <<env, link>> /\ link # "closed" /\ Spoken(<<>>) /\ ModeAnswer(Head(stdout))
    BY <1>0, <2>1, Taking, Passing DEF ModeAnswer
  <2>3. (\A l \in Lines(stdin) : ~ SetsMode(l)) /\ (\A l \in Lines(stdout)' : ~ ModeAnswer(l))
    BY <2>1, <2>2, LastMode
  <2>4. call'.pc = "idle" BY <1>0, <2>1 DEF Calls
  <2>5. AdapterServed' BY <2>1, <2>4 DEF AdapterServed
  <2> DEFINE l == [what |-> "prompt", turn |-> call.turn, data |-> "code"]
  <2>6. l \in StdinLine BY <1>0, <2>1 DEF StdinLine, Modes, Calls
  <2>7. Sent({l}) /\ {l} \in SUBSET StdinLine BY <1>0, <2>1, <2>6, Passing
  <2>8. l.what = "prompt" /\ l.turn = call.turn OBVIOUS
  <2> HIDE DEF l
  <2>9. agentMode = wanted[call.turn]
    <3>1. Head(stdout) \in Lines(stdout) BY <1>0, <2>1, Taking
    <3>2. agentMode = adapter.mode BY <2>2, <3>1 DEF Served, OutServed
    <3> QED BY <1>a, <2>1, <2>2, <3>2 DEF AdapterServed
  <2>10. \A x \in {l} : /\ x.what = "start" => x.data = wanted'[x.turn]
                        /\ x.what = "prompt" => agentMode = wanted'[x.turn]
                        /\ SetsMode(x) => call'.pc \in {"mode_sent", "mode_again"} /\ x.data = adapter'.mode
    BY <2>1, <2>8, <2>9 DEF SetsMode
  <2> QED BY <2>1, <2>2, <2>3, <2>5, <2>7, <2>10, ServedFree
<1>6. CASE Started
  <2>1. /\ Take("answer") /\ UNCHANGED <<wanted, outside, stdin>>
        /\ adapter' = [adapter EXCEPT !.mode = "code"] /\ call' = [call EXCEPT !.pc = "idle"]
        /\ <<"start", Head(stdout).turn>> \in pending
    BY <1>6 DEF Started, AnswerTo
  <2>2. UNCHANGED <<env, link>> /\ Spoken(<<>>) /\ Sent({}) /\ Head(stdout).turn \in Turns
    BY <1>0, <2>1, Taking, Passing, Silent DEF StdoutLine
  <2>3. call.pc = "started" BY <2>1, <2>2 DEF Awaited
  <2>4. (\A l \in Lines(stdin) : ~ SetsMode(l)) /\ (\A l \in Lines(stdout)' : ~ ModeAnswer(l))
    <3>1. Lines(stdout)' \subseteq Lines(stdout) BY <2>2, LinesFew DEF Spoken
    <3> QED BY <2>3, <3>1, NoModeUnderWay
  <2>5. call'.pc = "idle" /\ adapter'.mode = "code" BY <1>0, <2>1 DEF Calls, Outer
  <2>6. AdapterServed' BY <2>5 DEF AdapterServed
  <2> QED BY <1>e, <2>1, <2>2, <2>4, <2>6, ServedFree
<1> QED BY <1>1, <1>2, <1>3, <1>4, <1>5, <1>6

\* The other steps of the program.
LEMMA ServedNear ==
    ASSUME Typed, Awaited, Fresh, Served, Without({"refuse", "slow"}), NearSteps
    PROVE  Served'
<1>0. Wire /\ Calls /\ Runtime /\ Outer BY DEF Typed
<1>n. UNCHANGED <<kind, env, outside>> /\ Spoken(<<>>) /\ (SendsBegin \/ SendsOther) BY NearSide
<1>q. ASSUME ~ SetMode, ~ TurnStart, ~ Prompt, UNCHANGED <<call, wanted, link>>, adapter'.mode = adapter.mode
      PROVE  Served'
  <2>1. \E more \in SUBSET StdinLine : Sent(more) /\ \A l \in more : l.what \in {"interrupt", "reply"}
    <3>1. CASE Sent({}) BY <3>1
    <3>2. ASSUME NEW l \in StdinLine, Sent({l}), l.what \in {"interrupt", "reply"}
          PROVE  \E more \in SUBSET StdinLine : Sent(more) /\ \A x \in more : x.what \in {"interrupt", "reply"}
      <4>1. {l} \in SUBSET StdinLine /\ \A x \in {l} : x.what \in {"interrupt", "reply"} BY <3>2
      <4> QED BY <3>2, <4>1
    <3> QED BY <1>n, <1>q, <3>1, <3>2 DEF SendsBegin, SendsOther
  <2>2. PICK more \in SUBSET StdinLine : Sent(more) /\ \A l \in more : l.what \in {"interrupt", "reply"} BY <2>1
  <2>3. <<>> \in Seq(StdoutLine) /\ Pairwise(<<>>, OneAnswer) /\ Lines(<<>>) = {} BY LinesFew
  <2>4. \A t \in Turns : agent'[t].state # "none" => agent'[t].mode = wanted[t] BY <1>n DEF Served, outside
  <2> QED BY <1>n, <1>q, <2>2, <2>3, <2>4, ServedQuiet DEF outside
<1>t. ASSUME NEW what, Take(what) PROVE UNCHANGED link
  BY <1>t DEF Take
<1>1. CASE (\E mode \in Modes : SendTurn(mode)) \/ SetMode \/ TurnStart \/ ModeSet \/ Prompt \/ Started
  BY <1>1, ServedCall
<1> SUFFICES ASSUME ~ SetMode, ~ TurnStart, ~ Prompt PROVE Served'
  BY <1>1
<1>2. ~ Refused
  <2> SUFFICES ASSUME Refused PROVE FALSE
    OBVIOUS
  <2> DEFINE l == Head(stdout)
  <2>1. Take("answer") /\ l.method \in {"set_mode", "start"} /\ ~ Ok BY DEF Refused, AnswerTo
  <2>2. l \in Lines(stdout) /\ l.what = "answer" BY <1>0, <2>1, Taking
  <2>3. l.data = "ok" BY <2>1, <2>2 DEF Served, OutServed
  <2> QED BY <2>1, <2>3 DEF Ok
<1>3. CASE InterruptAnswered
  BY <1>3, <1>q, <1>t DEF InterruptAnswered, AnswerTo
<1>4. CASE PromptAnswered
  <2>1. adapter'.mode = adapter.mode BY <1>4, AnswerTaken
  <2> QED BY <1>4, <1>q, <1>t, <2>1 DEF PromptAnswered, AnswerTo
<1>5. CASE Unawaited BY <1>5, <1>q, <1>t DEF Unawaited, lifecycle
<1>6. CASE EndArrives
  <2>1. adapter'.mode = adapter.mode BY <1>6, EndTaken
  <2> QED BY <1>6, <1>q, <1>t, <2>1 DEF EndArrives
<1>7. CASE Question BY <1>7, <1>q, <1>t DEF Question
<1>8. CASE Replay \/ Interrupted \/ InterruptTimeout
  BY <1>8, <1>q DEF Replay, Interrupted, InterruptTimeout, transport
<1>9. CASE Interrupt BY <1>9, <1>q DEF Interrupt, Request
<1>10. ASSUME NEW r, Timeout(r) PROVE FALSE
  BY <1>10 DEF Timeout, Without
<1>11. ASSUME NEW t \in Turns, Respond(t) PROVE Served'
  BY <1>11, <1>q DEF Respond
<1>12. CASE ChildClosed \/ Close
  <2>1. RejectAll /\ UNCHANGED wanted /\ link' = "closed" BY <1>12 DEF ChildClosed, Close
  <2>2. stdin' = <<>> /\ stdout' = <<>> BY <1>0, <1>12 DEF ChildClosed, Close, Wire
  <2>3. call'.turn = call.turn /\ (call'.pc = "mode" => call.pc = "mode") BY <1>0, <2>1 DEF RejectAll, Calls
  <2>4. AdapterServed' BY <2>1, <2>3 DEF AdapterServed, Served
  <2>5. InServed' BY <2>2, LinesFew DEF InServed, OneRequest
  <2>6. OutServed' BY <2>2, LinesFew DEF OutServed, OneAnswer
  <2> QED BY <1>n, <2>1, <2>4, <2>5, <2>6 DEF Served, outside, Without
<1> QED
  BY <1>1, <1>2, <1>3, <1>4, <1>5, <1>6, <1>7, <1>8, <1>9, <1>10, <1>11, <1>12 DEF NearSteps, Received

\* The agent takes the mode of its session, or of the turn it begins.
LEMMA ServedAgent ==
    ASSUME Typed, Fresh, Served, Without({"refuse", "slow"}), AgentSteps
    PROVE  Served'
<1>0. Wire /\ Outer /\ Lines(stdin) \subseteq StdinLine /\ Lines(stdout) \subseteq StdoutLine
  BY LinesIn DEF Typed
<1> DEFINE l == Head(stdin)
<1>s. Sent({}) /\ UNCHANGED <<kind, env, adapter, call, wanted>>
  BY AgentDoes, FarSide
<1>i. InServed /\ OutServed /\ AdapterServed /\ \A t \in Turns : agent[t].state # "none" => agent[t].mode = wanted[t]
  BY DEF Served
<1>k. ASSUME UNCHANGED agentMode, link' # "closed" => link # "closed",
             \A t \in Turns : agent'[t].state # "none" => agent'[t].mode = wanted[t],
             NEW lines \in Seq(StdoutLine), Spoken(lines), Pairwise(lines, OneAnswer),
             \A x \in Lines(lines) : x.what = "answer" => x.method # "set_mode" /\ (x.method = "start" => x.data = "ok")
      PROVE  Served'
  <2>1. {} \in SUBSET StdinLine /\ \A x \in {} : x.what \in {"interrupt", "reply"} OBVIOUS
  <2> QED BY <1>k, <1>s, <2>1, ServedQuiet
<1>e. <<>> \in Seq(StdoutLine) /\ Pairwise(<<>>, OneAnswer) /\ Lines(<<>>) = {} BY LinesFew
<1>r. ASSUME NEW what, Reads(what)
      PROVE  /\ link = "open" /\ l \in StdinLine /\ l \in Lines(stdin) /\ l.turn \in Turns /\ l.what = what
             /\ \A R : Pairwise(stdin, R) => \A y \in Lines(stdin') : <<l, y>> \in R
  <2>1. link = "open" /\ stdin # <<>> /\ stdin' = Tail(stdin) /\ l.what = what BY <1>r DEF Reads
  <2>2. l \in StdinLine BY <1>0, <2>1, Reading
  <2> QED BY <1>0, <2>1, <2>2, Reading DEF StdinLine
<1>f. ASSUME NEW m, Refuses(m) PROVE FALSE
  BY <1>f DEF Refuses, Without
<1>b. ASSUME NEW m \in {"start", "interrupt"}, NEW t \in Turns
      PROVE  LET x == Line("answer", m, t, "ok") IN
             /\ <<x>> \in Seq(StdoutLine) /\ Pairwise(<<x>>, OneAnswer) /\ Lines(<<x>>) = {x}
             /\ x.method = m /\ x.data = "ok"
  <2>1. Line("answer", m, t, "ok") \in StdoutLine BY DEF Line, StdoutLine
  <2>2. Line("answer", m, t, "ok").method = m /\ Line("answer", m, t, "ok").data = "ok" BY DEF Line
  <2> QED BY <2>1, <2>2, LinesFew, OneLine
<1>m. ASSUME \A t \in Turns : agent'[t].mode = agent[t].mode /\ (agent'[t].state # "none" => agent[t].state # "none")
      PROVE  \A t \in Turns : agent'[t].state # "none" => agent'[t].mode = wanted[t]
  BY <1>i, <1>m
<1>1. CASE ReadsStart
  <2>1. Reads("start") BY <1>1 DEF ReadsStart
  <2>2. /\ Begins(l.turn, l.data) /\ UNCHANGED agentMode
        /\ Say(<<Line("answer", "start", l.turn, "ok")>>)
    BY <1>1, <1>f DEF ReadsStart
  <2> DEFINE x == Line("answer", "start", l.turn, "ok")
  <2>3. l.turn \in Turns /\ l.data = wanted[l.turn] /\ link = "open" BY <1>i, <1>r, <2>1 DEF InServed
  <2>4. /\ <<x>> \in Seq(StdoutLine) /\ Pairwise(<<x>>, OneAnswer) /\ Lines(<<x>>) = {x}
        /\ x.method = "start" /\ x.data = "ok"
    BY <1>b, <2>3
  <2>5. Spoken(<<x>>) BY <1>0, <2>2, <2>4, Passing
  <2> HIDE DEF x, l
  <2>6. \A t \in Turns : agent'[t].state # "none" => agent'[t].mode = wanted[t]
    BY <1>0, <1>i, <2>2, <2>3 DEF Begins, Outer, AgentTurn
  <2>7. \A y \in Lines(<<x>>) : y.what = "answer" => y.method # "set_mode" /\ (y.method = "start" => y.data = "ok")
    BY <2>4
  <2> QED BY <1>k, <2>2, <2>3, <2>4, <2>5, <2>6, <2>7
<1>2. CASE ReadsMode
  <2>1. Reads("set_mode") BY <1>2 DEF ReadsMode
  <2>2. /\ agentMode' = l.data /\ UNCHANGED agent
        /\ Say(<<Line("answer", "set_mode", l.turn, "ok")>>)
    BY <1>2, <1>f DEF ReadsMode
  <2> DEFINE x == Line("answer", "set_mode", l.turn, "ok")
  <2>3. /\ link = "open" /\ l \in StdinLine /\ l \in Lines(stdin) /\ l.turn \in Turns /\ SetsMode(l)
        /\ \A y \in Lines(stdin') : <<l, y>> \in OneRequest
    BY <1>i, <1>r, <2>1 DEF InServed, SetsMode
  <2>4. x \in StdoutLine /\ x.what = "answer" /\ x.method = "set_mode" /\ x.data = "ok"
    BY <2>3 DEF Line, StdoutLine
  <2>5. Spoken(<<x>>) BY <1>0, <2>2, <2>4, OneLine, Passing
  <2>6. /\ call.pc \in {"mode_sent", "mode_again"} /\ l.data = adapter.mode
        /\ \A m \in Lines(stdout) : ~ ModeAnswer(m)
    BY <1>i, <2>3 DEF InServed
  <2>7. UNCHANGED link BY <2>2 DEF Say
  <2> HIDE DEF x, l
  <2>8. AdapterServed' BY <1>i, <1>s, <2>7 DEF AdapterServed
  <2>9. Lines(stdin)' \subseteq Lines(stdin) /\ \A y \in Lines(stdin)' : ~ SetsMode(y) /\ y.what # "prompt"
    BY <1>s, <2>3 DEF Sent, OneRequest
  <2>10. InServed'
    <3>1. Pairwise(stdin, OneRequest)' BY <1>i, <1>s DEF InServed, Sent, OneRequest
    <3>2. \A y \in Lines(stdin)' : y.what = "start" => y.data = wanted'[y.turn] BY <1>i, <1>s, <2>9 DEF InServed
    <3> QED BY <2>9, <3>1, <3>2 DEF InServed, SetsMode
  <2>11. OutServed'
    <3>1. Lines(<<x>>) = {x} /\ Pairwise(<<x>>, OneAnswer) BY LinesFew
    <3>2. \A y \in Lines(stdout) : <<y, x>> \in OneAnswer BY <1>0, <2>4, <2>6 DEF OneAnswer
    <3>3. Pairwise(stdout, OneAnswer)' BY <1>i, <2>5, <3>1, <3>2 DEF OutServed, Spoken, OneAnswer
    <3>4. Lines(stdout)' \subseteq Lines(stdout) \cup {x} BY <2>5, <3>1 DEF Spoken
    <3>5. \A y \in Lines(stdout)' : ModeAnswer(y) => call'.pc \in {"mode_sent", "mode_again"} /\ agentMode' = adapter'.mode
      BY <1>s, <2>2, <2>6
    <3>6. \A y \in Lines(stdout)' : y.what = "answer" /\ y.method \in {"set_mode", "start"} => y.data = "ok"
      BY <1>i, <2>4, <3>4 DEF OutServed
    <3> QED BY <3>3, <3>5, <3>6 DEF OutServed, ModeAnswer
  <2> QED BY <1>i, <1>s, <2>2, <2>8, <2>10, <2>11 DEF Served, Without
<1>3. CASE ReadsPrompt
  <2>1. Reads("prompt") /\ Begins(l.turn, agentMode) /\ UNCHANGED <<agentMode, stdout, link>> BY <1>3 DEF ReadsPrompt
  <2>2. l.turn \in Turns /\ agentMode = wanted[l.turn] BY <1>i, <1>r, <2>1 DEF InServed
  <2> HIDE DEF l
  <2>3. \A t \in Turns : agent'[t].state # "none" => agent'[t].mode = wanted[t]
    BY <1>0, <1>i, <2>1, <2>2 DEF Begins, Outer, AgentTurn
  <2> QED BY <1>e, <1>k, <2>1, <2>3, Silent
<1>h. ASSUME NEW t \in Turns, NEW how \in Hows, NEW lines \in Seq(StdoutLine), Spoken(lines),
             EndTold(lines, t, how), StopStep(t, how), link' # "closed" => link # "closed"
      PROVE  Served'
  <2>1. \A u \in Turns : agent'[u].state # "none" => agent'[u].mode = wanted[u]
    BY <1>0, <1>h, <1>i DEF StopStep, Outer, AgentTurn
  <2>2. Pairwise(lines, OneAnswer) BY <1>h DEF EndTold
  <2>3. \A x \in Lines(lines) : x.what = "answer" => x.method # "set_mode" /\ (x.method = "start" => x.data = "ok")
    BY <1>h DEF EndTold
  <2> QED BY <1>h, <1>k, <2>1, <2>2, <2>3 DEF StopStep
<1>4. CASE ReadsInterrupt
  <2> DEFINE answer == IF Acp THEN <<>> ELSE <<Line("answer", "interrupt", l.turn, "ok")>>
  <2>1. Reads("interrupt") BY <1>4 DEF ReadsInterrupt
  <2>2. \/ agent[l.turn].state \in {"working", "asking"} /\ Stops(l.turn, "cancelled", answer)
        \/ Say(answer) /\ UNCHANGED outside
    BY <1>4, <1>f, Zenon DEF ReadsInterrupt
  <2>3. l.turn \in Turns /\ link = "open" BY <1>r, <2>1
  <2> HIDE DEF l
  <2>4. /\ answer \in Seq(StdoutLine) /\ Pairwise(answer, OneAnswer)
        /\ \A x \in Lines(answer) : x.method = "interrupt"
        /\ answer = <<>> \/ \E m \in StdoutLine : answer = <<m>> /\ m.what = "answer" /\ m.method = "interrupt"
    <3>1. CASE Acp BY <1>e, <3>1
    <3>2. CASE ~ Acp
      <4> DEFINE x == Line("answer", "interrupt", l.turn, "ok")
      <4>1. answer = <<x>> BY <3>2
      <4>2. x \in StdoutLine /\ x.what = "answer" /\ x.method = "interrupt" BY <2>3 DEF Line, StdoutLine
      <4>3. <<x>> \in Seq(StdoutLine) /\ Pairwise(<<x>>, OneAnswer) /\ Lines(<<x>>) = {x} BY <1>b, <2>3
      <4> HIDE DEF answer, x
      <4> QED BY <4>1, <4>2, <4>3
    <3> QED BY <3>1, <3>2
  <2> HIDE DEF answer
  <2>5. CASE agent[l.turn].state \in {"working", "asking"} /\ Stops(l.turn, "cancelled", answer)
    <3>1. "cancelled" \in Hows BY DEF Hows
    <3>2. /\ StopStep(l.turn, "cancelled")
          /\ \E lines \in Seq(StdoutLine) : Spoken(lines) /\ EndTold(lines, l.turn, "cancelled")
      BY <1>0, <2>3, <2>4, <2>5, <3>1, Stopping
    <3> QED BY <1>h, <2>3, <3>1, <3>2
  <2>6. CASE Say(answer) /\ UNCHANGED outside
    <3>1. Spoken(answer) BY <1>0, <2>4, <2>6, Passing
    <3> QED BY <1>i, <1>k, <2>3, <2>4, <2>6, <3>1 DEF outside
  <2> QED BY <2>2, <2>5, <2>6
<1>5. CASE ReadsReply
  <2>1. /\ Reads("reply") /\ UNCHANGED <<stdout, link, agentMode>>
        /\ agent' = [agent EXCEPT ![l.turn].state = IF @ = "asking" THEN "working" ELSE @]
    BY <1>5 DEF ReadsReply
  <2>2. l.turn \in Turns BY <1>r, <2>1
  <2> HIDE DEF l
  <2>3. \A t \in Turns : agent'[t].mode = agent[t].mode /\ (agent'[t].state # "none" => agent[t].state # "none")
    BY <1>0, <2>1, <2>2 DEF Outer, AgentTurn
  <2> QED BY <1>e, <1>k, <1>m, <2>1, <2>3, Silent
<1>6. ~ Ignores BY DEF Ignores, Without
<1>7. ASSUME NEW t \in Turns, Asks(t) PROVE Served'
  <2>1. PICK what \in {"approval", "unknown"} \cup (env \cap {"elicit"}) :
           /\ agent' = [agent EXCEPT ![t].state = "asking", ![t].asks = what]
           /\ Say(<<Line("question", "none", t, what)>>)
    BY <1>7 DEF Asks
  <2>2. link = "open" /\ UNCHANGED agentMode /\ agent[t].state = "working" BY <1>7 DEF Asks
  <2>3. what \in {"approval", "unknown", "elicit"} OBVIOUS
  <2> DEFINE x == Line("question", "none", t, what)
  <2>4. x \in StdoutLine /\ x.what = "question" BY <2>3 DEF Line, StdoutLine
  <2>5. Say(<<x>>) BY <2>1
  <2> HIDE DEF x
  <2>6. <<x>> \in Seq(StdoutLine) /\ Pairwise(<<x>>, OneAnswer) /\ Lines(<<x>>) = {x} BY <2>4, OneLine, LinesFew
  <2>7. Spoken(<<x>>) BY <1>0, <2>5, <2>6, Passing
  <2>8. \A u \in Turns : agent'[u].mode = agent[u].mode /\ (agent'[u].state # "none" => agent[u].state # "none")
    BY <1>0, <2>1, <2>2 DEF Outer, AgentTurn
  <2> QED BY <1>k, <1>m, <2>2, <2>4, <2>6, <2>7, <2>8
<1>8. ASSUME NEW t \in Turns, Ends(t) PROVE Served'
  <2>1. PICK how \in Hows : Stops(t, how, <<>>) BY <1>8 DEF Ends, Hows
  <2>2. agent[t].state \in {"working", "asking"} /\ link = "open" BY <1>8 DEF Ends
  <2>3. StopStep(t, how) /\ \E lines \in Seq(StdoutLine) : Spoken(lines) /\ EndTold(lines, t, how)
    BY <1>0, <2>1, <2>2, Stopping
  <2> QED BY <1>h, <2>2, <2>3
<1>9. CASE Exits
  <2>1. link = "open" /\ UNCHANGED <<stdout, agent, agentMode>> BY <1>9 DEF Exits, outside
  <2> QED BY <1>e, <1>i, <1>k, <2>1, Silent
<1> QED BY <1>1, <1>2, <1>3, <1>4, <1>5, <1>6, <1>7, <1>8, <1>9 DEF AgentSteps, AgentReads

\* Every step keeps the modes.
LEMMA ServedNext ==
    ASSUME Typed, Awaited, Fresh, Served, [Next]_vars
    PROVE  Served'
<1>1. CASE UNCHANGED vars
  BY <1>1 DEF vars, transport, lifecycle, outside, Served, AdapterServed, InServed, OutServed, Without,
              OneRequest, OneAnswer, SetsMode, ModeAnswer
<1>2. CASE Next
  <2>1. env' = env BY <1>2, FarSide, NearSide, NextSteps
  <2>2. CASE Without({"refuse", "slow"}) BY <1>2, <2>2, NextSteps, ServedNear, ServedAgent
  <2>3. CASE ~ Without({"refuse", "slow"}) BY <2>1, <2>3 DEF Served, Without
  <2> QED BY <2>2, <2>3
<1> QED BY <1>1, <1>2

-----------------------------------------------------------------------------
(* The theorems. *)

\* The invariant holds at the start.
LEMMA InvInit == Init => IInv
<1> SUFFICES ASSUME Init PROVE IInv
  OBVIOUS
<1>0. Typed BY TypedInit
<1> USE DEF Init
<1>1. Lines(stdin) = {} /\ Lines(stdout) = {} /\ Lines(thread.parked) = {} /\ \A R : Pairwise(<<>>, R)
  BY LinesFew
<1>2. Fresh BY <1>1 DEF Fresh
<1>3. ParkedTrue /\ EndsTrue BY <1>1 DEF ParkedTrue, EndsTrue
<1>4. Said BY <1>1, <1>3 DEF Said
<1>5. Alone BY <1>1 DEF Alone, Live
<1>6. Awaited BY DEF Awaited
<1>7. AdapterServed /\ InServed /\ OutServed BY <1>1 DEF AdapterServed, InServed, OutServed
<1>8. Served BY <1>7 DEF Served
<1> QED BY <1>0, <1>2, <1>4, <1>5, <1>6, <1>8 DEF IInv

\* Every step keeps the invariant.
LEMMA InvNext == IInv /\ [Next]_vars => IInv'
<1> SUFFICES ASSUME IInv, [Next]_vars PROVE IInv'
  OBVIOUS
<1> USE DEF IInv
<1>1. Typed' BY TypedNext
<1>2. Awaited' BY AwaitedNext
<1>3. Fresh' BY FreshNext
<1>4. Said' BY SaidNext
<1>5. Alone' BY AloneNext
<1>6. Served' BY ServedNext
<1> QED BY <1>1, <1>2, <1>3, <1>4, <1>5, <1>6

\* The invariant always holds.
LEMMA Invariant == Spec => []IInv
BY InvInit, InvNext, PTL DEF Spec

\* In every environment the runtime reports a turn's end as the turn came to it, be
\* the end named or not, and a turn runs in the mode its user asked for, unless a
\* start is refused or times out.
THEOREM TurnsAlwaysTrue == Spec => []TurnsTrue
<1>1. IInv => TurnsTrue
  <2> SUFFICES ASSUME IInv PROVE TurnsTrue
    OBVIOUS
  <2>1. TypeOK BY TypesHold DEF IInv
  <2>2. EndsTrue BY DEF IInv, Said
  <2>3. ModeServed BY DEF IInv, Served, ModeServed
  <2> QED BY <2>1, <2>2, <2>3 DEF TurnsTrue
<1> QED BY <1>1, Invariant, PTL

\* Until a turn of an ACP agent was interrupted, only one turn may still end: the
\* latest, while its thread is not free and no other is being started.  So an
\* update that names no turn is never taken for another turn's.
THEOREM AcpTurnsAlone == Spec => []Alone
<1>1. IInv => Alone BY DEF IInv
<1> QED BY <1>1, Invariant, PTL
=============================================================================
