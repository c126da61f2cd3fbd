---------------------------- MODULE AgentSession ----------------------------
(***************************************************************************)
(* One thread's agent process and the client that speaks to it over        *)
(* stdin and stdout: StdioRpcTransport and JsonRpcClient, the adapters of  *)
(* Codex and of the ACP backends, and as much of the turn lifecycle and    *)
(* of the event runtime as decides whose end an end is.                    *)
(*                                                                         *)
(* A turn is a number, given to the texts in their order.  "acp" is an     *)
(* ACP backend whose updates end a turn, "opencode" one whose answer to    *)
(* the prompt does.  The agent itself is outside the repository.           *)
(***************************************************************************)
EXTENDS Integers, Sequences, FiniteSets

CONSTANTS
    MaxTurns,   \* texts users send
    Kinds,      \* the backends looked at
    Envs        \* the sets of hardships looked at

\* "interrupt" users interrupt turns
\* "late"      an interrupted turn ends after the 30 s of its timer
\* "refuse"    the agent answers requests with errors
\* "slow"      requests time out, because the agent is slow or answers nothing
\* "exit"      the agent's process dies
\* "release"   the API is closed while it is in use
\* "odd"       turns stop for reasons the adapters do not know
\* "elicit"    an ACP agent asks the user for a text
Hardships == {"interrupt", "late", "refuse", "slow", "exit", "release", "odd", "elicit"}

ASSUME AgentSessionAssumption ==
    /\ MaxTurns \in Nat \ {0}
    /\ Kinds \subseteq {"codex", "acp", "opencode"}
    /\ Envs \subseteq SUBSET Hardships

Turns == 1 .. MaxTurns
NoTurn == 0
TurnRef == Turns \cup {NoTurn}
Modes == {"code", "plan"}

VARIABLES
    kind, env,  \* chosen at the start
    link,       \* the child: open, dead, or closed to the transport
    pending,    \* requests without an answer: <<method, turn>>
    stdin,      \* lines to the agent
    stdout,     \* lines from the agent
    adapter,    \* pendingMode, currentTurnId, turnFinished
    call,       \* sendTurn: where it is, its turn
    stop,       \* handleTurnInterrupt: where it is, its turn
    thread,     \* the state machine and the runtime's maps for the thread
    asked,      \* turns whose question is shown to the user
    wanted,     \* the mode each text asked for
    reported,   \* how the runtime learned that a turn ended (finishedTurns)
    agent,      \* each turn at the agent
    agentMode   \* the mode of an ACP session

transport == <<link, pending, stdin, stdout>>
lifecycle == <<call, stop, thread, asked, wanted, reported>>
outside   == <<agent, agentMode>>
vars      == <<kind, env, transport, adapter, lifecycle, outside>>

Acp == kind # "codex"
Without(S) == env \cap S = {}

Init ==
    /\ kind \in Kinds
    /\ env \in Envs
    /\ link = "open" /\ pending = {} /\ stdin = <<>> /\ stdout = <<>>
    /\ adapter = [mode |-> "code", current |-> NoTurn, finished |-> FALSE]
    /\ call = [pc |-> "idle", turn |-> NoTurn]
    /\ stop = [pc |-> "idle", turn |-> NoTurn]
    /\ thread = [machine |-> "IDLE", active |-> NoTurn, held |-> NoTurn, muted |-> NoTurn,
                 latest |-> NoTurn, routed |-> {}, preparing |-> FALSE, parked |-> <<>>]
    /\ asked = {}
    /\ wanted = [t \in Turns |-> "code"]
    /\ reported = [t \in Turns |-> "none"]
    /\ agent = [t \in Turns |-> [state |-> "none", mode |-> "code", how |-> "none", asks |-> "none"]]
    /\ agentMode = "code"

-----------------------------------------------------------------------------
(* Requests. *)

\* A line to the agent; nothing reads what a dead process was sent.
Write(line) == stdin' = IF link = "open" THEN Append(stdin, line) ELSE stdin

Request(method, t, mode) ==
    /\ link # "closed"
    /\ pending' = pending \cup {<<method, t>>}
    /\ Write([what |-> method, turn |-> t, data |-> mode])
    /\ UNCHANGED <<link, stdout>>

\* sendTurn's catch block.  The runtime still awaits the turn it was told of.
CallFails == call' = [call EXCEPT !.pc = "idle"]

SendTurn(mode) ==
    /\ call.pc = "idle" /\ call.turn < MaxTurns
    /\ thread.machine = "IDLE"
    /\ call' = [pc |-> IF mode = "plan" THEN "mode" ELSE "start", turn |-> call.turn + 1]
    /\ wanted' = [wanted EXCEPT ![call.turn + 1] = mode]
    /\ UNCHANGED <<kind, env, transport, adapter, stop, thread, asked, reported, outside>>

\* Codex learns the mode with the turn, an ACP agent by a request of its own.
SetMode ==
    /\ call.pc = "mode"
    /\ adapter' = [adapter EXCEPT !.mode = "plan"]
    /\ IF ~ Acp THEN call' = [call EXCEPT !.pc = "start"] /\ UNCHANGED transport
       ELSE \/ Request("set_mode", call.turn, "plan") /\ call' = [call EXCEPT !.pc = "mode_sent"]
            \/ link = "closed" /\ CallFails /\ UNCHANGED transport
    /\ UNCHANGED <<kind, env, stop, thread, asked, wanted, reported, outside>>

\* prepareTurn, then turnStart: an ACP agent is told the mode again.
TurnStart ==
    /\ call.pc = "start"
    /\ thread' = [thread EXCEPT !.preparing = TRUE]
    /\ \/ /\ Request(IF Acp THEN "set_mode" ELSE "start", call.turn, adapter.mode)
          /\ call' = [call EXCEPT !.pc = IF Acp THEN "mode_again" ELSE "started"]
       \/ link = "closed" /\ CallFails /\ UNCHANGED transport
    /\ UNCHANGED <<kind, env, adapter, stop, asked, wanted, reported, outside>>

-----------------------------------------------------------------------------
(* The runtime. *)

\* activateTurn.
Activated(t) ==
    thread' = [thread EXCEPT !.machine = "RUNNING", !.active = t, !.latest = t,
                             !.routed = @ \cup {t}, !.preparing = FALSE]

\* resolveTurnRoute: an id nobody activated is activated.
Routed(r, id) ==
    IF id = NoTurn \/ id \in r.routed THEN r
    ELSE [r EXCEPT !.latest = id, !.routed = @ \cup {id}, !.preparing = FALSE]

IsTurnSuppressed(id) == id = NoTurn /\ thread.muted # NoTurn

\* finishTurn frees a running machine, whatever turn is active.  An abort, or a
\* completion taken for one, frees only the interrupt it belongs to.
Ended(r, t, how) ==
    LET f == [r EXCEPT !.routed = @ \ {t}, !.latest = IF @ = t THEN NoTurn ELSE @]
    IN  IF how = "complete" /\ r.muted # t
        THEN [f EXCEPT !.machine = IF @ = "RUNNING" THEN "IDLE" ELSE @, !.active = NoTurn]
        ELSE [f EXCEPT !.machine = IF r.held = t /\ @ = "INTERRUPTING" THEN "IDLE" ELSE @,
                       !.held = IF @ = t THEN NoTurn ELSE @, !.muted = NoTurn]

\* An end without an id is the latest turn's; only a turn's first end counts.
HandleEnd(th, id, how) ==
    LET r == Routed(th, id)
        t == IF id = NoTurn THEN r.latest ELSE id
    IN  IF t = NoTurn \/ IsTurnSuppressed(id) \/ reported[t] # "none"
        THEN thread' = r /\ UNCHANGED reported
        ELSE thread' = Ended(r, t, how) /\ reported' = [reported EXCEPT ![t] = how]

\* attachSource: an event is parked while a turn is prepared and none is known.
Notify(id, how) ==
    IF thread.preparing /\ thread.latest = NoTurn
    THEN thread' = [thread EXCEPT !.parked = Append(@, [turn |-> id, how |-> how])] /\ UNCHANGED reported
    ELSE HandleEnd(thread, id, how)

ToReplay == ~ thread.preparing /\ thread.parked # <<>>

\* What was parked is handled before anything that comes later.
Replay ==
    /\ ToReplay
    /\ LET e == Head(thread.parked)
       IN  HandleEnd([thread EXCEPT !.parked = Tail(@)], e.turn, e.how)
    /\ UNCHANGED <<kind, env, transport, adapter, call, stop, asked, wanted, outside>>

-----------------------------------------------------------------------------
(* The adapters. *)

\* An adapter forwards one end of its current turn.
ShouldSuppress(id) == adapter.finished /\ id \in {NoTurn, adapter.current}

Forward(id, stopReason) ==
    IF stopReason \notin {"end_turn", "cancelled"} \/ ShouldSuppress(id)
    THEN UNCHANGED <<adapter, thread, reported>>
    ELSE /\ adapter' = [adapter EXCEPT !.current = IF id = NoTurn THEN @ ELSE id, !.finished = TRUE]
         /\ Notify(id, IF stopReason = "cancelled" THEN "aborted" ELSE "complete")

\* prompt_response: ignored where the answer to the prompt ends the turn.
PromptResponse ==
    IF kind = "opencode" THEN UNCHANGED <<adapter, thread, reported>>
    ELSE Forward(NoTurn, Head(stdout).data)

\* Mutant: the id of the turn is not found in the notification.
EndUnnamed ==
    /\ Notify(NoTurn, IF Head(stdout).data = "cancelled" THEN "aborted" ELSE "complete")
    /\ UNCHANGED adapter

\* turn/completed, of whatever status but "interrupted".
TurnCompleted ==
    /\ Notify(Head(stdout).turn, IF Head(stdout).data = "cancelled" THEN "aborted" ELSE "complete")
    /\ UNCHANGED adapter

PromptComplete(t, stopReason) ==
    IF kind = "opencode" THEN Forward(t, stopReason) ELSE UNCHANGED <<adapter, thread, reported>>

-----------------------------------------------------------------------------
(* What the transport reads. *)

Take(what) ==
    /\ link # "closed" /\ ~ ToReplay
    /\ stdout # <<>> /\ Head(stdout).what = what
    /\ stdout' = Tail(stdout)
    /\ UNCHANGED <<kind, env, link>>

\* The answer to a request that still waits, good or an error.
AnswerTo(method) ==
    /\ Take("answer")
    /\ Head(stdout).method = method /\ <<method, Head(stdout).turn>> \in pending
    /\ UNCHANGED <<asked, wanted, outside>>
Ok == Head(stdout).data # "error"
Settled(method) == pending' = pending \ {<<method, call.turn>>}

\* An answer nobody waits for any more is not looked at.
Unawaited ==
    /\ Take("answer") /\ <<Head(stdout).method, Head(stdout).turn>> \notin pending
    /\ UNCHANGED <<pending, stdin, adapter, lifecycle, outside>>

ModeSet ==
    /\ AnswerTo("set_mode") /\ Ok /\ call.pc = "mode_sent"
    /\ Settled("set_mode")
    /\ call' = [call EXCEPT !.pc = "start"]
    /\ UNCHANGED <<stdin, adapter, stop, thread, reported>>

\* session/prompt is sent and not awaited: the turn counts as started.
Prompt ==
    /\ AnswerTo("set_mode") /\ Ok /\ call.pc = "mode_again"
    /\ pending' = (pending \ {<<"set_mode", call.turn>>}) \cup {<<"prompt", call.turn>>}
    /\ Write([what |-> "prompt", turn |-> call.turn, data |-> "code"])
    /\ adapter' = [mode |-> "code", current |-> call.turn, finished |-> FALSE]
    /\ Activated(call.turn)
    /\ call' = [call EXCEPT !.pc = "idle"]
    /\ UNCHANGED <<stop, reported>>

\* Codex answers turn/start with the turn.
Started ==
    /\ AnswerTo("start") /\ Ok
    /\ Settled("start")
    /\ adapter' = [adapter EXCEPT !.mode = "code"]
    /\ Activated(call.turn)
    /\ call' = [call EXCEPT !.pc = "idle"]
    /\ UNCHANGED <<stdin, stop, reported>>

\* The mode a refused turn asked for stays pending.
Refused ==
    /\ AnswerTo("set_mode") \/ AnswerTo("start")
    /\ ~ Ok
    /\ Settled(Head(stdout).method)
    /\ CallFails
    /\ UNCHANGED <<stdin, adapter, stop, thread, reported>>

InterruptAnswered ==
    /\ AnswerTo("interrupt")
    /\ pending' = pending \ {<<"interrupt", stop.turn>>}
    /\ stop' = [stop EXCEPT !.pc = IF Ok THEN "told" ELSE "idle"]
    /\ UNCHANGED <<stdin, adapter, call, thread, reported>>

\* An error is only logged.
PromptAnswered ==
    /\ AnswerTo("prompt")
    /\ pending' = pending \ {<<"prompt", Head(stdout).turn>>}
    /\ PromptComplete(Head(stdout).turn, Head(stdout).data)
    /\ UNCHANGED <<stdin, call, stop>>

EndArrives ==
    /\ Take("end")
    /\ IF Acp THEN PromptResponse ELSE TurnCompleted
    /\ UNCHANGED <<pending, stdin, call, stop, asked, wanted, outside>>

\* The runtime drops the questions of a turn that is being interrupted; those of
\* an ACP agent name no turn.
Shown(t) == IF thread.muted = NoTurn \/ (~ Acp /\ thread.muted # t) THEN asked \cup {t} ELSE asked

\* Mutant: a request of the agent that nobody knows is dropped.
QuestionDropped ==
    /\ Take("question")
    /\ asked' = IF Head(stdout).data = "unknown" THEN asked ELSE Shown(Head(stdout).turn)
    /\ UNCHANGED <<pending, stdin, adapter, call, stop, thread, wanted, reported, outside>>

\* A request of the agent is shown to the user, or rejected when nobody knows it.
Question ==
    /\ Take("question")
    /\ IF Head(stdout).data = "unknown"
       THEN /\ Write([what |-> "reply", turn |-> Head(stdout).turn, data |-> "code"])
            /\ UNCHANGED asked
       ELSE UNCHANGED stdin /\ asked' = Shown(Head(stdout).turn)
    /\ UNCHANGED <<pending, adapter, call, stop, thread, wanted, reported, outside>>

\* respondApproval, respondUserInput; the ACP adapter has no answer to a text.
Respond(t) ==
    /\ t \in asked /\ link # "closed"
    /\ agent[t].asks # "elicit" \/ ~ Acp
    /\ asked' = asked \ {t}
    /\ Write([what |-> "reply", turn |-> t, data |-> "code"])
    /\ UNCHANGED <<kind, env, link, pending, stdout, adapter, call, stop, thread, wanted, reported, outside>>

\* Every request that waits fails.
RejectAll ==
    /\ pending' = {}
    /\ call' = [call EXCEPT !.pc = IF @ \in {"mode_sent", "mode_again", "started"} THEN "idle" ELSE @]
    /\ stop' = [stop EXCEPT !.pc = IF @ = "asked" THEN "idle" ELSE @]

\* The process is gone and all it wrote was read.
ChildClosed ==
    /\ link = "dead" /\ stdout = <<>>
    /\ link' = "closed" /\ RejectAll
    /\ UNCHANGED <<kind, env, stdin, stdout, adapter, thread, asked, wanted, reported, outside>>

\* Mutant: a transport that is closed leaves its requests alone.
CloseOnly ==
    /\ "release" \in env /\ link # "closed"
    /\ link' = "closed" /\ stdin' = <<>> /\ stdout' = <<>>
    /\ UNCHANGED <<kind, env, pending, call, stop, adapter, thread, asked, wanted, reported, outside>>

Close ==
    /\ "release" \in env /\ link # "closed"
    /\ link' = "closed" /\ stdin' = <<>> /\ stdout' = <<>>
    /\ RejectAll
    /\ UNCHANGED <<kind, env, adapter, thread, asked, wanted, reported, outside>>

\* The timer of a request; that of a prompt is only logged.
Timeout(r) ==
    /\ "slow" \in env /\ r \in pending
    /\ pending' = pending \ {r}
    /\ IF r[1] \in {"set_mode", "start"} THEN CallFails ELSE UNCHANGED call
    /\ stop' = [stop EXCEPT !.pc = IF r[1] = "interrupt" THEN "idle" ELSE @]
    /\ UNCHANGED <<kind, env, link, stdin, stdout, adapter, thread, asked, wanted, reported, outside>>

-----------------------------------------------------------------------------
(* Interrupts. *)

\* turnInterrupt: a request to Codex, a notification to an ACP agent.
Interrupt ==
    /\ "interrupt" \in env
    /\ stop.pc = "idle" /\ thread.active > stop.turn
    /\ \/ ~ Acp /\ Request("interrupt", thread.active, "code")
       \/ /\ Acp /\ link # "closed"
          /\ Write([what |-> "interrupt", turn |-> thread.active, data |-> "code"])
          /\ UNCHANGED <<link, pending, stdout>>
    /\ stop' = [pc |-> IF Acp THEN "told" ELSE "asked", turn |-> thread.active]
    /\ UNCHANGED <<kind, env, adapter, call, thread, asked, wanted, reported, outside>>

\* markTurnInterrupted, beginInterrupt, markTurnInterrupting.
Interrupted ==
    /\ stop.pc = "told"
    /\ stop' = [stop EXCEPT !.pc = "idle"]
    /\ thread' = IF thread.machine # "RUNNING" THEN [thread EXCEPT !.active = NoTurn]
                 ELSE [thread EXCEPT !.active = NoTurn, !.machine = "INTERRUPTING",
                                     !.held = stop.turn, !.muted = stop.turn]
    /\ asked' = IF thread.machine = "RUNNING" THEN asked \ {stop.turn} ELSE asked
    /\ UNCHANGED <<kind, env, transport, adapter, call, wanted, reported, outside>>

EndUnderway(t) ==
    \/ agent[t].state # "ended"
    \/ \E i \in 1 .. Len(stdout) : stdout[i].turn = t

\* clearInterrupt after 30 s: the runtime's suppression stays.
InterruptTimeout ==
    /\ thread.held # NoTurn
    /\ "late" \in env \/ ~ EndUnderway(thread.held)
    /\ thread' = [thread EXCEPT !.held = NoTurn,
                                !.machine = IF @ = "INTERRUPTING" THEN "IDLE" ELSE @]
    /\ UNCHANGED <<kind, env, transport, adapter, call, stop, asked, wanted, reported, outside>>

-----------------------------------------------------------------------------
(* The agent. *)

Line(what, method, t, data) == [what |-> what, method |-> method, turn |-> t, data |-> data]

Say(lines) ==
    /\ stdout' = stdout \o lines
    /\ UNCHANGED <<kind, env, link, pending, adapter, lifecycle>>

\* An ACP agent sends the last update and the answer to the prompt in either order.
EndLines(t, how) ==
    IF ~ Acp THEN {<<Line("end", "none", t, how)>>}
    ELSE LET update == Line("end", "none", t, how)
             answer == Line("answer", "prompt", t, how)
         IN  IF how = "error" THEN {<<answer>>} ELSE {<<update, answer>>, <<answer, update>>}

Begins(t, mode) == agent' = [agent EXCEPT ![t].state = "working", ![t].mode = mode]

Reads(what) ==
    /\ link = "open" /\ stdin # <<>> /\ Head(stdin).what = what
    /\ stdin' = Tail(stdin)

Refuses(method) ==
    /\ "refuse" \in env
    /\ Say(<<Line("answer", method, Head(stdin).turn, "error")>>)
    /\ UNCHANGED outside

ReadsStart ==
    /\ Reads("start")
    /\ LET t == Head(stdin).turn IN
       \/ /\ Begins(t, Head(stdin).data) /\ UNCHANGED agentMode
          /\ Say(<<Line("answer", "start", t, "ok")>>)
       \/ Refuses("start")

ReadsMode ==
    /\ Reads("set_mode")
    /\ \/ /\ agentMode' = Head(stdin).data /\ UNCHANGED agent
          /\ Say(<<Line("answer", "set_mode", Head(stdin).turn, "ok")>>)
       \/ Refuses("set_mode")

ReadsPrompt ==
    /\ Reads("prompt")
    /\ Begins(Head(stdin).turn, agentMode)
    /\ UNCHANGED <<kind, env, link, pending, stdout, adapter, lifecycle, agentMode>>

Stops(t, how, lines) ==
    /\ agent' = [agent EXCEPT ![t].state = "ended", ![t].how = how]
    /\ \E end \in EndLines(t, how) : Say(lines \o end)
    /\ UNCHANGED agentMode

ReadsInterrupt ==
    /\ Reads("interrupt")
    /\ LET t == Head(stdin).turn
           answer == IF Acp THEN <<>> ELSE <<Line("answer", "interrupt", t, "ok")>>
       IN  \/ agent[t].state \in {"working", "asking"} /\ Stops(t, "cancelled", answer)
           \/ agent[t].state \notin {"working", "asking"} /\ Say(answer) /\ UNCHANGED outside
           \/ ~ Acp /\ Refuses("interrupt")

ReadsReply ==
    /\ Reads("reply")
    /\ agent' = [agent EXCEPT ![Head(stdin).turn].state = IF @ = "asking" THEN "working" ELSE @]
    /\ UNCHANGED <<kind, env, link, pending, stdout, adapter, lifecycle, agentMode>>

\* A line the agent never answers.
Ignores ==
    /\ "slow" \in env
    /\ link = "open" /\ stdin # <<>>
    /\ stdin' = Tail(stdin)
    /\ UNCHANGED <<kind, env, link, pending, stdout, adapter, lifecycle, outside>>

Asks(t) ==
    /\ link = "open" /\ agent[t].state = "working" /\ agent[t].asks = "none"
    /\ \E what \in {"approval", "unknown"} \cup (env \cap {"elicit"}) :
         /\ agent' = [agent EXCEPT ![t].state = "asking", ![t].asks = what]
         /\ Say(<<Line("question", "none", t, what)>>)
    /\ UNCHANGED <<stdin, agentMode>>

Ends(t) ==
    /\ link = "open" /\ agent[t].state = "working"
    /\ \/ Stops(t, "end_turn", <<>>)
       \/ "odd" \in env /\ Stops(t, "other", <<>>)
       \/ "refuse" \in env /\ Acp /\ Stops(t, "error", <<>>)
    /\ UNCHANGED stdin

Exits ==
    /\ "exit" \in env /\ link = "open"
    /\ link' = "dead" /\ stdin' = <<>>
    /\ UNCHANGED <<kind, env, pending, stdout, adapter, lifecycle, outside>>

-----------------------------------------------------------------------------
Received ==
    \/ ModeSet \/ Prompt \/ Started \/ Refused \/ InterruptAnswered \/ PromptAnswered
    \/ Unawaited \/ EndArrives \/ Question

AgentReads == ReadsStart \/ ReadsMode \/ ReadsPrompt \/ ReadsInterrupt \/ ReadsReply \/ Ignores

Next ==
    \/ \E mode \in Modes : SendTurn(mode)
    \/ SetMode \/ TurnStart \/ Received \/ Replay
    \/ Interrupt \/ Interrupted \/ InterruptTimeout
    \/ ChildClosed \/ Close
    \/ \E t \in Turns : Timeout(<<"set_mode", t>>) \/ Timeout(<<"start", t>>)
                        \/ Timeout(<<"interrupt", t>>) \/ Timeout(<<"prompt", t>>)
    \/ \E t \in Turns : Respond(t) \/ Asks(t) \/ Ends(t)
    \/ AgentReads \/ Exits

Spec == Init /\ [][Next]_vars

\* The program runs on and its timers fire; an agent reads what it is sent and
\* comes to an end with a turn.  Users need not answer.
Fairness ==
    /\ WF_vars(SetMode) /\ WF_vars(TurnStart) /\ WF_vars(Received) /\ WF_vars(Replay)
    /\ WF_vars(Interrupted) /\ WF_vars(InterruptTimeout) /\ WF_vars(ChildClosed)
    /\ \A t \in Turns : \A m \in {"set_mode", "start", "interrupt"} : WF_vars(Timeout(<<m, t>>))
    /\ WF_vars(AgentReads) /\ \A t \in Turns : WF_vars(Ends(t))

FairSpec == Spec /\ Fairness

-----------------------------------------------------------------------------
\* Every variable has the kind of value the code keeps in it.
TypeOK ==
    /\ kind \in Kinds /\ env \in Envs
    /\ link \in {"open", "dead", "closed"}
    /\ pending \subseteq {"set_mode", "start", "interrupt", "prompt"} \X Turns
    /\ adapter \in [mode : Modes, current : TurnRef, finished : BOOLEAN]
    /\ call \in [pc : {"idle", "mode", "mode_sent", "start", "mode_again", "started"}, turn : TurnRef]
    /\ stop \in [pc : {"idle", "asked", "told"}, turn : TurnRef]
    /\ thread.machine \in {"IDLE", "RUNNING", "INTERRUPTING"}
    /\ {thread.active, thread.held, thread.muted, thread.latest} \subseteq TurnRef
    /\ asked \subseteq Turns
    /\ wanted \in [Turns -> Modes]
    /\ reported \in [Turns -> {"none", "complete", "aborted"}]
    /\ agentMode \in Modes

\* An end the runtime takes for a turn's is one that turn came to, although the
\* updates of an ACP agent name no turn, and an interrupted turn may end after its
\* interrupt was given up.
EndsTrue ==
    \A t \in Turns : reported[t] # "none" =>
        /\ agent[t].state = "ended"
        /\ reported[t] = "aborted" <=> agent[t].how = "cancelled"

\* A turn runs in the mode its user asked for, as long as no start fails.
ModeServed ==
    Without({"refuse", "slow"}) =>
    \A t \in Turns : agent[t].state # "none" => agent[t].mode = wanted[t]

\* Neither a start nor an interrupt waits for ever, whatever the agent does.
CallsReturn ==
    /\ call.pc # "idle" ~> call.pc = "idle"
    /\ stop.pc # "idle" ~> stop.pc = "idle"

\* What a turn at the agent is, and what the runtime says of it.
TurnsTrue == TypeOK /\ EndsTrue /\ ModeServed

\* A turn does not keep its thread for ever, unless its user owes an answer or
\* the agent fails.  An ACP agent whose turn was interrupted may keep it: what
\* names no turn is dropped from then on, questions and ends alike.
ThreadFreed ==
    /\ Without({"refuse", "slow", "exit", "release", "odd", "elicit"})
    /\ Acp => Without({"interrupt"})
    => (thread.machine # "IDLE" ~> thread.machine = "IDLE" \/ asked # {})
=============================================================================
