---------------------------- MODULE ApprovalFlow ----------------------------
(***************************************************************************)
(* The approvals of ONE project thread: ApprovalUseCase,                   *)
(* ApprovalCallbackHandler, ApprovalWaitManager, TurnStateManager, the     *)
(* approval rows of SqliteApprovalStore and the approval lane of           *)
(* ThreadEventRuntime, with the agent that asks and the users who decide.  *)
(*                                                                         *)
(* Starting and ending a turn are cut down to what they do to the          *)
(* conversation state machine and to the approvals; module TurnLifecycle   *)
(* has them in full.  A database call takes effect together with the code  *)
(* that its answer resumes.                                                *)
(***************************************************************************)
EXTENDS Naturals, Sequences, FiniteSets

CONSTANTS
    Turns,      \* turn ids
    Approvals,  \* approval ids, each used for one request
    Clients,    \* in-flight user commands
    Decisions,  \* what a user may decide
    NoTurn, NoApproval, NoDecision,
    Envs        \* sets of hardships that may happen together

\* "overlap"   users send text while a turn runs
\* "interrupt" users interrupt turns
\* "abandon"   the agent ends a turn while an approval of it is undecided
\* "failure"   the agent cannot be reached with a decision
\* "crash"     the process dies and is started again
Hardships == {"overlap", "interrupt", "abandon", "failure", "crash"}

Outcomes == {"none", "pending", "expired"}

ASSUME ApprovalConstants ==
    /\ NoTurn \notin Turns
    /\ NoApproval \notin Approvals
    /\ NoDecision \notin Decisions
    /\ Decisions \cap Outcomes = {}
    /\ \A e \in Envs : e \subseteq Hardships

VARIABLES
    machine,        \* ConversationStateMachine
    interrupting,   \* interruptingTurns and its timer
    muted,          \* interruptingTurnByThread of the event runtime
    finished,       \* finishedTurns and suppressedTurns of the event runtime
    owner,          \* turn on whose behalf an approval was requested
    pending,        \* pendingApprovals: approvals with a context
    wait,           \* ApprovalWaitManager: none, armed (timer set) or decided
    status,         \* approvals.status, "none" when there is no row
    expiring,       \* approvals whose markExpired is under way
    requests,       \* queue of the approval lane
    lane,           \* approval whose row the approval lane is storing
    deciding,       \* inFlightApprovalIds
    seen,           \* seenApprovalIds
    shown,          \* approvals whose card was routed
    proc,           \* frame of each user command
    agent,          \* the backend's view of each turn
    answered,       \* the decision the backend was given for each approval
    env             \* the hardships of this behaviour

session == <<machine, interrupting>>
runtime == <<muted, finished, requests>>
waiting == <<pending, wait>>
dedup   == <<deciding, seen>>
outside == <<agent, answered>>
vars == <<session, runtime, owner, waiting, status, expiring, lane, dedup, shown, proc, outside, env>>

MachineStates == {"IDLE", "RUNNING", "AWAITING_APPROVAL", "INTERRUPTING", "INTERRUPTED", "FAILED"}
AgentStates   == {"unused", "running", "completed", "aborted", "ended"}
PCs           == {"idle", "claim", "begin", "mark", "decide", "respond", "answered", "resolve"}
Frame         == [pc : PCs, turn : Turns \cup {NoTurn}, approval : Approvals \cup {NoApproval},
                  decision : Decisions \cup {NoDecision}]
Blank         == [pc |-> "idle", turn |-> NoTurn, approval |-> NoApproval, decision |-> NoDecision]

Init ==
    /\ env \in Envs
    /\ machine = "IDLE"
    /\ interrupting = NoTurn
    /\ muted = NoTurn
    /\ finished = {}
    /\ owner = [a \in Approvals |-> NoTurn]
    /\ pending = {}
    /\ wait = [a \in Approvals |-> "none"]
    /\ status = [a \in Approvals |-> "none"]
    /\ expiring = {}
    /\ requests = <<>>
    /\ lane = NoApproval
    /\ deciding = {}
    /\ seen = {}
    /\ shown = {}
    /\ proc = [c \in Clients |-> Blank]
    /\ agent = [t \in Turns |-> "unused"]
    /\ answered = [a \in Approvals |-> NoDecision]

At(c, pc)   == proc[c].pc = pc
Goto(c, pc) == proc' = [proc EXCEPT ![c].pc = pc]
Return(c)   == proc' = [proc EXCEPT ![c] = Blank]

Interrupted == machine \in {"INTERRUPTING", "INTERRUPTED"}

\* clearPendingApprovalsForTurn, then for each context of the turn its timer is
\* cleared and markExpired sent off without being awaited.
ExpireTurn(t) ==
    LET mine == {a \in pending : owner[a] = t} IN
    /\ pending' = pending \ mine
    /\ wait' = [a \in Approvals |-> IF a \in mine THEN "none" ELSE wait[a]]
    /\ expiring' = expiring \cup mine

-----------------------------------------------------------------------------
(* Turns, as far as approvals see them. *)

\* Polite users wait until the thread is not busy with a turn.
MaySend == "overlap" \in env \/ machine \in {"IDLE", "FAILED"}

\* The message handler asks isPendingApproval before it starts a turn.
SendText(c) ==
    /\ At(c, "idle")
    /\ MaySend
    /\ pending = {}
    /\ \E t \in Turns : agent[t] = "unused"
    /\ Goto(c, "claim")
    /\ UNCHANGED <<session, runtime, owner, waiting, status, expiring, lane, dedup, shown, outside, env>>

\* ensureCanStartTurn and the start of the turn, or releaseFailedStartTurn.
ClaimThread(c) ==
    /\ At(c, "claim")
    /\ \/ /\ machine \in {"IDLE", "FAILED"}
          /\ machine' = "RUNNING"
          /\ \E t \in Turns :
                /\ agent[t] = "unused"
                /\ agent' = [agent EXCEPT ![t] = "running"]
       \/ /\ machine \notin {"IDLE", "FAILED"} \/ \A t \in Turns : agent[t] # "unused"
          /\ machine' = IF machine \in {"RUNNING", "FAILED"} THEN "IDLE" ELSE machine
          /\ UNCHANGED agent
    /\ Return(c)
    /\ UNCHANGED <<interrupting, runtime, owner, waiting, status, expiring, lane, dedup, shown, answered, env>>

Undecided(t) == \E a \in Approvals : owner[a] = t /\ answered[a] = NoDecision
Stopping(t)  ==
    \/ t \in {interrupting, muted}
    \/ \E c \in Clients : proc[c].pc \in {"begin", "mark"} /\ proc[c].turn = t

\* A turn completes once its approvals are answered, and ends anyhow when it was
\* asked to stop.
EndTurn(t) ==
    /\ agent[t] = "running"
    /\ \/ /\ Undecided(t) => Stopping(t) \/ "abandon" \in env
          /\ agent' = [agent EXCEPT ![t] = "completed"]
       \/ /\ Stopping(t) \/ "abandon" \in env
          /\ agent' = [agent EXCEPT ![t] = "aborted"]
    /\ UNCHANGED <<session, runtime, owner, waiting, status, expiring, lane, dedup, shown, proc, answered, env>>

\* The stream lane handles the end: finishSessionTurn ...
HandleComplete(t) ==
    /\ agent[t] = "completed"
    /\ muted # t
    /\ machine' = IF machine = "RUNNING" THEN "IDLE" ELSE machine
    /\ finished' = finished \cup {t}
    /\ agent' = [agent EXCEPT ![t] = "ended"]
    /\ UNCHANGED <<interrupting, muted, requests, owner, waiting, status, expiring, lane, dedup, shown, proc, answered, env>>

\* ... or handleTurnAborted, also for the completion of an interrupted turn.
HandleAborted(t) ==
    /\ agent[t] = "aborted" \/ (agent[t] = "completed" /\ muted = t)
    /\ ExpireTurn(t)
    /\ IF interrupting = t
       THEN /\ machine' = IF Interrupted THEN "IDLE" ELSE machine
            /\ interrupting' = NoTurn
       ELSE UNCHANGED session
    /\ muted' = NoTurn
    /\ finished' = finished \cup {t}
    /\ agent' = [agent EXCEPT ![t] = "ended"]
    /\ UNCHANGED <<requests, owner, status, lane, dedup, shown, proc, answered, env>>

\* A user interrupts the turn that runs; the backend is asked to stop.
Interrupt(c) ==
    /\ "interrupt" \in env
    /\ At(c, "idle")
    /\ \E t \in Turns :
        /\ agent[t] = "running"
        /\ proc' = [proc EXCEPT ![c].pc = "begin", ![c].turn = t]
    /\ UNCHANGED <<session, runtime, owner, waiting, status, expiring, lane, dedup, shown, outside, env>>

\* handleTurnInterrupt once interruptTurn has returned ...
BeginInterrupt(c) ==
    /\ At(c, "begin")
    /\ IF machine \in {"RUNNING", "AWAITING_APPROVAL"}
       THEN /\ machine' = "INTERRUPTING"
            /\ interrupting' = proc[c].turn
            /\ ExpireTurn(proc[c].turn)
            /\ Goto(c, "mark")
       ELSE Return(c) /\ UNCHANGED <<session, waiting, expiring>>
    /\ UNCHANGED <<runtime, owner, status, lane, dedup, shown, outside, env>>

\* ... and then markTurnInterrupting.
MarkTurnInterrupting(c) ==
    /\ At(c, "mark")
    /\ muted' = proc[c].turn
    /\ finished' = finished \cup {proc[c].turn}
    /\ Return(c)
    /\ UNCHANGED <<session, requests, owner, waiting, status, expiring, lane, dedup, shown, outside, env>>

\* Mutant: the timer forgets the interrupt but not the machine.
TimeoutUnreleased ==
    /\ interrupting # NoTurn
    /\ interrupting' = NoTurn
    /\ UNCHANGED <<machine, runtime, owner, waiting, status, expiring, lane, dedup, shown, proc, outside, env>>

\* clearInterrupt, from the 30 s timer.
InterruptTimeout ==
    /\ interrupting # NoTurn
    /\ interrupting' = NoTurn
    /\ machine' = IF Interrupted THEN "IDLE" ELSE machine
    /\ UNCHANGED <<runtime, owner, waiting, status, expiring, lane, dedup, shown, proc, outside, env>>

-----------------------------------------------------------------------------
(* Requests: the approval lane and registerApprovalRequest. *)

\* The agent asks; the request joins the queue of the approval lane.
AskApproval(t) ==
    /\ agent[t] = "running"
    /\ \E a \in Approvals :
        /\ owner[a] = NoTurn
        /\ owner' = [owner EXCEPT ![a] = t]
        /\ requests' = Append(requests, a)
    /\ UNCHANGED <<session, muted, finished, waiting, status, expiring, lane, dedup, shown, proc, outside, env>>

\* Requests of finished, suppressed and interrupted turns are dropped.  A request
\* is refused while the thread is interrupted, and a FAILED machine makes
\* transition throw.  The read that allocates the id is answered before anything
\* that changes these conditions, so it is no step of its own.
RegisterRequest ==
    /\ lane = NoApproval
    /\ requests # <<>>
    /\ requests' = Tail(requests)
    /\ LET a == Head(requests) IN
       IF owner[a] \in finished \cup {muted} \/ Interrupted \/ machine = "FAILED"
       THEN UNCHANGED <<machine, pending, lane>>
       ELSE /\ machine' = "AWAITING_APPROVAL"
            /\ pending' = pending \cup {a}
            /\ lane' = a
    /\ UNCHANGED <<interrupting, muted, finished, owner, wait, status, expiring, dedup, shown, proc, outside, env>>

\* Mutant: no timer is set.
CreateUntimed ==
    /\ lane # NoApproval
    /\ status' = [status EXCEPT ![lane] = "pending"]
    /\ shown' = shown \cup {lane}
    /\ lane' = NoApproval
    /\ UNCHANGED <<session, runtime, owner, waiting, expiring, dedup, proc, outside, env>>

\* The row is stored, the timer set and the card routed.
CreateApproval ==
    /\ lane # NoApproval
    /\ status' = [status EXCEPT ![lane] = "pending"]
    /\ wait' = [wait EXCEPT ![lane] = "armed"]
    /\ shown' = shown \cup {lane}
    /\ lane' = NoApproval
    /\ UNCHANGED <<session, runtime, owner, pending, expiring, dedup, proc, outside, env>>

\* Mutant: the thread keeps waiting for an approval that timed out.
TimeoutStaying(a) ==
    /\ wait[a] = "armed"
    /\ wait' = [wait EXCEPT ![a] = "none"]
    /\ expiring' = expiring \cup {a}
    /\ pending' = pending \ {a}
    /\ UNCHANGED <<session, runtime, owner, status, lane, dedup, shown, proc, outside, env>>

\* The timer of waitFor: a waiting machine goes through FAILED to IDLE.
ApprovalTimeout(a) ==
    /\ wait[a] = "armed"
    /\ wait' = [wait EXCEPT ![a] = "none"]
    /\ machine' = IF machine = "AWAITING_APPROVAL" THEN "IDLE" ELSE machine
    /\ expiring' = expiring \cup {a}
    /\ pending' = pending \ {a}
    /\ UNCHANGED <<interrupting, runtime, owner, status, lane, dedup, shown, proc, outside, env>>

\* The cleanup timer of a decided wait.
ForgetDecided(a) ==
    /\ wait[a] = "decided"
    /\ wait' = [wait EXCEPT ![a] = "none"]
    /\ UNCHANGED <<session, runtime, owner, pending, status, expiring, lane, dedup, shown, proc, outside, env>>

\* Mutant: every row expires, a decided one too.
MarkExpiredAny(a) ==
    /\ a \in expiring
    /\ lane # a
    /\ expiring' = expiring \ {a}
    /\ status' = [status EXCEPT ![a] = "expired"]
    /\ UNCHANGED <<session, runtime, owner, waiting, lane, dedup, shown, proc, outside, env>>

\* markExpired: only a pending row expires.  The worker answers in order, so the
\* insert of createApproval is served before it.
MarkExpired(a) ==
    /\ a \in expiring
    /\ lane # a
    /\ expiring' = expiring \ {a}
    /\ status' = [status EXCEPT ![a] = IF @ = "pending" THEN "expired" ELSE @]
    /\ UNCHANGED <<session, runtime, owner, waiting, lane, dedup, shown, proc, outside, env>>

-----------------------------------------------------------------------------
(* Decisions: handleApprovalCallback, handle, handleApprovalDecision. *)

\* A user presses a button of a card.
PressButton(c) ==
    /\ At(c, "idle")
    /\ \E a \in shown, d \in Decisions :
        proc' = [proc EXCEPT ![c].pc = "decide", ![c].approval = a, ![c].decision = d]
    /\ UNCHANGED <<session, runtime, owner, waiting, status, expiring, lane, dedup, shown, outside, env>>

\* The conditions under which handle and decide let a decision through.
Undetermined(a) ==
    /\ status[a] = "pending"
    /\ a \notin seen \cup deciding
    /\ a \in pending
    /\ wait[a] = "armed"

\* Mutant: the stored status alone is trusted.
DecideByRecord(c) ==
    /\ At(c, "decide")
    /\ status[proc[c].approval] = "pending"
    /\ machine' = IF machine = "AWAITING_APPROVAL" THEN "RUNNING" ELSE machine
    /\ wait' = [wait EXCEPT ![proc[c].approval] = "decided"]
    /\ Goto(c, "respond")
    /\ UNCHANGED <<interrupting, runtime, owner, pending, status, expiring, lane, dedup, shown, outside, env>>

\* The row says pending and nobody else decides: the timer stops, the machine
\* runs again and the agent is about to be told.
Decide(c) ==
    /\ At(c, "decide")
    /\ LET a == proc[c].approval IN
        /\ Undetermined(a)
        /\ wait' = [wait EXCEPT ![a] = "decided"]
        /\ IF Interrupted
           THEN pending' = pending \ {a} /\ Return(c) /\ UNCHANGED <<machine, deciding>>
           ELSE /\ machine' = IF machine = "AWAITING_APPROVAL" THEN "RUNNING" ELSE machine
                /\ deciding' = deciding \cup {a}
                /\ Goto(c, "respond")
                /\ UNCHANGED pending
    /\ UNCHANGED <<interrupting, runtime, owner, status, expiring, lane, seen, shown, outside, env>>

\* Otherwise the user is told duplicate, expired or invalid.  A wait decided by a
\* call that then failed makes the bridge answer duplicate, which is remembered.
RefuseDecision(c) ==
    /\ At(c, "decide")
    /\ LET a == proc[c].approval IN
        /\ ~Undetermined(a)
        /\ seen' = IF /\ status[a] = "pending" /\ a \notin seen \cup deciding
                      /\ a \in pending /\ wait[a] = "decided"
                   THEN seen \cup {a} ELSE seen
    /\ Return(c)
    /\ UNCHANGED <<session, runtime, owner, waiting, status, expiring, lane, deciding, shown, outside, env>>

\* Mutant: a failed response is recorded as a decision.
RespondFailsRecorded(c) ==
    /\ "failure" \in env
    /\ At(c, "respond")
    /\ Goto(c, "answered")
    /\ UNCHANGED <<session, runtime, owner, waiting, status, expiring, lane, dedup, shown, outside, env>>

\* respondApproval reaches the backend ...
RespondApproval(c) ==
    /\ At(c, "respond")
    /\ answered' = [answered EXCEPT ![proc[c].approval] = proc[c].decision]
    /\ Goto(c, "answered")
    /\ UNCHANGED <<session, runtime, owner, waiting, status, expiring, lane, dedup, shown, agent, env>>

\* ... or fails; without an agent at all the machine is left alone.
RespondFails(c) ==
    /\ "failure" \in env
    /\ At(c, "respond")
    /\ machine' \in {machine, IF machine = "RUNNING" THEN "FAILED" ELSE machine}
    /\ deciding' = deciding \ {proc[c].approval}
    /\ Return(c)
    /\ UNCHANGED <<interrupting, runtime, owner, waiting, status, expiring, lane, seen, shown, outside, env>>

\* Its answer clears the context ...
ClearContext(c) ==
    /\ At(c, "answered")
    /\ pending' = pending \ {proc[c].approval}
    /\ Goto(c, "resolve")
    /\ UNCHANGED <<session, runtime, owner, wait, status, expiring, lane, dedup, shown, outside, env>>

\* ... and markResolved overwrites the row, whatever it says by then.
MarkResolved(c) ==
    /\ At(c, "resolve")
    /\ status' = [status EXCEPT ![proc[c].approval] = proc[c].decision]
    /\ seen' = seen \cup {proc[c].approval}
    /\ deciding' = deciding \ {proc[c].approval}
    /\ Return(c)
    /\ UNCHANGED <<session, runtime, owner, waiting, expiring, lane, shown, outside, env>>

-----------------------------------------------------------------------------
\* The process dies with its agents; recoverSessions expires pending rows before
\* the platform is connected.
Crash ==
    /\ "crash" \in env
    /\ machine' = "IDLE" /\ interrupting' = NoTurn /\ muted' = NoTurn
    /\ finished' = {} /\ requests' = <<>> /\ lane' = NoApproval
    /\ pending' = {} /\ wait' = [a \in Approvals |-> "none"] /\ expiring' = {}
    /\ deciding' = {} /\ seen' = {}
    /\ proc' = [c \in Clients |-> Blank]
    /\ agent' = [t \in Turns |-> IF agent[t] = "unused" THEN "unused" ELSE "ended"]
    /\ status' = [a \in Approvals |-> IF status[a] = "pending" THEN "expired" ELSE status[a]]
    /\ UNCHANGED <<owner, shown, answered, env>>

LaneStep == RegisterRequest \/ CreateApproval

CommandStep(c) ==
    \/ ClaimThread(c) \/ BeginInterrupt(c) \/ MarkTurnInterrupting(c)
    \/ Decide(c) \/ RefuseDecision(c) \/ RespondApproval(c) \/ RespondFails(c)
    \/ ClearContext(c) \/ MarkResolved(c)

UserStep(c)  == SendText(c) \/ Interrupt(c) \/ PressButton(c)
EndStep(t)   == HandleComplete(t) \/ HandleAborted(t)
TimerStep(a) == ApprovalTimeout(a) \/ ForgetDecided(a)

Next ==
    \/ \E c \in Clients : UserStep(c) \/ CommandStep(c)
    \/ LaneStep
    \/ \E a \in Approvals : TimerStep(a) \/ MarkExpired(a)
    \/ \E t \in Turns : AskApproval(t) \/ EndTurn(t) \/ EndStep(t)
    \/ InterruptTimeout
    \/ Crash

\* Queues are drained, awaited calls answered, and set timers fire.
Fairness ==
    /\ \A c \in Clients : WF_vars(CommandStep(c))
    /\ WF_vars(LaneStep)
    /\ \A a \in Approvals : WF_vars(TimerStep(a)) /\ WF_vars(MarkExpired(a))
    /\ \A t \in Turns : WF_vars(EndStep(t))
    /\ WF_vars(InterruptTimeout)

Spec     == Init /\ [][Next]_vars
FairSpec == Spec /\ Fairness

-----------------------------------------------------------------------------
\* Every variable has its type.
TypeOK ==
    /\ machine \in MachineStates
    /\ interrupting \in Turns \cup {NoTurn}
    /\ muted \in Turns \cup {NoTurn}
    /\ finished \subseteq Turns
    /\ owner \in [Approvals -> Turns \cup {NoTurn}]
    /\ pending \subseteq Approvals
    /\ wait \in [Approvals -> {"none", "armed", "decided"}]
    /\ status \in [Approvals -> Decisions \cup Outcomes]
    /\ expiring \subseteq Approvals
    /\ requests \in Seq(Approvals)
    /\ lane \in Approvals \cup {NoApproval}
    /\ deciding \subseteq Approvals
    /\ seen \subseteq Approvals
    /\ shown \subseteq Approvals
    /\ proc \in [Clients -> Frame]
    /\ agent \in [Turns -> AgentStates]
    /\ answered \in [Approvals -> Decisions \cup {NoDecision}]
    /\ env \in Envs

\* The agent is answered once per approval, however many users press the buttons
\* of its card, and whatever fails, times out or is interrupted in between.
AnsweredOnce == [][\A c \in Clients : RespondApproval(c) => answered[proc[c].approval] = NoDecision]_vars

\* The audit row never records a decision the agent was not given.
Recorded == \A a \in Approvals : status[a] \in Decisions => answered[a] = status[a]

\* A recorded decision stays: no markExpired sent off before it, by the timer, an
\* interrupt or the end of the turn, overwrites it when it arrives later.
DecisionStays == [][\A a \in Approvals : status[a] \in Decisions => status'[a] = status[a]]_vars

Without(hardships) == env \cap hardships = {}

\* An approval that is recorded as expired was not answered, unless its turn was
\* stopped between the answer and markResolved, or the process died there.
ExpiredUnanswered == Without({"interrupt", "abandon", "crash"}) =>
    \A a \in Approvals : status[a] = "expired" => answered[a] = NoDecision

\* Every variable has its type, and the audit rows tell what the agent was told,
\* whatever failed, timed out or was pressed twice in between.
AuditTrue == TypeOK /\ Recorded /\ ExpiredUnanswered

\* A thread waits for an approval only while some approval can still be decided
\* or time out; otherwise it would refuse every text for good.  A turn that ends
\* with an undecided approval does leave it so.
AwaitingBacked ==
    Without({"interrupt", "abandon", "crash"}) /\ machine = "AWAITING_APPROVAL" =>
        lane # NoApproval \/ \E a \in Approvals : wait[a] = "armed"

\* A stored request never stays pending: it is decided, or its turn ends, or it
\* times out, or a restart expires it.
ApprovalSettles == \A a \in Approvals : status[a] = "pending" ~> status[a] # "pending"

\* An interrupting thread is released, by the end of its turn or by the timer, also
\* when the interrupted turn awaited an approval.
InterruptReleased == machine = "INTERRUPTING" ~> machine # "INTERRUPTING"
=============================================================================
