--------------------------- MODULE TurnLifecycle ---------------------------
(***************************************************************************)
(* The turns of ONE project thread: TurnLifecycleService,                  *)
(* TurnCommandService, SessionStateService, ThreadService and the stream   *)
(* lane of ThreadEventRuntime, composed with the agent that runs the turns *)
(* and the users who send text, interrupt, accept and revert.              *)
(*                                                                         *)
(* Everything runs on one event loop, so code between two awaits is one    *)
(* step.  A database call takes effect together with the code that its     *)
(* answer resumes: the worker serves calls in order and answers in order   *)
(* (async-database-proxy.ts), so no other continuation runs in between.    *)
(* Awaits that touch none of the state below are not steps of their own.   *)
(***************************************************************************)
EXTENDS Naturals, Sequences, FiniteSets

CONSTANTS
    Turns,      \* turn ids the agent hands out
    Clients,    \* in-flight user commands
    Lane,       \* the stream lane of the event runtime
    NoTurn,     \* null turn id
    Keep,       \* "field not in the patch"
    Env         \* what the environment may do, see Hardships

\* "overlap"   users send text without waiting for the thread to settle
\* "interrupt" users interrupt turns
\* "abort"     the agent aborts a turn nobody asked it to stop
\* "echo"      the agent reports the end of a turn twice
\* "failure"   calls of the backend and of git may fail
\* "crash"     the process dies and is started again
Hardships == {"overlap", "interrupt", "abort", "echo", "failure", "crash"}

ASSUME ConstantsAssumption ==
    /\ NoTurn \notin Turns
    /\ Keep \notin Turns \cup {NoTurn}
    /\ Lane \notin Clients
    /\ Env \subseteq Hardships

VARIABLES
    machine,        \* ConversationStateMachine
    interrupting,   \* interruptingTurns and its 30 s timer (set and cleared together)
    record,         \* turn_records: status of each turn, "none" when there is no row
    ts,             \* thread_turn_states row of the thread
    rt,             \* ThreadEventRuntime
    inflight,       \* startEnsureInflight
    proc,           \* frame of each client and of the lane
    agent,          \* the backend's view of each turn
    asked,          \* turns the backend was asked to interrupt
    shown           \* turns whose summary card, with its buttons, was routed

session == <<machine, interrupting>>
store   == <<record, ts>>
outside == <<agent, asked, shown>>
vars    == <<session, store, rt, inflight, proc, outside>>

Procs   == Clients \cup {Lane}
TurnRef == Turns \cup {NoTurn}

MachineStates == {"IDLE", "RUNNING", "AWAITING_APPROVAL", "INTERRUPTING", "INTERRUPTED", "FAILED"}
Statuses      == {"none", "running", "awaiting_approval", "completed",
                  "accepted", "reverted", "interrupted"}
EventKinds    == {"delta", "complete", "aborted"}
AgentStates   == {"unused", "running", "spoke", "ended", "echoed"}
PCs == {"idle", "start_status", "prepare", "starting", "restarting",
        "ensure", "join", "ensure_read", "ensure_create", "ensured",
        "upsert_read", "upsert_write",
        "int_state", "int_call", "int_write", "int_begin", "int_mark",
        "acc_write", "acc_state", "rev_write", "rev_state",
        "handle", "finish", "finish_read", "complete", "complete_record",
        "complete_write", "final_read", "final_write", "close"}

Event       == [turn : Turns, kind : EventKinds]
ThreadState == [active : TurnRef, blocking : TurnRef, last : TurnRef]
PatchRef    == TurnRef \cup {Keep}
Patch       == [active : PatchRef, blocking : PatchRef, last : PatchRef]

NoState == [active |-> NoTurn, blocking |-> NoTurn, last |-> NoTurn]
NoPatch == [active |-> Keep, blocking |-> Keep, last |-> Keep]

\* What a running async function holds on its stack.
Frame == [pc : PCs, then : PCs, turn : TurnRef, target : TurnRef, kind : EventKinds,
          status : Statuses, diff : BOOLEAN, seen : ThreadState, patch : Patch]
Blank == [pc |-> "idle", then |-> "idle", turn |-> NoTurn, target |-> NoTurn, kind |-> "delta",
          status |-> "none", diff |-> FALSE, seen |-> NoState, patch |-> NoPatch]

Runtime == [pending : BOOLEAN, latest : TurnRef, active : SUBSET Turns,
            parked : Seq(Event), lane : Seq(Event), ensured : SUBSET Turns,
            finished : SUBSET Turns, suppressed : SUBSET Turns, interrupting : TurnRef]

NoRuntime == [pending |-> FALSE, latest |-> NoTurn, active |-> {}, parked |-> <<>>,
              lane |-> <<>>, ensured |-> {}, finished |-> {}, suppressed |-> {},
              interrupting |-> NoTurn]

Init ==
    /\ machine = "IDLE"
    /\ interrupting = NoTurn
    /\ record = [t \in Turns |-> "none"]
    /\ ts = NoState
    /\ rt = NoRuntime
    /\ inflight = {}
    /\ proc = [p \in Procs |-> Blank]
    /\ agent = [t \in Turns |-> "unused"]
    /\ asked = {}
    /\ shown = {}

-----------------------------------------------------------------------------
(* Frames, and the read-modify-write of the thread's turn state. *)

At(p, pc)   == proc[p].pc = pc
Goto(p, pc) == proc' = [proc EXCEPT ![p].pc = pc]
Return(p)   == proc' = [proc EXCEPT ![p] = Blank]
Upsert(p, patch, then) ==
    proc' = [proc EXCEPT ![p].pc = "upsert_read", ![p].patch = patch, ![p].then = then]

\* Mutants of the two that follow: one field of the patch forgotten.
AwaitingUnblocked(t) == [active |-> NoTurn, blocking |-> NoTurn, last |-> t]
CompletedButActive(t) == [active |-> Keep, blocking |-> NoTurn, last |-> t]

MarkTurnRunning(t)          == [active |-> t, blocking |-> t, last |-> Keep]
MarkTurnAwaitingApproval(t) == [active |-> NoTurn, blocking |-> t, last |-> t]
MarkTurnCompleted(t)        == [active |-> NoTurn, blocking |-> NoTurn, last |-> t]
MarkTurnInterrupted         == [active |-> NoTurn, blocking |-> NoTurn, last |-> Keep]
ClearBlockingTurn           == [active |-> Keep, blocking |-> NoTurn, last |-> Keep]
ClearTurnReferences(cur, t) ==
    [active   |-> Keep,
     blocking |-> IF cur.blocking = t THEN NoTurn ELSE Keep,
     last     |-> IF cur.last = t THEN NoTurn ELSE Keep]

Pick(old, new) == IF new = Keep THEN old ELSE new
Patched(cur, patch) ==
    [active   |-> Pick(cur.active, patch.active),
     blocking |-> Pick(cur.blocking, patch.blocking),
     last     |-> Pick(cur.last, patch.last)]

\* upsertRuntimeState reads the row ...
UpsertRead(p) ==
    /\ At(p, "upsert_read")
    /\ proc' = [proc EXCEPT ![p].pc = "upsert_write", ![p].seen = ts]
    /\ UNCHANGED <<session, store, rt, inflight, outside>>

\* handleTurnInterrupt after interruptTurn: the turn it read first, and only
\* a machine that still runs, goes to INTERRUPTING and arms the 30 s timer.
BeginInterrupt(p) ==
    IF proc[p].turn # NoTurn /\ machine \in {"RUNNING", "AWAITING_APPROVAL"}
    THEN /\ machine' = "INTERRUPTING"
         /\ interrupting' = proc[p].turn
         /\ Goto(p, "int_mark")
    ELSE Return(p) /\ UNCHANGED session

\* ... and writes the whole row back, patched; the caller goes on.
UpsertWrite(p) ==
    /\ At(p, "upsert_write")
    /\ ts' = Patched(proc[p].seen, proc[p].patch)
    /\ CASE proc[p].then = "int_begin" -> BeginInterrupt(p)
         [] proc[p].then = "idle"      -> Return(p) /\ UNCHANGED session
         [] OTHER                      -> Goto(p, proc[p].then) /\ UNCHANGED session
    /\ UNCHANGED <<record, rt, inflight, outside>>

-----------------------------------------------------------------------------
(* The event runtime: parking of early events, activation, suppression. *)

\* Mutants: parked events are not dropped once queued; are dropped unqueued.
ActivateKeepingParked(r, t) ==
    [r EXCEPT !.latest = t, !.pending = FALSE, !.active = @ \cup {t}, !.lane = @ \o r.parked]
ActivateLosingParked(r, t) ==
    [r EXCEPT !.latest = t, !.pending = FALSE, !.active = @ \cup {t}, !.parked = <<>>]

\* activateTurn: the turn becomes the latest and the parked events join the lane.
ActivateTurn(r, t) ==
    [r EXCEPT !.latest = t, !.pending = FALSE, !.active = @ \cup {t},
              !.lane = @ \o r.parked, !.parked = <<>>]

\* The callback attachSource gives the backend: park while a turn is being
\* started and none is active, else queue on the lane.
OnNotification(r, e) ==
    IF r.pending /\ r.latest = NoTurn
    THEN [r EXCEPT !.parked = Append(@, e)]
    ELSE [r EXCEPT !.lane = Append(@, e)]

\* resolveTurnRoute: an event of a turn that is not active activates it.
ResolveTurnRoute(r, t) == IF t \in r.active THEN r ELSE ActivateTurn(r, t)

IsTurnSuppressed(r, e) ==
    /\ e.kind = "delta"
    /\ \/ e.turn \in r.suppressed \cup r.finished
       \/ e.turn = r.interrupting

ForgetTurn(r, t) ==
    [r EXCEPT !.active = @ \ {t}, !.latest = IF @ = t THEN NoTurn ELSE @]

-----------------------------------------------------------------------------
(* Starting a turn: handleUserTextForUser, startUserTurn, runTurnWithLifecycle. *)

LaneQuiet == rt.lane = <<>> /\ rt.parked = <<>> /\ At(Lane, "idle")
AgentRuns(t) == agent[t] \in {"running", "spoke"}

\* A frame of a user who accepts or reverts.
Resolving(f) ==
    \/ f.pc \in {"acc_write", "acc_state", "rev_write", "rev_state"}
    \/ f.pc \in {"upsert_read", "upsert_write"} /\ f.then = "idle"

\* No turn, event or command is under way.
Quiet   == LaneQuiet /\ \A t \in Turns : ~AgentRuns(t)
Settled == Quiet /\ \A c \in Clients : At(c, "idle")

\* Accepting and reverting users may always meet each other.
MayResolve == "overlap" \in Env \/ (Quiet /\ \A c \in Clients : At(c, "idle") \/ Resolving(proc[c]))

\* Bound: a start is tried only while the agent still has a turn id for it.
TurnBudget ==
    Cardinality({c \in Clients : proc[c].pc \in {"start_status", "prepare", "starting", "restarting"}})
        < Cardinality({t \in Turns : agent[t] = "unused"})

MaySend == ("overlap" \in Env \/ Settled) /\ TurnBudget

\* releaseFailedStartTurn
Released(m) == IF m \in {"RUNNING", "FAILED"} THEN "IDLE" ELSE m

\* The catch block of startUserTurn, entered whatever the reason of the failure.
FailStart(c) ==
    /\ machine' = Released(machine)
    /\ Return(c)

\* ensureCanStartTurn, and the catch block when it throws.
EnsureCanStartTurn(c) ==
    IF machine \in {"IDLE", "FAILED"}
    THEN machine' = "RUNNING" /\ Goto(c, "prepare")
    ELSE FailStart(c)

\* A message arrives; isPendingApproval reads the blocking turn.
SendText(c) ==
    /\ At(c, "idle")
    /\ MaySend
    /\ IF ts.blocking = NoTurn
       THEN EnsureCanStartTurn(c)
       ELSE /\ proc' = [proc EXCEPT ![c].pc = "start_status", ![c].target = ts.blocking]
            /\ UNCHANGED machine
    /\ UNCHANGED <<interrupting, store, rt, inflight, outside>>

\* Mutant: a blocking turn is not asked for its status.
CheckNoApproval(c) ==
    /\ At(c, "start_status")
    /\ EnsureCanStartTurn(c)
    /\ UNCHANGED <<interrupting, store, rt, inflight, outside>>

\* isPendingApproval reads that turn's status.
CheckPendingApproval(c) ==
    /\ At(c, "start_status")
    /\ IF record[proc[c].target] = "awaiting_approval"
       THEN FailStart(c)
       ELSE EnsureCanStartTurn(c)
    /\ UNCHANGED <<interrupting, store, rt, inflight, outside>>

\* prepareTurnPipeline, then turn/start goes out.
PrepareTurn(c) ==
    /\ At(c, "prepare")
    /\ rt' = [rt EXCEPT !.pending = TRUE]
    /\ Goto(c, "starting")
    /\ UNCHANGED <<session, store, inflight, outside>>

\* The backend lost the thread: it is resumed and turn/start sent once more.
ResumeThread(c) ==
    /\ "failure" \in Env
    /\ At(c, "starting")
    /\ rt' = [rt EXCEPT !.pending = TRUE]
    /\ Goto(c, "restarting")
    /\ UNCHANGED <<session, store, inflight, outside>>

\* No agent, turn/start refused, or the thread could not be resumed.
StartFails(c) ==
    /\ "failure" \in Env
    /\ proc[c].pc \in {"prepare", "starting", "restarting"}
    /\ FailStart(c)
    /\ UNCHANGED <<interrupting, store, rt, inflight, outside>>

\* The backend starts a turn and answers with its id.
TurnStart(c) ==
    /\ proc[c].pc \in {"starting", "restarting"}
    /\ \E t \in Turns :
        /\ agent[t] = "unused"
        /\ agent' = [agent EXCEPT ![t] = "running"]
        /\ proc' = [proc EXCEPT ![c].pc = "ensure", ![c].turn = t, ![c].target = NoTurn]
    /\ UNCHANGED <<session, store, rt, inflight, asked, shown>>

-----------------------------------------------------------------------------
(* ensureTurnStarted, called by the start and by the first event of a turn. *)

\* What follows ensureTurnStarted: the lane handles its event; a start
\* activates the pipeline (activateTurnPipeline) and createTurn has succeeded.
Proceed(p) ==
    IF p = Lane
    THEN Goto(Lane, "handle") /\ UNCHANGED rt
    ELSE rt' = ActivateTurn(rt, proc[p].turn) /\ Return(p)

\* Mutant: concurrent calls for one turn are not joined.
EnsureEnterAlone(p) ==
    /\ At(p, "ensure")
    /\ Goto(p, "ensure_read")
    /\ inflight' = inflight \cup {proc[p].turn}
    /\ UNCHANGED <<session, store, rt, outside>>

EnsureEnter(p) ==
    /\ At(p, "ensure")
    /\ IF proc[p].turn \in inflight
       THEN Goto(p, "join") /\ UNCHANGED inflight
       ELSE Goto(p, "ensure_read") /\ inflight' = inflight \cup {proc[p].turn}
    /\ UNCHANGED <<session, store, rt, outside>>

EnsureRead(p) ==
    /\ At(p, "ensure_read")
    /\ CASE record[proc[p].turn] = "none"    -> Goto(p, "ensure_create")
         [] record[proc[p].turn] = "running" -> Upsert(p, MarkTurnRunning(proc[p].turn), "ensured")
         [] OTHER                            -> Goto(p, "ensured")
    /\ UNCHANGED <<session, store, rt, inflight, outside>>

\* Mutant: the turn is marked running without a record.
CreateTurnUnrecorded(p) ==
    /\ At(p, "ensure_create")
    /\ Upsert(p, MarkTurnRunning(proc[p].turn), "ensured")
    /\ UNCHANGED <<session, store, rt, inflight, outside>>

\* createTurnStart: snapshot, the record, then markTurnRunning.
CreateTurnStart(p) ==
    /\ At(p, "ensure_create")
    /\ record' = [record EXCEPT ![proc[p].turn] = "running"]
    /\ Upsert(p, MarkTurnRunning(proc[p].turn), "ensured")
    /\ UNCHANGED <<session, ts, rt, inflight, outside>>

\* A joined call ends as the call it joined: well unless there is no record.
EnsureJoined(p) ==
    /\ At(p, "join")
    /\ proc[p].turn \notin inflight
    /\ record[proc[p].turn] # "none"
    /\ Proceed(p)
    /\ UNCHANGED <<session, store, inflight, outside>>

\* Mutant: the entry of the finished call is not deleted.
EnsureDoneInflight(p) ==
    /\ At(p, "ensured")
    /\ Proceed(p)
    /\ UNCHANGED <<session, store, inflight, outside>>

EnsureDone(p) ==
    /\ At(p, "ensured")
    /\ inflight' = inflight \ {proc[p].turn}
    /\ Proceed(p)
    /\ UNCHANGED <<session, store, outside>>

\* The worktree is not accessible or the snapshot fails: the start fails, or
\* the lane drops the event and forgets that it ensured the turn.
EnsureFails(p) ==
    /\ "failure" \in Env
    /\ \/ proc[p].pc \in {"ensure", "ensure_create"}
       \/ At(p, "join") /\ proc[p].turn \notin inflight /\ record[proc[p].turn] = "none"
    /\ inflight' = IF At(p, "ensure_create") THEN inflight \ {proc[p].turn} ELSE inflight
    /\ IF p \in Clients
       THEN FailStart(p) /\ UNCHANGED rt
       ELSE /\ rt' = [rt EXCEPT !.ensured = @ \ {proc[p].turn}]
            /\ Return(p)
            /\ UNCHANGED machine
    /\ UNCHANGED <<interrupting, store, outside>>

-----------------------------------------------------------------------------
(* The stream lane: handleStreamNotification, one event at a time. *)

TakeEvent ==
    /\ At(Lane, "idle")
    /\ rt.lane # <<>>
    /\ LET e == Head(rt.lane)
           r == ResolveTurnRoute([rt EXCEPT !.lane = Tail(@)], e.turn)
       IN  IF IsTurnSuppressed(r, e)
           THEN rt' = r /\ UNCHANGED proc
           ELSE /\ rt' = [r EXCEPT !.ensured = @ \cup {e.turn}]
                /\ proc' = [proc EXCEPT ![Lane].turn = e.turn, ![Lane].kind = e.kind,
                                        ![Lane].pc = IF e.turn \in r.ensured THEN "handle" ELSE "ensure"]
    /\ UNCHANGED <<session, store, inflight, outside>>

\* Mutant: the second end of a turn is handled like the first.
HandleEveryEnd ==
    /\ At(Lane, "handle")
    /\ LET t == proc[Lane].turn IN
       IF proc[Lane].kind = "delta"
       THEN Return(Lane) /\ UNCHANGED rt
       ELSE /\ rt' = [rt EXCEPT !.finished = @ \cup {t}, !.ensured = @ \ {t}]
            /\ IF proc[Lane].kind = "complete" /\ rt.interrupting # t
               THEN Goto(Lane, "finish")
               ELSE proc' = [proc EXCEPT ![Lane].pc = "final_read", ![Lane].kind = "aborted"]
    /\ UNCHANGED <<session, store, inflight, outside>>

\* Deltas end here, and so does the second end of a turn.  The completion of
\* a turn that is being interrupted takes the abort path.
HandleEvent ==
    /\ At(Lane, "handle")
    /\ LET t == proc[Lane].turn IN
       IF proc[Lane].kind = "delta" \/ t \in rt.finished
       THEN Return(Lane) /\ UNCHANGED rt
       ELSE /\ rt' = [rt EXCEPT !.finished = @ \cup {t}, !.ensured = @ \ {t}]
            /\ IF proc[Lane].kind = "complete" /\ rt.interrupting # t
               THEN Goto(Lane, "finish")
               ELSE proc' = [proc EXCEPT ![Lane].pc = "final_read", ![Lane].kind = "aborted"]
    /\ UNCHANGED <<session, store, inflight, outside>>

\* finishTurn first releases the machine ...
FinishSessionTurn ==
    /\ At(Lane, "finish")
    /\ machine' = IF machine = "RUNNING" THEN "IDLE" ELSE machine
    /\ Goto(Lane, "finish_read")
    /\ UNCHANGED <<interrupting, store, rt, inflight, outside>>

\* ... then looks for the thread's active turn and commits the worktree.  No
\* diff: nothing changed, or a merge is in progress there.
CommitAndDiff ==
    /\ At(Lane, "finish_read")
    /\ IF ts.active = NoTurn
       THEN Goto(Lane, "final_read")
       ELSE \E diff \in BOOLEAN :
              proc' = [proc EXCEPT ![Lane].pc = "complete", ![Lane].diff = diff]
    /\ UNCHANGED <<session, store, rt, inflight, outside>>

\* The commit fails: the lane drops the event half handled.
CommitFails ==
    /\ "failure" \in Env
    /\ At(Lane, "finish_read")
    /\ ts.active # NoTurn
    /\ Return(Lane)
    /\ UNCHANGED <<session, store, rt, inflight, outside>>

\* completeActiveTurn reads the active turn again ...
ReadActiveTurn ==
    /\ At(Lane, "complete")
    /\ IF ts.active = NoTurn
       THEN Goto(Lane, "final_read")
       ELSE proc' = [proc EXCEPT ![Lane].pc = "complete_record", ![Lane].target = ts.active]
    /\ UNCHANGED <<session, store, rt, inflight, outside>>

ReadActiveRecord ==
    /\ At(Lane, "complete_record")
    /\ CASE record[proc[Lane].target] = "none"        -> Goto(Lane, "final_read")
         [] record[proc[Lane].target] = "interrupted" -> Upsert(Lane, MarkTurnInterrupted, "final_read")
         [] OTHER                                     -> Goto(Lane, "complete_write")
    /\ UNCHANGED <<session, store, rt, inflight, outside>>

CompleteActiveTurn ==
    /\ At(Lane, "complete_write")
    /\ LET t == proc[Lane].target IN
       IF proc[Lane].diff
       THEN /\ record' = [record EXCEPT ![t] = "awaiting_approval"]
            /\ Upsert(Lane, MarkTurnAwaitingApproval(t), "final_read")
       ELSE /\ record' = [record EXCEPT ![t] = "completed"]
            /\ Upsert(Lane, MarkTurnCompleted(t), "final_read")
    /\ UNCHANGED <<session, ts, rt, inflight, outside>>

\* finalizeTurnState reads the record of the event's turn and writes it whole.
FinalizeRead ==
    /\ At(Lane, "final_read")
    /\ LET s == record[proc[Lane].turn] IN
       proc' = [proc EXCEPT ![Lane].status = s,
                            ![Lane].pc = IF s = "none" THEN "close" ELSE "final_write"]
    /\ UNCHANGED <<session, store, rt, inflight, outside>>

FinalizeWrite ==
    /\ At(Lane, "final_write")
    /\ record' = [record EXCEPT ![proc[Lane].turn] = proc[Lane].status]
    /\ Goto(Lane, "close")
    /\ UNCHANGED <<session, ts, rt, inflight, outside>>

\* The summary is routed and the runtime forgets the turn.
RouteSummary ==
    /\ At(Lane, "close")
    /\ proc[Lane].kind = "complete"
    /\ shown' = shown \cup {proc[Lane].turn}
    /\ rt' = ForgetTurn(rt, proc[Lane].turn)
    /\ Return(Lane)
    /\ UNCHANGED <<session, store, inflight, agent, asked>>

\* Mutant: completeInterrupt leaves the timer set.
CompleteUncleared(t) ==
    /\ machine' = IF interrupting = t /\ machine \in {"INTERRUPTING", "INTERRUPTED"} THEN "IDLE" ELSE machine
    /\ UNCHANGED interrupting

\* handleTurnAborted, completeInterrupt, and the runtime forgets the turn.
CompleteInterrupt(t) ==
    IF interrupting = t
    THEN /\ machine' = IF machine \in {"INTERRUPTING", "INTERRUPTED"} THEN "IDLE" ELSE machine
         /\ interrupting' = NoTurn
    ELSE UNCHANGED session

TurnAborted ==
    /\ At(Lane, "close")
    /\ proc[Lane].kind = "aborted"
    /\ CompleteInterrupt(proc[Lane].turn)
    /\ rt' = [ForgetTurn(rt, proc[Lane].turn) EXCEPT !.interrupting = NoTurn,
                                                     !.suppressed = @ \cup {proc[Lane].turn}]
    /\ Return(Lane)
    /\ UNCHANGED <<store, inflight, outside>>

-----------------------------------------------------------------------------
(* Interrupting, accepting and reverting. *)

\* handleTurnInterrupt reads the active turn ...
Interrupt(c) ==
    /\ "interrupt" \in Env
    /\ At(c, "idle")
    /\ proc' = [proc EXCEPT ![c].pc = "int_state", ![c].turn = ts.active]
    /\ UNCHANGED <<session, store, rt, inflight, outside>>

\* ... and interruptTurn reads it again, with its record.
InterruptTurn(c) ==
    /\ At(c, "int_state")
    /\ IF ts.active \in Turns /\ record[ts.active] # "none"
       THEN proc' = [proc EXCEPT ![c].pc = "int_call", ![c].target = ts.active]
       ELSE Return(c)
    /\ UNCHANGED <<session, store, rt, inflight, outside>>

TurnInterrupt(c) ==
    /\ At(c, "int_call")
    /\ asked' = asked \cup {proc[c].target}
    /\ Goto(c, "int_write")
    /\ UNCHANGED <<session, store, rt, inflight, agent, shown>>

\* The snapshot is restored and the record, read before, written as interrupted.
WriteInterrupted(c) ==
    /\ At(c, "int_write")
    /\ record' = [record EXCEPT ![proc[c].target] = "interrupted"]
    /\ Upsert(c, MarkTurnInterrupted, "int_begin")
    /\ UNCHANGED <<session, ts, rt, inflight, outside>>

MarkTurnInterrupting(c) ==
    /\ At(c, "int_mark")
    /\ rt' = [rt EXCEPT !.suppressed = @ \cup {proc[c].turn}, !.interrupting = proc[c].turn]
    /\ Return(c)
    /\ UNCHANGED <<session, store, inflight, outside>>

\* clearInterrupt, from the 30 s timer.
InterruptTimeout ==
    /\ interrupting # NoTurn
    /\ interrupting' = NoTurn
    /\ machine' = IF machine \in {"INTERRUPTING", "INTERRUPTED"} THEN "IDLE" ELSE machine
    /\ UNCHANGED <<store, rt, inflight, proc, outside>>

\* acceptTurn, from the summary card: only a turn that awaits approval.
AcceptTurn(c) ==
    /\ At(c, "idle")
    /\ MayResolve
    /\ \E t \in shown :
        /\ record[t] = "awaiting_approval"
        /\ proc' = [proc EXCEPT ![c].pc = "acc_write", ![c].turn = t]
    /\ UNCHANGED <<session, store, rt, inflight, outside>>

WriteAccepted(c) ==
    /\ At(c, "acc_write")
    /\ record' = [record EXCEPT ![proc[c].turn] = "accepted"]
    /\ Goto(c, "acc_state")
    /\ UNCHANGED <<session, ts, rt, inflight, outside>>

ReleaseBlocking(c) ==
    /\ At(c, "acc_state")
    /\ IF ts.blocking = proc[c].turn
       THEN Upsert(c, ClearBlockingTurn, "idle")
       ELSE Return(c)
    /\ UNCHANGED <<session, store, rt, inflight, outside>>

\* revertTurn, from the summary card: any turn with a snapshot.
RevertTurn(c) ==
    /\ At(c, "idle")
    /\ MayResolve
    /\ \E t \in shown :
        /\ record[t] # "none"
        /\ proc' = [proc EXCEPT ![c].pc = "rev_write", ![c].turn = t]
    /\ UNCHANGED <<session, store, rt, inflight, outside>>

WriteReverted(c) ==
    /\ At(c, "rev_write")
    /\ record' = [record EXCEPT ![proc[c].turn] = "reverted"]
    /\ Goto(c, "rev_state")
    /\ UNCHANGED <<session, ts, rt, inflight, outside>>

ReleaseReferences(c) ==
    /\ At(c, "rev_state")
    /\ Upsert(c, ClearTurnReferences(ts, proc[c].turn), "idle")
    /\ UNCHANGED <<session, store, rt, inflight, outside>>

\* The backend refuses the interrupt or the rollback, or the snapshot cannot be
\* restored: the command ends where it is.
CommandFails(c) ==
    /\ "failure" \in Env
    /\ proc[c].pc \in {"int_call", "int_write", "rev_write"}
    /\ Return(c)
    /\ UNCHANGED <<session, store, rt, inflight, outside>>

-----------------------------------------------------------------------------
(* The backend. *)

\* Bound: one delta stands for the events of a turn before its end.
Speak(t) ==
    /\ agent[t] = "running"
    /\ agent' = [agent EXCEPT ![t] = "spoke"]
    /\ rt' = OnNotification(rt, [turn |-> t, kind |-> "delta"])
    /\ UNCHANGED <<session, store, inflight, proc, asked, shown>>

\* A turn completes, or is aborted when it was asked to stop or by itself.
EndTurn(t) ==
    /\ AgentRuns(t)
    /\ agent' = [agent EXCEPT ![t] = "ended"]
    /\ \E kind \in {"complete", "aborted"} :
        /\ kind = "aborted" => t \in asked \/ "abort" \in Env
        /\ rt' = OnNotification(rt, [turn |-> t, kind |-> kind])
    /\ UNCHANGED <<session, store, inflight, proc, asked, shown>>

EchoEnd(t) ==
    /\ "echo" \in Env
    /\ agent[t] = "ended"
    /\ agent' = [agent EXCEPT ![t] = "echoed"]
    /\ \E kind \in {"complete", "aborted"} :
         rt' = OnNotification(rt, [turn |-> t, kind |-> kind])
    /\ UNCHANGED <<session, store, inflight, proc, asked, shown>>

\* A restart keeps the database and the routed cards.  The backend processes
\* die with their turns; recovery resumes threads, never turns.
Crash ==
    /\ "crash" \in Env
    /\ machine' = "IDLE"
    /\ interrupting' = NoTurn
    /\ rt' = NoRuntime
    /\ inflight' = {}
    /\ proc' = [p \in Procs |-> Blank]
    /\ agent' = [t \in Turns |-> IF agent[t] = "unused" THEN "unused" ELSE "echoed"]
    /\ UNCHANGED <<store, asked, shown>>

-----------------------------------------------------------------------------
StartStep(c) ==
    \/ CheckPendingApproval(c) \/ PrepareTurn(c) \/ TurnStart(c)
    \/ ResumeThread(c) \/ StartFails(c)

EnsureStep(p) ==
    \/ EnsureEnter(p) \/ EnsureRead(p) \/ CreateTurnStart(p) \/ EnsureJoined(p) \/ EnsureDone(p)
    \/ EnsureFails(p)
    \/ UpsertRead(p) \/ UpsertWrite(p)

CommandStep(c) ==
    \/ InterruptTurn(c) \/ TurnInterrupt(c) \/ WriteInterrupted(c) \/ MarkTurnInterrupting(c)
    \/ WriteAccepted(c) \/ ReleaseBlocking(c) \/ WriteReverted(c) \/ ReleaseReferences(c)
    \/ CommandFails(c)

LaneStep ==
    \/ TakeEvent \/ HandleEvent
    \/ FinishSessionTurn \/ CommitAndDiff \/ CommitFails \/ ReadActiveTurn \/ ReadActiveRecord
    \/ CompleteActiveTurn \/ FinalizeRead \/ FinalizeWrite \/ RouteSummary \/ TurnAborted

UserStep(c)  == SendText(c) \/ Interrupt(c) \/ AcceptTurn(c) \/ RevertTurn(c)
AgentStep(t) == Speak(t) \/ EndTurn(t) \/ EchoEnd(t)

Next ==
    \/ \E c \in Clients : UserStep(c) \/ StartStep(c) \/ CommandStep(c)
    \/ \E p \in Procs : EnsureStep(p)
    \/ LaneStep
    \/ InterruptTimeout
    \/ \E t \in Turns : AgentStep(t)
    \/ Crash

\* Every async call goes on once its await is answered, every queue is drained
\* and a set timer fires.  Users and the backend's own progress are not assumed.
Fairness ==
    /\ \A c \in Clients : WF_vars(StartStep(c)) /\ WF_vars(CommandStep(c))
    /\ \A p \in Procs : WF_vars(EnsureStep(p))
    /\ WF_vars(LaneStep)
    /\ WF_vars(InterruptTimeout)

Spec     == Init /\ [][Next]_vars
FairSpec == Spec /\ Fairness

-----------------------------------------------------------------------------
\* Every variable has its type.
TypeOK ==
    /\ machine \in MachineStates
    /\ interrupting \in TurnRef
    /\ record \in [Turns -> Statuses]
    /\ ts \in ThreadState
    /\ rt \in Runtime
    /\ inflight \subseteq Turns
    /\ proc \in [Procs -> Frame]
    /\ agent \in [Turns -> AgentStates]
    /\ asked \subseteq Turns
    /\ shown \subseteq Turns

\* A thread is INTERRUPTING exactly while an interrupted turn and its timer are
\* registered: beginInterrupt, completeInterrupt, clearInterrupt, ensureCanStartTurn,
\* finishSessionTurn and the failed starts never part the two, so no thread is left
\* INTERRUPTING with no timer to release it.
InterruptArmed == machine = "INTERRUPTING" <=> interrupting # NoTurn

\* The thread's turn state never names a turn that has no record, whatever stale
\* row an interleaved upsertRuntimeState wrote back and wherever the process died.
ReferencesRecorded ==
    \A t \in {ts.active, ts.blocking, ts.last} \ {NoTurn} : record[t] # "none"

\* While the backend is being asked to stop, no new turn claims the thread: it
\* leaves INTERRUPTING only for IDLE.
InterruptingHolds ==
    [][machine = "INTERRUPTING" => machine' \in {"INTERRUPTING", "IDLE"}]_vars

\* Two calls of ensureTurnStarted, the start's and the first event's, never both
\* create the record of a turn (and its snapshot).
CreateOnce == \A p \in Procs : At(p, "ensure_create") => record[proc[p].turn] = "none"

\* Events wait in the runtime only while a start is pending and no turn is active:
\* activating a turn leaves none behind.
ParkedWait == rt.parked # <<>> => rt.pending /\ rt.latest = NoTurn

\* When no start fails, parked events always have a start under way that will release them.
ParkedOwned == rt.parked # <<>> => \E c \in Clients : ~At(c, "idle")

\* However the parked events and the lane interleave, no delta of a turn is queued
\* behind the end of that turn.
EventOrder ==
    LET q == rt.lane \o rt.parked IN
    \A i, j \in 1..Len(q) : i < j /\ q[i].turn = q[j].turn /\ q[i].kind # "delta" => q[j].kind # "delta"

\* Parked events are released in their order: each of them has a start that will
\* activate its turn, and none overtakes another.
ParkedKept == EventOrder /\ ParkedOwned

\* A turn whose end the backend reports twice gets one summary card.
SummaryOnce == [][RouteSummary => proc[Lane].turn \notin shown]_vars

\* The backend never runs a turn while another one awaits accept or revert.
NoRunWhileAwaiting == \A t, u \in Turns : AgentRuns(t) => record[u] # "awaiting_approval"

\* On a settled thread a turn that awaits accept or revert blocks new turns,
\* whichever users resolved earlier turns at the same time.
AwaitingBlocks == Settled => \A t \in Turns : record[t] = "awaiting_approval" => ts.blocking = t

\* A settled thread is ready for a new turn.
SettledIdle == Settled => machine # "RUNNING"

\* A settled thread is ready for a new turn: its machine, the row and every record say
\* that no turn runs.
SettledClosed ==
    SettledIdle /\ (Settled => ts.active = NoTurn /\ \A t \in Turns : record[t] # "running")

\* Seen through its records, a thread whose users wait for it keeps the promise of
\* TurnLedger: one open turn at a time, and no start before the user's decision.
Ledger     == INSTANCE TurnLedger WITH status <- record
LedgerKept == Ledger!Spec

\* Every end the backend reports is handled, also one that arrives before the
\* answer to turn/start or that was parked.
EndHandled == \A t \in Turns : agent[t] \in {"ended", "echoed"} ~> t \in rt.finished

\* A start that was admitted returns to its user, whether or not it joined a call
\* of ensureTurnStarted made by an event.
StartReturns == \A c \in Clients : At(c, "prepare") ~> At(c, "idle")
=============================================================================
