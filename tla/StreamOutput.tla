---------------------------- MODULE StreamOutput ----------------------------
(***************************************************************************)
(* The output of ONE turn: what the stream lane of ThreadEventRuntime      *)
(* makes of the backend's events, StreamOutputCoordinator, which gathers   *)
(* streamed text and stores and shows it now and then, OutputIntentBuffer, *)
(* which holds shown text back once more, and the turn_details row.        *)
(*                                                                         *)
(* Text is a sequence of chunk numbers per kind of stream.  Routing        *)
(* streamed text ends in the intent buffer without waiting for anything,   *)
(* and the lane takes its next event in a macrotask of its own, so a UI    *)
(* flush is one step; a persist flush waits for the database.              *)
(***************************************************************************)
EXTENDS Naturals, Sequences

CONSTANTS
    Kinds,      \* kinds of streamed text that have a column in turn_details
    ToolKinds,  \* those whose column is overwritten even by an empty text
    MaxEvents,  \* bound: events of the turn before its end
    Echo        \* whether the backend reports the end of the turn twice

ASSUME StreamConstants ==
    /\ ToolKinds \subseteq Kinds
    /\ MaxEvents \in Nat
    /\ Echo \in BOOLEAN

VARIABLES
    heard,      \* chunks of each kind applied to the TurnState
    steps,      \* progress reports applied to the TurnState
    events,     \* events taken so far
    st,         \* TurnStreamAggregateState
    timers,     \* its persist and UI timer
    db,         \* calls of syncTurnState under way, in the order the database serves them
    buffer,     \* OutputIntentBuffer: text per kind
    card,       \* text dispatched to the platform
    summary,    \* whether the summary was dispatched
    row,        \* turn_details: how much of the turn it holds
    lane,       \* frame of the stream lane
    finished    \* the turn's end was handled and its context deleted

context == <<heard, steps, events>>
stream  == <<st, timers>>
shown   == <<buffer, card, summary>>
vars    == <<context, stream, db, shown, row, lane, finished>>

Snapshot == [text : [Kinds -> Nat], steps : Nat]
NoText   == [k \in Kinds |-> <<>>]
Nothing  == [text |-> [k \in Kinds |-> 0], steps |-> 0]
Sync     == [by : {"flush", "lane"}, snap : Snapshot]

\* TurnState.snapshot()
Current == [text |-> heard, steps |-> steps]

Aggregate == [open : BOOLEAN, latest : Snapshot, dirty : BOOLEAN, delta : [Kinds -> Seq(Nat)],
              sequence : Nat, persisted : Nat, output : Nat]
Closed    == [open |-> FALSE, latest |-> Nothing, dirty |-> FALSE, delta |-> NoText,
              sequence |-> 0, persisted |-> 0, output |-> 0]

\* A timer is none, armed, or stale: fired, with its handle still in the state.
TimerStates == {"none", "armed", "stale"}
NoTimers    == [persist |-> "none", ui |-> "none"]

PCs   == {"idle", "flush", "sync", "finish", "last_flush", "final", "summary"}
Ends  == {"progress", "complete", "aborted", "echo"}
Frame == [pc : PCs, kind : Ends, snap : Snapshot]
Idle  == [pc |-> "idle", kind |-> "progress", snap |-> Nothing]

Init ==
    /\ heard = [k \in Kinds |-> 0] /\ steps = 0 /\ events = 0
    /\ st = Closed /\ timers = NoTimers /\ db = <<>>
    /\ buffer = NoText /\ card = NoText /\ summary = FALSE
    /\ row = Nothing
    /\ lane = Idle
    /\ finished = FALSE

-----------------------------------------------------------------------------
(* Pieces of StreamOutputCoordinator. *)

Pending(s) == \E k \in Kinds : s.delta[k] # <<>>

\* getOrCreateState, the newest snapshot, one more thing to store.
Touched(snap) == [st EXCEPT !.open = TRUE, !.latest = snap, !.dirty = TRUE, !.sequence = @ + 1]

Arm(names) == [t \in DOMAIN timers |->
                 IF t \in names /\ timers[t] = "none" THEN "armed" ELSE timers[t]]

\* What the end of a UI flush leaves of the state.
FlushedUi(s) ==
    IF Pending(s)
    THEN [s EXCEPT !.output = s.sequence, !.delta = NoText,
                   !.dirty = @ /\ s.persisted # s.sequence]
    ELSE s

\* What the end of a persist flush leaves: everything counts as stored.
Persisted(s) ==
    [s EXCEPT !.persisted = s.sequence,
              !.dirty = @ /\ ~(s.output = s.sequence /\ ~Pending(s))]

Joined(f, g) == [k \in Kinds |-> f[k] \o g[k]]

\* syncTurnState: an empty text leaves its column alone, unless it is a tool's.
Stored(snap) ==
    [text  |-> [k \in Kinds |-> IF k \in ToolKinds \/ snap.text[k] # 0 THEN snap.text[k] ELSE row.text[k]],
     steps |-> snap.steps]

-----------------------------------------------------------------------------
(* What a flush does to the variables; s is the state it finds. *)

\* persistInFlight
Flushing == \E i \in DOMAIN db : db[i].by = "flush"

StartPersist(s) == db' = Append(db, [by |-> "flush", snap |-> s.latest])

\* Mutant: resetOutputState is not called.
FlushUiKeeping(s) ==
    /\ st' = [s EXCEPT !.output = s.sequence]
    /\ buffer' = Joined(buffer, s.delta)

\* flushUi: drainMessages into the intent buffer, resetOutputState.
FlushUi(s) ==
    /\ st' = FlushedUi(s)
    /\ buffer' = Joined(buffer, s.delta)

\* Where the lane goes on after forceFlush: it stores a snapshot of its own.
After == [flush |-> "sync", last_flush |-> "final"]
Call(snap) == [by |-> "lane", snap |-> snap]

\* forceFlush from frame f: wait for a persist flush, one under way or a new one,
\* or run through to its end.
ForceFlush(f) ==
    IF st.open /\ st.dirty
    THEN /\ IF Flushing
            THEN UNCHANGED <<timers, db>>
            ELSE StartPersist(st) /\ timers' = [timers EXCEPT !.persist = "none"]
         /\ lane' = f
         /\ UNCHANGED <<st, buffer>>
    ELSE /\ FlushUi(st)
         /\ timers' = NoTimers
         /\ db' = Append(db, Call(f.snap))
         /\ lane' = [f EXCEPT !.pc = After[@]]

-----------------------------------------------------------------------------
(* Events of the backend, taken by the idle lane. *)

MayTake == lane.pc = "idle" /\ ~finished /\ events < MaxEvents

\* ingest, with its two timers; the thresholds on waiting text and time start a
\* flush at once.
Ingest(k) ==
    /\ MayTake
    /\ events' = events + 1
    /\ heard' = [heard EXCEPT ![k] = @ + 1]
    /\ LET s == [Touched([Current EXCEPT !.text = heard'])
                   EXCEPT !.delta[k] = Append(@, heard'[k])]
           set == Arm({"persist", "ui"})
       IN  \E persist, ui \in BOOLEAN :
             /\ IF persist /\ ~Flushing THEN StartPersist(s) ELSE UNCHANGED db
             /\ timers' = [set EXCEPT !.persist = IF persist /\ ~Flushing THEN "none" ELSE @,
                                      !.ui = IF ui THEN "none" ELSE @]
             /\ IF ui THEN FlushUi(s) ELSE st' = s /\ UNCHANGED buffer
    /\ UNCHANGED <<steps, card, summary, row, lane, finished>>

\* A notification that is neither streamed nor critical: markSnapshotDirty.  Its
\* route empties the intent buffer of the turn first.
Note ==
    /\ MayTake
    /\ events' = events + 1
    /\ st' = Touched(Current)
    /\ timers' = Arm({"persist"})
    /\ card' = Joined(card, buffer)
    /\ buffer' = NoText
    /\ UNCHANGED <<heard, steps, db, summary, row, lane, finished>>

\* A critical message: everything is flushed, then its own snapshot is stored.
Critical(kind, snap) == ForceFlush([pc |-> "flush", kind |-> kind, snap |-> snap])

\* A progress report of a tool.
Progress ==
    /\ MayTake
    /\ events' = events + 1
    /\ steps' = steps + 1
    /\ Critical("progress", [text |-> heard, steps |-> steps'])
    /\ UNCHANGED <<heard, card, summary, row, finished>>

\* The turn ends; first its notification is treated like any critical message.
End(kind) ==
    /\ lane.pc = "idle"
    /\ ~finished
    /\ Critical(kind, Current)
    /\ UNCHANGED <<context, card, summary, row, finished>>

\* A second report of the end finds no TurnState and no stream state: a fresh
\* snapshot is stored, before the turn is found among finishedTurns.
EchoEnd ==
    /\ Echo
    /\ lane.pc = "idle"
    /\ finished
    /\ lane' = [pc |-> "sync", kind |-> "echo", snap |-> Nothing]
    /\ db' = Append(db, Call(Nothing))
    /\ UNCHANGED <<context, stream, shown, row, finished>>

-----------------------------------------------------------------------------
(* The database answers, in the order of the calls, and the lane goes on. *)

Answered(by) ==
    /\ db # <<>>
    /\ Head(db).by = by
    /\ row' = Stored(Head(db).snap)

\* The snapshot of a critical message is stored; then it is routed, and all but
\* progress reports empty the intent buffer of the turn.
SyncTurnState ==
    /\ lane.pc = "sync"
    /\ Answered("lane")
    /\ db' = Tail(db)
    /\ IF lane.kind = "progress"
       THEN UNCHANGED <<buffer, card>>
       ELSE card' = Joined(card, buffer) /\ buffer' = NoText
    /\ lane' = IF lane.kind \in {"complete", "aborted"} THEN [lane EXCEPT !.pc = "finish"] ELSE Idle
    /\ UNCHANGED <<context, stream, summary, finished>>

\* finishTurn has returned, or there is none for an aborted turn.
ForceFlushLast ==
    /\ lane.pc = "finish"
    /\ ForceFlush([lane EXCEPT !.pc = "last_flush"])
    /\ UNCHANGED <<context, card, summary, row, finished>>

\* Mutant: the coordinator's latest snapshot is taken for the turn's.
FinalizeLatest ==
    /\ lane.pc = "final"
    /\ db # <<>>
    /\ Head(db).by = "lane"
    /\ row' = Stored(st.latest)
    /\ db' = Tail(db)
    /\ lane' = [lane EXCEPT !.pc = "summary"]
    /\ UNCHANGED <<context, stream, shown, finished>>

\* finalizeTurnState stores the turn as it ended ...
FinalizeTurnState ==
    /\ lane.pc = "final"
    /\ Answered("lane")
    /\ db' = Tail(db)
    /\ lane' = [lane EXCEPT !.pc = "summary"]
    /\ UNCHANGED <<context, stream, shown, finished>>

\* ... then a completed turn's summary empties the intent buffer and is
\* dispatched, the context is deleted and the stream state cleaned up.
RouteSummary ==
    /\ lane.pc = "summary"
    /\ IF lane.kind = "complete"
       THEN card' = Joined(card, buffer) /\ buffer' = NoText /\ summary' = TRUE
       ELSE UNCHANGED shown
    /\ finished' = TRUE
    /\ st' = Closed
    /\ timers' = NoTimers
    /\ lane' = Idle
    /\ UNCHANGED <<context, db, row>>

\* Mutant: a forceFlush that had to wait leaves the text to the UI timer.
PersistDoneOnly ==
    /\ Answered("flush")
    /\ st' = Persisted(st)
    /\ IF lane.pc \in DOMAIN After
       THEN /\ db' = Append(Tail(db), Call(lane.snap))
            /\ lane' = [lane EXCEPT !.pc = After[@]]
       ELSE db' = Tail(db) /\ UNCHANGED lane
    /\ UNCHANGED <<context, timers, buffer, card, summary, finished>>

\* The snapshot of a persist flush is stored.  A forceFlush that waits for it,
\* whoever started it, goes on at once.
PersistDone ==
    /\ Answered("flush")
    /\ IF lane.pc \in DOMAIN After
       THEN /\ FlushUi(Persisted(st))
            /\ timers' = [timers EXCEPT !.ui = "none"]
            /\ db' = Append(Tail(db), Call(lane.snap))
            /\ lane' = [lane EXCEPT !.pc = After[@]]
       ELSE /\ st' = Persisted(st)
            /\ db' = Tail(db)
            /\ UNCHANGED <<timers, buffer, lane>>
    /\ UNCHANGED <<context, card, summary, finished>>

-----------------------------------------------------------------------------
(* Timers. *)

\* A persist timer that meets a flush under way joins it and leaves its handle.
PersistTimer ==
    /\ timers.persist = "armed"
    /\ IF st.dirty /\ ~Flushing THEN StartPersist(st) ELSE UNCHANGED db
    /\ timers' = [timers EXCEPT !.persist = IF st.dirty /\ Flushing THEN "stale" ELSE "none"]
    /\ UNCHANGED <<context, st, shown, row, lane, finished>>

\* Mutant: the handle of the timer that fired is kept.
UiTimerKept ==
    /\ timers.ui = "armed"
    /\ FlushUi(st)
    /\ timers' = [timers EXCEPT !.ui = "stale"]
    /\ UNCHANGED <<context, db, card, summary, row, lane, finished>>

UiTimer ==
    /\ timers.ui = "armed"
    /\ FlushUi(st)
    /\ timers' = [timers EXCEPT !.ui = "none"]
    /\ UNCHANGED <<context, db, card, summary, row, lane, finished>>

\* flushBuffer of the intent buffer, from its window or its maximum wait.
FlushBuffer(k) ==
    /\ buffer[k] # <<>>
    /\ card' = [card EXCEPT ![k] = @ \o buffer[k]]
    /\ buffer' = [buffer EXCEPT ![k] = <<>>]
    /\ UNCHANGED <<context, stream, db, summary, row, lane, finished>>

AgentStep == (\E k \in Kinds : Ingest(k)) \/ Note \/ Progress \/ End("complete") \/ End("aborted") \/ EchoEnd
LaneStep  == SyncTurnState \/ ForceFlushLast \/ FinalizeTurnState \/ RouteSummary
TimerStep == PersistTimer \/ UiTimer

Next == AgentStep \/ LaneStep \/ PersistDone \/ TimerStep \/ \E k \in Kinds : FlushBuffer(k)

\* The database answers, the lane goes on and set timers fire; the backend may
\* fall silent at any time.
Fairness ==
    /\ WF_vars(LaneStep)
    /\ WF_vars(PersistDone)
    /\ WF_vars(PersistTimer)
    /\ WF_vars(UiTimer)
    /\ \A k \in Kinds : WF_vars(FlushBuffer(k))

Spec     == Init /\ [][Next]_vars
FairSpec == Spec /\ Fairness

-----------------------------------------------------------------------------
\* Every variable has its type.
TypeOK ==
    /\ heard \in [Kinds -> Nat] /\ steps \in Nat /\ events \in 0..MaxEvents
    /\ st \in Aggregate
    /\ timers \in [{"persist", "ui"} -> TimerStates]
    /\ db \in Seq(Sync)
    /\ buffer \in [Kinds -> Seq(Nat)] /\ card \in [Kinds -> Seq(Nat)] /\ summary \in BOOLEAN
    /\ row \in Snapshot
    /\ lane \in Frame
    /\ finished \in BOOLEAN

Numbers(n) == [i \in 1..n |-> i]

\* Streamed text is neither lost, doubled nor reordered on its way to the card:
\* what was dispatched, what the intent buffer holds and what the coordinator
\* gathers is what the backend said.
TextConserved == \A k \in Kinds : card[k] \o buffer[k] \o st.delta[k] = Numbers(heard[k])

\* The summary comes last: all text of the turn was dispatched before it.
SummaryLast == summary => card = [k \in Kinds |-> Numbers(heard[k])]

\* When the lane is done with the turn its details are stored completely, and no
\* flush still under way, or started later, puts an older snapshot back.
EndStored == [][/\ RouteSummary => row = Current
                /\ PersistDone /\ finished => row' = row]_vars

\* What the backend said is shown sooner or later, even if it falls silent.
TextShown == \A k \in Kinds : \A n \in 1..MaxEvents : heard[k] = n ~> Len(card[k]) >= n
=============================================================================
