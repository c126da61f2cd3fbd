------------------------ MODULE TurnLifecycleProofs ------------------------
(***************************************************************************)
(* Proofs about TurnLifecycle, for any turns, clients and environment.     *)
(*                                                                         *)
(* TInv is the type invariant with what each frame holds at each point; it *)
(* carries TypeOK, InterruptArmed, InterruptingHolds and ParkedWait.       *)
(* RInv adds what CreateOnce and ReferencesRecorded rest on: the turns     *)
(* named by the row, by frames and by patches under way have records, and  *)
(* the one call that may create a record owns the turn's inflight entry.   *)
(* QInv and PendingOwned follow the events from the backend to the lane,   *)
(* for ParkedKept; SInv the lane from a turn's end to its summary card,    *)
(* for SummaryOnce.                                                        *)
(* CInv is about threads whose users wait for them and interrupt nothing:  *)
(* who may be busy at once (Stages), that one turn is under way (Single),  *)
(* that its end is ahead and its last event (Ends), and what the records   *)
(* and the row say of it meanwhile (Rows), for NoRunWhileAwaiting and      *)
(* AwaitingBlocks.  PInv adds, for threads without any hardship, that      *)
(* every running record, active turn and running machine has somebody who  *)
(* will end it, for SettledClosed and LedgerKept.                          *)
(***************************************************************************)
EXTENDS TurnLifecycle, SequenceTheorems, TLAPS

\* Activating a turn gives a runtime state, as does each of the next three operators.
LEMMA ActivateType ==
    ASSUME NEW r \in Runtime, NEW t \in Turns
    PROVE  ActivateTurn(r, t) \in Runtime
<1>1. r.lane \o r.parked \in Seq(Event) BY DEF Runtime
<1>2. <<>> \in Seq(Event) OBVIOUS
<1>3. t \in TurnRef /\ r.active \cup {t} \in SUBSET Turns BY DEF Runtime, TurnRef
<1> QED BY <1>1, <1>2, <1>3 DEF ActivateTurn, Runtime

\* A notification is parked or queued.
LEMMA NotifyType ==
    ASSUME NEW r \in Runtime, NEW e \in Event
    PROVE  OnNotification(r, e) \in Runtime
<1>1. Append(r.parked, e) \in Seq(Event) /\ Append(r.lane, e) \in Seq(Event) BY DEF Runtime
<1> QED BY <1>1 DEF OnNotification, Runtime

\* The turn an event belongs to is looked up, or activated.
LEMMA RouteType ==
    ASSUME NEW r \in Runtime, NEW t \in Turns
    PROVE  ResolveTurnRoute(r, t) \in Runtime
  BY ActivateType DEF ResolveTurnRoute

\* A finished turn is forgotten.
LEMMA ForgetType ==
    ASSUME NEW r \in Runtime, NEW t
    PROVE  ForgetTurn(r, t) \in Runtime
  BY DEF ForgetTurn, Runtime, TurnRef

\* What each mark... call of ThreadService asks upsertRuntimeState to change is a patch.
LEMMA PatchType ==
    ASSUME NEW t \in TurnRef, NEW cur \in ThreadState
    PROVE  /\ MarkTurnRunning(t) \in Patch
           /\ MarkTurnAwaitingApproval(t) \in Patch
           /\ MarkTurnCompleted(t) \in Patch
           /\ MarkTurnInterrupted \in Patch
           /\ ClearBlockingTurn \in Patch
           /\ ClearTurnReferences(cur, t) \in Patch
  BY DEF MarkTurnRunning, MarkTurnAwaitingApproval, MarkTurnCompleted, MarkTurnInterrupted,
         ClearBlockingTurn, ClearTurnReferences, Patch, PatchRef, TurnRef

\* A patched row is a row.
LEMMA PatchedType ==
    ASSUME NEW cur \in ThreadState, NEW patch \in Patch
    PROVE  Patched(cur, patch) \in ThreadState
  BY DEF Patched, Pick, ThreadState, Patch, PatchRef

\* The frame of an idle process is a frame.
LEMMA BlankType == Blank \in Frame
  BY DEF Blank, Frame, PCs, EventKinds, Statuses, NoState, NoPatch, ThreadState, Patch, PatchRef, TurnRef

-----------------------------------------------------------------------------
(* Type correctness, with what a frame holds at each point of its code. *)

\* Points of the code that use the turn of the frame, and its target.
UsesTurn == {"ensure", "join", "ensure_read", "ensure_create", "ensured", "int_mark",
             "acc_write", "acc_state", "rev_write", "rev_state", "handle", "finish", "finish_read",
             "complete", "complete_record", "complete_write", "final_read", "final_write", "close"}
UsesTarget == {"int_call", "int_write", "complete_record", "complete_write"}
Upserting  == {"upsert_read", "upsert_write"}

FrameOK(f) ==
    /\ f.pc \in UsesTurn => f.turn \in Turns
    /\ f.pc \in UsesTarget => f.target \in Turns
    /\ f.pc \in Upserting => /\ f.then \in {"idle", "ensured", "final_read", "int_begin"}
                             /\ f.then \in {"ensured", "final_read"} => f.turn \in Turns

FramesOK == \A p \in Procs : FrameOK(proc[p])

TInv == TypeOK /\ FramesOK

\* The invariant holds at the start.
LEMMA TInvInit == Init => TInv
  BY BlankType DEF Init, TInv, TypeOK, FramesOK, FrameOK, Blank, NoState, NoRuntime, ThreadState,
     Runtime, TurnRef, MachineStates, Statuses, AgentStates, UsesTurn, UsesTarget, Upserting, Event

\* Replacing one frame by a good one keeps them all good.
LEMMA OneFrame ==
    ASSUME TInv, NEW p \in Procs, NEW f \in Frame, FrameOK(f), proc' = [proc EXCEPT ![p] = f]
    PROVE  proc' \in [Procs -> Frame] /\ FramesOK'
  BY DEF TInv, TypeOK, FramesOK, FrameOK

\* A process that only goes to another point keeps a good frame.
LEMMA GotoOK ==
    ASSUME TInv, NEW p \in Procs, NEW pc \in PCs, Goto(p, pc),
           pc \in UsesTurn => proc[p].turn \in Turns,
           pc \in UsesTarget => proc[p].target \in Turns,
           pc \notin Upserting
    PROVE  proc' \in [Procs -> Frame] /\ FramesOK'
<1> DEFINE f == [proc[p] EXCEPT !.pc = pc]
<1>1. proc[p] \in Frame BY DEF TInv, TypeOK
<1>2. f \in Frame BY <1>1 DEF Frame
<1>3. FrameOK(f) BY <1>1 DEF FrameOK, Frame
<1>4. proc' = [proc EXCEPT ![p] = f] BY DEF Goto, TInv, TypeOK
<1> QED BY <1>2, <1>3, <1>4, OneFrame

\* A process that returns has a good frame.
LEMMA ReturnOK ==
    ASSUME TInv, NEW p \in Procs, Return(p)
    PROVE  proc' \in [Procs -> Frame] /\ FramesOK'
<1>1. FrameOK(Blank) BY DEF FrameOK, Blank, UsesTurn, UsesTarget, Upserting
<1> QED BY <1>1, BlankType, OneFrame DEF Return

\* A process that starts a read-modify-write with a patch has a good frame.
LEMMA UpsertOK ==
    ASSUME TInv, NEW p \in Procs, NEW patch \in Patch, NEW then \in {"idle", "ensured", "final_read", "int_begin"},
           then \in {"ensured", "final_read"} => proc[p].turn \in Turns, Upsert(p, patch, then)
    PROVE  proc' \in [Procs -> Frame] /\ FramesOK'
<1> DEFINE f == [proc[p] EXCEPT !.pc = "upsert_read", !.patch = patch, !.then = then]
<1>1. proc[p] \in Frame BY DEF TInv, TypeOK
<1>2. f \in Frame BY <1>1 DEF Frame, PCs
<1>3. FrameOK(f) BY <1>1 DEF FrameOK, Frame, UsesTurn, UsesTarget
<1>4. proc' = [proc EXCEPT ![p] = f] BY DEF Upsert, TInv, TypeOK
<1> QED BY <1>2, <1>3, <1>4, OneFrame

\* A step that leaves every frame alone.
LEMMA SameFrames ==
    ASSUME TInv, UNCHANGED proc
    PROVE  proc' \in [Procs -> Frame] /\ FramesOK'
  BY DEF TInv, TypeOK, FramesOK, FrameOK

\* The catch block of a start keeps the types.
LEMMA FailStartOK ==
    ASSUME TInv, NEW c \in Clients, FailStart(c)
    PROVE  machine' \in MachineStates /\ proc' \in [Procs -> Frame] /\ FramesOK'
  BY ReturnOK DEF FailStart, Released, TInv, TypeOK, MachineStates, Procs

\* So does the check that admits a start.
LEMMA AdmitOK ==
    ASSUME TInv, NEW c \in Clients, EnsureCanStartTurn(c)
    PROVE  machine' \in MachineStates /\ proc' \in [Procs -> Frame] /\ FramesOK'
<1>1. CASE FailStart(c) BY <1>1, FailStartOK
<1>2. CASE machine' = "RUNNING" /\ Goto(c, "prepare")
  BY <1>2, GotoOK DEF MachineStates, Procs, PCs, UsesTurn, UsesTarget, Upserting
<1> QED BY <1>1, <1>2 DEF EnsureCanStartTurn

\* So does going on after ensureTurnStarted, in a start or in the lane.
LEMMA ProceedOK ==
    ASSUME TInv, NEW p \in Procs, proc[p].turn \in Turns, Proceed(p)
    PROVE  rt' \in Runtime /\ proc' \in [Procs -> Frame] /\ FramesOK'
<1>1. CASE p = Lane
  BY <1>1, GotoOK DEF Proceed, TInv, TypeOK, PCs, UsesTurn, UsesTarget, Upserting
<1>2. CASE p # Lane
  BY <1>2, ReturnOK, ActivateType DEF Proceed, TInv, TypeOK
<1> QED BY <1>1, <1>2

\* Commands of users keep the invariant,
LEMMA TInvUser ==
    ASSUME TInv, NEW c \in Clients, UserStep(c)
    PROVE  TInv'
<1> USE DEF session, store, outside, Procs
<1>0. proc[c] \in Frame BY DEF TInv, TypeOK
<1>1. CASE SendText(c)
  <2>1. CASE ts.blocking = NoTurn
    BY <1>1, <2>1, AdmitOK DEF SendText, TInv, TypeOK
  <2>2. CASE ts.blocking # NoTurn
    <3> DEFINE f == [proc[c] EXCEPT !.pc = "start_status", !.target = ts.blocking]
    <3>1. proc' = [proc EXCEPT ![c] = f] BY <1>1, <2>2 DEF SendText, TInv, TypeOK
    <3>2. f \in Frame BY <1>0 DEF TInv, TypeOK, Frame, PCs, ThreadState
    <3>3. FrameOK(f) BY <1>0 DEF FrameOK, Frame, UsesTurn, UsesTarget, Upserting
    <3> QED BY <1>1, <2>2, <3>1, <3>2, <3>3, OneFrame DEF SendText, TInv, TypeOK
  <2> QED BY <2>1, <2>2
<1>2. CASE Interrupt(c)
  <2> DEFINE f == [proc[c] EXCEPT !.pc = "int_state", !.turn = ts.active]
  <2>1. proc' = [proc EXCEPT ![c] = f] BY <1>2 DEF Interrupt, TInv, TypeOK
  <2>2. f \in Frame BY <1>0 DEF TInv, TypeOK, Frame, PCs, ThreadState
  <2>3. FrameOK(f) BY <1>0 DEF FrameOK, Frame, UsesTurn, UsesTarget, Upserting
  <2> QED BY <1>2, <2>1, <2>2, <2>3, OneFrame DEF Interrupt, TInv, TypeOK
<1>3. CASE AcceptTurn(c)
  <2> PICK t \in shown : proc' = [proc EXCEPT ![c].pc = "acc_write", ![c].turn = t]
    BY <1>3 DEF AcceptTurn
  <2>0. t \in Turns BY DEF TInv, TypeOK
  <2> DEFINE f == [proc[c] EXCEPT !.pc = "acc_write", !.turn = t]
  <2>1. proc' = [proc EXCEPT ![c] = f] BY DEF TInv, TypeOK
  <2>2. f \in Frame BY <1>0, <2>0 DEF Frame, PCs, TurnRef
  <2>3. FrameOK(f) BY <1>0, <2>0 DEF FrameOK, Frame, UsesTarget, Upserting
  <2> QED BY <1>3, <2>1, <2>2, <2>3, OneFrame DEF AcceptTurn, TInv, TypeOK
<1>4. CASE RevertTurn(c)
  <2> PICK t \in shown : proc' = [proc EXCEPT ![c].pc = "rev_write", ![c].turn = t]
    BY <1>4 DEF RevertTurn
  <2>0. t \in Turns BY DEF TInv, TypeOK
  <2> DEFINE f == [proc[c] EXCEPT !.pc = "rev_write", !.turn = t]
  <2>1. proc' = [proc EXCEPT ![c] = f] BY DEF TInv, TypeOK
  <2>2. f \in Frame BY <1>0, <2>0 DEF Frame, PCs, TurnRef
  <2>3. FrameOK(f) BY <1>0, <2>0 DEF FrameOK, Frame, UsesTarget, Upserting
  <2> QED BY <1>4, <2>1, <2>2, <2>3, OneFrame DEF RevertTurn, TInv, TypeOK
<1> QED BY <1>1, <1>2, <1>3, <1>4 DEF UserStep

\* as do the steps of a start,
LEMMA TInvStart ==
    ASSUME TInv, NEW c \in Clients, StartStep(c)
    PROVE  TInv'
<1> USE DEF session, store, outside, Procs
<1>0. proc[c] \in Frame BY DEF TInv, TypeOK
<1>1. CASE CheckPendingApproval(c)
  BY <1>1, FailStartOK, AdmitOK DEF CheckPendingApproval, TInv, TypeOK
<1>2. CASE PrepareTurn(c)
  <2>1. proc' \in [Procs -> Frame] /\ FramesOK'
    BY <1>2, GotoOK DEF PrepareTurn, PCs, UsesTurn, UsesTarget, Upserting
  <2> QED BY <1>2, <2>1 DEF PrepareTurn, TInv, TypeOK, Runtime
<1>3. CASE ResumeThread(c)
  <2>1. proc' \in [Procs -> Frame] /\ FramesOK'
    BY <1>3, GotoOK DEF ResumeThread, PCs, UsesTurn, UsesTarget, Upserting
  <2> QED BY <1>3, <2>1 DEF ResumeThread, TInv, TypeOK, Runtime
<1>4. CASE StartFails(c)
  BY <1>4, FailStartOK DEF StartFails, TInv, TypeOK
<1>5. CASE TurnStart(c)
  <2> PICK t \in Turns : /\ agent' = [agent EXCEPT ![t] = "running"]
                         /\ proc' = [proc EXCEPT ![c].pc = "ensure", ![c].turn = t, ![c].target = NoTurn]
    BY <1>5 DEF TurnStart
  <2> DEFINE f == [proc[c] EXCEPT !.pc = "ensure", !.turn = t, !.target = NoTurn]
  <2>1. proc' = [proc EXCEPT ![c] = f] BY DEF TInv, TypeOK
  <2>2. f \in Frame BY <1>0 DEF TInv, TypeOK, Frame, PCs, TurnRef
  <2>3. FrameOK(f) BY <1>0 DEF FrameOK, Frame, UsesTarget, Upserting
  <2>4. agent' \in [Turns -> AgentStates] BY DEF TInv, TypeOK, AgentStates
  <2> QED BY <1>5, <2>1, <2>2, <2>3, <2>4, OneFrame DEF TurnStart, TInv, TypeOK
<1> QED BY <1>1, <1>2, <1>3, <1>4, <1>5 DEF StartStep

\* the steps of ensureTurnStarted and of the read-modify-writes,
LEMMA TInvEnsure ==
    ASSUME TInv, NEW p \in Procs, EnsureStep(p)
    PROVE  TInv'
<1> USE DEF session, store, outside
<1>0. proc[p] \in Frame /\ FrameOK(proc[p]) BY DEF TInv, TypeOK, FramesOK
<1>1. CASE EnsureEnter(p)
  <2>1. proc[p].turn \in Turns BY <1>0, <1>1 DEF EnsureEnter, At, FrameOK, UsesTurn
  <2>2. proc' \in [Procs -> Frame] /\ FramesOK'
    BY <1>1, <2>1, GotoOK DEF EnsureEnter, PCs, UsesTarget, Upserting
  <2> QED BY <1>1, <2>1, <2>2 DEF EnsureEnter, TInv, TypeOK
<1>2. CASE EnsureRead(p)
  <2>1. proc[p].turn \in Turns BY <1>0, <1>2 DEF EnsureRead, At, FrameOK, UsesTurn
  <2>2. CASE Goto(p, "ensure_create") \/ Goto(p, "ensured")
    <3>1. proc' \in [Procs -> Frame] /\ FramesOK'
      BY <2>1, <2>2, GotoOK DEF PCs, UsesTarget, Upserting
    <3> QED BY <1>2, <3>1 DEF EnsureRead, TInv, TypeOK
  <2>3. CASE Upsert(p, MarkTurnRunning(proc[p].turn), "ensured")
    <3>1. MarkTurnRunning(proc[p].turn) \in Patch BY <2>1, PatchType DEF TInv, TypeOK, TurnRef
    <3>2. proc' \in [Procs -> Frame] /\ FramesOK' BY <2>1, <2>3, <3>1, UpsertOK
    <3> QED BY <1>2, <3>2 DEF EnsureRead, TInv, TypeOK
  <2> QED BY <1>2, <2>2, <2>3 DEF EnsureRead
<1>3. CASE CreateTurnStart(p)
  <2>1. proc[p].turn \in Turns BY <1>0, <1>3 DEF CreateTurnStart, At, FrameOK, UsesTurn
  <2>2. MarkTurnRunning(proc[p].turn) \in Patch BY <2>1, PatchType DEF TInv, TypeOK, TurnRef
  <2>3. proc' \in [Procs -> Frame] /\ FramesOK' BY <1>3, <2>1, <2>2, UpsertOK DEF CreateTurnStart
  <2>4. record' \in [Turns -> Statuses] BY <1>3 DEF CreateTurnStart, TInv, TypeOK, Statuses
  <2> QED BY <1>3, <2>3, <2>4 DEF CreateTurnStart, TInv, TypeOK
<1>4. CASE EnsureJoined(p)
  <2>1. proc[p].turn \in Turns BY <1>0, <1>4 DEF EnsureJoined, At, FrameOK, UsesTurn
  <2> QED BY <1>4, <2>1, ProceedOK DEF EnsureJoined, TInv, TypeOK
<1>5. CASE EnsureDone(p)
  <2>1. proc[p].turn \in Turns BY <1>0, <1>5 DEF EnsureDone, At, FrameOK, UsesTurn
  <2> QED BY <1>5, <2>1, ProceedOK DEF EnsureDone, TInv, TypeOK
<1>6. CASE EnsureFails(p)
  <2>1. inflight' \subseteq Turns BY <1>6 DEF EnsureFails, TInv, TypeOK
  <2>2. CASE p \in Clients
    BY <1>6, <2>1, <2>2, FailStartOK DEF EnsureFails, TInv, TypeOK
  <2>3. CASE p \notin Clients
    <3>1. rt' = [rt EXCEPT !.ensured = @ \ {proc[p].turn}] BY <1>6, <2>3 DEF EnsureFails
    <3>2. rt \in Runtime BY DEF TInv, TypeOK
    <3>3. rt.ensured \ {proc[p].turn} \in SUBSET Turns BY <3>2 DEF Runtime
    <3>4. rt' \in Runtime BY <3>1, <3>2, <3>3 DEF Runtime
    <3> QED BY <1>6, <2>1, <2>3, <3>4, ReturnOK DEF EnsureFails, TInv, TypeOK
  <2> QED BY <2>2, <2>3
<1>7. CASE UpsertRead(p)
  <2> DEFINE f == [proc[p] EXCEPT !.pc = "upsert_write", !.seen = ts]
  <2>1. proc' = [proc EXCEPT ![p] = f] BY <1>7 DEF UpsertRead, TInv, TypeOK
  <2>2. f \in Frame BY <1>0 DEF TInv, TypeOK, Frame, PCs
  <2>3. FrameOK(f) BY <1>0, <1>7 DEF UpsertRead, At, FrameOK, Frame, UsesTurn, UsesTarget, Upserting
  <2> QED BY <1>7, <2>1, <2>2, <2>3, OneFrame DEF UpsertRead, TInv, TypeOK
<1>8. CASE UpsertWrite(p)
  <2>1. ts' \in ThreadState
    <3>1. proc[p].seen \in ThreadState /\ proc[p].patch \in Patch BY <1>0 DEF Frame
    <3> QED BY <1>8, <3>1, PatchedType DEF UpsertWrite
  <2>2. /\ proc[p].then \in {"idle", "ensured", "final_read", "int_begin"}
        /\ proc[p].then \in {"ensured", "final_read"} => proc[p].turn \in Turns
    BY <1>0, <1>8 DEF UpsertWrite, At, FrameOK, Upserting
  <2>3. CASE proc[p].then = "int_begin"
    <3>1. BeginInterrupt(p) BY <1>8, <2>3 DEF UpsertWrite
    <3>2. CASE Return(p) /\ UNCHANGED session
      BY <1>8, <2>1, <3>2, ReturnOK DEF UpsertWrite, TInv, TypeOK
    <3>3. CASE /\ proc[p].turn # NoTurn
               /\ machine' = "INTERRUPTING" /\ interrupting' = proc[p].turn /\ Goto(p, "int_mark")
      <4>1. proc[p].turn \in Turns BY <1>0, <3>3 DEF Frame, TurnRef
      <4>2. proc' \in [Procs -> Frame] /\ FramesOK'
        BY <3>3, <4>1, GotoOK DEF PCs, UsesTarget, Upserting
      <4> QED BY <1>8, <2>1, <3>3, <4>1, <4>2 DEF UpsertWrite, TInv, TypeOK, MachineStates, TurnRef
    <3> QED BY <3>1, <3>2, <3>3 DEF BeginInterrupt
  <2>4. CASE proc[p].then = "idle"
    BY <1>8, <2>1, <2>4, ReturnOK DEF UpsertWrite, TInv, TypeOK
  <2>5. CASE proc[p].then \in {"ensured", "final_read"}
    <3>1. Goto(p, proc[p].then) /\ UNCHANGED session BY <1>8, <2>5 DEF UpsertWrite
    <3>2. proc' \in [Procs -> Frame] /\ FramesOK'
      BY <2>2, <2>5, <3>1, GotoOK DEF PCs, UsesTarget, Upserting
    <3> QED BY <1>8, <2>1, <3>1, <3>2 DEF UpsertWrite, TInv, TypeOK
  <2> QED BY <2>2, <2>3, <2>4, <2>5
<1> QED BY <1>1, <1>2, <1>3, <1>4, <1>5, <1>6, <1>7, <1>8 DEF EnsureStep

\* the steps of interrupt, accept and revert,
LEMMA TInvCommand ==
    ASSUME TInv, NEW c \in Clients, CommandStep(c)
    PROVE  TInv'
<1> USE DEF session, store, outside, Procs
<1>0. proc[c] \in Frame /\ FrameOK(proc[c]) BY DEF TInv, TypeOK, FramesOK
<1>1. CASE InterruptTurn(c)
  <2>1. CASE Return(c)
    BY <1>1, <2>1, ReturnOK DEF InterruptTurn, TInv, TypeOK
  <2>2. CASE ts.active \in Turns /\ ~Return(c)
    <3> DEFINE f == [proc[c] EXCEPT !.pc = "int_call", !.target = ts.active]
    <3>1. proc' = [proc EXCEPT ![c] = f] BY <1>1, <2>2 DEF InterruptTurn, TInv, TypeOK
    <3>2. ts.active \in Turns BY <2>2
    <3>3. f \in Frame BY <1>0, <3>2 DEF Frame, PCs, TurnRef
    <3>4. FrameOK(f) BY <1>0, <3>2 DEF FrameOK, Frame, UsesTurn, UsesTarget, Upserting
    <3> QED BY <1>1, <2>2, <3>1, <3>3, <3>4, OneFrame DEF InterruptTurn, TInv, TypeOK
  <2> QED BY <1>1, <2>1, <2>2 DEF InterruptTurn
<1>2. CASE TurnInterrupt(c)
  <2>1. proc[c].target \in Turns BY <1>0, <1>2 DEF TurnInterrupt, At, FrameOK, UsesTarget
  <2>2. proc' \in [Procs -> Frame] /\ FramesOK'
    BY <1>2, <2>1, GotoOK DEF TurnInterrupt, PCs, UsesTurn, Upserting
  <2> QED BY <1>2, <2>1, <2>2 DEF TurnInterrupt, TInv, TypeOK
<1>3. CASE WriteInterrupted(c)
  <2>1. record' \in [Turns -> Statuses] BY <1>3 DEF WriteInterrupted, TInv, TypeOK, Statuses
  <2>2. MarkTurnInterrupted \in Patch BY PatchType DEF TInv, TypeOK, TurnRef
  <2>3. proc' \in [Procs -> Frame] /\ FramesOK' BY <1>3, <2>2, UpsertOK DEF WriteInterrupted
  <2> QED BY <1>3, <2>1, <2>3 DEF WriteInterrupted, TInv, TypeOK
<1>4. CASE MarkTurnInterrupting(c)
  <2>1. proc[c].turn \in Turns BY <1>0, <1>4 DEF MarkTurnInterrupting, At, FrameOK, UsesTurn
  <2>2. rt \in Runtime BY DEF TInv, TypeOK
  <2>3. rt' \in Runtime BY <1>4, <2>1, <2>2 DEF MarkTurnInterrupting, Runtime, TurnRef
  <2> QED BY <1>4, <2>3, ReturnOK DEF MarkTurnInterrupting, TInv, TypeOK
<1>5. CASE WriteAccepted(c) \/ WriteReverted(c)
  <2>1. proc[c].turn \in Turns BY <1>0, <1>5 DEF WriteAccepted, WriteReverted, At, FrameOK, UsesTurn
  <2>2. record' \in [Turns -> Statuses]
    BY <1>5 DEF WriteAccepted, WriteReverted, TInv, TypeOK, Statuses
  <2>3. proc' \in [Procs -> Frame] /\ FramesOK'
    BY <1>5, <2>1, GotoOK DEF WriteAccepted, WriteReverted, PCs, UsesTarget, Upserting
  <2> QED BY <1>5, <2>2, <2>3 DEF WriteAccepted, WriteReverted, TInv, TypeOK
<1>6. CASE ReleaseBlocking(c)
  <2>1. ClearBlockingTurn \in Patch BY PatchType DEF TInv, TypeOK, TurnRef
  <2>2. proc' \in [Procs -> Frame] /\ FramesOK'
    BY <1>6, <2>1, UpsertOK, ReturnOK DEF ReleaseBlocking
  <2> QED BY <1>6, <2>2 DEF ReleaseBlocking, TInv, TypeOK
<1>7. CASE ReleaseReferences(c)
  <2>1. proc[c].turn \in TurnRef BY <1>0 DEF Frame
  <2>2. ClearTurnReferences(ts, proc[c].turn) \in Patch BY <2>1, PatchType DEF TInv, TypeOK
  <2>3. proc' \in [Procs -> Frame] /\ FramesOK' BY <1>7, <2>2, UpsertOK DEF ReleaseReferences
  <2> QED BY <1>7, <2>3 DEF ReleaseReferences, TInv, TypeOK
<1>8. CASE CommandFails(c) BY <1>8, ReturnOK DEF CommandFails, TInv, TypeOK
<1> QED BY <1>1, <1>2, <1>3, <1>4, <1>5, <1>6, <1>7, <1>8 DEF CommandStep

\* the steps of the lane,
LEMMA TInvLane ==
    ASSUME TInv, LaneStep
    PROVE  TInv'
<1> USE DEF session, store, outside, Procs
<1>0. proc[Lane] \in Frame /\ FrameOK(proc[Lane]) /\ rt \in Runtime BY DEF TInv, TypeOK, FramesOK
<1>1. CASE TakeEvent
  <2> DEFINE e == Head(rt.lane)
             q == [rt EXCEPT !.lane = Tail(@)]
             r == ResolveTurnRoute(q, e.turn)
             f == [proc[Lane] EXCEPT !.turn = e.turn, !.kind = e.kind,
                                     !.pc = IF e.turn \in r.ensured THEN "handle" ELSE "ensure"]
  <2>1. rt.lane \in Seq(Event) /\ rt.lane # <<>> BY <1>0, <1>1 DEF TakeEvent, Runtime
  <2>2. e \in Event /\ Tail(rt.lane) \in Seq(Event) BY <2>1
  <2>3. e.turn \in Turns /\ e.kind \in EventKinds BY <2>2 DEF Event
  <2>4. q \in Runtime BY <1>0, <2>2 DEF Runtime
  <2>5. r \in Runtime BY <2>3, <2>4, RouteType
  <2>6. CASE rt' = r /\ UNCHANGED proc
    BY <1>1, <2>5, <2>6, SameFrames DEF TakeEvent, TInv, TypeOK
  <2>7. CASE /\ rt' = [r EXCEPT !.ensured = @ \cup {e.turn}]
             /\ proc' = [proc EXCEPT ![Lane] = f]
    <3>1. r.ensured \cup {e.turn} \in SUBSET Turns BY <2>3, <2>5 DEF Runtime
    <3>2. rt' \in Runtime BY <2>5, <2>7, <3>1 DEF Runtime
    <3>3. f \in Frame BY <1>0, <2>3 DEF Frame, PCs, TurnRef
    <3>4. FrameOK(f) BY <1>0, <2>3 DEF FrameOK, Frame, UsesTarget, Upserting
    <3> QED BY <1>1, <2>7, <3>2, <3>3, <3>4, OneFrame DEF TakeEvent, TInv, TypeOK
  <2>8. proc \in [Procs -> Frame] BY DEF TInv, TypeOK
  <2> QED BY <1>1, <2>6, <2>7, <2>8 DEF TakeEvent
<1>2. CASE HandleEvent
  <2> DEFINE t == proc[Lane].turn
             f == [proc[Lane] EXCEPT !.pc = "final_read", !.kind = "aborted"]
  <2>1. t \in Turns BY <1>0, <1>2 DEF HandleEvent, At, FrameOK, UsesTurn
  <2>2. CASE Return(Lane) /\ UNCHANGED rt
    BY <1>2, <2>2, ReturnOK DEF HandleEvent, TInv, TypeOK
  <2>3. CASE rt' = [rt EXCEPT !.finished = @ \cup {t}, !.ensured = @ \ {t}]
    <3>1. rt.finished \cup {t} \in SUBSET Turns /\ rt.ensured \ {t} \in SUBSET Turns
      BY <1>0, <2>1 DEF Runtime
    <3>2. rt' \in Runtime BY <1>0, <2>3, <3>1 DEF Runtime
    <3>3. CASE Goto(Lane, "finish")
      BY <1>2, <2>1, <3>2, <3>3, GotoOK DEF HandleEvent, TInv, TypeOK, PCs, UsesTarget, Upserting
    <3>4. CASE proc' = [proc EXCEPT ![Lane] = f]
      <4>1. f \in Frame BY <1>0 DEF Frame, PCs, EventKinds
      <4>2. FrameOK(f) BY <1>0, <2>1 DEF FrameOK, Frame, UsesTarget, Upserting
      <4> QED BY <1>2, <3>2, <3>4, <4>1, <4>2, OneFrame DEF HandleEvent, TInv, TypeOK
    <3>5. CASE Return(Lane)
      BY <1>2, <3>2, <3>5, ReturnOK DEF HandleEvent, TInv, TypeOK
    <3>6. proc \in [Procs -> Frame] BY DEF TInv, TypeOK
    <3> QED BY <1>2, <3>3, <3>4, <3>5, <3>6 DEF HandleEvent
  <2> QED BY <1>2, <2>2, <2>3 DEF HandleEvent
<1>3. CASE FinishSessionTurn
  <2>1. proc[Lane].turn \in Turns BY <1>0, <1>3 DEF FinishSessionTurn, At, FrameOK, UsesTurn
  <2>2. proc' \in [Procs -> Frame] /\ FramesOK'
    BY <1>3, <2>1, GotoOK DEF FinishSessionTurn, PCs, UsesTarget, Upserting
  <2> QED BY <1>3, <2>2 DEF FinishSessionTurn, TInv, TypeOK, MachineStates
<1>4. CASE CommitAndDiff
  <2>1. proc[Lane].turn \in Turns BY <1>0, <1>4 DEF CommitAndDiff, At, FrameOK, UsesTurn
  <2>2. CASE Goto(Lane, "final_read")
    BY <1>4, <2>1, <2>2, GotoOK DEF CommitAndDiff, TInv, TypeOK, PCs, UsesTarget, Upserting
  <2>3. CASE \E diff \in BOOLEAN : proc' = [proc EXCEPT ![Lane].pc = "complete", ![Lane].diff = diff]
    <3> PICK diff \in BOOLEAN : proc' = [proc EXCEPT ![Lane].pc = "complete", ![Lane].diff = diff]
      BY <2>3
    <3> DEFINE f == [proc[Lane] EXCEPT !.pc = "complete", !.diff = diff]
    <3>1. proc' = [proc EXCEPT ![Lane] = f] BY DEF TInv, TypeOK
    <3>2. f \in Frame BY <1>0 DEF Frame, PCs
    <3>3. FrameOK(f) BY <1>0, <2>1 DEF FrameOK, Frame, UsesTarget, Upserting
    <3> QED BY <1>4, <3>1, <3>2, <3>3, OneFrame DEF CommitAndDiff, TInv, TypeOK
  <2> QED BY <1>4, <2>2, <2>3 DEF CommitAndDiff
<1>5. CASE ReadActiveTurn
  <2>1. proc[Lane].turn \in Turns BY <1>0, <1>5 DEF ReadActiveTurn, At, FrameOK, UsesTurn
  <2>2. CASE ts.active = NoTurn
    BY <1>5, <2>1, <2>2, GotoOK DEF ReadActiveTurn, TInv, TypeOK, PCs, UsesTarget, Upserting
  <2>3. CASE ts.active # NoTurn
    <3> DEFINE f == [proc[Lane] EXCEPT !.pc = "complete_record", !.target = ts.active]
    <3>1. proc' = [proc EXCEPT ![Lane] = f] BY <1>5, <2>3 DEF ReadActiveTurn, TInv, TypeOK
    <3>2. ts.active \in Turns BY <2>3 DEF TInv, TypeOK, ThreadState, TurnRef
    <3>3. f \in Frame BY <1>0, <3>2 DEF Frame, PCs, TurnRef
    <3>4. FrameOK(f) BY <1>0, <2>1, <3>2 DEF FrameOK, Frame, Upserting
    <3> QED BY <1>5, <3>1, <3>3, <3>4, OneFrame DEF ReadActiveTurn, TInv, TypeOK
  <2> QED BY <2>2, <2>3
<1>6. CASE ReadActiveRecord
  <2>1. proc[Lane].turn \in Turns /\ proc[Lane].target \in Turns
    BY <1>0, <1>6 DEF ReadActiveRecord, At, FrameOK, UsesTurn, UsesTarget
  <2>2. CASE Goto(Lane, "final_read") \/ Goto(Lane, "complete_write")
    <3>1. proc' \in [Procs -> Frame] /\ FramesOK' BY <2>1, <2>2, GotoOK DEF PCs, Upserting
    <3> QED BY <1>6, <3>1 DEF ReadActiveRecord, TInv, TypeOK
  <2>3. CASE Upsert(Lane, MarkTurnInterrupted, "final_read")
    <3>1. MarkTurnInterrupted \in Patch BY PatchType DEF TInv, TypeOK, TurnRef
    <3>2. proc' \in [Procs -> Frame] /\ FramesOK' BY <2>1, <2>3, <3>1, UpsertOK
    <3> QED BY <1>6, <3>2 DEF ReadActiveRecord, TInv, TypeOK
  <2> QED BY <1>6, <2>2, <2>3 DEF ReadActiveRecord
<1>7. CASE CompleteActiveTurn
  <2>1. proc[Lane].turn \in Turns /\ proc[Lane].target \in Turns
    BY <1>0, <1>7 DEF CompleteActiveTurn, At, FrameOK, UsesTurn, UsesTarget
  <2>2. record' \in [Turns -> Statuses] BY <1>7 DEF CompleteActiveTurn, TInv, TypeOK, Statuses
  <2>3. /\ MarkTurnAwaitingApproval(proc[Lane].target) \in Patch
        /\ MarkTurnCompleted(proc[Lane].target) \in Patch
    BY <2>1, PatchType DEF TInv, TypeOK, TurnRef
  <2>4. proc' \in [Procs -> Frame] /\ FramesOK' BY <1>7, <2>1, <2>3, UpsertOK DEF CompleteActiveTurn
  <2> QED BY <1>7, <2>2, <2>4 DEF CompleteActiveTurn, TInv, TypeOK
<1>8. CASE FinalizeRead
  <2>1. proc[Lane].turn \in Turns BY <1>0, <1>8 DEF FinalizeRead, At, FrameOK, UsesTurn
  <2> DEFINE s == record[proc[Lane].turn]
             f == [proc[Lane] EXCEPT !.status = s, !.pc = IF s = "none" THEN "close" ELSE "final_write"]
  <2>2. s \in Statuses BY <2>1 DEF TInv, TypeOK
  <2>3. f \in Frame BY <1>0, <2>2 DEF Frame, PCs
  <2>4. FrameOK(f) BY <1>0, <2>1 DEF FrameOK, Frame, UsesTarget, Upserting
  <2>5. proc' = [proc EXCEPT ![Lane] = f] BY <1>8 DEF FinalizeRead, TInv, TypeOK
  <2> QED BY <1>8, <2>3, <2>4, <2>5, OneFrame DEF FinalizeRead, TInv, TypeOK
<1>9. CASE FinalizeWrite
  <2>1. proc[Lane].turn \in Turns BY <1>0, <1>9 DEF FinalizeWrite, At, FrameOK, UsesTurn
  <2>2. record' \in [Turns -> Statuses] BY <1>0, <1>9 DEF FinalizeWrite, TInv, TypeOK, Frame
  <2>3. proc' \in [Procs -> Frame] /\ FramesOK'
    BY <1>9, <2>1, GotoOK DEF FinalizeWrite, PCs, UsesTarget, Upserting
  <2> QED BY <1>9, <2>2, <2>3 DEF FinalizeWrite, TInv, TypeOK
<1>10. CASE RouteSummary
  <2>1. proc[Lane].turn \in Turns BY <1>0, <1>10 DEF RouteSummary, At, FrameOK, UsesTurn
  <2>2. rt' \in Runtime BY <1>0, <1>10, ForgetType DEF RouteSummary
  <2> QED BY <1>10, <2>1, <2>2, ReturnOK DEF RouteSummary, TInv, TypeOK
<1>11. CASE TurnAborted
  <2>1. proc[Lane].turn \in Turns BY <1>0, <1>11 DEF TurnAborted, At, FrameOK, UsesTurn
  <2> DEFINE r == ForgetTurn(rt, proc[Lane].turn)
  <2>2. r \in Runtime BY <1>0, ForgetType
  <2>3. r.suppressed \cup {proc[Lane].turn} \in SUBSET Turns BY <2>1, <2>2 DEF Runtime
  <2>4. rt' = [r EXCEPT !.interrupting = NoTurn, !.suppressed = @ \cup {proc[Lane].turn}]
    BY <1>11 DEF TurnAborted
  <2>5. rt' \in Runtime BY <2>2, <2>3, <2>4 DEF Runtime, TurnRef
  <2>6. machine' \in MachineStates /\ interrupting' \in TurnRef
    BY <1>11 DEF TurnAborted, CompleteInterrupt, TInv, TypeOK, MachineStates, TurnRef
  <2> QED BY <1>11, <2>5, <2>6, ReturnOK DEF TurnAborted, TInv, TypeOK
<1>12. CASE CommitFails BY <1>12, ReturnOK DEF CommitFails, TInv, TypeOK
<1> QED BY <1>1, <1>2, <1>3, <1>4, <1>5, <1>6, <1>7, <1>8, <1>9, <1>10, <1>11, <1>12 DEF LaneStep

\* the notifications of the agent,
LEMMA TInvAgent ==
    ASSUME TInv, NEW t \in Turns, AgentStep(t)
    PROVE  TInv'
<1> USE DEF session, store
<1>1. proc' \in [Procs -> Frame] /\ FramesOK'
  BY SameFrames DEF AgentStep, Speak, EndTurn, EchoEnd
<1>2. agent' \in [Turns -> AgentStates]
  BY DEF AgentStep, Speak, EndTurn, EchoEnd, TInv, TypeOK, AgentStates
<1>3. \A kind \in EventKinds : OnNotification(rt, [turn |-> t, kind |-> kind]) \in Runtime
  BY NotifyType DEF Event, TInv, TypeOK
<1>4. rt' \in Runtime BY <1>3 DEF AgentStep, Speak, EndTurn, EchoEnd, EventKinds
<1> QED BY <1>1, <1>2, <1>4 DEF AgentStep, Speak, EndTurn, EchoEnd, TInv, TypeOK

\* the interrupt timer, a crash and a stutter,
LEMMA TInvRest ==
    ASSUME TInv, InterruptTimeout \/ Crash \/ UNCHANGED vars
    PROVE  TInv'
<1> USE DEF session, store, outside
<1>1. CASE InterruptTimeout
  BY <1>1, SameFrames DEF InterruptTimeout, TInv, TypeOK, MachineStates, TurnRef
<1>2. CASE Crash
  <2>1. proc' \in [Procs -> Frame] /\ FramesOK'
    BY <1>2, BlankType DEF Crash, FramesOK, FrameOK, Blank, UsesTurn, UsesTarget, Upserting
  <2>2. NoRuntime \in Runtime BY DEF NoRuntime, Runtime, TurnRef
  <2>3. agent' \in [Turns -> AgentStates] BY <1>2 DEF Crash, TInv, TypeOK, AgentStates
  <2> QED BY <1>2, <2>1, <2>2, <2>3 DEF Crash, TInv, TypeOK, MachineStates, TurnRef
<1>3. CASE UNCHANGED vars
  BY <1>3, SameFrames DEF vars, TInv, TypeOK
<1> QED BY <1>1, <1>2, <1>3

\* and so does every step.
LEMMA TInvNext == TInv /\ [Next]_vars => TInv'
  BY TInvUser, TInvStart, TInvCommand, TInvEnsure, TInvLane, TInvAgent, TInvRest DEF Next

\* Every variable keeps its type, and every frame holds a turn wherever its code uses one.
THEOREM TypeCorrect == Spec => []TypeOK
<1>1. TInv => TypeOK BY DEF TInv
<1> QED BY TInvInit, TInvNext, <1>1, PTL DEF Spec

-----------------------------------------------------------------------------
(* Interrupts and parking: inductive as they stand, given the types. *)

\* An INTERRUPTING thread always has its timer, so none is stuck there.
THEOREM Armed == Spec => []InterruptArmed
<1>1. Init => InterruptArmed BY DEF Init, InterruptArmed
<1>2. InterruptArmed /\ [Next]_vars => InterruptArmed'
  <2> SUFFICES ASSUME InterruptArmed, [Next]_vars PROVE InterruptArmed'
    OBVIOUS
  <2> USE DEF InterruptArmed, session, store, outside
  <2>1. ASSUME NEW c \in Clients, UserStep(c) \/ StartStep(c) PROVE InterruptArmed'
    BY <2>1 DEF UserStep, SendText, Interrupt, AcceptTurn, RevertTurn, EnsureCanStartTurn, FailStart,
       Released, StartStep, CheckPendingApproval, PrepareTurn, ResumeThread, StartFails, TurnStart
  <2>2. ASSUME NEW c \in Clients, CommandStep(c) PROVE InterruptArmed'
    BY <2>2 DEF CommandStep, InterruptTurn, TurnInterrupt, WriteInterrupted, MarkTurnInterrupting,
       WriteAccepted, ReleaseBlocking, WriteReverted, ReleaseReferences, CommandFails
  <2>3. ASSUME NEW p \in Procs, EnsureStep(p) PROVE InterruptArmed'
    <3>1. CASE UpsertWrite(p) BY <3>1 DEF UpsertWrite, BeginInterrupt
    <3>2. CASE EnsureFails(p) BY <3>2 DEF EnsureFails, FailStart, Released
    <3> QED BY <2>3, <3>1, <3>2 DEF EnsureStep, EnsureEnter, EnsureRead, CreateTurnStart,
               EnsureJoined, EnsureDone, UpsertRead
  <2>4. CASE LaneStep
    BY <2>4 DEF LaneStep, TakeEvent, HandleEvent, FinishSessionTurn, CommitAndDiff, CommitFails, ReadActiveTurn,
       ReadActiveRecord, CompleteActiveTurn, FinalizeRead, FinalizeWrite, RouteSummary, TurnAborted,
       CompleteInterrupt
  <2>5. CASE InterruptTimeout \/ Crash \/ UNCHANGED vars BY <2>5 DEF InterruptTimeout, Crash, vars
  <2>6. ASSUME NEW t \in Turns, AgentStep(t) PROVE InterruptArmed'
    BY <2>6 DEF AgentStep, Speak, EndTurn, EchoEnd
  <2> QED BY <2>1, <2>2, <2>3, <2>4, <2>5, <2>6 DEF Next
<1> QED BY <1>1, <1>2, PTL DEF Spec

\* No new turn claims a thread that is being interrupted.
THEOREM Holds == Spec => InterruptingHolds
<1> DEFINE Hold == machine = "INTERRUPTING" => machine' \in {"INTERRUPTING", "IDLE"}
<1>1. Next => [Hold]_vars
  <2> SUFFICES ASSUME Next, machine = "INTERRUPTING" PROVE machine' \in {"INTERRUPTING", "IDLE"}
    OBVIOUS
  <2> USE DEF session, store, outside
  <2>1. ASSUME NEW c \in Clients, UserStep(c) \/ StartStep(c) PROVE machine' = machine
    BY <2>1 DEF UserStep, SendText, Interrupt, AcceptTurn, RevertTurn, EnsureCanStartTurn, FailStart,
       Released, StartStep, CheckPendingApproval, PrepareTurn, ResumeThread, StartFails, TurnStart
  <2>2. ASSUME NEW c \in Clients, CommandStep(c) PROVE machine' = machine
    BY <2>2 DEF CommandStep, InterruptTurn, TurnInterrupt, WriteInterrupted, MarkTurnInterrupting,
       WriteAccepted, ReleaseBlocking, WriteReverted, ReleaseReferences, CommandFails
  <2>3. ASSUME NEW p \in Procs, EnsureStep(p) PROVE machine' = machine
    <3>1. CASE UpsertWrite(p) BY <3>1 DEF UpsertWrite, BeginInterrupt
    <3>2. CASE EnsureFails(p) BY <3>2 DEF EnsureFails, FailStart, Released
    <3> QED BY <2>3, <3>1, <3>2 DEF EnsureStep, EnsureEnter, EnsureRead, CreateTurnStart,
               EnsureJoined, EnsureDone, UpsertRead
  <2>4. ASSUME LaneStep PROVE machine' \in {"INTERRUPTING", "IDLE"}
    BY <2>4 DEF LaneStep, TakeEvent, HandleEvent, FinishSessionTurn, CommitAndDiff, CommitFails, ReadActiveTurn,
       ReadActiveRecord, CompleteActiveTurn, FinalizeRead, FinalizeWrite, RouteSummary, TurnAborted,
       CompleteInterrupt
  <2>5. ASSUME InterruptTimeout \/ Crash PROVE machine' = "IDLE" BY <2>5 DEF InterruptTimeout, Crash
  <2>6. ASSUME NEW t \in Turns, AgentStep(t) PROVE machine' = machine
    BY <2>6 DEF AgentStep, Speak, EndTurn, EchoEnd
  <2> QED BY <2>1, <2>2, <2>3, <2>4, <2>5, <2>6 DEF Next
<1> QED BY <1>1, PTL DEF Spec, InterruptingHolds

\* Activating a turn leaves no event parked.
LEMMA ActivateUnparks ==
    ASSUME NEW r \in Runtime, NEW t \in Turns
    PROVE  ActivateTurn(r, t).parked = <<>>
  BY DEF ActivateTurn, Runtime

\* Parked events always wait for a pending start on a thread without active turn.
THEOREM Parked == Spec => []ParkedWait
<1> DEFINE OK(r) == r.parked # <<>> => r.pending /\ r.latest = NoTurn
<1>1. Init => ParkedWait BY DEF Init, ParkedWait, NoRuntime
<1>2. TInv /\ ParkedWait /\ [Next]_vars => ParkedWait'
  <2> SUFFICES ASSUME TInv, ParkedWait, [Next]_vars PROVE OK(rt')
    BY DEF ParkedWait
  <2> USE DEF session, store, outside
  <2>0. rt \in Runtime /\ OK(rt) BY DEF TInv, TypeOK, ParkedWait
  <2>1. ASSUME NEW c \in Clients, UserStep(c) \/ StartStep(c) PROVE OK(rt')
    BY <2>0, <2>1 DEF UserStep, SendText, Interrupt, AcceptTurn, RevertTurn,
       StartStep, CheckPendingApproval, PrepareTurn, ResumeThread, StartFails, TurnStart, Runtime
  <2>2. ASSUME NEW c \in Clients, CommandStep(c) PROVE OK(rt')
    BY <2>0, <2>2 DEF CommandStep, InterruptTurn, TurnInterrupt, WriteInterrupted,
       MarkTurnInterrupting, WriteAccepted, ReleaseBlocking, WriteReverted, ReleaseReferences, CommandFails, Runtime
  <2>3. ASSUME NEW p \in Procs, EnsureStep(p) PROVE OK(rt')
    <3>1. CASE EnsureJoined(p) \/ EnsureDone(p)
      <4>1. proc[p].turn \in Turns
        BY <3>1 DEF EnsureJoined, EnsureDone, At, TInv, FramesOK, FrameOK, UsesTurn
      <4> QED BY <2>0, <3>1, <4>1, ActivateUnparks DEF EnsureJoined, EnsureDone, Proceed
    <3>2. CASE EnsureFails(p) BY <2>0, <3>2 DEF EnsureFails, Runtime
    <3> QED BY <2>0, <2>3, <3>1, <3>2 DEF EnsureStep, EnsureEnter, EnsureRead, CreateTurnStart,
               UpsertRead, UpsertWrite
  <2>4. CASE LaneStep
    <3>1. CASE TakeEvent
      <4> DEFINE e == Head(rt.lane)
                 q == [rt EXCEPT !.lane = Tail(@)]
                 r == ResolveTurnRoute(q, e.turn)
      <4>1. rt.lane \in Seq(Event) /\ rt.lane # <<>> BY <2>0, <3>1 DEF TakeEvent, Runtime
      <4>2. e \in Event /\ Tail(rt.lane) \in Seq(Event) BY <4>1
      <4>3. e.turn \in Turns BY <4>2 DEF Event
      <4>4. q \in Runtime /\ OK(q) BY <2>0, <4>2 DEF Runtime
      <4>5. OK(r) BY <4>3, <4>4, ActivateUnparks DEF ResolveTurnRoute
      <4>6. r \in Runtime BY <4>3, <4>4, RouteType
      <4>7. rt' = r \/ rt' = [r EXCEPT !.ensured = @ \cup {e.turn}] BY <3>1 DEF TakeEvent
      <4> QED BY <4>5, <4>6, <4>7 DEF Runtime
    <3>2. CASE HandleEvent BY <2>0, <3>2 DEF HandleEvent, Runtime
    <3>3. CASE RouteSummary \/ TurnAborted
      BY <2>0, <3>3 DEF RouteSummary, TurnAborted, ForgetTurn, Runtime
    <3> QED BY <2>0, <2>4, <3>1, <3>2, <3>3 DEF LaneStep, FinishSessionTurn, CommitAndDiff, CommitFails,
               ReadActiveTurn, ReadActiveRecord, CompleteActiveTurn, FinalizeRead, FinalizeWrite
  <2>5. CASE InterruptTimeout \/ Crash \/ UNCHANGED vars
    BY <2>0, <2>5 DEF InterruptTimeout, Crash, vars, NoRuntime
  <2>6. ASSUME NEW t \in Turns, AgentStep(t) PROVE OK(rt')
    <3>1. PICK e : rt' = OnNotification(rt, e)
      BY <2>6 DEF AgentStep, Speak, EndTurn, EchoEnd
    <3> QED BY <2>0, <3>1 DEF OnNotification, Runtime
  <2> QED BY <2>1, <2>2, <2>3, <2>4, <2>5, <2>6 DEF Next
<1> QED BY <1>1, <1>2, TInvInit, TInvNext, PTL DEF Spec

-----------------------------------------------------------------------------
(* Records: created once, and never named before they exist. *)

\* A turn id, when it is one, has a record in rec.
Known(t, rec)       == t \in Turns => rec[t] # "none"
AllKnown(refs, rec) == Known(refs.active, rec) /\ Known(refs.blocking, rec) /\ Known(refs.last, rec)

\* What a frame will write to the store is known to have a record.
FrameKnown(f, rec) ==
    /\ f.pc \in {"int_call", "int_write", "complete_write"} => Known(f.target, rec)
    /\ f.pc \in {"acc_write", "rev_write"} => Known(f.turn, rec)
    /\ f.pc = "final_write" => Known(f.turn, rec) /\ f.status # "none"
    /\ f.pc \in Upserting => AllKnown(f.patch, rec)
    /\ f.pc = "upsert_write" => AllKnown(f.seen, rec)

\* The frame is between taking and leaving its entry of startEnsureInflight.
Critical(f) ==
    \/ f.pc \in {"ensure_read", "ensure_create", "ensured"}
    \/ f.pc \in Upserting /\ f.then = "ensured"

InflightOwned ==
    /\ \A p \in Procs : Critical(proc[p]) => proc[p].turn \in inflight
    /\ \A p, q \in Procs :
        Critical(proc[p]) /\ Critical(proc[q]) /\ proc[p].turn = proc[q].turn => p = q

RInv ==
    /\ AllKnown(ts, record)
    /\ \A p \in Procs : FrameKnown(proc[p], record)
    /\ \A p \in Procs : proc[p].pc = "ensure_create" => record[proc[p].turn] = "none"
    /\ InflightOwned

\* A blank frame holds no turn that needs a record.
LEMMA BlankKnown == \A rec : FrameKnown(Blank, rec) /\ ~Critical(Blank)
  BY DEF FrameKnown, Critical, Blank, Upserting

\* The strengthening holds at the start.
LEMMA RInvInit == Init => RInv
<1> SUFFICES ASSUME Init PROVE RInv
  OBVIOUS
<1>1. \A p \in Procs : proc[p] = Blank BY DEF Init
<1>2. AllKnown(ts, record) BY ConstantsAssumption DEF Init, NoState, AllKnown, Known
<1>3. Blank.pc = "idle" BY DEF Blank
<1> QED BY <1>1, <1>2, <1>3, BlankKnown DEF RInv, InflightOwned

\* One frame changes; records and references only grow, and only the frame that
\* holds a turn's entry creates that turn's record.
LEMMA RInvStep ==
    ASSUME TInv, RInv, NEW p \in Procs, NEW f \in Frame, proc' = [proc EXCEPT ![p] = f],
           \A t \in Turns : record[t] # "none" => record'[t] # "none",
           \A t \in Turns : record'[t] # "none" =>
               record[t] # "none" \/ (Critical(proc[p]) /\ t = proc[p].turn),
           AllKnown(ts', record'),
           FrameKnown(f, record'),
           f.pc = "ensure_create" => record'[f.turn] = "none",
           Critical(f) => /\ f.turn \in inflight'
                          /\ f.turn \notin inflight \/ (Critical(proc[p]) /\ f.turn = proc[p].turn),
           \A t \in inflight : t \in inflight' \/ (Critical(proc[p]) /\ t = proc[p].turn)
    PROVE  RInv'
<1>0. proc \in [Procs -> Frame] BY DEF TInv, TypeOK
<1>1. \A q \in Procs : proc'[q] = IF q = p THEN f ELSE proc[q] BY <1>0
<1>2. \A q \in Procs : FrameKnown(proc'[q], record')
  BY <1>1 DEF RInv, FrameKnown, AllKnown, Known
<1>3. \A q \in Procs : proc'[q].pc = "ensure_create" => record'[proc'[q].turn] = "none"
  <2> SUFFICES ASSUME NEW q \in Procs, q # p, proc[q].pc = "ensure_create"
               PROVE  record'[proc[q].turn] = "none"
    BY <1>1
  <2>1. record[proc[q].turn] = "none" /\ Critical(proc[q]) BY DEF RInv, Critical
  <2>2. proc[q].turn \in Turns BY DEF TInv, FramesOK, FrameOK, UsesTurn
  <2>3. ~(Critical(proc[p]) /\ proc[q].turn = proc[p].turn) BY <2>1 DEF RInv, InflightOwned
  <2> QED BY <2>1, <2>2, <2>3
<1>4. \A q \in Procs : Critical(proc'[q]) => proc'[q].turn \in inflight'
  BY <1>1 DEF RInv, InflightOwned
<1>5. \A q, r \in Procs :
        Critical(proc'[q]) /\ Critical(proc'[r]) /\ proc'[q].turn = proc'[r].turn => q = r
  BY <1>1 DEF RInv, InflightOwned
<1>6. InflightOwned' BY <1>4, <1>5 DEF InflightOwned, Critical
<1> QED BY <1>2, <1>3, <1>6 DEF RInv, FrameKnown, AllKnown, Known

\* Points of the code of which FrameKnown or Critical say something.
Watched == {"int_call", "int_write", "complete_write", "acc_write", "rev_write", "final_write",
            "ensure_read", "ensure_create", "ensured"} \cup Upserting

\* A step of one frame to a point that is not watched, the store untouched.
LEMMA RInvPlain ==
    ASSUME TInv, RInv, NEW p \in Procs, NEW f \in Frame, proc' = [proc EXCEPT ![p] = f],
           f.pc \notin Watched, UNCHANGED store,
           \A t \in inflight : t \in inflight' \/ (Critical(proc[p]) /\ t = proc[p].turn)
    PROVE  RInv'
<1>1. ~Critical(f) BY DEF Critical, Watched
<1>2. FrameKnown(f, record') BY DEF FrameKnown, Watched, Upserting
<1>3. f.pc # "ensure_create" BY DEF Watched
<1>4. record' = record /\ ts' = ts BY DEF store
<1>5. AllKnown(ts', record') BY <1>4 DEF RInv
<1> QED BY <1>1, <1>2, <1>3, <1>4, <1>5, RInvStep

\* A process returns, the store untouched.
LEMMA RInvReturn ==
    ASSUME TInv, RInv, NEW p \in Procs, Return(p), UNCHANGED store,
           \A t \in inflight : t \in inflight' \/ (Critical(proc[p]) /\ t = proc[p].turn)
    PROVE  RInv'
<1>1. Blank.pc \notin Watched BY DEF Blank, Watched, Upserting
<1> QED BY <1>1, BlankType, RInvPlain DEF Return

\* A process goes to a point that is not watched, the store untouched.
LEMMA RInvGoto ==
    ASSUME TInv, RInv, NEW p \in Procs, NEW pc \in PCs \ Watched, Goto(p, pc), UNCHANGED store,
           \A t \in inflight : t \in inflight' \/ (Critical(proc[p]) /\ t = proc[p].turn)
    PROVE  RInv'
<1> DEFINE f == [proc[p] EXCEPT !.pc = pc]
<1>1. proc[p] \in Frame BY DEF TInv, TypeOK
<1>2. f \in Frame /\ f.pc = pc BY <1>1 DEF Frame
<1>3. proc' = [proc EXCEPT ![p] = f] BY DEF Goto, TInv, TypeOK
<1> QED BY <1>2, <1>3, RInvPlain

\* A step that starts an upsert whose patch names recorded turns only.
LEMMA RInvUpsert ==
    ASSUME TInv, RInv, NEW p \in Procs, NEW patch \in Patch, NEW then \in PCs, Upsert(p, patch, then),
           UNCHANGED <<ts, inflight>>,
           \A t \in Turns : record[t] # "none" => record'[t] # "none",
           \A t \in Turns : record'[t] # "none" =>
               record[t] # "none" \/ (Critical(proc[p]) /\ t = proc[p].turn),
           AllKnown(patch, record'),
           then = "ensured" => Critical(proc[p])
    PROVE  RInv'
<1> DEFINE f == [proc[p] EXCEPT !.pc = "upsert_read", !.patch = patch, !.then = then]
<1>1. proc[p] \in Frame BY DEF TInv, TypeOK
<1>2. f \in Frame BY <1>1 DEF Frame, PCs
<1>3. f.pc = "upsert_read" /\ f.patch = patch /\ f.then = then /\ f.turn = proc[p].turn
  BY <1>1 DEF Frame
<1>4. proc' = [proc EXCEPT ![p] = f] BY DEF Upsert, TInv, TypeOK
<1> HIDE DEF f
<1>5. FrameKnown(f, record') BY <1>3 DEF FrameKnown
<1>6. Critical(f) => Critical(proc[p]) BY <1>3 DEF Critical
<1>7. AllKnown(ts', record') BY DEF RInv, AllKnown, Known
<1>8. Critical(proc[p]) => proc[p].turn \in inflight BY DEF RInv, InflightOwned
<1> QED BY <1>2, <1>3, <1>4, <1>5, <1>6, <1>7, <1>8, RInvStep

\* Commands of users and the steps of a start keep the strengthening,
LEMMA RInvUserStart ==
    ASSUME TInv, RInv, NEW c \in Clients, UserStep(c) \/ StartStep(c)
    PROVE  RInv'
<1> USE DEF Procs
<1>0. proc[c] \in Frame /\ proc \in [Procs -> Frame] BY DEF TInv, TypeOK
<1>1. ASSUME FailStart(c) \/ EnsureCanStartTurn(c), UNCHANGED <<store, inflight>> PROVE RInv'
  <2>1. CASE Return(c) BY <1>1, <2>1, RInvReturn
  <2>2. CASE Goto(c, "prepare")
    <3>1. "prepare" \in PCs \ Watched BY DEF PCs, Watched, Upserting
    <3> QED BY <1>1, <2>2, <3>1, RInvGoto
  <2> QED BY <1>1, <2>1, <2>2 DEF FailStart, EnsureCanStartTurn
<1>2. ASSUME NEW f \in Frame, proc' = [proc EXCEPT ![c] = f], UNCHANGED <<store, inflight>>,
             f.pc \in {"start_status", "int_state", "starting", "restarting", "ensure"}
      PROVE  RInv'
  BY <1>2, RInvPlain DEF Watched, Upserting
<1>3. ASSUME NEW t \in Turns, record[t] # "none", UNCHANGED <<store, inflight>>,
             NEW pc \in {"acc_write", "rev_write"}, proc' = [proc EXCEPT ![c].pc = pc, ![c].turn = t]
      PROVE  RInv'
  <2> DEFINE f == [proc[c] EXCEPT !.pc = pc, !.turn = t]
  <2>1. f \in Frame /\ f.pc = pc /\ f.turn = t BY <1>0 DEF Frame, PCs, TurnRef
  <2>2. proc' = [proc EXCEPT ![c] = f] BY <1>0, <1>3
  <2>3. record' = record /\ ts' = ts /\ inflight' = inflight BY <1>3 DEF store
  <2>4. FrameKnown(f, record') BY <1>3, <2>1, <2>3 DEF FrameKnown, Known, Upserting
  <2>5. ~Critical(f) BY <2>1 DEF Critical, Upserting
  <2> HIDE DEF f
  <2>6. AllKnown(ts', record') BY <2>3 DEF RInv
  <2> QED BY <2>1, <2>2, <2>3, <2>4, <2>5, <2>6, RInvStep
<1>4. CASE SendText(c)
  <2> DEFINE f == [proc[c] EXCEPT !.pc = "start_status", !.target = ts.blocking]
  <2>1. CASE ts.blocking = NoTurn BY <1>1, <1>4, <2>1 DEF SendText
  <2>2. CASE ts.blocking # NoTurn
    <3>1. f \in Frame /\ f.pc = "start_status" BY <1>0 DEF TInv, TypeOK, ThreadState, Frame, PCs
    <3>2. proc' = [proc EXCEPT ![c] = f] BY <1>0, <1>4, <2>2 DEF SendText
    <3> QED BY <1>2, <1>4, <3>1, <3>2 DEF SendText
  <2> QED BY <2>1, <2>2
<1>5. CASE Interrupt(c)
  <2> DEFINE f == [proc[c] EXCEPT !.pc = "int_state", !.turn = ts.active]
  <2>1. f \in Frame /\ f.pc = "int_state" BY <1>0 DEF TInv, TypeOK, ThreadState, Frame, PCs
  <2>2. proc' = [proc EXCEPT ![c] = f] BY <1>0, <1>5 DEF Interrupt
  <2> QED BY <1>2, <1>5, <2>1, <2>2 DEF Interrupt
<1>6. CASE AcceptTurn(c) \/ RevertTurn(c)
  <2>1. PICK t \in shown : /\ record[t] # "none"
                           /\ \E pc \in {"acc_write", "rev_write"} :
                                proc' = [proc EXCEPT ![c].pc = pc, ![c].turn = t]
    BY <1>6 DEF AcceptTurn, RevertTurn
  <2>2. t \in Turns BY DEF TInv, TypeOK
  <2>3. UNCHANGED <<store, inflight>> BY <1>6 DEF AcceptTurn, RevertTurn
  <2> QED BY <1>3, <2>1, <2>2, <2>3
<1>7. CASE CheckPendingApproval(c) \/ StartFails(c)
  BY <1>1, <1>7 DEF CheckPendingApproval, StartFails
<1>8. CASE PrepareTurn(c) \/ ResumeThread(c)
  <2>1. PICK pc \in {"starting", "restarting"} : Goto(c, pc)
    BY <1>8 DEF PrepareTurn, ResumeThread
  <2>2. pc \in PCs \ Watched BY DEF PCs, Watched, Upserting
  <2> QED BY <1>8, <2>1, <2>2, RInvGoto DEF PrepareTurn, ResumeThread
<1>9. CASE TurnStart(c)
  <2> PICK t \in Turns : proc' = [proc EXCEPT ![c].pc = "ensure", ![c].turn = t, ![c].target = NoTurn]
    BY <1>9 DEF TurnStart
  <2> DEFINE f == [proc[c] EXCEPT !.pc = "ensure", !.turn = t, !.target = NoTurn]
  <2>1. f \in Frame /\ f.pc = "ensure" BY <1>0 DEF Frame, PCs, TurnRef
  <2>2. proc' = [proc EXCEPT ![c] = f] BY <1>0
  <2> QED BY <1>2, <1>9, <2>1, <2>2 DEF TurnStart
<1> QED BY <1>4, <1>5, <1>6, <1>7, <1>8, <1>9 DEF UserStep, StartStep

\* as do ensureTurnStarted and the read-modify-writes,
LEMMA RInvEnsure ==
    ASSUME TInv, RInv, NEW p \in Procs, EnsureStep(p)
    PROVE  RInv'
<1>0. /\ proc[p] \in Frame /\ FrameOK(proc[p]) /\ proc \in [Procs -> Frame]
      /\ FrameKnown(proc[p], record)
      /\ record \in [Turns -> Statuses]
  BY DEF TInv, TypeOK, FramesOK, RInv
<1>a. ASSUME Proceed(p), UNCHANGED store,
             \A t \in inflight : t \in inflight' \/ (Critical(proc[p]) /\ t = proc[p].turn)
      PROVE  RInv'
  <2>1. CASE p = Lane
    <3>1. "handle" \in PCs \ Watched BY DEF PCs, Watched, Upserting
    <3> QED BY <1>a, <2>1, <3>1, RInvGoto DEF Proceed
  <2>2. CASE p # Lane BY <1>a, <2>2, RInvReturn DEF Proceed
  <2> QED BY <2>1, <2>2
<1>1. CASE EnsureEnter(p)
  <2>1. CASE proc[p].turn \in inflight
    <3>1. "join" \in PCs \ Watched BY DEF PCs, Watched, Upserting
    <3> QED BY <1>1, <2>1, <3>1, RInvGoto DEF EnsureEnter
  <2>2. CASE proc[p].turn \notin inflight
    <3> DEFINE f == [proc[p] EXCEPT !.pc = "ensure_read"]
    <3>1. f \in Frame /\ f.pc = "ensure_read" /\ f.turn = proc[p].turn BY <1>0 DEF Frame, PCs
    <3>2. proc' = [proc EXCEPT ![p] = f] BY <1>0, <1>1, <2>2 DEF EnsureEnter, Goto
    <3> HIDE DEF f
    <3>3. record' = record /\ ts' = ts /\ inflight' = inflight \cup {proc[p].turn}
      BY <1>1, <2>2 DEF EnsureEnter, store
    <3>4. FrameKnown(f, record') BY <3>1 DEF FrameKnown, Upserting
    <3>5. AllKnown(ts', record') BY <3>3 DEF RInv
    <3> QED BY <2>2, <3>1, <3>2, <3>3, <3>4, <3>5, RInvStep
  <2> QED BY <2>1, <2>2
<1>2. CASE EnsureRead(p)
  <2>0. Critical(proc[p]) BY <1>2 DEF EnsureRead, At, Critical
  <2>1. proc[p].turn \in Turns /\ proc[p].turn \in inflight
    BY <1>0, <1>2, <2>0 DEF EnsureRead, At, FrameOK, UsesTurn, RInv, InflightOwned
  <2>2. record' = record /\ ts' = ts /\ inflight' = inflight BY <1>2 DEF EnsureRead, store
  <2>3. ASSUME NEW pc \in {"ensure_create", "ensured"}, Goto(p, pc),
               pc = "ensure_create" => record[proc[p].turn] = "none"
        PROVE  RInv'
    <3> DEFINE f == [proc[p] EXCEPT !.pc = pc]
    <3>1. f \in Frame /\ f.pc = pc /\ f.turn = proc[p].turn BY <1>0 DEF Frame, PCs
    <3>2. proc' = [proc EXCEPT ![p] = f] BY <1>0, <2>3 DEF Goto
    <3> HIDE DEF f
    <3>4. FrameKnown(f, record') BY <3>1 DEF FrameKnown, Upserting
    <3>5. AllKnown(ts', record') BY <2>2 DEF RInv
    <3> QED BY <2>0, <2>1, <2>2, <2>3, <3>1, <3>2, <3>4, <3>5, RInvStep
  <2>4. ASSUME record[proc[p].turn] # "none", Upsert(p, MarkTurnRunning(proc[p].turn), "ensured")
        PROVE  RInv'
    <3>1. MarkTurnRunning(proc[p].turn) \in Patch BY <2>1, PatchType DEF TInv, TypeOK, TurnRef
    <3>2. AllKnown(MarkTurnRunning(proc[p].turn), record')
      BY <2>2, <2>4, ConstantsAssumption DEF MarkTurnRunning, AllKnown, Known
    <3>3. "ensured" \in PCs BY DEF PCs
    <3> QED BY <2>0, <2>2, <2>4, <3>1, <3>2, <3>3, RInvUpsert
  <2> QED BY <1>2, <2>3, <2>4 DEF EnsureRead
<1>3. CASE CreateTurnStart(p)
  <2>0. Critical(proc[p]) BY <1>3 DEF CreateTurnStart, At, Critical
  <2>1. proc[p].turn \in Turns BY <1>0, <1>3 DEF CreateTurnStart, At, FrameOK, UsesTurn
  <2>2. record' = [record EXCEPT ![proc[p].turn] = "running"] /\ ts' = ts /\ inflight' = inflight
    BY <1>3 DEF CreateTurnStart
  <2>3. MarkTurnRunning(proc[p].turn) \in Patch BY <2>1, PatchType DEF TInv, TypeOK, TurnRef
  <2>4. AllKnown(MarkTurnRunning(proc[p].turn), record')
    BY <1>0, <2>1, <2>2, ConstantsAssumption DEF MarkTurnRunning, AllKnown, Known
  <2>5. "ensured" \in PCs BY DEF PCs
  <2>6. \A t \in Turns : /\ record[t] # "none" => record'[t] # "none"
                         /\ record'[t] # "none" => record[t] # "none" \/ t = proc[p].turn
    BY <1>0, <2>2
  <2>7. Upsert(p, MarkTurnRunning(proc[p].turn), "ensured") BY <1>3 DEF CreateTurnStart
  <2> QED BY <2>0, <2>2, <2>3, <2>4, <2>5, <2>6, <2>7, RInvUpsert
<1>4. CASE EnsureJoined(p) BY <1>a, <1>4 DEF EnsureJoined
<1>5. CASE EnsureDone(p)
  <2>1. Critical(proc[p]) BY <1>5 DEF EnsureDone, At, Critical
  <2> QED BY <1>a, <1>5, <2>1 DEF EnsureDone
<1>6. CASE EnsureFails(p)
  <2>1. Return(p) BY <1>6 DEF EnsureFails, FailStart
  <2>2. At(p, "ensure_create") => Critical(proc[p]) BY DEF At, Critical
  <2> QED BY <1>6, <2>1, <2>2, RInvReturn DEF EnsureFails
<1>7. CASE UpsertRead(p)
  <2> DEFINE f == [proc[p] EXCEPT !.pc = "upsert_write", !.seen = ts]
  <2>1. /\ f \in Frame /\ f.pc = "upsert_write" /\ f.seen = ts /\ f.patch = proc[p].patch
        /\ f.then = proc[p].then /\ f.turn = proc[p].turn
    BY <1>0 DEF TInv, TypeOK, Frame, PCs
  <2>2. proc' = [proc EXCEPT ![p] = f] BY <1>0, <1>7 DEF UpsertRead
  <2> HIDE DEF f
  <2>3. record' = record /\ ts' = ts /\ inflight' = inflight BY <1>7 DEF UpsertRead, store
  <2>4. AllKnown(ts, record) BY DEF RInv
  <2>5. proc[p].pc = "upsert_read" BY <1>7 DEF UpsertRead, At
  <2>6. FrameKnown(f, record') BY <1>0, <2>1, <2>3, <2>4, <2>5 DEF FrameKnown, Upserting
  <2>7. Critical(f) => Critical(proc[p]) BY <2>1, <2>5 DEF Critical, Upserting
  <2>8. Critical(proc[p]) => proc[p].turn \in inflight BY DEF RInv, InflightOwned
  <2> QED BY <2>1, <2>2, <2>3, <2>4, <2>6, <2>7, <2>8, RInvStep
<1>8. CASE UpsertWrite(p)
  <2>0. proc[p].pc = "upsert_write" BY <1>8 DEF UpsertWrite, At
  <2>1. record' = record /\ inflight' = inflight /\ ts' = Patched(proc[p].seen, proc[p].patch)
    BY <1>8 DEF UpsertWrite
  <2>2. AllKnown(proc[p].seen, record) /\ AllKnown(proc[p].patch, record)
    BY <1>0, <2>0 DEF FrameKnown, Upserting
  <2>3. AllKnown(ts', record')
    <3>1. proc[p].seen \in ThreadState /\ proc[p].patch \in Patch BY <1>0 DEF Frame
    <3> QED BY <2>1, <2>2, <3>1 DEF AllKnown, Known, Patched, Pick, ThreadState, Patch
  <2>4. proc[p].then \in {"idle", "ensured", "final_read", "int_begin"}
    BY <1>0, <2>0 DEF FrameOK, Upserting
  <2>5. PICK f \in Frame : /\ proc' = [proc EXCEPT ![p] = f]
                           /\ f.pc \in {"idle", "int_mark", "final_read", "ensured"}
                           /\ f.pc = "ensured" => proc[p].then = "ensured" /\ f.turn = proc[p].turn
    <3>1. CASE Return(p)
      <4>1. Blank.pc = "idle" BY DEF Blank
      <4> QED BY <3>1, <4>1, BlankType DEF Return
    <3>2. ASSUME NEW pc \in {"int_mark", "final_read", "ensured"}, Goto(p, pc),
                 pc = "ensured" => proc[p].then = "ensured"
          PROVE  \E f \in Frame : /\ proc' = [proc EXCEPT ![p] = f]
                                  /\ f.pc \in {"idle", "int_mark", "final_read", "ensured"}
                                  /\ f.pc = "ensured" => proc[p].then = "ensured" /\ f.turn = proc[p].turn
      <4> DEFINE f == [proc[p] EXCEPT !.pc = pc]
      <4>1. f \in Frame /\ f.pc = pc /\ f.turn = proc[p].turn BY <1>0 DEF Frame, PCs
      <4>2. proc' = [proc EXCEPT ![p] = f] BY <1>0, <3>2 DEF Goto
      <4> HIDE DEF f
      <4> QED BY <3>2, <4>1, <4>2
    <3> QED BY <1>8, <2>4, <3>1, <3>2 DEF UpsertWrite, BeginInterrupt
  <2>6. FrameKnown(f, record') BY <2>5 DEF FrameKnown, Upserting
  <2>7. Critical(f) => Critical(proc[p]) /\ f.turn = proc[p].turn
    BY <2>0, <2>5 DEF Critical, Upserting
  <2>8. Critical(proc[p]) => proc[p].turn \in inflight BY DEF RInv, InflightOwned
  <2> QED BY <2>1, <2>3, <2>5, <2>6, <2>7, <2>8, RInvStep
<1> QED BY <1>1, <1>2, <1>3, <1>4, <1>5, <1>6, <1>7, <1>8 DEF EnsureStep

\* the steps of interrupt, accept and revert,
LEMMA RInvCommand ==
    ASSUME TInv, RInv, NEW c \in Clients, CommandStep(c)
    PROVE  RInv'
<1> USE DEF Procs
<1>0. /\ proc[c] \in Frame /\ FrameOK(proc[c]) /\ proc \in [Procs -> Frame]
      /\ FrameKnown(proc[c], record) /\ AllKnown(ts, record)
      /\ record \in [Turns -> Statuses] /\ ts \in ThreadState
  BY DEF TInv, TypeOK, FramesOK, RInv
<1>1. CASE InterruptTurn(c)
  <2>1. CASE Return(c) BY <1>1, <2>1, RInvReturn DEF InterruptTurn
  <2>2. CASE ~Return(c)
    <3> DEFINE f == [proc[c] EXCEPT !.pc = "int_call", !.target = ts.active]
    <3>1. f \in Frame /\ f.pc = "int_call" /\ f.target = ts.active
      BY <1>0 DEF Frame, PCs, ThreadState
    <3>2. proc' = [proc EXCEPT ![c] = f] BY <1>0, <1>1, <2>2 DEF InterruptTurn
    <3> HIDE DEF f
    <3>3. record' = record /\ ts' = ts /\ inflight' = inflight BY <1>1 DEF InterruptTurn, store
    <3>4. FrameKnown(f, record') BY <1>0, <3>1, <3>3 DEF FrameKnown, AllKnown, Upserting
    <3>5. ~Critical(f) BY <3>1 DEF Critical, Upserting
    <3> QED BY <1>0, <3>1, <3>2, <3>3, <3>4, <3>5, RInvStep
  <2> QED BY <2>1, <2>2
<1>2. CASE TurnInterrupt(c)
  <2> DEFINE f == [proc[c] EXCEPT !.pc = "int_write"]
  <2>1. f \in Frame /\ f.pc = "int_write" /\ f.target = proc[c].target BY <1>0 DEF Frame, PCs
  <2>2. proc' = [proc EXCEPT ![c] = f] BY <1>0, <1>2 DEF TurnInterrupt, Goto
  <2> HIDE DEF f
  <2>3. record' = record /\ ts' = ts /\ inflight' = inflight BY <1>2 DEF TurnInterrupt, store
  <2>4. FrameKnown(f, record') BY <1>0, <1>2, <2>1, <2>3 DEF TurnInterrupt, At, FrameKnown, Upserting
  <2>5. ~Critical(f) BY <2>1 DEF Critical, Upserting
  <2> QED BY <1>0, <2>1, <2>2, <2>3, <2>4, <2>5, RInvStep
<1>3. CASE WriteInterrupted(c)
  <2>1. Known(proc[c].target, record) BY <1>0, <1>3 DEF WriteInterrupted, At, FrameKnown
  <2>2. \A t \in Turns : record[t] # "none" <=> record'[t] # "none"
    BY <1>0, <1>3, <2>1 DEF WriteInterrupted, Known
  <2>3. MarkTurnInterrupted \in Patch /\ "int_begin" \in PCs BY PatchType DEF TInv, TypeOK, TurnRef, PCs
  <2>4. AllKnown(MarkTurnInterrupted, record')
    BY ConstantsAssumption DEF MarkTurnInterrupted, AllKnown, Known
  <2> QED BY <1>3, <2>2, <2>3, <2>4, RInvUpsert DEF WriteInterrupted
<1>4. CASE MarkTurnInterrupting(c) BY <1>4, RInvReturn DEF MarkTurnInterrupting
<1>5. CASE WriteAccepted(c) \/ WriteReverted(c)
  <2>1. Known(proc[c].turn, record)
    BY <1>0, <1>5 DEF WriteAccepted, WriteReverted, At, FrameKnown
  <2>2. \A t \in Turns : record[t] # "none" <=> record'[t] # "none"
    BY <1>0, <1>5, <2>1 DEF WriteAccepted, WriteReverted, Known
  <2>3. PICK pc \in {"acc_state", "rev_state"} : Goto(c, pc) BY <1>5 DEF WriteAccepted, WriteReverted
  <2> DEFINE f == [proc[c] EXCEPT !.pc = pc]
  <2>4. f \in Frame /\ f.pc = pc BY <1>0 DEF Frame, PCs
  <2>5. proc' = [proc EXCEPT ![c] = f] BY <1>0, <2>3 DEF Goto
  <2> HIDE DEF f
  <2>6. ts' = ts /\ inflight' = inflight BY <1>5 DEF WriteAccepted, WriteReverted
  <2>7. AllKnown(ts', record') BY <1>0, <2>2, <2>6 DEF AllKnown, Known
  <2>8. FrameKnown(f, record') /\ ~Critical(f) BY <2>4 DEF FrameKnown, Critical, Upserting
  <2>9. f.pc # "ensure_create" BY <2>4
  <2> QED BY <2>2, <2>4, <2>5, <2>6, <2>7, <2>8, <2>9, RInvStep
<1>6. CASE ReleaseBlocking(c) \/ ReleaseReferences(c)
  <2>1. record' = record /\ ts' = ts /\ inflight' = inflight
    BY <1>6 DEF ReleaseBlocking, ReleaseReferences, store
  <2>2. CASE Return(c) BY <1>6, <2>2, RInvReturn DEF ReleaseBlocking, ReleaseReferences
  <2>3. CASE Upsert(c, ClearBlockingTurn, "idle") \/ Upsert(c, ClearTurnReferences(ts, proc[c].turn), "idle")
    <3>1. /\ ClearBlockingTurn \in Patch /\ ClearTurnReferences(ts, proc[c].turn) \in Patch
          /\ "idle" \in PCs
      BY <1>0, PatchType DEF Frame, PCs
    <3>2. /\ AllKnown(ClearBlockingTurn, record')
          /\ AllKnown(ClearTurnReferences(ts, proc[c].turn), record')
      BY ConstantsAssumption DEF ClearBlockingTurn, ClearTurnReferences, AllKnown, Known
    <3> QED BY <2>1, <2>3, <3>1, <3>2, RInvUpsert
  <2> QED BY <1>6, <2>2, <2>3 DEF ReleaseBlocking, ReleaseReferences
<1>7. CASE CommandFails(c) BY <1>7, RInvReturn DEF CommandFails
<1> QED BY <1>1, <1>2, <1>3, <1>4, <1>5, <1>6, <1>7 DEF CommandStep

\* the steps of the lane,
LEMMA RInvLane ==
    ASSUME TInv, RInv, LaneStep
    PROVE  RInv'
<1> USE DEF Procs
<1>0. /\ proc[Lane] \in Frame /\ FrameOK(proc[Lane]) /\ proc \in [Procs -> Frame]
      /\ FrameKnown(proc[Lane], record) /\ AllKnown(ts, record)
      /\ record \in [Turns -> Statuses] /\ ts \in ThreadState
  BY DEF TInv, TypeOK, FramesOK, RInv
<1>1. ASSUME NEW f \in Frame, proc' = [proc EXCEPT ![Lane] = f], UNCHANGED <<store, inflight>>,
             f.pc \in {"idle", "ensure", "handle", "finish", "finish_read", "final_read", "complete",
                       "complete_record", "close"}
      PROVE  RInv'
  BY <1>1, RInvPlain DEF Watched, Upserting
<1>2. ASSUME NEW pc \in PCs \ Watched, Goto(Lane, pc), UNCHANGED <<store, inflight>> PROVE RInv'
  BY <1>2, RInvGoto
<1>3. {"finish", "finish_read", "final_read", "close"} \subseteq PCs \ Watched
  BY DEF PCs, Watched, Upserting
<1>4. CASE TakeEvent
  <2>1. UNCHANGED <<store, inflight>> BY <1>4 DEF TakeEvent
  <2>2. CASE UNCHANGED proc
    BY <2>1, <2>2 DEF store, RInv, InflightOwned, FrameKnown, AllKnown, Known, Critical
  <2>3. ASSUME NEW t \in Turns, NEW k \in EventKinds, NEW pc \in {"handle", "ensure"},
               proc' = [proc EXCEPT ![Lane].turn = t, ![Lane].kind = k, ![Lane].pc = pc]
        PROVE  RInv'
    <3> DEFINE f == [proc[Lane] EXCEPT !.turn = t, !.kind = k, !.pc = pc]
    <3>1. f \in Frame /\ f.pc = pc BY <1>0 DEF Frame, PCs, TurnRef
    <3>2. proc' = [proc EXCEPT ![Lane] = f] BY <1>0, <2>3
    <3> QED BY <1>1, <2>1, <3>1, <3>2
  <2> DEFINE e == Head(rt.lane)
             pc == IF e.turn \in ResolveTurnRoute([rt EXCEPT !.lane = Tail(@)], e.turn).ensured
                   THEN "handle" ELSE "ensure"
  <2>4. rt.lane \in Seq(Event) /\ rt.lane # <<>> BY <1>4 DEF TakeEvent, TInv, TypeOK, Runtime
  <2>a. e \in Event BY <2>4
  <2> HIDE DEF e
  <2>5. e.turn \in Turns /\ e.kind \in EventKinds BY <2>a DEF Event
  <2> USE DEF e
  <2>6. pc \in {"handle", "ensure"} OBVIOUS
  <2>7. \/ UNCHANGED proc
        \/ proc' = [proc EXCEPT ![Lane].turn = e.turn, ![Lane].kind = e.kind, ![Lane].pc = pc]
    BY <1>4 DEF TakeEvent
  <2> HIDE DEF e, pc
  <2> QED BY <2>2, <2>3, <2>5, <2>6, <2>7
<1>5. CASE HandleEvent
  <2>1. UNCHANGED <<store, inflight>> BY <1>5 DEF HandleEvent
  <2>2. CASE Return(Lane) BY <2>1, <2>2, RInvReturn
  <2>3. CASE Goto(Lane, "finish") BY <1>2, <1>3, <2>1, <2>3
  <2>4. CASE proc' = [proc EXCEPT ![Lane].pc = "final_read", ![Lane].kind = "aborted"]
    <3> DEFINE f == [proc[Lane] EXCEPT !.pc = "final_read", !.kind = "aborted"]
    <3>1. f \in Frame /\ f.pc = "final_read" BY <1>0 DEF Frame, PCs, EventKinds
    <3>2. proc' = [proc EXCEPT ![Lane] = f] BY <1>0, <2>4
    <3> QED BY <1>1, <2>1, <3>1, <3>2
  <2> QED BY <1>5, <2>2, <2>3, <2>4 DEF HandleEvent
<1>6. CASE FinishSessionTurn
  BY <1>2, <1>3, <1>6 DEF FinishSessionTurn
<1>7. CASE CommitAndDiff
  <2>1. UNCHANGED <<store, inflight>> BY <1>7 DEF CommitAndDiff
  <2>2. CASE Goto(Lane, "final_read") BY <1>2, <1>3, <2>1, <2>2
  <2>3. CASE \E diff \in BOOLEAN : proc' = [proc EXCEPT ![Lane].pc = "complete", ![Lane].diff = diff]
    <3> PICK diff \in BOOLEAN : proc' = [proc EXCEPT ![Lane].pc = "complete", ![Lane].diff = diff]
      BY <2>3
    <3> DEFINE f == [proc[Lane] EXCEPT !.pc = "complete", !.diff = diff]
    <3>1. f \in Frame /\ f.pc = "complete" BY <1>0 DEF Frame, PCs
    <3>2. proc' = [proc EXCEPT ![Lane] = f] BY <1>0
    <3> QED BY <1>1, <2>1, <3>1, <3>2
  <2> QED BY <1>7, <2>2, <2>3 DEF CommitAndDiff
<1>8. CASE ReadActiveTurn
  <2>1. UNCHANGED <<store, inflight>> BY <1>8 DEF ReadActiveTurn
  <2>2. CASE ts.active = NoTurn BY <1>2, <1>3, <1>8, <2>1, <2>2 DEF ReadActiveTurn
  <2>3. CASE ts.active # NoTurn
    <3> DEFINE f == [proc[Lane] EXCEPT !.pc = "complete_record", !.target = ts.active]
    <3>1. f \in Frame /\ f.pc = "complete_record" BY <1>0 DEF Frame, PCs, ThreadState
    <3>2. proc' = [proc EXCEPT ![Lane] = f] BY <1>0, <1>8, <2>3 DEF ReadActiveTurn
    <3> QED BY <1>1, <2>1, <3>1, <3>2
  <2> QED BY <2>2, <2>3
<1>9. CASE ReadActiveRecord
  <2>1. record' = record /\ ts' = ts /\ inflight' = inflight BY <1>9 DEF ReadActiveRecord, store
  <2>2. CASE Goto(Lane, "final_read")
    BY <1>2, <1>3, <1>9, <2>2 DEF ReadActiveRecord
  <2>3. CASE Upsert(Lane, MarkTurnInterrupted, "final_read")
    <3>1. MarkTurnInterrupted \in Patch /\ "final_read" \in PCs
      BY PatchType DEF TInv, TypeOK, TurnRef, PCs
    <3>2. AllKnown(MarkTurnInterrupted, record')
      BY ConstantsAssumption DEF MarkTurnInterrupted, AllKnown, Known
    <3> QED BY <2>1, <2>3, <3>1, <3>2, RInvUpsert
  <2>4. CASE record[proc[Lane].target] # "none" /\ Goto(Lane, "complete_write")
    <3> DEFINE f == [proc[Lane] EXCEPT !.pc = "complete_write"]
    <3>1. f \in Frame /\ f.pc = "complete_write" /\ f.target = proc[Lane].target
      BY <1>0 DEF Frame, PCs
    <3>2. proc' = [proc EXCEPT ![Lane] = f] BY <1>0, <2>4 DEF Goto
    <3> HIDE DEF f
    <3>3. FrameKnown(f, record') BY <2>1, <2>4, <3>1 DEF FrameKnown, Known, Upserting
    <3>4. ~Critical(f) BY <3>1 DEF Critical, Upserting
    <3> QED BY <1>0, <2>1, <3>1, <3>2, <3>3, <3>4, RInvStep
  <2> QED BY <1>9, <2>2, <2>3, <2>4 DEF ReadActiveRecord
<1>10. CASE CompleteActiveTurn
  <2> DEFINE t == proc[Lane].target
  <2>1. t \in Turns /\ Known(t, record)
    BY <1>0, <1>10 DEF CompleteActiveTurn, At, FrameOK, UsesTarget, FrameKnown
  <2>2. \A u \in Turns : record[u] # "none" <=> record'[u] # "none"
    BY <1>0, <1>10, <2>1 DEF CompleteActiveTurn, Known
  <2>3. UNCHANGED <<ts, inflight>> BY <1>10 DEF CompleteActiveTurn
  <2>4. PICK patch \in {MarkTurnAwaitingApproval(t), MarkTurnCompleted(t)} : Upsert(Lane, patch, "final_read")
    BY <1>10 DEF CompleteActiveTurn
  <2>5. patch \in Patch /\ "final_read" \in PCs BY <2>1, PatchType DEF TInv, TypeOK, TurnRef, PCs
  <2>6. AllKnown(patch, record')
    BY <2>1, <2>2, ConstantsAssumption DEF MarkTurnAwaitingApproval, MarkTurnCompleted, AllKnown, Known
  <2> QED BY <2>2, <2>3, <2>4, <2>5, <2>6, RInvUpsert
<1>11. CASE FinalizeRead
  <2> DEFINE s == record[proc[Lane].turn]
             f == [proc[Lane] EXCEPT !.status = s, !.pc = IF s = "none" THEN "close" ELSE "final_write"]
  <2>1. proc[Lane].turn \in Turns BY <1>0, <1>11 DEF FinalizeRead, At, FrameOK, UsesTurn
  <2>2. /\ f \in Frame /\ f.status = s /\ f.turn = proc[Lane].turn
        /\ f.pc = IF s = "none" THEN "close" ELSE "final_write"
    BY <1>0, <2>1 DEF Frame, PCs
  <2>3. proc' = [proc EXCEPT ![Lane] = f] BY <1>0, <1>11 DEF FinalizeRead
  <2>4. record' = record /\ ts' = ts /\ inflight' = inflight BY <1>11 DEF FinalizeRead, store
  <2> HIDE DEF f
  <2>5. FrameKnown(f, record') BY <2>2, <2>4 DEF FrameKnown, Known, Upserting
  <2>6. ~Critical(f) /\ f.pc # "ensure_create" BY <2>2 DEF Critical, Upserting
  <2> QED BY <1>0, <2>2, <2>3, <2>4, <2>5, <2>6, RInvStep
<1>12. CASE FinalizeWrite
  <2>1. Known(proc[Lane].turn, record) /\ proc[Lane].status # "none"
    BY <1>0, <1>12 DEF FinalizeWrite, At, FrameKnown
  <2>2. \A u \in Turns : record[u] # "none" <=> record'[u] # "none"
    BY <1>0, <1>12, <2>1 DEF FinalizeWrite, Known
  <2> DEFINE f == [proc[Lane] EXCEPT !.pc = "close"]
  <2>3. f \in Frame /\ f.pc = "close" BY <1>0 DEF Frame, PCs
  <2>4. proc' = [proc EXCEPT ![Lane] = f] BY <1>0, <1>12 DEF FinalizeWrite, Goto
  <2> HIDE DEF f
  <2>5. ts' = ts /\ inflight' = inflight BY <1>12 DEF FinalizeWrite
  <2>6. AllKnown(ts', record') BY <1>0, <2>2, <2>5 DEF AllKnown, Known
  <2>7. FrameKnown(f, record') /\ ~Critical(f) BY <2>3 DEF FrameKnown, Critical, Upserting
  <2> QED BY <2>2, <2>3, <2>4, <2>5, <2>6, <2>7, RInvStep
<1>13. CASE RouteSummary \/ TurnAborted \/ CommitFails
  BY <1>13, RInvReturn DEF RouteSummary, TurnAborted, CommitFails
<1> QED BY <1>4, <1>5, <1>6, <1>7, <1>8, <1>9, <1>10, <1>11, <1>12, <1>13 DEF LaneStep

\* the interrupt timer, a crash, a stutter and the notifications of the agent,
LEMMA RInvRest ==
    ASSUME TInv, RInv,
           InterruptTimeout \/ Crash \/ UNCHANGED vars \/ \E t \in Turns : AgentStep(t)
    PROVE  RInv'
<1>1. CASE Crash
  <2>1. record' = record /\ ts' = ts /\ \A p \in Procs : proc'[p] = Blank BY <1>1 DEF Crash, store
  <2>2. Blank.pc = "idle" BY DEF Blank
  <2>3. AllKnown(ts', record') BY <2>1 DEF RInv
  <2>4. \A p \in Procs : FrameKnown(proc'[p], record') /\ ~Critical(proc'[p]) BY <2>1, BlankKnown
  <2>5. InflightOwned' BY <2>4 DEF InflightOwned, Critical
  <2> QED BY <2>1, <2>2, <2>3, <2>4, <2>5 DEF RInv, AllKnown, Known, FrameKnown
<1>2. CASE UNCHANGED <<store, inflight, proc>>
  BY <1>2 DEF store, RInv, InflightOwned, FrameKnown, AllKnown, Known, Critical
<1> QED BY <1>1, <1>2 DEF InterruptTimeout, vars, AgentStep, Speak, EndTurn, EchoEnd

\* and so does every step.
LEMMA RInvNext == TInv /\ RInv /\ [Next]_vars => RInv'
  BY RInvUserStart, RInvCommand, RInvEnsure, RInvLane, RInvRest DEF Next

\* Both invariants hold in every behaviour.
LEMMA Records == Spec => [](TInv /\ RInv)
  BY TInvInit, TInvNext, RInvInit, RInvNext, PTL DEF Spec

\* However many calls of ensureTurnStarted meet, one of them creates a turn's record.
THEOREM CreatedOnce == Spec => []CreateOnce
<1>1. RInv => CreateOnce BY DEF RInv, CreateOnce, At
<1> QED BY <1>1, Records, PTL

\* Stale rows, failures and crashes never leave a reference to a turn without a record.
THEOREM Recorded == Spec => []ReferencesRecorded
<1>1. TInv /\ RInv => ReferencesRecorded
  BY DEF TInv, TypeOK, RInv, AllKnown, Known, ReferencesRecorded, ThreadState, TurnRef
<1> QED BY <1>1, Records, PTL

-----------------------------------------------------------------------------
(* The events under way: what the lane has queued, then what is parked. *)

QueueOf(r) == r.lane \o r.parked
Queue      == QueueOf(rt)

\* No delta of a turn comes behind its end; this is EventOrder of a queue.
Ordered(q) ==
    \A i, j \in 1..Len(q) : i < j /\ q[i].turn = q[j].turn /\ q[i].kind # "delta" => q[j].kind # "delta"

\* Every event of the queue p is one of the queue q.
Within(p, q) == \A i \in 1..Len(p) : \E j \in 1..Len(q) : p[i] = q[j]

\* The queue of a runtime state is a sequence of events.
LEMMA QueueType ==
    ASSUME NEW r \in Runtime
    PROVE  QueueOf(r) \in Seq(Event)
  BY DEF QueueOf, Runtime

\* Taking the first event of the lane takes the first of the queue.
LEMMA QueueTail ==
    ASSUME NEW r \in Runtime, r.lane # <<>>
    PROVE  /\ QueueOf(r) # <<>>
           /\ Head(r.lane) = QueueOf(r)[1]
           /\ QueueOf([r EXCEPT !.lane = Tail(@)]) = Tail(QueueOf(r))
<1> DEFINE a == r.lane
           b == r.parked
           q == [r EXCEPT !.lane = Tail(@)]
<1>1. a \in Seq(Event) /\ b \in Seq(Event) /\ a # <<>> /\ Len(a) \in Nat \ {0} /\ Len(b) \in Nat
  BY EmptySeq DEF Runtime
<1>2. q.lane = Tail(a) /\ q.parked = b BY DEF Runtime
<1> HIDE DEF a, b, q
<1>3. /\ Tail(a) \in Seq(Event) /\ Len(Tail(a)) = Len(a) - 1
      /\ \A i \in 1..Len(Tail(a)) : Tail(a)[i] = a[i + 1]
  BY <1>1, HeadTailProperties
<1>4. /\ a \o b \in Seq(Event) /\ Len(a \o b) = Len(a) + Len(b)
      /\ \A i \in 1..Len(a) + Len(b) : (a \o b)[i] = IF i <= Len(a) THEN a[i] ELSE b[i - Len(a)]
  BY <1>1, ConcatProperties
<1>5. a \o b # <<>> BY <1>1, <1>4, EmptySeq
<1>6. /\ Tail(a \o b) \in Seq(Event) /\ Len(Tail(a \o b)) = Len(a) + Len(b) - 1
      /\ \A i \in 1..Len(Tail(a \o b)) : Tail(a \o b)[i] = (a \o b)[i + 1]
  BY <1>4, <1>5, HeadTailProperties
<1>7. /\ Tail(a) \o b \in Seq(Event) /\ Len(Tail(a) \o b) = Len(a) - 1 + Len(b)
      /\ \A i \in 1..Len(Tail(a)) + Len(b) :
           (Tail(a) \o b)[i] = IF i <= Len(Tail(a)) THEN Tail(a)[i] ELSE b[i - Len(Tail(a))]
  BY <1>1, <1>3, ConcatProperties
<1>8. Tail(a) \o b = Tail(a \o b)
  <2>1. Len(Tail(a) \o b) = Len(Tail(a \o b)) BY <1>1, <1>6, <1>7
  <2>2. ASSUME NEW i \in 1..Len(Tail(a) \o b) PROVE (Tail(a) \o b)[i] = Tail(a \o b)[i]
    <3>1. i \in 1..Len(Tail(a)) + Len(b) /\ i \in 1..Len(Tail(a \o b)) /\ i + 1 \in 1..Len(a) + Len(b)
      BY <1>1, <1>3, <1>6, <1>7
    <3>2. Tail(a \o b)[i] = IF i + 1 <= Len(a) THEN a[i + 1] ELSE b[i + 1 - Len(a)]
      BY <1>4, <1>6, <3>1
    <3>3. (Tail(a) \o b)[i] = IF i <= Len(a) - 1 THEN Tail(a)[i] ELSE b[i - (Len(a) - 1)]
      BY <1>3, <1>7, <3>1
    <3>4. CASE i + 1 <= Len(a)
      <4>1. Tail(a)[i] = a[i + 1] BY <1>1, <1>3, <3>4
      <4> QED BY <1>1, <3>2, <3>3, <3>4, <4>1
    <3>5. CASE ~(i + 1 <= Len(a))
      <4>1. i + 1 - Len(a) = i - (Len(a) - 1) BY <1>1
      <4> QED BY <1>1, <3>2, <3>3, <3>5, <4>1
    <3> QED BY <3>4, <3>5
  <2> QED BY <1>6, <1>7, <2>1, <2>2, SeqEqual
<1>9. Head(a) = (a \o b)[1] BY <1>1, <1>4
<1> QED BY <1>2, <1>5, <1>8, <1>9 DEF QueueOf, a, b, q

\* A notification, queued or parked, comes last.
LEMMA QueueNotify ==
    ASSUME NEW r \in Runtime, NEW e \in Event, r.parked # <<>> => r.pending /\ r.latest = NoTurn
    PROVE  QueueOf(OnNotification(r, e)) = Append(QueueOf(r), e)
<1> DEFINE a == r.lane
           b == r.parked
           q == OnNotification(r, e)
<1>1. a \in Seq(Event) /\ b \in Seq(Event) BY DEF Runtime
<1>2. \/ q.lane = a /\ q.parked = Append(b, e)
      \/ q.lane = Append(a, e) /\ q.parked = b /\ b = <<>>
  BY DEF OnNotification, Runtime
<1> HIDE DEF a, b, q
<1>3. a \o Append(b, e) = Append(a \o b, e)
  <2>1. Append(b, e) = b \o <<e>> /\ Append(a \o b, e) = (a \o b) \o <<e>>
    BY <1>1, ConcatProperties, AppendIsConcat
  <2>2. <<e>> \in Seq(Event) OBVIOUS
  <2> QED BY <1>1, <2>1, <2>2, ConcatAssociative
<1>4. b = <<>> => Append(a, e) \o b = Append(a \o b, e)
  BY <1>1, AppendProperties, ConcatEmptySeq
<1> QED BY <1>2, <1>3, <1>4 DEF QueueOf, a, b, q

\* Activating a turn keeps the events and their order.
LEMMA QueueActivate ==
    ASSUME NEW r \in Runtime, NEW t \in Turns
    PROVE  QueueOf(ActivateTurn(r, t)) = QueueOf(r) /\ QueueOf(ResolveTurnRoute(r, t)) = QueueOf(r)
<1>1. r.lane \o r.parked \in Seq(Event) BY DEF Runtime
<1>2. ActivateTurn(r, t).lane = r.lane \o r.parked /\ ActivateTurn(r, t).parked = <<>>
  BY DEF ActivateTurn, Runtime
<1>3. QueueOf(ActivateTurn(r, t)) = QueueOf(r) BY <1>1, <1>2, ConcatEmptySeq DEF QueueOf
<1> QED BY <1>3 DEF ResolveTurnRoute

\* The rest of an ordered queue is ordered, and has no other events.
LEMMA TailOrdered ==
    ASSUME NEW q \in Seq(Event), q # <<>>, Ordered(q)
    PROVE  Ordered(Tail(q)) /\ Within(Tail(q), q)
<1>1. /\ Len(q) \in Nat /\ Len(Tail(q)) = Len(q) - 1
      /\ \A i \in 1..Len(Tail(q)) : Tail(q)[i] = q[i + 1]
  BY HeadTailProperties, LenProperties
<1>2. \A i \in 1..Len(Tail(q)) : i + 1 \in 1..Len(q) BY <1>1
<1> QED BY <1>1, <1>2 DEF Ordered, Within

\* So is a queue that an event joins, unless that is a delta behind its turn's end.
LEMMA AppendOrdered ==
    ASSUME NEW q \in Seq(Event), NEW e \in Event, Ordered(q),
           \A i \in 1..Len(q) : q[i].turn = e.turn /\ e.kind = "delta" => q[i].kind = "delta"
    PROVE  Ordered(Append(q, e))
<1> DEFINE a == Append(q, e)
<1>1. /\ Len(q) \in Nat /\ Len(a) = Len(q) + 1 /\ a[Len(q) + 1] = e
      /\ \A i \in 1..Len(q) : a[i] = q[i]
  BY AppendProperties, LenProperties
<1> HIDE DEF a
<1> SUFFICES ASSUME NEW i \in 1..Len(a), NEW j \in 1..Len(a), i < j, a[i].turn = a[j].turn, a[i].kind # "delta"
             PROVE  a[j].kind # "delta"
  BY DEF Ordered, a
<1>2. i \in 1..Len(q) /\ a[i] = q[i] BY <1>1
<1>3. CASE j \in 1..Len(q) BY <1>1, <1>2, <1>3 DEF Ordered
<1>4. CASE j = Len(q) + 1 BY <1>1, <1>2, <1>4
<1> QED BY <1>1, <1>3, <1>4

\* Users, starts, ensureTurnStarted and the read-modify-writes leave the queue as it is,
LEMMA QueueOfCommands ==
    ASSUME TInv, \/ \E c \in Clients : UserStep(c) \/ StartStep(c) \/ CommandStep(c)
                 \/ \E p \in Procs : EnsureStep(p)
    PROVE  Queue' = Queue
<1>0. rt \in Runtime BY DEF TInv, TypeOK
<1>1. ASSUME rt'.lane = rt.lane, rt'.parked = rt.parked PROVE Queue' = Queue
  BY <1>1 DEF Queue, QueueOf
<1>2. ASSUME NEW c \in Clients, UserStep(c) \/ StartStep(c) PROVE Queue' = Queue
  BY <1>0, <1>1, <1>2 DEF UserStep, SendText, Interrupt, AcceptTurn, RevertTurn,
     StartStep, CheckPendingApproval, PrepareTurn, ResumeThread, StartFails, TurnStart, Runtime
<1>3. ASSUME NEW c \in Clients, CommandStep(c) PROVE Queue' = Queue
  BY <1>0, <1>1, <1>3 DEF CommandStep, InterruptTurn, TurnInterrupt, WriteInterrupted,
     MarkTurnInterrupting, WriteAccepted, ReleaseBlocking, WriteReverted, ReleaseReferences, CommandFails, Runtime
<1>4. ASSUME NEW p \in Procs, EnsureStep(p) PROVE Queue' = Queue
  <2>1. CASE EnsureJoined(p) \/ EnsureDone(p)
    <3>1. proc[p].turn \in Turns
      BY <2>1 DEF EnsureJoined, EnsureDone, At, TInv, FramesOK, FrameOK, UsesTurn
    <3>2. rt' = rt \/ rt' = ActivateTurn(rt, proc[p].turn)
      BY <2>1 DEF EnsureJoined, EnsureDone, Proceed
    <3> QED BY <1>0, <1>1, <3>1, <3>2, QueueActivate DEF Queue
  <2>2. CASE EnsureFails(p) BY <1>0, <1>1, <2>2 DEF EnsureFails, Runtime
  <2> QED BY <1>0, <1>1, <1>4, <2>1, <2>2 DEF EnsureStep, EnsureEnter, EnsureRead, CreateTurnStart,
             UpsertRead, UpsertWrite
<1> QED BY <1>2, <1>3, <1>4

\* and the lane takes the first event or leaves it.
LEMMA QueueOfTake ==
    ASSUME TInv, TakeEvent
    PROVE  /\ Queue \in Seq(Event) /\ Queue # <<>> /\ Queue' = Tail(Queue)
           /\ Queue[1] = Head(rt.lane) /\ Queue[1] \in Event
<1> DEFINE e == Head(rt.lane)
           q == [rt EXCEPT !.lane = Tail(@)]
           r == ResolveTurnRoute(q, e.turn)
<1>0. rt \in Runtime BY DEF TInv, TypeOK
<1>1. rt.lane \in Seq(Event) /\ rt.lane # <<>> BY <1>0 DEF TakeEvent, Runtime
<1>2. e \in Event /\ Tail(rt.lane) \in Seq(Event) BY <1>1
<1>3. e.turn \in Turns BY <1>2 DEF Event
<1>4. q \in Runtime BY <1>0, <1>2 DEF Runtime
<1>5. r \in Runtime /\ QueueOf(r) = QueueOf(q) BY <1>3, <1>4, RouteType, QueueActivate
<1>6. rt' = r \/ rt' = [r EXCEPT !.ensured = @ \cup {e.turn}] BY DEF TakeEvent
<1> HIDE DEF e, q, r
<1>7. QueueOf(rt') = QueueOf(r) BY <1>5, <1>6 DEF QueueOf, Runtime
<1> QED BY <1>0, <1>1, <1>2, <1>5, <1>7, QueueTail, QueueType DEF Queue, e, q

LEMMA QueueOfLane ==
    ASSUME TInv, LaneStep
    PROVE  TakeEvent \/ Queue' = Queue
<1>0. rt \in Runtime BY DEF TInv, TypeOK
<1>1. ASSUME rt'.lane = rt.lane, rt'.parked = rt.parked PROVE Queue' = Queue
  BY <1>1 DEF Queue, QueueOf
<1>2. CASE HandleEvent BY <1>0, <1>1, <1>2 DEF HandleEvent, Runtime
<1>3. CASE RouteSummary \/ TurnAborted
  BY <1>0, <1>1, <1>3 DEF RouteSummary, TurnAborted, ForgetTurn, Runtime
<1> QED BY <1>1, <1>2, <1>3 DEF LaneStep, FinishSessionTurn, CommitAndDiff, CommitFails,
           ReadActiveTurn, ReadActiveRecord, CompleteActiveTurn, FinalizeRead, FinalizeWrite

\* What the agent reports comes last; its turn was started and, if this is its end, is over.
LEMMA QueueOfAgent ==
    ASSUME TInv, ParkedWait, NEW t \in Turns, AgentStep(t)
    PROVE  \E k \in EventKinds :
             /\ Queue' = Append(Queue, [turn |-> t, kind |-> k])
             /\ agent[t] \in {"running", "spoke", "ended"}
             /\ agent'[t] \in {"spoke", "ended", "echoed"}
             /\ k = "delta" => AgentRuns(t)
             /\ k # "delta" => agent'[t] \in {"ended", "echoed"}
             /\ \A u \in Turns \ {t} : agent'[u] = agent[u]
<1>0. rt \in Runtime /\ agent \in [Turns -> AgentStates] BY DEF TInv, TypeOK
<1>1. PICK k \in EventKinds :
        /\ rt' = OnNotification(rt, [turn |-> t, kind |-> k])
        /\ k = "delta" => Speak(t)
        /\ k # "delta" => EndTurn(t) \/ EchoEnd(t)
  BY DEF AgentStep, Speak, EndTurn, EchoEnd, EventKinds
<1>2. [turn |-> t, kind |-> k] \in Event BY DEF Event
<1>3. Queue' = Append(Queue, [turn |-> t, kind |-> k])
  BY <1>0, <1>1, <1>2, QueueNotify DEF ParkedWait, Queue
<1> QED BY <1>0, <1>1, <1>3 DEF Speak, EndTurn, EchoEnd, AgentRuns

-----------------------------------------------------------------------------
(* The order of events, for every environment. *)

\* Events are of turns that were started, and ends of turns that are over.
Reported ==
    \A i \in 1..Len(Queue) :
        /\ agent[Queue[i].turn] # "unused"
        /\ Queue[i].kind # "delta" => agent[Queue[i].turn] \in {"ended", "echoed"}

QInv == Ordered(Queue) /\ Reported

\* No turn is started twice, and none runs on behind its end.
LEMMA AgentGrows ==
    ASSUME TInv, [Next]_vars
    PROVE  \A t \in Turns :
             /\ agent[t] # "unused" => agent'[t] # "unused"
             /\ agent[t] \in {"ended", "echoed"} => agent'[t] \in {"ended", "echoed"}
             /\ agent[t] = "echoed" => agent'[t] = "echoed"
<1> USE DEF outside
<1>0. agent \in [Turns -> AgentStates] BY DEF TInv, TypeOK
<1>1. ASSUME NEW c \in Clients, UserStep(c) \/ CommandStep(c) PROVE agent' = agent
  BY <1>1 DEF UserStep, SendText, Interrupt, AcceptTurn, RevertTurn, CommandStep, InterruptTurn,
     TurnInterrupt, WriteInterrupted, MarkTurnInterrupting, WriteAccepted, ReleaseBlocking, WriteReverted,
     ReleaseReferences, CommandFails
<1>2. ASSUME NEW c \in Clients, StartStep(c)
      PROVE  agent' = agent \/ \E t \in Turns : agent[t] = "unused" /\ agent' = [agent EXCEPT ![t] = "running"]
  BY <1>2 DEF StartStep, CheckPendingApproval, PrepareTurn, ResumeThread, StartFails, TurnStart
<1>3. ASSUME NEW p \in Procs, EnsureStep(p) PROVE agent' = agent
  BY <1>3 DEF EnsureStep, EnsureEnter, EnsureRead, CreateTurnStart, EnsureJoined, EnsureDone, EnsureFails,
     UpsertRead, UpsertWrite
<1>4. ASSUME LaneStep \/ InterruptTimeout \/ UNCHANGED vars PROVE agent' = agent
  BY <1>4 DEF LaneStep, TakeEvent, HandleEvent, FinishSessionTurn, CommitAndDiff, CommitFails, ReadActiveTurn,
     ReadActiveRecord, CompleteActiveTurn, FinalizeRead, FinalizeWrite, RouteSummary, TurnAborted,
     InterruptTimeout, vars
<1>5. ASSUME NEW t \in Turns, AgentStep(t)
      PROVE  \/ agent[t] = "running" /\ agent' = [agent EXCEPT ![t] = "spoke"]
             \/ agent[t] # "echoed" /\ agent' = [agent EXCEPT ![t] = "ended"]
             \/ agent' = [agent EXCEPT ![t] = "echoed"]
  BY <1>5 DEF AgentStep, Speak, EndTurn, EchoEnd, AgentRuns
<1>6. CASE Crash BY <1>0, <1>6 DEF Crash
<1> QED BY <1>0, <1>1, <1>2, <1>3, <1>4, <1>5, <1>6 DEF Next

\* The order is kept by every step.
LEMMA QInvNext ==
    ASSUME TInv, ParkedWait, QInv, [Next]_vars
    PROVE  QInv'
<1>0. rt \in Runtime /\ Queue \in Seq(Event) BY QueueType DEF TInv, TypeOK, Queue
<1>1. \A i \in 1..Len(Queue) : Queue[i] \in Event /\ Queue[i].turn \in Turns
  <2>1. \A e \in Event : e.turn \in Turns BY DEF Event
  <2>2. \A i \in 1..Len(Queue) : Queue[i] \in Event BY <1>0, ElementOfSeq
  <2> QED BY <2>1, <2>2
<1>2. ASSUME Queue' = Queue PROVE QInv'
  BY <1>1, <1>2, AgentGrows DEF QInv, Reported
<1>3. CASE TakeEvent
  <2>1. Queue # <<>> /\ Queue' = Tail(Queue) BY <1>3, QueueOfTake
  <2>2. Ordered(Queue') /\ Within(Queue', Queue) BY <1>0, <2>1, TailOrdered DEF QInv
  <2> QED BY <1>1, <2>2, AgentGrows DEF QInv, Reported, Within
<1>4. ASSUME NEW t \in Turns, AgentStep(t) PROVE QInv'
  <2>1. PICK k \in EventKinds :
          /\ Queue' = Append(Queue, [turn |-> t, kind |-> k])
          /\ agent'[t] \in {"spoke", "ended", "echoed"}
          /\ k = "delta" => AgentRuns(t)
          /\ k # "delta" => agent'[t] \in {"ended", "echoed"}
    BY <1>4, QueueOfAgent
  <2> DEFINE e == [turn |-> t, kind |-> k]
  <2>2. e \in Event /\ e.turn = t /\ e.kind = k BY DEF Event
  <2> HIDE DEF e
  <2>3. Queue' = Append(Queue, e) BY <2>1 DEF e
  <2>4. \A i \in 1..Len(Queue) : Queue[i].turn = t /\ k = "delta" => Queue[i].kind = "delta"
    BY <2>1 DEF QInv, Reported, AgentRuns
  <2>5. Ordered(Queue') BY <1>0, <2>2, <2>3, <2>4, AppendOrdered DEF QInv
  <2>6. /\ Len(Queue) \in Nat /\ Len(Queue') = Len(Queue) + 1 /\ Queue'[Len(Queue) + 1] = e
        /\ \A i \in 1..Len(Queue) : Queue'[i] = Queue[i]
    BY <1>0, <2>2, <2>3, AppendProperties, LenProperties
  <2>7. ASSUME NEW i \in 1..Len(Queue')
        PROVE  /\ agent'[Queue'[i].turn] # "unused"
               /\ Queue'[i].kind # "delta" => agent'[Queue'[i].turn] \in {"ended", "echoed"}
    <3>1. CASE i \in 1..Len(Queue) BY <1>1, <2>6, <3>1, AgentGrows DEF QInv, Reported
    <3>2. CASE i = Len(Queue) + 1 BY <2>1, <2>2, <2>6, <3>2
    <3> QED BY <2>6, <3>1, <3>2
  <2> QED BY <2>5, <2>7 DEF QInv, Reported
<1>5. CASE Crash
  <2>1. Queue' = <<>> BY <1>5 DEF Crash, NoRuntime, Queue, QueueOf
  <2> QED BY <2>1 DEF QInv, Ordered, Reported
<1>6. CASE InterruptTimeout \/ UNCHANGED vars
  BY <1>2, <1>6 DEF InterruptTimeout, vars, Queue
<1> QED BY <1>2, <1>3, <1>4, <1>5, <1>6, QueueOfCommands, QueueOfLane DEF Next

\* Events wait in order in every behaviour.
LEMMA Queued == Spec => [](TInv /\ ParkedWait /\ QInv)
<1>1. Init => QInv
  <2>1. Init => Queue = <<>> BY DEF Init, NoRuntime, Queue, QueueOf
  <2> QED BY <2>1 DEF QInv, Ordered, Reported
<1>2. TInv /\ ParkedWait /\ QInv /\ [Next]_vars => QInv' BY QInvNext
<1> QED BY <1>1, <1>2, TInvInit, TInvNext, Parked, PTL DEF Spec

\* Whatever the hardships, no delta of a turn waits behind the end of that turn.
THEOREM InOrder == Spec => []EventOrder
<1>1. QInv => EventOrder BY DEF QInv, EventOrder, Ordered, Queue, QueueOf
<1> QED BY <1>1, Queued, PTL

-----------------------------------------------------------------------------
(* Parked events and the start that releases them. *)

\* The frame is in ensureTurnStarted.
Ensuring(f) ==
    \/ f.pc \in {"ensure", "join", "ensure_read", "ensure_create", "ensured"}
    \/ f.pc \in Upserting /\ f.then = "ensured"

\* The frame waits for the answer to turn/start, or goes on after it.
Awaiting(f) == f.pc \in {"starting", "restarting"} \/ Ensuring(f)

\* A thread that parks events has a start under way.
PendingOwned == rt.pending => \E c \in Clients : Awaiting(proc[c])

\* A step of one process: no other frame changes.
LEMMA OtherFrames ==
    ASSUME TInv
    PROVE  /\ \A c \in Clients : UserStep(c) \/ StartStep(c) \/ CommandStep(c) =>
                \A p \in Procs \ {c} : proc'[p] = proc[p]
           /\ \A q \in Procs : EnsureStep(q) => \A p \in Procs \ {q} : proc'[p] = proc[p]
           /\ LaneStep => \A p \in Procs \ {Lane} : proc'[p] = proc[p]
<1>0. proc \in [Procs -> Frame] BY DEF TInv, TypeOK
<1> USE DEF Goto, Return, Upsert, FailStart, EnsureCanStartTurn
<1>1. ASSUME NEW c \in Clients, UserStep(c) \/ StartStep(c), NEW p \in Procs \ {c} PROVE proc'[p] = proc[p]
  BY <1>0, <1>1 DEF UserStep, SendText, Interrupt, AcceptTurn, RevertTurn, StartStep, CheckPendingApproval,
     PrepareTurn, ResumeThread, StartFails, TurnStart
<1>2. ASSUME NEW c \in Clients, CommandStep(c), NEW p \in Procs \ {c} PROVE proc'[p] = proc[p]
  BY <1>0, <1>2 DEF CommandStep, InterruptTurn, TurnInterrupt, WriteInterrupted, MarkTurnInterrupting,
     WriteAccepted, ReleaseBlocking, WriteReverted, ReleaseReferences, CommandFails
<1>3. ASSUME NEW q \in Procs, EnsureStep(q), NEW p \in Procs \ {q} PROVE proc'[p] = proc[p]
  BY <1>0, <1>3 DEF EnsureStep, EnsureEnter, EnsureRead, CreateTurnStart, EnsureJoined, EnsureDone, EnsureFails,
     UpsertRead, UpsertWrite, BeginInterrupt, Proceed
<1>4. ASSUME LaneStep, NEW p \in Procs \ {Lane} PROVE proc'[p] = proc[p]
  BY <1>0, <1>4 DEF LaneStep, TakeEvent, HandleEvent, FinishSessionTurn, CommitAndDiff, CommitFails,
     ReadActiveTurn, ReadActiveRecord, CompleteActiveTurn, FinalizeRead, FinalizeWrite, RouteSummary, TurnAborted
<1> QED BY <1>1, <1>2, <1>3, <1>4

\* While no start fails, a pending start stays under way until it activates a turn.
LEMMA PendingNext ==
    ASSUME "failure" \notin Env, TInv, PendingOwned, [Next]_vars
    PROVE  PendingOwned'
<1> SUFFICES ASSUME rt'.pending PROVE \E c \in Clients : Awaiting(proc'[c])
  BY DEF PendingOwned, Awaiting, Ensuring
<1>0. proc \in [Procs -> Frame] /\ rt \in Runtime BY DEF TInv, TypeOK
<1>a. Lane \notin Clients BY ConstantsAssumption
<1>1. ASSUME rt'.pending => rt.pending, \A c \in Clients : Awaiting(proc[c]) => Awaiting(proc'[c])
      PROVE  \E c \in Clients : Awaiting(proc'[c])
  BY <1>1 DEF PendingOwned
<1>2. ASSUME NEW c \in Clients, UserStep(c) \/ CommandStep(c) PROVE \E d \in Clients : Awaiting(proc'[d])
  <2>1. ~Awaiting(proc[c])
    BY <1>2 DEF UserStep, SendText, Interrupt, AcceptTurn, RevertTurn, CommandStep, InterruptTurn,
       TurnInterrupt, WriteInterrupted, MarkTurnInterrupting, WriteAccepted, ReleaseBlocking, WriteReverted,
       ReleaseReferences, CommandFails, At, Awaiting, Ensuring, Upserting
  <2>2. rt'.pending = rt.pending
    BY <1>0, <1>2 DEF UserStep, SendText, Interrupt, AcceptTurn, RevertTurn, CommandStep, InterruptTurn,
       TurnInterrupt, WriteInterrupted, MarkTurnInterrupting, WriteAccepted, ReleaseBlocking, WriteReverted,
       ReleaseReferences, CommandFails, Runtime
  <2>3. \A d \in Clients : d # c => proc'[d] = proc[d] BY <1>2, OtherFrames DEF Procs
  <2> QED BY <1>1, <2>1, <2>2, <2>3
<1>3. ASSUME NEW c \in Clients, StartStep(c) PROVE \E d \in Clients : Awaiting(proc'[d])
  <2>1. \A d \in Clients : d # c => proc'[d] = proc[d] BY <1>3, OtherFrames DEF Procs
  <2>2. CASE CheckPendingApproval(c)
    BY <1>1, <2>1, <2>2 DEF CheckPendingApproval, At, Awaiting, Ensuring, Upserting
  <2>3. CASE PrepareTurn(c) BY <1>0, <2>3 DEF PrepareTurn, Goto, Awaiting, Procs
  <2>4. CASE TurnStart(c)
    <3>1. proc'[c].pc = "ensure" BY <1>0, <2>4 DEF TurnStart, Procs, Frame
    <3> QED BY <3>1 DEF Awaiting, Ensuring
  <2> QED BY <1>3, <2>2, <2>3, <2>4 DEF StartStep, ResumeThread, StartFails
<1>4. ASSUME NEW p \in Procs, EnsureStep(p) PROVE \E d \in Clients : Awaiting(proc'[d])
  <2>1. \A d \in Procs : d # p => proc'[d] = proc[d] BY <1>4, OtherFrames
  <2>2. CASE p = Lane
    <3>1. rt' = rt BY <1>4, <2>2 DEF EnsureStep, EnsureEnter, EnsureRead, CreateTurnStart, EnsureJoined,
          EnsureDone, EnsureFails, UpsertRead, UpsertWrite, Proceed
    <3> QED BY <1>1, <1>a, <2>1, <2>2, <3>1 DEF Procs
  <2>3. CASE p \in Clients
    <3>1. CASE EnsureJoined(p) \/ EnsureDone(p)
      <4>1. rt' = ActivateTurn(rt, proc[p].turn) BY <1>a, <2>3, <3>1 DEF EnsureJoined, EnsureDone, Proceed
      <4> QED BY <1>0, <4>1 DEF ActivateTurn, Runtime
    <3>2. rt' = rt \/ EnsureJoined(p) \/ EnsureDone(p)
      BY <1>4 DEF EnsureStep, EnsureEnter, EnsureRead, CreateTurnStart, EnsureFails, UpsertRead, UpsertWrite
    <3>3. ASSUME Awaiting(proc[p]), ~EnsureJoined(p), ~EnsureDone(p) PROVE Awaiting(proc'[p])
      <4>0. proc[p] \in Frame BY <1>0
      <4>1. CASE EnsureEnter(p) \/ EnsureRead(p) \/ CreateTurnStart(p) \/ UpsertRead(p)
        BY <1>0, <3>3, <4>0, <4>1 DEF EnsureEnter, EnsureRead, CreateTurnStart, UpsertRead, At, Goto, Upsert, Awaiting,
           Ensuring, Upserting, Frame
      <4>2. CASE UpsertWrite(p)
        <5>1. proc[p].then = "ensured" BY <3>3, <4>2 DEF UpsertWrite, At, Awaiting, Ensuring
        <5>2. Goto(p, "ensured") BY <4>2, <5>1 DEF UpsertWrite
        <5> QED BY <1>0, <4>0, <5>2 DEF Goto, Awaiting, Ensuring, Frame
      <4> QED BY <1>4, <3>3, <4>1, <4>2 DEF EnsureStep, EnsureFails
    <3> QED BY <1>1, <2>1, <3>1, <3>2, <3>3 DEF Procs
  <2> QED BY <2>2, <2>3 DEF Procs
<1>5. CASE LaneStep
  <2>1. \A c \in Clients : proc'[c] = proc[c] BY <1>5, <1>a, OtherFrames DEF Procs
  <2>2. rt'.pending => rt.pending
    <3>1. CASE TakeEvent
      <4> DEFINE e == Head(rt.lane)
                 q == [rt EXCEPT !.lane = Tail(@)]
                 r == ResolveTurnRoute(q, e.turn)
      <4>1. rt.lane \in Seq(Event) /\ rt.lane # <<>> BY <1>0, <3>1 DEF TakeEvent, Runtime
      <4>2. e \in Event /\ Tail(rt.lane) \in Seq(Event) BY <4>1
      <4>3. e.turn \in Turns BY <4>2 DEF Event
      <4>4. q \in Runtime /\ q.pending = rt.pending BY <1>0, <4>2 DEF Runtime
      <4>5. r.pending => rt.pending BY <4>3, <4>4 DEF ResolveTurnRoute, ActivateTurn, Runtime
      <4>6. r \in Runtime BY <4>3, <4>4, RouteType
      <4>7. rt' = r \/ rt' = [r EXCEPT !.ensured = @ \cup {e.turn}] BY <3>1 DEF TakeEvent
      <4> QED BY <4>5, <4>6, <4>7 DEF Runtime
    <3>2. CASE HandleEvent \/ RouteSummary \/ TurnAborted
      BY <1>0, <3>2 DEF HandleEvent, RouteSummary, TurnAborted, ForgetTurn, Runtime
    <3> QED BY <1>5, <3>1, <3>2 DEF LaneStep, FinishSessionTurn, CommitAndDiff, CommitFails,
               ReadActiveTurn, ReadActiveRecord, CompleteActiveTurn, FinalizeRead, FinalizeWrite
  <2> QED BY <1>1, <2>1, <2>2
<1>6. ASSUME NEW t \in Turns, AgentStep(t) PROVE \E d \in Clients : Awaiting(proc'[d])
  <2>1. proc' = proc /\ \E e : rt' = OnNotification(rt, e) BY <1>6 DEF AgentStep, Speak, EndTurn, EchoEnd
  <2> QED BY <1>0, <1>1, <2>1 DEF OnNotification, Runtime
<1>7. CASE Crash BY <1>7 DEF Crash, NoRuntime
<1>8. CASE InterruptTimeout \/ UNCHANGED vars BY <1>1, <1>8 DEF InterruptTimeout, vars
<1> QED BY <1>2, <1>3, <1>4, <1>5, <1>6, <1>7, <1>8 DEF Next

\* When no start fails, parked events keep their order and the start that will release them.
THEOREM ParkedReleased ==
    ASSUME "failure" \notin Env
    PROVE  Spec => []ParkedKept
<1>1. Init => PendingOwned BY DEF Init, NoRuntime, PendingOwned
<1>2. TInv /\ PendingOwned /\ [Next]_vars => PendingOwned' BY PendingNext
<1>3. EventOrder /\ ParkedWait /\ PendingOwned => ParkedKept
  BY DEF ParkedKept, ParkedOwned, ParkedWait, PendingOwned, Awaiting, Ensuring, Upserting, At
<1> QED BY <1>1, <1>2, <1>3, TInvInit, TInvNext, Parked, InOrder, PTL DEF Spec

-----------------------------------------------------------------------------
(* One summary card for a turn. *)

\* The lane is between the end of a turn and its summary.
Completing(f) == f.pc \in {"finish", "finish_read", "complete", "complete_record", "complete_write"}
Closing(f) ==
    \/ f.pc \in {"final_read", "final_write", "close"}
    \/ f.pc \in Upserting /\ f.then = "final_read"
Ending(f)  == Completing(f) \/ Closing(f)

LaneOn(t) == ~At(Lane, "idle") /\ proc[Lane].turn = t

\* Nothing more will be heard of the turn: it died with a backend that was restarted.
Silent(t) ==
    /\ agent[t] = "echoed"
    /\ \A i \in 1..Len(Queue) : Queue[i].turn # t
    /\ ~LaneOn(t)

\* A turn is finished before its card is routed, and stays so until a restart, which
\* leaves none of its events behind.
SInv ==
    /\ ~At(Lane, "idle") => proc[Lane].turn \in Turns /\ agent[proc[Lane].turn] # "unused"
    /\ Ending(proc[Lane]) => proc[Lane].turn \in rt.finished \ shown
    /\ \A t \in shown : agent[t] # "unused" /\ (t \in rt.finished \/ Silent(t))

\* A step that routes no card and takes no event, and in which the lane begins no ending.
LEMMA SInvKeep ==
    ASSUME TInv, SInv, [Next]_vars, shown' = shown, rt.finished \subseteq rt'.finished, Queue' = Queue,
           \/ proc'[Lane].pc = "idle"
           \/ /\ proc[Lane].pc # "idle" /\ proc'[Lane].turn = proc[Lane].turn
              /\ Ending(proc'[Lane]) => Ending(proc[Lane])
           \/ proc'[Lane] = proc[Lane]
    PROVE  SInv'
<1>0. shown \subseteq Turns BY DEF TInv, TypeOK
<1>1. \A t \in shown : Silent(t) => Silent(t)'
  BY <1>0, AgentGrows DEF Silent, LaneOn, At
<1>2. proc'[Lane].pc = "idle" => ~Ending(proc'[Lane]) BY DEF Ending, Completing, Closing, Upserting
<1>3. (Ending(proc[Lane]))' <=> Ending(proc'[Lane]) BY DEF Ending, Completing, Closing
<1> QED BY <1>0, <1>1, <1>2, <1>3, AgentGrows DEF SInv, At

\* Clients' steps, the timer and a stutter keep the invariant, as do the lane's in
\* ensureTurnStarted,
LEMMA SInvOthers ==
    ASSUME TInv, SInv, [Next]_vars,
           \/ \E c \in Clients : UserStep(c) \/ StartStep(c) \/ CommandStep(c)
           \/ \E p \in Procs : EnsureStep(p)
           \/ InterruptTimeout \/ UNCHANGED vars
    PROVE  SInv'
<1>0. proc \in [Procs -> Frame] /\ rt \in Runtime /\ Lane \notin Clients
  BY ConstantsAssumption DEF TInv, TypeOK
<1> USE DEF outside, Procs
<1>1. ASSUME NEW c \in Clients, UserStep(c) \/ StartStep(c) \/ CommandStep(c) PROVE SInv'
  <2>1. shown' = shown /\ rt'.finished = rt.finished
    BY <1>0, <1>1 DEF UserStep, SendText, Interrupt, AcceptTurn, RevertTurn, StartStep, CheckPendingApproval,
       PrepareTurn, ResumeThread, StartFails, TurnStart, CommandStep, InterruptTurn,
       TurnInterrupt, WriteInterrupted, MarkTurnInterrupting, WriteAccepted, ReleaseBlocking, WriteReverted,
       ReleaseReferences, CommandFails, Runtime
  <2>2. proc'[Lane] = proc[Lane] BY <1>0, <1>1, OtherFrames
  <2> QED BY <1>1, <2>1, <2>2, SInvKeep, QueueOfCommands
<1>2. ASSUME NEW p \in Procs, EnsureStep(p) PROVE SInv'
  <2>1. shown' = shown /\ rt'.finished = rt.finished
    BY <1>0, <1>2 DEF EnsureStep, EnsureEnter, EnsureRead, CreateTurnStart, EnsureJoined, EnsureDone,
       EnsureFails, UpsertRead, UpsertWrite, Proceed, ActivateTurn, Runtime
  <2>2. CASE p # Lane
    <3>1. proc'[Lane] = proc[Lane] BY <1>0, <1>2, <2>2, OtherFrames
    <3> QED BY <1>2, <2>1, <3>1, SInvKeep, QueueOfCommands
  <2>3. CASE p = Lane
    <3> DEFINE f == proc[Lane]
    <3>0. f \in Frame /\ FrameOK(f) BY <1>0 DEF TInv, FramesOK
    <3>1. proc'[Lane] = Blank \/ (proc'[Lane].turn = f.turn /\ f.pc # "idle")
      <4>1. CASE EnsureEnter(Lane) \/ EnsureJoined(Lane) \/ EnsureDone(Lane) \/ EnsureFails(Lane)
        BY <1>0, <3>0, <4>1 DEF EnsureEnter, EnsureJoined, EnsureDone, EnsureFails, Proceed, At, Goto, Return, Frame
      <4>2. CASE EnsureRead(Lane) \/ CreateTurnStart(Lane)
        BY <1>0, <3>0, <4>2 DEF EnsureRead, CreateTurnStart, At, Goto, Upsert, Frame
      <4>3. CASE UpsertRead(Lane) \/ UpsertWrite(Lane)
        BY <1>0, <3>0, <4>3 DEF UpsertRead, UpsertWrite, BeginInterrupt, At, Goto, Return, Frame
      <4> QED BY <1>2, <2>3, <4>1, <4>2, <4>3 DEF EnsureStep
    <3>2. CASE UpsertRead(Lane) \/ UpsertWrite(Lane)
      <4>1. Ending(proc'[Lane]) => Ending(f)
        BY <1>0, <3>0, <3>2 DEF UpsertRead, UpsertWrite, BeginInterrupt, At, Goto, Return, Frame, FrameOK,
           Ending, Completing, Closing, Upserting, Blank
      <4>2. Blank.pc = "idle" BY DEF Blank
      <4> QED BY <1>2, <2>1, <2>3, <3>1, <4>1, <4>2, SInvKeep, QueueOfCommands
    <3>3. CASE ~(UpsertRead(Lane) \/ UpsertWrite(Lane))
      <4>1. ~Ending(proc'[Lane])
        <5>1. CASE EnsureEnter(Lane) \/ EnsureJoined(Lane) \/ EnsureDone(Lane) \/ EnsureFails(Lane)
          BY <1>0, <3>0, <5>1 DEF EnsureEnter, EnsureJoined, EnsureDone, EnsureFails, Proceed, Goto, Return,
             Frame, Ending, Completing, Closing, Upserting, Blank
        <5>2. CASE EnsureRead(Lane) \/ CreateTurnStart(Lane)
          BY <1>0, <3>0, <5>2 DEF EnsureRead, CreateTurnStart, Goto, Upsert, Frame,
             Ending, Completing, Closing, Upserting
        <5> QED BY <1>2, <2>3, <3>3, <5>1, <5>2 DEF EnsureStep
      <4>2. Blank.pc = "idle" BY DEF Blank
      <4> QED BY <1>2, <2>1, <2>3, <3>1, <4>1, <4>2, SInvKeep, QueueOfCommands
    <3> QED BY <3>2, <3>3
  <2> QED BY <2>2, <2>3
<1>3. CASE InterruptTimeout \/ UNCHANGED vars
  BY <1>3, SInvKeep DEF InterruptTimeout, vars, Queue
<1> QED BY <1>1, <1>2, <1>3

\* the lane,
LEMMA SInvLane ==
    ASSUME TInv, QInv, SInv, [Next]_vars, LaneStep
    PROVE  SInv'
<1>0. /\ proc \in [Procs -> Frame] /\ rt \in Runtime /\ proc[Lane] \in Frame /\ FrameOK(proc[Lane])
      /\ shown \subseteq Turns
  BY DEF TInv, TypeOK, FramesOK, Procs
<1>a. Blank.pc = "idle" BY DEF Blank
<1>b. (Ending(proc[Lane]))' <=> Ending(proc'[Lane]) BY DEF Ending, Completing, Closing
<1>c. \A f : f.pc \in {"idle", "ensure", "handle"} => ~Ending(f) BY DEF Ending, Completing, Closing, Upserting
<1> USE DEF outside, Procs
<1>1. CASE TakeEvent
  <2> DEFINE e == Head(rt.lane)
             q == [rt EXCEPT !.lane = Tail(@)]
             r == ResolveTurnRoute(q, e.turn)
  <2>1. Queue \in Seq(Event) /\ Queue # <<>> /\ Queue' = Tail(Queue) /\ Queue[1] = e /\ e \in Event
    BY <1>1, QueueOfTake
  <2>2. Within(Queue', Queue) BY <2>1, TailOrdered DEF QInv
  <2>3. 1 \in 1..Len(Queue) BY <2>1, EmptySeq
  <2>4. e.turn \in Turns /\ agent[e.turn] # "unused" BY <2>1, <2>3 DEF QInv, Reported, Event
  <2>5. rt'.finished = rt.finished
    <3>1. rt.lane \in Seq(Event) /\ rt.lane # <<>> BY <1>0, <1>1 DEF TakeEvent, Runtime
    <3>a. Tail(rt.lane) \in Seq(Event) BY <3>1
    <3>2. q \in Runtime /\ q.finished = rt.finished BY <1>0, <3>a DEF Runtime
    <3>3. r \in Runtime /\ r.finished = rt.finished
      BY <2>4, <3>2, RouteType DEF ResolveTurnRoute, ActivateTurn, Runtime
    <3>4. rt' = r \/ rt' = [r EXCEPT !.ensured = @ \cup {e.turn}] BY <1>1 DEF TakeEvent
    <3> QED BY <3>3, <3>4 DEF Runtime
  <2>6. shown' = shown /\ agent' = agent BY <1>1 DEF TakeEvent
  <2>7. \/ proc'[Lane] = proc[Lane]
        \/ proc'[Lane].turn = e.turn /\ proc'[Lane].pc \in {"ensure", "handle"}
    <3>1. \/ UNCHANGED proc
          \/ \E pc \in {"ensure", "handle"} :
               proc' = [proc EXCEPT ![Lane].turn = e.turn, ![Lane].kind = e.kind, ![Lane].pc = pc]
      BY <1>1 DEF TakeEvent
    <3> QED BY <1>0, <3>1 DEF Frame
  <2>8. proc[Lane].pc = "idle" BY <1>1 DEF TakeEvent, At
  <2>9. ~Silent(e.turn) BY <2>1, <2>3 DEF Silent
  <2> HIDE DEF e, q, r
  <2>10. ASSUME NEW t \in shown, Silent(t) PROVE Silent(t)'
    <3>1. t # e.turn BY <2>9, <2>10
    <3>2. \A i \in 1..Len(Queue') : Queue'[i].turn # t BY <2>2, <2>10 DEF Silent, Within
    <3>3. proc'[Lane].pc = "idle" \/ proc'[Lane].turn # t BY <2>7, <2>8, <3>1
    <3> QED BY <2>6, <2>10, <3>2, <3>3 DEF Silent, LaneOn, At
  <2> QED BY <1>b, <1>c, <2>4, <2>5, <2>6, <2>7, <2>8, <2>10 DEF SInv, At
<1>2. CASE HandleEvent
  <2> DEFINE t == proc[Lane].turn
  <2>1. Queue' = Queue BY <1>0, <1>2 DEF HandleEvent, Runtime, Queue, QueueOf
  <2>2. shown' = shown /\ agent' = agent /\ proc[Lane].pc = "handle" BY <1>2 DEF HandleEvent, At
  <2>3. CASE Return(Lane) /\ UNCHANGED rt
    BY <1>0, <1>a, <2>1, <2>2, <2>3, SInvKeep DEF Return
  <2>4. CASE ~(Return(Lane) /\ UNCHANGED rt)
    <3>1. t \notin rt.finished /\ rt'.finished = rt.finished \cup {t}
      BY <1>0, <1>2, <2>4 DEF HandleEvent, Runtime
    <3>2. t \notin shown BY <2>2, <3>1 DEF SInv, Silent, LaneOn, At
    <3>3. proc'[Lane].turn = t BY <1>0, <1>2, <2>4 DEF HandleEvent, Goto, Frame
    <3>4. \A u \in shown : Silent(u) => Silent(u)'
      BY <2>1, <2>2, <3>2, <3>3 DEF Silent, LaneOn, At
    <3>5. t \in Turns BY <2>2 DEF SInv, At
    <3> HIDE DEF t
    <3>6. agent[t] # "unused" BY <2>2 DEF SInv, At, t
    <3> QED BY <2>2, <3>1, <3>2, <3>3, <3>4, <3>5, <3>6 DEF SInv, At
  <2> QED BY <2>3, <2>4
<1>3. CASE RouteSummary
  <2> DEFINE t == proc[Lane].turn
  <2>1. Queue' = Queue /\ rt'.finished = rt.finished
    BY <1>0, <1>3 DEF RouteSummary, ForgetTurn, Runtime, Queue, QueueOf
  <2>2. shown' = shown \cup {t} /\ agent' = agent /\ proc[Lane].pc = "close" BY <1>3 DEF RouteSummary, At
  <2>3. t \in rt.finished /\ agent[t] # "unused" BY <2>2 DEF SInv, At, Ending, Closing
  <2>4. proc'[Lane].pc = "idle" BY <1>0, <1>a, <1>3 DEF RouteSummary, Return
  <2>5. \A u \in shown : Silent(u) => Silent(u)' BY <2>1, <2>2, <2>4 DEF Silent, LaneOn, At
  <2> HIDE DEF t
  <2> QED BY <1>b, <1>c, <2>1, <2>2, <2>3, <2>4, <2>5 DEF SInv, At
<1>4. CASE TurnAborted
  <2>1. Queue' = Queue /\ rt'.finished = rt.finished /\ shown' = shown
    BY <1>0, <1>4 DEF TurnAborted, ForgetTurn, Runtime, Queue, QueueOf
  <2>2. proc'[Lane].pc = "idle" BY <1>0, <1>a, <1>4 DEF TurnAborted, Return
  <2> QED BY <2>1, <2>2, SInvKeep
<1>5. CASE CommitFails
  BY <1>0, <1>a, <1>5, SInvKeep DEF CommitFails, Return, Queue
<1>6. CASE \/ FinishSessionTurn \/ CommitAndDiff \/ ReadActiveTurn \/ ReadActiveRecord
           \/ CompleteActiveTurn \/ FinalizeRead \/ FinalizeWrite
  <2>1. rt' = rt /\ shown' = shown
    BY <1>6 DEF FinishSessionTurn, CommitAndDiff, ReadActiveTurn, ReadActiveRecord, CompleteActiveTurn,
       FinalizeRead, FinalizeWrite
  <2>2. Ending(proc[Lane]) /\ proc[Lane].pc # "idle"
    BY <1>6 DEF FinishSessionTurn, CommitAndDiff, ReadActiveTurn, ReadActiveRecord, CompleteActiveTurn,
       FinalizeRead, FinalizeWrite, At, Ending, Completing, Closing
  <2>3. proc'[Lane].turn = proc[Lane].turn
    BY <1>0, <1>6 DEF FinishSessionTurn, CommitAndDiff, ReadActiveTurn, ReadActiveRecord, CompleteActiveTurn,
       FinalizeRead, FinalizeWrite, Goto, Upsert, Frame
  <2> QED BY <2>1, <2>2, <2>3, SInvKeep DEF Queue
<1> QED BY <1>1, <1>2, <1>3, <1>4, <1>5, <1>6 DEF LaneStep

\* the agent and a crash,
LEMMA SInvRest ==
    ASSUME TInv, ParkedWait, SInv, [Next]_vars, Crash \/ \E t \in Turns : AgentStep(t)
    PROVE  SInv'
<1>0. shown \subseteq Turns /\ Queue \in Seq(Event) /\ agent \in [Turns -> AgentStates]
  BY QueueType DEF TInv, TypeOK, Queue
<1>1. CASE Crash
  <2>1. Queue' = <<>> BY <1>1 DEF Crash, NoRuntime, Queue, QueueOf
  <2>2. proc'[Lane].pc = "idle" BY <1>1 DEF Crash, Blank, Procs
  <2>3. shown' = shown /\ \A t \in shown : agent'[t] = "echoed"
    BY <1>0, <1>1 DEF Crash, SInv
  <2>4. ~(Ending(proc[Lane]))' BY <2>2 DEF Ending, Completing, Closing, Upserting
  <2> QED BY <2>1, <2>2, <2>3, <2>4 DEF SInv, Silent, LaneOn, At
<1>2. ASSUME NEW t \in Turns, AgentStep(t) PROVE SInv'
  <2>1. PICK k \in EventKinds :
          /\ Queue' = Append(Queue, [turn |-> t, kind |-> k])
          /\ agent[t] \in {"running", "spoke", "ended"}
          /\ \A u \in Turns \ {t} : agent'[u] = agent[u]
    BY <1>2, QueueOfAgent DEF SInv
  <2> DEFINE e == [turn |-> t, kind |-> k]
  <2>2. e \in Event /\ e.turn = t BY DEF Event
  <2> HIDE DEF e
  <2>3. Queue' = Append(Queue, e) BY <2>1 DEF e
  <2>4. /\ Len(Queue) \in Nat /\ Len(Queue') = Len(Queue) + 1 /\ Queue'[Len(Queue) + 1] = e
        /\ \A i \in 1..Len(Queue) : Queue'[i] = Queue[i]
    BY <1>0, <2>2, <2>3, AppendProperties, LenProperties
  <2>5. proc' = proc /\ shown' = shown BY <1>2 DEF AgentStep, Speak, EndTurn, EchoEnd
  <2>6. rt'.finished = rt.finished
    <3>1. \E d : rt' = OnNotification(rt, d) BY <1>2 DEF AgentStep, Speak, EndTurn, EchoEnd
    <3> QED BY <3>1 DEF OnNotification, TInv, TypeOK, Runtime
  <2>7. ASSUME NEW u \in shown, Silent(u) PROVE Silent(u)'
    <3>1. u # t /\ agent'[u] = "echoed" BY <1>0, <2>1, <2>7 DEF Silent
    <3>2. \A i \in 1..Len(Queue') : Queue'[i].turn # u BY <2>2, <2>4, <2>7, <3>1 DEF Silent
    <3> QED BY <2>5, <2>7, <3>1, <3>2 DEF Silent, LaneOn, At
  <2>8. (Ending(proc[Lane]))' <=> Ending(proc[Lane]) BY <2>5 DEF Ending, Completing, Closing
  <2> QED BY <1>0, <2>5, <2>6, <2>7, <2>8, AgentGrows DEF SInv, At
<1> QED BY <1>1, <1>2

\* and so every behaviour.
LEMMA Summed == Spec => []SInv
<1>1. Init => SInv
  BY DEF Init, SInv, At, Blank, Procs, Ending, Completing, Closing, Upserting
<1>2. TInv /\ ParkedWait /\ QInv /\ SInv /\ [Next]_vars => SInv'
  BY SInvOthers, SInvLane, SInvRest DEF Next
<1> QED BY <1>1, <1>2, Queued, PTL DEF Spec

\* However often the end of a turn is reported, late, early, in both kinds or around a
\* restart, its summary card with the buttons is routed at most once.
THEOREM SummarizedOnce == Spec => SummaryOnce
<1>1. SInv => (RouteSummary => proc[Lane].turn \notin shown)
  BY DEF SInv, RouteSummary, At, Ending, Closing
<1> QED BY <1>1, Summed, PTL DEF SummaryOnce

-----------------------------------------------------------------------------
(* A thread whose users wait for it, whose turns nobody interrupts and     *)
(* whose ends are reported once.  It may crash, its agent may abort turns  *)
(* and any call may fail.                                                  *)

Calm == Env \cap {"overlap", "interrupt", "echo"} = {}

\* The turns of the events under way, and those whose end is among them.
WaitingIn(q) == {q[i].turn : i \in 1..Len(q)}
EndedIn(q)   == {q[i].turn : i \in {j \in 1..Len(q) : q[j].kind # "delta"}}
Waiting      == WaitingIn(Queue)
Ended        == EndedIn(Queue)

\* Nothing of a turn comes behind its end.
Sealed(q) == \A i, j \in 1..Len(q) : i < j /\ q[i].turn = q[j].turn => q[i].kind = "delta"

\* What a frame is doing, besides Ensuring, Completing, Closing and Resolving.
Sending(f)  == f.pc \in {"start_status", "prepare", "starting", "restarting"}
Handling(f) == Ensuring(f) \/ f.pc = "handle"

ClientStage(f) == f.pc = "idle" \/ Sending(f) \/ Ensuring(f) \/ Resolving(f)
LaneStage(f)   == f.pc = "idle" \/ Handling(f) \/ Ending(f)

\* One client at a time is busy, unless all busy clients resolve finished turns.
Stages ==
    /\ \A c \in Clients : ClientStage(proc[c])
    /\ LaneStage(proc[Lane])
    /\ \A c, d \in Clients : c = d \/ At(c, "idle") \/ At(d, "idle")
                                   \/ (Resolving(proc[c]) /\ Resolving(proc[d]))

\* The turn is under way: its agent works, an event waits, the lane or its start is at it.
Under(t) ==
    \/ AgentRuns(t) \/ t \in Waiting \/ LaneOn(t)
    \/ \E c \in Clients : Ensuring(proc[c]) /\ proc[c].turn = t

\* One turn at a time is under way, and none while a user starts or resolves one.
Single ==
    /\ \A t, u \in Turns : Under(t) /\ Under(u) => t = u
    /\ (\E c \in Clients : Sending(proc[c]) \/ Resolving(proc[c])) => \A t \in Turns : ~Under(t)
    /\ \A t \in Turns : agent[t] = "unused" =>
         ~Under(t) /\ record[t] = "none" /\ t \notin rt.ensured \cup rt.finished

\* The lane handles the end of the turn; that end is still ahead.
LaneEnd(t) == Handling(proc[Lane]) /\ proc[Lane].turn = t /\ proc[Lane].kind # "delta"
Ahead(t)   == AgentRuns(t) \/ t \in Ended \/ LaneEnd(t)

\* The end of a turn is ahead until the lane finishes the turn, and is its last event.
Ends ==
    /\ Sealed(Queue)
    /\ \A t \in Turns :
        /\ t \in Waiting => Ahead(t) /\ ~LaneEnd(t)
        /\ t \in Ended \/ LaneEnd(t) => ~AgentRuns(t)
        /\ t \in rt.ensured => Ahead(t)
        /\ Ahead(t) => t \notin rt.finished
    /\ Handling(proc[Lane]) => proc[Lane].turn \in rt.ensured

Awaits(t)  == record[t] = "awaiting_approval"
Running(t) == record[t] = "running"
Row(t)     == ts.active = t /\ ts.blocking = t

\* The frame is about to mark its turn running.
Writing(f)   == f.pc \in Upserting /\ f.then = "ensured"
Writes(p, t) == Writing(proc[p]) /\ proc[p].turn = t

\* The turn that awaits a decision blocks the thread, and no other is under way.
Blocked ==
    /\ \A t \in Turns : Awaits(t) => ts.blocking = t
    /\ \A t, u \in Turns : Under(t) /\ Awaits(u) => t = u

\* What a user's frame knows of the turn that awaits a decision, by the records and the row.
ClientRow(f, rec, row) ==
    /\ f.pc \in {"prepare", "starting", "restarting"} => \A t \in Turns : rec[t] # "awaiting_approval"
    /\ f.pc = "start_status" => f.target = row.blocking
    /\ f.pc \in {"acc_state", "rev_state"} => rec[f.turn] # "awaiting_approval"
    /\ Resolving(f) => \A t \in Turns : rec[t] = "awaiting_approval" =>
         /\ f.pc \in Upserting => f.patch.blocking = Keep
         /\ f.pc = "upsert_write" => f.seen.blocking = t

\* A frame that marks its turn running has a record to mark.
WriterRow(f, rec) == Writing(f) => rec[f.turn] # "none" /\ f.patch = MarkTurnRunning(f.turn)

\* What the lane knows of the turn it is at.
LaneRow(f, rec, row) ==
    /\ f.pc = "ensured" \/ Completing(f) => rec[f.turn] = "running" /\ row.active = f.turn /\ row.blocking = f.turn
    /\ f.pc \in {"complete_record", "complete_write"} => f.target = f.turn
    /\ f.pc \in Upserting /\ f.then = "final_read" =>
         f.patch.blocking = f.turn \/ (f.patch.blocking = NoTurn /\ rec[f.turn] # "awaiting_approval")
    /\ f.pc = "final_write" => f.status = rec[f.turn]

\* A turn whose end is ahead has no record yet, or runs and is named by the row or about to be.
Opened ==
    /\ \A t \in Turns : Ahead(t) => record[t] = "none" \/ (Running(t) /\ (Row(t) \/ \E p \in Procs : Writes(p, t)))
    /\ \A t \in rt.ensured : Ensuring(proc[Lane]) \/ (Running(t) /\ Row(t))

Rows ==
    /\ Blocked
    /\ Opened
    /\ \A c \in Clients : ClientRow(proc[c], record, ts)
    /\ \A p \in Procs : WriterRow(proc[p], record)
    /\ LaneRow(proc[Lane], record, ts)

\* What holds of every thread, and of a calm one.
Base == TInv /\ RInv /\ ParkedWait /\ QInv /\ SInv
CInv == Stages /\ Single /\ Ends /\ Rows

\* What a frame is doing after a step.
LEMMA Primes ==
    \A p \in Procs :
        /\ (Ensuring(proc[p]))' <=> Ensuring(proc'[p])
        /\ (Sending(proc[p]))' <=> Sending(proc'[p])
        /\ (Resolving(proc[p]))' <=> Resolving(proc'[p])
        /\ (Handling(proc[p]))' <=> Handling(proc'[p])
        /\ (Completing(proc[p]))' <=> Completing(proc'[p])
        /\ (Ending(proc[p]))' <=> Ending(proc'[p])
        /\ (Writing(proc[p]))' <=> Writing(proc'[p])
        /\ (ClientStage(proc[p]))' <=> ClientStage(proc'[p])
        /\ (LaneStage(proc[p]))' <=> LaneStage(proc'[p])
        /\ (At(p, "idle"))' <=> proc'[p].pc = "idle"
  BY DEF Ensuring, Sending, Resolving, Handling, Completing, Closing, Ending, Writing, ClientStage, LaneStage, At

\* A frame does one thing at a time.
LEMMA Apart ==
    \A f :
        /\ f.pc = "idle" => ~(Sending(f) \/ Ensuring(f) \/ Resolving(f) \/ Handling(f) \/ Ending(f))
        /\ Sending(f) => ~(Ensuring(f) \/ Resolving(f) \/ Handling(f) \/ Ending(f))
        /\ Ensuring(f) => ~Resolving(f) /\ ~Ending(f) /\ Handling(f)
        /\ Resolving(f) => ~Handling(f) /\ ~Ending(f)
        /\ Handling(f) => ~Ending(f)
        /\ Writing(f) => Ensuring(f)
        /\ Completing(f) => Ending(f)
  BY DEF Ensuring, Sending, Resolving, Handling, Completing, Closing, Ending, Writing, Upserting

\* The frame of a process that returned is idle.
LEMMA BlankIdle == Blank.pc = "idle"
  BY DEF Blank

-----------------------------------------------------------------------------
(* What the steps do to the events under way, to frames and to turns. *)

\* A queue without its first event.
LEMMA TailSets ==
    ASSUME NEW q \in Seq(Event), q # <<>>, Sealed(q)
    PROVE  /\ Sealed(Tail(q))
           /\ WaitingIn(q) = WaitingIn(Tail(q)) \cup {q[1].turn}
           /\ EndedIn(Tail(q)) \subseteq EndedIn(q)
           /\ EndedIn(q) \subseteq EndedIn(Tail(q)) \cup {q[1].turn}
           /\ q[1].kind = "delta" => EndedIn(Tail(q)) = EndedIn(q)
           /\ q[1].kind # "delta" => q[1].turn \in EndedIn(q) /\ q[1].turn \notin WaitingIn(Tail(q))
<1> DEFINE p == Tail(q)
<1>1. /\ Len(q) \in Nat /\ Len(q) # 0 /\ Len(p) = Len(q) - 1
      /\ \A i \in 1..Len(p) : p[i] = q[i + 1]
  BY HeadTailProperties, LenProperties, EmptySeq
<1> HIDE DEF p
<1>2. \A i \in 1..Len(p) : i + 1 \in 1..Len(q) /\ i + 1 # 1 BY <1>1
<1>3. \A i \in 1..Len(q) : i = 1 \/ (i - 1 \in 1..Len(p) /\ p[i - 1] = q[i])
  <2> SUFFICES ASSUME NEW i \in 1..Len(q), i # 1 PROVE i - 1 \in 1..Len(p) /\ p[i - 1] = q[i]
    OBVIOUS
  <2>1. i - 1 \in 1..Len(p) /\ (i - 1) + 1 = i BY <1>1
  <2> QED BY <1>1, <2>1
<1>4. Sealed(p) BY <1>1, <1>2 DEF Sealed
<1>5. 1 \in 1..Len(q) BY <1>1
<1>6. WaitingIn(q) = WaitingIn(p) \cup {q[1].turn}
  BY <1>1, <1>2, <1>3, <1>5 DEF WaitingIn
<1>7. EndedIn(p) \subseteq EndedIn(q) BY <1>1, <1>2 DEF EndedIn
<1>8. ASSUME NEW t \in EndedIn(q) PROVE t \in EndedIn(p) \/ (t = q[1].turn /\ q[1].kind # "delta")
  <2>1. PICK i \in 1..Len(q) : q[i].kind # "delta" /\ t = q[i].turn BY DEF EndedIn
  <2> QED BY <1>3, <2>1 DEF EndedIn
<1>9. ASSUME q[1].kind # "delta" PROVE q[1].turn \in EndedIn(q) /\ q[1].turn \notin WaitingIn(p)
  <2>1. q[1].turn \in EndedIn(q) BY <1>5, <1>9 DEF EndedIn
  <2>2. ASSUME NEW i \in 1..Len(p), p[i].turn = q[1].turn PROVE FALSE
    <3>1. 1 < i + 1 /\ i + 1 \in 1..Len(q) /\ q[i + 1].turn = q[1].turn BY <1>1, <1>2, <2>2
    <3> QED BY <1>5, <1>9, <3>1 DEF Sealed
  <2> QED BY <2>1, <2>2 DEF WaitingIn
<1> QED BY <1>4, <1>6, <1>7, <1>8, <1>9 DEF p

\* A queue that an event joined.
LEMMA AppendSets ==
    ASSUME NEW q \in Seq(Event), NEW e \in Event, Sealed(q), e.turn \notin EndedIn(q)
    PROVE  /\ Sealed(Append(q, e))
           /\ WaitingIn(Append(q, e)) = WaitingIn(q) \cup {e.turn}
           /\ EndedIn(Append(q, e)) = EndedIn(q) \cup (IF e.kind = "delta" THEN {} ELSE {e.turn})
<1> DEFINE a == Append(q, e)
<1>1. /\ Len(q) \in Nat /\ Len(a) = Len(q) + 1 /\ a[Len(q) + 1] = e
      /\ \A i \in 1..Len(q) : a[i] = q[i]
  BY AppendProperties, LenProperties
<1> HIDE DEF a
<1>2. \A i \in 1..Len(a) : i \in 1..Len(q) \/ i = Len(q) + 1 BY <1>1
<1>3. \A i \in 1..Len(q) : i \in 1..Len(a) BY <1>1
<1>4. Len(q) + 1 \in 1..Len(a) BY <1>1
<1>5. Sealed(a)
  <2> SUFFICES ASSUME NEW i \in 1..Len(a), NEW j \in 1..Len(a), i < j, a[i].turn = a[j].turn
               PROVE  a[i].kind = "delta"
    BY DEF Sealed
  <2>1. i \in 1..Len(q) /\ a[i] = q[i] BY <1>1, <1>2
  <2>2. CASE j \in 1..Len(q) BY <1>1, <2>1, <2>2 DEF Sealed
  <2>3. CASE j = Len(q) + 1 BY <1>1, <2>1, <2>3 DEF EndedIn
  <2> QED BY <1>2, <2>2, <2>3
<1>6. WaitingIn(a) = WaitingIn(q) \cup {e.turn} BY <1>1, <1>2, <1>3, <1>4 DEF WaitingIn
<1>7. EndedIn(a) = EndedIn(q) \cup (IF e.kind = "delta" THEN {} ELSE {e.turn})
  <2>1. ASSUME NEW t \in EndedIn(a) PROVE t \in EndedIn(q) \/ (t = e.turn /\ e.kind # "delta")
    <3>1. PICK i \in 1..Len(a) : a[i].kind # "delta" /\ t = a[i].turn BY DEF EndedIn
    <3> QED BY <1>1, <1>2, <3>1 DEF EndedIn
  <2>2. EndedIn(q) \subseteq EndedIn(a) BY <1>1, <1>3 DEF EndedIn
  <2>3. e.kind # "delta" => e.turn \in EndedIn(a) BY <1>1, <1>4 DEF EndedIn
  <2> QED BY <2>1, <2>2, <2>3
<1> QED BY <1>5, <1>6, <1>7 DEF a

\* A turn with an end under way has an event under way.
LEMMA EndedWaits == Ended \subseteq Waiting
  BY DEF Ended, Waiting, EndedIn, WaitingIn

\* Clients' steps leave the events, the lane and what it did to turns as they are.
LEMMA ClientEffect ==
    ASSUME TInv, NEW c \in Clients, UserStep(c) \/ StartStep(c) \/ CommandStep(c) \/ EnsureStep(c)
    PROVE  /\ Queue' = Queue /\ Waiting' = Waiting /\ Ended' = Ended
           /\ rt'.ensured = rt.ensured /\ rt'.finished = rt.finished /\ shown' = shown
           /\ \A p \in Procs \ {c} : proc'[p] = proc[p]
           /\ proc'[Lane] = proc[Lane]
<1>0. rt \in Runtime /\ c \in Procs /\ Lane \in Procs /\ c # Lane
  BY ConstantsAssumption DEF TInv, TypeOK, Procs
<1> USE DEF outside
<1>1. CASE UserStep(c) \/ StartStep(c)
  <2>1. rt'.ensured = rt.ensured /\ rt'.finished = rt.finished /\ shown' = shown
    BY <1>0, <1>1 DEF UserStep, SendText, Interrupt, AcceptTurn, RevertTurn, StartStep, CheckPendingApproval,
       PrepareTurn, ResumeThread, StartFails, TurnStart, Runtime
  <2> QED BY <1>0, <1>1, <2>1, QueueOfCommands, OtherFrames DEF Waiting, Ended
<1>2. CASE CommandStep(c)
  <2>1. rt'.ensured = rt.ensured /\ rt'.finished = rt.finished /\ shown' = shown
    BY <1>0, <1>2 DEF CommandStep, InterruptTurn, TurnInterrupt, WriteInterrupted, MarkTurnInterrupting,
       WriteAccepted, ReleaseBlocking, WriteReverted, ReleaseReferences, CommandFails, Runtime
  <2> QED BY <1>0, <1>2, <2>1, QueueOfCommands, OtherFrames DEF Waiting, Ended
<1>3. CASE EnsureStep(c)
  <2>1. rt'.ensured = rt.ensured /\ rt'.finished = rt.finished /\ shown' = shown
    BY <1>0, <1>3 DEF EnsureStep, EnsureEnter, EnsureRead, CreateTurnStart, EnsureJoined, EnsureDone,
       EnsureFails, UpsertRead, UpsertWrite, Proceed, ActivateTurn, Runtime
  <2> QED BY <1>0, <1>3, <2>1, QueueOfCommands, OtherFrames DEF Waiting, Ended
<1> QED BY <1>1, <1>2, <1>3

\* On a calm thread the only commands are those that resolve a turn.
LEMMA CalmCommands ==
    ASSUME TInv, Calm, Stages, NEW c \in Clients, CommandStep(c)
    PROVE  /\ Resolving(proc[c])
           /\ \/ WriteAccepted(c) \/ WriteReverted(c) \/ ReleaseBlocking(c) \/ ReleaseReferences(c)
              \/ CommandFails(c) /\ At(c, "rev_write")
<1>1. ClientStage(proc[c]) BY DEF Stages
<1> QED BY <1>1 DEF CommandStep, InterruptTurn, TurnInterrupt, WriteInterrupted, MarkTurnInterrupting,
       WriteAccepted, ReleaseBlocking, WriteReverted, ReleaseReferences, CommandFails, At,
       ClientStage, Sending, Ensuring, Resolving, Upserting

\* The frame of a client after one of its steps: where it may go from where.
LEMMA ClientMoves ==
    ASSUME TInv, Calm, Stages, NEW c \in Clients, UserStep(c) \/ StartStep(c) \/ CommandStep(c) \/ EnsureStep(c)
    PROVE  LET f == proc[c]
               g == proc'[c]
           IN  /\ f.pc = "idle" => UserStep(c) /\ (Sending(g) \/ Resolving(g) \/ g.pc = "idle")
               /\ Sending(f) => StartStep(c) /\ (g.pc = "idle" \/ Sending(g) \/ TurnStart(c))
               /\ Ensuring(f) => EnsureStep(c) /\ (g.pc = "idle" \/ (Ensuring(g) /\ g.turn = f.turn))
               /\ Resolving(f) => (CommandStep(c) \/ UpsertRead(c) \/ UpsertWrite(c)) /\ (g.pc = "idle" \/ Resolving(g))
<1> DEFINE f == proc[c]
           g == proc'[c]
<1>0. proc \in [Procs -> Frame] /\ c \in Procs /\ f \in Frame /\ c # Lane /\ FrameOK(f)
  BY ConstantsAssumption DEF TInv, TypeOK, FramesOK, Procs
<1>1. CASE UserStep(c)
  <2>1. f.pc = "idle"
    BY <1>1 DEF UserStep, SendText, Interrupt, AcceptTurn, RevertTurn, At
  <2>2. Sending(g) \/ Resolving(g) \/ g.pc = "idle"
    BY <1>0, <1>1, BlankIdle DEF Calm, UserStep, SendText, Interrupt, AcceptTurn, RevertTurn, EnsureCanStartTurn,
       FailStart, Return, Goto, Frame, Sending, Resolving
  <2> QED BY <1>1, <2>1, <2>2, Apart
<1>2. CASE StartStep(c)
  <2>1. Sending(f)
    BY <1>2 DEF StartStep, CheckPendingApproval, PrepareTurn, ResumeThread, StartFails, TurnStart, At, Sending
  <2>2. Sending(g) \/ g.pc = "idle" \/ TurnStart(c)
    BY <1>0, <1>2, BlankIdle DEF StartStep, CheckPendingApproval, PrepareTurn, ResumeThread, StartFails,
       EnsureCanStartTurn, FailStart, Return, Goto, Frame, Sending
  <2> QED BY <1>2, <2>1, <2>2, Apart
<1>3. CASE CommandStep(c)
  <2>1. Resolving(f) BY <1>3, CalmCommands
  <2>2. Resolving(g) \/ g.pc = "idle"
    <3>1. CASE WriteAccepted(c) \/ WriteReverted(c)
      BY <1>0, <3>1 DEF WriteAccepted, WriteReverted, Goto, Frame, Resolving
    <3>2. CASE ReleaseBlocking(c) \/ ReleaseReferences(c)
      BY <1>0, <3>2, BlankIdle DEF ReleaseBlocking, ReleaseReferences, Return, Upsert, Frame, Resolving
    <3>3. CASE CommandFails(c) BY <1>0, <3>3, BlankIdle DEF CommandFails, Return
    <3> QED BY <1>3, <3>1, <3>2, <3>3, CalmCommands
  <2> QED BY <1>3, <2>1, <2>2, Apart
<1>4. CASE EnsureStep(c)
  <2>0. ClientStage(f) BY DEF Stages
  <2>1. CASE UpsertRead(c)
    <3>1. f.pc = "upsert_read" /\ g.pc = "upsert_write" /\ g.then = f.then /\ g.turn = f.turn
      BY <1>0, <2>1 DEF UpsertRead, At, Frame
    <3> QED BY <1>4, <2>0, <2>1, <3>1, Apart DEF ClientStage, Sending, Ensuring, Resolving, Upserting
  <2>2. CASE UpsertWrite(c)
    <3>1. f.pc = "upsert_write" BY <2>2 DEF UpsertWrite, At
    <3>2. f.then \in {"ensured", "idle"} BY <2>0, <3>1 DEF ClientStage, Sending, Ensuring, Resolving
    <3>3. g.pc = IF f.then = "idle" THEN "idle" ELSE "ensured"
      BY <1>0, <2>2, <3>2, BlankIdle DEF UpsertWrite, Goto, Return, Frame
    <3>4. f.then = "ensured" => g.turn = f.turn BY <1>0, <2>2 DEF UpsertWrite, Goto, Frame
    <3> QED BY <1>4, <2>2, <3>1, <3>2, <3>3, <3>4 DEF Sending, Ensuring, Resolving, Upserting
  <2>3. CASE EnsureEnter(c) \/ EnsureRead(c) \/ CreateTurnStart(c)
    <3>1. Ensuring(f) /\ Ensuring(g) /\ g.turn = f.turn
      BY <1>0, <2>3 DEF EnsureEnter, EnsureRead, CreateTurnStart, At, Goto, Upsert, Frame, Ensuring, Upserting
    <3> QED BY <1>4, <3>1, Apart
  <2>4. CASE EnsureJoined(c) \/ EnsureDone(c) \/ EnsureFails(c)
    <3>1. Ensuring(f) BY <2>4 DEF EnsureJoined, EnsureDone, EnsureFails, At, Ensuring
    <3>2. g.pc = "idle"
      BY <1>0, <2>4, BlankIdle DEF EnsureJoined, EnsureDone, EnsureFails, Proceed, FailStart, Return
    <3> QED BY <1>4, <3>1, <3>2, Apart
  <2> QED BY <1>4, <2>1, <2>2, <2>3, <2>4 DEF EnsureStep
<1> QED BY <1>1, <1>2, <1>3, <1>4

\* The lane after one of its steps in ensureTurnStarted or in a read-modify-write,
LEMMA LaneEnsureMoves ==
    ASSUME TInv, Stages, EnsureStep(Lane)
    PROVE  LET f == proc[Lane]
               g == proc'[Lane]
           IN  /\ Ensuring(f) => \/ g.pc = "idle" /\ EnsureFails(Lane)
                                 \/ Handling(g) /\ g.turn = f.turn /\ g.kind = f.kind
               /\ ~Ensuring(f) => Closing(f) /\ Closing(g) /\ g.turn = f.turn /\ g.kind = f.kind
                                  /\ (UpsertRead(Lane) \/ UpsertWrite(Lane))
               /\ ~EnsureFails(Lane) => rt' = rt
<1> DEFINE f == proc[Lane]
           g == proc'[Lane]
<1>0. proc \in [Procs -> Frame] /\ Lane \in Procs /\ f \in Frame /\ LaneStage(f)
  BY DEF TInv, TypeOK, Procs, Stages
<1>1. CASE EnsureEnter(Lane) \/ EnsureRead(Lane) \/ CreateTurnStart(Lane)
  BY <1>0, <1>1 DEF EnsureEnter, EnsureRead, CreateTurnStart, At, Goto, Upsert, Frame, Ensuring, Handling, Upserting
<1>2. CASE EnsureJoined(Lane) \/ EnsureDone(Lane)
  BY <1>0, <1>2 DEF EnsureJoined, EnsureDone, Proceed, At, Goto, Frame, Ensuring, Handling
<1>3. CASE EnsureFails(Lane)
  BY <1>0, <1>3, BlankIdle, ConstantsAssumption DEF EnsureFails, At, Return, Ensuring
<1>4. CASE UpsertRead(Lane)
  BY <1>0, <1>4 DEF UpsertRead, At, Frame, Ensuring, Handling, Ending, Completing, Closing, Upserting, LaneStage
<1>5. CASE UpsertWrite(Lane)
  <2>1. f.pc = "upsert_write" BY <1>5 DEF UpsertWrite, At
  <2>2. f.then \in {"ensured", "final_read"}
    BY <1>0, <2>1 DEF LaneStage, Ensuring, Handling, Ending, Completing, Closing
  <2>3. g.pc = f.then /\ g.turn = f.turn /\ g.kind = f.kind /\ rt' = rt
    BY <1>0, <1>5, <2>2 DEF UpsertWrite, Goto, Frame
  <2> QED BY <1>5, <2>1, <2>2, <2>3 DEF Ensuring, Handling, Closing, Upserting
<1> QED BY <1>1, <1>2, <1>3, <1>4, <1>5 DEF EnsureStep

\* and after one of its own steps.
LEMMA LaneMoves ==
    ASSUME TInv, Stages, LaneStep
    PROVE  LET f == proc[Lane]
               g == proc'[Lane]
           IN  /\ TakeEvent => f.pc = "idle" /\ (g = f \/ (Handling(g) /\ g.turn = Head(rt.lane).turn
                                                          /\ g.kind = Head(rt.lane).kind))
               /\ HandleEvent => f.pc = "handle" /\ (g.pc = "idle" \/ (Ending(g) /\ g.turn = f.turn))
               /\ ~TakeEvent /\ ~HandleEvent =>
                    Ending(f) /\ (g.pc = "idle" \/ (Ending(g) /\ g.turn = f.turn))
                    /\ rt'.ensured = rt.ensured /\ rt'.finished = rt.finished
<1> DEFINE f == proc[Lane]
           g == proc'[Lane]
<1>0. proc \in [Procs -> Frame] /\ Lane \in Procs /\ f \in Frame /\ rt \in Runtime
  BY DEF TInv, TypeOK, Procs
<1>1. CASE TakeEvent
  <2>1. f.pc = "idle" BY <1>1 DEF TakeEvent, At
  <2> DEFINE e == Head(rt.lane)
  <2>2. \/ UNCHANGED proc
        \/ \E pc \in {"ensure", "handle"} :
             proc' = [proc EXCEPT ![Lane].turn = e.turn, ![Lane].kind = e.kind, ![Lane].pc = pc]
    BY <1>1 DEF TakeEvent
  <2> HIDE DEF e
  <2>3. g = f \/ (g.pc \in {"ensure", "handle"} /\ g.turn = e.turn /\ g.kind = e.kind) BY <1>0, <2>2 DEF Frame
  <2>4. g = f \/ (Handling(g) /\ g.turn = e.turn /\ g.kind = e.kind) BY <2>3 DEF Handling, Ensuring
  <2>5. ~HandleEvent BY <2>1 DEF HandleEvent, At
  <2> QED BY <1>1, <2>1, <2>4, <2>5 DEF e
<1>2. CASE HandleEvent
  <2>1. f.pc = "handle" BY <1>2 DEF HandleEvent, At
  <2>2. g.pc = "idle" \/ (g.pc \in {"finish", "final_read"} /\ g.turn = f.turn)
    BY <1>0, <1>2, BlankIdle DEF HandleEvent, Return, Goto, Frame
  <2>3. ~TakeEvent BY <2>1 DEF TakeEvent, At
  <2> QED BY <1>2, <2>1, <2>2, <2>3 DEF Ending, Completing, Closing
<1>3. CASE RouteSummary \/ TurnAborted \/ CommitFails
  <2>1. Ending(f) /\ g.pc = "idle" /\ ~TakeEvent /\ ~HandleEvent
    BY <1>0, <1>3, BlankIdle DEF RouteSummary, TurnAborted, CommitFails, TakeEvent, HandleEvent, At, Return,
       Ending, Completing, Closing
  <2>2. rt'.ensured = rt.ensured /\ rt'.finished = rt.finished
    BY <1>0, <1>3 DEF RouteSummary, TurnAborted, CommitFails, ForgetTurn, Runtime
  <2> QED BY <2>1, <2>2
<1>4. CASE \/ FinishSessionTurn \/ CommitAndDiff \/ ReadActiveTurn \/ ReadActiveRecord
           \/ CompleteActiveTurn \/ FinalizeRead \/ FinalizeWrite
  <2>1. Ending(f) /\ ~TakeEvent /\ ~HandleEvent /\ rt' = rt
    BY <1>4 DEF FinishSessionTurn, CommitAndDiff, ReadActiveTurn, ReadActiveRecord, CompleteActiveTurn,
       FinalizeRead, FinalizeWrite, TakeEvent, HandleEvent, At, Ending, Completing, Closing
  <2>2. Ending(g) /\ g.turn = f.turn
    <3>1. CASE FinishSessionTurn \/ FinalizeWrite
      BY <1>0, <3>1 DEF FinishSessionTurn, FinalizeWrite, Goto, Frame, Ending, Completing, Closing
    <3>2. CASE CommitAndDiff \/ ReadActiveTurn \/ FinalizeRead
      BY <1>0, <3>2 DEF CommitAndDiff, ReadActiveTurn, FinalizeRead, Goto, Frame, Ending, Completing, Closing
    <3>3. CASE ReadActiveRecord \/ CompleteActiveTurn
      BY <1>0, <3>3 DEF ReadActiveRecord, CompleteActiveTurn, Goto, Upsert, Frame, Ending, Completing, Closing, Upserting
    <3> QED BY <1>4, <3>1, <3>2, <3>3
  <2> QED BY <2>1, <2>2
<1> QED BY <1>1, <1>2, <1>3, <1>4 DEF LaneStep

-----------------------------------------------------------------------------
(* Stages: one user's command at a time. *)

\* A client that is admitted finds every other idle, or resolving like itself.
LEMMA Admitted ==
    ASSUME Calm, NEW c \in Clients, UserStep(c)
    PROVE  /\ At(c, "idle") /\ Quiet
           /\ SendText(c) => \A d \in Clients : At(d, "idle")
           /\ ~SendText(c) => (AcceptTurn(c) \/ RevertTurn(c))
                              /\ \A d \in Clients : At(d, "idle") \/ Resolving(proc[d])
  BY DEF Calm, UserStep, SendText, Interrupt, AcceptTurn, RevertTurn, MaySend, Settled, MayResolve

\* Steps of clients keep the stages,
LEMMA StagesClient ==
    ASSUME TInv, Calm, Stages, NEW c \in Clients, UserStep(c) \/ StartStep(c) \/ CommandStep(c) \/ EnsureStep(c)
    PROVE  Stages'
<1> DEFINE f == proc[c]
           g == proc'[c]
<1>0. c \in Procs /\ Lane \in Procs /\ Clients \subseteq Procs BY DEF Procs
<1>1. \A d \in Clients : d # c => proc'[d] = proc[d] BY <1>0, ClientEffect
<1>2. proc'[Lane] = proc[Lane] BY ClientEffect
<1>3. ClientStage(f) BY DEF Stages
<1>4. ClientStage(g)
  <2>1. CASE TurnStart(c)
    <3>1. g.pc = "ensure" BY <1>0, <2>1 DEF TurnStart, TInv, TypeOK, Frame
    <3> QED BY <3>1 DEF ClientStage, Ensuring
  <2>2. CASE ~TurnStart(c) BY <1>3, <2>2, ClientMoves DEF ClientStage
  <2> QED BY <2>1, <2>2
<1>5. ASSUME NEW d \in Clients, d # c
      PROVE  g.pc = "idle" \/ proc[d].pc = "idle" \/ (Resolving(g) /\ Resolving(proc[d]))
  <2>1. CASE f.pc = "idle"
    <3>1. UserStep(c) BY <2>1, ClientMoves
    <3>2. CASE SendText(c) BY <3>1, <3>2, Admitted DEF At
    <3>3. CASE AcceptTurn(c) \/ RevertTurn(c)
      <4>1. g.pc \in {"acc_write", "rev_write"}
        BY <1>0, <3>3 DEF AcceptTurn, RevertTurn, TInv, TypeOK, Frame
      <4>2. Resolving(g) BY <4>1 DEF Resolving
      <4>3. ~SendText(c) \/ \A e \in Clients : At(e, "idle") BY <3>1, Admitted
      <4> QED BY <3>1, <4>2, <4>3, Admitted DEF At
    <3> QED BY <3>1, <3>2, <3>3, Admitted
  <2>2. CASE f.pc # "idle"
    <3>1. proc[d].pc = "idle" \/ (Resolving(f) /\ Resolving(proc[d])) BY <1>5, <2>2 DEF Stages, At
    <3> QED BY <3>1, ClientMoves
  <2> QED BY <2>1, <2>2
<1>6. \A d, e \in Clients : d = e \/ proc'[d].pc = "idle" \/ proc'[e].pc = "idle"
                                  \/ (Resolving(proc'[d]) /\ Resolving(proc'[e]))
  BY <1>1, <1>5 DEF Stages, At
<1>7. \A d \in Clients : ClientStage(proc'[d]) BY <1>1, <1>4 DEF Stages
<1>8. LaneStage(proc'[Lane]) BY <1>2 DEF Stages
<1> HIDE DEF f, g
<1> QED BY <1>0, <1>6, <1>7, <1>8, Primes DEF Stages

\* as do all others.
LEMMA StagesNext ==
    ASSUME TInv, Calm, Stages, [Next]_vars
    PROVE  Stages'
<1>0. Lane \in Procs /\ Clients \subseteq Procs /\ Lane \notin Clients BY ConstantsAssumption DEF Procs
<1>1. ASSUME NEW p \in Procs, EnsureStep(p) PROVE Stages'
  <2>1. CASE p \in Clients BY <1>1, <2>1, StagesClient
  <2>2. CASE p = Lane
    <3>1. \A c \in Clients : proc'[c] = proc[c] BY <1>0, <1>1, <2>2, OtherFrames
    <3>2. LaneStage(proc'[Lane]) BY <1>1, <2>2, LaneEnsureMoves DEF LaneStage, Ending
    <3>3. \A c, d \in Clients : c = d \/ proc'[c].pc = "idle" \/ proc'[d].pc = "idle"
                                  \/ (Resolving(proc'[c]) /\ Resolving(proc'[d]))
      BY <3>1 DEF Stages, At
    <3>4. \A c \in Clients : ClientStage(proc'[c]) BY <3>1 DEF Stages
    <3> QED BY <1>0, <3>2, <3>3, <3>4, Primes DEF Stages
  <2> QED BY <2>1, <2>2 DEF Procs
<1>2. CASE LaneStep
  <2>1. \A c \in Clients : proc'[c] = proc[c] BY <1>0, <1>2, OtherFrames
  <2>2. LaneStage(proc'[Lane]) BY <1>2, LaneMoves DEF LaneStage, Stages
  <2>3. \A c, d \in Clients : c = d \/ proc'[c].pc = "idle" \/ proc'[d].pc = "idle"
                                  \/ (Resolving(proc'[c]) /\ Resolving(proc'[d]))
    BY <2>1 DEF Stages, At
  <2>4. \A c \in Clients : ClientStage(proc'[c]) BY <2>1 DEF Stages
  <2> QED BY <1>0, <2>2, <2>3, <2>4, Primes DEF Stages
<1>3. CASE Crash
  <2>1. \A p \in Procs : proc'[p].pc = "idle" BY <1>3, BlankIdle DEF Crash
  <2> QED BY <1>0, <2>1, Primes DEF Stages, ClientStage, LaneStage
<1>4. CASE UNCHANGED proc BY <1>0, <1>4, Primes DEF Stages, At
<1>5. InterruptTimeout \/ UNCHANGED vars \/ (\E t \in Turns : AgentStep(t)) => UNCHANGED proc
  BY DEF InterruptTimeout, vars, AgentStep, Speak, EndTurn, EchoEnd
<1> QED BY <1>1, <1>2, <1>3, <1>4, <1>5, StagesClient DEF Next

-----------------------------------------------------------------------------
(* Single: one turn under way at a time. *)

\* Nothing is under way on a thread that admits a command.
LEMMA QuietNone ==
    ASSUME TInv, Quiet, \A c \in Clients : ~Ensuring(proc[c])
    PROVE  \A t \in Turns : ~Under(t)
<1>1. Queue = <<>> BY DEF Quiet, LaneQuiet, Queue, QueueOf
<1>2. Waiting = {} BY <1>1 DEF Waiting, WaitingIn
<1> QED BY <1>2 DEF Under, Quiet, LaneQuiet, LaneOn

\* The effect of taking an event.
LEMMA TakeEffect ==
    ASSUME TInv, Sealed(Queue), TakeEvent
    PROVE  LET e == Head(rt.lane) IN
           /\ e \in Event /\ e.turn \in Turns /\ e.kind \in EventKinds
           /\ Sealed(Queue')
           /\ Waiting = Waiting' \cup {e.turn}
           /\ Ended' \subseteq Ended /\ Ended \subseteq Ended' \cup {e.turn}
           /\ e.kind = "delta" => Ended' = Ended
           /\ e.kind # "delta" => e.turn \in Ended /\ e.turn \notin Waiting'
           /\ rt'.finished = rt.finished
           /\ \/ proc' = proc /\ rt'.ensured = rt.ensured /\ e.kind = "delta"
              \/ /\ proc'[Lane].turn = e.turn /\ proc'[Lane].kind = e.kind
                 /\ rt'.ensured = rt.ensured \cup {e.turn}
                 /\ proc'[Lane].pc = IF e.turn \in rt.ensured THEN "handle" ELSE "ensure"
<1> DEFINE e == Head(rt.lane)
           q == [rt EXCEPT !.lane = Tail(@)]
           r == ResolveTurnRoute(q, e.turn)
<1>0. rt \in Runtime /\ proc \in [Procs -> Frame] /\ Lane \in Procs BY DEF TInv, TypeOK, Procs
<1>1. Queue \in Seq(Event) /\ Queue # <<>> /\ Queue' = Tail(Queue) /\ Queue[1] = e /\ e \in Event
  BY QueueOfTake
<1>2. e.turn \in Turns /\ e.kind \in EventKinds BY <1>1 DEF Event
<1>3. rt.lane \in Seq(Event) /\ rt.lane # <<>> BY <1>0 DEF TakeEvent, Runtime
<1>a. Tail(rt.lane) \in Seq(Event) BY <1>3
<1>4. q \in Runtime /\ q.finished = rt.finished /\ q.ensured = rt.ensured BY <1>0, <1>a DEF Runtime
<1>5. r \in Runtime /\ r.finished = rt.finished /\ r.ensured = rt.ensured
  BY <1>2, <1>4, RouteType DEF ResolveTurnRoute, ActivateTurn, Runtime
<1>6. \/ rt' = r /\ proc' = proc /\ e.kind = "delta"
      \/ /\ rt' = [r EXCEPT !.ensured = @ \cup {e.turn}]
         /\ proc' = [proc EXCEPT ![Lane].turn = e.turn, ![Lane].kind = e.kind,
                                 ![Lane].pc = IF e.turn \in r.ensured THEN "handle" ELSE "ensure"]
  BY DEF TakeEvent, IsTurnSuppressed
<1> HIDE DEF e, q, r
<1>7. /\ rt'.finished = rt.finished
      /\ \/ proc' = proc /\ rt'.ensured = rt.ensured /\ e.kind = "delta"
         \/ /\ proc'[Lane].turn = e.turn /\ proc'[Lane].kind = e.kind
            /\ rt'.ensured = rt.ensured \cup {e.turn}
            /\ proc'[Lane].pc = IF e.turn \in rt.ensured THEN "handle" ELSE "ensure"
  <2>1. CASE rt' = r /\ proc' = proc /\ e.kind = "delta" BY <1>5, <2>1
  <2>2. CASE /\ rt' = [r EXCEPT !.ensured = @ \cup {e.turn}]
             /\ proc' = [proc EXCEPT ![Lane].turn = e.turn, ![Lane].kind = e.kind,
                                     ![Lane].pc = IF e.turn \in r.ensured THEN "handle" ELSE "ensure"]
    <3>1. rt'.finished = rt.finished /\ rt'.ensured = rt.ensured \cup {e.turn}
      BY <1>5, <2>2 DEF Runtime
    <3>2. /\ proc'[Lane].turn = e.turn /\ proc'[Lane].kind = e.kind
          /\ proc'[Lane].pc = IF e.turn \in rt.ensured THEN "handle" ELSE "ensure"
      BY <1>0, <1>5, <2>2 DEF Frame
    <3> QED BY <3>1, <3>2
  <2> QED BY <1>6, <2>1, <2>2
<1>8. /\ Sealed(Queue') /\ Waiting = Waiting' \cup {e.turn}
      /\ Ended' \subseteq Ended /\ Ended \subseteq Ended' \cup {e.turn}
      /\ e.kind = "delta" => Ended' = Ended
      /\ e.kind # "delta" => e.turn \in Ended /\ e.turn \notin Waiting'
  BY <1>1, TailSets DEF Waiting, Ended
<1> QED BY <1>1, <1>2, <1>7, <1>8 DEF e

\* The effect of a report of the agent, on a thread where no end is reported twice.
LEMMA AgentEffect ==
    ASSUME TInv, ParkedWait, QInv, Calm, Sealed(Queue), NEW t \in Turns, AgentStep(t)
    PROVE  /\ AgentRuns(t) /\ Sealed(Queue') /\ Waiting' = Waiting \cup {t}
           /\ \A u \in Turns \ {t} : agent'[u] = agent[u]
           /\ \/ Ended' = Ended /\ agent'[t] = "spoke"
              \/ Ended' = Ended \cup {t} /\ agent'[t] = "ended"
           /\ proc' = proc /\ record' = record /\ ts' = ts /\ shown' = shown
           /\ rt'.ensured = rt.ensured /\ rt'.finished = rt.finished
<1>0. rt \in Runtime /\ Queue \in Seq(Event) /\ agent \in [Turns -> AgentStates]
  BY QueueType DEF TInv, TypeOK, Queue
<1>1. Speak(t) \/ EndTurn(t) BY DEF AgentStep, EchoEnd, Calm
<1>2. AgentRuns(t) BY <1>1 DEF Speak, EndTurn, AgentRuns
<1>3. t \notin Ended BY <1>2 DEF QInv, Reported, AgentRuns, Ended, EndedIn
<1>4. PICK k \in EventKinds :
        /\ rt' = OnNotification(rt, [turn |-> t, kind |-> k])
        /\ k = "delta" => agent'[t] = "spoke"
        /\ k # "delta" => agent'[t] = "ended"
  BY <1>0, <1>1 DEF Speak, EndTurn, EventKinds
<1> DEFINE e == [turn |-> t, kind |-> k]
<1>5. e \in Event /\ e.turn = t /\ e.kind = k BY DEF Event
<1> HIDE DEF e
<1>6. rt' = OnNotification(rt, e) BY <1>4 DEF e
<1>7. Queue' = Append(Queue, e) BY <1>0, <1>5, <1>6, QueueNotify DEF ParkedWait, Queue
<1>8. /\ Sealed(Queue') /\ Waiting' = Waiting \cup {t}
      /\ Ended' = Ended \cup (IF k = "delta" THEN {} ELSE {t})
  BY <1>0, <1>3, <1>5, <1>7, AppendSets DEF Waiting, Ended
<1>9. \A u \in Turns \ {t} : agent'[u] = agent[u] BY <1>0, <1>1 DEF Speak, EndTurn
<1>10. /\ proc' = proc /\ record' = record /\ ts' = ts /\ shown' = shown
       /\ rt'.ensured = rt.ensured /\ rt'.finished = rt.finished
  BY <1>0, <1>1, <1>6 DEF Speak, EndTurn, OnNotification, Runtime, store
<1> QED BY <1>2, <1>4, <1>8, <1>9, <1>10

\* Only the start of a turn and the agent itself change what the agent does.
LEMMA AgentStill ==
    ASSUME NEW c \in Clients, UserStep(c) \/ StartStep(c) \/ CommandStep(c) \/ EnsureStep(c), ~TurnStart(c)
    PROVE  agent' = agent
<1> USE DEF outside
<1>1. UserStep(c) \/ CommandStep(c) => agent' = agent
  BY DEF UserStep, SendText, Interrupt, AcceptTurn, RevertTurn, CommandStep, InterruptTurn,
     TurnInterrupt, WriteInterrupted, MarkTurnInterrupting, WriteAccepted, ReleaseBlocking, WriteReverted,
     ReleaseReferences, CommandFails
<1>2. StartStep(c) => agent' = agent
  BY DEF StartStep, CheckPendingApproval, PrepareTurn, ResumeThread, StartFails
<1>3. EnsureStep(c) => agent' = agent
  BY DEF EnsureStep, EnsureEnter, EnsureRead, CreateTurnStart, EnsureJoined, EnsureDone, EnsureFails,
     UpsertRead, UpsertWrite
<1> QED BY <1>1, <1>2, <1>3

\* Nor do the lane's steps.
LEMMA AgentStillLane ==
    ASSUME EnsureStep(Lane) \/ LaneStep
    PROVE  agent' = agent
  BY DEF outside, EnsureStep, EnsureEnter, EnsureRead, CreateTurnStart, EnsureJoined, EnsureDone, EnsureFails,
     UpsertRead, UpsertWrite, LaneStep, TakeEvent, HandleEvent, FinishSessionTurn, CommitAndDiff, CommitFails,
     ReadActiveTurn, ReadActiveRecord, CompleteActiveTurn, FinalizeRead, FinalizeWrite, RouteSummary, TurnAborted

\* A record appears only where ensureTurnStarted creates it.
LEMMA RecordAppears ==
    ASSUME TInv, RInv, Calm, Stages, [Next]_vars
    PROVE  \A t \in Turns : \/ record'[t] = record[t] \/ record[t] # "none"
                            \/ \E p \in Procs : CreateTurnStart(p) /\ proc[p].turn = t
<1> USE DEF store
<1>0. record \in [Turns -> Statuses] BY DEF TInv, TypeOK
<1>1. ASSUME NEW c \in Clients, UserStep(c) \/ StartStep(c) PROVE record' = record
  BY <1>1 DEF UserStep, SendText, Interrupt, AcceptTurn, RevertTurn, StartStep, CheckPendingApproval,
     PrepareTurn, ResumeThread, StartFails, TurnStart
<1>2. ASSUME NEW c \in Clients, CommandStep(c), NEW t \in Turns PROVE record'[t] = record[t] \/ record[t] # "none"
  <2>1. FrameKnown(proc[c], record) BY DEF RInv, Procs
  <2> QED BY <1>0, <1>2, <2>1, CalmCommands DEF WriteAccepted, WriteReverted, ReleaseBlocking, ReleaseReferences,
         CommandFails, At, FrameKnown, Known
<1>3. ASSUME NEW p \in Procs, EnsureStep(p), NEW t \in Turns
      PROVE  record'[t] = record[t] \/ (CreateTurnStart(p) /\ proc[p].turn = t)
  <2>1. CASE CreateTurnStart(p)
    <3>1. record' = [record EXCEPT ![proc[p].turn] = "running"] BY <2>1 DEF CreateTurnStart
    <3> QED BY <1>0, <2>1, <3>1
  <2> QED BY <1>3, <2>1 DEF EnsureStep, EnsureEnter, EnsureRead, EnsureJoined, EnsureDone, EnsureFails,
         UpsertRead, UpsertWrite
<1>4. ASSUME LaneStep, NEW t \in Turns PROVE record'[t] = record[t] \/ record[t] # "none"
  <2>1. FrameKnown(proc[Lane], record) BY DEF RInv, Procs
  <2>2. CASE CompleteActiveTurn \/ FinalizeWrite
    BY <1>0, <2>1, <2>2 DEF CompleteActiveTurn, FinalizeWrite, At, FrameKnown, Known
  <2> QED BY <1>4, <2>2 DEF LaneStep, TakeEvent, HandleEvent, FinishSessionTurn, CommitAndDiff, CommitFails,
         ReadActiveTurn, ReadActiveRecord, FinalizeRead, RouteSummary, TurnAborted
<1>5. InterruptTimeout \/ Crash \/ UNCHANGED vars \/ (\E t \in Turns : AgentStep(t)) => record' = record
  BY DEF InterruptTimeout, Crash, vars, AgentStep, Speak, EndTurn, EchoEnd
<1> QED BY <1>1, <1>2, <1>3, <1>4, <1>5 DEF Next

\* A step under which no more is under way, and that begins no command unless nothing is.
LEMMA SingleStep ==
    ASSUME TInv, RInv, SInv, Calm, Stages, Single, [Next]_vars,
           \A t \in Turns : agent'[t] \in {"running", "spoke"} \/ t \in Waiting' => Under(t),
           \/ proc'[Lane].pc = "idle" \/ proc'[Lane] = proc[Lane] \/ Under(proc'[Lane].turn),
           \A c \in Clients : Ensuring(proc'[c]) => Ensuring(proc[c]) /\ proc'[c].turn = proc[c].turn,
           (\E c \in Clients : Sending(proc'[c]) \/ Resolving(proc'[c])) =>
               \A t \in Turns : ~Under(t),
           \A t \in rt'.ensured \cup rt'.finished : t \in rt.ensured \cup rt.finished \/ Under(t)
    PROVE  Single' /\ \A t \in Turns : Under(t)' => Under(t)
<1>0. Lane \in Procs /\ Clients \subseteq Procs BY DEF Procs
<1>1. \A t \in Turns : Under(t)' => Under(t)
  <2> SUFFICES ASSUME NEW t \in Turns, Under(t)' PROVE Under(t)
    OBVIOUS
  <2>1. CASE agent'[t] \in {"running", "spoke"} \/ t \in Waiting' BY <2>1
  <2>2. CASE proc'[Lane].pc # "idle" /\ proc'[Lane].turn = t
    BY <2>2 DEF Under, LaneOn, At
  <2>3. CASE \E c \in Clients : Ensuring(proc'[c]) /\ proc'[c].turn = t
    BY <2>3 DEF Under
  <2> QED BY <1>0, <2>1, <2>2, <2>3, Primes DEF Under, AgentRuns, LaneOn, At
<1>2. \A t \in Turns : agent'[t] = "unused" => agent[t] = "unused" BY AgentGrows
<1>3. \A t \in Turns : agent[t] = "unused" => record'[t] = "none"
  <2> SUFFICES ASSUME NEW t \in Turns, agent[t] = "unused", record'[t] # "none" PROVE FALSE
    OBVIOUS
  <2>1. record[t] = "none" BY DEF Single
  <2>2. PICK p \in Procs : CreateTurnStart(p) /\ proc[p].turn = t BY <2>1, RecordAppears
  <2>3. proc[p].pc = "ensure_create" BY <2>2 DEF CreateTurnStart, At
  <2>4. Under(t) BY <2>2, <2>3 DEF Under, LaneOn, At, Ensuring, Procs
  <2> QED BY <2>4 DEF Single
<1>4. \A t \in Turns : agent[t] = "unused" => t \notin rt'.ensured \cup rt'.finished BY DEF Single
<1>5. (\E c \in Clients : Sending(proc[c]) \/ Resolving(proc[c]))' =>
        \E c \in Clients : Sending(proc'[c]) \/ Resolving(proc'[c])
  BY <1>0, Primes
<1>6. Single' BY <1>1, <1>2, <1>3, <1>4, <1>5 DEF Single
<1> QED BY <1>1, <1>6

\* Turns in the lane or in a client's ensureTurnStarted are under way.
LEMMA UnderFrames ==
    ASSUME TInv, SInv, Single
    PROVE  /\ ~At(Lane, "idle") => proc[Lane].turn \in Turns /\ Under(proc[Lane].turn)
           /\ \A c \in Clients : Ensuring(proc[c]) => proc[c].turn \in Turns /\ Under(proc[c].turn)
<1>1. ~At(Lane, "idle") => proc[Lane].turn \in Turns /\ Under(proc[Lane].turn)
  BY DEF SInv, Under, LaneOn
<1>2. ASSUME NEW c \in Clients, Ensuring(proc[c]) PROVE proc[c].turn \in Turns /\ Under(proc[c].turn)
  <2>1. proc[c].turn \in Turns
    BY <1>2 DEF TInv, FramesOK, FrameOK, Procs, Ensuring, UsesTurn
  <2> QED BY <1>2, <2>1 DEF Under
<1> QED BY <1>1, <1>2

\* Clients keep one turn under way, and make no other than the one they start,
LEMMA SingleClient ==
    ASSUME TInv, RInv, SInv, Calm, Stages, Single, [Next]_vars, NEW c \in Clients, ~TurnStart(c),
           UserStep(c) \/ StartStep(c) \/ CommandStep(c) \/ EnsureStep(c)
    PROVE  Single' /\ \A t \in Turns : Under(t)' => Under(t)
<1>0. c \in Procs /\ Clients \subseteq Procs BY DEF Procs
<1>1. \A d \in Clients : d # c => proc'[d] = proc[d] BY <1>0, ClientEffect
<1>2. ClientStage(proc[c]) BY DEF Stages
<1>3. agent' = agent /\ Waiting' = Waiting BY AgentStill, ClientEffect
<1>4. \A t \in Turns : agent'[t] \in {"running", "spoke"} \/ t \in Waiting' => Under(t)
  BY <1>3 DEF Under, AgentRuns
<1>5. Ensuring(proc'[c]) => Ensuring(proc[c]) /\ proc'[c].turn = proc[c].turn
  BY <1>2, ClientMoves, Apart DEF ClientStage
<1>6. \A d \in Clients : Ensuring(proc'[d]) => Ensuring(proc[d]) /\ proc'[d].turn = proc[d].turn
  BY <1>1, <1>5
<1>7. ASSUME NEW d \in Clients, Sending(proc'[d]) \/ Resolving(proc'[d])
      PROVE  \A t \in Turns : ~Under(t)
  <2>1. CASE Sending(proc[d]) \/ Resolving(proc[d]) BY <2>1 DEF Single
  <2>2. CASE ~(Sending(proc[d]) \/ Resolving(proc[d]))
    <3>1. d = c BY <1>1, <1>7, <2>2
    <3>2. proc[c].pc = "idle" BY <1>2, <1>7, <2>2, <3>1, ClientMoves, Apart DEF ClientStage
    <3>3. UserStep(c) BY <3>2, ClientMoves
    <3>4. Quiet /\ \A e \in Clients : ~Ensuring(proc[e])
      BY <3>3, Admitted, Apart DEF At
    <3> QED BY <3>4, QuietNone
  <2> QED BY <2>1, <2>2
<1>8. proc'[Lane] = proc[Lane] /\ rt'.ensured = rt.ensured /\ rt'.finished = rt.finished BY ClientEffect
<1> QED BY <1>4, <1>6, <1>7, <1>8, SingleStep

\* so does the start of a turn,
LEMMA SingleStart ==
    ASSUME TInv, Calm, Stages, Single, NEW c \in Clients, TurnStart(c), [Next]_vars
    PROVE  /\ Single' /\ \A t \in Turns : ~Under(t)
           /\ \E t \in Turns : /\ agent[t] = "unused" /\ agent' = [agent EXCEPT ![t] = "running"]
                               /\ proc'[c].pc = "ensure" /\ proc'[c].turn = t
                               /\ \A u \in Turns : Under(u)' => u = t
<1>0. c \in Procs /\ Clients \subseteq Procs /\ Lane \in Procs /\ proc \in [Procs -> Frame] /\ proc[c] \in Frame
      /\ agent \in [Turns -> AgentStates]
  BY DEF TInv, TypeOK, Procs
<1>1. PICK t \in Turns : /\ agent[t] = "unused" /\ agent' = [agent EXCEPT ![t] = "running"]
                         /\ proc' = [proc EXCEPT ![c].pc = "ensure", ![c].turn = t, ![c].target = NoTurn]
  BY DEF TurnStart
<1>2. proc'[c].pc = "ensure" /\ proc'[c].turn = t /\ Ensuring(proc'[c])
  BY <1>0, <1>1 DEF Frame, Ensuring
<1>3. StartStep(c) /\ Sending(proc[c]) BY DEF StartStep, TurnStart, Sending
<1>4. \A u \in Turns : ~Under(u) BY <1>3 DEF Single
<1>5. /\ Waiting' = Waiting /\ proc'[Lane] = proc[Lane] /\ rt'.ensured = rt.ensured /\ rt'.finished = rt.finished
      /\ \A d \in Clients : d # c => proc'[d] = proc[d]
  BY <1>0, <1>3, ClientEffect
<1>6. record' = record BY DEF TurnStart, store
<1>7. ASSUME NEW u \in Turns, Under(u)' PROVE u = t
  <2>1. \/ agent'[u] \in {"running", "spoke"} \/ u \in Waiting'
        \/ proc'[Lane].pc # "idle" /\ proc'[Lane].turn = u
        \/ \E d \in Clients : Ensuring(proc'[d]) /\ proc'[d].turn = u
    BY <1>0, <1>7, Primes DEF Under, AgentRuns, LaneOn, At
  <2>2. agent'[u] \in {"running", "spoke"} => u = t BY <1>0, <1>1, <1>4 DEF Under, AgentRuns
  <2> QED BY <1>2, <1>4, <1>5, <2>1, <2>2 DEF Under, LaneOn, At
<1>8. \A d \in Clients : ~(Sending(proc'[d]) \/ Resolving(proc'[d]))
  <2>1. ASSUME NEW d \in Clients, d # c PROVE proc[d].pc = "idle"
    BY <1>3, <2>1, Apart DEF Stages, At
  <2> QED BY <1>2, <1>5, <2>1, Apart
<1>9. \A d \in Clients : ~(Sending(proc[d]) \/ Resolving(proc[d]))' BY <1>0, <1>8, Primes
<1>10. \A u \in Turns : agent'[u] = "unused" => agent[u] = "unused" /\ u # t BY <1>0, <1>1
<1>11. Single' BY <1>5, <1>6, <1>7, <1>9, <1>10 DEF Single
<1> QED BY <1>1, <1>2, <1>4, <1>7, <1>11

\* and every other step.
LEMMA SingleNext ==
    ASSUME TInv, RInv, ParkedWait, QInv, SInv, Calm, Stages, Single, Sealed(Queue), [Next]_vars
    PROVE  Single' /\ (Crash \/ (\E c \in Clients : TurnStart(c)) \/ \A t \in Turns : Under(t)' => Under(t))
<1>0. Lane \in Procs /\ Clients \subseteq Procs /\ Lane \notin Clients BY ConstantsAssumption DEF Procs
<1>1. ASSUME \A c \in Clients : proc'[c] = proc[c], NEW t \in Turns, Under(t)
      PROVE  /\ \A c \in Clients : Ensuring(proc'[c]) => Ensuring(proc[c]) /\ proc'[c].turn = proc[c].turn
             /\ \A c \in Clients : ~(Sending(proc'[c]) \/ Resolving(proc'[c]))
  BY <1>1 DEF Single
<1>2. CASE EnsureStep(Lane)
  <2>1. \A c \in Clients : proc'[c] = proc[c] BY <1>0, <1>2, OtherFrames
  <2>2. agent' = agent /\ Waiting' = Waiting BY <1>0, <1>2, AgentStillLane, QueueOfCommands DEF Waiting
  <2>3. ~At(Lane, "idle") BY <1>2, LaneEnsureMoves, Apart DEF At, Ending
  <2>4. proc[Lane].turn \in Turns /\ Under(proc[Lane].turn) BY <2>3, UnderFrames
  <2>5. proc'[Lane].pc = "idle" \/ proc'[Lane].turn = proc[Lane].turn BY <1>2, LaneEnsureMoves
  <2>6. rt'.ensured \subseteq rt.ensured /\ rt'.finished = rt.finished
    <3>1. CASE EnsureFails(Lane)
      BY <1>0, <3>1 DEF EnsureFails, TInv, TypeOK, Runtime
    <3>2. CASE ~EnsureFails(Lane) BY <1>2, <3>2, LaneEnsureMoves
    <3> QED BY <3>1, <3>2
  <2>7. \A t \in Turns : agent'[t] \in {"running", "spoke"} \/ t \in Waiting' => Under(t)
    BY <2>2 DEF Under, AgentRuns
  <2> QED BY <1>1, <2>1, <2>4, <2>5, <2>6, <2>7, SingleStep
<1>3. CASE LaneStep
  <2>1. \A c \in Clients : proc'[c] = proc[c] BY <1>0, <1>3, OtherFrames
  <2>2. agent' = agent BY <1>3, AgentStillLane
  <2>3. CASE TakeEvent
    <3> DEFINE e == Head(rt.lane)
    <3>1. /\ e.turn \in Turns /\ e.turn \in Waiting /\ Waiting' \subseteq Waiting
          /\ proc'[Lane] = proc[Lane] \/ proc'[Lane].turn = e.turn
          /\ rt'.ensured \subseteq rt.ensured \cup {e.turn} /\ rt'.finished = rt.finished
      BY <2>3, TakeEffect
    <3> HIDE DEF e
    <3>2. Under(e.turn) BY <3>1 DEF Under
    <3>3. \A t \in Turns : agent'[t] \in {"running", "spoke"} \/ t \in Waiting' => Under(t)
      BY <2>2, <3>1 DEF Under, AgentRuns
    <3> QED BY <1>1, <2>1, <3>1, <3>2, <3>3, SingleStep
  <2>4. CASE ~TakeEvent
    <3>1. ~At(Lane, "idle") BY <1>3, <2>4, LaneMoves, Apart DEF At
    <3>2. proc[Lane].turn \in Turns /\ Under(proc[Lane].turn) BY <3>1, UnderFrames
    <3>3. proc'[Lane].pc = "idle" \/ proc'[Lane].turn = proc[Lane].turn BY <1>3, <2>4, LaneMoves
    <3>4. Waiting' = Waiting BY <1>3, <2>4, QueueOfLane DEF Waiting
    <3>5. /\ rt'.ensured \subseteq rt.ensured
          /\ rt'.finished \subseteq rt.finished \cup {proc[Lane].turn}
      <4>1. CASE HandleEvent BY <4>1 DEF HandleEvent, TInv, TypeOK, Runtime
      <4>2. CASE ~HandleEvent BY <1>3, <2>4, <4>2, LaneMoves
      <4> QED BY <4>1, <4>2
    <3>6. \A t \in Turns : agent'[t] \in {"running", "spoke"} \/ t \in Waiting' => Under(t)
      BY <2>2, <3>4 DEF Under, AgentRuns
    <3> QED BY <1>1, <2>1, <3>2, <3>3, <3>5, <3>6, SingleStep
  <2> QED BY <2>3, <2>4
<1>4. ASSUME NEW t \in Turns, AgentStep(t) PROVE Single' /\ \A u \in Turns : Under(u)' => Under(u)
  <2>1. /\ AgentRuns(t) /\ Waiting' = Waiting \cup {t} /\ \A u \in Turns \ {t} : agent'[u] = agent[u]
        /\ proc' = proc /\ rt'.ensured = rt.ensured /\ rt'.finished = rt.finished
    BY <1>4, AgentEffect
  <2>2. Under(t) BY <2>1 DEF Under
  <2>3. \A u \in Turns : agent'[u] \in {"running", "spoke"} \/ u \in Waiting' => Under(u)
    BY <2>1, <2>2 DEF Under, AgentRuns
  <2> QED BY <1>1, <2>1, <2>2, <2>3, SingleStep
<1>5. CASE Crash
  <2>1. /\ \A p \in Procs : proc'[p].pc = "idle"
        /\ Queue' = <<>> /\ rt'.ensured = {} /\ rt'.finished = {} /\ record' = record
    BY <1>5, BlankIdle DEF Crash, NoRuntime, Queue, QueueOf, store
  <2>2. \A t \in Turns : agent'[t] = IF agent[t] = "unused" THEN "unused" ELSE "echoed" BY <1>5 DEF Crash
  <2>3. Waiting' = {} BY <2>1 DEF Waiting, WaitingIn
  <2>4. \A t \in Turns : ~Under(t)'
    BY <1>0, <2>1, <2>2, <2>3, Primes, Apart DEF Under, AgentRuns, LaneOn, At
  <2>5. \A t \in Turns : agent'[t] = "unused" => record'[t] = "none" BY <2>1, <2>2 DEF Single
  <2> QED BY <1>5, <2>1, <2>4, <2>5 DEF Single
<1>6. CASE InterruptTimeout \/ UNCHANGED vars
  <2>1. proc' = proc /\ agent' = agent /\ rt' = rt BY <1>6 DEF InterruptTimeout, vars, outside
  <2>2. Waiting' = Waiting BY <2>1 DEF Waiting, Queue
  <2>3. \A t \in Turns : agent'[t] \in {"running", "spoke"} \/ t \in Waiting' => Under(t)
    BY <2>1, <2>2 DEF Under, AgentRuns
  <2>4. (\E c \in Clients : Sending(proc'[c]) \/ Resolving(proc'[c])) => \A t \in Turns : ~Under(t)
    BY <2>1 DEF Single
  <2> QED BY <2>1, <2>3, <2>4, SingleStep
<1>7. ASSUME NEW c \in Clients, UserStep(c) \/ StartStep(c) \/ CommandStep(c) \/ EnsureStep(c)
      PROVE  Single' /\ (TurnStart(c) \/ \A t \in Turns : Under(t)' => Under(t))
  BY <1>7, SingleClient, SingleStart
<1> QED BY <1>2, <1>3, <1>4, <1>5, <1>6, <1>7 DEF Next, Procs

-----------------------------------------------------------------------------
(* Ends: the end of a turn is ahead until the lane finishes the turn. *)

\* What is ahead after a step.
LEMMA AheadAfter ==
    /\ \A t \in Turns : /\ (LaneEnd(t))' <=> Handling(proc'[Lane]) /\ proc'[Lane].turn = t /\ proc'[Lane].kind # "delta"
                        /\ (AgentRuns(t))' <=> agent'[t] \in {"running", "spoke"}
                        /\ (Ahead(t))' <=> (AgentRuns(t))' \/ t \in Ended' \/ (LaneEnd(t))'
    /\ (Sealed(Queue))' <=> Sealed(Queue')
<1>1. Lane \in Procs BY DEF Procs
<1> QED BY <1>1, Primes DEF LaneEnd, AgentRuns, Ahead, Sealed

\* A step that leaves the events, the agent and what the lane is at.
LEMMA EndsSame ==
    ASSUME Ends, Queue' = Queue, Waiting' = Waiting, Ended' = Ended, agent' = agent,
           rt'.ensured = rt.ensured, rt'.finished = rt.finished,
           \/ ~Handling(proc[Lane]) /\ ~Handling(proc'[Lane])
           \/ /\ Handling(proc[Lane]) /\ Handling(proc'[Lane])
              /\ proc'[Lane].turn = proc[Lane].turn /\ proc'[Lane].kind = proc[Lane].kind
    PROVE  Ends' /\ \A t \in Turns : Ahead(t)' <=> Ahead(t)
<1>0. Lane \in Procs BY DEF Procs
<1>1. \A t \in Turns : (LaneEnd(t)' <=> LaneEnd(t)) /\ (AgentRuns(t)' <=> AgentRuns(t))
  BY AheadAfter DEF LaneEnd, AgentRuns
<1>2. \A t \in Turns : Ahead(t)' <=> Ahead(t) BY <1>1, AheadAfter DEF Ahead
<1>3. (Handling(proc[Lane]))' <=> Handling(proc'[Lane]) BY <1>0, Primes
<1>4. Sealed(Queue)' BY AheadAfter DEF Ends
<1> QED BY <1>1, <1>2, <1>3, <1>4 DEF Ends

\* A turn that is started has its end ahead, and no event yet.
LEMMA EndsStart ==
    ASSUME TInv, Calm, Stages, Single, Ends, NEW c \in Clients, TurnStart(c), [Next]_vars
    PROVE  Ends' /\ \A t \in Turns : Ahead(t)' => Ahead(t) \/ (agent[t] = "unused" /\ record[t] = "none")
<1>0. Lane \in Procs /\ agent \in [Turns -> AgentStates] BY DEF Procs, TInv, TypeOK
<1>1. StartStep(c) BY DEF StartStep
<1>2. /\ Queue' = Queue /\ Waiting' = Waiting /\ Ended' = Ended /\ proc'[Lane] = proc[Lane]
      /\ rt'.ensured = rt.ensured /\ rt'.finished = rt.finished
  BY <1>1, ClientEffect
<1>3. PICK t \in Turns : agent[t] = "unused" /\ agent' = [agent EXCEPT ![t] = "running"] BY DEF TurnStart
<1>4. /\ t \notin rt.ensured \cup rt.finished /\ t \notin Waiting /\ t \notin Ended /\ ~LaneOn(t)
      /\ record[t] = "none"
  BY <1>3, EndedWaits DEF Single, Under
<1>5. ~LaneEnd(t) BY <1>4, Apart DEF LaneEnd, LaneOn, At
<1>6. \A u \in Turns : LaneEnd(u)' <=> LaneEnd(u) BY <1>2, AheadAfter DEF LaneEnd
<1>7. \A u \in Turns : AgentRuns(u)' <=> AgentRuns(u) \/ u = t BY <1>0, <1>3, AheadAfter DEF AgentRuns
<1>8. \A u \in Turns : Ahead(u)' <=> Ahead(u) \/ u = t BY <1>2, <1>6, <1>7, AheadAfter DEF Ahead
<1>9. (Handling(proc[Lane]))' <=> Handling(proc'[Lane]) BY <1>0, Primes
<1>10. Sealed(Queue)' BY <1>2, AheadAfter DEF Ends
<1>11. Ends' BY <1>2, <1>4, <1>5, <1>6, <1>7, <1>8, <1>9, <1>10 DEF Ends
<1> QED BY <1>3, <1>4, <1>8, <1>11

\* The lane in ensureTurnStarted,
LEMMA EndsEnsure ==
    ASSUME TInv, Stages, Ends, EnsureStep(Lane)
    PROVE  Ends' /\ \A t \in Turns : (Ahead(t)' => Ahead(t)) /\ (Ahead(t) => Ahead(t)' \/ EnsureFails(Lane))
<1>0. Lane \in Procs BY DEF Procs
<1>1. /\ Queue' = Queue /\ Waiting' = Waiting /\ Ended' = Ended /\ agent' = agent
  BY <1>0, QueueOfCommands, AgentStillLane DEF Waiting, Ended
<1>2. CASE ~EnsureFails(Lane)
  <2>1. rt' = rt BY <1>2, LaneEnsureMoves
  <2>2. CASE Ensuring(proc[Lane])
    <3>1. Handling(proc'[Lane]) /\ proc'[Lane].turn = proc[Lane].turn /\ proc'[Lane].kind = proc[Lane].kind
      BY <1>2, <2>2, LaneEnsureMoves
    <3> QED BY <1>1, <2>1, <2>2, <3>1, Apart, EndsSame
  <2>3. CASE ~Ensuring(proc[Lane])
    <3>1. ~Handling(proc[Lane]) /\ ~Handling(proc'[Lane]) BY <2>3, LaneEnsureMoves, Apart DEF Ending
    <3> QED BY <1>1, <2>1, <3>1, EndsSame
  <2> QED BY <2>2, <2>3
<1>3. CASE EnsureFails(Lane)
  <2>1. /\ proc'[Lane].pc = "idle" /\ rt'.finished = rt.finished
        /\ rt'.ensured = rt.ensured \ {proc[Lane].turn}
    BY <1>0, <1>3, ConstantsAssumption, BlankIdle DEF EnsureFails, Return, TInv, TypeOK, Runtime
  <2>2. ~Handling(proc'[Lane]) BY <2>1, Apart
  <2>3. \A t \in Turns : ~LaneEnd(t)' /\ (AgentRuns(t)' <=> AgentRuns(t)) BY <1>1, <2>2, AheadAfter DEF AgentRuns
  <2>4. \A t \in Turns : Ahead(t)' <=> AgentRuns(t) \/ t \in Ended BY <1>1, <2>3, AheadAfter
  <2>5. \A t \in Turns : LaneEnd(t) => t = proc[Lane].turn BY DEF LaneEnd
  <2>6. (Handling(proc[Lane]))' <=> Handling(proc'[Lane]) BY <1>0, Primes
  <2>7. Sealed(Queue)' BY <1>1, AheadAfter DEF Ends
  <2>8. Ends' BY <1>1, <2>1, <2>2, <2>3, <2>4, <2>5, <2>6, <2>7 DEF Ends, Ahead
  <2> QED BY <1>3, <2>4, <2>8 DEF Ahead
<1> QED BY <1>2, <1>3

\* taking an event,
LEMMA EndsTake ==
    ASSUME TInv, Ends, TakeEvent
    PROVE  Ends' /\ \A t \in Turns : Ahead(t)' <=> Ahead(t)
<1> DEFINE e == Head(rt.lane)
<1>0. Lane \in Procs BY DEF Procs
<1>a. TInv /\ Sealed(Queue) /\ TakeEvent BY DEF Ends
<1>1. /\ e.turn \in Turns
      /\ Sealed(Queue') /\ Waiting = Waiting' \cup {e.turn}
      /\ Ended' \subseteq Ended /\ Ended \subseteq Ended' \cup {e.turn}
      /\ e.kind = "delta" => Ended' = Ended
      /\ e.kind # "delta" => e.turn \in Ended /\ e.turn \notin Waiting'
      /\ rt'.finished = rt.finished
      /\ \/ proc' = proc /\ rt'.ensured = rt.ensured /\ e.kind = "delta"
         \/ /\ proc'[Lane].turn = e.turn /\ proc'[Lane].kind = e.kind
            /\ rt'.ensured = rt.ensured \cup {e.turn}
            /\ proc'[Lane].pc \in {"handle", "ensure"}
  BY <1>a, TakeEffect
<1> HIDE DEF e
<1>2. agent' = agent BY AgentStillLane DEF LaneStep
<1>3. ~Handling(proc[Lane]) BY Apart DEF TakeEvent, At
<1>4. \A t \in Turns : ~LaneEnd(t) /\ (AgentRuns(t)' <=> AgentRuns(t)) BY <1>2, <1>3, AheadAfter DEF LaneEnd, AgentRuns
<1>5. (Handling(proc[Lane]))' <=> Handling(proc'[Lane]) BY <1>0, Primes
<1>6. Sealed(Queue)' BY <1>1, AheadAfter
<1>7. CASE proc' = proc /\ rt'.ensured = rt.ensured /\ e.kind = "delta"
  <2>1. \A t \in Turns : ~LaneEnd(t)' BY <1>3, <1>7, AheadAfter
  <2>2. \A t \in Turns : Ahead(t)' <=> Ahead(t) BY <1>1, <1>4, <1>7, <2>1, AheadAfter DEF Ahead
  <2>3. Ends' BY <1>1, <1>3, <1>4, <1>5, <1>6, <1>7, <2>1, <2>2 DEF Ends
  <2> QED BY <2>2, <2>3
<1>8. CASE /\ proc'[Lane].turn = e.turn /\ proc'[Lane].kind = e.kind
           /\ rt'.ensured = rt.ensured \cup {e.turn}
           /\ proc'[Lane].pc \in {"handle", "ensure"}
  <2>1. Handling(proc'[Lane]) BY <1>8 DEF Handling, Ensuring
  <2>2. \A t \in Turns : LaneEnd(t)' <=> t = e.turn /\ e.kind # "delta" BY <1>8, <2>1, AheadAfter
  <2>3. \A t \in Turns : Ahead(t)' <=> Ahead(t) BY <1>1, <1>4, <2>2, AheadAfter DEF Ahead
  <2>4. e.turn \in Waiting /\ Ahead(e.turn) BY <1>1 DEF Ends
  <2>5. ASSUME NEW t \in Turns
        PROVE  /\ t \in Waiting' => Ahead(t)' /\ ~LaneEnd(t)'
               /\ t \in Ended' \/ LaneEnd(t)' => ~AgentRuns(t)'
               /\ t \in rt'.ensured => Ahead(t)'
               /\ Ahead(t)' => t \notin rt'.finished
    BY <1>1, <1>4, <1>8, <2>2, <2>3, <2>4 DEF Ends
  <2>6. Ends' BY <1>5, <1>6, <1>8, <2>5 DEF Ends
  <2> QED BY <2>3, <2>6
<1> QED BY <1>1, <1>7, <1>8

\* handling it,
LEMMA EndsHandle ==
    ASSUME TInv, Stages, Ends, HandleEvent
    PROVE  Ends' /\ \A t \in Turns : Ahead(t)' => Ahead(t)
<1> DEFINE t == proc[Lane].turn
<1>0. Lane \in Procs /\ rt \in Runtime /\ proc \in [Procs -> Frame] BY DEF Procs, TInv, TypeOK
<1>1. Handling(proc[Lane]) /\ At(Lane, "handle") BY DEF Handling, HandleEvent, At
<1>2. t \in Turns BY <1>0, <1>1 DEF TInv, FramesOK, FrameOK, UsesTurn, At
<1>3. LaneStep /\ ~TakeEvent BY <1>1 DEF LaneStep, TakeEvent, At
<1>4. Queue' = Queue /\ Waiting' = Waiting /\ Ended' = Ended /\ agent' = agent
  BY <1>3, QueueOfLane, AgentStillLane DEF Waiting, Ended
<1>5. ~Handling(proc'[Lane])
  <2>1. proc'[Lane].pc = "idle" \/ Ending(proc'[Lane]) BY <1>3, LaneMoves
  <2> QED BY <2>1, Apart
<1>6. \A u \in Turns : ~LaneEnd(u)' /\ (AgentRuns(u)' <=> AgentRuns(u)) BY <1>4, <1>5, AheadAfter DEF AgentRuns
<1>7. \A u \in Turns : Ahead(u)' <=> AgentRuns(u) \/ u \in Ended BY <1>4, <1>6, AheadAfter
<1>8. (Handling(proc[Lane]))' <=> Handling(proc'[Lane]) BY <1>0, Primes
<1>9. Sealed(Queue)' BY <1>4, AheadAfter DEF Ends
<1>10. CASE proc[Lane].kind = "delta"
  <2>1. rt' = rt BY <1>10 DEF HandleEvent
  <2>2. \A u \in Turns : ~LaneEnd(u) BY <1>10 DEF LaneEnd
  <2>3. Ends' BY <1>4, <1>5, <1>6, <1>7, <1>8, <1>9, <2>1, <2>2 DEF Ends, Ahead
  <2> QED BY <1>7, <2>3 DEF Ahead
<1>11. CASE proc[Lane].kind # "delta"
  <2>1. LaneEnd(t) /\ Ahead(t) /\ \A u \in Turns : LaneEnd(u) => u = t BY <1>1, <1>11 DEF LaneEnd, Ahead
  <2>2. t \notin rt.finished /\ ~AgentRuns(t) /\ t \notin Waiting BY <1>2, <2>1 DEF Ends
  <2>3. t \notin Ended BY <2>2, EndedWaits
  <2>4. rt' = [rt EXCEPT !.finished = @ \cup {t}, !.ensured = @ \ {t}] BY <1>11, <2>2 DEF HandleEvent
  <2>5. rt'.finished = rt.finished \cup {t} /\ rt'.ensured = rt.ensured \ {t} BY <1>0, <2>4 DEF Runtime
  <2> HIDE DEF t
  <2>6. Ends' BY <1>4, <1>5, <1>6, <1>7, <1>8, <1>9, <2>1, <2>2, <2>3, <2>5 DEF Ends, Ahead
  <2> QED BY <1>7, <2>6 DEF Ahead
<1> QED BY <1>10, <1>11

\* and the report of an event.
LEMMA EndsAgent ==
    ASSUME TInv, ParkedWait, QInv, Calm, Ends, NEW t \in Turns, AgentStep(t)
    PROVE  Ends' /\ \A u \in Turns : Ahead(u)' <=> Ahead(u)
<1>0. Lane \in Procs BY DEF Procs
<1>a. Sealed(Queue) BY DEF Ends
<1>1. /\ AgentRuns(t) /\ Sealed(Queue') /\ Waiting' = Waiting \cup {t}
      /\ \A u \in Turns \ {t} : agent'[u] = agent[u]
      /\ \/ Ended' = Ended /\ agent'[t] = "spoke"
         \/ Ended' = Ended \cup {t} /\ agent'[t] = "ended"
      /\ proc' = proc
      /\ rt'.ensured = rt.ensured /\ rt'.finished = rt.finished
  BY <1>a, AgentEffect
<1>2. \A u \in Turns : LaneEnd(u)' <=> LaneEnd(u) BY <1>1, AheadAfter DEF LaneEnd
<1>3. \A u \in Turns \ {t} : AgentRuns(u)' <=> AgentRuns(u) BY <1>1, AheadAfter DEF AgentRuns
<1>4. ~LaneEnd(t) /\ t \notin Ended BY <1>1 DEF Ends
<1>5. \/ Ended' = Ended /\ AgentRuns(t)'
      \/ Ended' = Ended \cup {t} /\ ~AgentRuns(t)'
  BY <1>1, AheadAfter
<1>6. Ahead(t) /\ Ahead(t)' BY <1>1, <1>5, AheadAfter DEF Ahead
<1>7. \A u \in Turns : Ahead(u)' <=> Ahead(u) BY <1>2, <1>3, <1>5, <1>6, AheadAfter DEF Ahead
<1>8. (Handling(proc[Lane]))' <=> Handling(proc'[Lane]) BY <1>0, Primes
<1>9. Sealed(Queue)' BY <1>1, AheadAfter
<1>10. ASSUME NEW u \in Turns
       PROVE  /\ u \in Waiting' => Ahead(u)' /\ ~LaneEnd(u)'
              /\ u \in Ended' \/ LaneEnd(u)' => ~AgentRuns(u)'
              /\ u \in rt'.ensured => Ahead(u)'
              /\ Ahead(u)' => u \notin rt'.finished
  BY <1>1, <1>2, <1>3, <1>4, <1>5, <1>6, <1>7 DEF Ends
<1>11. Ends' BY <1>1, <1>8, <1>9, <1>10 DEF Ends
<1> QED BY <1>7, <1>11

\* Every step keeps it, and only the start of a turn puts an end ahead.
LEMMA EndsNext ==
    ASSUME TInv, ParkedWait, QInv, Calm, Stages, Single, Ends, [Next]_vars
    PROVE  /\ Ends'
           /\ \A t \in Turns : Ahead(t)' => Ahead(t) \/ (record[t] = "none" /\ \E c \in Clients : TurnStart(c))
<1>0. Lane \in Procs /\ Lane \notin Clients BY ConstantsAssumption DEF Procs
<1>1. ASSUME NEW c \in Clients, UserStep(c) \/ StartStep(c) \/ CommandStep(c) \/ EnsureStep(c)
      PROVE  Ends' /\ \A t \in Turns : Ahead(t)' => Ahead(t) \/ (record[t] = "none" /\ TurnStart(c))
  <2>1. CASE TurnStart(c) BY <2>1, EndsStart
  <2>2. CASE ~TurnStart(c)
    <3>1. agent' = agent BY <1>1, <2>2, AgentStill
    <3>2. /\ Queue' = Queue /\ Waiting' = Waiting /\ Ended' = Ended /\ proc'[Lane] = proc[Lane]
          /\ rt'.ensured = rt.ensured /\ rt'.finished = rt.finished
      BY <1>1, ClientEffect
    <3>3. Ends' /\ \A t \in Turns : Ahead(t)' <=> Ahead(t) BY <3>1, <3>2, EndsSame
    <3> QED BY <3>3
  <2> QED BY <2>1, <2>2
<1>2. CASE LaneStep
  <2>1. CASE TakeEvent BY <2>1, EndsTake
  <2>2. CASE HandleEvent BY <2>2, EndsHandle
  <2>3. CASE ~TakeEvent /\ ~HandleEvent
    <3>1. Queue' = Queue /\ Waiting' = Waiting /\ Ended' = Ended /\ agent' = agent
      BY <1>2, <2>3, QueueOfLane, AgentStillLane DEF Waiting, Ended
    <3>2. /\ Ending(proc[Lane]) /\ (proc'[Lane].pc = "idle" \/ Ending(proc'[Lane]))
          /\ rt'.ensured = rt.ensured /\ rt'.finished = rt.finished
      BY <1>2, <2>3, LaneMoves
    <3>3. ~Handling(proc[Lane]) /\ ~Handling(proc'[Lane]) BY <3>2, Apart
    <3>4. Ends' /\ \A t \in Turns : Ahead(t)' <=> Ahead(t) BY <3>1, <3>2, <3>3, EndsSame
    <3> QED BY <3>4
  <2> QED BY <2>1, <2>2, <2>3
<1>3. CASE Crash
  <2>1. /\ proc'[Lane].pc = "idle" /\ Queue' = <<>> /\ rt'.ensured = {} /\ rt'.finished = {}
    BY <1>0, <1>3, BlankIdle DEF Crash, NoRuntime, Queue, QueueOf
  <2>2. ~Handling(proc'[Lane]) BY <2>1, Apart
  <2>3. Waiting' = {} /\ Ended' = {} /\ Sealed(Queue') BY <2>1 DEF Waiting, WaitingIn, Ended, EndedIn, Sealed
  <2>4. \A t \in Turns : agent'[t] \notin {"running", "spoke"} BY <1>3 DEF Crash
  <2>5. \A t \in Turns : ~Ahead(t)' /\ ~LaneEnd(t)' /\ ~AgentRuns(t)' BY <2>2, <2>3, <2>4, AheadAfter
  <2>6. (Handling(proc[Lane]))' <=> Handling(proc'[Lane]) BY <1>0, Primes
  <2>7. Ends' BY <2>1, <2>2, <2>3, <2>5, <2>6, AheadAfter DEF Ends
  <2> QED BY <2>5, <2>7
<1>4. CASE InterruptTimeout \/ UNCHANGED vars
  <2>1. proc' = proc /\ agent' = agent /\ rt' = rt BY <1>4 DEF InterruptTimeout, vars, outside
  <2>2. Queue' = Queue /\ Waiting' = Waiting /\ Ended' = Ended BY <2>1 DEF Waiting, Ended, Queue
  <2>3. Ends' /\ \A t \in Turns : Ahead(t)' <=> Ahead(t) BY <2>1, <2>2, EndsSame
  <2> QED BY <2>3
<1> QED BY <1>0, <1>1, <1>2, <1>3, <1>4, EndsEnsure, EndsAgent DEF Next, Procs

-----------------------------------------------------------------------------
(* Rows: the turn that awaits a decision blocks the thread. *)

\* The parts of the invariant after a step.
LEMMA RowsAfter ==
    /\ \A t \in Turns : /\ (Awaits(t))' <=> record'[t] = "awaiting_approval"
                        /\ (Running(t))' <=> record'[t] = "running"
                        /\ (Row(t))' <=> ts'.active = t /\ ts'.blocking = t
    /\ \A p \in Procs : /\ (ClientRow(proc[p], record, ts))' <=> ClientRow(proc'[p], record', ts')
                        /\ (WriterRow(proc[p], record))' <=> WriterRow(proc'[p], record')
                        /\ (LaneRow(proc[p], record, ts))' <=> LaneRow(proc'[p], record', ts')
    /\ \A p \in Procs, t \in Turns : (Writes(p, t))' <=> Writing(proc'[p]) /\ proc'[p].turn = t
<1>1. \A t \in Turns : /\ (Awaits(t))' <=> record'[t] = "awaiting_approval"
                       /\ (Running(t))' <=> record'[t] = "running"
                       /\ (Row(t))' <=> ts'.active = t /\ ts'.blocking = t
  BY DEF Awaits, Running, Row
<1>2. \A p \in Procs : (ClientRow(proc[p], record, ts))' <=> ClientRow(proc'[p], record', ts')
  BY Primes DEF ClientRow
<1>3. \A p \in Procs : (WriterRow(proc[p], record))' <=> WriterRow(proc'[p], record')
  BY Primes DEF WriterRow
<1>4. \A p \in Procs : (LaneRow(proc[p], record, ts))' <=> LaneRow(proc'[p], record', ts')
  BY Primes DEF LaneRow
<1>5. \A p \in Procs, t \in Turns : (Writes(p, t))' <=> Writing(proc'[p]) /\ proc'[p].turn = t
  BY Primes DEF Writes
<1> QED BY <1>1, <1>2, <1>3, <1>4, <1>5

\* What the invariant says of a frame at other points.
LEMMA RowsVacuous ==
    \A f, rec, row :
        /\ ~Sending(f) /\ ~Resolving(f) => ClientRow(f, rec, row)
        /\ ~Writing(f) => WriterRow(f, rec)
        /\ f.pc # "ensured" /\ ~Ending(f) => LaneRow(f, rec, row)
        /\ f.pc = "idle" => ClientRow(f, rec, row) /\ WriterRow(f, rec) /\ LaneRow(f, rec, row)
<1>1. \A f, rec, row : ~Sending(f) /\ ~Resolving(f) => ClientRow(f, rec, row)
  BY DEF ClientRow, Sending, Resolving
<1>2. \A f, rec, row : f.pc # "ensured" /\ ~Ending(f) => LaneRow(f, rec, row)
  BY DEF LaneRow, Ending, Completing, Closing
<1>3. \A f, rec : ~Writing(f) => WriterRow(f, rec) BY DEF WriterRow
<1> QED BY <1>1, <1>2, <1>3, Apart

\* A turn whose end is ahead, or that the lane ensured, is under way.
LEMMA AheadUnder ==
    ASSUME Ends
    PROVE  \A t \in Turns : (Ahead(t) => Under(t)) /\ (t \in rt.ensured => Under(t))
<1>1. ASSUME NEW t \in Turns, Ahead(t) PROVE Under(t)
  <2>1. LaneEnd(t) => LaneOn(t) BY Apart DEF LaneEnd, LaneOn, At
  <2> QED BY <1>1, <2>1, EndedWaits DEF Ahead, Under
<1> QED BY <1>1 DEF Ends

\* The lane is at the one turn under way, which is the one it may have ensured; once
\* it finished that turn no end is ahead.
LEMMA LaneAlone ==
    ASSUME TInv, SInv, Single, Ends, ~At(Lane, "idle")
    PROVE  LET t == proc[Lane].turn IN
           /\ t \in Turns /\ Under(t) /\ \A u \in Turns : Under(u) \/ Ahead(u) \/ u \in rt.ensured => u = t
           /\ \A c \in Clients : ~Sending(proc[c]) /\ ~Resolving(proc[c])
           /\ Ending(proc[Lane]) => \A u \in Turns : ~Ahead(u) /\ u \notin rt.ensured
<1> DEFINE t == proc[Lane].turn
<1>1. t \in Turns /\ Under(t) BY UnderFrames
<1>2. \A u \in Turns : Under(u) \/ Ahead(u) \/ u \in rt.ensured => u = t BY <1>1, AheadUnder DEF Single
<1>3. \A c \in Clients : ~Sending(proc[c]) /\ ~Resolving(proc[c]) BY <1>1 DEF Single
<1>4. ASSUME Ending(proc[Lane]) PROVE \A u \in Turns : ~Ahead(u) /\ u \notin rt.ensured
  <2>1. t \in rt.finished BY <1>4 DEF SInv
  <2>2. ~Ahead(t) BY <1>1, <2>1 DEF Ends
  <2> QED BY <1>2, <2>2 DEF Ends
<1> QED BY <1>1, <1>2, <1>3, <1>4

\* One frame moves and the store stays.
LEMMA RowsFrame ==
    ASSUME TInv, Rows, NEW p \in Procs, \A q \in Procs \ {p} : proc'[q] = proc[q],
           record' = record, ts' = ts,
           \A t \in Turns : Under(t)' => Under(t) \/ \A u \in Turns : ~Awaits(u),
           \A t \in Turns : Ahead(t)' => Ahead(t) \/ record[t] = "none",
           Writing(proc[p]) => Writing(proc'[p]) /\ proc'[p].turn = proc[p].turn,
           WriterRow(proc'[p], record),
           p \in Clients => ClientRow(proc'[p], record, ts) /\ rt'.ensured = rt.ensured,
           p = Lane => /\ LaneRow(proc'[Lane], record, ts)
                       /\ \A t \in rt'.ensured : Ensuring(proc'[Lane]) \/ (Running(t) /\ Row(t)),
           rt'.ensured \subseteq Turns
    PROVE  Rows'
<1>0. Lane \in Procs /\ Clients \subseteq Procs /\ Lane \notin Clients BY ConstantsAssumption DEF Procs
<1>1. \A t \in Turns : (Awaits(t)' <=> Awaits(t)) /\ (Running(t)' <=> Running(t)) /\ (Row(t)' <=> Row(t))
  BY RowsAfter DEF Awaits, Running, Row
<1>2. Blocked' BY <1>1 DEF Rows, Blocked
<1>3. \A q \in Procs, t \in Turns : Writes(q, t) => Writes(q, t)' BY RowsAfter DEF Writes
<1>4. \A t \in Turns : Ahead(t)' => record'[t] = "none" \/ (Running(t)' /\ (Row(t)' \/ \E q \in Procs : Writes(q, t)'))
  BY <1>1, <1>3 DEF Rows, Opened
<1>5. \A t \in rt'.ensured : Ensuring(proc'[Lane]) \/ (Running(t)' /\ Row(t)')
  <2>1. CASE p = Lane BY <1>1, <2>1
  <2>2. CASE p # Lane
    <3>1. p \in Clients /\ proc'[Lane] = proc[Lane] BY <1>0, <2>2 DEF Procs
    <3> QED BY <1>1, <3>1 DEF Rows, Opened
  <2> QED BY <2>1, <2>2
<1>6. Opened' BY <1>0, <1>4, <1>5, Primes DEF Opened
<1>7. \A c \in Clients : ClientRow(proc'[c], record', ts') BY <1>0 DEF Rows
<1>8. \A q \in Procs : WriterRow(proc'[q], record') BY DEF Rows
<1>9. LaneRow(proc'[Lane], record', ts') BY <1>0 DEF Rows
<1> QED BY <1>0, <1>2, <1>6, <1>7, <1>8, <1>9, RowsAfter DEF Rows

\* A blocking turn is a turn, and NoTurn is none.
LEMMA NoTurnApart == NoTurn \notin Turns /\ Keep \notin Turns
  BY ConstantsAssumption

\* What a client knows after a step that leaves the store: of users' commands,
LEMMA ClientRowUser ==
    ASSUME TInv, Calm, Rows, NEW c \in Clients, UserStep(c)
    PROVE  ClientRow(proc'[c], record, ts) /\ ~Writing(proc'[c]) /\ ~Writing(proc[c]) /\ record' = record /\ ts' = ts
<1> DEFINE f == proc[c]
           g == proc'[c]
<1>0. proc \in [Procs -> Frame] /\ c \in Procs /\ f \in Frame BY DEF TInv, TypeOK, Procs
<1>1. f.pc = "idle" /\ ~Writing(f) BY Admitted, Apart DEF At
<1>2. record' = record /\ ts' = ts BY DEF UserStep, SendText, Interrupt, AcceptTurn, RevertTurn, store
<1>3. CASE SendText(c)
  <2>1. CASE ts.blocking = NoTurn
    <3>1. g.pc \in {"prepare", "idle"}
      BY <1>0, <1>3, <2>1, BlankIdle DEF SendText, EnsureCanStartTurn, FailStart, Goto, Return, Frame
    <3>2. \A t \in Turns : ~Awaits(t) BY <2>1, NoTurnApart DEF Rows, Blocked
    <3>3. ClientRow(g, record, ts) BY <3>1, <3>2 DEF ClientRow, Resolving, Awaits
    <3> QED BY <1>1, <1>2, <3>1, <3>3 DEF Writing, Upserting
  <2>2. CASE ts.blocking # NoTurn
    <3>1. g.pc = "start_status" /\ g.target = ts.blocking BY <1>0, <1>3, <2>2 DEF SendText, Frame
    <3>2. ClientRow(g, record, ts) BY <3>1 DEF ClientRow, Resolving
    <3> QED BY <1>1, <1>2, <3>1, <3>2 DEF Writing, Upserting
  <2> QED BY <2>1, <2>2
<1>4. CASE AcceptTurn(c) \/ RevertTurn(c)
  <2>1. g.pc \in {"acc_write", "rev_write"} BY <1>0, <1>4 DEF AcceptTurn, RevertTurn, Frame
  <2>2. ClientRow(g, record, ts) BY <2>1 DEF ClientRow, Resolving, Upserting
  <2> QED BY <1>1, <1>2, <2>1, <2>2 DEF Writing, Upserting
<1> QED BY <1>3, <1>4, Admitted

\* of a start,
LEMMA ClientRowStart ==
    ASSUME TInv, Calm, Rows, NEW c \in Clients, StartStep(c)
    PROVE  ClientRow(proc'[c], record, ts) /\ ~Writing(proc'[c]) /\ ~Writing(proc[c]) /\ record' = record /\ ts' = ts
<1> DEFINE f == proc[c]
           g == proc'[c]
<1>0. proc \in [Procs -> Frame] /\ c \in Procs /\ f \in Frame /\ ClientRow(f, record, ts)
  BY DEF TInv, TypeOK, Procs, Rows
<1>1. f.pc \in {"start_status", "prepare", "starting", "restarting"} /\ ~Writing(f)
  BY DEF StartStep, CheckPendingApproval, PrepareTurn, ResumeThread, StartFails, TurnStart, At, Writing, Upserting
<1>2. record' = record /\ ts' = ts
  BY DEF StartStep, CheckPendingApproval, PrepareTurn, ResumeThread, StartFails, TurnStart, store
<1>3. CASE CheckPendingApproval(c)
  <2>1. g.pc = "idle" \/ (g.pc = "prepare" /\ record[f.target] # "awaiting_approval")
    BY <1>0, <1>3, BlankIdle DEF CheckPendingApproval, EnsureCanStartTurn, FailStart, Goto, Return, Frame
  <2>2. f.target = ts.blocking BY <1>0, <1>3 DEF CheckPendingApproval, At, ClientRow
  <2>3. g.pc = "prepare" => \A t \in Turns : ~Awaits(t) BY <2>1, <2>2 DEF Rows, Blocked, Awaits
  <2>4. ClientRow(g, record, ts) BY <2>1, <2>3 DEF ClientRow, Resolving, Awaits
  <2> QED BY <1>1, <1>2, <2>1, <2>4 DEF Writing, Upserting
<1>4. CASE PrepareTurn(c) \/ ResumeThread(c)
  <2>1. f.pc \in {"prepare", "starting"} /\ g.pc \in {"starting", "restarting"}
    BY <1>0, <1>4 DEF PrepareTurn, ResumeThread, At, Goto, Frame
  <2>2. ClientRow(g, record, ts) BY <1>0, <2>1 DEF ClientRow, Resolving
  <2> QED BY <1>1, <1>2, <2>1, <2>2 DEF Writing, Upserting
<1>5. CASE StartFails(c) \/ TurnStart(c)
  <2>1. g.pc \in {"idle", "ensure"} BY <1>0, <1>5, BlankIdle DEF StartFails, FailStart, Return, TurnStart, Frame
  <2>2. ClientRow(g, record, ts) BY <2>1 DEF ClientRow, Resolving
  <2> QED BY <1>1, <1>2, <2>1, <2>2 DEF Writing, Upserting
<1> QED BY <1>3, <1>4, <1>5 DEF StartStep

\* and of accepting and reverting, after the record is written.
LEMMA ClientRowCommand ==
    ASSUME TInv, Calm, Stages, Rows, NEW c \in Clients, CommandStep(c), ~WriteAccepted(c), ~WriteReverted(c)
    PROVE  ClientRow(proc'[c], record, ts) /\ ~Writing(proc'[c]) /\ ~Writing(proc[c]) /\ record' = record /\ ts' = ts
<1> DEFINE f == proc[c]
           g == proc'[c]
<1>0. proc \in [Procs -> Frame] /\ c \in Procs /\ f \in Frame /\ ClientRow(f, record, ts)
  BY DEF TInv, TypeOK, Procs, Rows
<1>1. Resolving(f) /\ (ReleaseBlocking(c) \/ ReleaseReferences(c) \/ CommandFails(c)) BY CalmCommands
<1>2. ~Writing(f) BY <1>1, Apart
<1>3. record' = record /\ ts' = ts BY <1>1 DEF ReleaseBlocking, ReleaseReferences, CommandFails, store
<1>4. CASE CommandFails(c) \/ (ReleaseBlocking(c) /\ Return(c))
  <2>1. g.pc = "idle" BY <1>0, <1>4, BlankIdle DEF CommandFails, Return
  <2> QED BY <1>2, <1>3, <2>1, RowsVacuous, Apart
<1>5. CASE ReleaseBlocking(c) /\ ~Return(c)
  <2>1. f.pc = "acc_state" /\ ts.blocking = f.turn /\ g.pc = "upsert_read" /\ g.then = "idle"
    BY <1>0, <1>5 DEF ReleaseBlocking, At, Upsert, Frame
  <2>2. \A t \in Turns : ~Awaits(t) BY <1>0, <2>1 DEF Rows, Blocked, Awaits, ClientRow
  <2>3. ClientRow(g, record, ts) BY <2>1, <2>2 DEF ClientRow, Awaits
  <2> QED BY <1>2, <1>3, <2>1, <2>3 DEF Writing
<1>6. CASE ReleaseReferences(c)
  <2>1. /\ f.pc = "rev_state" /\ g.pc = "upsert_read" /\ g.then = "idle"
        /\ g.patch = ClearTurnReferences(ts, f.turn)
    BY <1>0, <1>6 DEF ReleaseReferences, At, Upsert, Frame
  <2>2. \A t \in Turns : Awaits(t) => ts.blocking # f.turn
    BY <1>0, <2>1 DEF Rows, Blocked, Awaits, ClientRow
  <2>3. ts.blocking # f.turn => g.patch.blocking = Keep BY <2>1 DEF ClearTurnReferences
  <2>4. ClientRow(g, record, ts) BY <2>1, <2>2, <2>3 DEF ClientRow, Awaits
  <2> QED BY <1>2, <1>3, <2>1, <2>4 DEF Writing
<1> QED BY <1>1, <1>4, <1>5, <1>6

\* A process in ensureTurnStarted that leaves the store keeps what it will write,
LEMMA WriterRowEnsure ==
    ASSUME TInv, Rows, NEW p \in Procs, EnsureStep(p), ~CreateTurnStart(p), ~UpsertWrite(p)
    PROVE  /\ WriterRow(proc'[p], record) /\ record' = record /\ ts' = ts
           /\ Writing(proc[p]) => Writing(proc'[p]) /\ proc'[p].turn = proc[p].turn
<1> DEFINE f == proc[p]
           g == proc'[p]
<1>0. proc \in [Procs -> Frame] /\ f \in Frame /\ WriterRow(f, record) BY DEF TInv, TypeOK, Rows
<1>1. record' = record /\ ts' = ts
  BY DEF EnsureStep, EnsureEnter, EnsureRead, EnsureJoined, EnsureDone, EnsureFails, UpsertRead, store
<1>2. CASE UpsertRead(p)
  <2>1. f.pc = "upsert_read" /\ g.pc = "upsert_write" /\ g.then = f.then /\ g.turn = f.turn /\ g.patch = f.patch
    BY <1>0, <1>2 DEF UpsertRead, At, Frame
  <2> QED BY <1>0, <1>1, <2>1 DEF WriterRow, Writing, Upserting
<1>3. CASE EnsureRead(p)
  <2>1. f.pc = "ensure_read" BY <1>3 DEF EnsureRead, At
  <2>2. CASE g.pc \in {"ensure_create", "ensured"} BY <1>1, <2>1, <2>2 DEF WriterRow, Writing, Upserting
  <2>3. CASE record[f.turn] = "running"
    <3>1. g.pc = "upsert_read" /\ g.turn = f.turn /\ g.patch = MarkTurnRunning(f.turn)
      BY <1>0, <1>3, <2>3 DEF EnsureRead, Upsert, Frame
    <3> QED BY <1>1, <2>1, <2>3, <3>1 DEF WriterRow, Writing, Upserting
  <2> QED BY <1>0, <1>3, <2>2, <2>3 DEF EnsureRead, Goto, Frame
<1>4. CASE EnsureEnter(p) \/ EnsureJoined(p) \/ EnsureDone(p) \/ EnsureFails(p)
  <2>1. ~Writing(f)
    BY <1>4 DEF EnsureEnter, EnsureJoined, EnsureDone, EnsureFails, At, Writing, Upserting
  <2>2. g.pc \in {"join", "ensure_read", "handle", "idle"}
    BY <1>0, <1>4, BlankIdle DEF EnsureEnter, EnsureJoined, EnsureDone, EnsureFails, Proceed, FailStart, Goto, Return, Frame
  <2> QED BY <1>1, <2>1, <2>2 DEF WriterRow, Writing, Upserting
<1> QED BY <1>2, <1>3, <1>4 DEF EnsureStep

\* and knows no more of the turn that awaits a decision.
LEMMA ClientRowEnsure ==
    ASSUME TInv, Calm, Stages, Rows, NEW c \in Clients, EnsureStep(c), ~CreateTurnStart(c), ~UpsertWrite(c)
    PROVE  ClientRow(proc'[c], record, ts)
<1> DEFINE f == proc[c]
           g == proc'[c]
<1>0. proc \in [Procs -> Frame] /\ c \in Procs /\ f \in Frame /\ ClientRow(f, record, ts) /\ ClientStage(f)
  BY DEF TInv, TypeOK, Procs, Rows, Stages
<1>1. CASE Ensuring(f)
  <2>1. g.pc = "idle" \/ Ensuring(g) BY <1>1, ClientMoves
  <2> QED BY <2>1, RowsVacuous, Apart
<1>2. CASE Resolving(f)
  <2>1. UpsertRead(c) BY <1>2, ClientMoves, Apart, CalmCommands DEF EnsureStep, EnsureEnter, EnsureRead, EnsureJoined, EnsureDone, EnsureFails, At, Resolving, Upserting
  <2>2. /\ f.pc = "upsert_read" /\ g.pc = "upsert_write" /\ g.then = f.then /\ g.patch = f.patch /\ g.seen = ts
    BY <1>0, <2>1 DEF UpsertRead, At, Frame
  <2>3. \A t \in Turns : Awaits(t) => f.patch.blocking = Keep /\ ts.blocking = t
    BY <1>0, <1>2, <2>2 DEF ClientRow, Upserting, Rows, Blocked, Awaits
  <2> QED BY <2>2, <2>3 DEF ClientRow, Awaits
<1> QED BY <1>0, <1>1, <1>2, ClientMoves, Apart DEF ClientStage, EnsureStep, EnsureEnter, EnsureRead, EnsureJoined, EnsureDone, EnsureFails,
       UpsertRead, At, Sending

\* The turn of a frame of which the invariant says something.
LEMMA FrameTurns ==
    ASSUME TInv, NEW p \in Procs
    PROVE  /\ Ensuring(proc[p]) \/ Ending(proc[p]) => proc[p].turn \in Turns
           /\ proc[p].pc \in {"acc_state", "rev_state", "acc_write", "rev_write", "ensured"} => proc[p].turn \in Turns
  BY DEF TInv, FramesOK, FrameOK, Ensuring, Ending, Completing, Closing, UsesTurn

\* Other frames' views outlive a change of a record under which no turn comes to await.
LEMMA ViewsKept ==
    ASSUME TInv, NEW p \in Procs, proc'[p] = proc[p],
           \A t \in Turns : record'[t] = "awaiting_approval" => record[t] = "awaiting_approval",
           \A t \in Turns : record[t] # "none" => record'[t] # "none",
           WriterRow(proc[p], record)
    PROVE  /\ WriterRow(proc'[p], record')
           /\ ClientRow(proc[p], record, ts) /\ ts' = ts => ClientRow(proc'[p], record', ts')
<1>1. WriterRow(proc'[p], record')
  BY FrameTurns, Apart DEF WriterRow
<1>2. ASSUME ClientRow(proc[p], record, ts), ts' = ts PROVE ClientRow(proc'[p], record', ts')
  BY <1>2, FrameTurns DEF ClientRow
<1> QED BY <1>1, <1>2

\* ensureTurnStarted creates the record of a turn and will mark it running.
LEMMA RowsCreate ==
    ASSUME TInv, RInv, Rows, NEW p \in Procs, CreateTurnStart(p),
           \A t \in Turns : Under(t)' => Under(t),
           \A t \in Turns : Ahead(t)' => Ahead(t) \/ record[t] = "none"
    PROVE  Rows'
<1> DEFINE f == proc[p]
           g == proc'[p]
<1>0. /\ Lane \in Procs /\ Clients \subseteq Procs /\ Lane \notin Clients /\ p \in Procs
      /\ record \in [Turns -> Statuses] /\ proc \in [Procs -> Frame] /\ f \in Frame
  BY ConstantsAssumption DEF Procs, TInv, TypeOK
<1>1. f.pc = "ensure_create" /\ Ensuring(f) /\ ~Writing(f) BY DEF CreateTurnStart, At, Ensuring, Writing, Upserting
<1>a. f.turn \in Turns /\ record[f.turn] = "none" BY <1>1, FrameTurns DEF RInv
<1> PICK t \in Turns : t = f.turn BY <1>a
<1>2. t \in Turns /\ record[t] = "none" BY <1>a
<1>3. record' = [record EXCEPT ![t] = "running"] /\ ts' = ts /\ rt' = rt BY DEF CreateTurnStart
<1>4. /\ g.pc = "upsert_read" /\ g.then = "ensured" /\ g.turn = t /\ g.patch = MarkTurnRunning(t)
      /\ \A q \in Procs : q # p => proc'[q] = proc[q]
  BY <1>0 DEF CreateTurnStart, Upsert, Frame
<1>5. Ensuring(g) /\ Writing(g) BY <1>4 DEF Ensuring, Writing, Upserting
<1> HIDE DEF f, g
<1>6. /\ record'[t] = "running" /\ \A u \in Turns : u # t => record'[u] = record[u]
      /\ \A u \in Turns : record'[u] = "awaiting_approval" <=> record[u] = "awaiting_approval"
  BY <1>0, <1>2, <1>3
<1>7. \A u \in Turns : (Awaits(u)' <=> Awaits(u)) /\ (Row(u)' <=> Row(u)) /\ (Running(u) => Running(u)')
  BY <1>2, <1>3, <1>6, RowsAfter DEF Awaits, Row, Running
<1>8. Blocked' BY <1>3, <1>7 DEF Rows, Blocked
<1>9. \A q \in Procs, u \in Turns : Writes(q, u) => Writes(q, u)' BY <1>1, <1>4, RowsAfter DEF Writes, f
<1>10. Running(t)' /\ Writes(p, t)' BY <1>0, <1>2, <1>4, <1>5, <1>6, RowsAfter DEF Writes, g
<1>11. \A u \in Turns : Ahead(u)' => record'[u] = "none" \/ (Running(u)' /\ (Row(u)' \/ \E q \in Procs : Writes(q, u)'))
  BY <1>0, <1>6, <1>7, <1>9, <1>10 DEF Rows, Opened
<1>12. \A u \in rt'.ensured : Ensuring(proc'[Lane]) \/ (Running(u)' /\ Row(u)')
  <2>1. rt.ensured \subseteq Turns BY DEF TInv, TypeOK, Runtime
  <2>2. CASE p = Lane BY <1>5, <2>2 DEF g
  <2>3. CASE p # Lane BY <1>0, <1>3, <1>4, <1>7, <2>1, <2>3 DEF Rows, Opened
  <2> QED BY <2>2, <2>3
<1>13. Opened' BY <1>0, <1>11, <1>12, Primes DEF Opened
<1>14. WriterRow(g, record') /\ ClientRow(g, record', ts') /\ LaneRow(g, record', ts')
  BY <1>4, <1>5, <1>6, Apart, RowsVacuous DEF WriterRow
<1>15. ASSUME NEW q \in Procs, q # p
       PROVE  WriterRow(proc'[q], record') /\ (ClientRow(proc[q], record, ts) => ClientRow(proc'[q], record', ts'))
  BY <1>2, <1>3, <1>4, <1>6, <1>15, ViewsKept DEF Rows
<1>16. ASSUME Lane # p PROVE LaneRow(proc'[Lane], record', ts')
  <2>1. proc'[Lane] = proc[Lane] /\ LaneRow(proc[Lane], record, ts) BY <1>0, <1>4, <1>16 DEF Rows
  <2>2. proc[Lane].pc = "ensured" \/ Ending(proc[Lane]) => proc[Lane].turn \in Turns BY <1>0, FrameTurns
  <2>3. proc[Lane].pc = "final_write" => record[proc[Lane].turn] # "none"
    BY <1>0, <2>1, <2>2 DEF RInv, FrameKnown, Known, Ending, Closing
  <2>4. CASE ~Ending(proc[Lane]) /\ proc[Lane].pc # "ensured" BY <2>1, <2>4, RowsVacuous
  <2>5. CASE Ending(proc[Lane]) \/ proc[Lane].pc = "ensured"
    <3>1. proc[Lane].turn \in Turns BY <2>2, <2>5
    <3>2. record[proc[Lane].turn] = "running" => record'[proc[Lane].turn] = "running" BY <1>2, <1>6, <3>1
    <3>3. record[proc[Lane].turn] # "none" => record'[proc[Lane].turn] = record[proc[Lane].turn] BY <1>2, <1>6, <3>1
    <3> QED BY <1>3, <1>6, <2>1, <2>3, <3>1, <3>2, <3>3 DEF LaneRow
  <2> QED BY <2>4, <2>5
<1>17. \A c \in Clients : ClientRow(proc'[c], record', ts') BY <1>0, <1>14, <1>15 DEF Rows, g
<1>18. \A q \in Procs : WriterRow(proc'[q], record') BY <1>14, <1>15 DEF g
<1>19. LaneRow(proc'[Lane], record', ts') BY <1>14, <1>16 DEF g
<1> QED BY <1>0, <1>8, <1>13, <1>17, <1>18, <1>19, RowsAfter DEF Rows

\* The read-modify-write that marks a turn running names it in the row.
LEMMA RowsMark ==
    ASSUME TInv, SInv, Stages, Single, Ends, Rows, NEW p \in Procs, UpsertWrite(p), proc[p].then = "ensured",
           \A t \in Turns : Under(t)' => Under(t),
           \A t \in Turns : Ahead(t)' => Ahead(t) \/ record[t] = "none"
    PROVE  Rows'
<1> DEFINE f == proc[p]
           g == proc'[p]
<1>0. /\ Lane \in Procs /\ Clients \subseteq Procs /\ Lane \notin Clients /\ p \in Procs
      /\ proc \in [Procs -> Frame] /\ f \in Frame
  BY ConstantsAssumption DEF Procs, TInv, TypeOK
<1>1. Ensuring(f) /\ Writing(f) BY DEF UpsertWrite, At, Ensuring, Writing, Upserting
<1>a. f.turn \in Turns BY <1>0, <1>1, FrameTurns
<1> PICK t \in Turns : t = f.turn BY <1>a
<1>2. t \in Turns /\ Under(t) /\ record[t] # "none" /\ f.patch = MarkTurnRunning(t)
  <2>1. Under(t)
    <3>1. f.pc # "idle" BY <1>1, Apart
    <3> QED BY <1>0, <1>1, <3>1, UnderFrames DEF Procs, At
  <2> QED BY <1>0, <1>1, <2>1, FrameTurns DEF Rows, WriterRow
<1>3. ts' = Patched(f.seen, f.patch) /\ record' = record /\ rt' = rt BY DEF UpsertWrite
<1>4. g.pc = "ensured" /\ g.turn = t /\ \A q \in Procs : q # p => proc'[q] = proc[q]
  BY <1>0 DEF UpsertWrite, Goto, Frame
<1> HIDE DEF f, g
<1>5. ts'.active = t /\ ts'.blocking = t BY <1>2, <1>3, NoTurnApart DEF Patched, Pick, MarkTurnRunning
<1>6. Row(t)' BY <1>2, <1>5, RowsAfter
<1>7. \A u \in Turns : (Awaits(u)' <=> Awaits(u)) /\ (Running(u)' <=> Running(u))
  BY <1>3, RowsAfter DEF Awaits, Running
<1>8. \A u \in Turns : Under(u) \/ Ahead(u) \/ u \in rt.ensured \/ Awaits(u) => u = t
  BY <1>2, AheadUnder DEF Single, Rows, Blocked
<1>9. Blocked' BY <1>5, <1>7, <1>8 DEF Rows, Blocked
<1>10. Ahead(t) => Running(t)' BY <1>2, <1>7 DEF Rows, Opened
<1>11. \A u \in Turns : Ahead(u)' => record'[u] = "none" \/ (Running(u)' /\ Row(u)')
  BY <1>3, <1>6, <1>8, <1>10 DEF Rows
<1>12. \A u \in rt'.ensured : Running(u)' /\ Row(u)'
  <2>1. rt.ensured \subseteq Turns BY DEF TInv, TypeOK, Runtime
  <2> QED BY <1>3, <1>6, <1>8, <1>10, <2>1 DEF Ends
<1>13. Opened' BY <1>11, <1>12 DEF Opened
<1>14. \A c \in Clients : ~Sending(proc'[c]) /\ ~Resolving(proc'[c])
  <2>1. \A c \in Clients : ~Sending(proc[c]) /\ ~Resolving(proc[c]) BY <1>2 DEF Single
  <2>2. ~Sending(g) /\ ~Resolving(g) BY <1>4 DEF Sending, Resolving, Upserting
  <2> QED BY <1>0, <1>4, <2>1, <2>2 DEF g
<1>15. \A c \in Clients : ClientRow(proc'[c], record', ts') BY <1>14, RowsVacuous
<1>16. \A q \in Procs : WriterRow(proc'[q], record')
  <2>1. ~Writing(g) BY <1>4 DEF Writing, Upserting
  <2> QED BY <1>3, <1>4, <2>1, RowsVacuous DEF Rows, g
<1>17. LaneRow(proc'[Lane], record', ts')
  <2>1. CASE p = Lane
    <3>1. Handling(f) /\ f = proc[Lane] BY <1>1, <2>1, Apart DEF f
    <3>2. t \in rt.ensured /\ Ahead(t) BY <1>2, <3>1 DEF Ends, f
    <3>3. record'[t] = "running" BY <1>2, <1>10, <3>2, RowsAfter
    <3> QED BY <1>4, <1>5, <2>1, <3>3 DEF LaneRow, Completing, Upserting, g
  <2>2. CASE p # Lane
    <3>1. proc'[Lane] = proc[Lane] /\ LaneRow(proc[Lane], record, ts) BY <1>0, <1>4, <2>2 DEF Rows
    <3>2. CASE proc[Lane].pc = "ensured" \/ Ending(proc[Lane])
      <4>1. ~At(Lane, "idle") BY <3>2, Apart DEF At
      <4>2. proc[Lane].turn \in Turns /\ Under(proc[Lane].turn) BY <4>1, UnderFrames
      <4>3. proc[Lane].turn = t BY <1>8, <4>2
      <4> QED BY <1>3, <1>5, <3>1, <4>3 DEF LaneRow
    <3>3. CASE ~(proc[Lane].pc = "ensured" \/ Ending(proc[Lane])) BY <3>1, <3>3, RowsVacuous
    <3> QED BY <3>2, <3>3
  <2> QED BY <2>1, <2>2
<1> QED BY <1>0, <1>9, <1>13, <1>15, <1>16, <1>17, RowsAfter DEF Rows

\* A user who accepts or reverts writes the record, then the row, while nothing is under way.
LEMMA RowsResolve ==
    ASSUME TInv, SInv, Calm, Stages, Single, Ends, Rows, NEW c \in Clients, Resolving(proc[c]),
           WriteAccepted(c) \/ WriteReverted(c) \/ UpsertWrite(c),
           \A t \in Turns : Under(t)' => Under(t),
           \A t \in Turns : Ahead(t)' => Ahead(t)
    PROVE  Rows'
<1> DEFINE f == proc[c]
           g == proc'[c]
<1>0. /\ Lane \in Procs /\ Clients \subseteq Procs /\ Lane \notin Clients /\ c \in Procs
      /\ proc \in [Procs -> Frame] /\ f \in Frame /\ record \in [Turns -> Statuses]
  BY ConstantsAssumption DEF Procs, TInv, TypeOK
<1>1. \A t \in Turns : ~Under(t) /\ ~Ahead(t) /\ t \notin rt.ensured BY AheadUnder DEF Single
<1>2. rt.ensured = {} BY <1>1 DEF TInv, TypeOK, Runtime
<1>3. proc[Lane].pc = "idle" BY <1>1, UnderFrames DEF At
<1>4. /\ \A q \in Procs : q # c => proc'[q] = proc[q]
      /\ rt'.ensured = {}
  <2>1. EnsureStep(c) \/ CommandStep(c) BY DEF EnsureStep, CommandStep
  <2> QED BY <1>0, <1>2, <2>1, ClientEffect
<1>5. LaneRow(proc'[Lane], record', ts') BY <1>0, <1>3, <1>4, RowsVacuous
<1>6. ~Writing(f) /\ ~Writing(g)
  <2>1. ~Writing(f) BY Apart
  <2>2. UpsertWrite(c) => f.then = "idle" BY DEF UpsertWrite, At, Resolving
  <2>3. UpsertWrite(c) => g.pc = "idle" BY <1>0, <2>2, BlankIdle DEF UpsertWrite, Return
  <2>4. ~UpsertWrite(c) => g.pc \in {"acc_state", "rev_state"} BY <1>0 DEF WriteAccepted, WriteReverted, Goto, Frame
  <2> QED BY <2>1, <2>3, <2>4 DEF Writing, Upserting
<1>7. CASE WriteAccepted(c) \/ WriteReverted(c)
  <2> DEFINE x == f.turn
  <2>1. x \in Turns BY <1>0, <1>7, FrameTurns DEF WriteAccepted, WriteReverted, At
  <2>2. /\ ts' = ts /\ g.pc \in {"acc_state", "rev_state"} /\ g.turn = x
        /\ \E s \in {"accepted", "reverted"} : record' = [record EXCEPT ![x] = s]
    BY <1>0, <1>7 DEF WriteAccepted, WriteReverted, Goto, Frame
  <2>3. record'[x] \in {"accepted", "reverted"} /\ \A t \in Turns : t # x => record'[t] = record[t]
    BY <1>0, <2>1, <2>2
  <2> HIDE DEF x, g
  <2>4. \A t \in Turns : Awaits(t)' => Awaits(t) /\ t # x BY <2>1, <2>3, RowsAfter DEF Awaits
  <2>5. Blocked' BY <2>2, <2>4 DEF Rows, Blocked
  <2>6. Opened' BY <1>1, <1>4 DEF Opened
  <2>7. \A t \in Turns : /\ record'[t] = "awaiting_approval" => record[t] = "awaiting_approval"
                         /\ record[t] # "none" => record'[t] # "none"
    BY <2>1, <2>3
  <2>8. ClientRow(g, record', ts') BY <2>2, <2>3 DEF ClientRow, Resolving, Upserting
  <2>9. \A q \in Procs : WriterRow(proc'[q], record')
    <3>1. ASSUME NEW q \in Procs, q # c PROVE WriterRow(proc'[q], record')
      <4>1. proc'[q] = proc[q] /\ WriterRow(proc[q], record) BY <1>4, <3>1 DEF Rows
      <4> QED BY <2>7, <4>1, ViewsKept
    <3>2. WriterRow(g, record') BY <1>6, RowsVacuous
    <3> QED BY <3>1, <3>2 DEF g
  <2>10. ASSUME NEW d \in Clients PROVE ClientRow(proc'[d], record', ts')
    <3>1. CASE d = c BY <2>8, <3>1 DEF g
    <3>2. CASE d # c
      <4>1. d \in Procs /\ proc'[d] = proc[d] /\ ClientRow(proc[d], record, ts) /\ WriterRow(proc[d], record)
        BY <1>0, <1>4, <3>2 DEF Rows
      <4> QED BY <2>2, <2>7, <4>1, ViewsKept
    <3> QED BY <3>1, <3>2
  <2> QED BY <1>0, <1>5, <2>5, <2>6, <2>9, <2>10, RowsAfter DEF Rows
<1>8. CASE UpsertWrite(c)
  <2>1. f.pc = "upsert_write" /\ f.then = "idle" BY <1>8 DEF UpsertWrite, At, Resolving
  <2>2. ts' = Patched(f.seen, f.patch) /\ record' = record /\ g.pc = "idle"
    BY <1>0, <1>8, <2>1, BlankIdle DEF UpsertWrite, Return
  <2>3. \A t \in Turns : Awaits(t) => f.patch.blocking = Keep /\ f.seen.blocking = t
    BY <2>1 DEF Rows, ClientRow, Awaits, Upserting
  <2>4. \A t \in Turns : Awaits(t)' <=> Awaits(t) BY <2>2, RowsAfter DEF Awaits
  <2>5. \A t \in Turns : Awaits(t)' => ts'.blocking = t BY <2>2, <2>3, <2>4 DEF Patched, Pick
  <2>6. Blocked' BY <1>1, <2>5 DEF Blocked
  <2>7. Opened' BY <1>1, <1>4 DEF Opened
  <2>8. \A q \in Procs : WriterRow(proc'[q], record')
    BY <1>4, <1>6, <2>2, RowsVacuous DEF Rows
  <2>9. ASSUME NEW d \in Clients PROVE ClientRow(proc'[d], record', ts')
    <3>1. CASE d = c BY <2>2, <3>1, RowsVacuous
    <3>2. CASE d # c
      <4>1. proc'[d] = proc[d] /\ ClientRow(proc[d], record, ts) BY <1>0, <1>4, <3>2 DEF Rows
      <4>2. proc[d].pc = "idle" \/ Resolving(proc[d]) BY <2>1, <3>2 DEF Stages, At
      <4>3. CASE proc[d].pc = "idle" BY <4>1, <4>3, RowsVacuous
      <4>4. CASE Resolving(proc[d])
        <5>1. ~Sending(proc[d]) BY <4>4, Apart
        <5> QED BY <2>2, <4>1, <5>1 DEF ClientRow, Sending
      <4> QED BY <4>2, <4>3, <4>4
    <3> QED BY <3>1, <3>2
  <2> QED BY <1>0, <1>5, <2>6, <2>7, <2>8, <2>9, RowsAfter DEF Rows
<1> QED BY <1>7, <1>8

\* The lane completes the turn it finished, while no other is under way.
LEMMA RowsComplete ==
    ASSUME TInv, SInv, Single, Ends, Rows, CompleteActiveTurn,
           \A t \in Turns : Under(t)' => Under(t),
           \A t \in Turns : Ahead(t)' => Ahead(t)
    PROVE  Rows'
<1> DEFINE f == proc[Lane]
           g == proc'[Lane]
<1>0. /\ Lane \in Procs /\ Clients \subseteq Procs /\ Lane \notin Clients
      /\ proc \in [Procs -> Frame] /\ f \in Frame /\ record \in [Turns -> Statuses] /\ rt.ensured \subseteq Turns
  BY ConstantsAssumption DEF Procs, TInv, TypeOK, Runtime
<1>1. f.pc = "complete_write" /\ Completing(f) /\ Ending(f) BY DEF CompleteActiveTurn, At, Completing, Ending
<1>2. ~At(Lane, "idle") BY <1>1 DEF At
<1>a. f.turn \in Turns BY <1>2, LaneAlone
<1> PICK t \in Turns : t = f.turn BY <1>a
<1>3. /\ f.target = t /\ record[t] = "running" /\ ts.active = t /\ ts.blocking = t
  BY <1>1 DEF Rows, LaneRow
<1>4. /\ Under(t) /\ \A u \in Turns : Under(u) => u = t
      /\ \A c \in Clients : ~Sending(proc[c]) /\ ~Resolving(proc[c])
      /\ \A u \in Turns : ~Ahead(u) /\ u \notin rt.ensured
  BY <1>1, <1>2, LaneAlone
<1>5. /\ ts' = ts /\ rt' = rt
      /\ g.pc = "upsert_read" /\ g.then = "final_read" /\ g.turn = t
      /\ \/ record' = [record EXCEPT ![t] = "awaiting_approval"] /\ g.patch = MarkTurnAwaitingApproval(t)
         \/ record' = [record EXCEPT ![t] = "completed"] /\ g.patch = MarkTurnCompleted(t)
  BY <1>0, <1>3 DEF CompleteActiveTurn, Upsert, Frame
<1>6. \A c \in Clients : proc'[c] = proc[c]
  <2>1. LaneStep BY DEF LaneStep
  <2> QED BY <1>0, <2>1, OtherFrames
<1> HIDE DEF f, g
<1>7. /\ \A u \in Turns : u # t => record'[u] = record[u]
      /\ record'[t] # "none"
      /\ \/ g.patch.blocking = t
         \/ g.patch.blocking = NoTurn /\ record'[t] # "awaiting_approval"
  BY <1>0, <1>5 DEF MarkTurnAwaitingApproval, MarkTurnCompleted
<1>8. \A u \in Turns : Awaits(u)' => u = t
  <2> SUFFICES ASSUME NEW u \in Turns, Awaits(u)', u # t PROVE FALSE
    OBVIOUS
  <2>1. Awaits(u) BY <1>7, RowsAfter DEF Awaits
  <2> QED BY <1>4, <2>1 DEF Rows, Blocked
<1>9. Blocked' BY <1>3, <1>4, <1>5, <1>8 DEF Blocked
<1>10. Opened' BY <1>0, <1>4, <1>5 DEF Opened
<1>11. \A c \in Clients : ClientRow(proc'[c], record', ts') BY <1>4, <1>6, RowsVacuous
<1>12. \A q \in Procs : WriterRow(proc'[q], record')
  <2>1. ~Writing(g) BY <1>5 DEF Writing
  <2>2. ASSUME NEW c \in Clients PROVE WriterRow(proc'[c], record')
    <3>1. Writing(proc[c]) => proc[c].turn \in Turns BY <1>0, FrameTurns, Apart
    <3>2. WriterRow(proc[c], record) BY <1>0 DEF Rows
    <3> QED BY <1>6, <1>7, <3>1, <3>2 DEF WriterRow
  <2> QED BY <2>1, <2>2, RowsVacuous DEF Procs, g
<1>13. LaneRow(proc'[Lane], record', ts')
  BY <1>5, <1>7 DEF LaneRow, Completing, g
<1> QED BY <1>0, <1>9, <1>10, <1>11, <1>12, <1>13, RowsAfter DEF Rows

\* It writes the row: the turn it completed awaits a decision and blocks, or does not.
LEMMA RowsClose ==
    ASSUME TInv, SInv, Single, Ends, Rows, UpsertWrite(Lane), Closing(proc[Lane]),
           \A t \in Turns : Under(t)' => Under(t),
           \A t \in Turns : Ahead(t)' => Ahead(t)
    PROVE  Rows'
<1> DEFINE f == proc[Lane]
           g == proc'[Lane]
<1>0. /\ Lane \in Procs /\ Clients \subseteq Procs /\ Lane \notin Clients
      /\ proc \in [Procs -> Frame] /\ f \in Frame /\ rt.ensured \subseteq Turns
  BY ConstantsAssumption DEF Procs, TInv, TypeOK, Runtime
<1>1. f.pc = "upsert_write" /\ f.then = "final_read" /\ Ending(f)
  BY DEF UpsertWrite, At, Closing, Ending
<1>2. ~At(Lane, "idle") BY <1>1 DEF At
<1>a. f.turn \in Turns BY <1>2, LaneAlone
<1> PICK t \in Turns : t = f.turn BY <1>a
<1>3. f.patch.blocking = t \/ (f.patch.blocking = NoTurn /\ ~Awaits(t))
  BY <1>1 DEF Rows, LaneRow, Upserting, Awaits
<1>4. /\ Under(t) /\ \A u \in Turns : Under(u) => u = t
      /\ \A c \in Clients : ~Sending(proc[c]) /\ ~Resolving(proc[c])
      /\ \A u \in Turns : ~Ahead(u) /\ u \notin rt.ensured
  BY <1>1, <1>2, LaneAlone
<1>5. ts' = Patched(f.seen, f.patch) /\ record' = record /\ rt' = rt /\ g.pc = "final_read"
  BY <1>0, <1>1 DEF UpsertWrite, Goto, Frame
<1>6. \A c \in Clients : proc'[c] = proc[c]
  <2>1. EnsureStep(Lane) BY DEF EnsureStep
  <2> QED BY <1>0, <2>1, OtherFrames
<1> HIDE DEF f, g
<1>7. \A u \in Turns : Awaits(u)' <=> Awaits(u) BY <1>5, RowsAfter DEF Awaits
<1>8. \A u \in Turns : Awaits(u) => u = t BY <1>4 DEF Rows, Blocked
<1>9. Awaits(t) => ts'.blocking = t BY <1>3, <1>5, NoTurnApart DEF Patched, Pick
<1>10. Blocked' BY <1>4, <1>7, <1>8, <1>9 DEF Blocked
<1>11. Opened' BY <1>0, <1>4, <1>5 DEF Opened
<1>12. \A c \in Clients : ClientRow(proc'[c], record', ts') BY <1>4, <1>6, RowsVacuous
<1>13. \A q \in Procs : WriterRow(proc'[q], record')
  <2>1. ~Writing(g) BY <1>5 DEF Writing, Upserting
  <2> QED BY <1>5, <1>6, <2>1, RowsVacuous DEF Procs, Rows, g
<1>14. LaneRow(proc'[Lane], record', ts') BY <1>5 DEF LaneRow, Completing, Upserting, g
<1> QED BY <1>0, <1>10, <1>11, <1>12, <1>13, <1>14, RowsAfter DEF Rows

\* The lane in ensureTurnStarted, the store untouched: it goes on with a turn that runs.
LEMMA LaneRowEnsure ==
    ASSUME TInv, RInv, SInv, Stages, Single, Ends, Rows, EnsureStep(Lane), ~CreateTurnStart(Lane), ~UpsertWrite(Lane)
    PROVE  /\ LaneRow(proc'[Lane], record, ts)
           /\ \A t \in rt'.ensured : t \in Turns /\ (Ensuring(proc'[Lane]) \/ (Running(t) /\ Row(t)))
<1> DEFINE f == proc[Lane]
           g == proc'[Lane]
           t == f.turn
<1>0. /\ Lane \in Procs /\ Lane \notin Clients /\ proc \in [Procs -> Frame] /\ f \in Frame
      /\ rt \in Runtime /\ rt.ensured \subseteq Turns /\ LaneRow(f, record, ts)
  BY ConstantsAssumption DEF Procs, TInv, TypeOK, Runtime, Rows
<1>1. ~At(Lane, "idle") BY LaneEnsureMoves, Apart DEF At, Ending
<1>2. t \in Turns /\ \A u \in Turns : Under(u) \/ Ahead(u) \/ u \in rt.ensured => u = t
  BY <1>1, LaneAlone
<1>3. CASE EnsureEnter(Lane)
  <2>1. g.pc \in {"join", "ensure_read"} /\ rt' = rt BY <1>0, <1>3 DEF EnsureEnter, Goto, Frame
  <2> QED BY <1>0, <2>1 DEF LaneRow, Completing, Upserting, Ensuring
<1>4. CASE EnsureRead(Lane)
  <2>1. f.pc = "ensure_read" /\ rt' = rt /\ Handling(f) BY <1>4 DEF EnsureRead, At, Handling, Ensuring
  <2>2. t \in rt.ensured /\ Ahead(t) BY <1>2, <2>1 DEF Ends
  <2>3. record[t] \in {"none", "running"} BY <1>2, <2>2 DEF Rows, Opened, Running
  <2>4. g.pc = "ensure_create" \/ (g.pc = "upsert_read" /\ g.then = "ensured")
    BY <1>0, <1>4, <2>3 DEF EnsureRead, Goto, Upsert, Frame
  <2> QED BY <1>0, <2>1, <2>4 DEF LaneRow, Completing, Upserting, Ensuring
<1>5. CASE EnsureJoined(Lane)
  <2>1. /\ f.pc = "join" /\ t \notin inflight /\ record[t] # "none" /\ rt' = rt /\ g.pc = "handle" /\ Handling(f)
    BY <1>0, <1>5 DEF EnsureJoined, At, Proceed, Goto, Frame, Handling, Ensuring
  <2>2. t \in rt.ensured /\ Ahead(t) BY <1>2, <2>1 DEF Ends
  <2>3. \A p \in Procs : ~Writes(p, t) BY <2>1 DEF RInv, InflightOwned, Writes, Writing, Critical
  <2>4. Running(t) /\ Row(t) BY <1>2, <2>1, <2>2, <2>3 DEF Rows, Opened
  <2>5. \A u \in rt'.ensured : u \in Turns /\ Running(u) /\ Row(u) BY <1>0, <1>2, <2>1, <2>4
  <2> QED BY <2>1, <2>5 DEF LaneRow, Completing, Upserting
<1>6. CASE EnsureDone(Lane)
  <2>1. f.pc = "ensured" /\ rt' = rt /\ g.pc = "handle"
    BY <1>0, <1>6 DEF EnsureDone, At, Proceed, Goto, Frame
  <2>2. Running(t) /\ Row(t) BY <1>0, <2>1 DEF LaneRow, Running, Row
  <2>3. \A u \in rt'.ensured : u \in Turns /\ Running(u) /\ Row(u) BY <1>0, <1>2, <2>1, <2>2
  <2> QED BY <2>1, <2>3 DEF LaneRow, Completing, Upserting
<1>7. CASE EnsureFails(Lane)
  <2>1. rt' = [rt EXCEPT !.ensured = @ \ {t}] /\ g.pc = "idle"
    BY <1>0, <1>7, BlankIdle DEF EnsureFails, Return
  <2>2. rt'.ensured = rt.ensured \ {t} BY <1>0, <2>1 DEF Runtime
  <2>3. rt'.ensured = {} BY <1>0, <1>2, <2>2
  <2> QED BY <2>1, <2>3, RowsVacuous
<1>8. CASE UpsertRead(Lane)
  <2>1. /\ f.pc = "upsert_read" /\ g.pc = "upsert_write" /\ g.then = f.then /\ g.turn = f.turn /\ g.patch = f.patch
        /\ rt' = rt
    BY <1>0, <1>8 DEF UpsertRead, At, Frame
  <2>2. LaneRow(g, record, ts) BY <1>0, <2>1 DEF LaneRow, Completing, Upserting
  <2>3. Ensuring(g) \/ Ending(f) BY <2>1, LaneEnsureMoves DEF Ensuring, Upserting, Ending
  <2>4. Ending(f) => rt.ensured = {} BY <1>0, <1>1, LaneAlone
  <2> QED BY <1>0, <2>1, <2>2, <2>3, <2>4
<1> QED BY <1>3, <1>4, <1>5, <1>6, <1>7, <1>8 DEF EnsureStep

\* The lane's own steps that leave the store: what it ensured runs when it is not ensuring.
LEMMA LaneRowStep ==
    ASSUME TInv, RInv, SInv, Stages, Single, Ends, Rows, LaneStep, ~CompleteActiveTurn
    PROVE  /\ LaneRow(proc'[Lane], record, ts) /\ ~Writing(proc[Lane]) /\ ~Writing(proc'[Lane])
           /\ record' = record /\ ts' = ts
           /\ \A t \in rt'.ensured : t \in Turns /\ (Ensuring(proc'[Lane]) \/ (Running(t) /\ Row(t)))
<1> DEFINE f == proc[Lane]
           g == proc'[Lane]
<1>0. /\ Lane \in Procs /\ Lane \notin Clients /\ proc \in [Procs -> Frame] /\ f \in Frame
      /\ rt \in Runtime /\ rt.ensured \subseteq Turns /\ LaneRow(f, record, ts) /\ record \in [Turns -> Statuses]
  BY ConstantsAssumption DEF Procs, TInv, TypeOK, Runtime, Rows
<1>1. ts' = ts
  BY DEF LaneStep, TakeEvent, HandleEvent, FinishSessionTurn, CommitAndDiff, CommitFails, ReadActiveTurn,
         ReadActiveRecord, FinalizeRead, FinalizeWrite, RouteSummary, TurnAborted, store
<1>2. CASE TakeEvent
  <2>1. f.pc = "idle" /\ ~Writing(f) /\ ~Ensuring(f) BY <1>2, Apart DEF TakeEvent, At
  <2>2. record' = record BY <1>2 DEF TakeEvent, store
  <2>3. Sealed(Queue) BY DEF Ends
  <2>4. \A u \in rt.ensured : Running(u) /\ Row(u) BY <2>1 DEF Rows, Opened
  <2>5. \/ g = f /\ rt'.ensured = rt.ensured
        \/ g.pc = "ensure" /\ rt'.ensured \subseteq Turns
        \/ g.pc = "handle" /\ rt'.ensured = rt.ensured
    <3> DEFINE e == Head(rt.lane)
    <3>1. /\ e.turn \in Turns
          /\ \/ proc' = proc /\ rt'.ensured = rt.ensured
             \/ /\ rt'.ensured = rt.ensured \cup {e.turn}
                /\ g.pc = IF e.turn \in rt.ensured THEN "handle" ELSE "ensure"
      BY <1>2, <2>3, TakeEffect
    <3> HIDE DEF e
    <3> QED BY <1>0, <3>1
  <2> HIDE DEF g
  <2>6. LaneRow(g, record, ts) /\ ~Writing(g) BY <2>1, <2>5 DEF LaneRow, Completing, Upserting, Writing
  <2>7. g.pc = "ensure" => Ensuring(g) BY DEF Ensuring
  <2> QED BY <1>0, <1>1, <2>1, <2>2, <2>4, <2>5, <2>6, <2>7 DEF g
<1>3. CASE HandleEvent
  <2>1. f.pc = "handle" /\ Handling(f) /\ ~Ensuring(f) /\ ~Writing(f) /\ record' = record
    BY <1>3 DEF HandleEvent, At, Handling, Ensuring, Writing, Upserting, store
  <2>2. f.turn \in rt.ensured BY <2>1 DEF Ends
  <2>3. \A u \in rt.ensured : Running(u) /\ Row(u) BY <2>1 DEF Rows, Opened
  <2>4. rt'.ensured \subseteq rt.ensured
    <3>1. rt' = rt \/ rt' = [rt EXCEPT !.finished = @ \cup {f.turn}, !.ensured = @ \ {f.turn}]
      BY <1>3 DEF HandleEvent
    <3> HIDE DEF f
    <3>2. rt' = rt \/ rt'.ensured = rt.ensured \ {f.turn} BY <1>0, <3>1 DEF Runtime
    <3> QED BY <3>2
  <2>5. g.pc = "idle" \/ (g.pc \in {"finish", "final_read"} /\ g.turn = f.turn)
    BY <1>0, <1>3, BlankIdle DEF HandleEvent, Return, Goto, Frame
  <2>6. record[f.turn] = "running" /\ ts.active = f.turn /\ ts.blocking = f.turn
    BY <2>2, <2>3 DEF Running, Row
  <2>7. LaneRow(g, record, ts) BY <2>5, <2>6 DEF LaneRow, Completing, Upserting
  <2> QED BY <1>0, <1>1, <2>1, <2>3, <2>4, <2>5, <2>7 DEF Writing, Upserting
<1>4. CASE ~TakeEvent /\ ~HandleEvent
  <2>1. Ending(f) /\ (g.pc = "idle" \/ (Ending(g) /\ g.turn = f.turn)) /\ rt'.ensured = rt.ensured
    BY <1>4, LaneMoves
  <2>2. ~Writing(f) /\ ~Writing(g) BY <2>1, Apart
  <2>3. ~At(Lane, "idle") BY <2>1, Apart DEF At
  <2>4. rt'.ensured = {} /\ f.turn \in Turns BY <1>0, <2>1, <2>3, LaneAlone
  <2>5. CASE FinishSessionTurn \/ CommitAndDiff
    <3>1. record' = record BY <2>5 DEF FinishSessionTurn, CommitAndDiff, store
    <3>2. Completing(f) /\ g.turn = f.turn /\ g.pc \in {"finish_read", "final_read", "complete"}
      BY <1>0, <2>5 DEF FinishSessionTurn, CommitAndDiff, At, Completing, Goto, Frame
    <3>3. LaneRow(g, record, ts) BY <1>0, <3>2 DEF LaneRow, Completing, Upserting
    <3> QED BY <1>1, <2>2, <2>4, <3>1, <3>3
  <2>6. CASE ReadActiveTurn
    <3>1. record' = record /\ f.pc = "complete" BY <2>6 DEF ReadActiveTurn, store, At
    <3>2. g.turn = f.turn /\ (g.pc = "final_read" \/ (g.pc = "complete_record" /\ g.target = ts.active))
      BY <1>0, <2>6 DEF ReadActiveTurn, Goto, Frame
    <3>3. LaneRow(g, record, ts) BY <1>0, <3>1, <3>2 DEF LaneRow, Completing, Upserting
    <3> QED BY <1>1, <2>2, <2>4, <3>1, <3>3
  <2>7. CASE ReadActiveRecord
    <3>1. record' = record /\ f.pc = "complete_record" BY <2>7 DEF ReadActiveRecord, store, At
    <3>2. record[f.target] = "running" BY <1>0, <3>1 DEF LaneRow, Completing
    <3>3. g.turn = f.turn /\ g.pc = "complete_write" /\ g.target = f.target
      BY <1>0, <2>7, <3>2 DEF ReadActiveRecord, Goto, Frame
    <3>4. LaneRow(g, record, ts) BY <1>0, <3>1, <3>3 DEF LaneRow, Completing, Upserting
    <3> QED BY <1>1, <2>2, <2>4, <3>1, <3>4
  <2>8. CASE FinalizeRead
    <3>1. record' = record BY <2>8 DEF FinalizeRead, store
    <3>2. g.turn = f.turn /\ g.pc \in {"close", "final_write"} /\ g.status = record[f.turn]
      BY <1>0, <2>8 DEF FinalizeRead, Frame
    <3>3. LaneRow(g, record, ts) BY <3>2 DEF LaneRow, Completing, Upserting
    <3> QED BY <1>1, <2>2, <2>4, <3>1, <3>3
  <2>9. CASE FinalizeWrite
    <3>1. f.pc = "final_write" /\ record' = [record EXCEPT ![f.turn] = f.status] BY <2>9 DEF FinalizeWrite, At
    <3>2. f.status = record[f.turn] BY <1>0, <3>1 DEF LaneRow
    <3>3. record' = record BY <1>0, <3>1, <3>2
    <3>4. g.pc = "close" BY <1>0, <2>9 DEF FinalizeWrite, Goto, Frame
    <3>5. LaneRow(g, record, ts) BY <3>4 DEF LaneRow, Completing, Upserting
    <3> QED BY <1>1, <2>2, <2>4, <3>3, <3>5
  <2>10. CASE CommitFails \/ RouteSummary \/ TurnAborted
    <3>1. record' = record BY <2>10 DEF CommitFails, RouteSummary, TurnAborted, store
    <3>2. g.pc = "idle" BY <1>0, <2>10, BlankIdle DEF CommitFails, RouteSummary, TurnAborted, Return
    <3> QED BY <1>1, <2>2, <2>4, <3>1, <3>2, RowsVacuous
  <2> QED BY <1>4, <2>5, <2>6, <2>7, <2>8, <2>9, <2>10 DEF LaneStep
<1> QED BY <1>2, <1>3, <1>4

\* Every step keeps what the rows say.
LEMMA RowsNext ==
    ASSUME TInv, RInv, ParkedWait, QInv, SInv, Calm, Stages, Single, Ends, Rows, [Next]_vars, TInv'
    PROVE  Rows'
<1>0. Lane \in Procs /\ Clients \subseteq Procs /\ Lane \notin Clients BY ConstantsAssumption DEF Procs
<1>a. rt'.ensured \subseteq Turns BY DEF TInv, TypeOK, Runtime
<1>b. Sealed(Queue) BY DEF Ends
<1>c. \A t \in Turns : Ahead(t)' => Ahead(t) \/ (record[t] = "none" /\ \E c \in Clients : TurnStart(c))
  BY EndsNext
<1>d. Crash \/ (\E c \in Clients : TurnStart(c)) \/ \A t \in Turns : Under(t)' => Under(t)
  BY <1>b, SingleNext
<1>1. ASSUME NEW c \in Clients, UserStep(c) \/ StartStep(c) \/ CommandStep(c) \/ EnsureStep(c)
      PROVE  Rows'
  <2>1. c \in Procs /\ (\A q \in Procs \ {c} : proc'[q] = proc[q]) /\ rt'.ensured = rt.ensured
    BY <1>0, <1>1, ClientEffect
  <2>2. c # Lane BY <1>0
  <2>3. CASE TurnStart(c)
    <3>1. StartStep(c) /\ proc[c].pc \in {"starting", "restarting"} BY <2>3 DEF StartStep, TurnStart
    <3>2. \A u \in Turns : ~Awaits(u) BY <3>1 DEF Rows, ClientRow, Awaits
    <3>3. ClientRow(proc'[c], record, ts) /\ ~Writing(proc'[c]) /\ ~Writing(proc[c]) /\ record' = record /\ ts' = ts
      BY <3>1, ClientRowStart
    <3>4. WriterRow(proc'[c], record) BY <3>3, RowsVacuous
    <3> QED BY <1>a, <1>c, <2>1, <2>2, <3>2, <3>3, <3>4, RowsFrame
  <2>4. CASE ~TurnStart(c)
    <3>1. \A t \in Turns : Under(t)' => Under(t) BY <1>1, <2>4, SingleClient
    <3>2. \A t \in Turns : Ahead(t)' => Ahead(t) \/ record[t] = "none" BY <1>c
    <3>3. CASE CreateTurnStart(c) BY <2>1, <3>1, <3>2, <3>3, RowsCreate
    <3>4. CASE UpsertWrite(c) \/ WriteAccepted(c) \/ WriteReverted(c)
      <4>1. CASE Resolving(proc[c])
        <5>1. \A t \in Turns : Ahead(t)' => Ahead(t)
          <6>1. /\ Ended' = Ended /\ proc'[Lane] = proc[Lane] /\ agent' = agent
            BY <1>1, <2>4, ClientEffect, AgentStill
          <6> QED BY <6>1, AheadAfter DEF Ahead, AgentRuns, LaneEnd
        <5> QED BY <3>1, <3>4, <4>1, <5>1, RowsResolve
      <4>2. CASE ~Resolving(proc[c])
        <5>1. UpsertWrite(c) /\ proc[c].then = "ensured"
          BY <3>4, <4>2 DEF Stages, ClientStage, Sending, Ensuring, Resolving, UpsertWrite, WriteAccepted,
             WriteReverted, At, Upserting
        <5> QED BY <2>1, <3>1, <3>2, <5>1, RowsMark
      <4> QED BY <4>1, <4>2
    <3>5. CASE ~CreateTurnStart(c) /\ ~UpsertWrite(c) /\ ~WriteAccepted(c) /\ ~WriteReverted(c)
      <4>1. /\ ClientRow(proc'[c], record, ts) /\ WriterRow(proc'[c], record) /\ record' = record /\ ts' = ts
            /\ Writing(proc[c]) => Writing(proc'[c]) /\ proc'[c].turn = proc[c].turn
        <5>1. CASE EnsureStep(c) BY <2>1, <3>5, <5>1, ClientRowEnsure, WriterRowEnsure
        <5>2. CASE UserStep(c) BY <5>2, ClientRowUser, RowsVacuous
        <5>3. CASE StartStep(c) BY <5>3, ClientRowStart, RowsVacuous
        <5>4. CASE CommandStep(c) BY <3>5, <5>4, ClientRowCommand, RowsVacuous
        <5> QED BY <1>1, <5>1, <5>2, <5>3, <5>4
      <4> QED BY <1>a, <2>1, <2>2, <3>1, <3>2, <4>1, RowsFrame
    <3> QED BY <3>3, <3>4, <3>5
  <2> QED BY <2>3, <2>4
<1>2. CASE EnsureStep(Lane) \/ LaneStep
  <2>1. \A q \in Procs \ {Lane} : proc'[q] = proc[q] BY <1>0, <1>2, OtherFrames
  <2>2. \A t \in Turns : Ahead(t)' => Ahead(t)
    <3>1. CASE EnsureStep(Lane) BY <3>1, EndsEnsure
    <3>2. CASE LaneStep
      <4>1. CASE TakeEvent BY <4>1, EndsTake
      <4>2. CASE HandleEvent BY <4>2, EndsHandle
      <4>3. CASE ~TakeEvent /\ ~HandleEvent
        <5>1. Ended' = Ended /\ agent' = agent BY <3>2, <4>3, QueueOfLane, AgentStillLane DEF Ended
        <5>2. ~Handling(proc'[Lane]) BY <3>2, <4>3, LaneMoves, Apart
        <5> QED BY <5>1, <5>2, AheadAfter DEF Ahead, AgentRuns
      <4> QED BY <4>1, <4>2, <4>3
    <3> QED BY <1>2, <3>1, <3>2
  <2>3. \A t \in Turns : Under(t)' => Under(t)
    <3>1. ~(\E c \in Clients : TurnStart(c))
      <4> SUFFICES ASSUME NEW c \in Clients, TurnStart(c) PROVE FALSE
        OBVIOUS
      <4>1. StartStep(c) BY DEF StartStep
      <4>2. proc'[c] = proc[c] BY <1>0, <2>1
      <4>3. proc'[c].pc = "ensure" /\ proc[c].pc # "ensure" BY <1>0 DEF TurnStart, TInv, TypeOK, Frame
      <4> QED BY <4>2, <4>3
    <3>2. CASE Crash
      <4>1. agent' = agent BY <1>2, AgentStillLane
      <4>2. proc'[Lane].pc = "idle" /\ \A c \in Clients : proc'[c].pc = "idle" BY <1>0, <3>2, BlankIdle DEF Crash
      <4>3. Queue' = <<>> BY <3>2 DEF Crash, NoRuntime, Queue, QueueOf
      <4>4. Waiting' = {} BY <4>3 DEF Waiting, WaitingIn
      <4> QED BY <1>0, <4>1, <4>2, <4>4, Primes, Apart DEF Under, AgentRuns, LaneOn, At
    <3> QED BY <1>d, <3>1, <3>2
  <2>4. \A t \in Turns : Ahead(t)' => Ahead(t) \/ record[t] = "none" BY <2>2
  <2>5. CASE CompleteActiveTurn BY <2>2, <2>3, <2>5, RowsComplete
  <2>6. CASE LaneStep /\ ~CompleteActiveTurn
    <3>1. /\ LaneRow(proc'[Lane], record, ts) /\ ~Writing(proc[Lane]) /\ ~Writing(proc'[Lane])
          /\ record' = record /\ ts' = ts
          /\ \A t \in rt'.ensured : Ensuring(proc'[Lane]) \/ (Running(t) /\ Row(t))
      BY <2>6, LaneRowStep
    <3>2. WriterRow(proc'[Lane], record) BY <3>1, RowsVacuous
    <3> QED BY <1>0, <1>a, <2>1, <2>3, <2>4, <3>1, <3>2, RowsFrame
  <2>7. CASE EnsureStep(Lane)
    <3>1. CASE CreateTurnStart(Lane) BY <1>0, <2>3, <2>4, <3>1, RowsCreate
    <3>2. CASE UpsertWrite(Lane)
      <4>1. CASE Closing(proc[Lane]) BY <2>2, <2>3, <3>2, <4>1, RowsClose
      <4>2. CASE ~Closing(proc[Lane])
        <5>1. proc[Lane].then = "ensured"
          BY <3>2, <4>2 DEF Stages, LaneStage, Handling, Ensuring, Ending, Completing, UpsertWrite, At
        <5> QED BY <1>0, <2>3, <2>4, <3>2, <5>1, RowsMark
      <4> QED BY <4>1, <4>2
    <3>3. CASE ~CreateTurnStart(Lane) /\ ~UpsertWrite(Lane)
      <4>1. /\ LaneRow(proc'[Lane], record, ts) /\ WriterRow(proc'[Lane], record) /\ record' = record /\ ts' = ts
            /\ Writing(proc[Lane]) => Writing(proc'[Lane]) /\ proc'[Lane].turn = proc[Lane].turn
            /\ \A t \in rt'.ensured : Ensuring(proc'[Lane]) \/ (Running(t) /\ Row(t))
        BY <1>0, <2>7, <3>3, LaneRowEnsure, WriterRowEnsure
      <4> QED BY <1>0, <1>a, <2>1, <2>3, <2>4, <4>1, RowsFrame
    <3> QED BY <3>1, <3>2, <3>3
  <2> QED BY <1>2, <2>5, <2>6, <2>7
<1>3. CASE Crash
  <2>1. /\ \A p \in Procs : proc'[p].pc = "idle"
        /\ record' = record /\ ts' = ts /\ rt'.ensured = {} /\ Queue' = <<>>
    BY <1>3, BlankIdle DEF Crash, NoRuntime, Queue, QueueOf, store
  <2>2. \A t \in Turns : agent'[t] \notin {"running", "spoke"} BY <1>3 DEF Crash
  <2>3. Waiting' = {} /\ Ended' = {} BY <2>1 DEF Waiting, WaitingIn, Ended, EndedIn
  <2>4. \A t \in Turns : ~Under(t)' /\ ~Ahead(t)'
    <3>1. ~Handling(proc'[Lane]) BY <1>0, <2>1, Apart
    <3>2. \A t \in Turns : ~Ahead(t)' BY <2>2, <2>3, <3>1, AheadAfter
    <3> QED BY <1>0, <2>1, <2>2, <2>3, <3>2, Primes, Apart DEF Under, AgentRuns, LaneOn, At
  <2>5. \A t \in Turns : Awaits(t)' => ts'.blocking = t BY <2>1, RowsAfter DEF Rows, Blocked, Awaits
  <2>6. Blocked' /\ Opened' BY <2>1, <2>4, <2>5 DEF Blocked, Opened
  <2> QED BY <1>0, <2>1, <2>6, RowsAfter, RowsVacuous DEF Rows
<1>4. CASE InterruptTimeout \/ UNCHANGED vars \/ \E t \in Turns : AgentStep(t)
  <2>1. proc' = proc /\ record' = record /\ ts' = ts /\ rt'.ensured = rt.ensured
    <3>1. CASE InterruptTimeout \/ UNCHANGED vars BY <3>1 DEF InterruptTimeout, vars, store
    <3>2. ASSUME NEW t \in Turns, AgentStep(t) PROVE proc' = proc /\ record' = record /\ ts' = ts /\ rt'.ensured = rt.ensured
      BY <1>b, <3>2, AgentEffect
    <3> QED BY <1>4, <3>1, <3>2
  <2>2. \A t \in Turns : Under(t)' => Under(t)
    <3>1. CASE InterruptTimeout \/ UNCHANGED vars
      <4>1. agent' = agent /\ rt' = rt BY <3>1 DEF InterruptTimeout, vars, outside
      <4>2. Waiting' = Waiting BY <4>1 DEF Waiting, Queue
      <4> QED BY <2>1, <4>1, <4>2 DEF Under, AgentRuns, LaneOn, At, Ensuring
    <3>2. ASSUME NEW t \in Turns, AgentStep(t), NEW u \in Turns, Under(u)' PROVE Under(u)
      <4>1. /\ AgentRuns(t) /\ Waiting' = Waiting \cup {t} /\ \A v \in Turns \ {t} : agent'[v] = agent[v]
        BY <1>b, <3>2, AgentEffect
      <4>2. CASE u = t BY <4>1, <4>2 DEF Under
      <4>3. CASE u # t BY <2>1, <3>2, <4>1, <4>3 DEF Under, AgentRuns, LaneOn, At, Ensuring
      <4> QED BY <4>2, <4>3
    <3> QED BY <1>4, <3>1, <3>2
  <2>3. \A t \in Turns : Ahead(t)' => Ahead(t) \/ record[t] = "none" BY <1>c
  <2>4. \A q \in Procs : proc'[q] = proc[q] /\ WriterRow(proc'[q], record) BY <2>1 DEF Rows
  <2>5. LaneRow(proc'[Lane], record, ts) BY <2>1 DEF Rows
  <2>6. \A t \in rt'.ensured : Ensuring(proc'[Lane]) \/ (Running(t) /\ Row(t)) BY <2>1 DEF Rows, Opened
  <2> QED BY <1>0, <1>a, <2>1, <2>2, <2>3, <2>4, <2>5, <2>6, RowsFrame
<1> QED BY <1>1, <1>2, <1>3, <1>4 DEF Next, Procs

\* A calm thread keeps the invariant from the start.
LEMMA Rowed == Calm => (Spec => [](Base /\ CInv))
<1> SUFFICES ASSUME Calm PROVE Spec => [](Base /\ CInv)
  OBVIOUS
<1>1. Init => CInv
  <2> SUFFICES ASSUME Init PROVE CInv
    OBVIOUS
  <2>0. Lane \in Procs /\ Clients \subseteq Procs BY DEF Procs
  <2>1. /\ \A p \in Procs : proc[p].pc = "idle"
        /\ record = [t \in Turns |-> "none"] /\ agent = [t \in Turns |-> "unused"]
        /\ rt.ensured = {} /\ rt.finished = {} /\ Queue = <<>>
    BY BlankIdle DEF Init, NoRuntime, Queue, QueueOf
  <2>2. Waiting = {} /\ Ended = {} /\ Sealed(Queue) BY <2>1 DEF Waiting, WaitingIn, Ended, EndedIn, Sealed
  <2>3. \A t \in Turns : ~Under(t) BY <2>0, <2>1, <2>2, Apart DEF Under, AgentRuns, LaneOn, At
  <2>4. ~Handling(proc[Lane]) BY <2>0, <2>1, Apart
  <2>5. \A t \in Turns : ~Ahead(t) /\ ~LaneEnd(t) BY <2>1, <2>2, <2>4 DEF Ahead, AgentRuns, LaneEnd
  <2>6. Stages BY <2>0, <2>1 DEF Stages, ClientStage, LaneStage, At
  <2>7. Single BY <2>0, <2>1, <2>3, Apart DEF Single
  <2>8. Ends BY <2>1, <2>2, <2>4, <2>5 DEF Ends
  <2>9. Rows BY <2>0, <2>1, <2>5, RowsVacuous DEF Rows, Blocked, Opened, Awaits
  <2> QED BY <2>6, <2>7, <2>8, <2>9 DEF CInv
<1>2. TInv /\ RInv /\ ParkedWait /\ QInv /\ SInv /\ CInv /\ [Next]_vars => CInv'
  <2> SUFFICES ASSUME TInv, RInv, ParkedWait, QInv, SInv, CInv, [Next]_vars PROVE CInv'
    OBVIOUS
  <2>1. Stages' BY StagesNext DEF CInv
  <2>2. Single' BY SingleNext DEF CInv, Ends
  <2>3. Ends' BY EndsNext DEF CInv
  <2>4. TInv' BY TInvNext
  <2>5. Rows' BY <2>4, RowsNext DEF CInv
  <2> QED BY <2>1, <2>2, <2>3, <2>5 DEF CInv
<1> QED BY <1>1, <1>2, Records, Queued, Summed, PTL DEF Spec, Base

\* Users who wait for their thread and interrupt nothing never have the backend run a
\* turn while another awaits accept or revert: not after a crash, an abort or a failed
\* call, nor when an event of the turn overtakes the answer to its start.
THEOREM NoneRunsWhileAwaiting ==
    ASSUME Env \cap {"overlap", "interrupt", "echo"} = {}
    PROVE  Spec => []NoRunWhileAwaiting
<1>1. Calm BY DEF Calm
<1>2. CInv => NoRunWhileAwaiting
  <2> SUFFICES ASSUME CInv, NEW t \in Turns, NEW u \in Turns, AgentRuns(t), Awaits(u) PROVE FALSE
    BY DEF NoRunWhileAwaiting, Awaits
  <2>1. Ahead(t) /\ Under(t) BY DEF Ahead, Under
  <2>2. t = u BY <2>1 DEF CInv, Rows, Blocked
  <2>3. record[t] \in {"none", "running"} BY <2>1 DEF CInv, Rows, Opened, Running
  <2> QED BY <2>2, <2>3 DEF Awaits
<1> QED BY <1>1, <1>2, Rowed, PTL

\* On such a thread, once it is settled, the turn that awaits a decision is the one that
\* blocks it, however the users who resolve turns at the same time interleave.
THEOREM AwaitingTurnBlocks ==
    ASSUME Env \cap {"overlap", "interrupt", "echo"} = {}
    PROVE  Spec => []AwaitingBlocks
<1>1. Calm BY DEF Calm
<1>2. CInv => AwaitingBlocks BY DEF CInv, Rows, Blocked, Awaits, AwaitingBlocks
<1> QED BY <1>1, <1>2, Rowed, PTL

-----------------------------------------------------------------------------
(* A thread without hardships: its users wait for it, nothing is           *)
(* interrupted, aborted or reported twice, and nothing fails.              *)

Plain == Env = {}

\* Nothing is interrupted and no turn is aborted.
Peaceful ==
    /\ asked = {} /\ rt.interrupting = NoTurn /\ interrupting = NoTurn
    /\ machine \in {"IDLE", "RUNNING"}
    /\ \A i \in 1..Len(Queue) : Queue[i].kind # "aborted"
    /\ Handling(proc[Lane]) \/ Ending(proc[Lane]) => proc[Lane].kind # "aborted"

\* While turn/start is out, or its turn is being ensured by the start, events are parked
\* and the lane rests; else the latest turn is the one under way.
Opening ==
    /\ \A c \in Clients :
        /\ ~At(c, "restarting")
        /\ At(c, "starting") \/ Ensuring(proc[c]) =>
             rt.pending /\ rt.latest = NoTurn /\ rt.lane = <<>> /\ At(Lane, "idle")
        /\ \A t \in Turns : Ensuring(proc[c]) /\ proc[c].turn = t => Ahead(t)
    /\ \A t \in Turns : rt.latest = t => Under(t)

\* A machine that runs has a start on its way, a turn whose end is ahead, or a lane that releases it.
Claimed ==
    machine = "RUNNING" =>
        \/ \E c \in Clients : proc[c].pc \in {"prepare", "starting"}
        \/ \E t \in Turns : Ahead(t)
        \/ At(Lane, "finish")

\* The lane is about to store the row without the turn it completed.
Storing(f) == f.pc \in Upserting /\ f.then = "final_read"

\* Of a read-modify-write under way, only one that marks a turn running names an active turn.
Leaves(f) ==
    /\ Resolving(f) => /\ f.pc \in Upserting => f.patch.active = Keep
                       /\ f.pc = "upsert_write" => f.seen.active = NoTurn
    /\ Storing(f) => f.patch.active = NoTurn

\* A turn that runs by its record is still to be completed, and so is an active one.
Working ==
    /\ \A t \in Turns : Running(t) => Ahead(t) \/ (Completing(proc[Lane]) /\ proc[Lane].turn = t)
    /\ \A t \in Turns : ts.active = t => Running(t) \/ (Storing(proc[Lane]) /\ proc[Lane].turn = t)
    /\ \A p \in Procs : Leaves(proc[p])

\* A turn on a summary card, or that its users or the lane are done with, has an outcome.
Closed  == {"awaiting_approval", "completed", "accepted", "reverted"}
Outcome(f, rec) == f.pc \in {"acc_write", "rev_write"} \/ Closing(f) => rec[f.turn] \in Closed
Decided ==
    /\ \A t \in shown : record[t] \in Closed
    /\ \A p \in Procs : Outcome(proc[p], record)

\* What holds of a plain thread besides.
PInv == Peaceful /\ Opening /\ Claimed /\ Working /\ Decided

\* A plain thread never sees these steps.
LEMMA NeverPlain ==
    ASSUME Plain
    PROVE  /\ Calm /\ ~Crash /\ ~CommitFails
           /\ \A p \in Procs : ~EnsureFails(p)
           /\ \A c \in Clients : ~ResumeThread(c) /\ ~StartFails(c) /\ ~Interrupt(c) /\ ~CommandFails(c)
           /\ \A t \in Turns : ~EchoEnd(t)
  BY DEF Plain, Calm, Crash, CommitFails, EnsureFails, ResumeThread, StartFails, Interrupt, CommandFails, EchoEnd

\* More of what a frame is doing after a step, and why a turn is under way then.
LEMMA PlainAfter ==
    /\ \A p \in Procs : /\ (Closing(proc[p]))' <=> Closing(proc'[p])
                        /\ (Storing(proc[p]))' <=> Storing(proc'[p])
                        /\ (Leaves(proc[p]))' <=> Leaves(proc'[p])
                        /\ (Outcome(proc[p], record))' <=> Outcome(proc'[p], record')
                        /\ \A pc : (At(p, pc))' <=> proc'[p].pc = pc
    /\ \A t \in Turns : \/ (Ahead(t))' \/ t \in Waiting' \/ (proc'[Lane].pc # "idle" /\ proc'[Lane].turn = t)
                        => (Under(t))'
<1>1. \A p \in Procs : /\ (Closing(proc[p]))' <=> Closing(proc'[p])
                       /\ (Storing(proc[p]))' <=> Storing(proc'[p])
                       /\ \A pc : (At(p, pc))' <=> proc'[p].pc = pc
  BY DEF Closing, Storing, At
<1>2. \A p \in Procs : (Leaves(proc[p]))' <=> Leaves(proc'[p]) BY Primes DEF Leaves, Storing
<1>3. \A p \in Procs : (Outcome(proc[p], record))' <=> Outcome(proc'[p], record') BY <1>1 DEF Outcome
<1>4. Lane \in Procs /\ Ended' \subseteq Waiting' BY DEF Procs, Ended, Waiting, EndedIn, WaitingIn
<1>5. \A t \in Turns : proc'[Lane].pc # "idle" /\ proc'[Lane].turn = t => (Under(t))'
  BY <1>1, <1>4 DEF Under, LaneOn
<1>6. \A t \in Turns : t \in Waiting' \/ (AgentRuns(t))' => (Under(t))' BY DEF Under
<1>7. \A t \in Turns : (LaneEnd(t))' => (Under(t))'
  <2>1. Handling(proc'[Lane]) => proc'[Lane].pc # "idle" BY Apart
  <2> QED BY <1>5, <2>1, AheadAfter
<1>8. \A t \in Turns : (Ahead(t))' => (Under(t))' BY <1>4, <1>6, <1>7, AheadAfter
<1> QED BY <1>1, <1>2, <1>3, <1>5, <1>6, <1>8

\* Nothing under way: no event, no latest turn, and the lane rests.
LEMMA NothingUnder ==
    ASSUME TInv, SInv, Ends, Opening, Working, \A t \in Turns : ~Under(t)
    PROVE  /\ rt.lane = <<>> /\ rt.latest = NoTurn /\ At(Lane, "idle") /\ ts.active = NoTurn
           /\ \A t \in Turns : ~Ahead(t) /\ ~Running(t)
<1>0. rt \in Runtime /\ ts \in ThreadState BY DEF TInv, TypeOK
<1>1. At(Lane, "idle") BY DEF SInv, Under, LaneOn
<1>2. rt.latest = NoTurn BY <1>0 DEF Opening, Runtime, TurnRef
<1>3. \A t \in Turns : ~Ahead(t) BY AheadUnder
<1>4. ~Completing(proc[Lane]) /\ ~Storing(proc[Lane])
  BY <1>1 DEF At, Completing, Storing, Upserting
<1>5. \A t \in Turns : ~Running(t) BY <1>3, <1>4 DEF Working
<1>6. ts.active = NoTurn BY <1>0, <1>4, <1>5 DEF Working, ThreadState, TurnRef
<1>7. rt.lane = <<>>
  <2> SUFFICES ASSUME rt.lane # <<>> PROVE FALSE
    OBVIOUS
  <2>1. Queue # <<>> /\ Queue \in Seq(Event) BY <1>0, QueueTail, QueueType DEF Queue
  <2>2. Len(Queue) \in Nat /\ Len(Queue) # 0 BY <2>1, EmptySeq, LenProperties
  <2>3. 1 \in 1..Len(Queue) BY <2>2
  <2>4. Queue[1] \in Event BY <2>1, <2>3, ElementOfSeq
  <2>5. Queue[1].turn \in Turns /\ Queue[1].turn \in Waiting BY <2>3, <2>4 DEF Waiting, WaitingIn, Event
  <2> QED BY <2>5 DEF Under
<1> QED BY <1>1, <1>2, <1>3, <1>5, <1>6, <1>7

\* A client that begins, starts or resolves a turn does so while nothing is under way.
LEMMA ClientAlone ==
    ASSUME TInv, SInv, Plain, Stages, Single, NEW c \in Clients,
           UserStep(c) \/ StartStep(c) \/ CommandStep(c) \/ EnsureStep(c)
    PROVE  /\ ~Ensuring(proc[c]) => \A t \in Turns : ~Under(t)
           /\ \A d \in Clients \ {c} : ~Sending(proc[d]) /\ ~Ensuring(proc[d])
<1>0. Calm BY NeverPlain
<1>1. CASE UserStep(c)
  <2>1. Quiet /\ \A d \in Clients : At(d, "idle") \/ Resolving(proc[d]) BY <1>0, <1>1, Admitted
  <2>2. \A d \in Clients : ~Sending(proc[d]) /\ ~Ensuring(proc[d]) BY <2>1, Apart DEF At
  <2> QED BY <2>1, <2>2, QuietNone
<1>2. CASE ~UserStep(c)
  <2>1. Sending(proc[c]) \/ Ensuring(proc[c]) \/ Resolving(proc[c])
    BY <1>0, <1>2, ClientMoves DEF Stages, ClientStage
  <2>2. ~At(c, "idle") BY <2>1, Apart DEF At
  <2>3. \A d \in Clients \ {c} : At(d, "idle") \/ Resolving(proc[d]) BY <2>2 DEF Stages
  <2>4. \A d \in Clients \ {c} : ~Sending(proc[d]) /\ ~Ensuring(proc[d]) BY <2>3, Apart DEF At
  <2> QED BY <2>1, <2>4 DEF Single
<1> QED BY <1>1, <1>2

-----------------------------------------------------------------------------
(* Peaceful: nothing is interrupted or aborted. *)

\* Clients ask the backend for no interrupt, and a machine that runs or is idle stays so.
LEMMA PeacefulClient ==
    ASSUME TInv, Plain, Stages, Peaceful, NEW c \in Clients,
           UserStep(c) \/ StartStep(c) \/ CommandStep(c) \/ EnsureStep(c)
    PROVE  /\ asked' = asked /\ rt'.interrupting = rt.interrupting /\ interrupting' = interrupting
           /\ machine' \in {"IDLE", "RUNNING"}
<1>0. rt \in Runtime /\ Calm /\ c # Lane BY NeverPlain, ConstantsAssumption DEF TInv, TypeOK
<1>1. CASE UserStep(c)
  BY <1>1, NeverPlain DEF UserStep, SendText, AcceptTurn, RevertTurn, EnsureCanStartTurn, FailStart, Released,
     Peaceful, outside, session
<1>2. CASE StartStep(c)
  BY <1>0, <1>2, NeverPlain DEF StartStep, CheckPendingApproval, PrepareTurn, TurnStart, EnsureCanStartTurn,
     FailStart, Released, Peaceful, outside, session, Runtime
<1>3. CASE CommandStep(c)
  BY <1>0, <1>3, CalmCommands, NeverPlain DEF WriteAccepted, WriteReverted, ReleaseBlocking, ReleaseReferences,
     Peaceful, outside, session
<1>4. CASE EnsureStep(c)
  <2>1. CASE UpsertWrite(c)
    <3>1. proc[c].then \in {"ensured", "idle"}
      BY <2>1 DEF UpsertWrite, At, Stages, ClientStage, Sending, Ensuring, Resolving
    <3> QED BY <2>1, <3>1 DEF UpsertWrite, Peaceful, outside, session
  <2>2. CASE ~UpsertWrite(c)
    BY <1>0, <1>4, <2>2, NeverPlain DEF EnsureStep, EnsureEnter, EnsureRead, CreateTurnStart, EnsureJoined,
       EnsureDone, UpsertRead, Proceed, ActivateTurn, Runtime, Peaceful, outside, session, Procs
  <2> QED BY <2>1, <2>2
<1> QED BY <1>1, <1>2, <1>3, <1>4

\* Nor does the lane, which completes what it finishes.
LEMMA PeacefulLane ==
    ASSUME TInv, Plain, Stages, Peaceful, EnsureStep(Lane) \/ LaneStep
    PROVE  /\ asked' = asked /\ rt'.interrupting = rt.interrupting /\ interrupting' = interrupting
           /\ machine' \in {"IDLE", "RUNNING"} /\ ~TurnAborted
           /\ Handling(proc'[Lane]) \/ Ending(proc'[Lane]) => proc'[Lane].kind # "aborted"
<1> DEFINE f == proc[Lane]
           g == proc'[Lane]
<1>0. rt \in Runtime /\ proc \in [Procs -> Frame] /\ Lane \in Procs BY DEF TInv, TypeOK, Procs
<1>1. ~TurnAborted BY DEF TurnAborted, Peaceful, At, Ending, Closing
<1>2. CASE EnsureStep(Lane)
  <2>1. Handling(f) \/ Ending(f) BY <1>2, LaneEnsureMoves, Apart DEF Ending
  <2>2. g.kind = f.kind BY <1>2, NeverPlain, <1>0, LaneEnsureMoves
  <2>3. rt' = rt BY <1>0, <1>2, NeverPlain, LaneEnsureMoves
  <2>4. asked' = asked /\ session' = session
    <3>1. CASE UpsertWrite(Lane)
      <4>1. f.then \in {"ensured", "final_read"}
        BY <3>1 DEF UpsertWrite, At, Stages, LaneStage, Handling, Ensuring, Ending, Completing, Closing
      <4> QED BY <3>1, <4>1 DEF UpsertWrite, outside, session
    <3>2. CASE ~UpsertWrite(Lane)
      BY <1>0, <1>2, <3>2, NeverPlain DEF EnsureStep, EnsureEnter, EnsureRead, CreateTurnStart, EnsureJoined,
         EnsureDone, UpsertRead, outside, session
    <3> QED BY <3>1, <3>2
  <2> QED BY <1>1, <2>1, <2>2, <2>3, <2>4 DEF Peaceful, session
<1>3. CASE LaneStep /\ ~TakeEvent /\ ~HandleEvent
  <2>1. Ending(f) BY <1>3, LaneMoves
  <2>2. g.pc = "idle" \/ g.kind = f.kind
    <3>1. CASE RouteSummary BY <1>0, <3>1, BlankIdle DEF RouteSummary, Return
    <3>2. CASE FinishSessionTurn \/ CommitAndDiff \/ ReadActiveTurn
      BY <1>0, <3>2 DEF FinishSessionTurn, CommitAndDiff, ReadActiveTurn, Goto, Frame
    <3>3. CASE ReadActiveRecord \/ CompleteActiveTurn
      BY <1>0, <3>3 DEF ReadActiveRecord, CompleteActiveTurn, Goto, Upsert, Frame
    <3>4. CASE FinalizeRead \/ FinalizeWrite
      BY <1>0, <3>4 DEF FinalizeRead, FinalizeWrite, Goto, Frame
    <3> QED BY <1>1, <1>3, <3>1, <3>2, <3>3, <3>4, NeverPlain DEF LaneStep
  <2>3. g.pc = "idle" => ~Handling(g) /\ ~Ending(g) BY Apart
  <2>4. /\ asked' = asked /\ rt'.interrupting = rt.interrupting /\ interrupting' = interrupting
        /\ machine' \in {"IDLE", "RUNNING"}
    BY <1>0, <1>1, <1>3, NeverPlain DEF LaneStep, FinishSessionTurn, CommitAndDiff, ReadActiveTurn, ReadActiveRecord,
       CompleteActiveTurn, FinalizeRead, FinalizeWrite, RouteSummary, ForgetTurn, Runtime, Peaceful, outside, session
  <2> QED BY <1>1, <2>1, <2>2, <2>3, <2>4 DEF Peaceful
<1>4. CASE TakeEvent
  <2> DEFINE e == Head(rt.lane)
             q == [rt EXCEPT !.lane = Tail(@)]
             r == ResolveTurnRoute(q, e.turn)
  <2>1. Queue \in Seq(Event) /\ Queue # <<>> /\ Queue[1] = e /\ e \in Event BY <1>4, QueueOfTake
  <2>2. Len(Queue) \in Nat /\ Len(Queue) # 0 BY <2>1, EmptySeq, LenProperties
  <2>3. e.kind # "aborted" /\ e.turn \in Turns BY <2>1, <2>2 DEF Peaceful, Event
  <2>4. rt.lane \in Seq(Event) /\ rt.lane # <<>> BY <1>0, <1>4 DEF TakeEvent, Runtime
  <2>5. Tail(rt.lane) \in Seq(Event) BY <2>4
  <2>6. q \in Runtime /\ q.interrupting = rt.interrupting BY <1>0, <2>5 DEF Runtime
  <2>7. r \in Runtime /\ r.interrupting = rt.interrupting
    BY <2>3, <2>6, RouteType DEF ResolveTurnRoute, ActivateTurn, Runtime
  <2>8. rt' = r \/ rt' = [r EXCEPT !.ensured = @ \cup {e.turn}] BY <1>4 DEF TakeEvent
  <2>9. f.pc = "idle" /\ (g = f \/ (Handling(g) /\ g.kind = e.kind)) BY <1>4, LaneMoves DEF LaneStep
  <2>10. asked' = asked /\ interrupting' = interrupting /\ machine' = machine
    BY <1>4 DEF TakeEvent, outside, session
  <2> HIDE DEF e, q, r
  <2>11. rt'.interrupting = rt.interrupting BY <2>7, <2>8 DEF Runtime
  <2>12. f.pc = "idle" => ~Handling(f) /\ ~Ending(f) BY Apart
  <2> QED BY <1>1, <2>3, <2>9, <2>10, <2>11, <2>12 DEF Peaceful
<1>5. CASE HandleEvent
  <2>1. f.pc = "handle" /\ f.turn \in Turns /\ Handling(f)
    BY <1>5 DEF HandleEvent, At, TInv, FramesOK, FrameOK, UsesTurn, Procs, Handling
  <2>2. f.kind \in {"delta", "complete"} BY <1>0, <2>1 DEF Peaceful, Frame, EventKinds
  <2>3. rt.interrupting # f.turn BY <2>1, NoTurnApart DEF Peaceful
  <2>4. g.pc = "idle" \/ g.kind = f.kind
    BY <1>0, <1>5, <2>2, <2>3, BlankIdle DEF HandleEvent, Goto, Return, Frame
  <2>5. g.pc = "idle" => ~Handling(g) /\ ~Ending(g) BY Apart
  <2>6. /\ asked' = asked /\ rt'.interrupting = rt.interrupting /\ interrupting' = interrupting
        /\ machine' = machine
    BY <1>0, <1>5 DEF HandleEvent, Runtime, outside, session
  <2> QED BY <1>1, <2>2, <2>4, <2>5, <2>6 DEF Peaceful
<1> QED BY <1>2, <1>3, <1>4, <1>5

\* Every step keeps the peace.
LEMMA PeacefulNext ==
    ASSUME TInv, ParkedWait, Plain, Stages, Peaceful, [Next]_vars
    PROVE  Peaceful'
<1>0. Lane \in Procs BY DEF Procs
<1>1. ASSUME asked' = asked, rt'.interrupting = rt.interrupting, interrupting' = interrupting,
             machine' \in {"IDLE", "RUNNING"},
             \A i \in 1..Len(Queue') : Queue'[i].kind # "aborted",
             Handling(proc'[Lane]) \/ Ending(proc'[Lane]) => proc'[Lane].kind # "aborted"
      PROVE  Peaceful'
  BY <1>0, <1>1, Primes DEF Peaceful
<1>2. ASSUME NEW c \in Clients, UserStep(c) \/ StartStep(c) \/ CommandStep(c) \/ EnsureStep(c) PROVE Peaceful'
  <2>1. Queue' = Queue /\ proc'[Lane] = proc[Lane] BY <1>2, ClientEffect
  <2>2. \A i \in 1..Len(Queue') : Queue'[i].kind # "aborted" BY <2>1 DEF Peaceful
  <2>3. Handling(proc'[Lane]) \/ Ending(proc'[Lane]) => proc'[Lane].kind # "aborted" BY <2>1 DEF Peaceful
  <2> QED BY <1>1, <1>2, <2>2, <2>3, PeacefulClient
<1>3. CASE EnsureStep(Lane) \/ LaneStep
  <2>3. \A i \in 1..Len(Queue') : Queue'[i].kind # "aborted"
    <3>1. CASE TakeEvent
      <4>1. Queue \in Seq(Event) /\ Queue # <<>> /\ Queue' = Tail(Queue) BY <3>1, QueueOfTake
      <4>2. /\ Len(Queue) \in Nat /\ Len(Queue') = Len(Queue) - 1
            /\ \A i \in 1..Len(Queue') : Queue'[i] = Queue[i + 1]
        BY <4>1, HeadTailProperties, LenProperties
      <4>3. \A i \in 1..Len(Queue') : i + 1 \in 1..Len(Queue) BY <4>2
      <4> QED BY <4>2, <4>3 DEF Peaceful
    <3>2. CASE ~TakeEvent
      <4>1. Queue' = Queue BY <1>0, <1>3, <3>2, QueueOfLane, QueueOfCommands
      <4> QED BY <4>1 DEF Peaceful
    <3> QED BY <3>1, <3>2
  <2> QED BY <1>1, <1>3, <2>3, PeacefulLane
<1>4. ASSUME NEW t \in Turns, AgentStep(t) PROVE Peaceful'
  <2>1. rt \in Runtime /\ Queue \in Seq(Event) BY QueueType DEF TInv, TypeOK, Queue
  <2>2. PICK k \in EventKinds : rt' = OnNotification(rt, [turn |-> t, kind |-> k]) /\ k # "aborted"
    BY <1>4, NeverPlain DEF AgentStep, Speak, EndTurn, EventKinds, Peaceful, Plain
  <2> DEFINE e == [turn |-> t, kind |-> k]
  <2>3. e \in Event /\ e.kind = k BY DEF Event
  <2> HIDE DEF e
  <2>4. Queue' = Append(Queue, e) BY <2>1, <2>2, <2>3, QueueNotify DEF ParkedWait, Queue, e
  <2>5. /\ Len(Queue) \in Nat /\ Len(Queue') = Len(Queue) + 1 /\ Queue'[Len(Queue) + 1] = e
        /\ \A i \in 1..Len(Queue) : Queue'[i] = Queue[i]
    BY <2>1, <2>3, <2>4, AppendProperties, LenProperties
  <2>6. \A i \in 1..Len(Queue') : i \in 1..Len(Queue) \/ i = Len(Queue) + 1 BY <2>5
  <2>7. \A i \in 1..Len(Queue') : Queue'[i].kind # "aborted" BY <2>2, <2>3, <2>5, <2>6 DEF Peaceful
  <2>8. proc' = proc /\ asked' = asked /\ session' = session /\ rt'.interrupting = rt.interrupting
    BY <1>4, <2>1, <2>2 DEF AgentStep, Speak, EndTurn, EchoEnd, OnNotification, Runtime
  <2> QED BY <1>1, <2>7, <2>8 DEF Peaceful, session
<1>5. CASE InterruptTimeout \/ UNCHANGED vars
  <2>1. UNCHANGED vars BY <1>5 DEF InterruptTimeout, Peaceful
  <2> QED BY <1>1, <2>1 DEF vars, Peaceful, Queue, session, outside
<1> QED BY <1>2, <1>3, <1>4, <1>5, NeverPlain DEF Next, Procs

-----------------------------------------------------------------------------
(* Opening: a start under way, and the latest turn. *)

\* What the lane does with an event, when it handles the end of a turn or no end.
LEMMA HandlePlain ==
    ASSUME TInv, Plain, Stages, Ends, Peaceful, HandleEvent
    PROVE  /\ proc[Lane].turn \in Turns /\ Ahead(proc[Lane].turn)
           /\ \/ /\ LaneEnd(proc[Lane].turn) /\ proc'[Lane].pc = "finish" /\ proc'[Lane].turn = proc[Lane].turn
                 /\ \A u \in Turns \ {proc[Lane].turn} : Ahead(u) => Ahead(u)'
              \/ proc'[Lane].pc = "idle" /\ \A u \in Turns : Ahead(u) => Ahead(u)'
           /\ rt'.latest = rt.latest
<1> DEFINE t == proc[Lane].turn
<1>0. /\ rt \in Runtime /\ proc \in [Procs -> Frame] /\ Lane \in Procs /\ proc[Lane] \in Frame
  BY DEF TInv, TypeOK, Procs
<1>1. At(Lane, "handle") /\ Handling(proc[Lane]) BY DEF HandleEvent, At, Handling
<1>2. t \in Turns BY <1>0, <1>1 DEF TInv, FramesOK, FrameOK, UsesTurn, At
<1>3. t \in rt.ensured /\ Ahead(t) BY <1>1, <1>2 DEF Ends
<1>4. t \notin rt.finished BY <1>2, <1>3 DEF Ends
<1>5. proc[Lane].kind \in {"delta", "complete"} BY <1>0, <1>1 DEF Peaceful, Frame, EventKinds
<1>6. rt.interrupting # t BY <1>2, NoTurnApart DEF Peaceful
<1>7. LaneStep /\ ~TakeEvent BY <1>1 DEF LaneStep, TakeEvent, At
<1>8. Queue' = Queue /\ agent' = agent BY <1>7, QueueOfLane, AgentStillLane
<1>9. Ended' = Ended BY <1>8 DEF Ended
<1>10. \A u \in Turns : AgentRuns(u)' <=> AgentRuns(u) BY <1>8, AheadAfter DEF AgentRuns
<1>11. rt'.latest = rt.latest BY <1>0 DEF HandleEvent, Runtime
<1>12. CASE proc[Lane].kind = "delta"
  <2>1. proc'[Lane].pc = "idle" BY <1>0, <1>12, BlankIdle DEF HandleEvent, Return
  <2>2. \A u \in Turns : ~LaneEnd(u) BY <1>12 DEF LaneEnd
  <2>3. \A u \in Turns : Ahead(u) => Ahead(u)' BY <1>9, <1>10, <2>2, AheadAfter DEF Ahead
  <2> QED BY <1>2, <1>3, <1>11, <2>1, <2>3
<1>13. CASE proc[Lane].kind = "complete"
  <2>1. proc'[Lane].pc = "finish" /\ proc'[Lane].turn = t
    BY <1>0, <1>4, <1>6, <1>13 DEF HandleEvent, Goto, Frame
  <2>2. LaneEnd(t) /\ \A u \in Turns : LaneEnd(u) => u = t BY <1>1, <1>13 DEF LaneEnd
  <2> HIDE DEF t
  <2>3. \A u \in Turns \ {t} : Ahead(u) => Ahead(u)' BY <1>9, <1>10, <2>2, AheadAfter DEF Ahead
  <2> QED BY <1>2, <1>3, <1>11, <2>1, <2>2, <2>3 DEF t
<1> QED BY <1>5, <1>12, <1>13

\* An end that is ahead stays ahead until the lane finishes the turn.
LEMMA AheadGoes ==
    ASSUME TInv, ParkedWait, QInv, Plain, Stages, Single, Ends, Peaceful, [Next]_vars
    PROVE  \A t \in Turns : Ahead(t) =>
             Ahead(t)' \/ (HandleEvent /\ t = proc[Lane].turn /\ LaneEnd(t)
                           /\ proc'[Lane].pc = "finish" /\ proc'[Lane].turn = t)
<1>0. Lane \in Procs /\ Calm BY NeverPlain DEF Procs
<1>1. ASSUME NEW c \in Clients, UserStep(c) \/ StartStep(c) \/ CommandStep(c) \/ EnsureStep(c),
             NEW t \in Turns, Ahead(t)
      PROVE  Ahead(t)'
  <2>1. Ended' = Ended /\ proc'[Lane] = proc[Lane] BY <1>1, ClientEffect
  <2>2. LaneEnd(t)' <=> LaneEnd(t) BY <2>1, AheadAfter DEF LaneEnd
  <2>3. AgentRuns(t) => AgentRuns(t)'
    <3>1. CASE TurnStart(c)
      <4>1. PICK u \in Turns : agent' = [agent EXCEPT ![u] = "running"] BY <3>1 DEF TurnStart
      <4>2. agent \in [Turns -> AgentStates] BY DEF TInv, TypeOK
      <4> QED BY <4>1, <4>2, AheadAfter DEF AgentRuns
    <3>2. CASE ~TurnStart(c)
      <4>1. agent' = agent BY <1>1, <3>2, AgentStill
      <4> QED BY <4>1, AheadAfter DEF AgentRuns
    <3> QED BY <3>1, <3>2
  <2> QED BY <1>1, <2>1, <2>2, <2>3, AheadAfter DEF Ahead
<1>2. ASSUME EnsureStep(Lane), NEW t \in Turns, Ahead(t) PROVE Ahead(t)'
  BY <1>0, <1>2, EndsEnsure, NeverPlain
<1>3. ASSUME LaneStep, ~HandleEvent, NEW t \in Turns, Ahead(t) PROVE Ahead(t)'
  <2>1. CASE TakeEvent BY <1>3, <2>1, EndsTake
  <2>2. CASE ~TakeEvent
    <3>1. Queue' = Queue /\ agent' = agent BY <1>3, <2>2, QueueOfLane, AgentStillLane
    <3>2. ~Handling(proc[Lane]) BY <1>3, <2>2, LaneMoves, Apart
    <3>3. Ended' = Ended BY <3>1 DEF Ended
    <3>4. AgentRuns(t)' <=> AgentRuns(t) BY <3>1, AheadAfter DEF AgentRuns
    <3> QED BY <1>3, <3>2, <3>3, <3>4, AheadAfter DEF Ahead, LaneEnd
  <2> QED BY <2>1, <2>2
<1>4. ASSUME HandleEvent, NEW t \in Turns, Ahead(t)
      PROVE  Ahead(t)' \/ (t = proc[Lane].turn /\ LaneEnd(t) /\ proc'[Lane].pc = "finish" /\ proc'[Lane].turn = t)
  BY <1>4, HandlePlain
<1>5. ASSUME NEW u \in Turns, AgentStep(u), NEW t \in Turns, Ahead(t) PROVE Ahead(t)'
  BY <1>0, <1>5, EndsAgent
<1>6. ASSUME InterruptTimeout \/ UNCHANGED vars, NEW t \in Turns, Ahead(t) PROVE Ahead(t)'
  <2>1. proc' = proc /\ agent' = agent /\ rt' = rt BY <1>6 DEF InterruptTimeout, vars, outside
  <2>2. Queue' = Queue BY <2>1 DEF Queue
  <2>3. Ended' = Ended BY <2>2 DEF Ended
  <2>4. (LaneEnd(t)' <=> LaneEnd(t)) /\ (AgentRuns(t)' <=> AgentRuns(t)) BY <2>1, AheadAfter DEF LaneEnd, AgentRuns
  <2> QED BY <1>6, <2>3, <2>4, AheadAfter DEF Ahead
<1> QED BY <1>1, <1>2, <1>3, <1>4, <1>5, <1>6, NeverPlain DEF Next, Procs

\* While no client starts or ensures a turn, only the latest turn matters.
LEMMA OpeningIdle ==
    ASSUME \A c \in Clients : ~Ensuring(proc'[c]) /\ proc'[c].pc \notin {"starting", "restarting"},
           \A t \in Turns : rt'.latest = t => Under(t)'
    PROVE  Opening'
<1>1. Lane \in Procs /\ Clients \subseteq Procs BY DEF Procs
<1>2. \A c \in Clients : ~(Ensuring(proc[c]))' /\ ~(At(c, "starting"))' /\ ~(At(c, "restarting"))'
  BY <1>1, Primes, PlainAfter
<1> QED BY <1>2 DEF Opening

\* Clients keep it,
LEMMA OpeningClient ==
    ASSUME TInv, ParkedWait, QInv, SInv, Plain, Stages, Single, Ends, Peaceful, Opening, Working, [Next]_vars,
           NEW c \in Clients, UserStep(c) \/ StartStep(c) \/ CommandStep(c) \/ EnsureStep(c)
    PROVE  Opening'
<1> DEFINE f == proc[c]
           g == proc'[c]
<1>0. /\ rt \in Runtime /\ proc \in [Procs -> Frame] /\ c \in Procs /\ Lane \in Procs /\ f \in Frame
      /\ Clients \subseteq Procs /\ c # Lane /\ Calm
  BY NeverPlain, ConstantsAssumption DEF TInv, TypeOK, Procs
<1>1. \A d \in Clients \ {c} : proc'[d] = proc[d] /\ ~Sending(proc[d]) /\ ~Ensuring(proc[d])
  BY ClientAlone, ClientEffect DEF Procs
<1>2. proc'[Lane] = proc[Lane] /\ ~HandleEvent
  <2>1. proc'[Lane] = proc[Lane] BY ClientEffect
  <2>2. HandleEvent => proc'[Lane] # proc[Lane]
    BY <1>0, BlankIdle DEF HandleEvent, At, Goto, Return, Frame
  <2> QED BY <2>1, <2>2
<1>3. \A t \in Turns : Ahead(t) => Ahead(t)' BY <1>2, AheadGoes
<1>a. ~Ensuring(f) => rt.latest = NoTurn /\ rt.lane = <<>> /\ At(Lane, "idle") BY ClientAlone, NothingUnder
<1>4. CASE Ensuring(f)
  <2>1. EnsureStep(c) /\ (g.pc = "idle" \/ (Ensuring(g) /\ g.turn = f.turn)) BY <1>0, <1>4, ClientMoves
  <2>2. f.turn \in Turns BY <1>0, <1>4, FrameTurns
  <2>3. Ahead(f.turn) /\ rt.pending /\ rt.latest = NoTurn /\ rt.lane = <<>> /\ At(Lane, "idle")
    BY <1>4, <2>2 DEF Opening
  <2>4. CASE EnsureJoined(c) \/ EnsureDone(c)
    <3>1. rt' = ActivateTurn(rt, f.turn) /\ g.pc = "idle"
      BY <1>0, <2>4, BlankIdle DEF EnsureJoined, EnsureDone, Proceed, Return
    <3>2. rt'.latest = f.turn BY <1>0, <3>1 DEF ActivateTurn, Runtime
    <3> HIDE DEF f, g
    <3>3. \A t \in Turns : rt'.latest = t => Under(t)' BY <1>3, <2>2, <2>3, <3>2, PlainAfter
    <3>4. \A d \in Clients : ~Ensuring(proc'[d]) /\ proc'[d].pc \notin {"starting", "restarting"}
      BY <1>1, <3>1, Apart DEF Sending, g
    <3> QED BY <3>3, <3>4, OpeningIdle
  <2>5. CASE ~EnsureJoined(c) /\ ~EnsureDone(c)
    <3>1. rt' = rt
      BY <2>1, <2>5, <1>0, NeverPlain DEF EnsureStep, EnsureEnter, EnsureRead, CreateTurnStart, UpsertRead, UpsertWrite
    <3> HIDE DEF f, g
    <3>2. \A d \in Clients : proc'[d].pc \notin {"starting", "restarting"}
      BY <1>1, <2>1, Apart DEF Sending, g
    <3>3. \A t \in Turns : (Ensuring(g) /\ g.turn = t) => Ahead(t)' BY <1>3, <2>1, <2>3, Apart
    <3>4. \A d \in Clients, t \in Turns : Ensuring(proc'[d]) /\ proc'[d].turn = t => Ahead(t)'
      BY <1>1, <3>3 DEF g
    <3>5. \A t \in Turns : rt'.latest # t BY <2>3, <3>1, NoTurnApart
    <3>6. rt'.pending /\ rt'.latest = NoTurn /\ rt'.lane = <<>> /\ proc'[Lane].pc = "idle"
      BY <1>2, <2>3, <3>1 DEF At
    <3> QED BY <1>0, <3>2, <3>4, <3>5, <3>6, Primes, PlainAfter DEF Opening
  <2> QED BY <2>4, <2>5
<1>5. CASE TurnStart(c)
  <2>1. f.pc = "starting" BY <1>5 DEF TurnStart, Opening, At
  <2>2. rt.pending /\ rt.latest = NoTurn /\ rt.lane = <<>> /\ At(Lane, "idle") /\ rt' = rt
    BY <1>5, <2>1 DEF Opening, At, TurnStart
  <2>3. PICK t \in Turns : agent' = [agent EXCEPT ![t] = "running"]
                           /\ proc' = [proc EXCEPT ![c].pc = "ensure", ![c].turn = t, ![c].target = NoTurn]
    BY <1>5 DEF TurnStart
  <2>4. g.pc = "ensure" /\ g.turn = t BY <1>0, <2>3 DEF Frame
  <2>5. agent'[t] = "running" BY <2>3 DEF TInv, TypeOK
  <2>6. Ahead(t)' BY <2>5, AheadAfter
  <2> HIDE DEF f, g
  <2>7. \A d \in Clients : proc'[d].pc \notin {"starting", "restarting"} BY <1>1, <2>4 DEF Sending, g
  <2>8. \A d \in Clients, u \in Turns : Ensuring(proc'[d]) /\ proc'[d].turn = u => Ahead(u)'
    BY <1>1, <2>4, <2>6 DEF g
  <2>9. \A u \in Turns : rt'.latest # u BY <2>2, NoTurnApart
  <2>10. rt'.pending /\ rt'.latest = NoTurn /\ rt'.lane = <<>> /\ proc'[Lane].pc = "idle"
    BY <1>2, <2>2 DEF At
  <2> QED BY <1>0, <2>7, <2>8, <2>9, <2>10, Primes, PlainAfter DEF Opening
<1>6. CASE PrepareTurn(c)
  <2>1. rt' = [rt EXCEPT !.pending = TRUE] /\ g.pc = "starting" /\ ~Ensuring(f)
    BY <1>0, <1>6, Apart DEF PrepareTurn, Goto, At, Frame, Ensuring, Upserting
  <2>2. rt'.pending /\ rt'.latest = NoTurn /\ rt'.lane = <<>> /\ proc'[Lane].pc = "idle"
    BY <1>0, <1>2, <1>a, <2>1 DEF Runtime, At
  <2> HIDE DEF f, g
  <2>3. \A d \in Clients : proc'[d].pc # "restarting" /\ ~Ensuring(proc'[d])
    BY <1>1, <2>1 DEF Sending, Ensuring, Upserting, g
  <2>4. \A u \in Turns : rt'.latest # u BY <2>2, NoTurnApart
  <2> QED BY <1>0, <2>2, <2>3, <2>4, Primes, PlainAfter DEF Opening
<1>7. CASE ~Ensuring(f) /\ ~TurnStart(c) /\ ~PrepareTurn(c)
  <2>1. ~Ensuring(g) /\ g.pc \notin {"starting", "restarting"} /\ rt'.latest = rt.latest
    <3>1. CASE UserStep(c)
      BY <1>0, <3>1, NeverPlain, BlankIdle DEF UserStep, SendText, AcceptTurn, RevertTurn, EnsureCanStartTurn, FailStart,
         Return, Goto, Frame, Ensuring, Upserting
    <3>2. CASE StartStep(c)
      BY <1>0, <1>7, <3>2, NeverPlain, BlankIdle DEF StartStep, CheckPendingApproval, EnsureCanStartTurn, FailStart,
         Return, Goto, Frame, Ensuring, Upserting
    <3>3. CASE CommandStep(c) \/ EnsureStep(c)
      <4>2. ClientStage(f) BY DEF Stages
      <4>3. CASE Resolving(f)
        <5>1. g.pc = "idle" \/ Resolving(g) BY <1>0, <4>3, ClientMoves
        <5>2. ~Ensuring(g) /\ g.pc \notin {"starting", "restarting"} BY <5>1, Apart DEF Resolving
        <5>3. CommandStep(c) \/ UpsertRead(c) \/ UpsertWrite(c) BY <1>0, <4>3, ClientMoves
        <5>4. rt' = rt
          BY <1>0, <5>3, CalmCommands, NeverPlain DEF WriteAccepted, WriteReverted, ReleaseBlocking,
             ReleaseReferences, UpsertRead, UpsertWrite
        <5> QED BY <5>2, <5>4
      <4>4. CASE Sending(f) BY <1>0, <3>1, <3>2, <4>4, ClientMoves
      <4>5. CASE f.pc = "idle" BY <1>0, <3>1, <3>2, <4>5, ClientMoves
      <4> QED BY <1>7, <4>2, <4>3, <4>4, <4>5 DEF ClientStage
    <3> QED BY <3>1, <3>2, <3>3
  <2>2. \A u \in Turns : rt'.latest # u BY <1>7, <1>a, <2>1, NoTurnApart
  <2> HIDE DEF f, g
  <2>3. \A d \in Clients : ~Ensuring(proc'[d]) /\ proc'[d].pc \notin {"starting", "restarting"}
    BY <1>1, <2>1 DEF Sending, g
  <2> QED BY <2>2, <2>3, OpeningIdle
<1> QED BY <1>4, <1>5, <1>6, <1>7

\* the lane keeps it,
LEMMA OpeningLane ==
    ASSUME TInv, ParkedWait, QInv, SInv, Plain, Stages, Single, Ends, Peaceful, Opening, [Next]_vars,
           EnsureStep(Lane) \/ LaneStep
    PROVE  Opening'
<1> DEFINE f == proc[Lane]
           g == proc'[Lane]
<1>0. /\ rt \in Runtime /\ proc \in [Procs -> Frame] /\ Lane \in Procs /\ f \in Frame
      /\ Clients \subseteq Procs /\ Lane \notin Clients /\ Calm
  BY NeverPlain, ConstantsAssumption DEF TInv, TypeOK, Procs
<1>1. \A c \in Clients : proc'[c] = proc[c] BY <1>0, OtherFrames
<1>2. ~At(Lane, "idle") \/ TakeEvent
  <2>1. EnsureStep(Lane) => ~At(Lane, "idle") BY LaneEnsureMoves, Apart DEF At, Ending
  <2>2. LaneStep => TakeEvent \/ ~At(Lane, "idle") BY LaneMoves, Apart DEF At
  <2> QED BY <2>1, <2>2
<1>3. \A c \in Clients : ~Ensuring(proc'[c]) /\ proc'[c].pc \notin {"starting", "restarting"}
  BY <1>1, <1>2 DEF Opening, At, TakeEvent
<1>4. ASSUME ~At(Lane, "idle")
      PROVE  f.turn \in Turns /\ \A t \in Turns : rt.latest = t => t = f.turn
  BY <1>4, LaneAlone DEF Opening
<1>5. ASSUME ~At(Lane, "idle"), rt'.latest = rt.latest, g.pc # "idle", g.turn = f.turn
      PROVE  \A t \in Turns : rt'.latest = t => Under(t)'
  BY <1>4, <1>5, PlainAfter
<1>6. CASE TakeEvent
  <2> DEFINE e == Head(rt.lane)
             q == [rt EXCEPT !.lane = Tail(@)]
             r == ResolveTurnRoute(q, e.turn)
  <2>1. Queue \in Seq(Event) /\ Queue # <<>> /\ Queue[1] = e /\ e \in Event BY <1>6, QueueOfTake
  <2>2. Len(Queue) \in Nat /\ Len(Queue) # 0 BY <2>1, EmptySeq, LenProperties
  <2>3. e.turn \in Turns /\ e.turn \in Waiting BY <2>1, <2>2 DEF Event, Waiting, WaitingIn
  <2>4. rt.lane \in Seq(Event) /\ rt.lane # <<>> BY <1>0, <1>6 DEF TakeEvent, Runtime
  <2>5. Tail(rt.lane) \in Seq(Event) BY <2>4
  <2>6. q \in Runtime /\ q.latest = rt.latest BY <1>0, <2>5 DEF Runtime
  <2>7. r \in Runtime /\ r.latest \in {rt.latest, e.turn}
    BY <2>3, <2>6, RouteType DEF ResolveTurnRoute, ActivateTurn, Runtime
  <2>8. rt' = r \/ rt' = [r EXCEPT !.ensured = @ \cup {e.turn}] BY <1>6 DEF TakeEvent
  <2>a. PICK u \in Turns : u = e.turn BY <2>3
  <2> HIDE DEF e, q, r
  <2>9. rt'.latest \in {rt.latest, u} BY <2>7, <2>8, <2>a DEF Runtime
  <2>10. Ahead(u) /\ Under(u) BY <2>3, <2>a DEF Ends, Under
  <2>11. Ahead(u)' BY <1>6, <2>10, EndsTake
  <2>12. \A t \in Turns : rt.latest = t => t = u BY <2>10 DEF Opening, Single
  <2>13. \A t \in Turns : rt'.latest = t => Under(t)' BY <2>9, <2>11, <2>12, PlainAfter
  <2> QED BY <1>3, <2>13, OpeningIdle
<1>7. CASE HandleEvent
  <2>1. ~At(Lane, "idle") BY <1>7 DEF HandleEvent, At
  <2>2. /\ f.turn \in Turns /\ Ahead(f.turn) /\ rt'.latest = rt.latest
        /\ \/ g.pc = "finish" /\ g.turn = f.turn
           \/ \A u \in Turns : Ahead(u) => Ahead(u)'
    BY <1>7, HandlePlain
  <2>3. \A t \in Turns : rt'.latest = t => Under(t)'
    BY <1>4, <1>5, <2>1, <2>2, PlainAfter
  <2> QED BY <1>3, <2>3, OpeningIdle
<1>8. CASE LaneStep /\ ~TakeEvent /\ ~HandleEvent
  <2>1. ~At(Lane, "idle") /\ (g.pc = "idle" \/ (Ending(g) /\ g.turn = f.turn)) BY <1>2, <1>8, LaneMoves
  <2>2. Ending(g) => g.pc # "idle" BY Apart
  <2>3. CASE RouteSummary
    <3>1. rt' = ForgetTurn(rt, f.turn) BY <2>3 DEF RouteSummary
    <3>2. rt.latest \in {NoTurn, f.turn} BY <1>0, <1>4, <2>1 DEF Runtime, TurnRef
    <3>3. rt'.latest = NoTurn BY <1>0, <3>1, <3>2 DEF ForgetTurn, Runtime
    <3>4. \A t \in Turns : rt'.latest # t BY <3>3, NoTurnApart
    <3> QED BY <1>3, <3>4, OpeningIdle
  <2>4. CASE ~RouteSummary
    <3>1. ~TurnAborted /\ ~CommitFails BY NeverPlain, PeacefulLane
    <3>2. rt' = rt
      BY <1>8, <2>4, <3>1 DEF LaneStep, FinishSessionTurn, CommitAndDiff, ReadActiveTurn, ReadActiveRecord,
         CompleteActiveTurn, FinalizeRead, FinalizeWrite
    <3>3. g.pc # "idle"
      <4>1. CASE FinishSessionTurn \/ CommitAndDiff \/ ReadActiveTurn
        BY <1>0, <4>1 DEF FinishSessionTurn, CommitAndDiff, ReadActiveTurn, Goto, Frame
      <4>2. CASE ReadActiveRecord \/ CompleteActiveTurn
        BY <1>0, <4>2 DEF ReadActiveRecord, CompleteActiveTurn, Goto, Upsert, Frame
      <4>3. CASE FinalizeRead \/ FinalizeWrite
        BY <1>0, <4>3 DEF FinalizeRead, FinalizeWrite, Goto, Frame
      <4> QED BY <1>8, <2>4, <3>1, <4>1, <4>2, <4>3 DEF LaneStep
    <3>4. \A t \in Turns : rt'.latest = t => Under(t)' BY <1>5, <2>1, <3>2, <3>3
    <3> QED BY <1>3, <3>4, OpeningIdle
  <2> QED BY <2>3, <2>4
<1>9. CASE EnsureStep(Lane)
  <2>1. ~At(Lane, "idle") BY <1>9, LaneEnsureMoves, Apart DEF At, Ending
  <2>2. g.pc # "idle" /\ g.turn = f.turn /\ rt' = rt
    BY <1>0, <1>9, LaneEnsureMoves, NeverPlain, Apart DEF Ending
  <2>3. \A t \in Turns : rt'.latest = t => Under(t)' BY <1>5, <2>1, <2>2
  <2> QED BY <1>3, <2>3, OpeningIdle
<1> QED BY <1>6, <1>7, <1>8, <1>9

\* and so does every step.
LEMMA OpeningNext ==
    ASSUME TInv, ParkedWait, QInv, SInv, Plain, Stages, Single, Ends, Peaceful, Opening, Working, [Next]_vars
    PROVE  Opening'
<1>0. Lane \in Procs /\ Clients \subseteq Procs /\ Calm /\ rt \in Runtime BY NeverPlain DEF Procs, TInv, TypeOK
<1>1. ASSUME proc' = proc, rt'.latest = rt.latest,
             rt.pending /\ rt.latest = NoTurn /\ rt.lane = <<>> => rt'.pending /\ rt'.lane = <<>>,
             \A t \in Turns : Ahead(t) => Ahead(t)', \A t \in Turns : Under(t) => Under(t)'
      PROVE  Opening'
  BY <1>0, <1>1, Primes, PlainAfter DEF Opening, At
<1>2. ASSUME NEW t \in Turns, AgentStep(t) PROVE Opening'
  <2>a. Sealed(Queue) BY DEF Ends
  <2>1. /\ AgentRuns(t) /\ Waiting' = Waiting \cup {t} /\ \A u \in Turns \ {t} : agent'[u] = agent[u]
        /\ proc' = proc
    BY <1>0, <1>2, <2>a, AgentEffect
  <2>2. PICK e : rt' = OnNotification(rt, e) BY <1>2 DEF AgentStep, Speak, EndTurn, EchoEnd
  <2>3. /\ rt'.latest = rt.latest
        /\ rt.pending /\ rt.latest = NoTurn /\ rt.lane = <<>> => rt'.pending /\ rt'.lane = <<>>
    BY <1>0, <2>2 DEF OnNotification, Runtime
  <2>4. \A u \in Turns : Ahead(u) => Ahead(u)' BY <1>0, <1>2, EndsAgent
  <2>5. ASSUME NEW u \in Turns, Under(u) PROVE Under(u)'
    <3>1. CASE u = t BY <2>1, <3>1, PlainAfter
    <3>2. CASE u # t BY <2>1, <2>5, <3>2 DEF Under, AgentRuns, LaneOn, At, Ensuring
    <3> QED BY <3>1, <3>2
  <2> QED BY <1>1, <2>1, <2>3, <2>4, <2>5
<1>3. CASE InterruptTimeout \/ UNCHANGED vars
  <2>1. UNCHANGED vars BY <1>3 DEF InterruptTimeout, Peaceful
  <2>2. proc' = proc /\ agent' = agent /\ rt' = rt BY <2>1 DEF vars, outside
  <2>3. Queue' = Queue BY <2>2 DEF Queue
  <2>4. Waiting' = Waiting /\ Ended' = Ended BY <2>3 DEF Waiting, Ended
  <2>5. \A t \in Turns : (Ahead(t) => Ahead(t)') /\ (Under(t) => Under(t)')
    BY <2>2, <2>4 DEF Ahead, Under, AgentRuns, LaneEnd, LaneOn, At, Ensuring, Handling
  <2> QED BY <1>1, <2>2, <2>5
<1> QED BY <1>0, <1>2, <1>3, OpeningClient, OpeningLane, NeverPlain DEF Next, Procs

-----------------------------------------------------------------------------
(* Claimed: who will release the machine. *)

\* Every step keeps the machine claimed while it runs.
LEMMA ClaimedNext ==
    ASSUME TInv, ParkedWait, QInv, SInv, Plain, Stages, Single, Ends, Peaceful, Opening, Working, Claimed, [Next]_vars
    PROVE  Claimed'
<1>0. /\ Lane \in Procs /\ Clients \subseteq Procs /\ Calm /\ proc \in [Procs -> Frame]
  BY NeverPlain DEF Procs, TInv, TypeOK
<1>1. ASSUME \/ machine' # "RUNNING"
             \/ \E c \in Clients : proc'[c].pc \in {"prepare", "starting"}
             \/ \E t \in Turns : Ahead(t)'
             \/ proc'[Lane].pc = "finish"
      PROVE  Claimed'
  BY <1>0, <1>1, PlainAfter DEF Claimed
<1>2. ASSUME machine' = machine,
             \A c \in Clients : proc[c].pc \in {"prepare", "starting"} => proc'[c].pc \in {"prepare", "starting"},
             At(Lane, "finish") => proc'[Lane].pc = "finish"
      PROVE  Claimed'
  BY <1>1, <1>2, AheadGoes DEF Claimed
<1>3. ASSUME \A t \in Turns : ~Under(t), \A c \in Clients : proc[c].pc \notin {"prepare", "starting"}
      PROVE  machine = "IDLE"
  BY <1>3, NothingUnder DEF Claimed, Peaceful, At
<1>4. ASSUME NEW c \in Clients, UserStep(c) \/ StartStep(c) \/ CommandStep(c) \/ EnsureStep(c) PROVE Claimed'
  <2> DEFINE f == proc[c]
             g == proc'[c]
  <2>0. f \in Frame /\ c # Lane BY <1>0, ConstantsAssumption DEF Procs
  <2>1. \A d \in Clients \ {c} : ~Sending(proc[d]) BY <1>4, ClientAlone
  <2>2. ~Ensuring(f) => \A t \in Turns : ~Under(t) BY <1>4, ClientAlone
  <2>3. f.pc \notin {"prepare", "starting"} /\ ~Ensuring(f) => machine = "IDLE"
    BY <1>3, <2>1, <2>2 DEF Sending
  <2>4. ClientStage(f) BY DEF Stages
  <2>5. CASE f.pc = "idle"
    <3>1. UserStep(c) /\ machine = "IDLE" BY <1>0, <1>4, <2>3, <2>5, ClientMoves, Apart
    <3>2. machine' # "RUNNING" \/ g.pc = "prepare"
      BY <1>0, <3>1, NeverPlain DEF UserStep, SendText, AcceptTurn, RevertTurn, EnsureCanStartTurn, FailStart,
         Released, Goto, Frame, session
    <3> QED BY <1>1, <3>2
  <2>6. CASE Sending(f)
    <3>1. StartStep(c) BY <1>0, <1>4, <2>6, ClientMoves
    <3>2. CASE CheckPendingApproval(c)
      <4>1. machine = "IDLE" BY <2>3, <3>2, <2>6, Apart DEF CheckPendingApproval, At
      <4>2. machine' # "RUNNING" \/ g.pc = "prepare"
        BY <1>0, <3>2, <4>1 DEF CheckPendingApproval, EnsureCanStartTurn, FailStart, Released, Goto, Frame
      <4> QED BY <1>1, <4>2
    <3>3. CASE PrepareTurn(c)
      <4>1. g.pc = "starting" BY <1>0, <3>3 DEF PrepareTurn, Goto, Frame
      <4> QED BY <1>1, <4>1
    <3>4. CASE TurnStart(c)
      <4>1. PICK t \in Turns : agent' = [agent EXCEPT ![t] = "running"] BY <3>4 DEF TurnStart
      <4>2. agent'[t] = "running" BY <4>1 DEF TInv, TypeOK
      <4> QED BY <1>1, <4>2, AheadAfter
    <3> QED BY <3>1, <3>2, <3>3, <3>4, NeverPlain DEF StartStep
  <2>7. CASE Ensuring(f)
    <3>1. f.turn \in Turns BY <1>0, <2>7, FrameTurns
    <3>2. Ahead(f.turn) /\ At(Lane, "idle") BY <2>7, <3>1 DEF Opening
    <3>3. ~HandleEvent BY <3>2 DEF HandleEvent, At
    <3> HIDE DEF f
    <3>4. \E t \in Turns : Ahead(t)' BY <3>1, <3>2, <3>3, AheadGoes
    <3> QED BY <1>1, <3>4
  <2>8. CASE Resolving(f)
    <3>1. machine = "IDLE" BY <2>3, <2>8, Apart DEF Resolving
    <3>2. CommandStep(c) \/ UpsertRead(c) \/ UpsertWrite(c) BY <1>0, <1>4, <2>8, ClientMoves
    <3>3. CASE UpsertWrite(c)
      <4>1. f.then = "idle" BY <2>8, <3>3 DEF Resolving, UpsertWrite, At
      <4>2. machine' = machine BY <3>3, <4>1 DEF UpsertWrite, session
      <4> QED BY <1>1, <3>1, <4>2
    <3>4. CASE UpsertRead(c) BY <1>1, <3>1, <3>4 DEF UpsertRead, session
    <3>5. CASE CommandStep(c)
      <4>1. machine' = machine
        BY <1>0, <3>5, CalmCommands, NeverPlain DEF WriteAccepted, WriteReverted, ReleaseBlocking, ReleaseReferences, session
      <4> QED BY <1>1, <3>1, <4>1
    <3> QED BY <3>2, <3>3, <3>4, <3>5
  <2> QED BY <2>4, <2>5, <2>6, <2>7, <2>8 DEF ClientStage
<1>5. CASE EnsureStep(Lane) \/ LaneStep
  <2>1. \A c \in Clients : proc'[c] = proc[c] BY <1>0, <1>5, OtherFrames, ConstantsAssumption
  <2>2. CASE FinishSessionTurn BY <1>1, <2>2 DEF FinishSessionTurn
  <2>3. CASE ~FinishSessionTurn
    <3>1. ~TurnAborted /\ ~CommitFails BY <1>5, NeverPlain, PeacefulLane
    <3>2. CASE LaneStep
      <4>1. machine' = machine
        BY <2>3, <3>1, <3>2 DEF LaneStep, TakeEvent, HandleEvent, CommitAndDiff, ReadActiveTurn,
           ReadActiveRecord, CompleteActiveTurn, FinalizeRead, FinalizeWrite, RouteSummary, session
      <4>2. ~At(Lane, "finish")
        BY <2>3, <3>1, <3>2 DEF LaneStep, TakeEvent, HandleEvent, CommitAndDiff, ReadActiveTurn,
           ReadActiveRecord, CompleteActiveTurn, FinalizeRead, FinalizeWrite, RouteSummary, At
      <4> QED BY <1>2, <2>1, <4>1, <4>2
    <3>3. CASE EnsureStep(Lane)
      <4>1. machine' = machine
        <5>1. CASE UpsertWrite(Lane)
          <6>1. proc[Lane].then \in {"ensured", "final_read"}
            BY <5>1 DEF UpsertWrite, At, Stages, LaneStage, Handling, Ensuring, Ending, Completing, Closing
          <6> QED BY <5>1, <6>1 DEF UpsertWrite, session
        <5>2. CASE ~UpsertWrite(Lane)
          BY <1>0, <3>3, <5>2, NeverPlain DEF EnsureStep, EnsureEnter, EnsureRead, CreateTurnStart, EnsureJoined,
             EnsureDone, UpsertRead, session
        <5> QED BY <5>1, <5>2
      <4>2. ~At(Lane, "finish")
        BY <3>3, LaneEnsureMoves DEF At, Ensuring, Closing, Upserting
      <4> QED BY <1>2, <2>1, <4>1, <4>2
    <3> QED BY <1>5, <3>2, <3>3
  <2> QED BY <2>2, <2>3
<1>6. CASE \E t \in Turns : AgentStep(t)
  <2>1. proc' = proc /\ machine' = machine BY <1>6 DEF AgentStep, Speak, EndTurn, EchoEnd, session
  <2> QED BY <1>2, <2>1 DEF At
<1>7. CASE InterruptTimeout \/ UNCHANGED vars
  <2>1. UNCHANGED vars BY <1>7 DEF InterruptTimeout, Peaceful
  <2>2. proc' = proc /\ machine' = machine BY <2>1 DEF vars, session
  <2> QED BY <1>2, <2>2 DEF At
<1> QED BY <1>4, <1>5, <1>6, <1>7, NeverPlain DEF Next, Procs

-----------------------------------------------------------------------------
(* Working: what the records and the row say runs. *)

\* The lane goes on completing the turn it completes, and closes no other.
LEMMA LanePlain ==
    ASSUME TInv, SInv, Plain, Stages, Single, Ends, Peaceful, Rows, EnsureStep(Lane) \/ LaneStep, ~CompleteActiveTurn
    PROVE  LET f == proc[Lane]
               g == proc'[Lane]
           IN  /\ Completing(f) => Completing(g) /\ g.turn = f.turn
               /\ Closing(g) => Closing(f) /\ g.turn = f.turn
               /\ Storing(f) => UpsertWrite(Lane) \/ (Storing(g) /\ g.turn = f.turn)
               /\ Storing(g) => UpsertRead(Lane) /\ Storing(f) /\ g.patch = f.patch
               /\ ~Resolving(g)
<1> DEFINE f == proc[Lane]
           g == proc'[Lane]
<1>0. /\ proc \in [Procs -> Frame] /\ Lane \in Procs /\ f \in Frame /\ LaneRow(f, record, ts)
  BY DEF TInv, TypeOK, Procs, Rows
<1>1. ~TurnAborted /\ ~CommitFails BY NeverPlain, PeacefulLane
<1>2. f.pc = "idle" \/ Handling(f) => ~Completing(f) /\ ~Closing(f) /\ ~Storing(f)
  BY Apart DEF Ending, Storing, Closing
<1>3. g.pc = "idle" \/ Handling(g) => ~Completing(g) /\ ~Closing(g) /\ ~Storing(g) /\ ~Resolving(g)
  BY Apart DEF Ending, Storing, Closing
<1>4. CASE EnsureStep(Lane)
  <2>1. CASE Ensuring(f)
    <3>1. Handling(f) /\ Handling(g) BY <1>4, <2>1, LaneEnsureMoves, NeverPlain, <1>0, Apart
    <3> QED BY <1>2, <1>3, <3>1
  <2>2. CASE ~Ensuring(f)
    <3>1. Closing(f) /\ Closing(g) /\ g.turn = f.turn /\ (UpsertRead(Lane) \/ UpsertWrite(Lane))
      BY <1>4, <2>2, LaneEnsureMoves
    <3>2. ~Completing(f) /\ ~Resolving(g) BY <3>1 DEF Completing, Closing, Resolving, Upserting
    <3>3. UpsertRead(Lane) => f.pc = "upsert_read" /\ g.pc = "upsert_write" /\ g.then = f.then /\ g.patch = f.patch
      BY <1>0 DEF UpsertRead, At, Frame
    <3>4. UpsertWrite(Lane) => g.pc = "final_read"
      BY <1>0, <2>2, <3>1 DEF UpsertWrite, At, Closing, Goto, Frame, Upserting
    <3> QED BY <3>1, <3>2, <3>3, <3>4 DEF Storing, Upserting
  <2> QED BY <2>1, <2>2
<1>5. CASE TakeEvent
  <2>1. f.pc = "idle" /\ (g = f \/ Handling(g)) BY <1>5, LaneMoves DEF LaneStep
  <2> QED BY <1>2, <1>3, <2>1
<1>6. CASE HandleEvent
  <2>1. Handling(f) BY <1>6 DEF HandleEvent, At, Handling
  <2>2. g.pc \in {"idle", "finish"} BY <1>6, HandlePlain
  <2>3. ~Closing(g) /\ ~Storing(g) /\ ~Resolving(g) BY <2>2 DEF Closing, Storing, Resolving, Upserting
  <2> QED BY <1>2, <2>1, <2>3
<1>7. CASE LaneStep /\ ~TakeEvent /\ ~HandleEvent
  <2>1. Ending(f) /\ ~At(Lane, "idle") BY <1>7, LaneMoves, Apart DEF At
  <2>2. f.turn \in Turns BY <2>1, LaneAlone
  <2>3. CASE FinishSessionTurn \/ CommitAndDiff \/ ReadActiveTurn \/ ReadActiveRecord
    <3>1. Completing(f)
      BY <2>3 DEF FinishSessionTurn, CommitAndDiff, ReadActiveTurn, ReadActiveRecord, At, Completing
    <3>2. record[f.turn] = "running" /\ ts.active = f.turn /\ ts.active # NoTurn
      BY <1>0, <2>2, <3>1, NoTurnApart DEF LaneRow
    <3>3. f.pc = "complete_record" => f.target = f.turn BY <1>0 DEF LaneRow
    <3>4. g.pc \in {"finish_read", "complete", "complete_record", "complete_write"} /\ g.turn = f.turn
      <4>1. CASE FinishSessionTurn BY <1>0, <4>1 DEF FinishSessionTurn, Goto, Frame
      <4>2. CASE CommitAndDiff BY <1>0, <3>2, <4>2 DEF CommitAndDiff, Frame
      <4>3. CASE ReadActiveTurn BY <1>0, <3>2, <4>3 DEF ReadActiveTurn, Frame
      <4>4. CASE ReadActiveRecord
        <5>1. record[f.target] = "running" BY <3>2, <3>3, <4>4 DEF ReadActiveRecord, At
        <5> QED BY <1>0, <4>4, <5>1 DEF ReadActiveRecord, Goto, Frame
      <4> QED BY <2>3, <4>1, <4>2, <4>3, <4>4
    <3>5. ~Storing(f) /\ ~Storing(g) /\ ~Closing(g) /\ ~Resolving(g) /\ Completing(g)
      BY <3>1, <3>4 DEF Completing, Closing, Storing, Resolving, Upserting
    <3> QED BY <3>4, <3>5
  <2>4. CASE FinalizeRead \/ FinalizeWrite \/ RouteSummary
    <3>1. Closing(f) /\ ~Completing(f) /\ ~Storing(f)
      BY <2>4 DEF FinalizeRead, FinalizeWrite, RouteSummary, At, Completing, Closing, Storing, Upserting
    <3>2. g.pc = "idle" \/ (g.pc \in {"final_write", "close"} /\ g.turn = f.turn)
      <4>1. CASE FinalizeRead BY <1>0, <4>1 DEF FinalizeRead, Frame
      <4>2. CASE FinalizeWrite BY <1>0, <4>2 DEF FinalizeWrite, Goto, Frame
      <4>3. CASE RouteSummary BY <1>0, <4>3, BlankIdle DEF RouteSummary, Return
      <4> QED BY <2>4, <4>1, <4>2, <4>3
    <3>3. ~Storing(g) /\ ~Resolving(g) /\ (Closing(g) => g.turn = f.turn)
      BY <1>3, <3>2 DEF Storing, Resolving, Upserting
    <3> QED BY <3>1, <3>3
  <2> QED BY <1>1, <1>7, <2>3, <2>4 DEF LaneStep
<1> QED BY <1>4, <1>5, <1>6, <1>7

\* The store changes only where a record is created, completed, accepted or reverted, or a row is written back.
LEMMA StoreSteps ==
    ASSUME TInv, RInv, SInv, Plain, Stages, Single, Ends, Peaceful, Rows, [Next]_vars
    PROVE  \/ record' = record /\ ts' = ts
           \/ CompleteActiveTurn
           \/ \E p \in Procs : CreateTurnStart(p) \/ UpsertWrite(p)
           \/ \E c \in Clients : WriteAccepted(c) \/ WriteReverted(c)
<1>0. Lane \in Procs /\ Clients \subseteq Procs /\ Calm BY NeverPlain DEF Procs
<1>1. ASSUME NEW c \in Clients, UserStep(c) PROVE record' = record /\ ts' = ts BY <1>0, <1>1, ClientRowUser
<1>2. ASSUME NEW c \in Clients, StartStep(c) PROVE record' = record /\ ts' = ts BY <1>0, <1>2, ClientRowStart
<1>3. ASSUME NEW c \in Clients, CommandStep(c), ~WriteAccepted(c), ~WriteReverted(c)
      PROVE  record' = record /\ ts' = ts
  BY <1>0, <1>3, ClientRowCommand
<1>4. ASSUME NEW p \in Procs, EnsureStep(p), ~CreateTurnStart(p), ~UpsertWrite(p) PROVE record' = record /\ ts' = ts
  BY <1>4, WriterRowEnsure
<1>5. ASSUME LaneStep, ~CompleteActiveTurn PROVE record' = record /\ ts' = ts BY <1>5, LaneRowStep
<1>6. CASE InterruptTimeout \/ UNCHANGED vars \/ \E t \in Turns : AgentStep(t)
  BY <1>6 DEF InterruptTimeout, vars, AgentStep, Speak, EndTurn, EchoEnd, store
<1> QED BY <1>1, <1>2, <1>3, <1>4, <1>5, <1>6, NeverPlain DEF Next

\* No read-modify-write under way brings an active turn back.
LEMMA LeavesNext ==
    ASSUME TInv, SInv, Plain, Stages, Single, Ends, Peaceful, Opening, Rows, Working, [Next]_vars
    PROVE  \A p \in Procs : Leaves(proc'[p])
<1>0. /\ Lane \in Procs /\ Clients \subseteq Procs /\ Calm /\ proc \in [Procs -> Frame] /\ Lane \notin Clients
  BY NeverPlain, ConstantsAssumption DEF Procs, TInv, TypeOK
<1>1. ASSUME NEW p \in Procs, \A q \in Procs \ {p} : proc'[q] = proc[q], Leaves(proc'[p])
      PROVE  \A q \in Procs : Leaves(proc'[q])
  BY <1>1 DEF Working
<1>2. ASSUME NEW c \in Clients, UserStep(c) \/ StartStep(c) \/ CommandStep(c) \/ EnsureStep(c)
      PROVE  Leaves(proc'[c])
  <2> DEFINE f == proc[c]
             g == proc'[c]
  <2>0. f \in Frame /\ c \in Procs /\ ClientStage(f) /\ Leaves(f) BY <1>0 DEF Stages, Working
  <2>1. g.pc = "idle" \/ Sending(g) \/ Ensuring(g) \/ Resolving(g)
    <3>1. CASE TurnStart(c)
      <4>1. g.pc = "ensure" BY <1>0, <3>1 DEF TurnStart, Frame
      <4> QED BY <4>1 DEF Ensuring
    <3>2. CASE ~TurnStart(c) BY <1>0, <1>2, <2>0, <3>2, ClientMoves DEF ClientStage
    <3> QED BY <3>1, <3>2
  <2>2. ~Storing(g) BY <2>1 DEF Storing, Sending, Ensuring, Resolving, Upserting
  <2>3. ~Resolving(g) => Leaves(g) BY <2>2 DEF Leaves
  <2>4. g.pc \notin Upserting => Leaves(g) BY <2>2 DEF Leaves, Upserting
  <2>5. CASE f.pc = "idle"
    <3>1. UserStep(c) BY <1>0, <1>2, <2>5, ClientMoves
    <3>2. g.pc \notin Upserting
      BY <1>0, <3>1, NeverPlain, BlankIdle DEF UserStep, SendText, AcceptTurn, RevertTurn, EnsureCanStartTurn,
         FailStart, Return, Goto, Frame, Upserting
    <3> QED BY <2>4, <3>2
  <2>6. CASE Sending(f)
    <3>1. g.pc = "idle" \/ Sending(g) \/ g.pc = "ensure"
      <4>1. CASE TurnStart(c) BY <1>0, <4>1 DEF TurnStart, Frame
      <4>2. CASE ~TurnStart(c) BY <1>0, <1>2, <2>6, <4>2, ClientMoves
      <4> QED BY <4>1, <4>2
    <3> QED BY <2>4, <3>1 DEF Sending, Upserting
  <2>7. CASE Ensuring(f)
    <3>1. g.pc = "idle" \/ Ensuring(g) BY <1>0, <1>2, <2>7, ClientMoves
    <3> QED BY <2>3, <3>1, Apart
  <2>8. CASE Resolving(f)
    <3>1. CommandStep(c) \/ UpsertRead(c) \/ UpsertWrite(c) BY <1>0, <1>2, <2>8, ClientMoves
    <3>2. ts.active = NoTurn
      <4>1. ~Ensuring(f) BY <2>8, Apart
      <4> QED BY <1>2, <4>1, ClientAlone, NothingUnder
    <3>3. CASE WriteAccepted(c) \/ WriteReverted(c)
      BY <1>0, <2>4, <3>3 DEF WriteAccepted, WriteReverted, Goto, Frame, Upserting
    <3>4. CASE ReleaseBlocking(c)
      <4>1. g.pc = "idle" \/ (g.pc = "upsert_read" /\ g.patch = ClearBlockingTurn)
        BY <1>0, <3>4, BlankIdle DEF ReleaseBlocking, Upsert, Return, Frame
      <4> QED BY <2>2, <2>4, <4>1 DEF Leaves, ClearBlockingTurn, Upserting
    <3>5. CASE ReleaseReferences(c)
      <4>1. g.pc = "upsert_read" /\ g.patch = ClearTurnReferences(ts, f.turn)
        BY <1>0, <3>5 DEF ReleaseReferences, Upsert, Frame
      <4>2. g.patch.active = Keep BY <4>1 DEF ClearTurnReferences
      <4> QED BY <2>2, <4>1, <4>2 DEF Leaves
    <3>6. CASE UpsertRead(c)
      <4>1. f.pc = "upsert_read" /\ g.pc = "upsert_write" /\ g.patch = f.patch /\ g.seen = ts
        BY <1>0, <3>6 DEF UpsertRead, At, Frame
      <4>2. f.patch.active = Keep BY <2>0, <2>8, <4>1 DEF Leaves, Upserting
      <4> QED BY <2>2, <3>2, <4>1, <4>2 DEF Leaves
    <3>7. CASE UpsertWrite(c)
      <4>1. f.then = "idle" BY <2>8, <3>7 DEF Resolving, UpsertWrite, At
      <4>2. g.pc = "idle" BY <1>0, <3>7, <4>1, BlankIdle DEF UpsertWrite, Return
      <4> QED BY <2>4, <4>2 DEF Upserting
    <3>8. CASE CommandStep(c) BY <1>0, <3>3, <3>4, <3>5, <3>8, CalmCommands, NeverPlain
    <3> QED BY <3>1, <3>6, <3>7, <3>8
  <2> QED BY <2>0, <2>5, <2>6, <2>7, <2>8 DEF ClientStage
<1>3. ASSUME EnsureStep(Lane) \/ LaneStep PROVE Leaves(proc'[Lane])
  <2>1. CASE CompleteActiveTurn
    <3>1. /\ proc'[Lane].pc = "upsert_read" /\ proc'[Lane].then = "final_read"
          /\ proc'[Lane].patch \in {MarkTurnAwaitingApproval(proc[Lane].target), MarkTurnCompleted(proc[Lane].target)}
      BY <1>0, <2>1 DEF CompleteActiveTurn, Upsert, Frame
    <3>2. proc'[Lane].patch.active = NoTurn BY <3>1 DEF MarkTurnAwaitingApproval, MarkTurnCompleted
    <3> QED BY <3>1, <3>2 DEF Leaves, Resolving
  <2>2. CASE ~CompleteActiveTurn BY <1>0, <1>3, <2>2, LanePlain DEF Leaves, Working
  <2> QED BY <2>1, <2>2
<1>4. CASE \E t \in Turns : AgentStep(t)
  <2>1. proc' = proc BY <1>4 DEF AgentStep, Speak, EndTurn, EchoEnd
  <2> QED BY <2>1 DEF Working
<1>5. CASE InterruptTimeout \/ UNCHANGED vars
  <2>1. proc' = proc BY <1>5 DEF InterruptTimeout, vars
  <2> QED BY <2>1 DEF Working
<1>6. ASSUME NEW c \in Clients, UserStep(c) \/ StartStep(c) \/ CommandStep(c) \/ EnsureStep(c)
      PROVE  \A p \in Procs : Leaves(proc'[p])
  <2>1. Leaves(proc'[c]) /\ c \in Procs BY <1>0, <1>2, <1>6
  <2>2. \A q \in Procs \ {c} : proc'[q] = proc[q] BY <1>6, ClientEffect
  <2> QED BY <1>1, <2>1, <2>2
<1>7. ASSUME EnsureStep(Lane) \/ LaneStep PROVE \A p \in Procs : Leaves(proc'[p])
  BY <1>0, <1>1, <1>3, <1>7, OtherFrames
<1> QED BY <1>4, <1>5, <1>6, <1>7, NeverPlain DEF Next, Procs

\* A turn that is being ensured has its end ahead, the lane does nothing else, and its
\* record, if any, says that it runs.
LEMMA EnsuringAhead ==
    ASSUME TInv, Stages, Ends, Opening, Rows, NEW p \in Procs, Ensuring(proc[p])
    PROVE  /\ proc[p].turn \in Turns /\ Ahead(proc[p].turn) /\ record[proc[p].turn] \in {"none", "running"}
           /\ ~HandleEvent /\ ~Ending(proc[Lane])
<1>1. proc[p].turn \in Turns BY FrameTurns
<1>2. Ahead(proc[p].turn) /\ ~HandleEvent /\ ~Ending(proc[Lane])
  <2>1. CASE p = Lane
    <3>1. Handling(proc[Lane]) /\ ~Ending(proc[Lane]) /\ ~At(Lane, "handle") BY <2>1, Apart DEF At, Ensuring, Upserting
    <3>2. Ahead(proc[p].turn) BY <1>1, <2>1, <3>1 DEF Ends
    <3> QED BY <3>1, <3>2 DEF HandleEvent
  <2>2. CASE p \in Clients
    <3>1. Ahead(proc[p].turn) /\ At(Lane, "idle") BY <1>1, <2>2 DEF Opening
    <3> QED BY <3>1, Apart DEF HandleEvent, At
  <2> QED BY <2>1, <2>2 DEF Procs
<1>3. record[proc[p].turn] \in {"none", "running"} BY <1>1, <1>2 DEF Rows, Opened, Running
<1> QED BY <1>1, <1>2, <1>3

\* Every step keeps what runs to be completed.
LEMMA WorkingNext ==
    ASSUME TInv, RInv, ParkedWait, QInv, SInv, Plain, Stages, Single, Ends, Peaceful, Opening, Rows, Working,
           [Next]_vars
    PROVE  Working'
<1> DEFINE f == proc[Lane]
           g == proc'[Lane]
<1>0. /\ Lane \in Procs /\ Clients \subseteq Procs /\ Lane \notin Clients /\ Calm
      /\ proc \in [Procs -> Frame] /\ record \in [Turns -> Statuses]
  BY NeverPlain, ConstantsAssumption DEF Procs, TInv, TypeOK
<1>1. ASSUME \A t \in Turns : record'[t] = "running" => Running(t) \/ Ahead(t)',
             \A t \in Turns : Completing(f) /\ f.turn = t /\ record'[t] = "running" => Completing(g) /\ g.turn = t,
             \A t \in Turns : ts'.active = t => record'[t] = "running" \/ (Storing(g) /\ g.turn = t)
      PROVE  Working'
  <2>1. \A p \in Procs : Leaves(proc[p])' BY LeavesNext, PlainAfter
  <2>2. ASSUME NEW t \in Turns, Running(t)' PROVE Ahead(t)' \/ (Completing(g) /\ g.turn = t)
    <3>1. record'[t] = "running" BY <2>2 DEF Running
    <3>2. CASE Ahead(t)
      <4>1. g.pc = "finish" => Completing(g) BY DEF Completing
      <4> QED BY <3>2, <4>1, AheadGoes
    <3>3. CASE ~Ahead(t) /\ Running(t) BY <1>1, <3>1, <3>3 DEF Working
    <3> QED BY <1>1, <3>1, <3>2, <3>3
  <2>3. \A t \in Turns : (ts.active = t)' => Running(t)' \/ (Storing(g) /\ g.turn = t) BY <1>1, RowsAfter
  <2> QED BY <1>0, <2>1, <2>2, <2>3, Primes, PlainAfter DEF Working
<1>2. ASSUME record' = record, ts' = ts PROVE Working'
  <2>1. CASE (EnsureStep(Lane) \/ LaneStep) /\ ~CompleteActiveTurn
    <3>1. Completing(f) => Completing(g) /\ g.turn = f.turn BY <2>1, LanePlain
    <3>2. Storing(f) => ts'.active = NoTurn \/ (Storing(g) /\ g.turn = f.turn)
      <4>1. CASE Storing(f) /\ UpsertWrite(Lane)
        <5>1. f.patch.active = NoTurn BY <1>0, <4>1 DEF Working, Leaves
        <5> QED BY <4>1, <5>1, NoTurnApart, ConstantsAssumption DEF UpsertWrite, Patched, Pick
      <4> QED BY <2>1, <4>1, LanePlain
    <3>3. \A t \in Turns : ts'.active = t => Running(t) \/ (Storing(g) /\ g.turn = t)
      BY <1>2, <3>2, NoTurnApart DEF Working
    <3> QED BY <1>1, <1>2, <3>1, <3>3 DEF Running
  <2>2. CASE CompleteActiveTurn
    <3>1. f.pc = "complete_write" /\ Completing(f) BY <2>2 DEF CompleteActiveTurn, At, Completing
    <3>2. f.turn \in Turns /\ f.target = f.turn /\ record[f.turn] = "running"
      BY <1>0, <3>1, FrameTurns, Apart DEF Rows, LaneRow
    <3>3. record'[f.turn] # "running" BY <1>0, <2>2, <3>2 DEF CompleteActiveTurn
    <3> QED BY <1>2, <3>2, <3>3
  <2>3. CASE g = f BY <1>1, <1>2, <2>3 DEF Working, Running
  <2>4. CASE ~(EnsureStep(Lane) \/ LaneStep)
    <3>1. \A c \in Clients : UserStep(c) \/ StartStep(c) \/ CommandStep(c) \/ EnsureStep(c) => g = f
      BY ClientEffect
    <3>2. InterruptTimeout \/ UNCHANGED vars \/ (\E t \in Turns : AgentStep(t)) => g = f
      BY DEF InterruptTimeout, vars, AgentStep, Speak, EndTurn, EchoEnd
    <3> QED BY <2>3, <2>4, <3>1, <3>2, NeverPlain DEF Next, Procs
  <2> QED BY <2>1, <2>2, <2>4
<1>3. CASE CompleteActiveTurn
  <2>1. f.pc = "complete_write" /\ Completing(f) BY <1>3 DEF CompleteActiveTurn, At, Completing
  <2>2. f.turn \in Turns /\ f.target = f.turn /\ record[f.turn] = "running" /\ ts.active = f.turn
    BY <1>0, <2>1, FrameTurns, Apart DEF Rows, LaneRow
  <2>3. record'[f.turn] # "running" /\ \A t \in Turns \ {f.turn} : record'[t] = record[t]
    BY <1>0, <1>3, <2>2 DEF CompleteActiveTurn
  <2>4. g.pc = "upsert_read" /\ g.then = "final_read" /\ g.turn = f.turn
    BY <1>0, <1>3 DEF CompleteActiveTurn, Upsert, Frame
  <2>5. ts' = ts BY <1>3 DEF CompleteActiveTurn
  <2>6. Storing(g) BY <2>4 DEF Storing, Upserting
  <2>7. \A t \in Turns : record'[t] = "running" => Running(t) BY <2>3 DEF Running
  <2> HIDE DEF f, g
  <2> QED BY <1>1, <2>2, <2>3, <2>4, <2>5, <2>6, <2>7
<1>4. ASSUME NEW p \in Procs, CreateTurnStart(p) PROVE Working'
  <2> DEFINE t == proc[p].turn
  <2>1. Ensuring(proc[p]) BY <1>4 DEF CreateTurnStart, At, Ensuring
  <2>2. t \in Turns /\ Ahead(t) /\ ~HandleEvent /\ ~Ending(f) BY <2>1, EnsuringAhead
  <2>4. ~Completing(f) /\ ~Storing(f) BY <2>2 DEF Ending, Storing, Closing
  <2>5. record' = [record EXCEPT ![t] = "running"] /\ ts' = ts BY <1>4 DEF CreateTurnStart
  <2> HIDE DEF t
  <2>3. \A u \in Turns : u = t => Ahead(u)' BY <2>2, AheadGoes
  <2>6. \A u \in Turns : record'[u] = IF u = t THEN "running" ELSE record[u] BY <1>0, <2>5
  <2>7. \A u \in Turns : record'[u] = "running" => Running(u) \/ Ahead(u)' BY <2>3, <2>6 DEF Running
  <2>8. \A u \in Turns : ts'.active = u => record'[u] = "running" BY <2>4, <2>5, <2>6 DEF Working, Running
  <2> QED BY <1>1, <2>4, <2>7, <2>8
<1>5. ASSUME NEW p \in Procs, UpsertWrite(p) PROVE Working'
  <2>0. /\ proc[p].pc = "upsert_write" /\ ts' = Patched(proc[p].seen, proc[p].patch) /\ record' = record
        /\ proc[p].pc \in Upserting
    BY <1>5 DEF UpsertWrite, At, Upserting
  <2>1. CASE Writing(proc[p])
    <3>1. Ensuring(proc[p]) BY <2>1, Apart
    <3>2. /\ proc[p].turn \in Turns /\ ~Ending(f)
          /\ record[proc[p].turn] \in {"none", "running"}
      BY <3>1, EnsuringAhead
    <3>3. record[proc[p].turn] # "none" /\ proc[p].patch = MarkTurnRunning(proc[p].turn)
      BY <2>1 DEF Rows, WriterRow
    <3>4. ts'.active = proc[p].turn
      BY <2>0, <3>2, <3>3, NoTurnApart DEF Patched, Pick, MarkTurnRunning
    <3>5. ~Completing(f) BY <3>2, Apart
    <3> QED BY <1>1, <2>0, <3>2, <3>3, <3>4, <3>5 DEF Running
  <2>2. CASE p = Lane /\ ~Writing(proc[p])
    <3>1. Storing(f) /\ ~Completing(f) /\ f.patch.active = NoTurn
      <4>1. LaneStage(f) BY DEF Stages
      <4>2. Storing(f) /\ ~Completing(f)
        BY <2>0, <2>2, <4>1 DEF LaneStage, Handling, Ensuring, Writing, Ending, Completing, Closing, Storing, Upserting
      <4> QED BY <1>0, <4>2 DEF Working, Leaves
    <3>2. ts'.active = NoTurn BY <2>0, <2>2, <3>1, ConstantsAssumption DEF Patched, Pick
    <3> QED BY <1>1, <2>0, <3>1, <3>2, NoTurnApart DEF Running
  <2>3. CASE p \in Clients /\ ~Writing(proc[p])
    <3>1. Resolving(proc[p])
      BY <2>0, <2>3 DEF Stages, ClientStage, Sending, Ensuring, Writing, Upserting
    <3>2. proc[p].patch.active = Keep /\ proc[p].seen.active = NoTurn BY <1>0, <2>0, <3>1 DEF Working, Leaves
    <3>3. ts'.active = NoTurn BY <2>0, <3>2 DEF Patched, Pick
    <3>4. EnsureStep(p) BY <1>5 DEF EnsureStep
    <3>5. g = f BY <2>3, <3>4, ClientEffect
    <3> QED BY <1>1, <2>0, <3>3, <3>5, NoTurnApart DEF Running
  <2> QED BY <2>1, <2>2, <2>3 DEF Procs
<1>6. ASSUME NEW c \in Clients, WriteAccepted(c) \/ WriteReverted(c) PROVE Working'
  <2>1. CommandStep(c) BY <1>6 DEF CommandStep
  <2>2. g = f BY <2>1, ClientEffect
  <2>3. ts' = ts /\ \A t \in Turns : record'[t] = "running" => record[t] = "running"
    BY <1>0, <1>6 DEF WriteAccepted, WriteReverted
  <2>4. ~Ensuring(proc[c]) BY <2>1, CalmCommands, <1>0, Apart
  <2>5. ts.active = NoTurn BY <2>1, <2>4, ClientAlone, NothingUnder
  <2> HIDE DEF f, g
  <2> QED BY <1>1, <2>2, <2>3, <2>5, NoTurnApart DEF Running
<1> QED BY <1>2, <1>3, <1>4, <1>5, <1>6, StoreSteps

-----------------------------------------------------------------------------
(* Decided: a turn on a card has an outcome, and keeps it. *)

\* A turn with an outcome never runs again.
LEMMA ClosedStays ==
    ASSUME TInv, RInv, SInv, Plain, Stages, Single, Ends, Peaceful, Opening, Rows, [Next]_vars
    PROVE  \A t \in Turns : record[t] \in Closed => record'[t] \in Closed
<1>0. record \in [Turns -> Statuses] /\ Lane \in Procs BY DEF TInv, TypeOK, Procs
<1>1. CASE CompleteActiveTurn BY <1>0, <1>1 DEF CompleteActiveTurn, Closed
<1>2. ASSUME NEW p \in Procs, CreateTurnStart(p) PROVE \A t \in Turns : record[t] \in Closed => record'[t] \in Closed
  <2>1. Ensuring(proc[p]) BY <1>2 DEF CreateTurnStart, At, Ensuring
  <2>2. record[proc[p].turn] \in {"none", "running"} BY <2>1, EnsuringAhead
  <2> QED BY <1>0, <1>2, <2>2 DEF CreateTurnStart, Closed
<1>3. ASSUME NEW c \in Clients, WriteAccepted(c) \/ WriteReverted(c)
      PROVE  \A t \in Turns : record[t] \in Closed => record'[t] \in Closed
  BY <1>0, <1>3 DEF WriteAccepted, WriteReverted, Closed
<1>4. ASSUME NEW p \in Procs, UpsertWrite(p) PROVE record' = record BY <1>4 DEF UpsertWrite
<1> QED BY <1>1, <1>2, <1>3, <1>4, StoreSteps

\* Every step keeps the outcomes.
LEMMA DecidedNext ==
    ASSUME TInv, RInv, SInv, Plain, Stages, Single, Ends, Peaceful, Opening, Rows, Decided, [Next]_vars
    PROVE  Decided'
<1> DEFINE f == proc[Lane]
           g == proc'[Lane]
<1>0. /\ Lane \in Procs /\ Clients \subseteq Procs /\ Lane \notin Clients /\ Calm
      /\ proc \in [Procs -> Frame] /\ record \in [Turns -> Statuses] /\ shown \subseteq Turns
  BY NeverPlain, ConstantsAssumption DEF Procs, TInv, TypeOK
<1>1. \A t \in Turns : record[t] \in Closed => record'[t] \in Closed BY ClosedStays
<1>2. ASSUME NEW p \in Procs, proc'[p] = proc[p] PROVE Outcome(proc'[p], record')
  BY <1>1, <1>2, FrameTurns DEF Decided, Outcome, Ending
<1>3. ASSUME shown' = shown, \A p \in Procs : proc'[p] # proc[p] => Outcome(proc'[p], record') PROVE Decided'
  <2>1. \A t \in shown' : record'[t] \in Closed BY <1>0, <1>1, <1>3 DEF Decided
  <2> QED BY <1>2, <1>3, <2>1, PlainAfter DEF Decided
<1>4. ASSUME NEW c \in Clients, UserStep(c) \/ StartStep(c) \/ CommandStep(c) \/ EnsureStep(c) PROVE Decided'
  <2> DEFINE h == proc'[c]
  <2>1. shown' = shown /\ \A p \in Procs : proc'[p] # proc[p] => p = c BY <1>4, ClientEffect
  <2>2. h.pc = "idle" \/ Sending(h) \/ Ensuring(h) \/ Resolving(h)
    <3>1. CASE TurnStart(c)
      <4>1. h.pc = "ensure" BY <1>0, <3>1 DEF TurnStart, Frame
      <4> QED BY <4>1 DEF Ensuring
    <3>2. CASE ~TurnStart(c) BY <1>0, <1>4, <3>2, ClientMoves DEF Stages, ClientStage
    <3> QED BY <3>1, <3>2
  <2>3. ~Closing(h) BY <2>2, Apart DEF Ending
  <2>4. ASSUME h.pc \in {"acc_write", "rev_write"} PROVE h.turn \in shown
    <3>1. CASE UserStep(c)
      BY <1>0, <2>4, <3>1, NeverPlain, BlankIdle DEF UserStep, SendText, AcceptTurn, RevertTurn, EnsureCanStartTurn,
         FailStart, Return, Goto, Frame
    <3>2. CASE StartStep(c)
      BY <1>0, <2>4, <3>2, NeverPlain, BlankIdle DEF StartStep, CheckPendingApproval, PrepareTurn, TurnStart,
         EnsureCanStartTurn, FailStart, Return, Goto, Frame
    <3>3. CASE CommandStep(c)
      <4>1. CASE WriteAccepted(c) \/ WriteReverted(c)
        BY <1>0, <2>4, <4>1 DEF WriteAccepted, WriteReverted, Goto, Frame
      <4>2. CASE ReleaseBlocking(c) \/ ReleaseReferences(c)
        BY <1>0, <2>4, <4>2, BlankIdle DEF ReleaseBlocking, ReleaseReferences, Upsert, Return, Frame
      <4> QED BY <1>0, <3>3, <4>1, <4>2, CalmCommands, NeverPlain
    <3>4. CASE EnsureStep(c)
      <4>1. CASE Ensuring(proc[c])
        <5>1. h.pc = "idle" \/ Ensuring(h) BY <1>0, <3>4, <4>1, ClientMoves
        <5> QED BY <2>4, <5>1 DEF Ensuring, Upserting
      <4>2. CASE UpsertRead(c) \/ UpsertWrite(c)
        <5>1. CASE UpsertRead(c) BY <1>0, <2>4, <4>2, <5>1 DEF UpsertRead, Frame
        <5>2. CASE UpsertWrite(c) /\ ~Ensuring(proc[c])
          <6>1. proc[c].then = "idle"
            BY <5>2 DEF UpsertWrite, At, Stages, ClientStage, Sending, Ensuring, Resolving, Upserting
          <6> QED BY <1>0, <2>4, <5>2, <6>1, BlankIdle DEF UpsertWrite, Return
        <5> QED BY <4>1, <4>2, <5>1, <5>2
      <4>3. Ensuring(proc[c]) \/ UpsertRead(c) \/ UpsertWrite(c)
        BY <1>0, <3>4, NeverPlain DEF EnsureStep, EnsureEnter, EnsureRead, CreateTurnStart, EnsureJoined,
           EnsureDone, At, Ensuring
      <4> QED BY <4>1, <4>2, <4>3
    <3> QED BY <1>4, <3>1, <3>2, <3>3, <3>4
  <2>5. Outcome(h, record') BY <1>0, <1>1, <2>3, <2>4 DEF Decided, Outcome
  <2> HIDE DEF h
  <2> QED BY <1>3, <2>1, <2>5 DEF h
<1>5. CASE EnsureStep(Lane) \/ LaneStep
  <2>1. \A p \in Procs : proc'[p] # proc[p] => p = Lane BY <1>0, <1>5, OtherFrames
  <2>2. LaneStage(g) BY StagesNext, <1>0, Primes DEF Stages
  <2>3. g.pc \notin {"acc_write", "rev_write"}
    BY <2>2 DEF LaneStage, Handling, Ensuring, Ending, Completing, Closing, Upserting
  <2>4. Outcome(g, record')
    <3>1. CASE CompleteActiveTurn
      <4>1. f.pc = "complete_write" /\ Completing(f) BY <3>1 DEF CompleteActiveTurn, At, Completing
      <4>2. f.turn \in Turns /\ f.target = f.turn BY <1>0, <4>1, FrameTurns, Apart DEF Rows, LaneRow
      <4>3. g.turn = f.turn BY <1>0, <3>1 DEF CompleteActiveTurn, Upsert, Frame
      <4>4. record'[f.turn] \in Closed BY <1>0, <3>1, <4>2 DEF CompleteActiveTurn, Closed
      <4> QED BY <4>3, <4>4 DEF Outcome
    <3>2. CASE ~CompleteActiveTurn
      <4>1. Closing(g) => Closing(f) /\ g.turn = f.turn BY <1>5, <3>2, LanePlain
      <4> HIDE DEF g, f
      <4>2. Closing(g) => f.turn \in Turns /\ record[f.turn] \in Closed
        BY <1>0, <4>1, FrameTurns DEF Decided, Outcome, Ending, f
      <4> QED BY <1>1, <2>3, <4>1, <4>2 DEF Outcome
    <3> QED BY <3>1, <3>2
  <2>5. CASE RouteSummary
    <3>1. Closing(f) BY <2>5 DEF RouteSummary, At, Closing
    <3>2. f.turn \in Turns /\ record[f.turn] \in Closed BY <1>0, <3>1, FrameTurns DEF Decided, Outcome, Ending
    <3>3. shown' = shown \cup {f.turn} BY <2>5 DEF RouteSummary
    <3>4. \A t \in shown' : record'[t] \in Closed BY <1>0, <1>1, <3>2, <3>3 DEF Decided
    <3> QED BY <1>2, <2>1, <2>4, <3>4, PlainAfter DEF Decided
  <2>6. CASE ~RouteSummary
    <3>1. shown' = shown
      BY <1>5, <2>6 DEF EnsureStep, EnsureEnter, EnsureRead, CreateTurnStart, EnsureJoined, EnsureDone, EnsureFails,
         UpsertRead, UpsertWrite, LaneStep, TakeEvent, HandleEvent, FinishSessionTurn, CommitAndDiff, CommitFails,
         ReadActiveTurn, ReadActiveRecord, CompleteActiveTurn, FinalizeRead, FinalizeWrite, TurnAborted, outside
    <3> QED BY <1>3, <2>1, <2>4, <3>1
  <2> QED BY <2>5, <2>6
<1>6. CASE InterruptTimeout \/ UNCHANGED vars \/ \E t \in Turns : AgentStep(t)
  <2>1. proc' = proc /\ shown' = shown
    BY <1>6 DEF InterruptTimeout, vars, AgentStep, Speak, EndTurn, EchoEnd, outside
  <2> QED BY <1>3, <2>1
<1> QED BY <1>4, <1>5, <1>6, NeverPlain DEF Next, Procs

-----------------------------------------------------------------------------
(* The theorems of plain threads. *)

\* A plain thread keeps its invariant from the start.
LEMMA Plained == Plain => (Spec => [](Base /\ CInv /\ PInv))
<1> SUFFICES ASSUME Plain PROVE Spec => [](Base /\ CInv /\ PInv)
  OBVIOUS
<1>0. Calm BY NeverPlain
<1>1. Init => PInv
  <2> SUFFICES ASSUME Init PROVE PInv
    OBVIOUS
  <2>0. Lane \in Procs /\ Clients \subseteq Procs BY DEF Procs
  <2>1. /\ \A p \in Procs : proc[p].pc = "idle"
        /\ record = [t \in Turns |-> "none"]
        /\ rt.latest = NoTurn /\ rt.interrupting = NoTurn /\ ts.active = NoTurn /\ Queue = <<>>
    BY BlankIdle DEF Init, NoRuntime, NoState, Queue, QueueOf
  <2>2. Peaceful BY <2>0, <2>1, Apart DEF Init, Peaceful
  <2>3. Opening BY <2>0, <2>1, Apart, NoTurnApart DEF Opening, At
  <2>4. Claimed BY DEF Init, Claimed
  <2>5. \A p \in Procs : Leaves(proc[p]) /\ Outcome(proc[p], record)
    BY <2>1, Apart DEF Leaves, Storing, Outcome, Ending, Upserting
  <2>6. Working BY <2>1, <2>5, NoTurnApart DEF Working, Running
  <2>7. Decided BY <2>5 DEF Init, Decided
  <2> QED BY <2>2, <2>3, <2>4, <2>6, <2>7 DEF PInv
<1>2. Base /\ CInv /\ PInv /\ [Next]_vars => PInv'
  <2> SUFFICES ASSUME TInv, RInv, ParkedWait, QInv, SInv, Stages, Single, Ends, Rows,
                      Peaceful, Opening, Claimed, Working, Decided, [Next]_vars
               PROVE  PInv'
    BY DEF Base, CInv, PInv
  <2> QED BY PeacefulNext, OpeningNext, ClaimedNext, WorkingNext, DecidedNext DEF PInv
<1> QED BY <1>0, <1>1, <1>2, Rowed, PTL DEF Spec

\* A thread whose users wait for it, which nothing interrupts and where no call fails, is
\* ready for a new turn whenever it is settled: its machine is released, no turn is active
\* in the row and no record says that one runs, whatever the order of the events, the
\* answers to turn/start and the read-modify-writes of the row.
THEOREM SettledThreads ==
    ASSUME Env = {}
    PROVE  Spec => []SettledClosed
<1>1. Plain BY DEF Plain
<1>2. Base /\ CInv /\ PInv => SettledClosed
  <2> SUFFICES ASSUME TInv, SInv, Ends, Peaceful, Opening, Claimed, Working, Settled
               PROVE  machine # "RUNNING" /\ ts.active = NoTurn /\ \A t \in Turns : record[t] # "running"
    BY DEF SettledClosed, SettledIdle, Base, CInv, PInv
  <2>1. Quiet /\ \A c \in Clients : At(c, "idle") BY DEF Settled
  <2>2. \A c \in Clients : ~Ensuring(proc[c]) BY <2>1, Apart DEF At
  <2>3. \A t \in Turns : ~Under(t) BY <2>1, <2>2, QuietNone
  <2>4. At(Lane, "idle") /\ ts.active = NoTurn /\ \A t \in Turns : ~Ahead(t) /\ ~Running(t)
    BY <2>3, NothingUnder
  <2>5. machine # "RUNNING" BY <2>1, <2>4 DEF Claimed, At
  <2> QED BY <2>4, <2>5 DEF Running
<1> QED BY <1>1, <1>2, Plained, PTL

\* Every step of a plain thread is a step of the ledger of its records, or leaves it.
LEMMA LedgerStep ==
    ASSUME TInv, RInv, ParkedWait, QInv, SInv, Plain, Stages, Single, Ends, Rows,
           Peaceful, Opening, Working, Decided, [Next]_vars
    PROVE  Ledger!Next \/ record' = record
<1>0. record \in [Turns -> Statuses] /\ Lane \in Procs /\ Clients \subseteq Procs
  BY DEF TInv, TypeOK, Procs
<1>1. ASSUME NEW p \in Procs, CreateTurnStart(p) PROVE Ledger!Next
  <2> DEFINE t == proc[p].turn
  <2>1. Ensuring(proc[p]) BY <1>1 DEF CreateTurnStart, At, Ensuring
  <2>2. t \in Turns /\ Ahead(t) /\ ~Ending(proc[Lane]) BY <2>1, EnsuringAhead
  <2>3. Under(t) BY <2>2, AheadUnder
  <2>4. record[t] = "none" BY <1>1 DEF RInv, CreateTurnStart, At, Critical, FrameKnown
  <2>5. record' = [record EXCEPT ![t] = "running"] BY <1>1 DEF CreateTurnStart
  <2>6. ~Completing(proc[Lane]) BY <2>2, Apart
  <2> HIDE DEF t
  <2>7. \A u \in Turns : record[u] # "running"
    <3> SUFFICES ASSUME NEW u \in Turns, Running(u) PROVE FALSE
      BY DEF Running
    <3>1. Under(u) BY <2>6, AheadUnder DEF Working
    <3>2. u = t BY <2>2, <2>3, <3>1 DEF Single
    <3> QED BY <2>4, <3>2 DEF Running
  <2>8. \A u \in Turns : record[u] # "awaiting_approval"
    <3> SUFFICES ASSUME NEW u \in Turns, Awaits(u) PROVE FALSE
      BY DEF Awaits
    <3>1. u = t BY <2>2, <2>3 DEF Rows, Blocked
    <3> QED BY <2>4, <3>1 DEF Awaits
  <2>9. Ledger!Start(t) BY <2>4, <2>5, <2>7, <2>8 DEF Ledger!Start, Ledger!Open
  <2> QED BY <2>2, <2>9 DEF Ledger!Next
<1>2. CASE CompleteActiveTurn
  <2> DEFINE t == proc[Lane].turn
  <2>1. proc[Lane].pc = "complete_write" /\ Completing(proc[Lane]) BY <1>2 DEF CompleteActiveTurn, At, Completing
  <2>2. t \in Turns /\ proc[Lane].target = t /\ record[t] = "running"
    BY <1>0, <2>1, FrameTurns, Apart DEF Rows, LaneRow
  <2>3. \/ record' = [record EXCEPT ![t] = "awaiting_approval"]
        \/ record' = [record EXCEPT ![t] = "completed"]
    BY <1>2, <2>2 DEF CompleteActiveTurn
  <2> HIDE DEF t
  <2>4. Ledger!Finish(t) BY <2>2, <2>3 DEF Ledger!Finish
  <2> QED BY <2>2, <2>4 DEF Ledger!Next
<1>3. ASSUME NEW c \in Clients, WriteAccepted(c) \/ WriteReverted(c) PROVE Ledger!Next
  <2> DEFINE t == proc[c].turn
  <2>1. c \in Procs /\ proc[c].pc \in {"acc_write", "rev_write"}
    BY <1>0, <1>3 DEF WriteAccepted, WriteReverted, At
  <2>2. t \in Turns /\ record[t] \in Closed BY <2>1, FrameTurns DEF Decided, Outcome
  <2>3. \/ record' = [record EXCEPT ![t] = "accepted"]
        \/ record' = [record EXCEPT ![t] = "reverted"]
    BY <1>3 DEF WriteAccepted, WriteReverted
  <2> HIDE DEF t
  <2>4. Ledger!Resolve(t) BY <2>2, <2>3 DEF Ledger!Resolve, Ledger!Decision, Closed
  <2> QED BY <2>2, <2>4 DEF Ledger!Next
<1>4. ASSUME NEW p \in Procs, UpsertWrite(p) PROVE record' = record BY <1>4 DEF UpsertWrite
<1> QED BY <1>1, <1>2, <1>3, <1>4, StoreSteps

\* Seen through its records, such a thread implements the ledger: a turn starts when no
\* other runs or awaits a decision, ends once, and a user's decision is final or replaced
\* by another; no stale read-modify-write, and no whole record written back, undoes it.
THEOREM LedgerImplemented ==
    ASSUME Env = {}
    PROVE  Spec => LedgerKept
<1>1. Plain BY DEF Plain
<1>2. Init => Ledger!Init BY DEF Init, Ledger!Init
<1>3. Base /\ CInv /\ PInv /\ [Next]_vars => [Ledger!Next]_record
  <2> SUFFICES ASSUME Base, CInv, PInv, [Next]_vars PROVE Ledger!Next \/ record' = record
    OBVIOUS
  <2> QED BY <1>1, LedgerStep DEF Base, CInv, PInv
<1> QED BY <1>1, <1>2, <1>3, Plained, PTL DEF Spec, LedgerKept, Ledger!Spec
=============================================================================
