------------------------- MODULE ApprovalFlowProofs -------------------------
(***************************************************************************)
(* Theorems about ApprovalFlow, for any turns, approvals, users, decisions *)
(* and environments.                                                       *)
(*                                                                         *)
(* The argument follows the life of an approval.  A request that waits in  *)
(* the lane has left no trace (Queueing), so that its timer is set once.   *)
(* Only an approval whose timer is set can be decided, and deciding stops  *)
(* the timer: hence at most one user's call is on its way to the agent     *)
(* with a decision (OneActs), and the agent has no answer yet (Untold).    *)
(***************************************************************************)
EXTENDS ApprovalFlow, TLAPS

\* What AwaitingBacked and ExpiredUnanswered exclude.
Calm == Without({"interrupt", "abandon", "crash"})

\* A user's call has stopped the timer of an approval and is not done with it.
ActingPCs    == {"respond", "answered", "resolve"}
Acting(c, a) == proc[c].pc \in ActingPCs /\ proc[c].approval = a

\* Nothing has happened to an approval, but for its request.
Fresh(a) == status[a] = "none" /\ wait[a] = "none" /\ answered[a] = NoDecision /\ a \notin shown

Asked(a) == \E i \in DOMAIN requests : requests[i] = a

\* A call holds what it needs from where it is on.
Frames ==
    \A c \in Clients :
        /\ proc[c].pc \in {"begin", "mark"} => proc[c].turn \in Turns
        /\ proc[c].pc \in ActingPCs \cup {"decide"} =>
             proc[c].approval \in shown /\ proc[c].decision \in Decisions

\* An approval is requested once, and waits in the lane as fresh as it was before.
Queueing ==
    /\ \A a \in Approvals : owner[a] = NoTurn => Fresh(a) /\ ~Asked(a) /\ lane # a
    /\ \A a \in Approvals : Asked(a) => Fresh(a) /\ lane # a
    /\ \A i, j \in DOMAIN requests : requests[i] = requests[j] => i = j
    /\ lane # NoApproval => Fresh(lane)

\* While its timer is set, the card of an approval is shown, and nobody has decided it.
Untold ==
    \A a \in Approvals : wait[a] = "armed" =>
        a \in shown /\ answered[a] = NoDecision /\ \A c \in Clients : ~Acting(c, a)

OneActs == \A c, d \in Clients : \A a \in Approvals : Acting(c, a) /\ Acting(d, a) => c = d

\* What the agent knows of the decision a call brings.
Told ==
    \A c \in Clients :
        /\ proc[c].pc = "respond" => answered[proc[c].approval] = NoDecision
        /\ proc[c].pc \in {"answered", "resolve"} => answered[proc[c].approval] = proc[c].decision

\* Without interrupts and abandoned turns, nothing is stopped ...
Unstopped ==
    Calm =>
        /\ interrupting = NoTurn /\ muted = NoTurn
        /\ \A c \in Clients : proc[c].pc \notin {"begin", "mark"}
        /\ \A t \in Turns : agent[t] # "aborted"

\* ... and an approval expires only by its timer, which ends its life.
Expired(a) == a \in expiring \/ status[a] = "expired"
Ended(a) ==
    /\ a \in shown /\ wait[a] = "none" /\ answered[a] = NoDecision
    /\ \A c \in Clients : ~Acting(c, a)
Lapsed == Calm => \A a \in Approvals : Expired(a) => Ended(a)

Typed   == TypeOK /\ Frames
Answers == Queueing /\ Untold /\ OneActs /\ Told /\ Recorded
Settling == Unstopped /\ Lapsed /\ AwaitingBacked

-----------------------------------------------------------------------------
(* Types.                                                                  *)

LEMMA BlankType == Blank \in Frame
  BY DEF Blank, Frame, PCs

\* Putting another frame in the place of one.
LEMMA OneFrame ==
  ASSUME TypeOK, NEW c \in Clients, NEW f \in Frame, proc' = [proc EXCEPT ![c] = f]
  PROVE  proc' \in [Clients -> Frame] /\ proc'[c] = f /\ \A d \in Clients \ {c} : proc'[d] = proc[d]
  BY DEF TypeOK

\* A call goes on,
LEMMA GotoFrame ==
  ASSUME TypeOK, NEW c \in Clients, NEW pc \in PCs, Goto(c, pc)
  PROVE  /\ proc' \in [Clients -> Frame] /\ \A d \in Clients \ {c} : proc'[d] = proc[d]
         /\ proc'[c].pc = pc /\ proc'[c].turn = proc[c].turn
         /\ proc'[c].approval = proc[c].approval /\ proc'[c].decision = proc[c].decision
<1> DEFINE f == [proc[c] EXCEPT !.pc = pc]
<1>1. proc[c] \in Frame
  BY DEF TypeOK
<1>2. /\ f \in Frame /\ f.pc = pc /\ f.turn = proc[c].turn
      /\ f.approval = proc[c].approval /\ f.decision = proc[c].decision
  BY <1>1 DEF Frame
<1>3. proc' = [proc EXCEPT ![c] = f]
  BY DEF Goto, TypeOK
<1> HIDE DEF f
<1> QED BY <1>2, <1>3, OneFrame

\* returns,
LEMMA ReturnFrame ==
  ASSUME TypeOK, NEW c \in Clients, Return(c)
  PROVE  /\ proc' \in [Clients -> Frame] /\ \A d \in Clients \ {c} : proc'[d] = proc[d]
         /\ proc'[c].pc = "idle"
<1>1. Blank.pc = "idle"
  BY DEF Blank
<1> QED BY <1>1, BlankType, OneFrame DEF Return

\* or begins with a turn or a decision.
LEMMA InterruptFrame ==
  ASSUME TypeOK, NEW c \in Clients, Interrupt(c)
  PROVE  /\ proc' \in [Clients -> Frame] /\ \A d \in Clients \ {c} : proc'[d] = proc[d]
         /\ proc'[c].pc = "begin" /\ proc'[c].turn \in Turns
<1>1. PICK t \in Turns : proc' = [proc EXCEPT ![c].pc = "begin", ![c].turn = t]
  BY DEF Interrupt
<1> DEFINE f == [proc[c] EXCEPT !.pc = "begin", !.turn = t]
<1>2. proc[c] \in Frame
  BY DEF TypeOK
<1>3. f \in Frame /\ f.pc = "begin" /\ f.turn = t
  BY <1>2 DEF Frame, PCs
<1>4. proc' = [proc EXCEPT ![c] = f]
  BY <1>1 DEF TypeOK
<1> HIDE DEF f
<1> QED BY <1>3, <1>4, OneFrame

LEMMA PressFrame ==
  ASSUME TypeOK, NEW c \in Clients, PressButton(c)
  PROVE  /\ proc' \in [Clients -> Frame] /\ \A d \in Clients \ {c} : proc'[d] = proc[d]
         /\ proc'[c].pc = "decide" /\ proc'[c].approval \in shown /\ proc'[c].decision \in Decisions
<1>1. PICK a \in shown, e \in Decisions :
        proc' = [proc EXCEPT ![c].pc = "decide", ![c].approval = a, ![c].decision = e]
  BY DEF PressButton
<1> DEFINE f == [proc[c] EXCEPT !.pc = "decide", !.approval = a, !.decision = e]
<1>2. proc[c] \in Frame /\ a \in Approvals
  BY DEF TypeOK
<1>3. f \in Frame /\ f.pc = "decide" /\ f.approval = a /\ f.decision = e
  BY <1>2 DEF Frame, PCs
<1>4. proc' = [proc EXCEPT ![c] = f]
  BY <1>1 DEF TypeOK
<1> HIDE DEF f
<1> QED BY <1>3, <1>4, OneFrame

\* Clearing the approvals of a turn.
LEMMA ExpireType ==
  ASSUME TypeOK, NEW t, ExpireTurn(t)
  PROVE  /\ pending' \subseteq Approvals /\ expiring' \subseteq Approvals
         /\ wait' \in [Approvals -> {"none", "armed", "decided"}]
         /\ \A a \in Approvals : wait'[a] \in {wait[a], "none"}
  BY DEF TypeOK, ExpireTurn

LEMMA TypeInit == Init => TypeOK
  BY BlankType, ApprovalConstants DEF Init, TypeOK, MachineStates, Outcomes, AgentStates

\* Every step keeps the types: those of users,
LEMMA TypeUser ==
  ASSUME TypeOK, NEW c \in Clients, UserStep(c)
  PROVE  TypeOK'
<1>1. proc' \in [Clients -> Frame]
  BY GotoFrame, InterruptFrame, PressFrame DEF UserStep, SendText, PCs
<1> QED BY <1>1 DEF UserStep, SendText, Interrupt, PressButton, TypeOK, session, runtime, waiting, dedup, outside

\* of calls,
LEMMA TypeCommand ==
  ASSUME TypeOK, Frames, NEW c \in Clients, CommandStep(c)
  PROVE  TypeOK'
<1> USE DEF session, runtime, waiting, dedup, outside
<1>1. CASE ClaimThread(c)
  BY <1>1, ReturnFrame DEF ClaimThread, TypeOK, MachineStates, AgentStates
<1>2. CASE BeginInterrupt(c)
  <2>1. proc' \in [Clients -> Frame]
    BY <1>2, GotoFrame, ReturnFrame DEF BeginInterrupt, PCs
  <2>2. /\ pending' \subseteq Approvals /\ expiring' \subseteq Approvals
        /\ wait' \in [Approvals -> {"none", "armed", "decided"}]
    BY <1>2, ExpireType DEF BeginInterrupt, TypeOK
  <2>3. machine' \in MachineStates /\ interrupting' \in Turns \cup {NoTurn}
    BY <1>2 DEF BeginInterrupt, TypeOK, Frame, MachineStates
  <2> QED BY <1>2, <2>1, <2>2, <2>3 DEF BeginInterrupt, TypeOK
<1>3. CASE MarkTurnInterrupting(c)
  <2>1. proc[c].turn \in Turns
    BY <1>3 DEF MarkTurnInterrupting, At, Frames
  <2> QED BY <1>3, <2>1, ReturnFrame DEF MarkTurnInterrupting, TypeOK
<1>4. CASE Decide(c)
  <2>1. proc' \in [Clients -> Frame]
    BY <1>4, GotoFrame, ReturnFrame DEF Decide, PCs
  <2>2. proc[c].approval \in Approvals
    BY <1>4 DEF Decide, At, Frames, TypeOK
  <2> QED BY <1>4, <2>1, <2>2 DEF Decide, TypeOK, MachineStates
<1>5. CASE RefuseDecision(c)
  <2>1. proc[c].approval \in Approvals
    BY <1>5 DEF RefuseDecision, At, Frames, TypeOK
  <2> QED BY <1>5, <2>1, ReturnFrame DEF RefuseDecision, TypeOK
<1>6. CASE RespondApproval(c)
  <2>1. proc' \in [Clients -> Frame]
    BY <1>6, GotoFrame DEF RespondApproval, PCs
  <2>2. proc[c].decision \in Decisions
    BY <1>6 DEF RespondApproval, At, Frames, ActingPCs
  <2> QED BY <1>6, <2>1, <2>2 DEF RespondApproval, TypeOK
<1>7. CASE RespondFails(c)
  BY <1>7, ReturnFrame DEF RespondFails, TypeOK, MachineStates
<1>8. CASE ClearContext(c)
  <2>1. proc' \in [Clients -> Frame]
    BY <1>8, GotoFrame DEF ClearContext, PCs
  <2> QED BY <1>8, <2>1 DEF ClearContext, TypeOK
<1>9. CASE MarkResolved(c)
  <2>1. proc[c].approval \in Approvals /\ proc[c].decision \in Decisions
    BY <1>9 DEF MarkResolved, At, Frames, ActingPCs, TypeOK
  <2> QED BY <1>9, <2>1, ReturnFrame DEF MarkResolved, TypeOK
<1> QED BY <1>1, <1>2, <1>3, <1>4, <1>5, <1>6, <1>7, <1>8, <1>9 DEF CommandStep

\* and of the lanes, the timers, the agent and a restart.
LEMMA TypeRest ==
  ASSUME TypeOK,
         \/ LaneStep \/ InterruptTimeout \/ Crash \/ UNCHANGED vars
         \/ \E a \in Approvals : TimerStep(a) \/ MarkExpired(a)
         \/ \E t \in Turns : AskApproval(t) \/ EndTurn(t) \/ EndStep(t)
  PROVE  TypeOK'
<1> USE DEF session, runtime, waiting, dedup, outside
<1>1. CASE RegisterRequest
  <2>1. Head(requests) \in Approvals /\ Tail(requests) \in Seq(Approvals)
    BY <1>1 DEF RegisterRequest, TypeOK
  <2> QED BY <1>1, <2>1 DEF RegisterRequest, TypeOK, MachineStates
<1>2. CASE CreateApproval
  BY <1>2 DEF CreateApproval, TypeOK, Outcomes
<1>3. CASE InterruptTimeout
  BY <1>3 DEF InterruptTimeout, TypeOK, MachineStates
<1>4. CASE Crash
  <2>1. proc' \in [Clients -> Frame]
    BY <1>4, BlankType DEF Crash
  <2>2. status' \in [Approvals -> Decisions \cup Outcomes]
    BY <1>4 DEF Crash, TypeOK, Outcomes
  <2>3. agent' \in [Turns -> AgentStates]
    BY <1>4 DEF Crash, TypeOK, AgentStates
  <2> QED BY <1>4, <2>1, <2>2, <2>3 DEF Crash, TypeOK, MachineStates
<1>5. CASE UNCHANGED vars
  BY <1>5 DEF vars, TypeOK
<1>6. ASSUME NEW a \in Approvals, TimerStep(a) \/ MarkExpired(a) PROVE TypeOK'
  BY <1>6 DEF TimerStep, ApprovalTimeout, ForgetDecided, MarkExpired, TypeOK, MachineStates, Outcomes
<1>7. ASSUME NEW t \in Turns, AskApproval(t) PROVE TypeOK'
  BY <1>7 DEF AskApproval, TypeOK
<1>8. ASSUME NEW t \in Turns, EndTurn(t) \/ HandleComplete(t) PROVE TypeOK'
  BY <1>8 DEF EndTurn, HandleComplete, TypeOK, AgentStates, MachineStates
<1>9. ASSUME NEW t \in Turns, HandleAborted(t) PROVE TypeOK'
  <2>1. /\ pending' \subseteq Approvals /\ expiring' \subseteq Approvals
        /\ wait' \in [Approvals -> {"none", "armed", "decided"}]
    BY <1>9, ExpireType DEF HandleAborted
  <2>2. machine' \in MachineStates /\ interrupting' \in Turns \cup {NoTurn}
    BY <1>9 DEF HandleAborted, TypeOK, MachineStates
  <2> QED BY <1>9, <2>1, <2>2 DEF HandleAborted, TypeOK, AgentStates
<1> QED BY <1>1, <1>2, <1>3, <1>4, <1>5, <1>6, <1>7, <1>8, <1>9 DEF LaneStep, EndStep

-----------------------------------------------------------------------------
(* Frames.                                                                 *)

LEMMA FramesInit == Init => Frames
  BY DEF Init, Frames, Blank, ActingPCs

\* No card is taken back.
LEMMA ShownGrows ==
  ASSUME TypeOK, [Next]_vars
  PROVE  shown \subseteq shown'
  BY DEF Next, UserStep, CommandStep, LaneStep, TimerStep, EndStep, SendText, Interrupt, PressButton,
     ClaimThread, BeginInterrupt, MarkTurnInterrupting, Decide, RefuseDecision, RespondApproval,
     RespondFails, ClearContext, MarkResolved, RegisterRequest, CreateApproval, ApprovalTimeout,
     ForgetDecided, MarkExpired, AskApproval, EndTurn, HandleComplete, HandleAborted,
     InterruptTimeout, Crash, vars

LEMMA FramesNext ==
  ASSUME TypeOK, Frames, [Next]_vars
  PROVE  Frames'
<1>1. shown \subseteq shown'
  BY ShownGrows
<1>2. ASSUME NEW c \in Clients, SendText(c) \/ ClaimThread(c) \/ BeginInterrupt(c) \/ MarkTurnInterrupting(c)
                                \/ Decide(c) \/ RefuseDecision(c)
      PROVE  Frames'
  <2>1. \A d \in Clients \ {c} : proc'[d] = proc[d]
    BY <1>2, GotoFrame, ReturnFrame DEF SendText, ClaimThread, BeginInterrupt, MarkTurnInterrupting,
       Decide, RefuseDecision, PCs
  <2>2. \/ proc'[c].pc \in {"idle", "claim"}
        \/ proc[c].pc = "begin" /\ proc'[c].pc = "mark" /\ proc'[c].turn = proc[c].turn
        \/ /\ proc[c].pc = "decide" /\ proc'[c].pc = "respond"
           /\ proc'[c].approval = proc[c].approval /\ proc'[c].decision = proc[c].decision
    BY <1>2, GotoFrame, ReturnFrame DEF SendText, ClaimThread, BeginInterrupt, MarkTurnInterrupting,
       Decide, RefuseDecision, PCs, At
  <2> QED BY <1>1, <2>1, <2>2 DEF Frames, ActingPCs
<1>3. ASSUME NEW c \in Clients, RespondApproval(c) \/ RespondFails(c) \/ ClearContext(c) \/ MarkResolved(c)
      PROVE  Frames'
  <2>1. \A d \in Clients \ {c} : proc'[d] = proc[d]
    BY <1>3, GotoFrame, ReturnFrame DEF RespondApproval, RespondFails, ClearContext, MarkResolved, PCs
  <2>2. \/ proc'[c].pc = "idle"
        \/ /\ proc[c].pc \in ActingPCs /\ proc'[c].pc \in ActingPCs
           /\ proc'[c].approval = proc[c].approval /\ proc'[c].decision = proc[c].decision
    BY <1>3, GotoFrame, ReturnFrame DEF RespondApproval, RespondFails, ClearContext, MarkResolved,
       PCs, At, ActingPCs
  <2> QED BY <1>1, <2>1, <2>2 DEF Frames, ActingPCs
<1>4. ASSUME NEW c \in Clients, Interrupt(c) \/ PressButton(c)
      PROVE  Frames'
  BY <1>1, <1>4, InterruptFrame, PressFrame DEF Frames, ActingPCs
<1>5. CASE Crash
  BY <1>5 DEF Crash, Frames, Blank, ActingPCs
<1>6. CASE UNCHANGED proc
  BY <1>1, <1>6 DEF Frames
<1>7. ASSUME NEW a \in Approvals, TimerStep(a) \/ MarkExpired(a) PROVE UNCHANGED proc
  BY <1>7 DEF TimerStep, ApprovalTimeout, ForgetDecided, MarkExpired
<1>8. ASSUME NEW t \in Turns, AskApproval(t) \/ EndTurn(t) \/ EndStep(t) PROVE UNCHANGED proc
  BY <1>8 DEF AskApproval, EndTurn, EndStep, HandleComplete, HandleAborted
<1>9. LaneStep \/ InterruptTimeout \/ UNCHANGED vars => UNCHANGED proc
  BY DEF LaneStep, RegisterRequest, CreateApproval, InterruptTimeout, vars
<1> QED BY <1>2, <1>3, <1>4, <1>5, <1>6, <1>7, <1>8, <1>9 DEF Next, UserStep, CommandStep

LEMMA TypesKept == Typed /\ [Next]_vars => Typed'
  BY TypeUser, TypeCommand, TypeRest, FramesNext DEF Next, Typed

-----------------------------------------------------------------------------
(* Answers.                                                                *)

LEMMA AnswersInit == Init => Answers
  BY ApprovalConstants
  DEF Init, Answers, Queueing, Fresh, Asked, Untold, OneActs, Acting, ActingPCs, Told, Recorded, Blank, Outcomes

\* A call that acts did so before, on the same approval.
ActsOn(c) ==
  proc'[c].pc \in ActingPCs =>
    /\ proc[c].pc \in ActingPCs /\ (proc'[c].pc = "respond" <=> proc[c].pc = "respond")
    /\ proc'[c].approval = proc[c].approval /\ proc'[c].decision = proc[c].decision

\* A step that asks, answers and stores nothing, sets no timer and lets nobody act
\* who did not.
LEMMA AnswersQuiet ==
  ASSUME Typed, Answers,
         UNCHANGED <<owner, requests, lane, shown, status, answered>>,
         \A a \in Approvals : wait'[a] = "armed" => wait[a] = "armed",
         \A a \in Approvals : wait[a] = "none" => wait'[a] = "none",
         \A c \in Clients : ActsOn(c)
  PROVE  Answers'
<1>1. \A c \in Clients : \A a \in Approvals : Acting(c, a)' => Acting(c, a)
  BY DEF ActsOn, Acting
<1>2. \A a \in Approvals : Fresh(a) => Fresh(a)'
  BY DEF Fresh
<1>3. \A a \in Approvals : Asked(a)' <=> Asked(a)
  BY DEF Asked
<1>4. Queueing'
  BY <1>2, <1>3 DEF Answers, Queueing, Typed, TypeOK
<1>5. Untold' /\ OneActs'
  BY <1>1 DEF Answers, Untold, OneActs
<1>6. Told'
  BY DEF Answers, Told, ActsOn, ActingPCs
<1>7. Recorded'
  BY DEF Answers, Recorded
<1> QED BY <1>4, <1>5, <1>6, <1>7 DEF Answers

LEMMA AnswersUser ==
  ASSUME Typed, Answers, NEW c \in Clients, UserStep(c)
  PROVE  Answers'
<1>1. \A d \in Clients \ {c} : proc'[d] = proc[d]
  BY GotoFrame, InterruptFrame, PressFrame DEF Typed, UserStep, SendText, PCs
<1>2. proc'[c].pc \notin ActingPCs
  BY GotoFrame, InterruptFrame, PressFrame DEF Typed, UserStep, SendText, PCs, ActingPCs
<1>3. \A d \in Clients : ActsOn(d)
  BY <1>1, <1>2 DEF ActsOn
<1> QED BY <1>3, AnswersQuiet DEF UserStep, SendText, Interrupt, PressButton, runtime, waiting, outside

\* Calls that bring no decision, or bring it no further.
LEMMA AnswersPlain ==
  ASSUME Typed, Answers, NEW c \in Clients,
         \/ ClaimThread(c) \/ BeginInterrupt(c) \/ MarkTurnInterrupting(c)
         \/ RefuseDecision(c) \/ RespondFails(c) \/ ClearContext(c)
  PROVE  Answers'
<1>1. \A d \in Clients \ {c} : proc'[d] = proc[d]
  BY GotoFrame, ReturnFrame DEF Typed, ClaimThread, BeginInterrupt, MarkTurnInterrupting,
     RefuseDecision, RespondFails, ClearContext, PCs
<1>2. \/ proc'[c].pc \in {"idle", "mark"}
      \/ /\ proc[c].pc = "answered" /\ proc'[c].pc = "resolve"
         /\ proc'[c].approval = proc[c].approval /\ proc'[c].decision = proc[c].decision
  BY GotoFrame, ReturnFrame DEF Typed, ClaimThread, BeginInterrupt, MarkTurnInterrupting,
     RefuseDecision, RespondFails, ClearContext, PCs, At
<1>3. \A d \in Clients : ActsOn(d)
  BY <1>1, <1>2 DEF ActsOn, ActingPCs
<1>4. \A a \in Approvals : wait'[a] \in {wait[a], "none"}
  BY DEF ClaimThread, BeginInterrupt, MarkTurnInterrupting, RefuseDecision, RespondFails, ClearContext,
     waiting, ExpireTurn
<1>5. UNCHANGED <<owner, requests, lane, shown, status, answered>>
  BY DEF ClaimThread, BeginInterrupt, MarkTurnInterrupting, RefuseDecision, RespondFails, ClearContext,
     runtime, outside
<1> QED BY <1>3, <1>4, <1>5, AnswersQuiet

\* Deciding stops the timer, which no other call can have done.
LEMMA AnswersDecide ==
  ASSUME Typed, Answers, NEW c \in Clients, Decide(c)
  PROVE  Answers'
<1> DEFINE a == proc[c].approval
<1>1. /\ a \in Approvals /\ wait[a] = "armed" /\ wait' = [wait EXCEPT ![a] = "decided"]
      /\ UNCHANGED <<owner, requests, lane, shown, status, answered>>
  BY DEF Decide, Undetermined, At, Typed, Frames, TypeOK, runtime, outside
<1>2. \A d \in Clients \ {c} : proc'[d] = proc[d]
  BY GotoFrame, ReturnFrame DEF Typed, Decide, PCs
<1>3. \/ proc'[c].pc = "idle"
      \/ proc'[c].pc = "respond" /\ proc'[c].approval = a
  BY GotoFrame, ReturnFrame DEF Typed, Decide, PCs
<1>4. /\ \A b \in Approvals : wait'[b] = "armed" => wait[b] = "armed" /\ b # a
      /\ \A b \in Approvals : wait[b] = "none" => wait'[b] = "none"
  BY <1>1 DEF Typed, TypeOK
<1>5. CASE proc'[c].pc = "idle"
  <2>1. \A d \in Clients : ActsOn(d)
    BY <1>2, <1>5 DEF ActsOn, ActingPCs
  <2> QED BY <1>1, <1>4, <2>1, AnswersQuiet
<1>6. CASE proc'[c].pc = "respond" /\ proc'[c].approval = a
  <2>1. answered[a] = NoDecision /\ \A d \in Clients : ~ Acting(d, a)
    BY <1>1 DEF Answers, Untold
  <2>2. Queueing'
    <3>1. \A b \in Approvals : Fresh(b) => Fresh(b)'
      BY <1>1, <1>4 DEF Fresh
    <3>2. \A b \in Approvals : Asked(b)' <=> Asked(b)
      BY <1>1 DEF Asked
    <3> QED BY <1>1, <3>1, <3>2 DEF Answers, Queueing, Typed, TypeOK
  <2>3. \A d \in Clients : \A b \in Approvals : Acting(d, b)' => Acting(d, b) \/ (d = c /\ b = a)
    BY <1>2, <1>6 DEF Acting
  <2>4. Untold'
    BY <1>1, <1>4, <2>3 DEF Answers, Untold
  <2>5. OneActs'
    BY <2>1, <2>3 DEF Answers, OneActs
  <2>6. Told'
    BY <1>1, <1>2, <1>6, <2>1 DEF Answers, Told
  <2>7. Recorded'
    BY <1>1 DEF Answers, Recorded
  <2> QED BY <2>2, <2>4, <2>5, <2>6, <2>7 DEF Answers
<1> QED BY <1>3, <1>5, <1>6

\* The agent gets its answer from the one call that acts on the approval.
LEMMA AnswersRespond ==
  ASSUME Typed, Answers, NEW c \in Clients, RespondApproval(c)
  PROVE  Answers'
<1> DEFINE a == proc[c].approval
<1>1. /\ a \in Approvals /\ a \in shown /\ proc[c].decision \in Decisions /\ Acting(c, a)
      /\ answered[a] = NoDecision /\ answered' = [answered EXCEPT ![a] = proc[c].decision]
      /\ UNCHANGED <<owner, requests, lane, shown, status, wait>>
  BY DEF RespondApproval, At, Acting, ActingPCs, Answers, Told, Typed, Frames, TypeOK, runtime, waiting
<1>2. \A d \in Clients \ {c} : proc'[d] = proc[d]
  BY GotoFrame DEF Typed, RespondApproval, PCs
<1>3. proc'[c].pc = "answered" /\ proc'[c].approval = a /\ proc'[c].decision = proc[c].decision
  BY GotoFrame DEF Typed, RespondApproval, PCs
<1>4. \A d \in Clients : \A b \in Approvals : Acting(d, b)' <=> Acting(d, b)
  BY <1>1, <1>2, <1>3 DEF Acting, ActingPCs
<1>5. /\ answered'[a] = proc[c].decision
      /\ \A b \in Approvals \ {a} : answered'[b] = answered[b]
  BY <1>1 DEF Typed, TypeOK
<1>6. Queueing'
  <2>1. \A b \in Approvals : Fresh(b) => Fresh(b)'
    BY <1>1, <1>5 DEF Fresh
  <2>2. \A b \in Approvals : Asked(b)' <=> Asked(b)
    BY <1>1 DEF Asked
  <2> QED BY <1>1, <2>1, <2>2 DEF Answers, Queueing, Typed, TypeOK
<1>7. Untold' /\ OneActs'
  BY <1>1, <1>4, <1>5 DEF Answers, Untold, OneActs
<1>8. Told'
  <2> SUFFICES ASSUME NEW d \in Clients \ {c}, proc[d].pc \in ActingPCs
               PROVE  /\ proc[d].pc = "respond" => answered'[proc[d].approval] = NoDecision
                      /\ proc[d].pc \in {"answered", "resolve"} =>
                           answered'[proc[d].approval] = proc[d].decision
    BY <1>2, <1>3, <1>5 DEF Told, ActingPCs
  <2>1. proc[d].approval \in Approvals \ {a}
    BY <1>1 DEF Answers, OneActs, Acting, Typed, Frames, TypeOK
  <2> QED BY <1>5, <2>1 DEF Answers, Told
<1>9. Recorded'
  BY <1>1, <1>5, ApprovalConstants DEF Answers, Recorded
<1> QED BY <1>6, <1>7, <1>8, <1>9 DEF Answers

\* The row records what the agent was told.
LEMMA AnswersResolve ==
  ASSUME Typed, Answers, NEW c \in Clients, MarkResolved(c)
  PROVE  Answers'
<1> DEFINE a == proc[c].approval
<1>1. /\ a \in Approvals /\ a \in shown /\ answered[a] = proc[c].decision
      /\ status' = [status EXCEPT ![a] = proc[c].decision]
      /\ UNCHANGED <<owner, requests, lane, shown, answered, wait>>
  BY DEF MarkResolved, At, ActingPCs, Answers, Told, Typed, Frames, TypeOK, runtime, waiting, outside
<1>2. \A d \in Clients \ {c} : proc'[d] = proc[d]
  BY ReturnFrame DEF Typed, MarkResolved
<1>3. proc'[c].pc = "idle"
  BY ReturnFrame DEF Typed, MarkResolved
<1>4. \A d \in Clients : \A b \in Approvals : Acting(d, b)' => Acting(d, b)
  BY <1>2, <1>3 DEF Acting, ActingPCs
<1>5. /\ status'[a] = proc[c].decision
      /\ \A b \in Approvals \ {a} : status'[b] = status[b]
  BY <1>1 DEF Typed, TypeOK
<1>6. Queueing'
  <2>1. \A b \in Approvals : Fresh(b) => Fresh(b)'
    BY <1>1, <1>5 DEF Fresh
  <2>2. \A b \in Approvals : Asked(b)' <=> Asked(b)
    BY <1>1 DEF Asked
  <2> QED BY <1>1, <2>1, <2>2 DEF Answers, Queueing, Typed, TypeOK
<1>7. Untold' /\ OneActs'
  BY <1>1, <1>4 DEF Answers, Untold, OneActs
<1>8. Told'
  BY <1>1, <1>2, <1>3 DEF Answers, Told
<1>9. Recorded'
  BY <1>1, <1>5 DEF Answers, Recorded
<1> QED BY <1>6, <1>7, <1>8, <1>9 DEF Answers

\* A request joins the queue,
LEMMA AnswersAsk ==
  ASSUME Typed, Answers, NEW t \in Turns, AskApproval(t)
  PROVE  Answers'
<1>1. PICK a \in Approvals : /\ owner[a] = NoTurn /\ owner' = [owner EXCEPT ![a] = t]
                             /\ requests' = Append(requests, a)
  BY DEF AskApproval
<1>2. UNCHANGED <<lane, shown, status, answered, wait, proc>>
  BY DEF AskApproval, waiting, outside
<1>3. Fresh(a) /\ ~Asked(a) /\ lane # a
  BY <1>1 DEF Answers, Queueing
<1>4. /\ DOMAIN requests = 1 .. Len(requests) /\ Len(requests) \in Nat
      /\ DOMAIN requests' = 1 .. Len(requests) + 1
      /\ requests'[Len(requests) + 1] = a
      /\ \A i \in DOMAIN requests : requests'[i] = requests[i]
  BY <1>1 DEF Typed, TypeOK
<1>5. \A b \in Approvals : Asked(b)' <=> Asked(b) \/ b = a
  BY <1>4 DEF Asked
<1>6. \A b \in Approvals : Fresh(b)' <=> Fresh(b)
  BY <1>2 DEF Fresh
<1>7. \A b \in Approvals : owner'[b] = NoTurn => owner[b] = NoTurn /\ b # a
  BY <1>1, ApprovalConstants DEF Typed, TypeOK
<1>8. \A i, j \in DOMAIN requests' : requests'[i] = requests'[j] => i = j
  BY <1>3, <1>4 DEF Answers, Queueing, Asked
<1>9. Queueing'
  BY <1>2, <1>3, <1>5, <1>6, <1>7, <1>8, ApprovalConstants DEF Answers, Queueing, Typed, TypeOK
<1>10. Untold' /\ OneActs' /\ Told' /\ Recorded'
  BY <1>2 DEF Answers, Untold, OneActs, Acting, Told, Recorded
<1> QED BY <1>9, <1>10 DEF Answers

\* leaves it once,
LEMMA AnswersRegister ==
  ASSUME Typed, Answers, RegisterRequest
  PROVE  Answers'
<1> DEFINE a == Head(requests)
<1>1. /\ requests # <<>> /\ requests' = Tail(requests) /\ lane = NoApproval /\ lane' \in {NoApproval, a}
      /\ UNCHANGED <<owner, shown, status, answered, wait, proc>>
  BY DEF RegisterRequest, outside
<1>2. /\ DOMAIN requests = 1 .. Len(requests) /\ Len(requests) \in Nat \ {0}
      /\ DOMAIN requests' = 1 .. Len(requests) - 1
      /\ a = requests[1]
      /\ \A i \in DOMAIN requests' : requests'[i] = requests[i + 1]
  BY <1>1 DEF Typed, TypeOK
<1>3. a \in Approvals /\ Asked(a)
  BY <1>1, <1>2 DEF Typed, TypeOK, Asked
<1>4. \A i, j \in DOMAIN requests : requests[i] = requests[j] => i = j
  BY DEF Answers, Queueing
<1>5. \A b \in Approvals : Asked(b)' => Asked(b) /\ b # a
  BY <1>2, <1>4 DEF Asked
<1>6. \A b \in Approvals : Fresh(b)' <=> Fresh(b)
  BY <1>1 DEF Fresh
<1>7. \A i, j \in DOMAIN requests' : requests'[i] = requests'[j] => i = j
  BY <1>2, <1>4
<1>8. Queueing'
  BY <1>1, <1>3, <1>5, <1>6, <1>7, ApprovalConstants DEF Answers, Queueing, Typed, TypeOK
<1>9. Untold' /\ OneActs' /\ Told' /\ Recorded'
  BY <1>1 DEF Answers, Untold, OneActs, Acting, Told, Recorded
<1> QED BY <1>8, <1>9 DEF Answers

\* and its timer is set when nobody can have decided.
LEMMA AnswersCreate ==
  ASSUME Typed, Answers, CreateApproval
  PROVE  Answers'
<1>1. /\ lane \in Approvals /\ lane' = NoApproval /\ shown' = shown \cup {lane}
      /\ status' = [status EXCEPT ![lane] = "pending"] /\ wait' = [wait EXCEPT ![lane] = "armed"]
      /\ UNCHANGED <<owner, requests, answered, proc>>
  BY DEF CreateApproval, Typed, TypeOK, runtime, outside
<1>2. Fresh(lane)
  BY <1>1, ApprovalConstants DEF Answers, Queueing
<1>3. /\ status'[lane] = "pending"
      /\ \A b \in Approvals \ {lane} : status'[b] = status[b] /\ wait'[b] = wait[b]
  BY <1>1 DEF Typed, TypeOK
<1>4. \A b \in Approvals \ {lane} : Fresh(b)' <=> Fresh(b)
  BY <1>1, <1>3 DEF Fresh
<1>5. \A b \in Approvals : Asked(b)' <=> Asked(b)
  BY <1>1 DEF Asked
<1>6. Queueing'
  BY <1>1, <1>4, <1>5, ApprovalConstants DEF Answers, Queueing
<1>7. \A c \in Clients : ~ Acting(c, lane)
  BY <1>2 DEF Fresh, Acting, Typed, Frames
<1>8. Untold' /\ OneActs' /\ Told'
  BY <1>1, <1>2, <1>3, <1>7 DEF Answers, Untold, OneActs, Acting, Told, Fresh
<1>9. Recorded'
  BY <1>1, <1>3, ApprovalConstants DEF Answers, Recorded, Outcomes
<1> QED BY <1>6, <1>8, <1>9 DEF Answers

LEMMA AnswersTimers ==
  ASSUME Typed, Answers, NEW a \in Approvals, TimerStep(a) \/ MarkExpired(a)
  PROVE  Answers'
<1>1. CASE TimerStep(a)
  <2>1. \A c \in Clients : ActsOn(c)
    BY <1>1 DEF TimerStep, ApprovalTimeout, ForgetDecided, ActsOn
  <2>2. \A b \in Approvals : wait'[b] \in {wait[b], "none"}
    BY <1>1 DEF TimerStep, ApprovalTimeout, ForgetDecided, Typed, TypeOK
  <2> QED BY <1>1, <2>1, <2>2, AnswersQuiet DEF TimerStep, ApprovalTimeout, ForgetDecided, runtime, outside
<1>2. CASE MarkExpired(a)
  <2>1. UNCHANGED <<owner, requests, lane, shown, answered, wait, proc>>
    BY <1>2 DEF MarkExpired, runtime, waiting, outside
  <2>2. \A b \in Approvals : status'[b] = status[b] \/ (status[b] = "pending" /\ status'[b] = "expired")
    BY <1>2 DEF MarkExpired, Typed, TypeOK
  <2>3. \A b \in Approvals : Fresh(b) => Fresh(b)'
    BY <2>1, <2>2 DEF Fresh
  <2>4. \A b \in Approvals : Asked(b)' <=> Asked(b)
    BY <2>1 DEF Asked
  <2>5. Queueing'
    BY <2>1, <2>3, <2>4 DEF Answers, Queueing, Typed, TypeOK
  <2>6. Untold' /\ OneActs' /\ Told'
    BY <2>1 DEF Answers, Untold, OneActs, Acting, Told
  <2>7. Recorded'
    BY <2>1, <2>2, ApprovalConstants DEF Answers, Recorded, Outcomes
  <2> QED BY <2>5, <2>6, <2>7 DEF Answers
<1> QED BY <1>1, <1>2

\* A restart forgets calls, queue and timers.
LEMMA AnswersCrash ==
  ASSUME Typed, Answers, Crash
  PROVE  Answers'
<1>1. /\ requests' = <<>> /\ lane' = NoApproval /\ UNCHANGED <<owner, shown, answered>>
      /\ \A a \in Approvals : wait'[a] = "none"
      /\ \A a \in Approvals : status'[a] = status[a] \/ (status[a] = "pending" /\ status'[a] = "expired")
      /\ \A c \in Clients : proc'[c].pc = "idle"
  BY DEF Crash, Blank
<1>2. \A a \in Approvals : (Fresh(a) => Fresh(a)') /\ ~ Asked(a)'
  BY <1>1 DEF Fresh, Asked
<1>3. Queueing'
  BY <1>1, <1>2, ApprovalConstants DEF Answers, Queueing
<1>4. Untold' /\ OneActs' /\ Told'
  BY <1>1 DEF Untold, OneActs, Acting, ActingPCs, Told
<1>5. Recorded'
  BY <1>1, ApprovalConstants DEF Answers, Recorded, Outcomes
<1> QED BY <1>3, <1>4, <1>5 DEF Answers

\* The ends of turns only stop timers.
LEMMA AnswersRest ==
  ASSUME Typed, Answers,
         InterruptTimeout \/ UNCHANGED vars \/ \E t \in Turns : EndTurn(t) \/ EndStep(t)
  PROVE  Answers'
<1>1. UNCHANGED <<owner, requests, lane, shown, status, answered, proc>>
  BY DEF InterruptTimeout, vars, EndTurn, EndStep, HandleComplete, HandleAborted, runtime, outside
<1>2. \A a \in Approvals : wait'[a] \in {wait[a], "none"}
  BY DEF InterruptTimeout, vars, EndTurn, EndStep, HandleComplete, HandleAborted, waiting, ExpireTurn
<1>3. \A c \in Clients : ActsOn(c)
  BY <1>1 DEF ActsOn
<1> QED BY <1>1, <1>2, <1>3, AnswersQuiet

LEMMA AnswersKept == Typed /\ Answers /\ [Next]_vars => Answers'
  BY AnswersUser, AnswersPlain, AnswersDecide, AnswersRespond, AnswersResolve, AnswersAsk,
     AnswersRegister, AnswersCreate, AnswersTimers, AnswersCrash, AnswersRest
  DEF Next, CommandStep, LaneStep

-----------------------------------------------------------------------------
(* Settling: without interrupts, abandoned turns and restarts.             *)

LEMMA SettlingInit == Init => Settling
  BY ApprovalConstants
  DEF Init, Settling, Unstopped, Lapsed, Expired, AwaitingBacked, Blank, Calm, Without

\* The hardships of a behaviour do not change.
LEMMA EnvStays == [Next]_vars => env' = env
  BY DEF Next, UserStep, CommandStep, LaneStep, TimerStep, EndStep, SendText, Interrupt, PressButton,
     ClaimThread, BeginInterrupt, MarkTurnInterrupting, Decide, RefuseDecision, RespondApproval,
     RespondFails, ClearContext, MarkResolved, RegisterRequest, CreateApproval, ApprovalTimeout,
     ForgetDecided, MarkExpired, AskApproval, EndTurn, HandleComplete, HandleAborted,
     InterruptTimeout, Crash, vars

\* Nothing is interrupted, aborted or restarted.
LEMMA NothingStops ==
  ASSUME Typed, Calm, Unstopped
  PROVE  /\ ~ Crash /\ ~ InterruptTimeout
         /\ \A c \in Clients : ~ Interrupt(c) /\ ~ BeginInterrupt(c) /\ ~ MarkTurnInterrupting(c)
         /\ \A t \in Turns : ~ HandleAborted(t) /\ ~ Stopping(t)
<1>1. ~ Crash /\ ~ InterruptTimeout
  BY DEF Calm, Without, Unstopped, Crash, InterruptTimeout
<1>2. \A c \in Clients : ~ Interrupt(c) /\ ~ BeginInterrupt(c) /\ ~ MarkTurnInterrupting(c)
  BY DEF Calm, Without, Unstopped, Interrupt, BeginInterrupt, MarkTurnInterrupting, At
<1>3. \A t \in Turns : ~ HandleAborted(t) /\ ~ Stopping(t)
  BY ApprovalConstants DEF Unstopped, HandleAborted, Stopping
<1> QED BY <1>1, <1>2, <1>3

LEMMA UnstoppedKept ==
  ASSUME Typed, Unstopped, [Next]_vars
  PROVE  Unstopped'
<1> SUFFICES ASSUME Calm PROVE Unstopped'
  BY EnvStays DEF Unstopped, Calm, Without
<1> USE NothingStops
<1>1. UNCHANGED <<interrupting, muted>>
  BY DEF Next, UserStep, CommandStep, LaneStep, TimerStep, EndStep, SendText, PressButton,
     ClaimThread, Decide, RefuseDecision, RespondApproval, RespondFails, ClearContext, MarkResolved,
     RegisterRequest, CreateApproval, ApprovalTimeout, ForgetDecided, MarkExpired, AskApproval,
     EndTurn, HandleComplete, vars, session, runtime
<1>2. \A c \in Clients : proc'[c].pc \notin {"begin", "mark"}
  <2>1. ASSUME NEW c \in Clients, SendText(c) \/ PressButton(c) \/ CommandStep(c)
        PROVE  proc'[c].pc \notin {"begin", "mark"} /\ \A d \in Clients \ {c} : proc'[d] = proc[d]
    BY <2>1, GotoFrame, ReturnFrame, PressFrame
    DEF Typed, CommandStep, SendText, ClaimThread, Decide, RefuseDecision, RespondApproval,
        RespondFails, ClearContext, MarkResolved, PCs
  <2>2. (\E c \in Clients : SendText(c) \/ PressButton(c) \/ CommandStep(c)) \/ UNCHANGED proc
    BY DEF Next, UserStep, LaneStep, TimerStep, EndStep, RegisterRequest, CreateApproval,
       ApprovalTimeout, ForgetDecided, MarkExpired, AskApproval, EndTurn, HandleComplete, vars
  <2> QED BY <2>1, <2>2 DEF Unstopped
<1>3. \A t \in Turns : agent'[t] # "aborted"
  <2>1. \/ UNCHANGED agent
        \/ \E t \in Turns : \E x \in {"running", "completed", "ended"} : agent' = [agent EXCEPT ![t] = x]
    BY DEF Calm, Without, Next, UserStep, CommandStep, LaneStep, TimerStep, EndStep, SendText, PressButton,
       ClaimThread, Decide, RefuseDecision, RespondApproval, RespondFails, ClearContext, MarkResolved,
       RegisterRequest, CreateApproval, ApprovalTimeout, ForgetDecided, MarkExpired, AskApproval,
       EndTurn, HandleComplete, vars, outside
  <2> QED BY <2>1 DEF Unstopped, Typed, TypeOK
<1> QED BY <1>1, <1>2, <1>3 DEF Unstopped

\* The life of an approval that expired stays over.
LEMMA EndedStays ==
  ASSUME Typed, Answers, Calm, Unstopped, [Next]_vars, NEW a \in Approvals, Ended(a)
  PROVE  Ended(a)'
<1> USE NothingStops
<1>1. a \in shown'
  BY ShownGrows DEF Ended, Typed
<1>2. wait'[a] = "none"
  <2>1. CASE CreateApproval
    BY <2>1, ApprovalConstants DEF CreateApproval, Ended, Answers, Queueing, Fresh, Typed, TypeOK
  <2>2. ASSUME NEW c \in Clients, Decide(c) PROVE wait'[a] = "none"
    BY <2>2 DEF Decide, Undetermined, Ended, Typed, TypeOK
  <2>3. ASSUME NEW b \in Approvals, TimerStep(b) PROVE wait'[a] = "none"
    BY <2>3 DEF TimerStep, ApprovalTimeout, ForgetDecided, Ended, Typed, TypeOK
  <2>4. CASE UNCHANGED wait
    BY <2>4 DEF Ended
  <2> QED BY <2>1, <2>2, <2>3, <2>4
          DEF Next, UserStep, CommandStep, LaneStep, EndStep, SendText, PressButton,
              ClaimThread, RefuseDecision, RespondApproval, RespondFails, ClearContext, MarkResolved,
              RegisterRequest, MarkExpired, AskApproval, EndTurn, HandleComplete, vars, waiting
<1>3. answered'[a] = NoDecision
  <2>1. ASSUME NEW c \in Clients, RespondApproval(c) PROVE answered'[a] = NoDecision
    BY <2>1 DEF RespondApproval, At, Ended, Acting, ActingPCs, Typed, TypeOK
  <2>2. CASE UNCHANGED answered
    BY <2>2 DEF Ended
  <2> QED BY <2>1, <2>2
          DEF Next, UserStep, CommandStep, LaneStep, TimerStep, EndStep, SendText, PressButton,
              ClaimThread, Decide, RefuseDecision, RespondFails, ClearContext, MarkResolved,
              RegisterRequest, CreateApproval, ApprovalTimeout, ForgetDecided, MarkExpired, AskApproval,
              EndTurn, HandleComplete, vars, outside
<1>4. \A c \in Clients : ~ Acting(c, a)'
  <2>1. ASSUME NEW c \in Clients, SendText(c) \/ PressButton(c) \/ CommandStep(c)
        PROVE  ~ Acting(c, a)' /\ \A d \in Clients \ {c} : proc'[d] = proc[d]
    <3>1. \A d \in Clients \ {c} : proc'[d] = proc[d]
      BY <2>1, GotoFrame, ReturnFrame, PressFrame
      DEF Typed, CommandStep, SendText, ClaimThread, Decide, RefuseDecision, RespondApproval,
          RespondFails, ClearContext, MarkResolved, PCs
    <3>2. \/ proc'[c].pc \notin ActingPCs
          \/ Decide(c) /\ proc'[c].approval = proc[c].approval
          \/ proc[c].pc \in ActingPCs /\ proc'[c].approval = proc[c].approval
      BY <2>1, GotoFrame, ReturnFrame, PressFrame
      DEF Typed, CommandStep, SendText, ClaimThread, Decide, RefuseDecision, RespondApproval,
          RespondFails, ClearContext, MarkResolved, PCs, ActingPCs, At
    <3>3. Decide(c) => proc[c].approval # a
      BY DEF Decide, Undetermined, Ended
    <3> QED BY <3>1, <3>2, <3>3 DEF Ended, Acting
  <2>2. (\E c \in Clients : SendText(c) \/ PressButton(c) \/ CommandStep(c)) \/ UNCHANGED proc
    BY DEF Next, UserStep, LaneStep, TimerStep, EndStep, RegisterRequest, CreateApproval,
       ApprovalTimeout, ForgetDecided, MarkExpired, AskApproval, EndTurn, HandleComplete, vars
  <2> QED BY <2>1, <2>2 DEF Ended, Acting
<1> QED BY <1>1, <1>2, <1>3, <1>4 DEF Ended

\* An approval expires by its timer, and the row by what the timer sent off.
LEMMA LapsedKept ==
  ASSUME Typed, Answers, Unstopped, Lapsed, [Next]_vars
  PROVE  Lapsed'
<1> SUFFICES ASSUME Calm, NEW a \in Approvals, Expired(a)' PROVE Ended(a)'
  BY EnvStays DEF Lapsed, Calm, Without
<1> USE NothingStops
<1>1. CASE Expired(a)
  BY <1>1, EndedStays DEF Lapsed
<1>2. CASE ~ Expired(a)
  <2>1. ApprovalTimeout(a)
    <3>1. ASSUME NEW c \in Clients PROVE ~ MarkResolved(c)
      <4>1. MarkResolved(c) => proc[c].decision # "expired"
        BY ApprovalConstants DEF MarkResolved, At, Typed, Frames, ActingPCs, Outcomes
      <4> QED BY <1>2, <4>1 DEF MarkResolved, Expired, Typed, TypeOK
    <3>2. ~ CreateApproval
      BY <1>2 DEF CreateApproval, Expired, Typed, TypeOK
    <3>3. \A b \in Approvals : ~ MarkExpired(b)
      BY <1>2 DEF MarkExpired, Expired, Typed, TypeOK
    <3>4. \A b \in Approvals : ApprovalTimeout(b) => b = a
      BY <1>2 DEF ApprovalTimeout, Expired
    <3>5. ~ UNCHANGED <<status, expiring>>
      BY <1>2 DEF Expired
    <3> QED BY <3>1, <3>2, <3>3, <3>4, <3>5
            DEF Next, UserStep, CommandStep, LaneStep, TimerStep, EndStep, SendText, PressButton,
                ClaimThread, Decide, RefuseDecision, RespondApproval, RespondFails, ClearContext,
                RegisterRequest, ForgetDecided, AskApproval, EndTurn, HandleComplete, vars
  <2>2. a \in shown /\ answered[a] = NoDecision /\ \A c \in Clients : ~ Acting(c, a)
    BY <2>1 DEF ApprovalTimeout, Answers, Untold
  <2>3. wait'[a] = "none" /\ UNCHANGED <<shown, answered, proc>>
    BY <2>1 DEF ApprovalTimeout, Typed, TypeOK, outside
  <2> QED BY <2>2, <2>3 DEF Ended, Acting
<1> QED BY <1>1, <1>2

\* What stops the timer of an approval also ends the thread's waiting.
LEMMA BackedKept ==
  ASSUME Typed, Answers, Unstopped, AwaitingBacked, [Next]_vars
  PROVE  AwaitingBacked'
<1> SUFFICES ASSUME Calm, machine' = "AWAITING_APPROVAL"
             PROVE  lane' # NoApproval \/ \E a \in Approvals : wait'[a] = "armed"
  BY EnvStays DEF AwaitingBacked, Calm, Without
<1> USE NothingStops
<1>1. CASE RegisterRequest
  <2>1. CASE lane' = Head(requests)
    <3>1. Head(requests) \in Approvals
      BY <1>1 DEF RegisterRequest, Typed, TypeOK
    <3> QED BY <2>1, <3>1, ApprovalConstants
  <2>2. CASE UNCHANGED <<machine, lane>>
    BY <1>1, <2>2 DEF RegisterRequest, AwaitingBacked, Calm, waiting
  <2> QED BY <1>1, <2>1, <2>2 DEF RegisterRequest
<1>2. CASE CreateApproval
  BY <1>2 DEF CreateApproval, Typed, TypeOK
<1>3. ASSUME NEW c \in Clients, Decide(c) PROVE FALSE
  <2>1. machine \in MachineStates
    BY DEF Typed, TypeOK
  <2>2. interrupting = NoTurn
    BY DEF Unstopped
  <2> QED BY <1>3, <2>1, <2>2 DEF Decide, Interrupted
<1>4. ASSUME NEW a \in Approvals, ApprovalTimeout(a) PROVE FALSE
  BY <1>4 DEF ApprovalTimeout
<1>5. ASSUME NEW a \in Approvals, ForgetDecided(a)
      PROVE  machine = "AWAITING_APPROVAL" /\ lane' = lane /\ \A b \in Approvals : wait[b] = "armed" => wait'[b] = "armed"
  BY <1>5 DEF ForgetDecided, session, Typed, TypeOK
<1>6. CASE UNCHANGED <<lane, wait>> /\ machine = "AWAITING_APPROVAL"
  BY <1>6 DEF AwaitingBacked, Calm
<1>7. (\E a \in Approvals : ForgetDecided(a)) => lane' # NoApproval \/ \E a \in Approvals : wait'[a] = "armed"
  BY <1>5 DEF AwaitingBacked, Calm
<1>8. ASSUME NEW c \in Clients, UserStep(c) \/ CommandStep(c), ~ Decide(c)
      PROVE  UNCHANGED <<lane, wait>> /\ machine = "AWAITING_APPROVAL"
  BY <1>8 DEF UserStep, CommandStep, SendText, PressButton, ClaimThread, RefuseDecision, RespondApproval,
              RespondFails, ClearContext, MarkResolved, waiting, session
<1>9. ASSUME \/ UNCHANGED vars \/ \E a \in Approvals : MarkExpired(a)
             \/ \E t \in Turns : AskApproval(t) \/ EndTurn(t) \/ EndStep(t)
      PROVE  UNCHANGED <<lane, wait>> /\ machine = "AWAITING_APPROVAL"
  BY <1>9 DEF MarkExpired, AskApproval, EndTurn, EndStep, HandleComplete, vars, waiting, session
<1> QED BY <1>1, <1>2, <1>3, <1>4, <1>6, <1>7, <1>8, <1>9 DEF Next, LaneStep, TimerStep

-----------------------------------------------------------------------------
(* Theorems.                                                               *)

IInv == Typed /\ Answers /\ Settling

\* Together, the parts hold in every behaviour.
THEOREM Invariant == Spec => []IInv
<1>1. Init => IInv
  BY TypeInit, FramesInit, AnswersInit, SettlingInit DEF IInv, Typed
<1>2. IInv /\ [Next]_vars => IInv'
  BY TypesKept, AnswersKept, UnstoppedKept, LapsedKept, BackedKept DEF IInv, Settling
<1> QED BY <1>1, <1>2, PTL DEF Spec

\* The stored rows tell what the agent was told: a decision is recorded only if the
\* agent was given it, and without interrupts, abandoned turns and restarts an
\* approval is recorded as expired only if it was given none.
THEOREM Audited == Spec => []AuditTrue
<1>1. IInv => AuditTrue
  BY DEF IInv, Typed, Answers, Settling, Lapsed, Ended, Expired, Calm, Without, AuditTrue, ExpiredUnanswered
<1> QED BY <1>1, Invariant, PTL

\* A thread never waits for an approval that nobody can decide any more and no
\* timer ends.
THEOREM Backed == Spec => []AwaitingBacked
<1>1. IInv => AwaitingBacked
  BY DEF IInv, Settling
<1> QED BY <1>1, Invariant, PTL

\* However many users press the buttons, the agent gets one answer per approval.
THEOREM OneAnswer == Spec => AnsweredOnce
<1>1. IInv => [\A c \in Clients : RespondApproval(c) => answered[proc[c].approval] = NoDecision]_vars
  BY DEF IInv, Answers, Told, RespondApproval, At
<1> QED BY <1>1, Invariant, PTL DEF AnsweredOnce

\* A stored decision is never overwritten, by a late expiry or by another decision.
THEOREM Final == Spec => DecisionStays
<1>1. ASSUME IInv, [Next]_vars, NEW a \in Approvals, status[a] \in Decisions
      PROVE  status'[a] = status[a]
  <2>1. answered[a] = status[a] /\ status[a] # "pending" /\ ~ Fresh(a)
    BY <1>1, ApprovalConstants DEF IInv, Answers, Recorded, Fresh, Outcomes
  <2>2. ASSUME NEW c \in Clients, MarkResolved(c) PROVE status'[a] = status[a]
    BY <1>1, <2>1, <2>2 DEF IInv, Answers, Told, MarkResolved, At, Typed, TypeOK
  <2>3. ASSUME NEW b \in Approvals, MarkExpired(b) PROVE status'[a] = status[a]
    BY <1>1, <2>1, <2>3 DEF MarkExpired, IInv, Typed, TypeOK
  <2>4. CreateApproval => status'[a] = status[a]
    BY <1>1, <2>1, ApprovalConstants DEF CreateApproval, IInv, Answers, Queueing, Typed, TypeOK
  <2>5. Crash => status'[a] = status[a]
    BY <2>1 DEF Crash
  <2> QED BY <1>1, <2>2, <2>3, <2>4, <2>5
          DEF Next, UserStep, CommandStep, LaneStep, TimerStep, EndStep, SendText, Interrupt, PressButton,
              ClaimThread, BeginInterrupt, MarkTurnInterrupting, Decide, RefuseDecision, RespondApproval,
              RespondFails, ClearContext, RegisterRequest, ApprovalTimeout, ForgetDecided, AskApproval,
              EndTurn, HandleComplete, HandleAborted, InterruptTimeout, vars
<1>2. IInv /\ [Next]_vars => [\A a \in Approvals : status[a] \in Decisions => status'[a] = status[a]]_vars
  BY <1>1
<1> QED BY <1>2, Invariant, PTL DEF Spec, DecisionStays
=============================================================================
