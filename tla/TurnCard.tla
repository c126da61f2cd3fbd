------------------------------ MODULE TurnCard ------------------------------
(***************************************************************************)
(* The card of one turn on the chat platform (src/feishu): the dispatcher  *)
(* runs the outputs of the turn one after another, the card manager keeps  *)
(* the state the card is rendered from, creates the card once, gathers     *)
(* deltas and updates the card when a timer fires, and the buttons of the  *)
(* card change the state from calls of their own.                          *)
(*                                                                         *)
(* A step runs to the next await: of the request that creates the card, of *)
(* an update of the card, or of the service a button calls.  The calls     *)
(* that await the creation of the card resume in their order when it       *)
(* returns.                                                                *)
(*                                                                         *)
(* Abstractions.  The answer of the agent is the sequence of its deltas.   *)
(* A card is its look, what was decided and the answer it shows; layout,   *)
(* token counts, tools, plans and file changes are left out, and progress  *)
(* stands for every output that only asks for an update.  The cards of a   *)
(* turn are numbered and shown is the one the manager updates.  Cards are  *)
(* static, as the server creates them; the native streaming of the class   *)
(* has no caller that enables it.                                          *)
(***************************************************************************)
EXTENDS Naturals, Sequences, SequencesExt

CONSTANTS
  Users,       \* users who press the buttons of the card
  MaxDeltas,   \* bound on the deltas of the answer
  MaxQueue,    \* bound on the outputs waiting for the dispatcher
  MaxNet,      \* bound on the updates under way when another one starts
  Envs         \* environments: the hardships that may happen together

\* What may happen beside the outputs of the turn and the clicks.
Hardships == {"late",     \* an answer arrives while its last deltas are held back
              "reorder",  \* two updates reach the platform in the other order
              "fail",     \* a request to the platform fails
              "lost",     \* the answer to the creation is lost and the client sends it again
              "beaten",   \* the interrupt comes when the turn completes, or is done
              "other",    \* the interrupt stops the turn of the user's own thread
              "refused",  \* accepting or reverting fails
              "restart"}  \* the server restarts

Decisions == {"accepted", "reverted"}
Looks == {"running", "interrupting", "interrupted", "done", "progress", "failure"}
Answers == Seq(1 .. MaxDeltas)

ASSUME CardAssumption ==
  /\ {MaxDeltas, MaxQueue, MaxNet} \subseteq Nat \ {0}
  /\ Envs \subseteq SUBSET Hardships

VARIABLES
  turn,      \* the agent: deltas sent, how the turn ended, whether it was told to stop
  queue,     \* CardDispatchCoordinator: outputs waiting for the card
  task,      \* the output being dispatched
  state,     \* cardState of the turn
  token,     \* cardTokenByTurn has the card
  creating,  \* cardCreatePending: the card being sent, or failed
  waiting,   \* calls that await the creation, in order
  dirty,     \* cardDirty
  timer,     \* cardUpdateTimers
  bucket,    \* deltas held back by the stream aggregator
  net,       \* updates on their way to the platform
  shown,     \* what the platform shows
  cards,     \* cards the platform has for the turn
  calls,     \* the click of each user
  warm,      \* the message handler has initialized the card
  notified,  \* the completion notice was sent
  env        \* the environment of this behaviour

vars == <<turn, queue, task, state, token, creating, waiting, dirty, timer,
          bucket, net, shown, cards, calls, warm, notified, env>>
cardVars == <<token, creating, waiting, net>>

None == [none |-> TRUE]
Failed == [failed |-> TRUE]
Idle == [pc |-> "idle"]

States == [status : {"running", "completed", "interrupted"} \cup Decisions,
           action : {"none", "interrupting", "interrupted"} \cup Decisions, message : Answers]
Cards == [look : Looks, choice : {"none"} \cup Decisions, text : Answers]
Outputs == [kind : {"turn_started", "content", "progress", "agent_message",
                    "turn_complete", "turn_summary", "turn_aborted"}, data : Answers]
Callers == {"chain", "start", "progress", "init", "delta", "timer", "user"}

\* Every variable has the kind of value the code keeps in it.
TypeOK ==
  /\ turn \in [out : 0 .. MaxDeltas, ended : {"no", "completed", "aborted"}, asked : BOOLEAN]
  /\ \A i \in 1 .. Len(queue) : queue[i] \in Outputs
  /\ task = None \/ task \in Outputs
  /\ state = None \/ state \in States
  /\ creating \in {None, Failed} \/ creating \in Cards
  /\ \A i \in 1 .. Len(waiting) : waiting[i] \in Callers
  /\ \A i \in 1 .. Len(net) : net[i] \in [card : Cards, by : Callers]
  /\ shown = None \/ shown \in Cards
  /\ {token, dirty, timer, warm, notified} \subseteq BOOLEAN
  /\ bucket \in Answers /\ cards \in 0 .. 2 /\ env \in Envs
  /\ \A u \in Users : calls[u] = Idle \/ calls[u].pc \in {"interrupting", "deciding"}

-----------------------------------------------------------------------------
(* State and rendering                                                     *)

Fresh == [status |-> "running", action |-> "none", message |-> <<>>]
GetOrCreateState == IF state = None THEN Fresh ELSE state

IsTerminalInterrupted == state # None /\ state.action \in {"interrupting", "interrupted"}

RenderCard(s) ==
  [look |-> IF s.status \in {"completed"} \cup Decisions THEN "done"
            ELSE IF s.action \in {"interrupting", "interrupted"} THEN s.action ELSE "running",
   choice |-> IF s.action \in Decisions THEN s.action ELSE "none",
   text |-> s.message]

\* What the whole answer of the agent is so far.
Answer == [i \in 1 .. turn.out |-> i]

-----------------------------------------------------------------------------
(* Creating and updating the card, in the state s of the turn              *)

\* The caller awaits the card; whoever asks first has it sent.
EnsureCard(by, s) ==
  /\ ~ token /\ creating # Failed
  /\ waiting' = Append(waiting, by)
  /\ creating' = IF creating = None THEN RenderCard(s) ELSE creating
  /\ UNCHANGED <<token, net>>

Update(by, s) == /\ net' = Append(net, [card |-> RenderCard(s), by |-> by])
                 /\ UNCHANGED <<token, creating, waiting>>

\* The await of the card or of its update throws, or there is none.
Unreachable == ~ token /\ creating = Failed /\ UNCHANGED cardVars

FlushCardUpdate(by, s) ==
  \/ token /\ Update(by, s)
  \/ EnsureCard(by, s)
  \/ Unreachable

\* Mutant: the change is only noted when no timer runs.
ScheduleOnce(by, s) ==
  \/ token /\ dirty' = (dirty \/ ~ timer) /\ timer' = TRUE /\ UNCHANGED cardVars
  \/ (EnsureCard(by, s) \/ Unreachable) /\ UNCHANGED <<dirty, timer>>

\* An update that waits for the timer, once the card exists.
ScheduleCardUpdate(by, s) ==
  \/ token /\ dirty' = TRUE /\ timer' = TRUE /\ UNCHANGED cardVars
  \/ (EnsureCard(by, s) \/ Unreachable) /\ UNCHANGED <<dirty, timer>>

TimerFires ==
  /\ timer /\ timer' = FALSE /\ dirty' = FALSE
  /\ IF dirty /\ state # None THEN FlushCardUpdate("timer", state) ELSE UNCHANGED cardVars
  /\ UNCHANGED <<turn, queue, task, state, bucket, shown, cards, calls, warm, notified, env>>

\* Mutant: the state the first events made is overwritten.
InitializeAnew ==
  /\ ~ warm /\ warm' = TRUE
  /\ state' = Fresh
  /\ FlushCardUpdate("init", state')
  /\ dirty' = IF token THEN FALSE ELSE dirty
  /\ UNCHANGED <<turn, queue, task, timer, bucket, shown, cards, calls, notified, env>>

InitializeTurnCard ==
  /\ ~ warm /\ warm' = TRUE
  /\ state' = GetOrCreateState
  /\ FlushCardUpdate("init", state')
  /\ dirty' = IF token THEN FALSE ELSE dirty
  /\ UNCHANGED <<turn, queue, task, timer, bucket, shown, cards, calls, notified, env>>

\* The waiting calls that go on to update the card, and the k-th of them.
Flushing == {i \in DOMAIN waiting : waiting[i] \in {"init", "chain", "timer", "user"}}
NthFlushing(k) == CHOOSE i \in Flushing : Cardinality({j \in Flushing : j <= i}) = k

\* Mutant: only the call that asked first goes on.
CardCreatedForFirst ==
  /\ creating \notin {None, Failed}
  /\ shown' = creating /\ cards' = cards + 1
  /\ token' = TRUE /\ creating' = None /\ waiting' = <<>>
  /\ net' = IF Head(waiting) \in {"init", "chain", "timer", "user"}
            THEN Append(net, [card |-> RenderCard(state), by |-> Head(waiting)]) ELSE net
  /\ IF Head(waiting) \in {"delta", "progress"} THEN dirty' = TRUE /\ timer' = TRUE
                                              ELSE UNCHANGED <<dirty, timer>>
  /\ task' = IF Head(waiting) \in {"start", "progress"} THEN None ELSE task
  /\ UNCHANGED <<turn, queue, state, bucket, calls, warm, notified, env>>

\* The card is there: the calls that wait for it go on, each in its turn.
CardCreated ==
  /\ creating \notin {None, Failed}
  /\ shown' = creating /\ cards' = cards + 1
  /\ token' = TRUE /\ creating' = None /\ waiting' = <<>>
  /\ LET scheduling == {i \in DOMAIN waiting : waiting[i] \in {"delta", "progress"}}
     IN /\ net' = net \o [k \in 1 .. Cardinality(Flushing) |->
                            [card |-> RenderCard(state), by |-> waiting[NthFlushing(k)]]]
        /\ timer' = (timer \/ scheduling # {})
        /\ dirty' = \E i \in scheduling : \A j \in DOMAIN waiting :
                      j > i => waiting[j] # "init"
  /\ task' = IF Contains(waiting, "start") \/ Contains(waiting, "progress") THEN None ELSE task
  /\ UNCHANGED <<turn, queue, state, bucket, calls, warm, notified, env>>

\* The rejected promise stays in cardCreatePending.
CreationFails ==
  /\ "fail" \in env /\ creating \notin {None, Failed}
  /\ creating' = Failed /\ waiting' = <<>>
  /\ task' = None
  /\ UNCHANGED <<turn, queue, state, token, dirty, timer, bucket, net, shown, cards,
                 calls, warm, notified, env>>

\* The client retries a creation that was carried out.
CreationRepeated ==
  /\ "lost" \in env /\ creating \notin {None, Failed} /\ cards = 0
  /\ cards' = cards + 1
  /\ UNCHANGED <<turn, queue, task, state, token, creating, waiting, dirty, timer, bucket,
                 net, shown, calls, warm, notified, env>>

-----------------------------------------------------------------------------
(* The agent                                                               *)

Send(outputs) == queue' = queue \o outputs
AgentStep == UNCHANGED <<task, state, token, creating, waiting, dirty, timer, bucket, net,
                         shown, cards, calls, warm, notified, env>>

Streams ==
  /\ turn.ended = "no" /\ ~ turn.asked /\ Len(queue) < MaxQueue
  /\ \/ /\ turn.out < MaxDeltas
        /\ turn' = [turn EXCEPT !.out = @ + 1]
        /\ Send(<<[kind |-> "content", data |-> <<turn.out + 1>>]>>)
     \/ /\ turn' = turn
        /\ \E k \in {"progress", "agent_message"} : Send(<<[kind |-> k, data |-> Answer]>>)
  /\ AgentStep

\* The runtime sends no summary of a turn it has marked as being interrupted.
Completes ==
  /\ turn.ended = "no"
  /\ (turn.asked \/ \E u \in Users : calls[u].pc = "interrupting") => "beaten" \in env
  /\ turn' = [turn EXCEPT !.ended = "completed"]
  /\ LET complete == [kind |-> "turn_complete", data |-> Answer]
         summary == [kind |-> "turn_summary", data |-> Answer]
     IN Send(IF turn.asked THEN <<complete>> ELSE <<complete, summary>>)
  /\ AgentStep

Aborts ==
  /\ turn.ended = "no"
  /\ turn' = [turn EXCEPT !.ended = "aborted"]
  /\ Send(<<[kind |-> "turn_aborted", data |-> <<>>]>>)
  /\ AgentStep

-----------------------------------------------------------------------------
(* Dispatching the outputs                                                 *)

\* The next output of the card is dispatched; its call may await the card.
Take(kind) == /\ task = None /\ queue # <<>> /\ Head(queue).kind = kind
              /\ queue' = Tail(queue)
              /\ UNCHANGED <<turn, shown, cards, calls, warm, notified, env>>
Whole == bucket # <<>> => "late" \in env
Data == Head(queue).data

\* The call is over, or goes on when the card is there or its update returns.
Dispatched == task' = IF waiting' # waiting \/ net' # net THEN Head(queue) ELSE None

HandleTurnStarted ==
  /\ Take("turn_started")
  /\ state' = [GetOrCreateState EXCEPT !.status = "running"]
  /\ \/ token /\ UNCHANGED cardVars
     \/ EnsureCard("start", state') \/ Unreachable
  /\ UNCHANGED <<dirty, timer, bucket>> /\ Dispatched

AppendContent ==
  /\ Take("content")
  /\ bucket' = IF IsTerminalInterrupted THEN bucket ELSE bucket \o Data
  /\ UNCHANGED <<state, cardVars, dirty, timer>> /\ Dispatched

\* The aggregator hands over what it gathered, whatever became of the turn.
Aggregated ==
  /\ bucket # <<>> /\ bucket' = <<>>
  /\ state' = [GetOrCreateState EXCEPT !.message = @ \o bucket]
  /\ ScheduleCardUpdate("delta", state')
  /\ UNCHANGED <<turn, queue, task, shown, cards, calls, warm, notified, env>>

UpdateProgress ==
  /\ Take("progress")
  /\ state' = GetOrCreateState
  /\ IF IsTerminalInterrupted THEN UNCHANGED <<cardVars, dirty, timer>>
                              ELSE ScheduleCardUpdate("progress", state')
  /\ UNCHANGED bucket /\ Dispatched

\* A forced update clears the timer before it flushes.
HandleAgentMessage ==
  /\ Take("agent_message") /\ Whole
  /\ state' = [GetOrCreateState EXCEPT !.message = Data]
  /\ IF IsTerminalInterrupted THEN UNCHANGED <<cardVars, dirty, timer>>
     ELSE dirty' = FALSE /\ timer' = FALSE /\ FlushCardUpdate("chain", state')
  /\ UNCHANGED bucket /\ Dispatched

HandleTurnComplete ==
  /\ Take("turn_complete") /\ Whole
  /\ state' = [GetOrCreateState EXCEPT !.status = "completed", !.message = Data]
  /\ UNCHANGED <<cardVars, dirty, timer, bucket>> /\ Dispatched

HandleTurnAborted ==
  /\ Take("turn_aborted")
  /\ state' = [GetOrCreateState EXCEPT !.status = "interrupted", !.action = "interrupted"]
  /\ dirty' = FALSE /\ FlushCardUpdate("chain", state')
  /\ UNCHANGED <<timer, bucket>> /\ Dispatched

CompleteTurn ==
  /\ Take("turn_summary") /\ Whole
  /\ state' = [GetOrCreateState EXCEPT
                 !.status = IF IsTerminalInterrupted THEN "interrupted" ELSE "completed",
                 !.message = Data]
  /\ dirty' = FALSE /\ FlushCardUpdate("chain", state')
  /\ UNCHANGED <<timer, bucket>> /\ Dispatched

-----------------------------------------------------------------------------
(* The platform                                                            *)

\* The dispatcher goes on when its update returns; the end of a summary is
\* announced unless the user interrupted the turn.
Returned(i, ok) ==
  /\ net' = RemoveAt(net, i)
  /\ task' = IF net[i].by = "chain" THEN None ELSE task
  /\ notified' = (notified \/ (/\ ok /\ net[i].by = "chain" /\ task.kind = "turn_summary"
                               /\ net[i].card.look = "done"))
  /\ UNCHANGED <<turn, queue, state, token, creating, waiting, dirty, timer, bucket, cards,
                 calls, warm, env>>

Updated == \E i \in DOMAIN net :
  /\ i > 1 => "reorder" \in env
  /\ shown' = net[i].card /\ Returned(i, TRUE)

UpdateFails == \E i \in DOMAIN net :
  /\ "fail" \in env
  /\ UNCHANGED shown /\ Returned(i, FALSE)

-----------------------------------------------------------------------------
(* The buttons                                                             *)

Reply(card) == net' = Append(net, [card |-> card, by |-> "user"])
ClickStep == UNCHANGED <<turn, queue, task, bucket, shown, cards, warm, notified, env>>

\* The click answers with the card as it will look.
PrepareInterruptingCard(u) ==
  /\ calls[u] = Idle /\ shown # None /\ shown.look = "running"
  /\ turn.ended = "completed" => "beaten" \in env
  /\ calls' = [calls EXCEPT ![u] = [pc |-> "interrupting"]]
  /\ IF state = None THEN UNCHANGED <<state, net>>
     ELSE /\ state' = IF state.action = "interrupted" THEN state
                      ELSE [state EXCEPT !.action = "interrupting"]
          /\ Reply(RenderCard(state'))
  /\ ClickStep /\ UNCHANGED <<token, creating, waiting, dirty, timer>>

\* Mutant: the turn counts as interrupted as soon as the agent was told.
FinalizeAtOnce(u) ==
  /\ calls[u].pc = "interrupting"
  /\ \/ turn.ended = "no" /\ turn' = [turn EXCEPT !.asked = TRUE]
     \/ "other" \in env /\ turn' = turn
  /\ calls' = [calls EXCEPT ![u] = Idle]
  /\ state' = IF state = None THEN None ELSE [state EXCEPT !.action = "interrupted"]
  /\ dirty' = IF state = None THEN dirty ELSE FALSE
  /\ IF state = None THEN UNCHANGED cardVars ELSE FlushCardUpdate("user", state')
  /\ UNCHANGED <<queue, task, timer, bucket, shown, cards, warm, notified, env>>

\* The service has told the agent to stop, or a turn of the user's own thread.
FinalizeInterruptAction(u) ==
  /\ calls[u].pc = "interrupting"
  /\ \/ turn.ended = "no" /\ turn' = [turn EXCEPT !.asked = TRUE]
     \/ "other" \in env /\ turn' = turn
  /\ calls' = [calls EXCEPT ![u] = Idle]
  /\ dirty' = IF state = None THEN dirty ELSE FALSE
  /\ IF state = None THEN UNCHANGED cardVars ELSE FlushCardUpdate("user", state)
  /\ UNCHANGED <<queue, task, state, timer, bucket, shown, cards, warm, notified, env>>

\* Nothing was there to interrupt, or the service threw.
CancelInterruptingCard(u) ==
  /\ calls[u].pc = "interrupting"
  /\ calls' = [calls EXCEPT ![u] = Idle]
  /\ IF state # None /\ state.action = "interrupting"
     THEN /\ state' = [state EXCEPT !.action = "none"]
          /\ dirty' = FALSE /\ FlushCardUpdate("user", state')
     ELSE UNCHANGED <<state, dirty, cardVars>>
  /\ ClickStep /\ UNCHANGED timer

\* Accept and revert answer with a card that says that work is under way.
Decide(u, choice) ==
  /\ calls[u] = Idle /\ shown # None /\ shown.look = "done" /\ shown.choice = "none"
  /\ calls' = [calls EXCEPT ![u] = [pc |-> "deciding", choice |-> choice]]
  /\ Reply([shown EXCEPT !.look = "progress"])
  /\ ClickStep /\ UNCHANGED <<state, token, creating, waiting, dirty, timer>>

\* After a restart the state is built from the stored turn.
Recovered == IF state = None THEN [Fresh EXCEPT !.status = "completed", !.message = Answer] ELSE state

UpdateCardAction(u) ==
  /\ calls[u].pc = "deciding"
  /\ calls' = [calls EXCEPT ![u] = Idle]
  /\ state' = [Recovered EXCEPT !.status = calls[u].choice, !.action = calls[u].choice]
  /\ Reply(RenderCard(state'))
  /\ ClickStep /\ UNCHANGED <<token, creating, waiting, dirty, timer>>

DecisionFails(u) ==
  /\ "refused" \in env /\ calls[u].pc = "deciding"
  /\ calls' = [calls EXCEPT ![u] = Idle]
  /\ Reply([look |-> "failure", choice |-> "none", text |-> <<>>])
  /\ ClickStep /\ UNCHANGED <<state, token, creating, waiting, dirty, timer>>

-----------------------------------------------------------------------------

\* Only the card on the platform survives; requests under way are cut off.
Restart ==
  /\ "restart" \in env /\ state # None
  /\ turn' = [turn EXCEPT !.ended = IF @ = "no" THEN "aborted" ELSE @]
  /\ queue' = <<>> /\ task' = None /\ state' = None /\ token' = FALSE /\ creating' = None
  /\ waiting' = <<>> /\ dirty' = FALSE /\ timer' = FALSE /\ bucket' = <<>>
  /\ calls' = [u \in Users |-> Idle] /\ warm' = TRUE
  /\ net' = <<>>
  /\ UNCHANGED <<shown, cards, notified, env>>

Init ==
  /\ env \in Envs
  /\ turn = [out |-> 0, ended |-> "no", asked |-> FALSE]
  /\ queue = <<[kind |-> "turn_started", data |-> <<>>]>> /\ task = None /\ state = None
  /\ token = FALSE /\ creating = None /\ waiting = <<>> /\ net = <<>>
  /\ dirty = FALSE /\ timer = FALSE /\ bucket = <<>> /\ shown = None /\ cards = 0
  /\ calls = [u \in Users |-> Idle] /\ warm = FALSE /\ notified = FALSE

\* Timers fire and users act while few updates are under way.
Agent == Streams \/ Completes \/ Aborts
Room == Len(net) < MaxNet
Dispatch == HandleTurnStarted \/ AppendContent \/ UpdateProgress \/ HandleAgentMessage
            \/ HandleTurnComplete \/ HandleTurnAborted \/ CompleteTurn
Timed == Room /\ (TimerFires \/ InitializeTurnCard)
Card == CardCreated \/ Aggregated \/ Timed \/ Updated
Trouble == CreationFails \/ CreationRepeated \/ UpdateFails \/ Restart
Finish(u) == Room /\ (\/ FinalizeInterruptAction(u) \/ CancelInterruptingCard(u)
                      \/ UpdateCardAction(u) \/ DecisionFails(u))
Click(u) == Room /\ (PrepareInterruptingCard(u) \/ \E c \in Decisions : Decide(u, c))

Next == Agent \/ Dispatch \/ Card \/ Trouble \/ \E u \in Users : Click(u) \/ Finish(u)

Spec == Init /\ [][Next]_vars

\* Timers fire, requests return, the dispatcher and the calls go on, and the
\* agent ends its turn.
Fairness ==
  /\ WF_vars(Completes \/ Aborts) /\ WF_vars(Dispatch) /\ WF_vars(CardCreated) /\ WF_vars(Updated)
  /\ WF_vars(Aggregated) /\ WF_vars(Timed)
  /\ \A u \in Users : WF_vars(Finish(u))
FairSpec == Spec /\ Fairness

-----------------------------------------------------------------------------
(* Properties                                                              *)

Without(hardships) == env \cap hardships = {}

\* A turn has one card, whichever of the dispatcher, the message handler, the
\* aggregator, a timer and a button needs it first, and whatever still arrives
\* after the turn is over.
OneCard == Without({"lost"}) => cards <= 1

Quiet == /\ turn.ended # "no" /\ queue = <<>> /\ task = None /\ creating = None /\ net = <<>> /\ bucket = <<>>
         /\ ~ timer /\ \A u \in Users : calls[u] = Idle

\* Once the turn is over and nothing is under way any more, the platform shows what the manager
\* knows: no change is lost between the flags, the timer and the updates that
\* overlap.
Settled == Without({"fail", "reorder", "refused", "beaten"}) =>
  (Quiet /\ state # None /\ shown # None => shown = RenderCard(state))

\* A card that says done belongs to a turn that completed and shows its whole
\* answer once; one that says interrupted, to a turn that was aborted.
ShownTrue ==
  /\ shown # None /\ shown.look = "done" =>
       turn.ended = "completed" /\ (Without({"late"}) => shown.text = Answer)
  /\ shown # None /\ shown.look = "interrupted" => turn.ended = "aborted"

\* The chat has one card of the turn, and what it says of the turn's end is true.
CardTrue == TypeOK /\ OneCard /\ ShownTrue

Ended == shown # None /\ shown.look \notin {"running", "interrupting"}

\* No update that was under way, held back or timed brings a card that has
\* shown the end of its turn back to a running one.
StaysEnded == [][Without({"reorder", "beaten", "other"}) => (Ended => Ended')]_vars

\* The card of a turn comes to show how it ended, and the completion is announced.
EndShown ==
  /\ Without({"fail", "reorder", "refused", "beaten", "other", "restart"}) /\ turn.ended = "completed"
       ~> shown # None /\ shown.look = "done" /\ notified
  /\ Without({"fail", "reorder", "refused", "beaten", "other", "restart"}) /\ turn.ended = "aborted"
       ~> shown # None /\ shown.look = "interrupted"
=============================================================================
