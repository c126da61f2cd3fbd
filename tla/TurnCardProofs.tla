--------------------------- MODULE TurnCardProofs ---------------------------
(***************************************************************************)
(* Theorems about TurnCard, for any users, bounds and environments.        *)
(*                                                                         *)
(* The card has one life: it is asked for, appears, and after a restart is *)
(* Cut: nothing of the server refers to it any more but the clicks of its  *)
(* buttons, which never ask for a second card.  What it says of the end of *)
(* the turn is true because all that could still change the text is gone   *)
(* when a card that says "done" is first made (Over); it is the last word  *)
(* because updates overtake nobody and none is made of a state that runs   *)
(* again; and it follows the state because a change is always accompanied  *)
(* by an update, a call that will bring one, or a timer with the flag up.  *)
(***************************************************************************)
EXTENDS TurnCard, FiniteSetTheorems, SequenceTheorems, WellFoundedInduction, TLAPS

Clicks == {Idle} \cup [pc : {"interrupting"}] \cup [pc : {"deciding"}, choice : Decisions]
Updates == [card : Cards, by : Callers]

Typed ==
  /\ turn \in [out : 0 .. MaxDeltas, ended : {"no", "completed", "aborted"}, asked : BOOLEAN]
  /\ queue \in Seq(Outputs)
  /\ task \in Outputs \cup {None}
  /\ state \in States \cup {None}
  /\ creating \in Cards \cup {None, Failed}
  /\ waiting \in Seq(Callers)
  /\ net \in Seq(Updates)
  /\ shown \in Cards \cup {None}
  /\ token \in BOOLEAN /\ dirty \in BOOLEAN /\ timer \in BOOLEAN
  /\ warm \in BOOLEAN /\ notified \in BOOLEAN
  /\ bucket \in Answers /\ cards \in Nat /\ env \in Envs
  /\ calls \in [Users -> Clicks]

Ends == {"turn_complete", "turn_summary", "turn_aborted"}
Done == {"completed"} \cup Decisions
Pending == creating \notin {None, Failed}
Deciding == \E u \in Users : calls[u].pc = "deciding"
Interrupting == \E u \in Users : calls[u].pc = "interrupting"
Ending(look) == look \notin {"running", "interrupting"}

\* What the agent sent last is the end of the turn, with its whole answer.
Queue ==
  /\ \A i \in DOMAIN queue :
       /\ queue[i].kind \in {"turn_complete", "turn_summary"} =>
            turn.ended = "completed" /\ queue[i].data = Answer
       /\ queue[i].kind = "turn_aborted" => turn.ended = "aborted"
  /\ \A i, j \in DOMAIN queue :
       i < j /\ queue[i].kind \in Ends => queue[j].kind = "turn_summary"

-----------------------------------------------------------------------------
(* The life of a card.                                                     *)

\* A restart cut the card off from its turn.
Cut ==
  /\ turn.ended # "no" /\ queue = <<>> /\ task = None /\ bucket = <<>>
  /\ ~ timer /\ ~ dirty /\ ~ token /\ warm /\ creating = None /\ waiting = <<>>
  /\ \/ /\ state = None /\ net = <<>> /\ ~ Deciding
        /\ Interrupting => shown # None /\ shown.look = "running"
     \/ /\ shown # None /\ shown.look \in {"done", "progress", "failure"}
        /\ \A i \in DOMAIN net : net[i].card.look \in {"done", "progress", "failure"}
        /\ ~ Interrupting
        /\ state # None => state.status \in Decisions

Life ==
  /\ token => creating = None /\ shown # None /\ state # None
  /\ Pending => state # None /\ ~ token /\ shown = None
  /\ creating \in {None, Failed} => waiting = <<>>
  /\ ~ token => ~ timer /\ ~ dirty
  /\ shown = None => net = <<>> /\ ~ Deciding /\ ~ Interrupting /\ cards <= 1
                     /\ (Without({"lost"}) => cards = 0)
  /\ shown # None => cards <= 2 /\ (Without({"lost"}) => cards = 1)
  /\ shown # None /\ ~ token => Cut

-----------------------------------------------------------------------------
(* What a card says.                                                       *)

\* The turn completed and nothing can change the text of its card any more.
Over ==
  /\ turn.ended = "completed"
  /\ \A i \in DOMAIN queue : queue[i].kind = "turn_summary"
  /\ state = None => warm
  /\ Without({"late"}) => bucket = <<>> /\ (state # None => state.message = Answer)

TrueCard(c) ==
  /\ c.look = "done" => Over /\ (Without({"late"}) => c.text = Answer)
  /\ c.look = "interrupted" => turn.ended = "aborted"

Truth ==
  /\ state # None => /\ state.status \in Done => Over
                     /\ state.action = "interrupted" => turn.ended = "aborted"
  /\ shown # None => TrueCard(shown)
  /\ Pending => TrueCard(creating)
  /\ \A i \in DOMAIN net : TrueCard(net[i].card)
  /\ Deciding => Over

-----------------------------------------------------------------------------
(* The last word.                                                          *)

StateEnds == state # None => Ending(RenderCard(state).look)

LastWord ==
  Without({"reorder", "beaten", "other"}) =>
    /\ shown # None /\ Ending(shown.look) =>
         StateEnds /\ \A i \in DOMAIN net : Ending(net[i].card.look)
    /\ Deciding => shown # None /\ Ending(shown.look)
    /\ Pending /\ Ending(creating.look) => StateEnds
    /\ \A i \in DOMAIN net : Ending(net[i].card.look) =>
         StateEnds /\ \A j \in DOMAIN net : i < j => Ending(net[j].card.look)

\* A state that waits for an interrupt belongs to a turn that did not complete.
Stopping ==
  Without({"beaten", "other"}) =>
    /\ state # None /\ state.action = "interrupting" => Interrupting \/ turn.asked
    /\ Interrupting \/ turn.asked => turn.ended # "completed"

-----------------------------------------------------------------------------
(* The card follows the state.                                             *)

Latest == IF net = <<>> THEN shown ELSE net[Len(net)].card

Follows ==
  state # None =>
    IF Pending THEN creating = RenderCard(state) \/ \E i \in DOMAIN waiting : waiting[i] # "start"
    ELSE \/ Latest = RenderCard(state) \/ Deciding
         \/ IF token THEN dirty /\ timer ELSE shown = None

Synced ==
  Without({"fail", "reorder", "refused", "beaten"}) =>
    /\ creating # Failed
    /\ turn.ended # "no" =>
         IF queue = <<>> THEN Follows ELSE queue[Len(queue)].kind \in {"turn_aborted", "turn_summary"}

IInv == Typed /\ Queue /\ Life /\ Truth /\ LastWord /\ Stopping /\ Synced
-----------------------------------------------------------------------------
(* Records and sequences.                                                  *)

\* The null values are no states, cards, outputs or clicks.
LEMMA Nulls ==
  /\ None \notin States /\ None \notin Cards /\ None \notin Outputs
  /\ Failed \notin Cards /\ None # Failed
<1>1. \A x \in States : "status" \in DOMAIN x
  BY DEF States
<1>2. \A x \in Cards : "look" \in DOMAIN x
  BY DEF Cards
<1>3. \A x \in Outputs : "kind" \in DOMAIN x
  BY DEF Outputs
<1>4. DOMAIN None = {"none"} /\ DOMAIN Failed = {"failed"}
  BY DEF None, Failed
<1>5. "status" \notin DOMAIN None /\ "look" \notin DOMAIN None /\ "kind" \notin DOMAIN None
      /\ "look" \notin DOMAIN Failed /\ DOMAIN None # DOMAIN Failed
  BY <1>4
<1> QED BY <1>1, <1>2, <1>3, <1>5

\* What a state is rendered to is a card.
LEMMA Rendered ==
  ASSUME NEW s \in States
  PROVE  /\ RenderCard(s) \in Cards
         /\ RenderCard(s).look = "done" <=> s.status \in Done
         /\ RenderCard(s).look = "interrupted" <=> s.status \notin Done /\ s.action = "interrupted"
         /\ RenderCard(s).look = "interrupting" <=> s.status \notin Done /\ s.action = "interrupting"
         /\ RenderCard(s).look \in {"done", "interrupting", "interrupted", "running"}
         /\ RenderCard(s).text = s.message
<1>1. /\ s.status \in {"running", "completed", "interrupted"} \cup Decisions
      /\ s.action \in {"none", "interrupting", "interrupted"} \cup Decisions
      /\ s.message \in Answers
  BY DEF States
<1> DEFINE look == IF s.status \in Done THEN "done"
                   ELSE IF s.action \in {"interrupting", "interrupted"} THEN s.action ELSE "running"
           choice == IF s.action \in Decisions THEN s.action ELSE "none"
<1>2. RenderCard(s) = [look |-> look, choice |-> choice, text |-> s.message]
  BY DEF RenderCard, Done
<1>3. look \in {"done", "interrupting", "interrupted", "running"} /\ choice \in {"none"} \cup Decisions
  OBVIOUS
<1>4. /\ look = "done" <=> s.status \in Done
      /\ look = "interrupted" <=> s.status \notin Done /\ s.action = "interrupted"
      /\ look = "interrupting" <=> s.status \notin Done /\ s.action = "interrupting"
  OBVIOUS
<1> HIDE DEF look, choice
<1> QED BY <1>1, <1>2, <1>3, <1>4 DEF Cards, Looks

\* A sequence without its i-th element.
LEMMA Removed ==
  ASSUME NEW S, NEW s \in Seq(S), NEW i \in DOMAIN s
  PROVE  /\ RemoveAt(s, i) \in Seq(S)
         /\ Len(RemoveAt(s, i)) = Len(s) - 1
         /\ \A j \in 1 .. (Len(s) - 1) : RemoveAt(s, i)[j] = s[IF j < i THEN j ELSE j + 1]
<1> DEFINE a == SubSeq(s, 1, i - 1)
           b == SubSeq(s, i + 1, Len(s))
<1>1. i \in 1 .. Len(s) /\ Len(s) \in Nat
  BY LenProperties
<1>2. /\ a \in Seq(S) /\ Len(a) = i - 1 /\ \A j \in 1 .. (i - 1) : a[j] = s[j]
  BY <1>1, SubSeqProperties
<1>3. /\ b \in Seq(S) /\ Len(b) = Len(s) - i /\ \A j \in 1 .. (Len(s) - i) : b[j] = s[i + j]
  BY <1>1, SubSeqProperties
<1>4. /\ a \o b \in Seq(S) /\ Len(a \o b) = Len(s) - 1
      /\ \A j \in 1 .. (Len(s) - 1) : (a \o b)[j] = IF j < i THEN a[j] ELSE b[j - (i - 1)]
  <2> HIDE DEF a, b
  <2>1. a \o b \in Seq(S) /\ Len(a \o b) = Len(a) + Len(b)
    BY <1>2, <1>3, ConcatProperties
  <2>2. \A j \in 1 .. (Len(a) + Len(b)) : (a \o b)[j] = IF j <= Len(a) THEN a[j] ELSE b[j - Len(a)]
    BY <1>2, <1>3, ConcatProperties
  <2>3. Len(a) = i - 1 /\ Len(a) + Len(b) = Len(s) - 1
    BY <1>1, <1>2, <1>3
  <2>4. \A j \in 1 .. (Len(s) - 1) : j <= i - 1 <=> j < i
    BY <1>1
  <2> QED BY <2>1, <2>2, <2>3, <2>4
<1>5. \A j \in 1 .. (Len(s) - 1) : j >= i => b[j - (i - 1)] = s[j + 1]
  <2> HIDE DEF a, b
  <2> TAKE j \in 1 .. (Len(s) - 1)
  <2> HAVE j >= i
  <2>1. j - (i - 1) \in 1 .. (Len(s) - i) /\ i + (j - (i - 1)) = j + 1
    BY <1>1
  <2> QED BY <1>3, <2>1
<1>6. RemoveAt(s, i) = a \o b
  BY DEF RemoveAt
<1>7. \A j \in 1 .. (Len(s) - 1) : j < i => j \in 1 .. (i - 1)
  BY <1>1
<1>8. \A j \in 1 .. (Len(s) - 1) : j < i \/ j >= i
  BY <1>1
<1> HIDE DEF a, b
<1> QED BY <1>2, <1>4, <1>5, <1>6, <1>7, <1>8

\* A number up to the size of a set of naturals is the rank of one of them.
LEMMA Ranked ==
  ASSUME NEW n \in Nat, NEW F, F \subseteq 1 .. n, NEW k \in 1 .. Cardinality(F)
  PROVE  \E i \in F : Cardinality({j \in F : j <= i}) = k
<1> DEFINE C == [i \in 0 .. n |-> Cardinality({j \in F : j <= i})]
           T == {i \in 1 .. n : k <= C[i]}
<1>0. \A j \in F : j \in Nat /\ 1 <= j /\ j <= n
  OBVIOUS
<1>1. IsFiniteSet(F)
  <2>1. IsFiniteSet(1 .. n)
    BY FS_Interval
  <2> QED BY <2>1, FS_Subset
<1>2. k \in Nat /\ 1 <= k /\ k <= Cardinality(F) /\ Cardinality(F) \in Nat
  BY <1>1, FS_CardinalityType
<1>3. C[0] = 0
  <2>1. {j \in F : j <= 0} = {}
    <3>1. \A j \in F : ~ (j <= 0)
      BY <1>0
    <3> QED BY <3>1
  <2> QED BY <2>1, FS_EmptySet
<1>4. C[n] = Cardinality(F)
  <2>1. {j \in F : j <= n} = F
    BY <1>0
  <2> QED BY <2>1
<1>5. ASSUME NEW i \in 1 .. n
      PROVE  /\ C[i] \in Nat /\ C[i - 1] \in Nat
             /\ C[i] = IF i \in F THEN C[i - 1] + 1 ELSE C[i - 1]
  <2> DEFINE A == {j \in F : j <= i - 1}
             B == {j \in F : j <= i}
  <2>1. C[i] = Cardinality(B) /\ C[i - 1] = Cardinality(A)
    OBVIOUS
  <2>2. IsFiniteSet(A) /\ i \notin A
    <3>1. A \subseteq F /\ i \notin A
      OBVIOUS
    <3> QED BY <1>1, <3>1, FS_Subset
  <2>3. B = IF i \in F THEN A \cup {i} ELSE A
    <3>1. \A j \in F : j <= i <=> j <= i - 1 \/ j = i
      BY <1>0
    <3> QED BY <3>1
  <2> HIDE DEF A, B, C
  <2> QED BY <2>1, <2>2, <2>3, FS_AddElement, FS_CardinalityType
<1> HIDE DEF C
<1>6. T # {}
  <2>1. n \in 1 .. n
    BY <1>2, <1>3, <1>4
  <2> QED BY <1>2, <1>4, <2>1
<1>7. PICK i \in T : \A j \in T : ~ (j < i)
  <2>1. T \subseteq Nat
    OBVIOUS
  <2>2. PICK x \in T : \A y \in T : ~ (<<y, x>> \in OpToRel(<, Nat))
    <3> HIDE DEF T
    <3> QED BY <1>6, <2>1, NatLessThanWellFounded, WFMin
  <2>3. \A y \in T : y < x => <<y, x>> \in OpToRel(<, Nat)
    BY <2>1 DEF OpToRel
  <2> QED BY <2>2, <2>3
<1>8. i \in 1 .. n /\ k <= C[i]
  OBVIOUS
<1>9. C[i - 1] < k
  <2>1. CASE i = 1
    BY <1>2, <1>3, <2>1
  <2>2. CASE i # 1
    <3>1. i - 1 \in 1 .. n /\ i - 1 \notin T
      BY <1>7, <1>8, <2>2
    <3> QED BY <1>2, <1>5, <1>8, <3>1
  <2> QED BY <2>1, <2>2
<1>10. i \in F /\ C[i] = k
  BY <1>2, <1>5, <1>8, <1>9
<1> QED BY <1>8, <1>10 DEF C

\* Every number up to the count of the flushing calls belongs to one of them.
LEMMA Nth ==
  ASSUME waiting \in Seq(Callers), NEW k \in 1 .. Cardinality(Flushing)
  PROVE  NthFlushing(k) \in Flushing
<1>1. Len(waiting) \in Nat /\ Flushing \subseteq 1 .. Len(waiting)
  BY LenProperties DEF Flushing
<1>2. \E i \in Flushing : Cardinality({j \in Flushing : j <= i}) = k
  BY <1>1, Ranked
<1> QED BY <1>2 DEF NthFlushing
-----------------------------------------------------------------------------
(* Types.                                                                  *)

CardTyped ==
  /\ token \in BOOLEAN /\ creating \in Cards \cup {None, Failed}
  /\ waiting \in Seq(Callers) /\ net \in Seq(Updates)

LEMMA AnswerTyped ==
  ASSUME Typed
  PROVE  Answer \in Answers /\ Fresh \in States /\ GetOrCreateState \in States
<1>1. turn.out \in 0 .. MaxDeltas /\ MaxDeltas \in Nat
  BY CardAssumption DEF Typed
<1>2. Answer \in [1 .. turn.out -> 1 .. MaxDeltas]
  BY <1>1 DEF Answer
<1>3. Answer \in Seq(1 .. MaxDeltas)
  BY <1>1, <1>2, SeqDef
<1>4. Fresh \in States
  <2>1. <<>> \in Answers
    BY DEF Answers
  <2> QED BY <2>1 DEF Fresh, States
<1> QED BY <1>3, <1>4 DEF Typed, GetOrCreateState, Answers

LEMMA Updating ==
  ASSUME Typed, NEW c \in Cards, NEW by \in Callers
  PROVE  Append(net, [card |-> c, by |-> by]) \in Seq(Updates)
<1>1. [card |-> c, by |-> by] \in Updates
  BY DEF Updates
<1> QED BY <1>1 DEF Typed

LEMMA Flying ==
  ASSUME Typed, NEW i \in DOMAIN net
  PROVE  net[i] \in Updates /\ net[i].card \in Cards
<1>1. net[i] \in Updates
  BY ElementOfSeq, LenProperties DEF Typed
<1> QED BY <1>1 DEF Updates

LEMMA EnsureTyped ==
  ASSUME Typed, NEW s \in States, NEW by \in Callers, EnsureCard(by, s)
  PROVE  CardTyped'
<1>1. RenderCard(s) \in Cards
  BY Rendered
<1>2. Append(waiting, by) \in Seq(Callers)
  BY DEF Typed
<1> QED BY <1>1, <1>2 DEF Typed, CardTyped, EnsureCard

LEMMA FlushTyped ==
  ASSUME Typed, NEW s \in States, NEW by \in Callers, FlushCardUpdate(by, s)
  PROVE  CardTyped'
<1>1. CASE token /\ Update(by, s)
  BY <1>1, Rendered, Updating DEF Typed, CardTyped, Update
<1>2. CASE EnsureCard(by, s)
  BY <1>2, EnsureTyped
<1>3. CASE Unreachable
  BY <1>3 DEF Typed, CardTyped, Unreachable, cardVars
<1> QED BY <1>1, <1>2, <1>3 DEF FlushCardUpdate

LEMMA ScheduleTyped ==
  ASSUME Typed, NEW s \in States, NEW by \in Callers, ScheduleCardUpdate(by, s)
  PROVE  CardTyped' /\ dirty' \in BOOLEAN /\ timer' \in BOOLEAN
<1>1. CASE token /\ dirty' = TRUE /\ timer' = TRUE /\ UNCHANGED cardVars
  BY <1>1 DEF Typed, CardTyped, cardVars
<1>2. CASE EnsureCard(by, s) /\ UNCHANGED <<dirty, timer>>
  BY <1>2, EnsureTyped DEF Typed
<1>3. CASE Unreachable /\ UNCHANGED <<dirty, timer>>
  BY <1>3 DEF Typed, CardTyped, Unreachable, cardVars
<1> QED BY <1>1, <1>2, <1>3 DEF ScheduleCardUpdate

LEMMA SameTyped ==
  ASSUME Typed, UNCHANGED cardVars
  PROVE  CardTyped'
  BY DEF Typed, CardTyped, cardVars

\* What an output that is taken is, and what remains typed while it is handled.
LEMMA Taken ==
  ASSUME Typed, NEW kind, Take(kind)
  PROVE  /\ queue # <<>> /\ Head(queue) \in Outputs /\ Head(queue).kind = kind
         /\ queue' = Tail(queue) /\ queue' \in Seq(Outputs) /\ Data \in Answers
         /\ UNCHANGED <<turn, shown, cards, calls, warm, notified, env>>
         /\ Head(queue) = queue[1] /\ 1 \in DOMAIN queue
         /\ DOMAIN queue' = 1 .. (Len(queue) - 1)
         /\ \A i \in DOMAIN queue' : i + 1 \in DOMAIN queue /\ queue'[i] = queue[i + 1]
<1>1. queue # <<>> /\ queue \in Seq(Outputs)
  BY DEF Take, Typed
<1>2. Head(queue) \in Outputs /\ Tail(queue) \in Seq(Outputs) /\ Head(queue) = queue[1]
  BY <1>1, HeadTailProperties
<1>3. Data \in Answers
  BY <1>2 DEF Data, Outputs
<1>4. /\ Len(queue) \in Nat /\ Len(queue) # 0 /\ DOMAIN queue = 1 .. Len(queue)
      /\ Len(Tail(queue)) = Len(queue) - 1
      /\ \A i \in 1 .. Len(Tail(queue)) : Tail(queue)[i] = queue[i + 1]
  BY <1>1, HeadTailProperties, LenProperties, EmptySeq
<1>5. DOMAIN Tail(queue) = 1 .. (Len(queue) - 1)
  BY <1>2, <1>4, LenProperties
<1> QED BY <1>1, <1>2, <1>3, <1>4, <1>5 DEF Take

LEMMA HandledTyped ==
  ASSUME Typed, NEW kind, Take(kind), Dispatched, state' \in States, CardTyped',
         dirty' \in BOOLEAN, timer' \in BOOLEAN, bucket' \in Answers
  PROVE  Typed'
<1>1. task' \in Outputs \cup {None}
  BY Taken DEF Dispatched
<1> QED BY <1>1, Taken DEF Typed, CardTyped

LEMMA DispatchTyped ==
  ASSUME Typed, Dispatch
  PROVE  Typed' /\ (AppendContent \/ state' \in States)
<1> DEFINE g == GetOrCreateState
<1>1. g \in States /\ g.message \in Answers /\ g.action \in {"none", "interrupting", "interrupted"} \cup Decisions
  BY AnswerTyped DEF States
<1> HIDE DEF g
<1> USE DEF Typed
<1>2. CASE HandleTurnStarted
  <2>1. Take("turn_started") /\ Dispatched /\ UNCHANGED <<dirty, timer, bucket>>
    BY <1>2 DEF HandleTurnStarted
  <2>2. state' \in States
    BY <1>1, <1>2 DEF HandleTurnStarted, States, g
  <2>3. CardTyped'
    BY <1>2, <2>2, SameTyped, EnsureTyped DEF HandleTurnStarted, Callers, Unreachable
  <2> QED BY <2>1, <2>2, <2>3, HandledTyped
<1>3. CASE AppendContent
  <2>1. Take("content") /\ Dispatched /\ UNCHANGED <<state, dirty, timer>> /\ CardTyped'
    BY <1>3, SameTyped DEF AppendContent
  <2>2. bucket' \in Answers
    BY <1>3, <2>1, Taken, ConcatProperties DEF AppendContent, Answers
  <2>3. task' \in Outputs \cup {None}
    BY <2>1, Taken DEF Dispatched
  <2> QED BY <1>3, <2>1, <2>2, <2>3, Taken DEF CardTyped
<1>4. CASE UpdateProgress
  <2>1. Take("progress") /\ Dispatched /\ UNCHANGED bucket /\ state' \in States
    BY <1>1, <1>4 DEF UpdateProgress, g
  <2>2. CardTyped' /\ dirty' \in BOOLEAN /\ timer' \in BOOLEAN
    BY <1>4, <2>1, SameTyped, ScheduleTyped DEF UpdateProgress, Callers
  <2> QED BY <2>1, <2>2, HandledTyped
<1>5. CASE HandleAgentMessage
  <2>1. Take("agent_message") /\ Dispatched /\ UNCHANGED bucket
    BY <1>5 DEF HandleAgentMessage
  <2>2. state' \in States
    BY <1>1, <1>5, <2>1, Taken DEF HandleAgentMessage, States, g
  <2>3. CardTyped' /\ dirty' \in BOOLEAN /\ timer' \in BOOLEAN
    BY <1>5, <2>2, SameTyped, FlushTyped DEF HandleAgentMessage, Callers
  <2> QED BY <2>1, <2>2, <2>3, HandledTyped
<1>6. CASE HandleTurnComplete
  <2>1. Take("turn_complete") /\ Dispatched /\ UNCHANGED <<cardVars, dirty, timer, bucket>>
    BY <1>6 DEF HandleTurnComplete
  <2>2. state' \in States
    BY <1>1, <1>6, <2>1, Taken DEF HandleTurnComplete, States, g
  <2> QED BY <2>1, <2>2, SameTyped, HandledTyped
<1>7. CASE HandleTurnAborted
  <2>1. Take("turn_aborted") /\ Dispatched /\ UNCHANGED <<timer, bucket>> /\ dirty' \in BOOLEAN
    BY <1>7 DEF HandleTurnAborted
  <2>2. state' \in States
    BY <1>1, <1>7 DEF HandleTurnAborted, States, g
  <2>3. CardTyped'
    BY <1>7, <2>2, FlushTyped DEF HandleTurnAborted, Callers
  <2> QED BY <2>1, <2>2, <2>3, HandledTyped
<1>8. CASE CompleteTurn
  <2>1. Take("turn_summary") /\ Dispatched /\ UNCHANGED <<timer, bucket>> /\ dirty' \in BOOLEAN
    BY <1>8 DEF CompleteTurn
  <2>2. state' \in States
    BY <1>1, <1>8, <2>1, Taken DEF CompleteTurn, States, g
  <2>3. CardTyped'
    BY <1>8, <2>2, FlushTyped DEF CompleteTurn, Callers
  <2> QED BY <2>1, <2>2, <2>3, HandledTyped
<1> QED BY <1>2, <1>3, <1>4, <1>5, <1>6, <1>7, <1>8 DEF Dispatch

LEMMA AgentTyped ==
  ASSUME Typed, Agent
  PROVE  Typed'
<1>0. MaxDeltas \in Nat /\ Answer \in Answers
  BY CardAssumption, AnswerTyped
<1>1. UNCHANGED <<task, state, token, creating, waiting, dirty, timer, bucket, net,
                  shown, cards, calls, warm, notified, env>>
  BY DEF Agent, Streams, Completes, Aborts, AgentStep
<1>2. CASE Streams
  <2>1. CASE /\ turn.out < MaxDeltas
             /\ turn' = [turn EXCEPT !.out = @ + 1]
             /\ Send(<<[kind |-> "content", data |-> <<turn.out + 1>>]>>)
    <3>1. turn.out + 1 \in 1 .. MaxDeltas /\ turn.out + 1 \in 0 .. MaxDeltas
      BY <1>0, <2>1 DEF Typed
    <3>2. turn' \in [out : 0 .. MaxDeltas, ended : {"no", "completed", "aborted"}, asked : BOOLEAN]
      BY <2>1, <3>1 DEF Typed
    <3>3. <<turn.out + 1>> \in Answers
      BY <3>1 DEF Answers
    <3>4. queue' \in Seq(Outputs)
      BY <2>1, <3>3 DEF Send, Outputs, Typed
    <3> QED BY <1>1, <3>2, <3>4 DEF Typed
  <2>2. CASE /\ turn' = turn
             /\ \E k \in {"progress", "agent_message"} : Send(<<[kind |-> k, data |-> Answer]>>)
    <3>1. queue' \in Seq(Outputs)
      BY <1>0, <2>2 DEF Send, Outputs, Typed
    <3> QED BY <1>1, <2>2, <3>1 DEF Typed
  <2> QED BY <1>2, <2>1, <2>2 DEF Streams
<1>3. CASE Completes
  <2>1. turn' \in [out : 0 .. MaxDeltas, ended : {"no", "completed", "aborted"}, asked : BOOLEAN]
    BY <1>3 DEF Completes, Typed
  <2>2. /\ [kind |-> "turn_complete", data |-> Answer] \in Outputs
        /\ [kind |-> "turn_summary", data |-> Answer] \in Outputs
    BY <1>0 DEF Outputs
  <2>3. queue' \in Seq(Outputs)
    BY <1>3, <2>2 DEF Completes, Send, Typed
  <2> QED BY <1>1, <2>1, <2>3 DEF Typed
<1>4. CASE Aborts
  <2>1. turn' \in [out : 0 .. MaxDeltas, ended : {"no", "completed", "aborted"}, asked : BOOLEAN]
    BY <1>4 DEF Aborts, Typed
  <2>2. [kind |-> "turn_aborted", data |-> <<>>] \in Outputs
    BY DEF Outputs, Answers
  <2>3. queue' \in Seq(Outputs)
    BY <1>4, <2>2 DEF Aborts, Send, Typed
  <2> QED BY <1>1, <2>1, <2>3 DEF Typed
<1> QED BY <1>2, <1>3, <1>4 DEF Agent

\* What the creation of the card leaves behind.
LEMMA CreatedTyped ==
  ASSUME Typed, CardCreated, state # None
  PROVE  Typed'
<1> DEFINE more == [k \in 1 .. Cardinality(Flushing) |->
                      [card |-> RenderCard(state), by |-> waiting[NthFlushing(k)]]]
<1>1. net' = net \o more
  BY DEF CardCreated
<1>2. more \in Seq(Updates)
  <2>1. Cardinality(Flushing) \in Nat
    <3>1. Len(waiting) \in Nat /\ Flushing \subseteq 1 .. Len(waiting)
      BY LenProperties DEF Flushing, Typed
    <3>2. IsFiniteSet(1 .. Len(waiting))
      BY <3>1, FS_Interval
    <3>3. IsFiniteSet(Flushing)
      BY <3>1, <3>2, FS_Subset
    <3> QED BY <3>3, FS_CardinalityType
  <2>2. ASSUME NEW k \in 1 .. Cardinality(Flushing)
        PROVE  [card |-> RenderCard(state), by |-> waiting[NthFlushing(k)]] \in Updates
    <3>1. NthFlushing(k) \in Flushing
      BY Nth DEF Typed
    <3>2. NthFlushing(k) \in DOMAIN waiting
      BY <3>1 DEF Flushing
    <3>3. waiting[NthFlushing(k)] \in Callers
      BY <3>2, ElementOfSeq, LenProperties DEF Typed
    <3>4. RenderCard(state) \in Cards
      BY Rendered DEF Typed
    <3> QED BY <3>3, <3>4 DEF Updates
  <2> QED BY <2>1, <2>2, SeqDef
<1> HIDE DEF more
<1>3. net' \in Seq(Updates)
  BY <1>1, <1>2, ConcatProperties DEF Typed
<1>4. task' \in Outputs \cup {None} /\ timer' \in BOOLEAN /\ dirty' \in BOOLEAN
  BY DEF CardCreated, Typed
<1>5. /\ shown' \in Cards \cup {None} /\ cards' \in Nat /\ token' \in BOOLEAN
      /\ creating' \in Cards \cup {None, Failed} /\ waiting' \in Seq(Callers)
      /\ UNCHANGED <<turn, queue, state, bucket, calls, warm, notified, env>>
  BY DEF CardCreated, Typed
<1> QED BY <1>3, <1>4, <1>5 DEF Typed

LEMMA ReturnedTyped ==
  ASSUME Typed, NEW i \in DOMAIN net, NEW ok \in BOOLEAN, Returned(i, ok),
         shown' \in {shown, net[i].card}
  PROVE  Typed'
<1>1. net' \in Seq(Updates)
  BY Removed DEF Returned, Typed
<1>2. net[i] \in Updates
  BY ElementOfSeq, LenProperties DEF Typed
<1>3. shown' \in Cards \cup {None}
  BY <1>2 DEF Typed, Updates
<1>4. task' \in Outputs \cup {None} /\ notified' \in BOOLEAN
  BY DEF Returned, Typed
<1> QED BY <1>1, <1>3, <1>4 DEF Returned, Typed

LEMMA CardStepTyped ==
  ASSUME Typed, Life, Card \/ Trouble
  PROVE  Typed'
<1> USE DEF Typed
<1>1. CASE CardCreated
  BY <1>1, CreatedTyped DEF CardCreated, Life, Pending
<1>2. CASE Aggregated
  <2>1. state' = [GetOrCreateState EXCEPT !.message = @ \o bucket] /\ bucket' = <<>>
    BY <1>2 DEF Aggregated
  <2>2. GetOrCreateState \in States /\ GetOrCreateState.message \o bucket \in Answers
    BY AnswerTyped, ConcatProperties DEF States, Answers
  <2>3. state' \in States
    BY <2>1, <2>2 DEF States
  <2>4. CardTyped' /\ dirty' \in BOOLEAN /\ timer' \in BOOLEAN
    BY <1>2, <2>3, ScheduleTyped DEF Aggregated, Callers
  <2>5. bucket' \in Answers
    BY <2>1 DEF Answers
  <2> QED BY <1>2, <2>3, <2>4, <2>5 DEF Aggregated, CardTyped
<1>3. CASE TimerFires
  <2>1. CardTyped'
    BY <1>3, SameTyped, FlushTyped DEF TimerFires, Callers
  <2> QED BY <1>3, <2>1 DEF TimerFires, CardTyped
<1>4. CASE InitializeTurnCard
  <2>1. state' \in States
    BY <1>4, AnswerTyped DEF InitializeTurnCard
  <2>2. CardTyped'
    BY <1>4, <2>1, FlushTyped DEF InitializeTurnCard, Callers
  <2> QED BY <1>4, <2>1, <2>2 DEF InitializeTurnCard, CardTyped
<1>5. CASE Updated
  BY <1>5, ReturnedTyped DEF Updated
<1>6. CASE CreationFails
  <2>1. waiting' \in Seq(Callers)
    BY <1>6 DEF CreationFails
  <2> QED BY <1>6, <2>1 DEF CreationFails
<1>7. CASE CreationRepeated
  BY <1>7 DEF CreationRepeated
<1>8. CASE UpdateFails
  BY <1>8, ReturnedTyped DEF UpdateFails
<1>9. CASE Restart
  <2>1. turn' \in [out : 0 .. MaxDeltas, ended : {"no", "completed", "aborted"}, asked : BOOLEAN]
    BY <1>9 DEF Restart
  <2>2. queue' \in Seq(Outputs) /\ waiting' \in Seq(Callers) /\ net' \in Seq(Updates)
        /\ bucket' \in Answers
    BY <1>9 DEF Restart, Answers
  <2>3. calls' \in [Users -> Clicks]
    BY <1>9 DEF Restart, Clicks
  <2> QED BY <1>9, <2>1, <2>2, <2>3 DEF Restart
<1> QED BY <1>1, <1>2, <1>3, <1>4, <1>5, <1>6, <1>7, <1>8, <1>9 DEF Card, Timed, Trouble

LEMMA ClickTyped ==
  ASSUME Typed, NEW u \in Users, Click(u) \/ Finish(u)
  PROVE  Typed'
<1>1. Idle \in Clicks /\ [pc |-> "interrupting"] \in Clicks
      /\ \A c \in Decisions : [pc |-> "deciding", choice |-> c] \in Clicks
  BY DEF Clicks
<1>2. CASE PrepareInterruptingCard(u)
  <2>1. calls' \in [Users -> Clicks]
    BY <1>1, <1>2 DEF PrepareInterruptingCard, Typed
  <2>2. CASE state = None
    BY <1>2, <2>1, <2>2 DEF PrepareInterruptingCard, ClickStep, Typed
  <2>3. CASE state # None
    <3>1. state' \in States
      BY <1>2, <2>3 DEF PrepareInterruptingCard, Typed, States
    <3>2. net' \in Seq(Updates)
      BY <1>2, <2>3, <3>1, Rendered, Updating DEF PrepareInterruptingCard, Reply, Callers
    <3> QED BY <1>2, <2>1, <3>1, <3>2 DEF PrepareInterruptingCard, ClickStep, Typed
  <2> QED BY <2>2, <2>3
<1>3. ASSUME NEW c \in Decisions, Decide(u, c) PROVE Typed'
  <2>1. calls' \in [Users -> Clicks]
    BY <1>1, <1>3 DEF Decide, Typed
  <2>2. shown \in Cards
    BY <1>3 DEF Decide, Typed
  <2>3. [shown EXCEPT !.look = "progress"] \in Cards
    BY <2>2 DEF Cards, Looks
  <2>4. net' \in Seq(Updates)
    BY <1>3, <2>3, Updating DEF Decide, Reply, Callers
  <2> QED BY <1>3, <2>1, <2>4 DEF Decide, ClickStep, Typed
<1>4. CASE FinalizeInterruptAction(u)
  <2>1. calls' \in [Users -> Clicks]
    BY <1>1, <1>4 DEF FinalizeInterruptAction, Typed
  <2>2. turn' \in [out : 0 .. MaxDeltas, ended : {"no", "completed", "aborted"}, asked : BOOLEAN]
    BY <1>4 DEF FinalizeInterruptAction, Typed
  <2>3. CardTyped'
    BY <1>4, SameTyped, FlushTyped DEF FinalizeInterruptAction, Callers, Typed
  <2>4. dirty' \in BOOLEAN
    BY <1>4 DEF FinalizeInterruptAction, Typed
  <2>5. UNCHANGED <<queue, task, state, timer, bucket, shown, cards, warm, notified, env>>
    BY <1>4 DEF FinalizeInterruptAction
  <2> QED BY <2>1, <2>2, <2>3, <2>4, <2>5 DEF CardTyped, Typed
<1>5. CASE CancelInterruptingCard(u)
  <2>1. calls' \in [Users -> Clicks]
    BY <1>1, <1>5 DEF CancelInterruptingCard, Typed
  <2>2. CASE state # None /\ state.action = "interrupting"
    <3>1. state' \in States
      BY <1>5, <2>2 DEF CancelInterruptingCard, Typed, States
    <3>2. CardTyped'
      BY <1>5, <2>2, <3>1, FlushTyped DEF CancelInterruptingCard, Callers
    <3> QED BY <1>5, <2>1, <2>2, <3>1, <3>2 DEF CancelInterruptingCard, ClickStep, CardTyped, Typed
  <2>3. CASE ~ (state # None /\ state.action = "interrupting")
    <3>1. UNCHANGED <<state, dirty, cardVars>>
      BY <1>5, <2>3 DEF CancelInterruptingCard
    <3> QED BY <1>5, <2>1, <3>1 DEF CancelInterruptingCard, ClickStep, cardVars, Typed
  <2> QED BY <2>2, <2>3
<1>6. CASE UpdateCardAction(u)
  <2>1. calls' \in [Users -> Clicks]
    BY <1>1, <1>6 DEF UpdateCardAction, Typed
  <2>2. Recovered \in States
    BY AnswerTyped DEF Recovered, Typed, States
  <2>3. calls[u] \in Clicks
    BY DEF Typed
  <2>4. calls[u].choice \in Decisions
    BY <1>6, <2>3 DEF UpdateCardAction, Clicks, Idle
  <2>5. state' \in States
    BY <1>6, <2>2, <2>4 DEF UpdateCardAction, States
  <2>6. net' \in Seq(Updates)
    BY <1>6, <2>5, Rendered, Updating DEF UpdateCardAction, Reply, Callers
  <2> QED BY <1>6, <2>1, <2>5, <2>6 DEF UpdateCardAction, ClickStep, Typed
<1>7. CASE DecisionFails(u)
  <2>1. calls' \in [Users -> Clicks]
    BY <1>1, <1>7 DEF DecisionFails, Typed
  <2>2. [look |-> "failure", choice |-> "none", text |-> <<>>] \in Cards
    BY DEF Cards, Looks, Answers
  <2>3. net' \in Seq(Updates)
    BY <1>7, <2>2, Updating DEF DecisionFails, Reply, Callers
  <2> QED BY <1>7, <2>1, <2>3 DEF DecisionFails, ClickStep, Typed
<1> QED BY <1>2, <1>3, <1>4, <1>5, <1>6, <1>7 DEF Click, Finish

LEMMA TypedNext ==
  ASSUME Typed, Life, [Next]_vars
  PROVE  Typed'
<1>1. CASE UNCHANGED vars
  BY <1>1 DEF vars, Typed
<1>2. CASE Next
  BY <1>2, AgentTyped, DispatchTyped, CardStepTyped, ClickTyped DEF Next
<1> QED BY <1>1, <1>2
-----------------------------------------------------------------------------
(* The queue.                                                              *)

LEMMA SameAnswer ==
  ASSUME turn'.out = turn.out
  PROVE  Answer' = Answer
  BY DEF Answer

\* Appending to a queue that holds no end of the turn.
LEMMA QueueGrows ==
  ASSUME Typed, Queue, turn.ended = "no", NEW o \in Outputs, Send(<<o>>),
         o.kind \in {"turn_complete", "turn_summary"} => turn'.ended = "completed" /\ o.data = Answer',
         o.kind = "turn_aborted" => turn'.ended = "aborted"
  PROVE  Queue'
<1>1. Len(queue) \in Nat /\ DOMAIN queue = 1 .. Len(queue)
  BY LenProperties DEF Typed
<1>2. /\ DOMAIN queue' = 1 .. (Len(queue) + 1)
      /\ \A i \in DOMAIN queue : queue'[i] = queue[i]
      /\ queue'[Len(queue) + 1] = o
  BY DEF Send, Typed
<1>3. \A i \in DOMAIN queue : queue[i].kind \notin Ends
  BY DEF Queue, Ends
<1>4. \A i \in DOMAIN queue' : i \in DOMAIN queue \/ i = Len(queue) + 1
  BY <1>1, <1>2
<1>5. \A i, j \in DOMAIN queue' : i < j => i \in DOMAIN queue
  BY <1>1, <1>2
<1> QED BY <1>2, <1>3, <1>4, <1>5 DEF Queue, Ends

LEMMA QueueNext ==
  ASSUME Typed, Queue, [Next]_vars
  PROVE  Queue'
<1>1. ASSUME queue' = queue, turn'.out = turn.out, turn'.ended = turn.ended
      PROVE  Queue'
  BY <1>1, SameAnswer DEF Queue
<1>2. CASE UNCHANGED vars
  BY <1>1, <1>2 DEF vars
<1>3. CASE Streams
  <2>0. turn.ended = "no" /\ turn'.ended = turn.ended
    BY <1>3 DEF Streams, Typed
  <2>1. PICK o \in Outputs : Send(<<o>>) /\ o.kind \notin Ends
    <3>1. CASE /\ turn.out < MaxDeltas
               /\ turn' = [turn EXCEPT !.out = @ + 1]
               /\ Send(<<[kind |-> "content", data |-> <<turn.out + 1>>]>>)
      <4>1. turn.out + 1 \in 1 .. MaxDeltas
        BY <3>1, CardAssumption DEF Typed
      <4>2. [kind |-> "content", data |-> <<turn.out + 1>>] \in Outputs
        BY <4>1 DEF Outputs, Answers
      <4> QED BY <3>1, <4>2 DEF Ends
    <3>2. CASE \E k \in {"progress", "agent_message"} : Send(<<[kind |-> k, data |-> Answer]>>)
      <4>1. \A k \in {"progress", "agent_message"} : [kind |-> k, data |-> Answer] \in Outputs
        BY AnswerTyped DEF Outputs
      <4> QED BY <3>2, <4>1 DEF Ends
    <3> QED BY <1>3, <3>1, <3>2 DEF Streams
  <2> QED BY <2>0, <2>1, QueueGrows DEF Ends
<1>4. CASE Completes
  <2>0. /\ turn.ended = "no" /\ turn'.ended = "completed" /\ Answer' = Answer
        /\ Answer \in Answers
    BY <1>4, SameAnswer, AnswerTyped DEF Completes, Typed
  <2> DEFINE a == [kind |-> "turn_complete", data |-> Answer]
             b == [kind |-> "turn_summary", data |-> Answer]
  <2>1. a \in Outputs /\ b \in Outputs
    BY <2>0 DEF Outputs
  <2>2. CASE queue' = queue \o <<a>>
    BY <2>0, <2>1, <2>2, QueueGrows DEF Send
  <2>3. CASE queue' = queue \o <<a, b>>
    <3>1. Len(queue) \in Nat /\ DOMAIN queue = 1 .. Len(queue)
      BY LenProperties DEF Typed
    <3>2. /\ DOMAIN queue' = 1 .. (Len(queue) + 2)
          /\ \A i \in DOMAIN queue : queue'[i] = queue[i]
          /\ queue'[Len(queue) + 1] = a /\ queue'[Len(queue) + 2] = b
      BY <2>1, <2>3 DEF Typed
    <3>3. \A i \in DOMAIN queue : queue[i].kind \notin Ends
      BY <2>0 DEF Queue, Ends
    <3>4. \A i \in DOMAIN queue' : i \in DOMAIN queue \/ i = Len(queue) + 1 \/ i = Len(queue) + 2
      BY <3>1, <3>2
    <3>5. \A i, j \in DOMAIN queue' : i < j => i \in DOMAIN queue \/ j = Len(queue) + 2
      BY <3>1, <3>2
    <3> QED BY <2>0, <3>2, <3>3, <3>4, <3>5 DEF Queue, Ends
  <2>4. queue' = queue \o <<a>> \/ queue' = queue \o <<a, b>>
    <3> HIDE DEF a, b
    <3>1. queue' = queue \o IF turn.asked THEN <<a>> ELSE <<a, b>>
      BY <1>4 DEF Completes, Send, a, b
    <3> QED BY <3>1
  <2> QED BY <2>2, <2>3, <2>4
<1>5. CASE Aborts
  <2>1. [kind |-> "turn_aborted", data |-> <<>>] \in Outputs
    BY DEF Outputs, Answers
  <2>2. turn.ended = "no" /\ turn'.ended = "aborted"
    BY <1>5 DEF Aborts, Typed
  <2> QED BY <1>5, <2>1, <2>2, QueueGrows DEF Aborts
<1>6. CASE Dispatch
  <2>1. PICK kind : Take(kind)
    BY <1>6 DEF Dispatch, HandleTurnStarted, AppendContent, UpdateProgress, HandleAgentMessage,
                HandleTurnComplete, HandleTurnAborted, CompleteTurn
  <2>2. /\ turn' = turn /\ DOMAIN queue' = 1 .. (Len(queue) - 1) /\ Len(queue) \in Nat
        /\ \A i \in DOMAIN queue' : i + 1 \in DOMAIN queue /\ queue'[i] = queue[i + 1]
    BY <2>1, Taken, LenProperties DEF Typed
  <2>3. Answer' = Answer
    BY <2>2, SameAnswer
  <2>4. \A i, j \in DOMAIN queue' : i < j => i + 1 < j + 1
    BY <2>2
  <2> QED BY <2>2, <2>3, <2>4 DEF Queue
<1>7. CASE Card
  BY <1>1, <1>7 DEF Card, Timed, CardCreated, Aggregated, Updated, TimerFires, InitializeTurnCard,
                    Returned
<1>8. CASE Trouble
  <2>1. CASE Restart
    BY <2>1 DEF Restart, Queue
  <2> QED BY <1>1, <1>8, <2>1 DEF Trouble, CreationFails, CreationRepeated, UpdateFails, Returned
<1>9. ASSUME NEW u \in Users, Click(u) \/ Finish(u) PROVE Queue'
  <2>1. CASE FinalizeInterruptAction(u)
    <3>1. queue' = queue /\ turn'.out = turn.out /\ turn'.ended = turn.ended
      BY <2>1 DEF FinalizeInterruptAction, Typed
    <3> QED BY <1>1, <3>1
  <2> QED BY <1>1, <1>9, <2>1 DEF Click, Finish, ClickStep, PrepareInterruptingCard, Decide,
             CancelInterruptingCard, UpdateCardAction, DecisionFails
<1> QED BY <1>2, <1>3, <1>4, <1>5, <1>6, <1>7, <1>8, <1>9 DEF Next, Agent
-----------------------------------------------------------------------------
(* The life of a card.                                                     *)

\* A call that may ask for the card or for an update keeps its life.
LEMMA AskedLife ==
  ASSUME Typed, Life, token \/ shown = None, NEW s \in States, NEW by \in Callers,
         FlushCardUpdate(by, s) \/ UNCHANGED cardVars,
         state' = s, UNCHANGED <<shown, cards, env>>, shown = None => calls' = calls,
         timer' => timer \/ token, dirty' => dirty \/ token
  PROVE  Life'
<1>1. state' # None /\ RenderCard(s) \notin {None, Failed}
  BY Nulls, Rendered
<1>2. token' = token
  BY DEF FlushCardUpdate, Update, EnsureCard, Unreachable, cardVars
<1>3. CASE token
  <2>1. creating' = None /\ waiting' = <<>>
    BY <1>3, Nulls DEF FlushCardUpdate, Update, EnsureCard, Unreachable, Life, cardVars
  <2> QED BY <1>1, <1>2, <1>3, <2>1 DEF Life, Pending, Without
<1>4. CASE ~ token
  <2>1. net' = net /\ ~ timer' /\ ~ dirty' /\ shown = None
    BY <1>4 DEF FlushCardUpdate, Update, EnsureCard, Unreachable, Life, cardVars
  <2>2. creating' \in {None, Failed} => waiting' = <<>>
    BY <1>1, <1>4 DEF FlushCardUpdate, Update, EnsureCard, Unreachable, Life, cardVars
  <2> QED BY <1>1, <1>2, <1>4, <2>1, <2>2 DEF Life, Pending, Without, Deciding, Interrupting
<1> QED BY <1>3, <1>4

LEMMA ScheduleAsks ==
  ASSUME NEW by, NEW s, ScheduleCardUpdate(by, s)
  PROVE  /\ FlushCardUpdate(by, s) \/ UNCHANGED cardVars
         /\ timer' => timer \/ token
         /\ dirty' => dirty \/ token
  BY DEF ScheduleCardUpdate, FlushCardUpdate, EnsureCard, Unreachable, cardVars

\* What a turn does whose card was cut off from it.
LEMMA CutNext ==
  ASSUME Typed, Life, shown # None, ~ token, Next
  PROVE  Life'
<1> USE DEF Typed
<1>1. Cut
  BY DEF Life
<1>2. ~ Agent /\ ~ Dispatch /\ ~ CardCreated /\ ~ Aggregated /\ ~ Timed /\ ~ CreationFails
      /\ ~ CreationRepeated
  BY <1>1 DEF Cut, Agent, Streams, Completes, Aborts, Dispatch, HandleTurnStarted, AppendContent,
       UpdateProgress, HandleAgentMessage, HandleTurnComplete, HandleTurnAborted, CompleteTurn,
       Take, CardCreated, Aggregated, Timed, TimerFires, InitializeTurnCard, CreationFails,
       CreationRepeated
<1>3. ASSUME UNCHANGED <<turn, queue, task, bucket, timer, dirty, token, warm, creating, waiting,
                         cards, env>>, shown' # None,
             \/ /\ state' = None /\ net' = <<>> /\ ~ Deciding'
                /\ Interrupting' => shown' # None /\ shown'.look = "running"
             \/ /\ shown'.look \in {"done", "progress", "failure"}
                /\ \A i \in DOMAIN net' : net'[i].card.look \in {"done", "progress", "failure"}
                /\ ~ Interrupting'
                /\ state' # None => state'.status \in Decisions
      PROVE  Life'
  BY <1>1, <1>3 DEF Life, Cut, Pending, Without
<1>4. ASSUME NEW i \in DOMAIN net, NEW ok \in BOOLEAN, Returned(i, ok), shown' \in {shown, net[i].card}
      PROVE  Life'
  <2>1. /\ shown.look \in {"done", "progress", "failure"}
        /\ \A j \in DOMAIN net : net[j].card.look \in {"done", "progress", "failure"}
        /\ ~ Interrupting
        /\ state # None => state.status \in Decisions
    BY <1>1, <1>4, EmptySeq, LenProperties DEF Cut
  <2>2. /\ net' \in Seq(Updates) /\ Len(net') = Len(net) - 1
        /\ \A j \in 1 .. (Len(net) - 1) : net'[j] = net[IF j < i THEN j ELSE j + 1]
    BY <1>4, Removed DEF Returned
  <2>3. \A j \in DOMAIN net' : \E k \in DOMAIN net : net'[j] = net[k]
    <3>1. Len(net) \in Nat /\ DOMAIN net = 1 .. Len(net) /\ DOMAIN net' = 1 .. (Len(net) - 1)
      BY <2>2, LenProperties
    <3>2. \A j \in DOMAIN net' : (IF j < i THEN j ELSE j + 1) \in DOMAIN net
      BY <3>1
    <3> QED BY <2>2, <3>1, <3>2
  <2>4. net[i].card \in Cards
    BY Flying
  <2>5. shown' # None /\ shown'.look \in {"done", "progress", "failure"}
    BY <1>4, <2>1, <2>4, Nulls
  <2>6. UNCHANGED <<turn, queue, bucket, timer, dirty, token, warm, creating, waiting, cards, env,
                    state, calls>> /\ task' = task
    BY <1>1, <1>4 DEF Returned, Cut
  <2>7. \A j \in DOMAIN net' : net'[j].card.look \in {"done", "progress", "failure"}
    BY <2>1, <2>3
  <2> QED BY <1>3, <2>1, <2>5, <2>6, <2>7 DEF Interrupting
<1>5. CASE Updated \/ UpdateFails
  BY <1>4, <1>5 DEF Updated, UpdateFails
<1>6. CASE Restart
  <2>1. ~ Deciding' /\ ~ Interrupting'
    BY <1>6 DEF Restart, Deciding, Interrupting, Idle
  <2>2. turn'.ended # "no"
    BY <1>6 DEF Restart
  <2> QED BY <1>1, <1>6, <2>1, <2>2 DEF Restart, Life, Cut, Pending, Without
<1>7. ASSUME NEW u \in Users, Click(u) \/ Finish(u) PROVE Life'
  <2>1. \A v \in Users : v # u => calls'[v] = calls[v]
    BY <1>7 DEF Click, Finish, PrepareInterruptingCard, Decide, FinalizeInterruptAction,
         CancelInterruptingCard, UpdateCardAction, DecisionFails
  <2>2. CASE PrepareInterruptingCard(u)
    <3>1. state = None /\ net = <<>> /\ ~ Deciding /\ shown.look = "running"
      BY <1>1, <2>2 DEF Cut, PrepareInterruptingCard
    <3>2. calls'[u].pc = "interrupting"
      BY <2>2 DEF PrepareInterruptingCard
    <3>3. ~ Deciding'
      BY <2>1, <3>1, <3>2 DEF Deciding
    <3> QED BY <1>1, <1>3, <2>2, <3>1, <3>3 DEF PrepareInterruptingCard, ClickStep, Cut
  <2>3. ASSUME NEW c \in Decisions, Decide(u, c) PROVE Life'
    <3>1. calls'[u].pc = "deciding" /\ calls[u].pc = "idle" /\ shown.look = "done"
      BY <2>3 DEF Decide, Idle
    <3>2. ~ Interrupting' /\ (state # None => state.status \in Decisions)
      BY <1>1, <2>1, <3>1 DEF Cut, Interrupting
    <3>3. \A i \in DOMAIN net' : net'[i].card.look \in {"done", "progress", "failure"}
      <4>1. \A i \in DOMAIN net : net[i].card.look \in {"done", "progress", "failure"}
        BY <1>1 DEF Cut
      <4>2. /\ DOMAIN net' = 1 .. (Len(net) + 1) /\ DOMAIN net = 1 .. Len(net)
            /\ \A i \in DOMAIN net : net'[i] = net[i]
            /\ net'[Len(net) + 1].card = [shown EXCEPT !.look = "progress"]
        BY <2>3, LenProperties DEF Decide, Reply
      <4>3. net'[Len(net) + 1].card.look = "progress"
        BY <4>2 DEF Cards
      <4>4. \A i \in DOMAIN net' : i \in DOMAIN net \/ i = Len(net) + 1
        BY <4>2, LenProperties
      <4> QED BY <4>1, <4>2, <4>3, <4>4
    <3> QED BY <1>3, <2>3, <3>1, <3>2, <3>3 DEF Decide, ClickStep
  <2>4. CASE FinalizeInterruptAction(u) \/ CancelInterruptingCard(u)
    <3>1. calls'[u] = Idle /\ Interrupting
      BY <2>4 DEF FinalizeInterruptAction, CancelInterruptingCard, Interrupting
    <3>2. state = None /\ net = <<>> /\ ~ Deciding /\ shown.look = "running"
      BY <1>1, <3>1 DEF Cut
    <3>3. ~ Deciding'
      BY <2>1, <3>1, <3>2 DEF Deciding, Idle
    <3>4. turn.ended # "no" => turn'.ended # "no"
      BY <2>4 DEF FinalizeInterruptAction, CancelInterruptingCard, ClickStep
    <3>5. UNCHANGED <<queue, task, bucket, timer, dirty, token, warm, creating, waiting, cards, env,
                      state, net, shown>>
      BY <2>4, <3>2 DEF FinalizeInterruptAction, CancelInterruptingCard, ClickStep, cardVars
    <3> QED BY <1>1, <3>2, <3>3, <3>4, <3>5 DEF Cut, Life, Pending, Without
  <2>5. CASE UpdateCardAction(u) \/ DecisionFails(u)
    <3>1. calls'[u] = Idle /\ Deciding /\ calls[u].pc = "deciding"
      BY <2>5 DEF UpdateCardAction, DecisionFails, Deciding
    <3>2. /\ shown.look \in {"done", "progress", "failure"}
          /\ \A i \in DOMAIN net : net[i].card.look \in {"done", "progress", "failure"}
          /\ ~ Interrupting /\ (state # None => state.status \in Decisions)
      BY <1>1, <3>1 DEF Cut
    <3>3. ~ Interrupting'
      BY <2>1, <3>1, <3>2 DEF Interrupting, Idle
    <3>4. PICK c : Reply(c) /\ c.look \in {"done", "progress", "failure"}
                   /\ (state' # None => state'.status \in Decisions)
      <4>1. CASE DecisionFails(u)
        BY <3>2, <4>1 DEF DecisionFails
      <4>2. CASE UpdateCardAction(u)
        <5>1. calls[u].choice \in Decisions
          BY <3>1 DEF Clicks, Idle
        <5>2. Recovered \in States
          BY AnswerTyped DEF Recovered, States
        <5>3. state'.status \in Decisions
          BY <4>2, <5>1, <5>2 DEF UpdateCardAction, States
        <5>4. RenderCard(state').look = "done"
          BY <5>3 DEF RenderCard
        <5> QED BY <4>2, <5>3, <5>4 DEF UpdateCardAction
      <4> QED BY <2>5, <4>1, <4>2
    <3>5. \A i \in DOMAIN net' : net'[i].card.look \in {"done", "progress", "failure"}
      <4>1. /\ DOMAIN net' = 1 .. (Len(net) + 1) /\ DOMAIN net = 1 .. Len(net) /\ Len(net) \in Nat
            /\ \A i \in DOMAIN net : net'[i] = net[i]
            /\ net'[Len(net) + 1].card = c
        BY <3>4, LenProperties DEF Reply
      <4>2. \A i \in DOMAIN net' : i \in DOMAIN net \/ i = Len(net) + 1
        BY <4>1
      <4> QED BY <3>2, <3>4, <4>1, <4>2
    <3> QED BY <1>3, <2>5, <3>2, <3>3, <3>4, <3>5 DEF UpdateCardAction, DecisionFails, ClickStep
  <2> QED BY <1>7, <2>2, <2>3, <2>4, <2>5 DEF Click, Finish
<1> QED BY <1>2, <1>5, <1>6, <1>7 DEF Next, Card, Trouble

\* What handling an output of the turn does to its card.
LEMMA DispatchAsks ==
  ASSUME Typed, Dispatch
  PROVE  /\ UNCHANGED <<turn, shown, cards, calls, warm, notified, env>>
         /\ timer' => timer \/ token
         /\ dirty' => dirty \/ token
         /\ \/ UNCHANGED <<state, cardVars, timer, dirty>>
            \/ /\ state' \in States
               /\ UNCHANGED cardVars \/ \E by \in Callers : FlushCardUpdate(by, state')
<1>1. AppendContent \/ state' \in States
  BY DispatchTyped
<1>2. UNCHANGED <<turn, shown, cards, calls, warm, notified, env>>
  BY DEF Dispatch, HandleTurnStarted, AppendContent, UpdateProgress, HandleAgentMessage,
         HandleTurnComplete, HandleTurnAborted, CompleteTurn, Take
<1>3. CASE AppendContent
  BY <1>2, <1>3 DEF AppendContent
<1>4. CASE HandleTurnStarted
  BY <1>1, <1>2, <1>4 DEF HandleTurnStarted, AppendContent, FlushCardUpdate, Callers
<1>5. CASE UpdateProgress
  <2>1. UNCHANGED <<cardVars, dirty, timer>> \/ ScheduleCardUpdate("progress", state')
    BY <1>5 DEF UpdateProgress
  <2>2. "progress" \in Callers
    BY DEF Callers
  <2> QED BY <1>1, <1>2, <2>1, <2>2, ScheduleAsks DEF AppendContent
<1>6. CASE HandleAgentMessage \/ HandleTurnComplete \/ HandleTurnAborted \/ CompleteTurn
  <2>1. UNCHANGED cardVars \/ FlushCardUpdate("chain", state')
    BY <1>6 DEF HandleAgentMessage, HandleTurnComplete, HandleTurnAborted, CompleteTurn
  <2>2. "chain" \in Callers /\ (timer' => timer) /\ (dirty' => dirty)
    BY <1>6 DEF HandleAgentMessage, HandleTurnComplete, HandleTurnAborted, CompleteTurn, Callers
  <2> QED BY <1>1, <1>2, <2>1, <2>2 DEF AppendContent
<1> QED BY <1>3, <1>4, <1>5, <1>6 DEF Dispatch

LEMMA FrameLife ==
  ASSUME Life, token \/ shown = None, UNCHANGED <<state, cardVars, shown, cards, env>>,
         shown = None => calls' = calls, timer' => timer \/ token, dirty' => dirty \/ token
  PROVE  Life'
  BY DEF Life, Pending, Without, Deciding, Interrupting, cardVars

LEMMA LifeNext ==
  ASSUME Typed, Life, [Next]_vars
  PROVE  Life'
<1> USE DEF Typed
<1>1. CASE UNCHANGED vars
  BY <1>1 DEF vars, Life, Pending, Deciding, Interrupting, Without, Cut
<1>2. CASE Next /\ shown # None /\ ~ token
  BY <1>2, CutNext
<1> SUFFICES ASSUME Next, token \/ shown = None PROVE Life'
  BY <1>1, <1>2
<1>3. CASE Agent
  BY <1>3, FrameLife DEF Agent, Streams, Completes, Aborts, AgentStep, cardVars
<1>4. CASE Dispatch
  BY <1>4, DispatchAsks, FrameLife, AskedLife DEF Callers
<1>5. CASE CardCreated
  <2>1. Pending /\ state # None /\ shown = None /\ ~ token
    BY <1>5 DEF CardCreated, Life, Pending
  <2>2. creating \in Cards
    BY <1>5 DEF CardCreated
  <2>3. cards \in Nat /\ cards' = cards + 1 /\ cards <= 1 /\ (Without({"lost"}) => cards = 0)
    BY <1>5, <2>1 DEF CardCreated, Life
  <2>4. cards' <= 2 /\ (Without({"lost"})' => cards' = 1)
    BY <1>5, <2>3 DEF CardCreated, Without
  <2> QED BY <1>5, <2>1, <2>2, <2>4, Nulls DEF CardCreated, Life, Pending
<1>6. CASE Aggregated
  <2>1. state' = [GetOrCreateState EXCEPT !.message = @ \o bucket] /\ "delta" \in Callers
    BY <1>6 DEF Aggregated, Callers
  <2>2. GetOrCreateState \in States /\ GetOrCreateState.message \o bucket \in Answers
    BY AnswerTyped, ConcatProperties DEF States, Answers
  <2>3. state' \in States
    BY <2>1, <2>2 DEF States
  <2>4. ScheduleCardUpdate("delta", state') /\ UNCHANGED <<shown, cards, calls, env>>
    BY <1>6 DEF Aggregated
  <2> QED BY <2>1, <2>3, <2>4, ScheduleAsks, AskedLife
<1>7. CASE TimerFires
  <2>1. CASE dirty /\ state # None /\ FlushCardUpdate("timer", state)
    <3>1. state \in States /\ state' = state /\ "timer" \in Callers
      BY <1>7, <2>1 DEF TimerFires, Callers
    <3>2. UNCHANGED <<shown, cards, calls, env>> /\ ~ timer' /\ ~ dirty'
      BY <1>7 DEF TimerFires
    <3> QED BY <2>1, <3>1, <3>2, AskedLife
  <2>2. CASE UNCHANGED cardVars
    BY <1>7, <2>2, FrameLife DEF TimerFires
  <2> QED BY <1>7, <2>1, <2>2 DEF TimerFires
<1>8. CASE InitializeTurnCard
  <2>1. state' \in States /\ "init" \in Callers
    BY <1>8, AnswerTyped DEF InitializeTurnCard, Callers
  <2>2. FlushCardUpdate("init", state') /\ UNCHANGED <<shown, cards, calls, env, timer>>
        /\ (dirty' => dirty)
    BY <1>8 DEF InitializeTurnCard
  <2> QED BY <2>1, <2>2, AskedLife
<1>9. CASE Updated \/ UpdateFails
  <2>1. PICK i \in DOMAIN net, ok \in BOOLEAN : Returned(i, ok) /\ shown' \in {shown, net[i].card}
    BY <1>9 DEF Updated, UpdateFails
  <2>2. shown # None /\ token
    BY <2>1 DEF Life
  <2>3. net[i].card \in Cards
    BY Flying
  <2>4. shown' # None
    BY <2>1, <2>2, <2>3, Nulls
  <2> QED BY <2>1, <2>2, <2>4 DEF Returned, Life, Pending, Without
<1>10. CASE CreationFails
  BY <1>10, Nulls DEF CreationFails, Life, Pending, Without, Deciding, Interrupting
<1>11. CASE CreationRepeated
  BY <1>11, Nulls DEF CreationRepeated, Life, Pending, Without, Deciding, Interrupting
<1>12. CASE Restart
  <2>1. ~ Deciding' /\ ~ Interrupting'
    BY <1>12 DEF Restart, Deciding, Interrupting, Idle
  <2>2. turn'.ended # "no"
    BY <1>12 DEF Restart
  <2> QED BY <1>12, <2>1, <2>2 DEF Restart, Life, Cut, Pending, Without
<1>13. ASSUME NEW u \in Users, Click(u) \/ Finish(u) PROVE Life'
  <2>1. shown # None
    BY <1>13 DEF Click, Finish, PrepareInterruptingCard, Decide, FinalizeInterruptAction,
         CancelInterruptingCard, UpdateCardAction, DecisionFails, Life, Deciding, Interrupting
  <2>2. token /\ state # None /\ creating = None /\ waiting = <<>>
    BY <2>1 DEF Life
  <2>3. state' # None
    <3>1. "status" \in DOMAIN state /\ "status" \notin DOMAIN None
      BY <2>2 DEF States, None
    <3>2. DOMAIN state' = DOMAIN state
      BY <1>13, <2>2 DEF Click, Finish, PrepareInterruptingCard, Decide, FinalizeInterruptAction,
       CancelInterruptingCard, UpdateCardAction, DecisionFails, ClickStep, Recovered
    <3> QED BY <3>1, <3>2
  <2>4. UNCHANGED <<token, creating, waiting, shown, cards, env>>
    BY <1>13, <2>2, Nulls DEF Click, Finish, PrepareInterruptingCard, Decide, FinalizeInterruptAction,
         CancelInterruptingCard, UpdateCardAction, DecisionFails, ClickStep, cardVars,
         FlushCardUpdate, Update, EnsureCard, Unreachable
  <2> QED BY <2>1, <2>2, <2>3, <2>4 DEF Life, Pending, Without
<1> QED BY <1>3, <1>4, <1>5, <1>6, <1>7, <1>8, <1>9, <1>10, <1>11, <1>12, <1>13
       DEF Next, Card, Timed, Trouble
-----------------------------------------------------------------------------
(* How the cards change.                                                   *)

\* An update is started that brings the card c.
Posts(c) == \E by \in Callers : net' = Append(net, [card |-> c, by |-> by])

\* A call asks for the card, or posts an update of it.
Asked ==
  /\ shown' = shown
  /\ creating' \in {creating, None, Failed} \/ (state' \in States /\ creating' = RenderCard(state'))
  /\ \/ net' = net \/ net' = <<>>
     \/ \E c \in Cards : /\ Posts(c) /\ shown # None
                         /\ \/ state' \in States /\ c = RenderCard(state')
                            \/ c.look = "progress" /\ shown.look = "done"
                            \/ c.look = "failure" /\ Deciding

\* An update returns.
Returns == \E i \in DOMAIN net : \E ok \in BOOLEAN :
  /\ Returned(i, ok)
  /\ \/ shown' = shown /\ "fail" \in env
     \/ shown' = net[i].card /\ (i > 1 => "reorder" \in env)

LEMMA Posted ==
  ASSUME Typed, NEW c \in Cards, Posts(c)
  PROVE  /\ Len(net) \in Nat /\ DOMAIN net = 1 .. Len(net)
         /\ DOMAIN net' = 1 .. (Len(net) + 1) /\ Len(net') = Len(net) + 1 /\ net' # <<>>
         /\ \A i \in DOMAIN net : net'[i] = net[i]
         /\ net'[Len(net) + 1].card = c
         /\ \A i \in DOMAIN net' : i \in DOMAIN net \/ i = Len(net) + 1
<1>1. PICK by \in Callers : net' = Append(net, [card |-> c, by |-> by])
  BY DEF Posts
<1>2. [card |-> c, by |-> by] \in Updates
  BY DEF Updates
<1>3. net \in Seq(Updates) /\ Len(net) \in Nat /\ DOMAIN net = 1 .. Len(net)
  BY LenProperties DEF Typed
<1>4. /\ net' \in Seq(Updates) /\ Len(net') = Len(net) + 1
      /\ \A i \in 1 .. Len(net) : net'[i] = net[i]
      /\ net'[Len(net) + 1] = [card |-> c, by |-> by]
  BY <1>1, <1>2, <1>3, AppendProperties
<1>5. DOMAIN net' = 1 .. (Len(net) + 1) /\ net' # <<>>
  BY <1>3, <1>4, LenProperties, EmptySeq
<1>6. \A i \in 1 .. (Len(net) + 1) : i \in 1 .. Len(net) \/ i = Len(net) + 1
  BY <1>3
<1> QED BY <1>3, <1>4, <1>5, <1>6

LEMMA Asking ==
  ASSUME NEW s \in States, NEW by \in Callers, FlushCardUpdate(by, s) \/ UNCHANGED cardVars
  PROVE  /\ token' = token
         /\ creating' \in {creating, RenderCard(s)}
         /\ net' = net \/ (token /\ Posts(RenderCard(s)))
  BY DEF FlushCardUpdate, Update, EnsureCard, Unreachable, cardVars, Posts

LEMMA StateAsks ==
  ASSUME Life, state' \in States, NEW by \in Callers, FlushCardUpdate(by, state') \/ UNCHANGED cardVars,
         shown' = shown
  PROVE  Asked
<1>1. RenderCard(state') \in Cards
  BY Rendered
<1>2. /\ token' = token
      /\ creating' \in {creating, RenderCard(state')}
      /\ net' = net \/ (token /\ Posts(RenderCard(state')))
  BY Asking
<1>3. token => shown # None
  BY DEF Life
<1> QED BY <1>1, <1>2, <1>3 DEF Asked

\* The updates that the creation of the card starts.
LEMMA CreatedCards ==
  ASSUME Typed, Life, CardCreated
  PROVE  /\ state \in States /\ net = <<>> /\ shown = None /\ Pending /\ creating \in Cards
         /\ \A i \in DOMAIN net' : net'[i].card = RenderCard(state)
         /\ Cardinality(Flushing) \in Nat /\ IsFiniteSet(Flushing)
         /\ net' \in Seq(Updates) /\ Len(net') = Cardinality(Flushing)
<1> DEFINE more == [k \in 1 .. Cardinality(Flushing) |->
                      [card |-> RenderCard(state), by |-> waiting[NthFlushing(k)]]]
<1>1. state \in States /\ net = <<>> /\ shown = None /\ Pending /\ creating \in Cards
  BY DEF CardCreated, Life, Pending, Typed
<1>2. Cardinality(Flushing) \in Nat /\ IsFiniteSet(Flushing)
  <2>1. Len(waiting) \in Nat /\ Flushing \subseteq 1 .. Len(waiting)
    BY LenProperties DEF Flushing, Typed
  <2>2. IsFiniteSet(1 .. Len(waiting))
    BY <2>1, FS_Interval
  <2>3. IsFiniteSet(Flushing)
    BY <2>1, <2>2, FS_Subset
  <2> QED BY <2>3, FS_CardinalityType
<1>3. net' = more
  <2>1. net' = net \o more
    BY DEF CardCreated
  <2>2. more \in Seq({more[k] : k \in 1 .. Cardinality(Flushing)})
    BY <1>2, SeqDef
  <2> HIDE DEF more
  <2> QED BY <1>1, <2>1, <2>2, ConcatEmptySeq
<1>4. net' \in Seq(Updates)
  BY CreatedTyped, <1>1, Nulls DEF Typed
<1>5. DOMAIN net' = 1 .. Cardinality(Flushing)
  BY <1>3
<1>6. Len(net') = Cardinality(Flushing)
  BY <1>2, <1>4, <1>5, LenProperties
<1>7. \A i \in DOMAIN net' : net'[i].card = RenderCard(state)
  BY <1>3
<1> QED BY <1>1, <1>2, <1>4, <1>6, <1>7

\* What the return of an update leaves under way, in its order.
LEMMA ReturnedCards ==
  ASSUME Typed, NEW i \in DOMAIN net, NEW ok \in BOOLEAN, Returned(i, ok)
  PROVE  /\ Len(net) \in Nat /\ DOMAIN net = 1 .. Len(net)
         /\ DOMAIN net' = 1 .. (Len(net) - 1) /\ Len(net') = Len(net) - 1
         /\ \A j \in DOMAIN net' : /\ (IF j < i THEN j ELSE j + 1) \in DOMAIN net
                                   /\ net'[j] = net[IF j < i THEN j ELSE j + 1]
<1>1. /\ net' \in Seq(Updates) /\ Len(net') = Len(net) - 1
      /\ \A j \in 1 .. (Len(net) - 1) : net'[j] = net[IF j < i THEN j ELSE j + 1]
  BY Removed DEF Returned, Typed
<1>2. Len(net) \in Nat /\ DOMAIN net = 1 .. Len(net) /\ DOMAIN net' = 1 .. (Len(net) - 1)
  BY <1>1, LenProperties DEF Typed
<1>3. \A j \in 1 .. (Len(net) - 1) : (IF j < i THEN j ELSE j + 1) \in 1 .. Len(net)
  BY <1>2
<1> QED BY <1>1, <1>2, <1>3

LEMMA Moves ==
  ASSUME Typed, Life, Next
  PROVE  Asked \/ CardCreated \/ Returns
<1> USE DEF Typed
<1>1. CASE Agent
  BY <1>1 DEF Agent, Streams, Completes, Aborts, AgentStep, Asked
<1>2. CASE Dispatch
  <2>1. CASE UNCHANGED <<state, cardVars, timer, dirty>>
    BY <1>2, <2>1, DispatchAsks DEF Asked, cardVars
  <2>2. CASE state' \in States /\ (UNCHANGED cardVars \/ \E by \in Callers : FlushCardUpdate(by, state'))
    BY <1>2, <2>2, DispatchAsks, StateAsks DEF Callers
  <2> QED BY <1>2, <2>1, <2>2, DispatchAsks
<1>3. CASE Aggregated
  <2>1. state' = [GetOrCreateState EXCEPT !.message = @ \o bucket] /\ "delta" \in Callers
    BY <1>3 DEF Aggregated, Callers
  <2>2. GetOrCreateState \in States /\ GetOrCreateState.message \o bucket \in Answers
    BY AnswerTyped, ConcatProperties DEF States, Answers
  <2>3. state' \in States
    BY <2>1, <2>2 DEF States
  <2>4. ScheduleCardUpdate("delta", state') /\ shown' = shown
    BY <1>3 DEF Aggregated
  <2> QED BY <2>1, <2>3, <2>4, ScheduleAsks, StateAsks
<1>4. CASE TimerFires
  <2>1. CASE dirty /\ state # None /\ FlushCardUpdate("timer", state)
    <3>1. state' \in States /\ state' = state /\ "timer" \in Callers /\ shown' = shown
      BY <1>4, <2>1 DEF TimerFires, Callers
    <3>2. FlushCardUpdate("timer", state')
      BY <2>1, <3>1
    <3> QED BY <3>1, <3>2, StateAsks
  <2>2. CASE UNCHANGED cardVars
    BY <1>4, <2>2 DEF TimerFires, Asked, cardVars
  <2> QED BY <1>4, <2>1, <2>2 DEF TimerFires
<1>5. CASE InitializeTurnCard
  <2>1. state' \in States /\ "init" \in Callers
    BY <1>5, AnswerTyped DEF InitializeTurnCard, Callers
  <2>2. FlushCardUpdate("init", state') /\ shown' = shown
    BY <1>5 DEF InitializeTurnCard
  <2> QED BY <2>1, <2>2, StateAsks
<1>6. CASE Updated \/ UpdateFails
  BY <1>6 DEF Updated, UpdateFails, Returns
<1>7. CASE CreationFails \/ CreationRepeated \/ Restart
  BY <1>7 DEF CreationFails, CreationRepeated, Restart, Asked
<1>8. ASSUME NEW u \in Users, Click(u) \/ Finish(u) PROVE Asked
  <2>1. shown # None /\ "user" \in Callers
    BY <1>8 DEF Click, Finish, PrepareInterruptingCard, Decide, FinalizeInterruptAction, Callers,
         CancelInterruptingCard, UpdateCardAction, DecisionFails, Life, Deciding, Interrupting
  <2>2. state' \in States \cup {None}
    BY <1>8, ClickTyped
  <2>3. CASE PrepareInterruptingCard(u)
    <3>1. CASE state = None
      BY <2>3, <3>1 DEF PrepareInterruptingCard, ClickStep, Asked
    <3>2. CASE state # None
      <4>1. state' \in States
        BY <2>3, <3>2 DEF PrepareInterruptingCard, States
      <4>2. RenderCard(state') \in Cards
        BY <4>1, Rendered
      <4>3. Posts(RenderCard(state'))
        BY <2>1, <2>3, <3>2 DEF PrepareInterruptingCard, Reply, Posts
      <4>4. shown' = shown /\ creating' = creating
        BY <2>3 DEF PrepareInterruptingCard, ClickStep
      <4> QED BY <2>1, <4>1, <4>2, <4>3, <4>4 DEF Asked
    <3> QED BY <3>1, <3>2
  <2>4. ASSUME NEW c \in Decisions, Decide(u, c) PROVE Asked
    <3>1. shown \in Cards /\ shown.look = "done"
      BY <2>1, <2>4 DEF Decide
    <3>2. [shown EXCEPT !.look = "progress"] \in Cards
      BY <3>1 DEF Cards, Looks
    <3>3. [shown EXCEPT !.look = "progress"].look = "progress"
      BY <3>1 DEF Cards
    <3>4. Posts([shown EXCEPT !.look = "progress"])
      BY <2>1, <2>4 DEF Decide, Reply, Posts
    <3>5. shown' = shown /\ creating' = creating
      BY <2>4 DEF Decide, ClickStep
    <3> QED BY <2>1, <3>1, <3>2, <3>3, <3>4, <3>5 DEF Asked
  <2>5. CASE FinalizeInterruptAction(u)
    <3>1. state' = state /\ shown' = shown
      BY <2>5 DEF FinalizeInterruptAction
    <3>2. CASE state = None
      BY <2>5, <3>1, <3>2 DEF FinalizeInterruptAction, Asked, cardVars
    <3>3. CASE state # None
      <4>1. FlushCardUpdate("user", state') /\ state' \in States
        BY <2>5, <3>1, <3>3 DEF FinalizeInterruptAction
      <4> QED BY <2>1, <3>1, <4>1, StateAsks
    <3> QED BY <3>2, <3>3
  <2>6. CASE CancelInterruptingCard(u)
    <3>1. CASE state # None /\ state.action = "interrupting"
      <4>1. state' \in States
        BY <2>6, <3>1 DEF CancelInterruptingCard, States
      <4>2. FlushCardUpdate("user", state') /\ shown' = shown
        BY <2>6, <3>1 DEF CancelInterruptingCard, ClickStep
      <4> QED BY <2>1, <4>1, <4>2, StateAsks
    <3>2. CASE ~ (state # None /\ state.action = "interrupting")
      BY <2>6, <3>2 DEF CancelInterruptingCard, ClickStep, Asked, cardVars
    <3> QED BY <3>1, <3>2
  <2>7. CASE UpdateCardAction(u)
    <3>1. calls[u].choice \in Decisions
      BY <2>7 DEF UpdateCardAction, Clicks, Idle
    <3>2. Recovered \in States
      BY AnswerTyped DEF Recovered, States
    <3>3. state' \in States
      BY <2>7, <3>1, <3>2 DEF UpdateCardAction, States
    <3>4. RenderCard(state') \in Cards
      BY <3>3, Rendered
    <3>5. Posts(RenderCard(state'))
      BY <2>1, <2>7 DEF UpdateCardAction, Reply, Posts
    <3>6. shown' = shown /\ creating' = creating
      BY <2>7 DEF UpdateCardAction, ClickStep
    <3> QED BY <2>1, <3>3, <3>4, <3>5, <3>6 DEF Asked
  <2>8. CASE DecisionFails(u)
    <3> DEFINE c == [look |-> "failure", choice |-> "none", text |-> <<>>]
    <3>1. c \in Cards /\ c.look = "failure"
      BY DEF Cards, Looks, Answers
    <3>2. Posts(c) /\ Deciding /\ shown' = shown /\ creating' = creating
      BY <2>1, <2>8 DEF DecisionFails, Reply, Posts, Deciding, ClickStep
    <3> HIDE DEF c
    <3> QED BY <2>1, <3>1, <3>2 DEF Asked
  <2> QED BY <1>8, <2>3, <2>4, <2>5, <2>6, <2>7, <2>8 DEF Click, Finish
<1> QED BY <1>1, <1>2, <1>3, <1>4, <1>5, <1>6, <1>7, <1>8 DEF Next, Card, Timed, Trouble
-----------------------------------------------------------------------------
(* What the cards say stays true.                                          *)

LEMMA TurnStays ==
  ASSUME Typed, Next
  PROVE  /\ turn.ended # "no" => turn'.ended = turn.ended /\ Answer' = Answer
         /\ env' = env
<1> USE DEF Typed
<1>1. turn.ended # "no" => turn'.ended = turn.ended /\ turn'.out = turn.out
  BY DEF Next, Agent, Streams, Completes, Aborts, Dispatch, HandleTurnStarted, AppendContent,
     UpdateProgress, HandleAgentMessage, HandleTurnComplete, HandleTurnAborted, CompleteTurn, Take,
     Card, Timed, CardCreated, Aggregated, TimerFires, InitializeTurnCard, Updated, Returned,
     Trouble, CreationFails, CreationRepeated, UpdateFails, Restart, Click, Finish, ClickStep,
     PrepareInterruptingCard, Decide, FinalizeInterruptAction, CancelInterruptingCard,
     UpdateCardAction, DecisionFails
<1>2. env' = env
  BY DEF Next, Agent, Streams, Completes, Aborts, AgentStep, Dispatch, HandleTurnStarted, AppendContent,
     UpdateProgress, HandleAgentMessage, HandleTurnComplete, HandleTurnAborted, CompleteTurn, Take,
     Card, Timed, CardCreated, Aggregated, TimerFires, InitializeTurnCard, Updated, Returned,
     Trouble, CreationFails, CreationRepeated, UpdateFails, Restart, Click, Finish, ClickStep,
     PrepareInterruptingCard, Decide, FinalizeInterruptAction, CancelInterruptingCard,
     UpdateCardAction, DecisionFails
<1> QED BY <1>1, <1>2, SameAnswer

\* The next output, and what Queue says of it and of the others.
LEMMA TakenEnd ==
  ASSUME Typed, Queue, NEW kind, Take(kind)
  PROVE  /\ kind \in {"turn_complete", "turn_summary"} => turn.ended = "completed" /\ Data = Answer
         /\ kind = "turn_aborted" => turn.ended = "aborted"
         /\ kind \in Ends => \A i \in DOMAIN queue' : queue'[i].kind = "turn_summary"
         /\ \A i \in DOMAIN queue' : i + 1 \in DOMAIN queue /\ queue'[i] = queue[i + 1]
<1>1. /\ queue[1].kind = kind /\ Data = queue[1].data /\ 1 \in DOMAIN queue
      /\ DOMAIN queue' = 1 .. (Len(queue) - 1) /\ Len(queue) \in Nat
      /\ \A i \in DOMAIN queue' : i + 1 \in DOMAIN queue /\ queue'[i] = queue[i + 1]
  BY Taken, LenProperties DEF Typed, Data
<1>2. \A i \in DOMAIN queue' : 1 < i + 1
  BY <1>1
<1> QED BY <1>1, <1>2 DEF Queue

LEMMA OverStays ==
  ASSUME Typed, Queue, Over, Next
  PROVE  Over'
<1>1. turn.ended = "completed" /\ turn'.ended = "completed" /\ Answer' = Answer /\ env' = env
  BY TurnStays DEF Over
<1>2. Answer \in Answers /\ GetOrCreateState \in States
  BY AnswerTyped
<1> USE DEF Typed
<1>3. ~ Agent
  BY <1>1 DEF Agent, Streams, Completes, Aborts
<1>4. CASE Dispatch
  <2>1. PICK kind : Take(kind)
    BY <1>4 DEF Dispatch, HandleTurnStarted, AppendContent, UpdateProgress, HandleAgentMessage,
                HandleTurnComplete, HandleTurnAborted, CompleteTurn
  <2>2. kind = "turn_summary" /\ Data = Answer /\ Take("turn_summary")
    <3>1. kind = "turn_summary"
      BY <2>1, Taken DEF Over
    <3> QED BY <2>1, <3>1, TakenEnd
  <2>3. \A i \in DOMAIN queue' : queue'[i].kind = "turn_summary"
    BY <2>1, <2>2, TakenEnd DEF Ends
  <2>4. CompleteTurn
    BY <1>4, <2>2 DEF Dispatch, HandleTurnStarted, AppendContent, UpdateProgress, HandleAgentMessage,
                HandleTurnComplete, HandleTurnAborted, CompleteTurn, Take
  <2>5. state'.message = Answer /\ state' # None /\ bucket' = bucket /\ warm' = warm
    <3>1. state' \in States
      BY <1>4, <2>2, DispatchTyped DEF AppendContent, Take
    <3> DEFINE g == GetOrCreateState
    <3>2. g \in States
      BY <1>2
    <3>3. state' = [g EXCEPT !.status = IF IsTerminalInterrupted THEN "interrupted" ELSE "completed",
                             !.message = Data]
      BY <2>4 DEF CompleteTurn
    <3> HIDE DEF g
    <3>4. state'.message = Data
      BY <3>2, <3>3 DEF States
    <3> QED BY <2>2, <2>4, <3>1, <3>4, Nulls DEF CompleteTurn, Take
  <2> QED BY <1>1, <2>3, <2>5 DEF Over, Without
<1>5. CASE Aggregated
  <2>1. state' = [GetOrCreateState EXCEPT !.message = @ \o bucket] /\ bucket # <<>>
        /\ queue' = queue
    BY <1>5 DEF Aggregated
  <2>2. GetOrCreateState \in States /\ GetOrCreateState.message \o bucket \in Answers
    BY AnswerTyped, ConcatProperties DEF States, Answers
  <2>3. state' \in States
    BY <2>1, <2>2 DEF States
  <2>4. ~ Without({"late"})'
    BY <1>1, <2>1 DEF Over, Without
  <2> QED BY <1>1, <2>1, <2>3, <2>4, Nulls DEF Over
<1>6. CASE InitializeTurnCard
  <2>1. state # None /\ state' = state
    BY <1>6 DEF InitializeTurnCard, Over, GetOrCreateState
  <2> QED BY <1>1, <1>6, <2>1 DEF InitializeTurnCard, Over, Without
<1>7. CASE CardCreated \/ TimerFires \/ Updated \/ CreationFails \/ CreationRepeated \/ UpdateFails
  <2>1. UNCHANGED <<queue, state, warm, bucket>>
    BY <1>7 DEF CardCreated, TimerFires, Updated, CreationFails, CreationRepeated, UpdateFails, Returned
  <2> QED BY <1>1, <2>1 DEF Over, Without
<1>8. CASE Restart
  BY <1>1, <1>8 DEF Restart, Over
<1>9. ASSUME NEW u \in Users, Click(u) \/ Finish(u) PROVE Over'
  <2>1. UNCHANGED <<queue, warm, bucket>>
    BY <1>9 DEF Click, Finish, ClickStep, PrepareInterruptingCard, Decide, FinalizeInterruptAction,
       CancelInterruptingCard, UpdateCardAction, DecisionFails
  <2>2. CASE UpdateCardAction(u)
    <3>1. Recovered \in States /\ Recovered.message = IF state = None THEN Answer ELSE state.message
      BY <1>2 DEF Recovered, States, Fresh
    <3>2. state'.message = Recovered.message
      BY <2>2, <3>1 DEF UpdateCardAction, States
    <3>3. state' # None
      <4>1. "status" \in DOMAIN Recovered /\ DOMAIN state' = DOMAIN Recovered
        BY <2>2, <3>1 DEF UpdateCardAction, States
      <4> QED BY <4>1 DEF None
    <3> QED BY <1>1, <2>1, <3>1, <3>2, <3>3 DEF Over, Without
  <2>3. CASE ~ UpdateCardAction(u)
    <3>1. /\ state = None => state' = None
          /\ state # None => state' \in States /\ state'.message = state.message
      <4>1. \/ state' = state
            \/ /\ state # None
               /\ \/ state' = [state EXCEPT !.action = "interrupting"]
                  \/ state' = [state EXCEPT !.action = "none"]
        BY <1>9, <2>3 DEF Click, Finish, ClickStep, PrepareInterruptingCard, Decide,
           FinalizeInterruptAction, CancelInterruptingCard, DecisionFails
      <4> QED BY <4>1 DEF States
    <3> QED BY <1>1, <2>1, <3>1, Nulls DEF Over, Without
  <2> QED BY <2>2, <2>3
<1> QED BY <1>3, <1>4, <1>5, <1>6, <1>7, <1>8, <1>9 DEF Next, Card, Timed, Trouble

StateTrue == state # None => /\ state.status \in Done => Over
                             /\ state.action = "interrupted" => turn.ended = "aborted"

LEMMA RenderedTrue ==
  ASSUME state' \in States, StateTrue'
  PROVE  TrueCard(RenderCard(state))'
<1>1. state' # None
  BY Nulls
<1>2. CASE RenderCard(state').look = "done"
  <2>1. Over' /\ RenderCard(state').text = state'.message
    BY <1>1, <1>2, Rendered DEF StateTrue
  <2> QED BY <1>1, <1>2, <2>1 DEF TrueCard, Over
<1>3. CASE RenderCard(state').look # "done"
  BY <1>1, <1>3, Rendered DEF StateTrue, TrueCard
<1> QED BY <1>2, <1>3

LEMMA StateTrueNext ==
  ASSUME Typed, Queue, Truth, Next
  PROVE  StateTrue'
<1> USE DEF Typed
<1>0. (Over => Over') /\ (turn.ended = "aborted" => turn'.ended = "aborted")
  BY OverStays, TurnStays
<1>1. ASSUME state' = None \/ (state # None /\ (state'.status \in Done => state.status \in Done)
                                            /\ (state'.action = "interrupted" => state.action = "interrupted"))
      PROVE  StateTrue'
  BY <1>0, <1>1 DEF StateTrue, Truth
<1> DEFINE g == GetOrCreateState
<1>2. /\ g \in States
      /\ g.status \in Done => state # None /\ state.status \in Done
      /\ g.action = "interrupted" => state # None /\ state.action = "interrupted"
  BY AnswerTyped DEF GetOrCreateState, Fresh, Done, Decisions
<1> HIDE DEF g
<1>3. ASSUME state' # None, state'.status \in Done => g.status \in Done \/ Over',
             state'.action = "interrupted" => g.action = "interrupted" \/ turn.ended = "aborted"
      PROVE  StateTrue'
  BY <1>0, <1>2, <1>3 DEF StateTrue, Truth
<1>4. CASE Agent \/ CardCreated \/ TimerFires \/ Updated \/ Trouble
  <2>1. state' \in {state, None}
    BY <1>4 DEF Agent, Streams, Completes, Aborts, AgentStep, CardCreated, TimerFires, Updated, Trouble,
        CreationFails, CreationRepeated, UpdateFails, Returned, Restart
  <2> QED BY <1>1, <2>1
<1>5. CASE Aggregated
  <2>1. state' = [g EXCEPT !.message = @ \o bucket]
    BY <1>5 DEF Aggregated, g
  <2>2. g.message \o bucket \in Answers
    BY <1>2, ConcatProperties DEF States, Answers
  <2>3. state' \in States /\ state'.status = g.status /\ state'.action = g.action
    BY <1>2, <2>1, <2>2 DEF States
  <2> QED BY <1>3, <2>3, Nulls
<1>6. CASE InitializeTurnCard
  BY <1>2, <1>3, <1>6, Nulls DEF InitializeTurnCard, g
<1>7. CASE AppendContent
  BY <1>1, <1>7 DEF AppendContent
<1>8. CASE HandleTurnStarted
  <2>1. state' = [g EXCEPT !.status = "running"]
    BY <1>8 DEF HandleTurnStarted, g
  <2>2. state' \in States /\ state'.status = "running" /\ state'.action = g.action
    BY <1>2, <2>1 DEF States
  <2> QED BY <1>3, <2>2, Nulls DEF Done, Decisions
<1>9. CASE UpdateProgress
  BY <1>2, <1>3, <1>9, Nulls DEF UpdateProgress, g
<1>10. CASE HandleAgentMessage
  <2>1. state' = [g EXCEPT !.message = Data] /\ Data \in Answers
    BY <1>10, Taken DEF HandleAgentMessage, g
  <2>2. state' \in States /\ state'.status = g.status /\ state'.action = g.action
    BY <1>2, <2>1 DEF States
  <2> QED BY <1>3, <2>2, Nulls
<1>11. CASE HandleTurnAborted
  <2>1. state' = [g EXCEPT !.status = "interrupted", !.action = "interrupted"]
    BY <1>11 DEF HandleTurnAborted, g
  <2>2. state' \in States /\ state'.status = "interrupted"
    BY <1>2, <2>1 DEF States
  <2>3. turn.ended = "aborted"
    BY <1>11, TakenEnd DEF HandleTurnAborted
  <2> QED BY <1>3, <2>2, <2>3, Nulls DEF Done, Decisions
<1>12. CASE HandleTurnComplete \/ CompleteTurn
  <2>1. /\ state' = [g EXCEPT !.status = "completed", !.message = Data]
           \/ state' = [g EXCEPT !.status = "interrupted", !.message = Data]
        /\ Data \in Answers
    BY <1>12, Taken DEF HandleTurnComplete, CompleteTurn, g
  <2>2. state' \in States /\ state'.action = g.action /\ state'.message = Data
    BY <1>2, <2>1 DEF States
  <2>3. PICK kind \in {"turn_complete", "turn_summary"} : Take(kind) /\ Whole /\ bucket' = bucket
    BY <1>12 DEF HandleTurnComplete, CompleteTurn
  <2>4. /\ turn.ended = "completed" /\ Data = Answer
        /\ \A i \in DOMAIN queue' : queue'[i].kind = "turn_summary"
    BY <2>3, TakenEnd DEF Ends
  <2>5. turn'.ended = "completed" /\ Answer' = Answer /\ env' = env
    BY <2>4, TurnStays
  <2>6. Without({"late"})' => bucket' = <<>>
    BY <2>3, <2>5 DEF Whole, Without
  <2>7. Over'
    BY <2>2, <2>4, <2>5, <2>6, Nulls DEF Over
  <2> QED BY <1>3, <2>2, <2>7, Nulls
<1>13. ASSUME NEW u \in Users, Click(u) \/ Finish(u) PROVE StateTrue'
  <2>1. CASE UpdateCardAction(u)
    <3>1. calls[u].choice \in Decisions /\ Over
      BY <2>1 DEF UpdateCardAction, Clicks, Idle, Truth, Deciding
    <3>2. Recovered \in States
      BY AnswerTyped DEF Recovered, States
    <3>3. state'.action \in Decisions
      BY <2>1, <3>1, <3>2 DEF UpdateCardAction, States
    <3> QED BY <1>0, <3>1, <3>3 DEF StateTrue, Decisions
  <2>2. CASE ~ UpdateCardAction(u)
    <3>1. \/ state' = None
          \/ state # None /\ (state'.status \in Done => state.status \in Done)
                          /\ (state'.action = "interrupted" => state.action = "interrupted")
      BY <1>13, <2>2 DEF Click, Finish, ClickStep, PrepareInterruptingCard, Decide, States,
       FinalizeInterruptAction, CancelInterruptingCard, DecisionFails
    <3> QED BY <1>1, <3>1
  <2> QED BY <2>1, <2>2
<1> QED BY <1>4, <1>5, <1>6, <1>7, <1>8, <1>9, <1>10, <1>11, <1>12, <1>13
       DEF Next, Card, Timed, Dispatch

LEMMA TruthNext ==
  ASSUME Typed, Queue, Life, Truth, [Next]_vars
  PROVE  Truth'
<1> USE DEF Typed
<1>1. CASE UNCHANGED vars
  BY <1>1 DEF vars, Truth, TrueCard, Over, Pending, Deciding, Without, Answer
<1> SUFFICES ASSUME Next PROVE Truth'
  BY <1>1
<1>2. StateTrue'
  BY StateTrueNext
<1>3. ASSUME NEW c, TrueCard(c) PROVE TrueCard(c)'
  BY <1>3, OverStays, TurnStays DEF TrueCard, Over, Without
<1>4. ASSUME state' \in States PROVE TrueCard(RenderCard(state))'
  BY <1>2, <1>4, RenderedTrue
<1>5. Deciding' => Over'
  <2>1. Deciding' => Deciding \/ \E u \in Users, c \in Decisions : Decide(u, c)
    <3>1. CASE \E u \in Users : Click(u) \/ Finish(u)
      <4>1. PICK u \in Users : Click(u) \/ Finish(u)
        BY <3>1
      <4>2. \A v \in Users : v # u => calls'[v] = calls[v]
        BY <4>1 DEF Click, Finish, PrepareInterruptingCard, Decide, FinalizeInterruptAction,
             CancelInterruptingCard, UpdateCardAction, DecisionFails
      <4>3. \/ calls'[u] = [pc |-> "interrupting"] \/ calls'[u] = Idle
            \/ \E c \in Decisions : Decide(u, c)
        BY <4>1 DEF Click, Finish, PrepareInterruptingCard, FinalizeInterruptAction,
             CancelInterruptingCard, UpdateCardAction, DecisionFails
      <4>4. calls'[u].pc = "deciding" => \E c \in Decisions : Decide(u, c)
        BY <4>3 DEF Idle
      <4> QED BY <4>2, <4>4 DEF Deciding
    <3>2. CASE calls' = calls
      BY <3>2 DEF Deciding
    <3>3. CASE Restart
      BY <3>3 DEF Restart, Deciding, Idle
    <3> QED BY <3>1, <3>2, <3>3 DEF Next, Agent, Streams, Completes, Aborts, AgentStep, Dispatch,
         HandleTurnStarted, AppendContent, UpdateProgress, HandleAgentMessage, HandleTurnComplete,
         HandleTurnAborted, CompleteTurn, Take, Card, Timed, CardCreated, Aggregated, TimerFires,
         InitializeTurnCard, Updated, Returned, Trouble, CreationFails, CreationRepeated, UpdateFails
  <2>2. (\E u \in Users, c \in Decisions : Decide(u, c)) => Over
    BY DEF Decide, Truth, TrueCard
  <2> QED BY <2>1, <2>2, OverStays DEF Truth
<1>6. CASE Asked
  <2>1. shown' # None => TrueCard(shown)'
    BY <1>3, <1>6 DEF Asked, Truth
  <2>2. Pending' => TrueCard(creating)'
    BY <1>3, <1>4, <1>6 DEF Asked, Truth, Pending
  <2>3. \A i \in DOMAIN net' : TrueCard(net[i].card)'
    <3>1. CASE net' = net
      BY <1>3, <3>1 DEF Truth
    <3>2. CASE net' = <<>>
      BY <3>2
    <3>3. ASSUME NEW c \in Cards, Posts(c),
                 \/ state' \in States /\ c = RenderCard(state')
                 \/ c.look = "progress" \/ c.look = "failure"
          PROVE  \A i \in DOMAIN net' : TrueCard(net[i].card)'
      <4>1. TrueCard(c)'
        BY <1>4, <3>3 DEF TrueCard
      <4>2. \A i \in DOMAIN net : TrueCard(net[i].card)'
        BY <1>3, <3>3, Posted DEF Truth
      <4> QED BY <3>3, <4>1, <4>2, Posted
    <3> QED BY <1>6, <3>1, <3>2, <3>3 DEF Asked
  <2> QED BY <1>2, <1>5, <2>1, <2>2, <2>3 DEF Truth, StateTrue
<1>7. CASE CardCreated
  <2>1. /\ state \in States /\ Pending /\ state' = state /\ shown' = creating /\ ~ Pending'
        /\ \A i \in DOMAIN net' : net'[i].card = RenderCard(state)
    BY <1>7, CreatedCards DEF CardCreated, Pending
  <2>2. TrueCard(shown)'
    BY <1>3, <2>1 DEF Truth
  <2>3. \A i \in DOMAIN net' : TrueCard(net[i].card)'
    BY <1>4, <2>1
  <2> QED BY <1>2, <1>5, <2>1, <2>2, <2>3 DEF Truth, StateTrue
<1>8. CASE Returns
  <2>1. PICK i \in DOMAIN net, ok \in BOOLEAN : Returned(i, ok) /\ shown' \in {shown, net[i].card}
    BY <1>8 DEF Returns
  <2>2. creating' = creating
    BY <2>1 DEF Returned
  <2>3. shown' # None => TrueCard(shown)'
    BY <1>3, <2>1 DEF Truth
  <2>4. \A j \in DOMAIN net' : TrueCard(net[j].card)'
    BY <1>3, <2>1, ReturnedCards DEF Truth
  <2> QED BY <1>2, <1>3, <1>5, <2>2, <2>3, <2>4 DEF Truth, StateTrue, Pending
<1> QED BY <1>6, <1>7, <1>8, Moves
-----------------------------------------------------------------------------
(* The last word stays the last.                                           *)

LEMMA StoppingNext ==
  ASSUME Typed, Life, Stopping, [Next]_vars
  PROVE  Stopping'
<1> USE DEF Typed
<1>1. CASE UNCHANGED vars
  BY <1>1 DEF vars, Stopping, Interrupting, Without
<1> SUFFICES ASSUME Next, Without({"beaten", "other"})' PROVE Stopping'
  BY <1>1 DEF Stopping
<1>2. /\ Without({"beaten", "other"})
      /\ state # None /\ state.action = "interrupting" => Interrupting \/ turn.asked
      /\ Interrupting \/ turn.asked => turn.ended # "completed"
  BY TurnStays DEF Without, Stopping
<1> DEFINE g == GetOrCreateState
<1>3. g \in States /\ (g.action = "interrupting" => Interrupting \/ turn.asked)
  BY <1>2, AnswerTyped DEF GetOrCreateState, Fresh
<1> HIDE DEF g
<1>4. ASSUME state' # None /\ state'.action = "interrupting" => Interrupting \/ turn.asked,
             turn' = turn, calls' = calls
      PROVE  Stopping'
  BY <1>2, <1>4 DEF Stopping, Interrupting
<1>5. CASE Agent
  <2>1. UNCHANGED <<state, calls>> /\ turn'.asked = turn.asked
    BY <1>5 DEF Agent, Streams, Completes, Aborts, AgentStep
  <2>2. Interrupting \/ turn.asked => turn'.ended # "completed"
    BY <1>2, <1>5 DEF Agent, Streams, Completes, Aborts, Interrupting, Without
  <2> QED BY <1>2, <2>1, <2>2 DEF Stopping, Interrupting
<1>6. CASE Dispatch
  <2>1. turn' = turn /\ calls' = calls
    BY <1>6, DispatchAsks
  <2>2. \/ state' = state \/ state' = g
        \/ /\ Data \in Answers
           /\ \/ state' = [g EXCEPT !.status = "running"]
              \/ state' = [g EXCEPT !.message = Data]
              \/ state' = [g EXCEPT !.status = "completed", !.message = Data]
              \/ state' = [g EXCEPT !.status = "interrupted", !.message = Data]
              \/ state' = [g EXCEPT !.status = "interrupted", !.action = "interrupted"]
    BY <1>6, Taken DEF Dispatch, HandleTurnStarted, AppendContent, UpdateProgress, HandleAgentMessage,
         HandleTurnComplete, HandleTurnAborted, CompleteTurn, g
  <2>3. state' # None /\ state'.action = "interrupting" => Interrupting \/ turn.asked
    BY <1>2, <1>3, <2>2 DEF States
  <2> QED BY <1>4, <2>1, <2>3
<1>7. CASE Aggregated
  <2>1. state' = [g EXCEPT !.message = @ \o bucket] /\ turn' = turn /\ calls' = calls
    BY <1>7 DEF Aggregated, g
  <2>2. state'.action = g.action
    BY <1>3, <2>1 DEF States
  <2> QED BY <1>3, <1>4, <2>1, <2>2
<1>8. CASE InitializeTurnCard
  BY <1>3, <1>4, <1>8 DEF InitializeTurnCard, g
<1>9. CASE CardCreated \/ TimerFires \/ Updated \/ CreationFails \/ CreationRepeated \/ UpdateFails
  <2>1. UNCHANGED <<state, turn, calls>>
    BY <1>9 DEF CardCreated, TimerFires, Updated, CreationFails, CreationRepeated, UpdateFails, Returned
  <2> QED BY <1>2, <1>4, <2>1
<1>10. CASE Restart
  <2>1. ~ Interrupting' /\ state' = None
    BY <1>10 DEF Restart, Interrupting, Idle
  <2>2. turn'.asked = turn.asked /\ (turn'.ended = "completed" => turn.ended = "completed")
    BY <1>10 DEF Restart
  <2> QED BY <1>2, <2>1, <2>2 DEF Stopping
<1>11. ASSUME NEW u \in Users, Click(u) \/ Finish(u) PROVE Stopping'
  <2>1. \A v \in Users : v # u => calls'[v] = calls[v]
    BY <1>11 DEF Click, Finish, PrepareInterruptingCard, Decide, FinalizeInterruptAction,
         CancelInterruptingCard, UpdateCardAction, DecisionFails
  <2>2. CASE PrepareInterruptingCard(u)
    <3>1. Interrupting' /\ turn' = turn /\ turn.ended # "completed"
      BY <1>2, <2>2 DEF PrepareInterruptingCard, ClickStep, Interrupting, Without
    <3> QED BY <3>1 DEF Stopping
  <2>3. CASE FinalizeInterruptAction(u)
    <3>1. turn'.asked /\ turn'.ended = "no"
      BY <1>2, <2>3 DEF FinalizeInterruptAction, Without
    <3> QED BY <3>1 DEF Stopping
  <2>4. CASE CancelInterruptingCard(u)
    <3>1. turn' = turn /\ (state' = None \/ state'.action # "interrupting")
      <4>1. \/ state' = [state EXCEPT !.action = "none"] /\ state # None
            \/ state' = state /\ ~ (state # None /\ state.action = "interrupting")
        BY <2>4 DEF CancelInterruptingCard
      <4> QED BY <2>4, <4>1 DEF CancelInterruptingCard, ClickStep, States
    <3>2. Interrupting' => Interrupting
      BY <2>1, <2>4 DEF CancelInterruptingCard, Interrupting
    <3> QED BY <1>2, <3>1, <3>2 DEF Stopping
  <2>5. CASE UpdateCardAction(u)
    <3>1. calls[u].choice \in Decisions
      BY <2>5 DEF UpdateCardAction, Clicks, Idle
    <3>2. Recovered \in States
      BY AnswerTyped DEF Recovered, States
    <3>3. state'.action \in Decisions
      BY <2>5, <3>1, <3>2 DEF UpdateCardAction, States
    <3>4. calls'[u] = Idle /\ turn' = turn
      BY <2>5 DEF UpdateCardAction, ClickStep
    <3>5. Interrupting' => Interrupting
      BY <2>1, <3>4 DEF Interrupting, Idle
    <3> QED BY <1>2, <3>3, <3>4, <3>5 DEF Stopping, Decisions
  <2>6. CASE DecisionFails(u) \/ \E c \in Decisions : Decide(u, c)
    <3>1. calls[u].pc # "interrupting" /\ calls'[u].pc # "interrupting"
      BY <2>6 DEF DecisionFails, Decide, Idle
    <3>2. Interrupting' <=> Interrupting
      BY <2>1, <3>1 DEF Interrupting
    <3>3. state' = state /\ turn' = turn
      BY <2>6 DEF DecisionFails, Decide, ClickStep
    <3> QED BY <1>2, <3>2, <3>3 DEF Stopping
  <2> QED BY <1>11, <2>2, <2>3, <2>4, <2>5, <2>6 DEF Click, Finish
<1> QED BY <1>5, <1>6, <1>7, <1>8, <1>9, <1>10, <1>11 DEF Next, Card, Timed, Trouble

\* A rendered state shows the end of the turn when it is done or interrupted.
LEMMA EndingRendered ==
  ASSUME NEW s \in States
  PROVE  Ending(RenderCard(s).look) <=> s.status \in Done \/ s.action = "interrupted"
  BY Rendered DEF Ending

\* A state that shows the end of the turn is never brought back.
LEMMA EndsStays ==
  ASSUME Typed, Queue, Truth, Stopping, Next, Without({"beaten", "other"}),
         StateEnds, state = None => Cut
  PROVE  StateEnds'
<1> USE DEF Typed
<1>1. state # None => state \in States /\ (state.status \in Done \/ state.action = "interrupted")
  BY EndingRendered DEF StateEnds
<1>2. ASSUME state' # None =>
               state' \in States /\ (state'.status \in Done \/ state'.action = "interrupted")
      PROVE  StateEnds'
  BY <1>2, EndingRendered DEF StateEnds
<1>3. CASE Agent \/ CardCreated \/ TimerFires \/ Updated \/ Trouble
  <2>1. state' \in {state, None}
    BY <1>3 DEF Agent, Streams, Completes, Aborts, AgentStep, CardCreated, TimerFires, Updated, Trouble,
        CreationFails, CreationRepeated, UpdateFails, Returned, Restart
  <2> QED BY <1>1, <1>2, <2>1
<1>4. CASE Dispatch
  <2>1. PICK kind : Take(kind) /\ queue # <<>>
    BY <1>4 DEF Dispatch, HandleTurnStarted, AppendContent, UpdateProgress, HandleAgentMessage,
                HandleTurnComplete, HandleTurnAborted, CompleteTurn, Take
  <2>2. state # None /\ GetOrCreateState = state /\ state \in States
    BY <2>1 DEF Cut, GetOrCreateState
  <2>3. state.status \in Done => kind = "turn_summary"
    <3>1. queue[1].kind = kind /\ 1 \in DOMAIN queue
      BY <2>1, Taken
    <3> QED BY <2>2, <3>1 DEF Truth, Over
  <2>4. Data \in Answers
    BY <2>1, Taken
  <2>5. CASE HandleTurnStarted
    <3>1. kind = "turn_started"
      BY <2>1, <2>5 DEF HandleTurnStarted, Take
    <3>2. state' = [state EXCEPT !.status = "running"] /\ state.action = "interrupted"
      BY <1>1, <2>2, <2>3, <2>5, <3>1 DEF HandleTurnStarted
    <3> QED BY <1>2, <2>2, <3>2 DEF States
  <2>6. CASE AppendContent \/ UpdateProgress
    BY <1>1, <1>2, <2>2, <2>6 DEF AppendContent, UpdateProgress
  <2>7. CASE HandleAgentMessage
    <3>1. state' = [state EXCEPT !.message = Data]
      BY <2>2, <2>7 DEF HandleAgentMessage
    <3> QED BY <1>1, <1>2, <2>2, <2>4, <3>1 DEF States
  <2>8. CASE HandleTurnComplete
    <3>1. state' = [state EXCEPT !.status = "completed", !.message = Data]
      BY <2>2, <2>8 DEF HandleTurnComplete
    <3> QED BY <1>2, <2>2, <2>4, <3>1 DEF States, Done
  <2>9. CASE HandleTurnAborted
    <3>1. state' = [state EXCEPT !.status = "interrupted", !.action = "interrupted"]
      BY <2>2, <2>9 DEF HandleTurnAborted
    <3> QED BY <1>2, <2>2, <3>1 DEF States
  <2>10. CASE CompleteTurn
    <3>1. turn.ended = "completed"
      BY <2>10, TakenEnd DEF CompleteTurn
    <3>2. state.action # "interrupting"
      BY <2>2, <3>1 DEF Stopping
    <3>3. CASE state.action = "interrupted"
      <4>1. state' = [state EXCEPT !.status = "interrupted", !.message = Data]
        BY <2>2, <2>10, <3>3 DEF CompleteTurn, IsTerminalInterrupted
      <4> QED BY <1>2, <2>2, <2>4, <3>3, <4>1 DEF States
    <3>4. CASE state.action # "interrupted"
      <4>1. state' = [state EXCEPT !.status = "completed", !.message = Data]
        BY <2>2, <2>10, <3>2, <3>4 DEF CompleteTurn, IsTerminalInterrupted
      <4> QED BY <1>2, <2>2, <2>4, <4>1 DEF States, Done
    <3> QED BY <3>3, <3>4
  <2> QED BY <1>4, <2>5, <2>6, <2>7, <2>8, <2>9, <2>10 DEF Dispatch
<1>5. CASE Aggregated
  <2>1. state # None /\ GetOrCreateState = state /\ state \in States
    BY <1>5 DEF Aggregated, Cut, GetOrCreateState
  <2>2. state' = [state EXCEPT !.message = @ \o bucket]
    BY <1>5, <2>1 DEF Aggregated
  <2>3. state.message \o bucket \in Answers
    BY <2>1, ConcatProperties DEF States, Answers
  <2> QED BY <1>1, <1>2, <2>1, <2>2, <2>3 DEF States
<1>6. CASE InitializeTurnCard
  <2>1. state # None /\ state' = state
    BY <1>6 DEF InitializeTurnCard, Cut, GetOrCreateState
  <2> QED BY <1>1, <1>2, <2>1
<1>7. ASSUME NEW u \in Users, Click(u) \/ Finish(u) PROVE StateEnds'
  <2>1. CASE PrepareInterruptingCard(u)
    <3>1. state # None => \/ state' = state
                          \/ /\ state.action # "interrupted"
                             /\ state' = [state EXCEPT !.action = "interrupting"]
      BY <2>1 DEF PrepareInterruptingCard
    <3>2. state = None => state' = None
      BY <2>1 DEF PrepareInterruptingCard
    <3> QED BY <1>1, <1>2, <3>1, <3>2 DEF States
  <2>2. CASE CancelInterruptingCard(u)
    <3>1. \/ state' = state
          \/ state # None /\ state.action = "interrupting" /\ state' = [state EXCEPT !.action = "none"]
      BY <2>2 DEF CancelInterruptingCard
    <3> QED BY <1>1, <1>2, <3>1 DEF States
  <2>3. CASE UpdateCardAction(u)
    <3>1. calls[u].choice \in Decisions
      BY <2>3 DEF UpdateCardAction, Clicks, Idle
    <3>2. Recovered \in States
      BY AnswerTyped DEF Recovered, States
    <3>3. state' \in States /\ state'.status \in Decisions
      BY <2>3, <3>1, <3>2 DEF UpdateCardAction, States
    <3> QED BY <1>2, <3>3 DEF Done
  <2>4. CASE FinalizeInterruptAction(u) \/ DecisionFails(u) \/ \E c \in Decisions : Decide(u, c)
    <3>1. state' = state
      BY <2>4 DEF FinalizeInterruptAction, DecisionFails, Decide, ClickStep
    <3> QED BY <1>1, <1>2, <3>1
  <2> QED BY <1>7, <2>1, <2>2, <2>3, <2>4 DEF Click, Finish
<1> QED BY <1>3, <1>4, <1>5, <1>6, <1>7 DEF Next, Card, Timed

LEMMA LastWordNext ==
  ASSUME Typed, Queue, Life, Truth, Stopping, LastWord, [Next]_vars
  PROVE  LastWord'
<1> USE DEF Typed
<1>1. CASE UNCHANGED vars
  BY <1>1 DEF vars, LastWord, StateEnds, Deciding, Pending, Without
<1> SUFFICES ASSUME Next, Without({"reorder", "beaten", "other"})' PROVE LastWord'
  BY <1>1 DEF LastWord
<1>2. /\ Without({"reorder", "beaten", "other"}) /\ Without({"beaten", "other"}) /\ "reorder" \notin env
      /\ shown # None /\ Ending(shown.look) =>
           StateEnds /\ \A i \in DOMAIN net : Ending(net[i].card.look)
      /\ Deciding => shown # None /\ Ending(shown.look)
      /\ Pending /\ Ending(creating.look) => StateEnds
      /\ \A i \in DOMAIN net : Ending(net[i].card.look) =>
           StateEnds /\ \A j \in DOMAIN net : i < j => Ending(net[j].card.look)
  BY TurnStays DEF Without, LastWord
<1>3. ASSUME StateEnds, shown # None \/ Pending PROVE StateEnds'
  <2>1. state = None => Cut
    BY <1>3 DEF Life
  <2> QED BY <1>2, <1>3, <2>1, EndsStays
<1>4. ASSUME StateEnds', state' \in States PROVE Ending(RenderCard(state').look)
  BY <1>4, Nulls DEF StateEnds
<1>5. ASSUME state' \in States, Ending(RenderCard(state').look) PROVE StateEnds'
  BY <1>5 DEF StateEnds
<1>6. Deciding' => Deciding \/ (shown # None /\ shown.look = "done" /\ shown' = shown)
  <2>1. CASE \E u \in Users : Click(u) \/ Finish(u)
    <3>1. PICK u \in Users : Click(u) \/ Finish(u)
      BY <2>1
    <3>2. \A v \in Users : v # u => calls'[v] = calls[v]
      BY <3>1 DEF Click, Finish, PrepareInterruptingCard, Decide, FinalizeInterruptAction,
           CancelInterruptingCard, UpdateCardAction, DecisionFails
    <3>3. \/ calls'[u] = [pc |-> "interrupting"] \/ calls'[u] = Idle
          \/ \E c \in Decisions : Decide(u, c)
      BY <3>1 DEF Click, Finish, PrepareInterruptingCard, FinalizeInterruptAction,
           CancelInterruptingCard, UpdateCardAction, DecisionFails
    <3>4. calls'[u].pc = "deciding" => \E c \in Decisions : Decide(u, c)
      BY <3>3 DEF Idle
    <3>5. (\E c \in Decisions : Decide(u, c)) => shown # None /\ shown.look = "done" /\ shown' = shown
      BY DEF Decide, ClickStep
    <3> QED BY <3>2, <3>4, <3>5 DEF Deciding
  <2>2. CASE calls' = calls
    BY <2>2 DEF Deciding
  <2>3. CASE Restart
    BY <2>3 DEF Restart, Deciding, Idle
  <2> QED BY <2>1, <2>2, <2>3 DEF Next, Agent, Streams, Completes, Aborts, AgentStep, Dispatch,
       HandleTurnStarted, AppendContent, UpdateProgress, HandleAgentMessage, HandleTurnComplete,
       HandleTurnAborted, CompleteTurn, Take, Card, Timed, CardCreated, Aggregated, TimerFires,
       InitializeTurnCard, Updated, Returned, Trouble, CreationFails, CreationRepeated, UpdateFails
<1>7. CASE Asked
  <2>1. shown' = shown
    BY <1>7 DEF Asked
  <2>2. shown # None /\ Ending(shown.look) => StateEnds'
    BY <1>2, <1>3
  <2>3. Deciding' => shown' # None /\ Ending(shown'.look)
    BY <1>2, <1>6, <2>1 DEF Ending
  <2>4. Pending' /\ Ending(creating'.look) => StateEnds'
    BY <1>2, <1>3, <1>5, <1>7 DEF Asked, Pending
  <2>5. \A i \in DOMAIN net : Ending(net[i].card.look) => StateEnds'
    <3>1. \A i \in DOMAIN net : shown # None
      BY DEF Life
    <3> QED BY <1>2, <1>3, <3>1
  <2>6. CASE net' = net \/ net' = <<>>
    BY <1>2, <2>1, <2>2, <2>3, <2>4, <2>5, <2>6 DEF LastWord
  <2>7. ASSUME NEW c \in Cards, Posts(c), shown # None,
               \/ state' \in States /\ c = RenderCard(state')
               \/ c.look = "progress" /\ shown.look = "done"
               \/ c.look = "failure" /\ Deciding
        PROVE  LastWord'
    <3>1. StateEnds' <=> Ending(c.look)
      <4>1. CASE state' \in States /\ c = RenderCard(state')
        BY <1>4, <1>5, <4>1
      <4>2. CASE c.look \in {"progress", "failure"} /\ Ending(shown.look)
        BY <2>2, <2>7, <4>2 DEF Ending
      <4> QED BY <1>2, <2>7, <4>1, <4>2 DEF Ending
    <3>2. /\ Len(net) \in Nat /\ DOMAIN net = 1 .. Len(net) /\ DOMAIN net' = 1 .. (Len(net) + 1)
          /\ \A i \in DOMAIN net : net'[i] = net[i]
          /\ net'[Len(net) + 1].card = c
          /\ \A i \in DOMAIN net' : i \in DOMAIN net \/ i = Len(net) + 1
      BY <2>7, Posted
    <3>3. shown' # None /\ Ending(shown'.look) =>
            StateEnds' /\ \A i \in DOMAIN net' : Ending(net'[i].card.look)
      BY <1>2, <2>1, <2>2, <3>1, <3>2
    <3>4. \A i, j \in DOMAIN net' : i < j => i \in DOMAIN net
      BY <3>2
    <3>5. \A i \in DOMAIN net' : Ending(net'[i].card.look) =>
            StateEnds' /\ \A j \in DOMAIN net' : i < j => Ending(net'[j].card.look)
      <4> SUFFICES ASSUME NEW i \in DOMAIN net', Ending(net'[i].card.look)
                   PROVE  StateEnds' /\ \A j \in DOMAIN net' : i < j => Ending(net'[j].card.look)
        OBVIOUS
      <4>1. StateEnds'
        BY <2>5, <3>1, <3>2
      <4>2. ASSUME NEW j \in DOMAIN net', i < j PROVE Ending(net'[j].card.look)
        <5>1. i \in DOMAIN net /\ Ending(net[i].card.look)
          BY <3>2, <3>4, <4>2
        <5> QED BY <1>2, <3>1, <3>2, <4>1, <4>2, <5>1
      <4> QED BY <4>1, <4>2
    <3> QED BY <2>3, <2>4, <3>3, <3>5 DEF LastWord
  <2> QED BY <1>7, <2>6, <2>7 DEF Asked
<1>8. CASE CardCreated
  <2>1. /\ state \in States /\ Pending /\ state' = state /\ shown = None /\ shown' = creating
        /\ ~ Pending' /\ \A i \in DOMAIN net' : net'[i].card = RenderCard(state)
    BY <1>8, CreatedCards DEF CardCreated, Pending
  <2>2. StateEnds' <=> Ending(RenderCard(state).look)
    BY <1>4, <1>5, <2>1
  <2>3. Ending(creating.look) => StateEnds'
    BY <1>2, <1>3, <2>1
  <2>4. ~ Deciding'
    BY <1>2, <1>6, <2>1
  <2> QED BY <2>1, <2>2, <2>3, <2>4 DEF LastWord
<1>9. CASE Returns
  <2>1. PICK i \in DOMAIN net, ok \in BOOLEAN :
               Returned(i, ok) /\ (shown' = shown \/ (shown' = net[i].card /\ i <= 1))
    <3>1. \A i \in DOMAIN net : ~ (i > 1) => i <= 1
      BY LenProperties
    <3> QED BY <1>2, <1>9, <3>1 DEF Returns
  <2>2. state' = state /\ creating' = creating /\ shown # None
    BY <2>1 DEF Returned, Life
  <2>3. /\ Len(net) \in Nat /\ DOMAIN net = 1 .. Len(net) /\ DOMAIN net' = 1 .. (Len(net) - 1)
        /\ \A j \in DOMAIN net' : /\ (IF j < i THEN j ELSE j + 1) \in DOMAIN net
                                  /\ net'[j] = net[IF j < i THEN j ELSE j + 1]
    BY <2>1, ReturnedCards
  <2>4. StateEnds <=> StateEnds'
    BY <2>2 DEF StateEnds
  <2>5. shown' # None /\ Ending(shown'.look) =>
            StateEnds' /\ \A j \in DOMAIN net' : Ending(net'[j].card.look)
    <3>1. CASE shown' = shown
      BY <1>2, <2>3, <2>4, <3>1
    <3>2. CASE shown' = net[i].card /\ i <= 1
      <4>1. \A j \in DOMAIN net' : i < (IF j < i THEN j ELSE j + 1)
        BY <2>3, <3>2
      <4> QED BY <1>2, <2>3, <2>4, <3>2, <4>1
    <3> QED BY <2>1, <3>1, <3>2
  <2>6. Deciding' => shown' # None /\ Ending(shown'.look)
    <3>1. shown' # None
      BY <2>1, <2>2, Flying, Nulls
    <3>2. Ending(shown.look) => Ending(shown'.look)
      BY <1>2, <2>1, <2>2
    <3> QED BY <1>2, <1>6, <3>1, <3>2 DEF Ending
  <2>7. \A j \in DOMAIN net' : Ending(net'[j].card.look) =>
          StateEnds' /\ \A k \in DOMAIN net' : j < k => Ending(net'[k].card.look)
    <3>1. \A j, k \in DOMAIN net' :
            j < k => (IF j < i THEN j ELSE j + 1) < (IF k < i THEN k ELSE k + 1)
      BY <2>3
    <3> QED BY <1>2, <2>3, <2>4, <3>1
  <2> QED BY <1>2, <2>2, <2>4, <2>5, <2>6, <2>7 DEF LastWord, Pending
<1> QED BY <1>7, <1>8, <1>9, Moves
-----------------------------------------------------------------------------
(* The card keeps up with the state.                                       *)

\* The update that was started last.
LEMMA LatestPosted ==
  ASSUME Typed, NEW c \in Cards, Posts(c)
  PROVE  Latest' = c
  BY Posted DEF Latest

\* A change of the state that asks for the card, or posts an update.
LEMMA FlushFollows ==
  ASSUME Typed, Life, creating # Failed, token \/ shown = None, shown' = shown,
         state' \in States, NEW by \in Callers \ {"start"}, FlushCardUpdate(by, state')
  PROVE  Follows'
<1>1. RenderCard(state') \in Cards
  BY Rendered
<1>2. CASE token
  <2>1. Posts(RenderCard(state')) /\ creating' = creating /\ creating = None
    BY <1>2, Nulls DEF FlushCardUpdate, Update, EnsureCard, Unreachable, Posts, Life
  <2>2. Latest' = RenderCard(state')
    BY <1>1, <2>1, LatestPosted
  <2> QED BY <2>1, <2>2 DEF Follows, Pending
<1>3. CASE ~ token
  <2>1. EnsureCard(by, state')
    BY <1>3 DEF FlushCardUpdate, Unreachable
  <2>2. Pending'
    BY <1>1, <2>1, Nulls DEF EnsureCard, Pending
  <2>3. \E i \in DOMAIN waiting' : waiting'[i] # "start"
    <3>1. Len(waiting) \in Nat /\ waiting' = Append(waiting, by) /\ waiting \in Seq(Callers)
      BY <2>1, LenProperties DEF EnsureCard, Typed
    <3>2. Len(waiting) + 1 \in DOMAIN waiting' /\ waiting'[Len(waiting) + 1] = by
      BY <3>1
    <3> QED BY <3>2
  <2> QED BY <2>2, <2>3 DEF Follows
<1> QED BY <1>2, <1>3

\* The creation starts an update for the state, sets the timer for it, or shows it.
LEMMA CreatedFollows ==
  ASSUME Typed, Life, CardCreated, Follows
  PROVE  Follows'
<1>1. /\ state \in States /\ state' = state /\ net = <<>> /\ shown' = creating /\ Pending /\ token'
      /\ ~ Pending' /\ state # None
      /\ \A i \in DOMAIN net' : net'[i].card = RenderCard(state)
      /\ Cardinality(Flushing) \in Nat /\ IsFiniteSet(Flushing)
      /\ net' \in Seq(Updates) /\ Len(net') = Cardinality(Flushing)
  BY CreatedCards, Nulls DEF CardCreated, Pending
<1>2. CASE Flushing # {}
  <2>1. Cardinality(Flushing) # 0
    BY <1>1, <1>2, FS_EmptySet
  <2>2. net' # <<>> /\ Len(net') \in DOMAIN net'
    BY <1>1, <2>1, LenProperties, EmptySeq
  <2>3. Latest' = RenderCard(state')
    BY <1>1, <2>2 DEF Latest
  <2> QED BY <1>1, <2>3 DEF Follows
<1>3. CASE Flushing = {} /\ \E i \in DOMAIN waiting : waiting[i] # "start"
  <2>1. PICK i \in DOMAIN waiting : waiting[i] # "start"
    BY <1>3
  <2>2. waiting[i] \in Callers
    BY ElementOfSeq, LenProperties DEF Typed
  <2>3. waiting[i] \in {"delta", "progress"}
    BY <1>3, <2>1, <2>2 DEF Flushing, Callers
  <2>4. \A j \in DOMAIN waiting : waiting[j] # "init"
    BY <1>3 DEF Flushing
  <2>5. timer' /\ dirty'
    BY <2>3, <2>4 DEF CardCreated
  <2> QED BY <1>1, <2>5 DEF Follows
<1>4. CASE Flushing = {} /\ ~ \E i \in DOMAIN waiting : waiting[i] # "start"
  <2>1. creating = RenderCard(state)
    BY <1>1, <1>4 DEF Follows
  <2>2. net' = <<>>
    BY <1>1, <1>4, FS_EmptySet, EmptySeq
  <2> QED BY <1>1, <2>1, <2>2 DEF Follows, Latest
<1> QED BY <1>2, <1>3, <1>4

\* The updates arrive in their order, so the latest one is the last to arrive.
LEMMA ReturnedFollows ==
  ASSUME Typed, Life, Follows, NEW i \in DOMAIN net, i <= 1, Returned(i, TRUE), shown' = net[i].card
  PROVE  Follows'
<1>1. /\ Len(net) \in Nat /\ DOMAIN net = 1 .. Len(net) /\ DOMAIN net' = 1 .. (Len(net) - 1)
      /\ Len(net') = Len(net) - 1
      /\ \A j \in DOMAIN net' : /\ (IF j < i THEN j ELSE j + 1) \in DOMAIN net
                                /\ net'[j] = net[IF j < i THEN j ELSE j + 1]
  BY ReturnedCards
<1>2. i = 1 /\ net # <<>>
  BY <1>1, EmptySeq
<1>3. net' \in Seq(Updates)
  BY Removed DEF Returned, Typed
<1>4. Latest' = Latest
  <2>1. CASE Len(net) = 1
    <3>1. net' = <<>>
      BY <1>1, <1>3, <2>1, EmptySeq
    <3> QED BY <1>2, <2>1, <3>1 DEF Latest
  <2>2. CASE Len(net) # 1
    <3>1. Len(net') \in DOMAIN net' /\ net' # <<>> /\ ~ (Len(net') < i) /\ Len(net') + 1 = Len(net)
      BY <1>1, <1>2, <2>2, EmptySeq
    <3> QED BY <1>1, <1>2, <3>1 DEF Latest
  <2> QED BY <2>1, <2>2
<1>5. shown # None
  BY <1>2 DEF Life
<1>6. UNCHANGED <<state, creating, token, timer, dirty, calls>> /\ ~ Pending
  BY <1>5 DEF Returned, Life
<1> QED BY <1>4, <1>5, <1>6 DEF Follows, Pending, Deciding

LEMMA SyncedNext ==
  ASSUME Typed, Life, Synced, [Next]_vars
  PROVE  Synced'
<1> USE DEF Typed
<1>1. CASE UNCHANGED vars
  BY <1>1 DEF vars, Synced, Follows, Latest, Pending, Deciding, Without
<1> SUFFICES ASSUME Next, Without({"fail", "reorder", "refused", "beaten"})' PROVE Synced'
  BY <1>1 DEF Synced
<1>2. /\ env' = env /\ "fail" \notin env /\ "reorder" \notin env /\ "refused" \notin env
      /\ "beaten" \notin env /\ creating # Failed
      /\ turn.ended # "no" =>
           IF queue = <<>> THEN Follows ELSE queue[Len(queue)].kind \in {"turn_aborted", "turn_summary"}
  BY TurnStays DEF Without, Synced
<1>3. ASSUME queue' = queue, turn'.ended = turn.ended, creating' # Failed, Follows => Follows'
      PROVE  Synced'
  BY <1>2, <1>3 DEF Synced
<1>4. ASSUME NEW s \in States, NEW by \in Callers, FlushCardUpdate(by, s) \/ UNCHANGED cardVars
      PROVE  creating' # Failed
  BY <1>2, <1>4, Asking, Rendered, Nulls
<1>5. CASE Agent
  <2>1. creating' # Failed
    BY <1>2, <1>5 DEF Agent, Streams, Completes, Aborts, AgentStep
  <2>2. CASE Streams
    <3>1. turn'.ended = "no"
      BY <2>2 DEF Streams
    <3> QED BY <2>1, <3>1 DEF Synced
  <2>3. ASSUME NEW o \in Outputs, o.kind \in {"turn_aborted", "turn_summary"},
               \/ queue' = Append(queue, o)
               \/ \E p \in Outputs : queue' = Append(Append(queue, p), o)
        PROVE  Synced'
    <3>1. queue' # <<>> /\ queue'[Len(queue')] = o
      <4>1. PICK q \in Seq(Outputs) : queue' = Append(q, o)
        BY <2>3, AppendProperties
      <4>2. Len(q) \in Nat /\ Len(queue') = Len(q) + 1 /\ queue'[Len(q) + 1] = o /\ queue' # <<>>
        BY <4>1, AppendProperties, LenProperties, EmptySeq
      <4> QED BY <4>2
    <3> QED BY <2>1, <2>3, <3>1 DEF Synced
  <2>4. CASE Completes
    <3> DEFINE complete == [kind |-> "turn_complete", data |-> Answer]
               summary == [kind |-> "turn_summary", data |-> Answer]
    <3>1. complete \in Outputs /\ summary \in Outputs /\ summary.kind = "turn_summary"
      BY AnswerTyped DEF Outputs
    <3>2. ~ turn.asked
      BY <1>2, <2>4 DEF Completes
    <3> HIDE DEF complete, summary
    <3>3. queue' = queue \o <<complete, summary>>
      BY <2>4, <3>2 DEF Completes, Send, complete, summary
    <3>4. queue \o <<complete, summary>> = Append(Append(queue, complete), summary)
      BY <3>1
    <3> QED BY <2>3, <3>1, <3>3, <3>4
  <2>5. CASE Aborts
    <3> DEFINE o == [kind |-> "turn_aborted", data |-> <<>>]
    <3>1. o \in Outputs /\ o.kind = "turn_aborted"
      BY DEF Outputs, Answers
    <3> HIDE DEF o
    <3>2. queue' = queue \o <<o>>
      BY <2>5 DEF Aborts, Send, o
    <3>3. queue \o <<o>> = Append(queue, o)
      BY <3>1
    <3> QED BY <2>3, <3>1, <3>2, <3>3
  <2> QED BY <1>5, <2>2, <2>4, <2>5 DEF Agent
<1>6. CASE Dispatch
  <2>1. PICK kind : Take(kind)
    BY <1>6 DEF Dispatch, HandleTurnStarted, AppendContent, UpdateProgress, HandleAgentMessage,
                HandleTurnComplete, HandleTurnAborted, CompleteTurn
  <2>2. /\ queue # <<>> /\ queue[1].kind = kind /\ Len(queue) \in Nat /\ Len(queue) # 0
        /\ queue' \in Seq(Outputs) /\ DOMAIN queue' = 1 .. (Len(queue) - 1)
        /\ \A i \in DOMAIN queue' : i + 1 \in DOMAIN queue /\ queue'[i] = queue[i + 1]
    BY <2>1, Taken, LenProperties, EmptySeq
  <2>3. Len(queue') = Len(queue) - 1
    BY <2>2, LenProperties
  <2>4. UNCHANGED <<turn, shown, cards, calls>>
    BY <1>6, DispatchAsks
  <2>5. creating' # Failed
    BY <1>2, <1>4, <1>6, DispatchAsks DEF cardVars
  <2>6. token \/ shown = None
    BY <2>2 DEF Life, Cut
  <2>7. CASE queue' # <<>>
    <3>1. Len(queue') \in DOMAIN queue' /\ Len(queue') + 1 = Len(queue)
      BY <2>2, <2>3, <2>7, EmptySeq, LenProperties
    <3>2. queue'[Len(queue')] = queue[Len(queue)]
      BY <2>2, <3>1
    <3> QED BY <1>2, <2>2, <2>4, <2>5, <2>7, <3>2 DEF Synced
  <2>8. CASE queue' = <<>> /\ turn.ended # "no"
    <3>1. Len(queue) = 1
      BY <2>2, <2>3, <2>8, EmptySeq
    <3>2. kind \in {"turn_aborted", "turn_summary"}
      BY <1>2, <2>2, <2>8, <3>1
    <3>3. HandleTurnAborted \/ CompleteTurn
      BY <1>6, <2>1, <3>2 DEF Dispatch, HandleTurnStarted, AppendContent, UpdateProgress,
         HandleAgentMessage, HandleTurnComplete, HandleTurnAborted, CompleteTurn, Take
    <3>4. FlushCardUpdate("chain", state') /\ "chain" \in Callers \ {"start"} /\ state' \in States
      BY <1>6, <3>3, DispatchTyped DEF HandleTurnAborted, CompleteTurn, AppendContent, Take, Callers
    <3>5. Follows'
      BY <1>2, <2>4, <2>6, <3>4, FlushFollows
    <3> QED BY <2>5, <2>8, <3>5 DEF Synced
  <2> QED BY <2>4, <2>5, <2>7, <2>8 DEF Synced
<1>7. CASE CardCreated
  BY <1>3, <1>7, CreatedFollows, Nulls DEF CardCreated
<1>8. CASE Aggregated
  <2>1. state' = [GetOrCreateState EXCEPT !.message = @ \o bucket] /\ "delta" \in Callers \ {"start"}
    BY <1>8 DEF Aggregated, Callers
  <2>2. GetOrCreateState \in States /\ GetOrCreateState.message \o bucket \in Answers
    BY AnswerTyped, ConcatProperties DEF States, Answers
  <2>3. state' \in States
    BY <2>1, <2>2 DEF States
  <2>4. ScheduleCardUpdate("delta", state') /\ UNCHANGED <<queue, turn, shown>>
    BY <1>8 DEF Aggregated
  <2>5. creating' # Failed
    BY <1>4, <2>1, <2>3, <2>4, ScheduleAsks
  <2>6. token \/ shown = None
    BY <1>8 DEF Aggregated, Life, Cut
  <2>7. Follows'
    <3>1. CASE token /\ dirty' = TRUE /\ timer' = TRUE /\ UNCHANGED cardVars
      BY <3>1, Nulls DEF Follows, Pending, Life, cardVars
    <3>2. CASE EnsureCard("delta", state')
      BY <1>2, <2>1, <2>3, <2>4, <2>6, <3>2, FlushFollows DEF FlushCardUpdate
    <3> QED BY <1>2, <2>4, <3>1, <3>2 DEF ScheduleCardUpdate, Unreachable
  <2> QED BY <1>3, <2>4, <2>5, <2>7
<1>9. CASE TimerFires
  <2>1. token /\ state # None /\ state \in States /\ creating = None /\ "timer" \in Callers \ {"start"}
    BY <1>9 DEF TimerFires, Life, Callers
  <2>2. UNCHANGED <<queue, turn, shown, state, calls>>
    BY <1>9 DEF TimerFires
  <2>3. CASE dirty
    <3>1. FlushCardUpdate("timer", state')
      BY <1>9, <2>1, <2>2, <2>3 DEF TimerFires
    <3> QED BY <1>2, <1>3, <1>4, <2>1, <2>2, <3>1, FlushFollows
  <2>4. CASE ~ dirty
    <3>1. UNCHANGED cardVars
      BY <1>9, <2>4 DEF TimerFires
    <3>2. Latest' = Latest /\ (Deciding <=> Deciding')
      BY <2>2, <3>1 DEF Latest, Deciding, cardVars
    <3>3. Follows => Latest = RenderCard(state) \/ Deciding
      BY <2>1, <2>4 DEF Follows, Pending
    <3> QED BY <1>2, <1>3, <2>1, <2>2, <3>1, <3>2, <3>3 DEF Follows, Pending, cardVars
  <2> QED BY <2>3, <2>4
<1>10. CASE InitializeTurnCard
  <2>1. state' \in States /\ "init" \in Callers \ {"start"}
    BY <1>10, AnswerTyped DEF InitializeTurnCard, Callers
  <2>2. FlushCardUpdate("init", state') /\ UNCHANGED <<queue, turn, shown>>
    BY <1>10 DEF InitializeTurnCard
  <2>3. token \/ shown = None
    BY <1>10 DEF InitializeTurnCard, Life, Cut
  <2> QED BY <1>2, <1>3, <1>4, <2>1, <2>2, <2>3, FlushFollows
<1>11. CASE Updated
  <2>1. PICK i \in DOMAIN net : Returned(i, TRUE) /\ shown' = net[i].card /\ ~ (i > 1)
    BY <1>2, <1>11 DEF Updated
  <2>2. i <= 1
    BY <2>1, LenProperties
  <2> QED BY <1>2, <1>3, <2>1, <2>2, ReturnedFollows DEF Returned
<1>12. ~ CreationFails /\ ~ UpdateFails
  BY <1>2 DEF CreationFails, UpdateFails
<1>13. CASE CreationRepeated
  <2>1. UNCHANGED <<turn, queue, state, token, creating, waiting, dirty, timer, net, shown, calls>>
    BY <1>13 DEF CreationRepeated
  <2> QED BY <1>2, <1>3, <2>1 DEF Follows, Latest, Pending, Deciding
<1>14. CASE Restart
  <2>1. queue' = <<>> /\ state' = None /\ creating' = None
    BY <1>14 DEF Restart
  <2> QED BY <2>1, Nulls DEF Synced, Follows
<1>15. ASSUME NEW u \in Users, Click(u) \/ Finish(u) PROVE Synced'
  <2>1. shown # None /\ shown' = shown /\ "user" \in Callers \ {"start"}
    BY <1>15 DEF Click, Finish, PrepareInterruptingCard, Decide, FinalizeInterruptAction, Callers,
         CancelInterruptingCard, UpdateCardAction, DecisionFails, Life, Deciding, Interrupting, ClickStep
  <2>2. ~ Pending
    BY <2>1 DEF Life
  <2>3. queue' = queue /\ turn'.ended = turn.ended
    BY <1>15 DEF Click, Finish, PrepareInterruptingCard, Decide, FinalizeInterruptAction,
         CancelInterruptingCard, UpdateCardAction, DecisionFails, ClickStep
  <2>4. \A v \in Users : v # u => calls'[v] = calls[v]
    BY <1>15 DEF Click, Finish, PrepareInterruptingCard, Decide, FinalizeInterruptAction,
         CancelInterruptingCard, UpdateCardAction, DecisionFails
  <2>5. ASSUME Interrupting, state # None PROVE token
    BY <2>1, <2>5 DEF Life, Cut
  <2>6. ASSUME state' \in States, Posts(RenderCard(state')), creating' = creating PROVE Synced'
    <3>1. Latest' = RenderCard(state')
      BY <2>6, Rendered, LatestPosted
    <3> QED BY <1>2, <1>3, <2>2, <2>3, <2>6, <3>1 DEF Follows, Pending
  <2>7. ASSUME UNCHANGED <<state, cardVars, dirty, timer>>, calls[u].pc # "deciding" PROVE Synced'
    <3>1. Deciding => Deciding'
      BY <2>4, <2>7 DEF Deciding
    <3>2. Latest' = Latest
      BY <2>1, <2>7 DEF Latest, cardVars
    <3> QED BY <1>2, <1>3, <2>1, <2>2, <2>3, <2>7, <3>1, <3>2 DEF Follows, Pending, cardVars
  <2>8. CASE PrepareInterruptingCard(u)
    <3>1. CASE state = None
      <4>1. calls[u].pc = "idle"
        BY <2>8 DEF PrepareInterruptingCard, Idle
      <4> QED BY <2>7, <2>8, <3>1, <4>1 DEF PrepareInterruptingCard, cardVars
    <3>2. CASE state # None
      <4>1. state' \in States
        BY <2>8, <3>2 DEF PrepareInterruptingCard, States
      <4>2. Posts(RenderCard(state')) /\ creating' = creating
        BY <2>1, <2>8, <3>2 DEF PrepareInterruptingCard, Reply, Posts
      <4> QED BY <2>6, <4>1, <4>2
    <3> QED BY <3>1, <3>2
  <2>9. ASSUME NEW c \in Decisions, Decide(u, c) PROVE Synced'
    <3>1. Deciding' /\ creating' = creating
      BY <2>9 DEF Decide, Deciding
    <3> QED BY <1>2, <1>3, <2>2, <2>3, <3>1 DEF Follows, Pending
  <2>10. CASE FinalizeInterruptAction(u)
    <3>1. Interrupting /\ state' = state /\ timer' = timer
      BY <2>10 DEF FinalizeInterruptAction, Interrupting
    <3>2. CASE state = None
      BY <2>7, <2>10, <3>1, <3>2 DEF FinalizeInterruptAction
    <3>3. CASE state # None
      <4>1. FlushCardUpdate("user", state') /\ state' \in States
        BY <2>10, <3>1, <3>3 DEF FinalizeInterruptAction
      <4> QED BY <1>2, <1>3, <1>4, <2>1, <2>3, <2>5, <3>1, <3>3, <4>1, FlushFollows
    <3> QED BY <3>2, <3>3
  <2>11. CASE CancelInterruptingCard(u)
    <3>1. Interrupting /\ timer' = timer
      BY <2>11 DEF CancelInterruptingCard, Interrupting
    <3>2. CASE ~ (state # None /\ state.action = "interrupting")
      BY <2>7, <2>11, <3>1, <3>2 DEF CancelInterruptingCard
    <3>3. CASE state # None /\ state.action = "interrupting"
      <4>1. FlushCardUpdate("user", state')
        BY <2>11, <3>3 DEF CancelInterruptingCard
      <4>2. state' \in States
        BY <2>11, <3>3 DEF CancelInterruptingCard, States
      <4> QED BY <1>2, <1>3, <1>4, <2>1, <2>3, <2>5, <3>1, <3>3, <4>1, <4>2, FlushFollows
    <3> QED BY <3>2, <3>3
  <2>12. CASE UpdateCardAction(u)
    <3>1. calls[u].choice \in Decisions
      BY <2>12 DEF UpdateCardAction, Clicks, Idle
    <3>2. Recovered \in States
      BY AnswerTyped DEF Recovered, States
    <3>3. state' \in States
      BY <2>12, <3>1, <3>2 DEF UpdateCardAction, States
    <3>4. Posts(RenderCard(state')) /\ creating' = creating
      BY <2>1, <2>12 DEF UpdateCardAction, Reply, Posts
    <3> QED BY <2>6, <3>3, <3>4
  <2>13. ~ DecisionFails(u)
    BY <1>2 DEF DecisionFails
  <2> QED BY <1>15, <2>8, <2>9, <2>10, <2>11, <2>12, <2>13 DEF Click, Finish
<1> QED BY <1>5, <1>6, <1>7, <1>8, <1>9, <1>10, <1>11, <1>12, <1>13, <1>14, <1>15
       DEF Next, Card, Timed, Trouble
-----------------------------------------------------------------------------
(* The theorems.                                                           *)

LEMMA IInvInit == Init => IInv
<1> SUFFICES ASSUME Init PROVE IInv
  OBVIOUS
<1>1. Typed
  <2>1. turn \in [out : 0 .. MaxDeltas, ended : {"no", "completed", "aborted"}, asked : BOOLEAN]
    BY CardAssumption DEF Init
  <2>2. [kind |-> "turn_started", data |-> <<>>] \in Outputs /\ <<>> \in Answers
    BY DEF Outputs, Answers
  <2>3. calls \in [Users -> Clicks]
    BY DEF Init, Clicks
  <2>4. queue \in Seq(Outputs)
    BY <2>2 DEF Init
  <2>5. waiting \in Seq(Callers) /\ net \in Seq(Updates)
    BY DEF Init
  <2>6. bucket \in Answers
    BY <2>2 DEF Init
  <2> QED BY <2>1, <2>3, <2>4, <2>5, <2>6 DEF Init, Typed
<1>2. Queue
  <2>1. DOMAIN queue = {1} /\ queue[1].kind = "turn_started"
    BY DEF Init
  <2> QED BY <2>1 DEF Queue, Ends
<1>3. Life /\ Truth /\ ~ Deciding /\ ~ Interrupting
  BY Nulls DEF Init, Life, Truth, Pending, Deciding, Interrupting, Idle
<1>4. LastWord /\ Stopping /\ Synced
  BY <1>3, Nulls DEF Init, LastWord, Stopping, Synced, Pending
<1> QED BY <1>1, <1>2, <1>3, <1>4 DEF IInv

LEMMA IInvNext == IInv /\ [Next]_vars => IInv'
  BY TypedNext, QueueNext, LifeNext, TruthNext, LastWordNext, StoppingNext, SyncedNext DEF IInv

LEMMA Invariant == Spec => []IInv
  BY IInvInit, IInvNext, PTL DEF Spec

\* The chat has one card of the turn, whoever needs it first and whatever arrives late,
\* and what it says of the end of the turn, and shows of its answer, is true.
THEOREM CardAlwaysTrue == Spec => []CardTrue
<1>1. IInv => CardTrue
  <2> SUFFICES ASSUME IInv PROVE CardTrue
    OBVIOUS
  <2>1. TypeOK
    <3>1. \A i \in 1 .. Len(queue) : queue[i] \in Outputs
      BY ElementOfSeq DEF IInv, Typed
    <3>2. \A i \in 1 .. Len(waiting) : waiting[i] \in Callers
      BY ElementOfSeq DEF IInv, Typed
    <3>3. \A i \in 1 .. Len(net) : net[i] \in [card : Cards, by : Callers]
      BY ElementOfSeq DEF IInv, Typed, Updates
    <3>4. cards \in 0 .. 2
      BY DEF IInv, Typed, Life
    <3>5. \A u \in Users : calls[u] = Idle \/ calls[u].pc \in {"interrupting", "deciding"}
      BY DEF IInv, Typed, Clicks
    <3> QED BY <3>1, <3>2, <3>3, <3>4, <3>5 DEF IInv, Typed, TypeOK
  <2>2. OneCard
    BY DEF IInv, Life, Typed, OneCard
  <2>3. ShownTrue
    BY DEF IInv, Truth, TrueCard, Over, ShownTrue
  <2> QED BY <2>1, <2>2, <2>3 DEF CardTrue
<1> QED BY <1>1, Invariant, PTL

\* When the turn is over and nothing is under way, the platform shows what the
\* card manager knows: no change is lost between flags, timer and updates.
THEOREM NothingLost == Spec => []Settled
<1>1. IInv => Settled
  BY DEF IInv, Settled, Quiet, Synced, Follows, Latest, Pending, Deciding, Idle
<1> QED BY <1>1, Invariant, PTL

\* A card that has shown the end of its turn never shows it running again.
THEOREM EndIsFinal == Spec => StaysEnded
<1>1. ASSUME IInv, [Next]_vars, Without({"reorder", "beaten", "other"}), Ended
      PROVE  Ended'
  <2> USE DEF IInv
  <2>1. /\ shown # None /\ Ending(shown.look)
        /\ \A i \in DOMAIN net : Ending(net[i].card.look)
    BY <1>1 DEF LastWord, Ended, Ending
  <2>2. CASE UNCHANGED vars
    BY <1>1, <2>2 DEF vars, Ended
  <2>3. CASE Next
    <3>1. CASE Asked
      BY <1>1, <3>1 DEF Asked, Ended
    <3>2. ~ CardCreated
      BY <1>1, <2>1, CreatedCards
    <3>3. CASE Returns
      <4>1. PICK i \in DOMAIN net : shown' \in {shown, net[i].card}
        BY <3>3 DEF Returns
      <4> QED BY <1>1, <2>1, <4>1, Flying, Nulls DEF Ended, Ending
    <3> QED BY <1>1, <2>3, <3>1, <3>2, <3>3, Moves
  <2> QED BY <1>1, <2>2, <2>3
<1>2. IInv /\ [Next]_vars => (Without({"reorder", "beaten", "other"}) => (Ended => Ended'))
  BY <1>1
<1>3. IInv /\ [Next]_vars => [Without({"reorder", "beaten", "other"}) => (Ended => Ended')]_vars
  BY <1>2
<1> QED BY <1>3, Invariant, PTL DEF Spec, StaysEnded
=============================================================================
