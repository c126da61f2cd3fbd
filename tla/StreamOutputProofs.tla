------------------------- MODULE StreamOutputProofs -------------------------
(***************************************************************************)
(* Proofs about StreamOutput, for any kinds of text and any number of      *)
(* events: TextConserved, SummaryLast and EndStored.  IInv adds to them    *)
(* when the coordinator holds no text back: from the last forced flush of  *)
(* the turn on, so that neither the cleanup nor the summary leaves text    *)
(* behind.  Stow adds which calls of the database are under way, so that   *)
(* none of them undoes what the end of the turn stores.                    *)
(***************************************************************************)
EXTENDS StreamOutput, SequenceTheorems, TLAPS

Texts == [Kinds -> Seq(Nat)]

\* Where the text is: before the last flush of a turn the coordinator may hold
\* some back, afterwards it does not, and the summary leaves none in the buffer.
Emptied ==
    /\ lane.pc \in {"final", "summary"} => st.delta = NoText
    /\ finished => st.delta = NoText
    /\ summary => finished /\ buffer = NoText

IInv == TypeOK /\ TextConserved /\ Emptied

-----------------------------------------------------------------------------
(* Text on its way: joining, and what a flush leaves. *)

\* The empty text is a text.
LEMMA NoTextType == NoText \in Texts
  BY DEF NoText, Texts

\* Joining texts gives a text.
LEMMA JoinedType ==
    ASSUME NEW f \in Texts, NEW g \in Texts
    PROVE  Joined(f, g) \in Texts
<1>1. \A k \in Kinds : f[k] \o g[k] \in Seq(Nat) BY DEF Texts
<1> QED BY <1>1 DEF Joined, Texts

\* Joining is associative.
LEMMA Regrouped ==
    ASSUME NEW a \in Seq(Nat), NEW b \in Seq(Nat), NEW c \in Seq(Nat)
    PROVE  a \o b \o c = a \o (b \o c)
  BY ConcatAssociative

\* Dispatching the buffer keeps what the three places hold together ...
LEMMA Dispatched ==
    ASSUME NEW c \in Texts, NEW b \in Texts, NEW d \in Texts, NEW k \in Kinds
    PROVE  Joined(c, b)[k] \o NoText[k] \o d[k] = c[k] \o b[k] \o d[k]
<1>1. c[k] \in Seq(Nat) /\ b[k] \in Seq(Nat) /\ c[k] \o b[k] \in Seq(Nat) BY DEF Texts
<1>2. (c[k] \o b[k]) \o <<>> = c[k] \o b[k] BY <1>1, ConcatEmptySeq
<1> QED BY <1>1, <1>2 DEF Joined, NoText

\* ... and so does handing gathered text to the buffer.
LEMMA Handed ==
    ASSUME NEW c \in Texts, NEW b \in Texts, NEW d \in Texts, NEW k \in Kinds
    PROVE  c[k] \o Joined(b, d)[k] \o NoText[k] = c[k] \o b[k] \o d[k]
<1>1. c[k] \in Seq(Nat) /\ b[k] \in Seq(Nat) /\ d[k] \in Seq(Nat) BY DEF Texts
<1>2. b[k] \o d[k] \in Seq(Nat) /\ c[k] \o (b[k] \o d[k]) \in Seq(Nat) BY <1>1
<1>3. c[k] \o (b[k] \o d[k]) = (c[k] \o b[k]) \o d[k] BY <1>1, Regrouped
<1>4. (c[k] \o (b[k] \o d[k])) \o <<>> = c[k] \o (b[k] \o d[k]) BY <1>2, ConcatEmptySeq
<1> QED BY <1>3, <1>4 DEF Joined, NoText

\* The chunk after the first n makes them the first n + 1.
LEMMA Counted ==
    ASSUME NEW n \in Nat
    PROVE  Append(Numbers(n), n + 1) = Numbers(n + 1) /\ Numbers(n) \in Seq(Nat)
<1>1. Numbers(n) \in Seq(Nat) /\ Len(Numbers(n)) = n BY DEF Numbers
<1> QED BY <1>1 DEF Numbers

\* A chunk gathered last is the last one.
LEMMA Gathered ==
    ASSUME NEW c \in Seq(Nat), NEW b \in Seq(Nat), NEW d \in Seq(Nat), NEW n \in Nat,
           c \o b \o d = Numbers(n)
    PROVE  c \o b \o Append(d, n + 1) = Numbers(n + 1)
<1>1. c \o b \in Seq(Nat) /\ <<n + 1>> \in Seq(Nat) /\ n + 1 \in Nat OBVIOUS
<1>2. Append(d, n + 1) = d \o <<n + 1>> BY <1>1, AppendIsConcat
<1>3. (c \o b) \o (d \o <<n + 1>>) = ((c \o b) \o d) \o <<n + 1>> BY <1>1, Regrouped
<1>4. Append(Numbers(n), n + 1) = Numbers(n) \o <<n + 1>> BY <1>1, Counted, AppendIsConcat
<1> QED BY <1>2, <1>3, <1>4, Counted

\* A UI flush leaves a state without gathered text.
LEMMA FlushedUiOK ==
    ASSUME NEW s \in Aggregate
    PROVE  FlushedUi(s) \in Aggregate /\ FlushedUi(s).delta = NoText
<1>1. CASE Pending(s)
  BY <1>1, NoTextType DEF FlushedUi, Aggregate, Texts
<1>2. CASE ~Pending(s)
  <2>1. \A k \in Kinds : s.delta[k] = <<>> BY <1>2 DEF Pending
  <2>2. s.delta = NoText BY <2>1 DEF NoText, Aggregate
  <2> QED BY <1>2, <2>2 DEF FlushedUi
<1> QED BY <1>1, <1>2

\* A completed persist flush leaves the gathered text alone.
LEMMA PersistedOK ==
    ASSUME NEW s \in Aggregate
    PROVE  Persisted(s) \in Aggregate /\ Persisted(s).delta = s.delta
  BY DEF Persisted, Aggregate

\* Where a forced flush goes on, and that its two points are all.
LEMMA AfterValues ==
    DOMAIN After = {"flush", "last_flush"} /\ After["flush"] = "sync" /\ After["last_flush"] = "final"
  BY DEF After

\* What the lane stores is a call of syncTurnState.
LEMMA CallType ==
    ASSUME NEW snap \in Snapshot
    PROVE  Call(snap) \in Sync /\ [by |-> "flush", snap |-> snap] \in Sync
  BY DEF Call, Sync

\* The text of a turn: gathered, buffered or dispatched, but the same.
Kept == \A k \in Kinds : card'[k] \o buffer'[k] \o st'.delta[k] = card[k] \o buffer[k] \o st.delta[k]

Moved ==
    \/ st'.delta = st.delta /\ buffer' = buffer /\ card' = card
    \/ st'.delta = st.delta /\ buffer' = NoText /\ card' = Joined(card, buffer)
    \/ st'.delta = NoText /\ buffer' = Joined(buffer, st.delta) /\ card' = card

\* Moving text from place to place keeps it.
LEMMA MovedKept ==
    ASSUME TypeOK, Moved
    PROVE  Kept
<1>1. card \in Texts /\ buffer \in Texts /\ st.delta \in Texts BY DEF TypeOK, Aggregate, Texts
<1>2. CASE st'.delta = st.delta /\ buffer' = buffer /\ card' = card
  BY <1>2 DEF Kept
<1>3. CASE st'.delta = st.delta /\ buffer' = NoText /\ card' = Joined(card, buffer)
  <2>1. \A k \in Kinds : Joined(card, buffer)[k] \o NoText[k] \o st.delta[k]
                            = card[k] \o buffer[k] \o st.delta[k]
    BY <1>1, Dispatched
  <2> QED BY <1>3, <2>1 DEF Kept
<1>4. CASE st'.delta = NoText /\ buffer' = Joined(buffer, st.delta) /\ card' = card
  <2>1. \A k \in Kinds : card[k] \o Joined(buffer, st.delta)[k] \o NoText[k]
                            = card[k] \o buffer[k] \o st.delta[k]
    BY <1>1, Handed
  <2> QED BY <1>4, <2>1 DEF Kept
<1> QED BY <1>2, <1>3, <1>4 DEF Moved

\* Text that is kept while nothing is said is conserved.
LEMMA KeptConserved ==
    ASSUME TextConserved, Kept, heard' = heard
    PROVE  TextConserved'
  BY DEF TextConserved, Kept

\* A forced flush waits, or hands all gathered text to the buffer.
LEMMA ForceFlushOK ==
    ASSUME TypeOK, NEW f \in Frame, f.pc \in {"flush", "last_flush"}, ForceFlush(f)
    PROVE  /\ st' \in Aggregate /\ timers' \in [{"persist", "ui"} -> TimerStates]
           /\ db' \in Seq(Sync) /\ buffer' \in Texts /\ lane' \in Frame
           /\ \/ st' = st /\ buffer' = buffer /\ lane' = f
              \/ /\ st'.delta = NoText /\ buffer' = Joined(buffer, st.delta)
                 /\ lane'.pc = IF f.pc = "flush" THEN "sync" ELSE "final"
<1>0. /\ st \in Aggregate /\ timers \in [{"persist", "ui"} -> TimerStates]
      /\ db \in Seq(Sync) /\ buffer \in Texts /\ st.delta \in Texts
  BY DEF TypeOK, Texts, Aggregate
<1>1. CASE st.open /\ st.dirty
  <2>1. st.latest \in Snapshot BY <1>0 DEF Aggregate
  <2>2. Append(db, [by |-> "flush", snap |-> st.latest]) \in Seq(Sync) BY <1>0, <2>1, CallType
  <2>3. [timers EXCEPT !.persist = "none"] \in [{"persist", "ui"} -> TimerStates]
    BY <1>0 DEF TimerStates
  <2>4. st' = st /\ buffer' = buffer /\ lane' = f BY <1>1 DEF ForceFlush
  <2> QED BY <1>0, <1>1, <2>2, <2>3, <2>4 DEF ForceFlush, StartPersist
<1>2. CASE ~(st.open /\ st.dirty)
  <2>1. f.snap \in Snapshot BY DEF Frame
  <2>2. Call(f.snap) \in Sync BY <2>1, CallType
  <2>8. Append(db, Call(f.snap)) \in Seq(Sync) BY <1>0, <2>2
  <2>3. NoTimers \in [{"persist", "ui"} -> TimerStates] BY DEF NoTimers, TimerStates
  <2>4. After[f.pc] = IF f.pc = "flush" THEN "sync" ELSE "final" BY AfterValues
  <2>5. [f EXCEPT !.pc = After[@]] \in Frame /\ [f EXCEPT !.pc = After[@]].pc = After[f.pc]
    BY <2>4 DEF Frame, PCs
  <2>6. st' = FlushedUi(st) /\ buffer' = Joined(buffer, st.delta) BY <1>2 DEF ForceFlush, FlushUi
  <2>7. Joined(buffer, st.delta) \in Texts BY <1>0, JoinedType
  <2> QED BY <1>0, <1>2, <2>3, <2>4, <2>5, <2>6, <2>7, <2>8, FlushedUiOK DEF ForceFlush
<1> QED BY <1>1, <1>2

-----------------------------------------------------------------------------
(* Steps of the agent. *)

\* The types of what most steps use.
LEMMA Parts ==
    ASSUME TypeOK
    PROVE  /\ st \in Aggregate /\ st.delta \in Texts /\ buffer \in Texts /\ card \in Texts
           /\ timers \in [{"persist", "ui"} -> TimerStates] /\ db \in Seq(Sync)
           /\ lane \in Frame /\ heard \in [Kinds -> Nat] /\ Current \in Snapshot
  BY DEF TypeOK, Aggregate, Texts, Current, Snapshot

\* A persist timer that is set, or cleared, is a timer.
LEMMA ArmType ==
    ASSUME timers \in [{"persist", "ui"} -> TimerStates], NEW names
    PROVE  Arm(names) \in [{"persist", "ui"} -> TimerStates]
  BY DEF Arm, TimerStates

\* A touched state is a state with the same text.
LEMMA TouchedOK ==
    ASSUME st \in Aggregate, NEW snap \in Snapshot
    PROVE  Touched(snap) \in Aggregate /\ Touched(snap).delta = st.delta
<1>1. st.sequence + 1 \in Nat BY DEF Aggregate
<1> QED BY <1>1 DEF Touched, Aggregate

\* Streamed text is gathered, and sometimes flushed at once.
LEMMA IngestOK ==
    ASSUME IInv, NEW k \in Kinds, Ingest(k)
    PROVE  IInv'
<1> DEFINE h == [heard EXCEPT ![k] = @ + 1]
           s == [Touched([Current EXCEPT !.text = h]) EXCEPT !.delta[k] = Append(@, h[k])]
           d == [st.delta EXCEPT ![k] = Append(@, h[k])]
           set == Arm({"persist", "ui"})
<1>0. TypeOK /\ TextConserved /\ Emptied BY DEF IInv
<1>1. /\ heard' = h /\ ~finished /\ lane.pc = "idle" /\ lane' = lane /\ finished' = finished
      /\ card' = card /\ summary' = summary
  BY DEF Ingest, MayTake
<1>2. h \in [Kinds -> Nat] /\ h[k] = heard[k] + 1 BY <1>0, Parts
<1>3. d \in Texts
  <2>1. Append(st.delta[k], h[k]) \in Seq(Nat) BY <1>0, <1>2, Parts DEF Texts
  <2> QED BY <1>0, <2>1, Parts DEF Texts
<1>4. s \in Aggregate /\ s.delta = d
  <2>1. [Current EXCEPT !.text = h] \in Snapshot BY <1>0, <1>2, Parts DEF Snapshot
  <2>2. Touched([Current EXCEPT !.text = h]) \in Aggregate
        /\ Touched([Current EXCEPT !.text = h]).delta = st.delta
    BY <1>0, <2>1, Parts, TouchedOK
  <2> QED BY <1>3, <2>2 DEF Aggregate, Texts
<1>5. PICK persist \in BOOLEAN, ui \in BOOLEAN :
        /\ IF persist /\ ~Flushing THEN StartPersist(s) ELSE UNCHANGED db
        /\ timers' = [set EXCEPT !.persist = IF persist /\ ~Flushing THEN "none" ELSE @,
                                 !.ui = IF ui THEN "none" ELSE @]
        /\ IF ui THEN FlushUi(s) ELSE st' = s /\ UNCHANGED buffer
  BY <1>1 DEF Ingest
<1>6. db' \in Seq(Sync)
  <2>1. s.latest \in Snapshot BY <1>4 DEF Aggregate
  <2>2. [by |-> "flush", snap |-> s.latest] \in Sync BY <2>1, CallType
  <2>3. db \in Seq(Sync) /\ Append(db, [by |-> "flush", snap |-> s.latest]) \in Seq(Sync)
    BY <1>0, <2>2, Parts
  <2> QED BY <1>5, <2>3 DEF StartPersist
<1>7. timers' \in [{"persist", "ui"} -> TimerStates]
  <2>1. set \in [{"persist", "ui"} -> TimerStates] BY <1>0, ArmType, Parts
  <2> QED BY <1>5, <2>1 DEF TimerStates
<1>8. /\ st' \in Aggregate /\ buffer' \in Texts
      /\ \/ st'.delta = d /\ buffer' = buffer
         \/ st'.delta = NoText /\ buffer' = Joined(buffer, d)
  <2>1. CASE ui BY <1>0, <1>3, <1>4, <1>5, <2>1, FlushedUiOK, JoinedType, Parts DEF FlushUi
  <2>2. CASE ~ui BY <1>0, <1>4, <1>5, <2>2, Parts
  <2> QED BY <2>1, <2>2
<1>9. TypeOK'
  <2>1. events' \in 0..MaxEvents BY StreamConstants, <1>0 DEF TypeOK, Ingest, MayTake
  <2> QED BY <1>0, <1>1, <1>2, <1>6, <1>7, <1>8, <2>1 DEF TypeOK, Texts, Ingest
<1>10. TextConserved'
  <2>1. ASSUME NEW j \in Kinds PROVE card[j] \o buffer[j] \o d[j] = Numbers(h[j])
    <3>1. card[j] \o buffer[j] \o st.delta[j] = Numbers(heard[j]) BY <1>0 DEF TextConserved
    <3>2. CASE j = k
      <4>1. /\ card[k] \in Seq(Nat) /\ buffer[k] \in Seq(Nat) /\ st.delta[k] \in Seq(Nat)
            /\ heard[k] \in Nat
        BY <1>0, Parts DEF Texts
      <4>2. card[k] \o buffer[k] \o Append(st.delta[k], heard[k] + 1) = Numbers(heard[k] + 1)
        BY <3>1, <3>2, <4>1, Gathered
      <4>3. d[k] = Append(st.delta[k], heard[k] + 1) BY <1>0, <1>2, Parts DEF Texts
      <4> QED BY <1>2, <3>2, <4>2, <4>3
    <3>3. CASE j # k
      <4>1. d[j] = st.delta[j] /\ h[j] = heard[j] BY <1>0, <3>3, Parts DEF Texts
      <4> QED BY <3>1, <4>1
    <3> QED BY <3>2, <3>3
  <2>2. \A j \in Kinds : card[j] \o Joined(buffer, d)[j] \o NoText[j] = card[j] \o buffer[j] \o d[j]
    <3>1. card \in Texts /\ buffer \in Texts BY <1>0, Parts
    <3> QED BY <1>3, <3>1, Handed
  <2>3. \A j \in Kinds : card'[j] \o buffer'[j] \o st'.delta[j] = card[j] \o buffer[j] \o d[j]
    BY <1>1, <1>8, <2>2
  <2> QED BY <1>1, <2>1, <2>3 DEF TextConserved
<1>11. Emptied' BY <1>0, <1>1 DEF Emptied
<1> QED BY <1>9, <1>10, <1>11 DEF IInv

\* A notification empties the intent buffer.
LEMMA NoteOK ==
    ASSUME IInv, Note
    PROVE  IInv'
<1>0. TypeOK /\ TextConserved /\ Emptied BY DEF IInv
<1>1. /\ ~finished /\ lane.pc = "idle" /\ lane' = lane /\ finished' = finished /\ summary' = summary
      /\ buffer' = NoText /\ card' = Joined(card, buffer) /\ st' = Touched(Current) /\ heard' = heard
  BY DEF Note, MayTake
<1>2. st' \in Aggregate /\ st'.delta = st.delta BY <1>0, <1>1, Parts, TouchedOK
<1>3. timers' \in [{"persist", "ui"} -> TimerStates] BY <1>0, ArmType, Parts DEF Note
<1>4. events' \in 0..MaxEvents BY StreamConstants, <1>0 DEF TypeOK, Note, MayTake
<1>5. card' \in Texts /\ buffer' \in Texts BY <1>0, <1>1, JoinedType, NoTextType, Parts
<1>6. TypeOK' BY <1>0, <1>1, <1>2, <1>3, <1>4, <1>5 DEF TypeOK, Texts, Note
<1>7. Moved BY <1>1, <1>2 DEF Moved
<1>8. TextConserved' BY <1>0, <1>1, <1>7, MovedKept, KeptConserved
<1>9. Emptied' BY <1>0, <1>1 DEF Emptied
<1> QED BY <1>6, <1>8, <1>9 DEF IInv

\* A forced flush of a critical message, from the idle lane.
LEMMA CriticalOK ==
    ASSUME IInv, lane.pc = "idle", ~finished, NEW f \in Frame, f.pc = "flush", ForceFlush(f),
           heard' = heard, steps' \in Nat, events' \in 0..MaxEvents,
           UNCHANGED <<card, summary, row, finished>>
    PROVE  IInv'
<1>0. TypeOK /\ TextConserved /\ Emptied BY DEF IInv
<1>1. /\ st' \in Aggregate /\ timers' \in [{"persist", "ui"} -> TimerStates]
      /\ db' \in Seq(Sync) /\ buffer' \in Texts /\ lane' \in Frame
      /\ \/ st' = st /\ buffer' = buffer /\ lane' = f
         \/ st'.delta = NoText /\ buffer' = Joined(buffer, st.delta) /\ lane'.pc = "sync"
  BY <1>0, ForceFlushOK
<1>2. TypeOK' BY <1>0, <1>1 DEF TypeOK, Texts
<1>3. Moved BY <1>1 DEF Moved
<1>4. TextConserved' BY <1>0, <1>3, MovedKept, KeptConserved
<1>5. Emptied' BY <1>0, <1>1 DEF Emptied
<1> QED BY <1>2, <1>4, <1>5 DEF IInv

\* Progress reports and ends of the turn.
LEMMA AgentOK ==
    ASSUME IInv, AgentStep
    PROVE  IInv'
<1>0. TypeOK /\ TextConserved /\ Emptied BY DEF IInv
<1>1. CASE Progress
  <2> DEFINE snap == [text |-> heard, steps |-> steps']
             f == [pc |-> "flush", kind |-> "progress", snap |-> snap]
  <2>1. steps' \in Nat /\ heard' = heard BY <1>0, <1>1 DEF Progress, TypeOK
  <2>2. events' \in 0..MaxEvents BY StreamConstants, <1>0, <1>1 DEF TypeOK, Progress, MayTake
  <2>3. snap \in Snapshot BY <1>0, <2>1, Parts DEF Snapshot
  <2>4. f \in Frame /\ f.pc = "flush" BY <2>3 DEF Frame, PCs, Ends
  <2>5. ForceFlush(f) BY <1>1 DEF Progress, Critical
  <2> HIDE DEF f
  <2>6. /\ lane.pc = "idle" /\ ~finished
        /\ UNCHANGED <<card, summary, row, finished>>
    BY <1>1 DEF Progress, MayTake
  <2> QED BY <2>1, <2>2, <2>4, <2>5, <2>6, CriticalOK
<1>2. ASSUME NEW kind \in Ends, End(kind) PROVE IInv'
  <2> DEFINE f == [pc |-> "flush", kind |-> kind, snap |-> Current]
  <2>1. f \in Frame /\ f.pc = "flush" BY <1>0, Parts DEF Frame, PCs
  <2>2. ForceFlush(f) BY <1>2 DEF End, Critical
  <2> HIDE DEF f
  <2>3. /\ heard' = heard /\ steps' \in Nat /\ events' \in 0..MaxEvents
        /\ lane.pc = "idle" /\ ~finished
        /\ UNCHANGED <<card, summary, row, finished>>
    BY <1>0, <1>2 DEF End, context, TypeOK
  <2> QED BY <2>1, <2>2, <2>3, CriticalOK
<1>3. CASE EchoEnd
  <2>1. Nothing \in Snapshot BY DEF Nothing, Snapshot
  <2>2. Call(Nothing) \in Sync BY <2>1, CallType
  <2>3. db' \in Seq(Sync)
    <3>1. db \in Seq(Sync) /\ db' = Append(db, Call(Nothing)) BY <1>0, <1>3, Parts DEF EchoEnd
    <3> QED BY <2>2, <3>1
  <2>4. lane' \in Frame /\ lane'.pc = "sync" BY <1>3, <2>1 DEF EchoEnd, Frame, PCs, Ends
  <2>5. UNCHANGED <<heard, steps, events, st, timers, buffer, card, summary, row, finished>>
    BY <1>3 DEF EchoEnd, context, stream, shown
  <2>6. TypeOK' BY <1>0, <2>3, <2>4, <2>5 DEF TypeOK
  <2>7. TextConserved' BY <1>0, <2>5 DEF TextConserved
  <2>8. Emptied' BY <1>0, <2>4, <2>5 DEF Emptied
  <2> QED BY <2>6, <2>7, <2>8 DEF IInv
<1>4. "complete" \in Ends /\ "aborted" \in Ends BY DEF Ends
<1> QED BY <1>1, <1>2, <1>3, <1>4, IngestOK, NoteOK DEF AgentStep

-----------------------------------------------------------------------------
(* Steps of the lane and of the database. *)

\* What the database does with a call, and what is left of them.
LEMMA AnsweredOK ==
    ASSUME TypeOK, db # <<>>
    PROVE  Stored(Head(db).snap) \in Snapshot /\ Tail(db) \in Seq(Sync)
<1>1. db \in Seq(Sync) /\ row \in Snapshot BY DEF TypeOK
<1>2. Head(db) \in Sync /\ Tail(db) \in Seq(Sync) BY <1>1
<1>3. Head(db).snap \in Snapshot BY <1>2 DEF Sync
<1>4. Stored(Head(db).snap) \in Snapshot BY <1>1, <1>3 DEF Stored, Snapshot
<1> QED BY <1>2, <1>4

\* The frame of an idle lane is a frame.
LEMMA IdleType == Idle \in Frame /\ Idle.pc = "idle"
  BY DEF Idle, Frame, PCs, Ends, Nothing, Snapshot

\* The lane goes on.
LEMMA LaneOK ==
    ASSUME IInv, LaneStep
    PROVE  IInv'
<1>0. TypeOK /\ TextConserved /\ Emptied BY DEF IInv
<1>1. CASE SyncTurnState
  <2>1. /\ row' \in Snapshot /\ db' \in Seq(Sync)
    BY <1>0, <1>1, AnsweredOK DEF SyncTurnState, Answered
  <2>2. UNCHANGED <<heard, steps, events, st, timers, summary, finished>>
    BY <1>1 DEF SyncTurnState, context, stream
  <2>3. lane' \in Frame /\ lane'.pc \in {"finish", "idle"}
    <3>1. [lane EXCEPT !.pc = "finish"] \in Frame /\ [lane EXCEPT !.pc = "finish"].pc = "finish"
      BY <1>0, Parts DEF Frame, PCs
    <3>2. lane' = [lane EXCEPT !.pc = "finish"] \/ lane' = Idle BY <1>1 DEF SyncTurnState
    <3> QED BY <3>1, <3>2, IdleType
  <2>4. \/ buffer' = buffer /\ card' = card
        \/ buffer' = NoText /\ card' = Joined(card, buffer)
    BY <1>1 DEF SyncTurnState
  <2>5. buffer' \in Texts /\ card' \in Texts BY <1>0, <2>4, JoinedType, NoTextType, Parts
  <2>6. TypeOK' BY <1>0, <2>1, <2>2, <2>3, <2>5 DEF TypeOK, Texts
  <2>7. TextConserved' BY <1>0, <2>2, <2>4, MovedKept, KeptConserved DEF Moved
  <2>8. Emptied' BY <1>0, <2>2, <2>3, <2>4 DEF Emptied
  <2> QED BY <2>6, <2>7, <2>8 DEF IInv
<1>2. CASE ForceFlushLast
  <2> DEFINE f == [lane EXCEPT !.pc = "last_flush"]
  <2>1. f \in Frame /\ f.pc = "last_flush" BY <1>0, Parts DEF Frame, PCs
  <2>2. ForceFlush(f) BY <1>2 DEF ForceFlushLast
  <2> HIDE DEF f
  <2>3. /\ st' \in Aggregate /\ timers' \in [{"persist", "ui"} -> TimerStates]
        /\ db' \in Seq(Sync) /\ buffer' \in Texts /\ lane' \in Frame
        /\ \/ st' = st /\ buffer' = buffer /\ lane' = f
           \/ st'.delta = NoText /\ buffer' = Joined(buffer, st.delta) /\ lane'.pc = "final"
    BY <1>0, <2>1, <2>2, ForceFlushOK
  <2>4. UNCHANGED <<heard, steps, events, card, summary, row, finished>>
    BY <1>2 DEF ForceFlushLast, context
  <2>5. TypeOK' BY <1>0, <2>3, <2>4 DEF TypeOK, Texts
  <2>6. TextConserved'
    <3>1. Moved BY <2>3, <2>4 DEF Moved
    <3> QED BY <1>0, <2>4, <3>1, MovedKept, KeptConserved
  <2>7. summary => buffer' = NoText
    <3>1. CASE summary
      <4>1. buffer = NoText /\ st.delta = NoText BY <1>0, <3>1 DEF Emptied
      <4>2. Joined(NoText, NoText) = NoText BY DEF Joined, NoText
      <4> QED BY <2>3, <4>1, <4>2
    <3> QED BY <3>1
  <2>8. Emptied' BY <1>0, <2>1, <2>3, <2>4, <2>7 DEF Emptied
  <2> QED BY <2>5, <2>6, <2>8 DEF IInv
<1>3. CASE FinalizeTurnState
  <2>1. row' \in Snapshot /\ db' \in Seq(Sync)
    BY <1>0, <1>3, AnsweredOK DEF FinalizeTurnState, Answered
  <2>2. UNCHANGED <<heard, steps, events, st, timers, buffer, card, summary, finished>>
    BY <1>3 DEF FinalizeTurnState, context, stream, shown
  <2>3. lane' \in Frame BY <1>0, <1>3, Parts DEF FinalizeTurnState, Frame, PCs
  <2>4. TypeOK' BY <1>0, <2>1, <2>2, <2>3 DEF TypeOK
  <2>5. TextConserved' BY <1>0, <2>2 DEF TextConserved
  <2>6. Emptied' BY <1>0, <1>3, <2>2 DEF Emptied, FinalizeTurnState
  <2> QED BY <2>4, <2>5, <2>6 DEF IInv
<1>4. CASE RouteSummary
  <2>1. Closed \in Aggregate /\ Closed.delta = NoText
    BY NoTextType DEF Closed, Aggregate, Texts, Nothing, Snapshot
  <2>2. /\ st' = Closed /\ lane' = Idle /\ finished' = TRUE /\ timers' = NoTimers
        /\ UNCHANGED <<heard, steps, events, db, row>>
    BY <1>4 DEF RouteSummary, context
  <2>3. \/ buffer' = NoText /\ card' = Joined(card, buffer) /\ summary' = TRUE
        \/ buffer' = buffer /\ card' = card /\ summary' = summary
    BY <1>4 DEF RouteSummary, shown
  <2>4. buffer' \in Texts /\ card' \in Texts /\ summary' \in BOOLEAN
    <3>1. summary \in BOOLEAN BY <1>0 DEF TypeOK
    <3> QED BY <1>0, <2>3, <3>1, JoinedType, NoTextType, Parts
  <2>5. NoTimers \in [{"persist", "ui"} -> TimerStates] BY DEF NoTimers, TimerStates
  <2>6. TypeOK' BY <1>0, <2>1, <2>2, <2>4, <2>5, IdleType DEF TypeOK, Texts
  <2>7. st.delta = NoText BY <1>0, <1>4 DEF Emptied, RouteSummary
  <2>8. TextConserved'
    <3>1. Moved BY <2>1, <2>2, <2>3, <2>7 DEF Moved
    <3> QED BY <1>0, <2>2, <3>1, MovedKept, KeptConserved
  <2>9. Emptied' BY <1>0, <2>1, <2>2, <2>3, IdleType DEF Emptied
  <2> QED BY <2>6, <2>8, <2>9 DEF IInv
<1> QED BY <1>1, <1>2, <1>3, <1>4 DEF LaneStep

\* Handing all gathered text to an emptied buffer leaves it empty.
LEMMA StaysEmpty ==
    ASSUME Emptied, summary
    PROVE  Joined(buffer, st.delta) = NoText
  BY DEF Emptied, Joined, NoText

\* The database has stored the snapshot of a persist flush.
LEMMA PersistDoneOK ==
    ASSUME IInv, PersistDone
    PROVE  IInv'
<1>0. TypeOK /\ TextConserved /\ Emptied BY DEF IInv
<1>1. row' \in Snapshot /\ Tail(db) \in Seq(Sync)
  BY <1>0, AnsweredOK DEF PersistDone, Answered
<1>2. Persisted(st) \in Aggregate /\ Persisted(st).delta = st.delta BY <1>0, Parts, PersistedOK
<1>3. UNCHANGED <<heard, steps, events, card, summary, finished>> BY DEF PersistDone, context
<1>4. CASE lane.pc \in DOMAIN After
  <2>1. lane.pc \in {"flush", "last_flush"} /\ After[lane.pc] \in {"sync", "final"}
    BY <1>4, AfterValues
  <2>2. /\ st' = FlushedUi(Persisted(st)) /\ buffer' = Joined(buffer, st.delta)
        /\ timers' = [timers EXCEPT !.ui = "none"]
        /\ db' = Append(Tail(db), Call(lane.snap)) /\ lane' = [lane EXCEPT !.pc = After[@]]
    BY <1>2, <1>4 DEF PersistDone, FlushUi
  <2>3. st' \in Aggregate /\ st'.delta = NoText BY <1>2, <2>2, FlushedUiOK
  <2>4. buffer' \in Texts BY <1>0, <2>2, JoinedType, Parts
  <2>5. timers' \in [{"persist", "ui"} -> TimerStates] BY <1>0, <2>2, Parts DEF TimerStates
  <2>6. db' \in Seq(Sync)
    <3>1. lane.snap \in Snapshot BY <1>0, Parts DEF Frame
    <3>2. Call(lane.snap) \in Sync BY <3>1, CallType
    <3> QED BY <1>1, <2>2, <3>2
  <2>7. lane' \in Frame BY <1>0, <2>1, <2>2, Parts DEF Frame, PCs
  <2>8. TypeOK' BY <1>0, <1>1, <1>3, <2>3, <2>4, <2>5, <2>6, <2>7 DEF TypeOK, Texts
  <2>9. TextConserved'
    <3>1. Moved BY <1>3, <2>2, <2>3 DEF Moved
    <3> QED BY <1>0, <1>3, <3>1, MovedKept, KeptConserved
  <2>10. Emptied' BY <1>0, <1>3, <2>2, <2>3, StaysEmpty DEF Emptied
  <2> QED BY <2>8, <2>9, <2>10 DEF IInv
<1>5. CASE lane.pc \notin DOMAIN After
  <2>1. st' = Persisted(st) /\ db' = Tail(db) /\ UNCHANGED <<timers, buffer, lane>>
    BY <1>5 DEF PersistDone
  <2>2. TypeOK' BY <1>0, <1>1, <1>2, <1>3, <2>1 DEF TypeOK
  <2>3. TextConserved' BY <1>0, <1>2, <1>3, <2>1 DEF TextConserved
  <2>4. Emptied' BY <1>0, <1>2, <1>3, <2>1 DEF Emptied
  <2> QED BY <2>2, <2>3, <2>4 DEF IInv
<1> QED BY <1>4, <1>5

-----------------------------------------------------------------------------
(* Timers. *)

\* The timers of the coordinator.
LEMMA TimerOK ==
    ASSUME IInv, TimerStep
    PROVE  IInv'
<1>0. TypeOK /\ TextConserved /\ Emptied BY DEF IInv
<1>1. CASE PersistTimer
  <2>1. UNCHANGED <<heard, steps, events, st, buffer, card, summary, row, lane, finished>>
    BY <1>1 DEF PersistTimer, context, shown
  <2>2. timers' \in [{"persist", "ui"} -> TimerStates]
    BY <1>0, <1>1, Parts DEF PersistTimer, TimerStates
  <2>3. db' \in Seq(Sync)
    <3>1. st.latest \in Snapshot BY <1>0, Parts DEF Aggregate
    <3>2. [by |-> "flush", snap |-> st.latest] \in Sync BY <3>1, CallType
    <3>3. db \in Seq(Sync) /\ Append(db, [by |-> "flush", snap |-> st.latest]) \in Seq(Sync)
      BY <1>0, <3>2, Parts
    <3> QED BY <1>1, <3>3 DEF PersistTimer, StartPersist
  <2>4. TypeOK' BY <1>0, <2>1, <2>2, <2>3 DEF TypeOK
  <2>5. TextConserved' BY <1>0, <2>1 DEF TextConserved
  <2>6. Emptied' BY <1>0, <2>1 DEF Emptied
  <2> QED BY <2>4, <2>5, <2>6 DEF IInv
<1>2. CASE UiTimer
  <2>1. /\ st' = FlushedUi(st) /\ buffer' = Joined(buffer, st.delta)
        /\ timers' = [timers EXCEPT !.ui = "none"]
        /\ UNCHANGED <<heard, steps, events, db, card, summary, row, lane, finished>>
    BY <1>2 DEF UiTimer, FlushUi, context
  <2>2. st' \in Aggregate /\ st'.delta = NoText BY <1>0, <2>1, FlushedUiOK, Parts
  <2>3. buffer' \in Texts BY <1>0, <2>1, JoinedType, Parts
  <2>4. timers' \in [{"persist", "ui"} -> TimerStates] BY <1>0, <2>1, Parts DEF TimerStates
  <2>5. TypeOK' BY <1>0, <2>1, <2>2, <2>3, <2>4 DEF TypeOK, Texts
  <2>6. TextConserved'
    <3>1. Moved BY <2>1, <2>2 DEF Moved
    <3> QED BY <1>0, <2>1, <3>1, MovedKept, KeptConserved
  <2>7. Emptied' BY <1>0, <2>1, <2>2, StaysEmpty DEF Emptied
  <2> QED BY <2>5, <2>6, <2>7 DEF IInv
<1> QED BY <1>1, <1>2 DEF TimerStep

\* A window of the intent buffer closes.
LEMMA FlushBufferOK ==
    ASSUME IInv, NEW k \in Kinds, FlushBuffer(k)
    PROVE  IInv'
<1>0. TypeOK /\ TextConserved /\ Emptied BY DEF IInv
<1>1. /\ buffer[k] # <<>>
      /\ card' = [card EXCEPT ![k] = @ \o buffer[k]] /\ buffer' = [buffer EXCEPT ![k] = <<>>]
      /\ UNCHANGED <<heard, steps, events, st, timers, db, summary, row, lane, finished>>
  BY DEF FlushBuffer, context, stream
<1>2. /\ card[k] \in Seq(Nat) /\ buffer[k] \in Seq(Nat) /\ st.delta[k] \in Seq(Nat)
      /\ card[k] \o buffer[k] \in Seq(Nat)
  BY <1>0, Parts DEF Texts
<1>3. card' \in Texts /\ buffer' \in Texts
  <2>1. <<>> \in Seq(Nat) OBVIOUS
  <2> QED BY <1>0, <1>1, <1>2, <2>1, Parts DEF Texts
<1>4. Kept
  <2>1. (card[k] \o buffer[k]) \o <<>> = card[k] \o buffer[k] BY <1>2, ConcatEmptySeq
  <2>2. ASSUME NEW j \in Kinds
        PROVE  card'[j] \o buffer'[j] = card[j] \o buffer[j]
    <3>1. CASE j = k
      <4>1. card'[k] = card[k] \o buffer[k] /\ buffer'[k] = <<>> BY <1>0, <1>1, Parts DEF Texts
      <4> QED BY <2>1, <3>1, <4>1
    <3>2. CASE j # k
      <4>1. card'[j] = card[j] /\ buffer'[j] = buffer[j] BY <1>0, <1>1, <3>2, Parts DEF Texts
      <4> QED BY <4>1
    <3> QED BY <3>1, <3>2
  <2> QED BY <1>1, <2>2 DEF Kept
<1>5. TypeOK' BY <1>0, <1>1, <1>3 DEF TypeOK, Texts
<1>6. TextConserved' BY <1>0, <1>1, <1>4, KeptConserved
<1>7. Emptied'
  <2>1. ~summary BY <1>0, <1>1 DEF Emptied, NoText
  <2> QED BY <1>0, <1>1, <2>1 DEF Emptied
<1> QED BY <1>5, <1>6, <1>7 DEF IInv

-----------------------------------------------------------------------------
(* The invariant, and what it shows. *)

\* The invariant holds at the start,
LEMMA IInvInit == Init => IInv
<1> SUFFICES ASSUME Init PROVE IInv
  OBVIOUS
<1>1. Nothing \in Snapshot BY DEF Nothing, Snapshot
<1>2. Closed \in Aggregate /\ Closed.delta = NoText
  BY <1>1, NoTextType DEF Closed, Aggregate, Texts
<1>3. NoTimers \in [{"persist", "ui"} -> TimerStates] BY DEF NoTimers, TimerStates
<1>4. <<>> \in Seq(Sync) OBVIOUS
<1>5. TypeOK
  <2>1. heard \in [Kinds -> Nat] /\ steps \in Nat /\ events \in 0..MaxEvents
    BY StreamConstants DEF Init
  <2>2. st \in Aggregate /\ timers \in [{"persist", "ui"} -> TimerStates] /\ db \in Seq(Sync)
    BY <1>2, <1>3, <1>4 DEF Init
  <2>3. buffer \in [Kinds -> Seq(Nat)] /\ card \in [Kinds -> Seq(Nat)] /\ summary \in BOOLEAN
    BY NoTextType DEF Init, Texts
  <2>4. row \in Snapshot /\ lane \in Frame /\ finished \in BOOLEAN
    BY <1>1, IdleType DEF Init
  <2> QED BY <2>1, <2>2, <2>3, <2>4 DEF TypeOK
<1>6. TextConserved
  <2>1. Numbers(0) = <<>> BY DEF Numbers
  <2>2. <<>> \o <<>> \o <<>> = <<>> OBVIOUS
  <2>3. ASSUME NEW k \in Kinds
        PROVE  card[k] = <<>> /\ buffer[k] = <<>> /\ st.delta[k] = <<>> /\ heard[k] = 0
    BY <1>2 DEF Init, NoText
  <2> QED BY <2>1, <2>2, <2>3 DEF TextConserved
<1>7. Emptied BY <1>2 DEF Init, Emptied
<1> QED BY <1>5, <1>6, <1>7 DEF IInv

\* and every step keeps it.
LEMMA IInvNext == IInv /\ [Next]_vars => IInv'
<1> SUFFICES ASSUME IInv, [Next]_vars PROVE IInv'
  OBVIOUS
<1>1. CASE UNCHANGED vars
  BY <1>1 DEF vars, context, stream, shown, IInv, TypeOK, TextConserved, Emptied
<1> QED BY <1>1, AgentOK, LaneOK, PersistDoneOK, TimerOK, FlushBufferOK DEF Next

\* Every variable has its type.
THEOREM Typed == Spec => []TypeOK
<1>1. IInv => TypeOK BY DEF IInv
<1> QED BY <1>1, IInvInit, IInvNext, PTL DEF Spec

\* Streamed text is neither lost, doubled nor reordered, in any number of flushes
\* and whatever flush meets which timer.
THEOREM Conserved == Spec => []TextConserved
<1>1. IInv => TextConserved BY DEF IInv
<1> QED BY <1>1, IInvInit, IInvNext, PTL DEF Spec

\* All text of a turn is dispatched before its summary.
THEOREM LastWord == Spec => []SummaryLast
<1>1. IInv => SummaryLast
  <2> SUFFICES ASSUME IInv, summary PROVE card = [k \in Kinds |-> Numbers(heard[k])]
    BY DEF SummaryLast
  <2>1. TypeOK /\ TextConserved /\ Emptied BY DEF IInv
  <2>2. buffer = NoText /\ st.delta = NoText BY <2>1 DEF Emptied
  <2>3. ASSUME NEW k \in Kinds PROVE card[k] = Numbers(heard[k])
    <3>1. card[k] \in Seq(Nat) BY <2>1, Parts DEF Texts
    <3>2. card[k] \o <<>> = card[k] BY <3>1, ConcatEmptySeq
    <3>3. buffer[k] = <<>> /\ st.delta[k] = <<>> BY <2>2 DEF NoText
    <3> QED BY <2>1, <3>2, <3>3 DEF TextConserved
  <2> QED BY <2>1, <2>3, Parts DEF Texts
<1> QED BY <1>1, IInvInit, IInvNext, PTL DEF Spec
-----------------------------------------------------------------------------
(* What is stored at the end: EndStored.  The calls of the database are served *)
(* in order, so the invariant is about which of them are under way.            *)

\* The calls under way: at most one flush, and the lane's own call c.
FlushIn(q) == \E i \in DOMAIN q : q[i].by = "flush"
Flushes(q) == q = <<>> \/ (Len(q) = 1 /\ q[1].by = "flush")
Only(q, c) == Len(q) = 1 /\ q[1] = c
Behind(q)  == Len(q) = 2 /\ q[2].by = "flush"
With(q, c) ==
    \/ Only(q, c)
    \/ q[1] = c /\ Behind(q)
    \/ Len(q) = 2 /\ q[1].by = "flush" /\ q[2] = c

Ending == lane.kind \in {"complete", "aborted"}

\* Which calls there are while the lane is where it is; behind the last one of a
\* turn there is no flush.
Queued ==
    /\ lane.pc \in {"idle", "flush", "finish", "last_flush"} => Flushes(db)
    /\ lane.pc = "sync" => With(db, Call(lane.snap))
    /\ lane.pc = "final" => Only(db, Call(lane.snap))
    /\ lane.pc = "summary" => db = <<>>
    /\ finished => lane.pc = "idle" \/ (lane.pc = "sync" /\ ~Ending)
    /\ finished => ~Flushing

\* Who may still start a flush: once the first forced flush of a turn's end is
\* done its UI timer is off, and its persist timer may start one flush, of
\* something yet to be stored, which the second forced flush then waits for.
Calmed ==
    /\ st.dirty => st.open
    /\ lane.pc \in {"finish", "last_flush", "final", "summary"} => Ending
    /\ lane.pc \in {"sync", "finish"} /\ Ending =>
         /\ timers.ui # "armed"
         /\ timers.persist = "armed" => ~Flushing
    /\ lane.pc = "sync" /\ Ending /\ Behind(db) => st.dirty
    /\ lane.pc = "finish" /\ Flushing => st.dirty
    /\ lane.pc \in {"last_flush", "final", "summary"} => timers.persist # "armed" /\ timers.ui # "armed"
    /\ finished => timers.persist # "armed" /\ timers.ui # "armed"

\* No text is stored that the turn does not have.
Within(snap, h) == \A k \in Kinds : snap.text[k] <= h[k]

\* What is stored, and what will be.
Storing ==
    /\ Within(row, heard) /\ Within(st.latest, heard)
    /\ \A i \in DOMAIN db : Within(db[i].snap, heard)
    /\ lane.pc # "idle" /\ ~finished => lane.snap = Current
    /\ lane.pc = "summary" => row = Current

Stow == IInv /\ Queued /\ Calmed /\ Storing

\* A call joins the queue ...
LEMMA Joins ==
    ASSUME NEW q \in Seq(Sync), NEW f \in Sync, f.by = "flush", NEW c \in Sync, c.by = "lane"
    PROVE  /\ Flushes(q) => With(Append(q, c), c) /\ ~Behind(Append(q, c))
           /\ Flushes(q) /\ ~FlushIn(q) => q = <<>>
           /\ Flushes(Append(<<>>, f)) /\ FlushIn(Append(<<>>, f))
           /\ Only(Append(<<>>, c), c) /\ ~FlushIn(Append(<<>>, c))
           /\ With(q, c) /\ ~FlushIn(q) => With(Append(q, f), c)
<1>1. /\ Len(Append(q, c)) = Len(q) + 1 /\ Append(q, c)[Len(q) + 1] = c
      /\ \A i \in 1 .. Len(q) : Append(q, c)[i] = q[i]
  OBVIOUS
<1>2. /\ Len(Append(q, f)) = Len(q) + 1 /\ Append(q, f)[Len(q) + 1] = f
      /\ \A i \in 1 .. Len(q) : Append(q, f)[i] = q[i]
  OBVIOUS
<1>3. Flushes(q) => With(Append(q, c), c) /\ ~Behind(Append(q, c))
  <2>1. CASE q = <<>> BY <1>1, <2>1 DEF With, Only, Behind
  <2>2. CASE Len(q) = 1 /\ q[1].by = "flush" BY <1>1, <2>2 DEF With, Only, Behind
  <2> QED BY <2>1, <2>2 DEF Flushes
<1>4. Flushes(q) /\ ~FlushIn(q) => q = <<>>
  BY DEF Flushes, FlushIn
<1>5. Append(<<>>, f) = <<f>> /\ Append(<<>>, c) = <<c>> OBVIOUS
<1>6. Flushes(<<f>>) /\ FlushIn(<<f>>) BY DEF Flushes, FlushIn
<1>7. Only(<<c>>, c) /\ ~FlushIn(<<c>>) BY DEF Only, FlushIn
<1>8. With(q, c) /\ ~FlushIn(q) => With(Append(q, f), c)
  <2> SUFFICES ASSUME With(q, c), ~FlushIn(q) PROVE With(Append(q, f), c)
    OBVIOUS
  <2>1. \A i \in 1 .. Len(q) : q[i].by # "flush" BY DEF FlushIn
  <2>2. Only(q, c) BY <2>1 DEF With, Behind
  <2> QED BY <1>2, <2>2 DEF With, Only, Behind
<1> QED BY <1>3, <1>4, <1>5, <1>6, <1>7, <1>8

\* ... and the first one is served.
LEMMA Served ==
    ASSUME NEW q \in Seq(Sync), q # <<>>, NEW c \in Sync, c.by = "lane"
    PROVE  /\ Flushes(q) => Tail(q) = <<>>
           /\ With(q, c) /\ Head(q).by = "lane" =>
                Head(q) = c /\ Flushes(Tail(q)) /\ (FlushIn(Tail(q)) => Behind(q))
           /\ With(q, c) /\ Head(q).by = "flush" => Only(Tail(q), c)
           /\ Only(q, c) => Head(q) = c /\ Tail(q) = <<>>
<1>1. /\ Head(q) = q[1] /\ Len(q) \in Nat \ {0} /\ Tail(q) \in Seq(Sync) /\ Len(Tail(q)) = Len(q) - 1
      /\ \A i \in 1 .. Len(q) - 1 : Tail(q)[i] = q[i + 1]
  OBVIOUS
<1>2. Len(q) = 1 => Tail(q) = <<>>
  <2>1. Len(q) = 1 => Len(Tail(q)) = 0 BY <1>1
  <2> QED BY <1>1, <2>1, EmptySeq
<1>3. ASSUME Len(q) = 2 PROVE Len(Tail(q)) = 1 /\ Tail(q)[1] = q[2]
  <2>1. 1 \in 1 .. Len(q) - 1 /\ 2 - 1 = 1 /\ 1 + 1 = 2 BY <1>3
  <2> QED BY <1>1, <1>3, <2>1
<1>4. ~FlushIn(<<>>) /\ Flushes(<<>>) BY DEF FlushIn, Flushes
<1>5. ASSUME With(q, c), Head(q).by = "lane"
      PROVE  Head(q) = c /\ Flushes(Tail(q)) /\ (FlushIn(Tail(q)) => Behind(q))
  <2>1. CASE Only(q, c) BY <1>1, <1>2, <1>4, <2>1 DEF Only
  <2>2. CASE q[1] = c /\ Behind(q) BY <1>1, <1>3, <2>2 DEF Behind, Flushes
  <2> QED BY <1>1, <1>5, <2>1, <2>2 DEF With
<1>6. ASSUME With(q, c), Head(q).by = "flush"
      PROVE  Only(Tail(q), c)
  BY <1>1, <1>3, <1>6 DEF With, Only
<1>7. Flushes(q) => Tail(q) = <<>> BY <1>2 DEF Flushes
<1>8. Only(q, c) => Head(q) = c /\ Tail(q) = <<>> BY <1>1, <1>2 DEF Only
<1> QED BY <1>5, <1>6, <1>7, <1>8

\* Where the lane's call is the only one, no flush is.
LEMMA OnlyOne ==
    ASSUME NEW q \in Seq(Sync), NEW c \in Sync, c.by = "lane", Only(q, c)
    PROVE  With(q, c) /\ ~FlushIn(q) /\ ~Behind(q)
<1>1. Len(q) = 1 /\ q[1] = c /\ DOMAIN q = 1 .. 1 BY DEF Only
<1>2. \A i \in 1 .. 1 : i = 1 OBVIOUS
<1>3. ~FlushIn(q) BY <1>1, <1>2 DEF FlushIn
<1> QED BY <1>1, <1>3 DEF With, Only, Behind

\* Snapshots of the turn are within it, and a turn only grows.
LEMMA WithinTurn ==
    ASSUME TypeOK
    PROVE  /\ Within(Current, heard) /\ Within(Nothing, heard)
           /\ \A k \in Kinds : \A snap \in Snapshot :
                Within(snap, heard) => Within(snap, [heard EXCEPT ![k] = @ + 1])
<1>1. heard \in [Kinds -> Nat] BY DEF TypeOK
<1>2. Within(Current, heard) /\ Within(Nothing, heard) BY <1>1 DEF Within, Current, Nothing
<1>3. ASSUME NEW k \in Kinds, NEW snap \in Snapshot, Within(snap, heard), NEW j \in Kinds
      PROVE  snap.text[j] <= [heard EXCEPT ![k] = @ + 1][j]
  <2>1. snap.text[j] \in Nat /\ snap.text[j] <= heard[j] BY <1>3 DEF Within, Snapshot
  <2> QED BY <1>1, <2>1
<1> QED BY <1>2, <1>3 DEF Within

\* What is stored stays within the turn.
LEMMA StoredWithin ==
    ASSUME Within(row, heard), NEW snap \in Snapshot, Within(snap, heard)
    PROVE  Within(Stored(snap), heard)
<1> SUFFICES ASSUME NEW k \in Kinds PROVE Stored(snap).text[k] <= heard[k]
  BY Zenon DEF Within
<1>1. Stored(snap).text[k] = snap.text[k] \/ Stored(snap).text[k] = row.text[k]
  BY DEF Stored
<1>2. snap.text[k] <= heard[k] /\ row.text[k] <= heard[k] BY DEF Within
<1>3. CASE Stored(snap).text[k] = snap.text[k] BY <1>2, <1>3
<1>4. CASE Stored(snap).text[k] = row.text[k] BY <1>2, <1>4
<1> QED BY <1>1, <1>3, <1>4

\* Storing the turn stores all of it, the columns an empty text leaves alone included.
LEMMA StoredAll ==
    ASSUME TypeOK, Within(row, heard)
    PROVE  Stored(Current) = Current
<1>1. row \in Snapshot /\ heard \in [Kinds -> Nat] BY DEF TypeOK
<1>2. ASSUME NEW k \in Kinds, heard[k] = 0 PROVE row.text[k] = heard[k]
  <2>1. row.text[k] \in Nat /\ row.text[k] <= 0 BY <1>1, <1>2 DEF Within, Snapshot
  <2> QED BY <1>2, <2>1
<1>3. Stored(Current).text = heard
  <2>1. Stored(Current).text = [k \in Kinds |-> IF k \in ToolKinds \/ heard[k] # 0 THEN heard[k] ELSE row.text[k]]
    BY DEF Stored, Current
  <2>2. ASSUME NEW k \in Kinds PROVE Stored(Current).text[k] = heard[k]
    <3>1. CASE heard[k] = 0
      <4>1. row.text[k] = heard[k] BY <1>2, <3>1
      <4> QED BY <2>1, <4>1
    <3>2. CASE heard[k] # 0 BY <2>1, <3>2
    <3> QED BY <3>1, <3>2
  <2> QED BY <1>1, <2>1, <2>2
<1>4. Stored(Current).steps = steps BY DEF Stored, Current
<1>5. Stored(Current) = [text |-> Stored(Current).text, steps |-> Stored(Current).steps] BY DEF Stored
<1> QED BY <1>3, <1>4, <1>5 DEF Current

\* What flushes leave of the state but its text.
LEMMA FlushesLeave ==
    ASSUME NEW s \in Aggregate
    PROVE  /\ FlushedUi(s).latest = s.latest /\ FlushedUi(s).open = s.open /\ (FlushedUi(s).dirty => s.dirty)
           /\ Persisted(s).latest = s.latest /\ Persisted(s).open = s.open /\ (Persisted(s).dirty => s.dirty)
<1>1. CASE Pending(s) BY <1>1 DEF FlushedUi, Persisted, Aggregate
<1>2. CASE ~Pending(s) BY <1>2 DEF FlushedUi, Persisted, Aggregate
<1> QED BY <1>1, <1>2

\* A call added to calls within the turn.
LEMMA AddedWithin ==
    ASSUME NEW q \in Seq(Sync), NEW h, \A i \in DOMAIN q : Within(q[i].snap, h),
           NEW c \in Sync, Within(c.snap, h)
    PROVE  \A i \in DOMAIN Append(q, c) : Within(Append(q, c)[i].snap, h)
<1>1. /\ Len(Append(q, c)) = Len(q) + 1 /\ Append(q, c)[Len(q) + 1] = c
      /\ \A i \in 1 .. Len(q) : Append(q, c)[i] = q[i]
  OBVIOUS
<1> QED BY <1>1

\* A call served from calls within the turn.
LEMMA ServedWithin ==
    ASSUME NEW q \in Seq(Sync), q # <<>>, NEW h, \A i \in DOMAIN q : Within(q[i].snap, h)
    PROVE  /\ Within(Head(q).snap, h) /\ Head(q) \in Sync /\ Tail(q) \in Seq(Sync)
           /\ \A i \in DOMAIN Tail(q) : Within(Tail(q)[i].snap, h)
           /\ Head(q).by = "flush" => FlushIn(q)
<1>1. /\ Head(q) = q[1] /\ Len(q) \in Nat \ {0} /\ Tail(q) \in Seq(Sync) /\ Len(Tail(q)) = Len(q) - 1
      /\ \A i \in 1 .. Len(q) - 1 : Tail(q)[i] = q[i + 1] /\ i + 1 \in DOMAIN q
      /\ 1 \in DOMAIN q /\ Head(q) \in Sync
  OBVIOUS
<1> QED BY <1>1 DEF FlushIn

\* The parts of the invariant that most steps use.
LEMMA StowParts ==
    ASSUME Stow
    PROVE  /\ TypeOK /\ IInv /\ Queued /\ Calmed /\ Storing
           /\ st \in Aggregate /\ st.latest \in Snapshot /\ db \in Seq(Sync) /\ lane \in Frame
           /\ lane.snap \in Snapshot /\ Call(lane.snap) \in Sync /\ Call(lane.snap).by = "lane"
           /\ [by |-> "flush", snap |-> st.latest] \in Sync
           /\ Flushing = FlushIn(db)
<1>1. TypeOK /\ IInv /\ Queued /\ Calmed /\ Storing BY DEF Stow, IInv
<1>2. st \in Aggregate /\ st.latest \in Snapshot /\ db \in Seq(Sync) /\ lane \in Frame /\ lane.snap \in Snapshot
  BY <1>1, Parts DEF Aggregate, Frame
<1>3. Call(lane.snap) \in Sync /\ Call(lane.snap).by = "lane" BY <1>2, CallType DEF Call
<1>4. [by |-> "flush", snap |-> st.latest] \in Sync BY <1>2, CallType
<1>5. Flushing = FlushIn(db) BY DEF Flushing, FlushIn
<1> QED BY <1>1, <1>2, <1>3, <1>4, <1>5

\* A forced flush, of a critical message or the last one of a turn.
LEMMA ForceFlushStored ==
    ASSUME Stow, ~finished, Flushes(db), NEW f \in Frame, f.pc \in {"flush", "last_flush"}, ForceFlush(f),
           heard' = heard, row' = row, finished' = finished, f.snap = Current',
           f.pc = "last_flush" =>
             /\ f.kind \in {"complete", "aborted"}
             /\ timers.ui # "armed"
             /\ timers.persist = "armed" => ~Flushing
             /\ Flushing => st.dirty
    PROVE  Queued' /\ Calmed' /\ Storing'
<1> DEFINE c == Call(f.snap)
           p == [by |-> "flush", snap |-> st.latest]
<1>0. /\ TypeOK /\ Queued /\ Calmed /\ Storing /\ st \in Aggregate /\ db \in Seq(Sync) /\ Flushing = FlushIn(db)
      /\ p \in Sync /\ st.latest \in Snapshot
  BY StowParts
<1>1. c \in Sync /\ c.by = "lane" /\ c.snap = f.snap /\ p.by = "flush" /\ p.snap = st.latest
  BY CallType DEF Call, Frame
<1>2. Within(f.snap, heard')
  <2>1. Current'.text = heard' BY DEF Current
  <2>2. heard \in [Kinds -> Nat] BY <1>0 DEF TypeOK
  <2> QED BY <2>1, <2>2 DEF Within
<1> HIDE DEF c, p
<1>3. CASE st.open /\ st.dirty
  <2>1. st' = st /\ lane' = f BY <1>3 DEF ForceFlush
  <2>2. CASE Flushing
    <3>1. timers' = timers /\ db' = db BY <1>3, <2>2 DEF ForceFlush
    <3>2. Queued' BY <2>1, <3>1 DEF Queued
    <3>3. Calmed' BY <1>0, <2>1, <2>2, <3>1 DEF Calmed, Ending
    <3>4. Storing' BY <1>0, <2>1, <3>1 DEF Storing
    <3> QED BY <3>2, <3>3, <3>4
  <2>3. CASE ~Flushing
    <3>1. timers' = [timers EXCEPT !.persist = "none"] /\ db' = Append(db, p)
      BY <1>3, <2>3 DEF ForceFlush, StartPersist, p
    <3>2. Flushes(db') BY <1>0, <1>1, <2>3, <3>1, Joins
    <3>3. Queued' BY <2>1, <3>2 DEF Queued
    <3>4. timers'.persist = "none" /\ timers'.ui = timers.ui BY <1>0, <3>1, Parts
    <3>5. Calmed' BY <1>0, <2>1, <3>4 DEF Calmed, Ending
    <3>6. \A i \in DOMAIN db' : Within(db'[i].snap, heard) BY <1>0, <1>1, <3>1, AddedWithin DEF Storing
    <3>7. Storing' BY <1>0, <2>1, <3>6 DEF Storing
    <3> QED BY <3>3, <3>5, <3>7
  <2> QED BY <2>2, <2>3
<1>4. CASE ~(st.open /\ st.dirty)
  <2>1. st' = FlushedUi(st) /\ timers' = NoTimers /\ db' = Append(db, c) /\ lane' = [f EXCEPT !.pc = After[@]]
    BY <1>4 DEF ForceFlush, FlushUi, c
  <2>2. lane'.pc = After[f.pc] /\ lane'.kind = f.kind /\ lane'.snap = f.snap BY <2>1 DEF Frame
  <2>3. f.pc = "flush" => lane'.pc = "sync" BY <2>2, AfterValues
  <2>4. f.pc = "last_flush" => lane'.pc = "final" BY <2>2, AfterValues
  <2>5. With(db', c) /\ ~Behind(db') BY <1>0, <1>1, <2>1, Joins
  <2>6. f.pc = "last_flush" => Only(db', c)
    <3>1. ASSUME f.pc = "last_flush" PROVE ~FlushIn(db) BY <1>0, <1>4, <3>1 DEF Calmed
    <3>2. ASSUME f.pc = "last_flush" PROVE db = <<>> BY <1>0, <1>1, <3>1, <3>2, Joins
    <3> QED BY <1>0, <1>1, <2>1, <3>2, Joins
  <2>7. Call(lane'.snap) = c BY <2>2 DEF c
  <2>8. Queued' BY <2>3, <2>4, <2>5, <2>6, <2>7 DEF Queued
  <2>9. timers'.persist = "none" /\ timers'.ui = "none" BY <2>1 DEF NoTimers
  <2>10. st'.latest = st.latest /\ st'.open = st.open /\ (st'.dirty => st.dirty) BY <1>0, <2>1, FlushesLeave
  <2>11. Calmed' BY <1>0, <2>2, <2>3, <2>4, <2>5, <2>9, <2>10 DEF Calmed, Ending
  <2>12. \A i \in DOMAIN db' : Within(db'[i].snap, heard) BY <1>0, <1>1, <1>2, <2>1, AddedWithin DEF Storing
  <2>13. Storing' BY <1>0, <2>2, <2>3, <2>4, <2>10, <2>12 DEF Storing
  <2> QED BY <2>8, <2>11, <2>13
<1> QED BY <1>3, <1>4

\* What the agent says.
LEMMA IngestStored ==
    ASSUME Stow, NEW k \in Kinds, Ingest(k)
    PROVE  Queued' /\ Calmed' /\ Storing'
<1> DEFINE h == [heard EXCEPT ![k] = @ + 1]
           snap == [Current EXCEPT !.text = h]
           s == [Touched(snap) EXCEPT !.delta[k] = Append(@, h[k])]
           p == [by |-> "flush", snap |-> s.latest]
<1>0. /\ TypeOK /\ Queued /\ Calmed /\ Storing /\ st \in Aggregate /\ st.latest \in Snapshot /\ db \in Seq(Sync)
      /\ Flushing = FlushIn(db)
  BY StowParts
<1>1. lane.pc = "idle" /\ lane' = lane /\ ~finished /\ finished' = finished /\ heard' = h /\ row' = row
  BY DEF Ingest, MayTake
<1>2. heard \in [Kinds -> Nat] /\ steps \in Nat /\ h \in [Kinds -> Nat] BY <1>0 DEF TypeOK
<1>3. snap \in Snapshot /\ Within(snap, h)
  <2>1. snap = [text |-> h, steps |-> steps] BY DEF Current
  <2> QED BY <1>2, <2>1 DEF Snapshot, Within
<1>4. s \in Aggregate /\ s.latest = snap /\ s.open
  <2> DEFINE t == Touched(snap)
  <2>1. t \in Aggregate BY <1>0, <1>3, TouchedOK
  <2>2. t.latest = snap /\ t.open BY <1>0 DEF Touched, Aggregate
  <2>3. t.delta \in Texts /\ h[k] \in Nat BY <1>2, <2>1 DEF Aggregate, Texts
  <2> HIDE DEF t, snap, h
  <2>4. Append(t.delta[k], h[k]) \in Seq(Nat) BY <2>3 DEF Texts
  <2>5. [t.delta EXCEPT ![k] = Append(@, h[k])] \in Texts BY <2>3, <2>4 DEF Texts
  <2> DEFINE d == [t.delta EXCEPT ![k] = Append(@, h[k])]
             u == [t EXCEPT !.delta = d]
  <2> HIDE DEF d
  <2>6. u \in Aggregate /\ u.latest = snap /\ u.open BY <2>1, <2>2, <2>5 DEF Aggregate, Texts, d
  <2>7. s = u BY DEF s, d, t
  <2> QED BY <2>6, <2>7
<1>5. p \in Sync /\ p.by = "flush" /\ p.snap = snap BY <1>3, <1>4, CallType
<1>6. \A t \in Snapshot : Within(t, heard) => Within(t, h) BY <1>0, WithinTurn
<1>7. PICK persist \in BOOLEAN, ui \in BOOLEAN :
        /\ IF persist /\ ~Flushing THEN StartPersist(s) ELSE UNCHANGED db
        /\ IF ui THEN FlushUi(s) ELSE st' = s /\ UNCHANGED buffer
  BY <1>1 DEF Ingest
<1> HIDE DEF p, s, snap, h
<1>8. st'.latest = snap /\ st'.open
  <2>1. CASE ui BY <1>4, <1>7, <2>1, FlushesLeave DEF FlushUi
  <2>2. CASE ~ui BY <1>4, <1>7, <2>2
  <2> QED BY <2>1, <2>2
<1>9. db' = db \/ (db' = Append(<<>>, p) /\ db = <<>>)
  <2>1. CASE persist /\ ~Flushing
    <3>1. db' = Append(db, p) BY <1>7, <2>1 DEF StartPersist, p
    <3>2. [by |-> "lane", snap |-> p.snap] \in Sync BY <1>3, <1>5 DEF Sync
    <3>3. db = <<>> BY <1>0, <1>1, <1>5, <2>1, <3>2, Joins DEF Queued
    <3> QED BY <3>1, <3>3
  <2>2. CASE ~(persist /\ ~Flushing) BY <1>7, <2>2
  <2> QED BY <2>1, <2>2
<1>10. Flushes(db')
  <2>1. Flushes(Append(<<>>, p))
    <3>1. [by |-> "lane", snap |-> p.snap] \in Sync BY <1>3, <1>5 DEF Sync
    <3> QED BY <1>5, <3>1, <1>0, Joins
  <2> QED BY <1>0, <1>1, <1>9, <2>1 DEF Queued
<1>11. \A i \in DOMAIN db' : Within(db'[i].snap, h)
  <2>1. ASSUME NEW i \in DOMAIN db PROVE db[i].snap \in Snapshot
    <3>1. db[i] \in Sync BY <1>0
    <3> QED BY <3>1 DEF Sync
  <2>2. \A i \in DOMAIN db : Within(db[i].snap, h) BY <1>0, <1>6, <2>1 DEF Storing
  <2>3. db = <<>> => \A i \in DOMAIN Append(db, p) : Within(Append(db, p)[i].snap, h)
    BY <1>0, <1>3, <1>5, <2>2, AddedWithin
  <2> QED BY <1>9, <2>2, <2>3
<1>12. Within(row, h) BY <1>0, <1>6 DEF Storing, TypeOK
<1> QED BY <1>1, <1>3, <1>8, <1>10, <1>11, <1>12 DEF Queued, Calmed, Storing

\* Notifications, progress reports and ends.
LEMMA AgentStored ==
    ASSUME Stow, AgentStep
    PROVE  Queued' /\ Calmed' /\ Storing'
<1>0. /\ TypeOK /\ Queued /\ Calmed /\ Storing /\ st \in Aggregate /\ db \in Seq(Sync) /\ Flushing = FlushIn(db)
      /\ heard \in [Kinds -> Nat] /\ steps \in Nat /\ Current \in Snapshot
  BY StowParts, Parts DEF TypeOK
<1>1. CASE Note
  <2>1. /\ lane.pc = "idle" /\ ~finished /\ st' = Touched(Current)
        /\ UNCHANGED <<heard, steps, db, row, lane, finished>>
    BY <1>1 DEF Note, MayTake
  <2>2. st'.latest = Current /\ st'.open BY <1>0, <2>1 DEF Touched, Aggregate
  <2>3. Queued' BY <1>0, <2>1 DEF Queued, Flushing
  <2>4. Calmed' BY <2>1, <2>2 DEF Calmed
  <2>5. Storing' BY <1>0, <2>1, <2>2, WithinTurn DEF Storing
  <2> QED BY <2>3, <2>4, <2>5
<1>2. CASE Progress
  <2> DEFINE f == [pc |-> "flush", kind |-> "progress", snap |-> [text |-> heard, steps |-> steps']]
  <2>1. lane.pc = "idle" /\ ~finished /\ steps' \in Nat /\ UNCHANGED <<heard, row, finished>> /\ ForceFlush(f)
    BY <1>0, <1>2 DEF Progress, MayTake, Critical
  <2>2. f \in Frame BY <1>0, <2>1 DEF Frame, PCs, Ends, Snapshot
  <2>3. f.snap = Current' BY <2>1 DEF Current
  <2>4. Flushes(db) BY <1>0, <2>1 DEF Queued
  <2>5. f.pc = "flush" OBVIOUS
  <2> QED BY <2>1, <2>2, <2>3, <2>4, <2>5, ForceFlushStored
<1>3. ASSUME NEW kind \in {"complete", "aborted"}, End(kind)
      PROVE  Queued' /\ Calmed' /\ Storing'
  <2> DEFINE f == [pc |-> "flush", kind |-> kind, snap |-> Current]
  <2>1. lane.pc = "idle" /\ ~finished /\ UNCHANGED <<heard, steps, row, finished>> /\ ForceFlush(f)
    BY <1>3 DEF End, Critical, context
  <2>2. f \in Frame BY <1>0 DEF Frame, PCs, Ends
  <2>3. f.snap = Current' BY <2>1 DEF Current
  <2>4. Flushes(db) BY <1>0, <2>1 DEF Queued
  <2>5. f.pc = "flush" OBVIOUS
  <2> QED BY <2>1, <2>2, <2>3, <2>4, <2>5, ForceFlushStored
<1>4. CASE EchoEnd
  <2> DEFINE c == Call(Nothing)
  <2>1. /\ lane.pc = "idle" /\ finished /\ lane' = [pc |-> "sync", kind |-> "echo", snap |-> Nothing]
        /\ db' = Append(db, c) /\ UNCHANGED <<heard, steps, st, timers, row, finished>>
    BY <1>4 DEF EchoEnd, context, stream
  <2>2. Nothing \in Snapshot BY DEF Nothing, Snapshot
  <2>3. c \in Sync /\ c.by = "lane" /\ c.snap = Nothing BY <2>2, CallType DEF Call
  <2>4. [by |-> "flush", snap |-> Nothing] \in Sync BY <2>2, CallType
  <2> HIDE DEF c
  <2>5. db = <<>> BY <1>0, <2>1, <2>3, <2>4, Joins DEF Queued
  <2>6. Only(db', c) /\ ~FlushIn(db') BY <1>0, <2>1, <2>3, <2>4, <2>5, Joins
  <2>7. Call(lane'.snap) = c /\ lane'.pc = "sync" /\ lane'.kind = "echo" BY <2>1 DEF c
  <2>8. Queued' BY <2>1, <2>6, <2>7 DEF Queued, With, Ending, Flushing, FlushIn
  <2>9. Calmed' BY <1>0, <2>1, <2>7 DEF Calmed, Ending
  <2>10. \A i \in DOMAIN db' : Within(db'[i].snap, heard)
    BY <1>0, <2>1, <2>3, AddedWithin, WithinTurn DEF Storing
  <2>11. Storing' BY <1>0, <2>1, <2>7, <2>10 DEF Storing
  <2> QED BY <2>8, <2>9, <2>11
<1> QED BY <1>1, <1>2, <1>3, <1>4, IngestStored DEF AgentStep

\* A served call of the queue, whatever called it.
LEMMA AnsweredStored ==
    ASSUME Stow, NEW by, Answered(by)
    PROVE  /\ db # <<>> /\ Head(db).by = by /\ Head(db) \in Sync /\ Tail(db) \in Seq(Sync)
           /\ Within(Head(db).snap, heard) /\ row' = Stored(Head(db).snap) /\ Within(row', heard)
           /\ \A i \in DOMAIN Tail(db) : Within(Tail(db)[i].snap, heard)
<1>1. TypeOK /\ Storing /\ db \in Seq(Sync) BY StowParts
<1>2. db # <<>> /\ Head(db).by = by /\ row' = Stored(Head(db).snap) BY DEF Answered
<1>3. /\ Head(db) \in Sync /\ Tail(db) \in Seq(Sync) /\ Within(Head(db).snap, heard)
      /\ \A i \in DOMAIN Tail(db) : Within(Tail(db)[i].snap, heard)
  BY <1>1, <1>2, ServedWithin DEF Storing
<1>4. Head(db).snap \in Snapshot BY <1>3 DEF Sync
<1> QED BY <1>1, <1>2, <1>3, <1>4, StoredWithin DEF Storing

\* The lane goes on.
LEMMA LaneStored ==
    ASSUME Stow, LaneStep
    PROVE  /\ Queued' /\ Calmed' /\ Storing'
           /\ RouteSummary => row = Current
<1> DEFINE c == Call(lane.snap)
<1>0. /\ TypeOK /\ Queued /\ Calmed /\ Storing /\ st \in Aggregate /\ db \in Seq(Sync) /\ Flushing = FlushIn(db)
      /\ lane \in Frame /\ lane.snap \in Snapshot /\ c \in Sync /\ c.by = "lane" /\ c.snap = lane.snap
      /\ ~FlushIn(<<>>) /\ Flushes(<<>>)
  BY StowParts DEF Call, FlushIn, Flushes
<1> HIDE DEF c
<1>1. CASE SyncTurnState
  <2>1. /\ lane.pc = "sync" /\ Answered("lane") /\ db' = Tail(db)
        /\ UNCHANGED <<heard, steps, st, timers, finished>>
        /\ lane' = IF Ending THEN [lane EXCEPT !.pc = "finish"] ELSE Idle
    BY <1>1 DEF SyncTurnState, context, stream, Ending
  <2>2. Flushes(db') /\ (FlushIn(db') => Behind(db)) BY <1>0, <2>1, AnsweredStored, Served DEF Queued, c
  <2>3. Behind(db) => Flushing BY <1>0 DEF Behind, FlushIn
  <2>4. \/ Ending /\ lane'.pc = "finish" /\ lane'.kind = lane.kind /\ lane'.snap = lane.snap
        \/ ~Ending /\ lane'.pc = "idle"
    BY <1>0, <2>1 DEF Frame, Idle
  <2>5. Flushing' => Behind(db) BY <2>2 DEF Flushing, FlushIn
  <2>6. Queued' BY <1>0, <2>1, <2>2, <2>3, <2>4, <2>5 DEF Queued
  <2>7. Calmed'
    <3>1. CASE Ending BY <1>0, <2>1, <2>3, <2>4, <2>5, <3>1 DEF Calmed, Ending
    <3>2. CASE ~Ending BY <1>0, <2>1, <2>4, <3>2 DEF Calmed, Ending
    <3> QED BY <3>1, <3>2
  <2>8. Storing' BY <1>0, <2>1, <2>4, AnsweredStored DEF Storing, Current
  <2> QED BY <2>1, <2>6, <2>7, <2>8 DEF RouteSummary
<1>2. CASE ForceFlushLast
  <2> DEFINE f == [lane EXCEPT !.pc = "last_flush"]
  <2>1. lane.pc = "finish" /\ ForceFlush(f) /\ UNCHANGED <<heard, steps, row, finished>>
    BY <1>2 DEF ForceFlushLast, context
  <2>2. ~finished /\ Flushes(db) /\ Ending BY <1>0, <2>1 DEF Queued, Calmed
  <2>3. f \in Frame /\ f.pc = "last_flush" /\ f.kind = lane.kind /\ f.snap = lane.snap BY <1>0 DEF Frame, PCs
  <2>4. f.snap = Current' BY <1>0, <2>1, <2>2, <2>3 DEF Storing, Current
  <2>5. /\ f.kind \in {"complete", "aborted"} /\ timers.ui # "armed"
        /\ timers.persist = "armed" => ~Flushing
        /\ Flushing => st.dirty
    BY <1>0, <2>1, <2>2, <2>3 DEF Calmed, Ending
  <2> HIDE DEF f
  <2> QED BY <2>1, <2>2, <2>3, <2>4, <2>5, ForceFlushStored DEF RouteSummary
<1>3. CASE FinalizeTurnState
  <2>1. /\ lane.pc = "final" /\ Answered("lane") /\ db' = Tail(db) /\ lane' = [lane EXCEPT !.pc = "summary"]
        /\ UNCHANGED <<heard, steps, st, timers, finished>>
    BY <1>3 DEF FinalizeTurnState, context, stream
  <2>2. Only(db, c) BY <1>0, <2>1 DEF Queued, c
  <2>3. Head(db) = c /\ db' = <<>> BY <1>0, <2>1, <2>2, AnsweredStored, Served
  <2>4. lane'.pc = "summary" /\ lane'.kind = lane.kind /\ lane'.snap = lane.snap BY <1>0, <2>1 DEF Frame
  <2>5. ~finished BY <1>0, <2>1 DEF Queued
  <2>6. row' = Current
    <3>1. lane.snap = Current BY <1>0, <2>1, <2>5 DEF Storing
    <3>2. row' = Stored(Current) BY <1>0, <2>1, <2>3, <3>1, AnsweredStored
    <3> QED BY <1>0, <3>2, StoredAll DEF Storing
  <2>7. Queued' BY <2>1, <2>3, <2>4, <2>5 DEF Queued
  <2>8. Calmed' BY <1>0, <2>1, <2>4, <2>5 DEF Calmed, Ending
  <2>9. Storing'
    <3>1. Within(row', heard') BY <2>1, AnsweredStored
    <3>2. Current' = Current BY <2>1 DEF Current
    <3>3. DOMAIN db' = {} BY <2>3
    <3>4. lane.snap = Current BY <1>0, <2>1, <2>5 DEF Storing
    <3> QED BY <1>0, <2>1, <2>4, <2>6, <3>1, <3>2, <3>3, <3>4 DEF Storing
  <2> QED BY <2>1, <2>7, <2>8, <2>9 DEF RouteSummary
<1>4. CASE RouteSummary
  <2>1. /\ lane.pc = "summary" /\ finished' = TRUE /\ st' = Closed /\ timers' = NoTimers /\ lane' = Idle
        /\ UNCHANGED <<heard, steps, db, row>>
    BY <1>4 DEF RouteSummary, context
  <2>2. db = <<>> /\ row = Current BY <1>0, <2>1 DEF Queued, Storing
  <2>3. lane'.pc = "idle" /\ st'.latest = Nothing /\ ~st'.dirty BY <2>1 DEF Idle, Closed
  <2>4. timers'.persist = "none" /\ timers'.ui = "none" BY <2>1 DEF NoTimers
  <2>5. ~Flushing' BY <2>1, <2>2 DEF Flushing
  <2>6. Queued' BY <1>0, <2>1, <2>2, <2>3, <2>5 DEF Queued
  <2>7. Calmed' BY <2>3, <2>4 DEF Calmed
  <2>8. Storing' BY <1>0, <2>1, <2>3, WithinTurn DEF Storing
  <2> QED BY <2>2, <2>6, <2>7, <2>8
<1> QED BY <1>1, <1>2, <1>3, <1>4 DEF LaneStep

\* The snapshot of a flush is stored, of a turn that has not ended.
LEMMA PersistDoneStored ==
    ASSUME Stow, PersistDone
    PROVE  Queued' /\ Calmed' /\ Storing' /\ ~finished
<1> DEFINE c == Call(lane.snap)
           p == [by |-> "flush", snap |-> st.latest]
<1>0. /\ TypeOK /\ Queued /\ Calmed /\ Storing /\ st \in Aggregate /\ db \in Seq(Sync) /\ Flushing = FlushIn(db)
      /\ lane \in Frame /\ c \in Sync /\ c.by = "lane" /\ c.snap = lane.snap /\ p \in Sync /\ p.by = "flush"
      /\ ~FlushIn(<<>>) /\ Flushes(<<>>) /\ ~Behind(<<>>)
  BY StowParts DEF Call, FlushIn, Flushes, Behind
<1> HIDE DEF c, p
<1>1. /\ Answered("flush") /\ UNCHANGED <<heard, steps, finished>> BY DEF PersistDone, context
<1>2. /\ db # <<>> /\ Head(db).by = "flush" /\ Tail(db) \in Seq(Sync) /\ Within(row', heard)
      /\ \A i \in DOMAIN Tail(db) : Within(Tail(db)[i].snap, heard)
  BY <1>1, AnsweredStored
<1>3. FlushIn(db) BY <1>0, <1>2, ServedWithin DEF Storing
<1>4. ~finished BY <1>0, <1>3 DEF Queued
<1>5. lane.pc \notin {"final", "summary"}
  <2>1. lane.pc = "final" => Head(db) = c BY <1>0, <1>2, Served DEF Queued, c
  <2> QED BY <1>0, <1>2, <2>1 DEF Queued
<1>6. lane.pc \in {"idle", "flush", "finish", "last_flush"} => Tail(db) = <<>> BY <1>0, <1>2, Served DEF Queued
<1>7. lane.pc = "sync" => Only(Tail(db), c) BY <1>0, <1>2, Served DEF Queued, c
<1>8. Only(Tail(db), c) => With(Tail(db), c) /\ ~FlushIn(Tail(db)) /\ ~Behind(Tail(db))
  BY <1>0, <1>2, OnlyOne
<1>9. CASE lane.pc \in DOMAIN After
  <2>1. lane.pc \in {"flush", "last_flush"} BY <1>9, AfterValues
  <2>2. /\ st' = FlushedUi(Persisted(st)) /\ timers' = [timers EXCEPT !.ui = "none"]
        /\ db' = Append(Tail(db), c) /\ lane' = [lane EXCEPT !.pc = After[@]]
    BY <1>9 DEF PersistDone, FlushUi, c
  <2>3. lane'.pc = After[lane.pc] /\ lane'.kind = lane.kind /\ lane'.snap = lane.snap BY <1>0, <2>2 DEF Frame
  <2>4. lane'.pc = IF lane.pc = "flush" THEN "sync" ELSE "final" BY <2>1, <2>3, AfterValues
  <2>5. Only(db', c) /\ ~FlushIn(db') BY <1>0, <1>6, <2>1, <2>2, Joins
  <2>6. With(db', c) /\ ~Behind(db') /\ ~Flushing' BY <2>5 DEF With, Only, Behind, Flushing, FlushIn
  <2>7. Call(lane'.snap) = c BY <2>3 DEF c
  <2>8. Queued' BY <1>1, <1>4, <2>4, <2>5, <2>6, <2>7 DEF Queued
  <2>9. st'.latest = st.latest /\ st'.open = st.open /\ (st'.dirty => st.dirty)
    BY <1>0, <2>2, FlushesLeave, PersistedOK
  <2>10. timers'.ui = "none" /\ timers'.persist = timers.persist BY <1>0, <2>2, Parts
  <2>11. Calmed' BY <1>0, <1>1, <1>4, <2>1, <2>3, <2>4, <2>6, <2>9, <2>10 DEF Calmed, Ending
  <2>12. \A i \in DOMAIN db' : Within(db'[i].snap, heard)
    <3>1. Within(c.snap, heard) BY <1>0, <1>4, <2>1, WithinTurn DEF Storing
    <3> QED BY <1>0, <1>2, <2>2, <3>1, AddedWithin
  <2>13. Storing' BY <1>0, <1>1, <1>2, <1>4, <2>1, <2>3, <2>4, <2>9, <2>12 DEF Storing, Current
  <2> QED BY <1>4, <2>8, <2>11, <2>13
<1>10. CASE lane.pc \notin DOMAIN After
  <2>1. st' = Persisted(st) /\ db' = Tail(db) /\ UNCHANGED <<timers, lane>> BY <1>10 DEF PersistDone
  <2>2. st'.latest = st.latest /\ st'.open = st.open /\ (st'.dirty => st.dirty) BY <1>0, <2>1, FlushesLeave
  <2>3. lane.pc \in {"idle", "sync", "finish"} BY <1>0, <1>5, <1>10, AfterValues DEF Frame, PCs
  <2>4. Queued' BY <1>0, <1>1, <1>4, <1>6, <1>7, <1>8, <2>1, <2>3 DEF Queued, c
  <2>5. ~FlushIn(db') /\ ~Behind(db') BY <1>0, <1>6, <1>7, <1>8, <2>1, <2>3
  <2>6. ~Flushing' BY <2>5 DEF Flushing, FlushIn
  <2>7. Calmed' BY <1>0, <1>1, <1>4, <2>1, <2>2, <2>3, <2>5, <2>6 DEF Calmed, Ending
  <2>8. Storing' BY <1>0, <1>1, <1>2, <1>4, <2>1, <2>2, <2>3 DEF Storing, Current
  <2> QED BY <1>4, <2>4, <2>7, <2>8
<1> QED BY <1>9, <1>10

\* Timers and windows.
LEMMA TimersStored ==
    ASSUME Stow, TimerStep \/ \E k \in Kinds : FlushBuffer(k)
    PROVE  Queued' /\ Calmed' /\ Storing'
<1> DEFINE c == Call(lane.snap)
           p == [by |-> "flush", snap |-> st.latest]
<1>0. /\ TypeOK /\ Queued /\ Calmed /\ Storing /\ st \in Aggregate /\ st.latest \in Snapshot /\ db \in Seq(Sync)
      /\ Flushing = FlushIn(db) /\ lane \in Frame
      /\ c \in Sync /\ c.by = "lane" /\ p \in Sync /\ p.by = "flush" /\ p.snap = st.latest
  BY StowParts
<1> HIDE DEF c, p
<1>1. CASE PersistTimer
  <2>1. /\ timers.persist = "armed" /\ UNCHANGED <<heard, steps, st, row, lane, finished>>
        /\ IF st.dirty /\ ~Flushing THEN StartPersist(st) ELSE UNCHANGED db
        /\ timers' = [timers EXCEPT !.persist = IF st.dirty /\ Flushing THEN "stale" ELSE "none"]
    BY <1>1 DEF PersistTimer, context, shown
  <2>2. timers'.persist # "armed" /\ timers'.ui = timers.ui BY <1>0, <2>1, Parts
  <2>3. ~finished /\ lane.pc \in {"idle", "flush", "sync", "finish"} BY <1>0, <2>1 DEF Calmed, Frame, PCs
  <2>4. CASE st.dirty /\ ~Flushing
    <3>1. db' = Append(db, p) BY <2>1, <2>4 DEF StartPersist, p
    <3>2. lane.pc # "sync" => Flushes(db') BY <1>0, <2>3, <2>4, <3>1, Joins DEF Queued
    <3>3. lane.pc = "sync" => With(db', c) BY <1>0, <2>4, <3>1, Joins DEF Queued, c
    <3>4. Queued' BY <2>1, <2>3, <3>2, <3>3 DEF Queued, c
    <3>5. Calmed' BY <1>0, <2>1, <2>2, <2>3, <2>4 DEF Calmed, Ending
    <3>6. \A i \in DOMAIN db' : Within(db'[i].snap, heard) BY <1>0, <3>1, AddedWithin DEF Storing
    <3>7. Storing' BY <1>0, <2>1, <3>6 DEF Storing, Current
    <3> QED BY <3>4, <3>5, <3>7
  <2>5. CASE ~(st.dirty /\ ~Flushing)
    <3>1. db' = db BY <2>1, <2>5
    <3>2. Queued' BY <1>0, <2>1, <3>1 DEF Queued, Flushing, Ending
    <3>3. Calmed' BY <1>0, <2>1, <2>2, <2>3, <3>1 DEF Calmed, Ending, Flushing
    <3>4. Storing' BY <1>0, <2>1, <3>1 DEF Storing, Current
    <3> QED BY <3>2, <3>3, <3>4
  <2> QED BY <2>4, <2>5
<1>2. CASE UiTimer
  <2>1. /\ timers.ui = "armed" /\ UNCHANGED <<heard, steps, db, row, lane, finished>>
        /\ st' = FlushedUi(st) /\ timers' = [timers EXCEPT !.ui = "none"]
    BY <1>2 DEF UiTimer, FlushUi, context
  <2>2. timers'.ui = "none" /\ timers'.persist = timers.persist BY <1>0, <2>1, Parts
  <2>3. st'.latest = st.latest /\ st'.open = st.open /\ (st'.dirty => st.dirty) BY <1>0, <2>1, FlushesLeave
  <2>4. ~finished /\ lane.pc \notin {"finish", "last_flush", "final", "summary"}
        /\ ~(lane.pc = "sync" /\ Ending)
    BY <1>0, <2>1 DEF Calmed
  <2>5. Queued' BY <1>0, <2>1 DEF Queued, Flushing, Ending
  <2>6. Calmed' BY <1>0, <2>1, <2>3, <2>4 DEF Calmed, Ending
  <2>7. Storing' BY <1>0, <2>1, <2>3 DEF Storing, Current
  <2> QED BY <2>5, <2>6, <2>7
<1>3. ASSUME NEW k \in Kinds, FlushBuffer(k)
      PROVE  Queued' /\ Calmed' /\ Storing'
  <2>1. UNCHANGED <<heard, steps, st, timers, db, row, lane, finished>>
    BY <1>3 DEF FlushBuffer, context, stream
  <2> QED BY <1>0, <2>1 DEF Queued, Calmed, Storing, Flushing, Ending, Current
<1> QED BY <1>1, <1>2, <1>3 DEF TimerStep

\* The invariant holds at the start,
LEMMA StowInit == Init => Stow
<1> SUFFICES ASSUME Init PROVE Stow
  OBVIOUS
<1>1. lane.pc = "idle" /\ ~finished /\ db = <<>> /\ row = Nothing /\ st.latest = Nothing /\ ~st.dirty
  BY DEF Init, Idle, Closed
<1>2. IInv BY IInvInit
<1>3. TypeOK BY <1>2 DEF IInv
<1>4. Queued BY <1>1 DEF Queued, Flushes
<1>5. Calmed BY <1>1 DEF Calmed
<1>6. Storing BY <1>1, <1>3, WithinTurn DEF Storing
<1> QED BY <1>2, <1>4, <1>5, <1>6 DEF Stow

\* and every step keeps it.
LEMMA StowNext == Stow /\ [Next]_vars => Stow'
<1> SUFFICES ASSUME Stow, [Next]_vars PROVE Stow'
  OBVIOUS
<1>1. IInv' BY IInvNext DEF Stow
<1>2. CASE UNCHANGED vars
  <2>1. UNCHANGED <<heard, steps, st, timers, db, row, lane, finished>>
    BY <1>2 DEF vars, context, stream
  <2> QED BY <1>1, <2>1 DEF Stow, Queued, Calmed, Storing, Flushing, Ending, Current
<1>3. CASE Next
  <2>1. Queued' /\ Calmed' /\ Storing'
    BY <1>3, AgentStored, LaneStored, PersistDoneStored, TimersStored DEF Next
  <2> QED BY <1>1, <2>1 DEF Stow
<1> QED BY <1>2, <1>3

\* When the lane is done with the turn its details are stored completely, and no
\* flush is left that could put an older snapshot back.
THEOREM StoredAtEnd == Spec => EndStored
<1>1. Stow /\ [Next]_vars => [/\ RouteSummary => row = Current
                              /\ PersistDone /\ finished => row' = row]_vars
  BY LaneStored, PersistDoneStored DEF LaneStep
<1> QED BY <1>1, StowInit, StowNext, PTL DEF Spec, EndStored
=============================================================================
