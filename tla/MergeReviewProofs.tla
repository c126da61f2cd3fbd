------------------------- MODULE MergeReviewProofs -------------------------
(***************************************************************************)
(* Proofs about MergeReview.                                               *)
(***************************************************************************)
EXTENDS MergeReview, FiniteSetTheorems, TLAPS

-----------------------------------------------------------------------------
(* Types                                                                   *)

Started == {"starting", "creating"}
UserPoints == {"starting", "creating", "applying", "applied", "accepting", "resolver", "turn", "committing",
               "landing", "ending", "interrupting", "restoring", "closing"}
HookPoints == {"checking", "refreshing"}
Kinds == {"resolve", "retry", "batch"}
Calls == [pc : UserPoints \cup HookPoints \cup {"aborting"}, branch : Branches,
          session : {0} \cup Sessions, kind : Kinds \cup {"none", "decide"},
          files : SUBSET Files, choice : Decisions \cup {"none"}]

\* What a call holds at each point: who it is, its session and its job.
CallOK(c) ==
  /\ calls[c] \in Calls
  /\ calls[c].pc \in UserPoints => c \in Users
  /\ calls[c].pc \in HookPoints => c = Hook
  /\ calls[c].pc = "aborting" => c = Timer
  /\ IF calls[c].pc \in Started THEN calls[c].session = 0
     ELSE /\ calls[c].session \in Sessions
          /\ heap[calls[c].session] # None /\ heap[calls[c].session].branch = calls[c].branch
  /\ calls[c].pc \in {"resolver", "turn", "checking", "refreshing"} => calls[c].kind \in Kinds
  /\ calls[c].pc \in {"applying", "applied", "accepting"} => calls[c].choice \in Decisions

HeapOK == heap \in [Sessions -> SessionStates \cup {None}]
MemoryOK ==
  /\ memory \in [Branches -> {0} \cup Sessions]
  /\ \A b \in Branches : memory[b] # 0 => heap[memory[b]] # None /\ heap[memory[b]].branch = b
RowOK ==
  /\ row \in [Branches -> SessionStates \cup {None}]
  /\ \A b \in Branches : row[b] # None => row[b].branch = b
TreeOK == tree \in [Branches -> [merge : BOOLEAN, into : SUBSET Commits, content : [Files -> Contents]]]
AgentOK ==
  /\ record \in [Branches -> {0} \cup Threads]
  /\ hook \in [Branches -> Jobs \cup {None}]
  /\ agent \in [Branches -> [files : SUBSET Files, turn : Turns] \cup {None}]
  /\ turns \in 0 .. MaxTurns
CallsOK == DOMAIN calls = Callers /\ \A c \in Callers : calls[c] = Idle \/ CallOK(c)
RestOK ==
  /\ main \subseteq Commits /\ head \in [Branches -> SUBSET Commits]
  /\ booting \subseteq Branches /\ crashes \in 0 .. MaxCrashes /\ env \in Envs

\* While the startup recovers the stored sessions nothing else happens.
BootOK ==
  /\ booting # {} => (\A b \in Branches : agent[b] = None) /\ (\A c \in Callers : calls[c] = Idle)
  /\ \A b \in booting : row[b] # None

Typed == HeapOK /\ MemoryOK /\ RowOK /\ TreeOK /\ AgentOK /\ CallsOK /\ RestOK /\ BootOK

-----------------------------------------------------------------------------
(* Order: one call, one review                                             *)

UnderReview(b) == memory[b] # 0 \/ row[b] # None

\* A review in the map is stored, and recovered.
MapStored == \A b \in Branches : memory[b] # 0 => row[b] # None /\ b \notin booting
\* All reviews are of one branch.
One == \A a, b \in Branches : UnderReview(a) /\ UnderReview(b) => a = b
\* Calls follow each other, and each works on the session in the map.
OneCall == \A c, d \in Callers : calls[c] # Idle /\ calls[d] # Idle => c = d
InMap == \A c \in Callers : calls[c] # Idle => memory[calls[c].branch] = calls[c].session
\* A review starts when there is none.
StartsAlone == \A c \in Callers : calls[c] # Idle /\ calls[c].pc \in Started => \A b \in Branches : row[b] = None
\* The resolver works while nobody else does.
AgentAlone ==
  \A b \in Branches : agent[b] # None => memory[b] # 0 /\ \A c \in Callers : calls[c] = Idle

\* What a session calls resolved has no conflict left in its worktree.
Resolved(x, t) ==
  \A f \in Files : x.files[f].status = "agent_resolved" => t.content[f] # Unresolved
MapResolved == \A b \in Branches : memory[b] # 0 => Resolved(heap[memory[b]], tree[b])
RowResolved == \A b \in Branches : row[b] # None => Resolved(row[b], tree[b])

Ordered == MapStored /\ One /\ OneCall /\ InMap /\ StartsAlone /\ AgentAlone
\* A side taken for a file is in the worktree before the file is called resolved.
TakesSides == \A u \in Users : At(u, "applied") /\ calls[u].choice \in {"keep_main", "use_branch"} =>
  \A f \in calls[u].files : tree[calls[u].branch].content[f] # Unresolved
Truth == MapResolved /\ RowResolved

-----------------------------------------------------------------------------
(* Merges                                                                  *)

\* A review that throws before it is entered leaves its merge to nobody.
MergeHeld == "unbound" \notin env => \A b \in Branches :
  tree[b].merge => memory[b] # 0 \/ row[b] # None \/ \E u \in Users : At(u, "creating") /\ calls[u].branch = b
CommitsClean == \A u \in Users : At(u, "committing") => Unmerged(calls[u].branch) = {}
MergeOver ==
  \A u \in Users : calls[u].pc \in {"landing", "ending", "closing"} => ~ tree[calls[u].branch].merge
Merges == MergeHeld /\ CommitsClean /\ MergeOver

-----------------------------------------------------------------------------
(* Files                                                                   *)

\* What the session says of a file is what the worktree holds.
Kept(file, content) ==
  IF file.decision \in {"pending", "accept"}
  THEN file.status \notin {"conflict", "agent_pending"} => file.diff = content
  ELSE content = Applied(file.decision, file.diff)

\* A file that a decision, the resolver or its hook is changing, and one whose
\* row is behind its worktree.
Applying(b, f) ==
  \E u \in Users : At(u, "applying") /\ calls[u].branch = b /\ f \in calls[u].files /\ calls[u].choice # "accept"
Writing(b, f) ==
  \E u \in Users : At(u, "applied") /\ calls[u].branch = b /\ f \in calls[u].files
Edited(b, f) ==
  \/ agent[b] # None /\ f \in agent[b].files
  \/ /\ calls[Hook] # Idle /\ calls[Hook].branch = b /\ f \in calls[Hook].files
     /\ At(Hook, "checking") \/ (At(Hook, "refreshing") /\ calls[Hook].choice = "none")

MapKept == \A b \in Branches : memory[b] # 0 /\ tree[b].merge =>
  \A f \in Files : Applying(b, f) \/ Edited(b, f) \/ Kept(heap[memory[b]].files[f], tree[b].content[f])
RowKept == \A b \in Branches : row[b] # None /\ tree[b].merge /\ ~ Working(b) =>
  \A f \in Files : Writing(b, f) \/ Kept(row[b].files[f], tree[b].content[f])

\* The decision being applied is the recorded one.
AppliesDecided == \A u \in Users : At(u, "applying") \/ At(u, "applied") =>
  \A f \in calls[u].files : heap[calls[u].session].files[f].decision = calls[u].choice

\* A file handed over is an undecided conflict, or marked as handed over.
Handed(kind, file) ==
  IF kind = "resolve" THEN file.status = "conflict" /\ file.decision = "pending" ELSE file.status = "agent_pending"
UserHands == \A u \in Users : calls[u].pc \in {"resolver", "turn"} =>
  \A f \in calls[u].files : Handed(calls[u].kind, heap[calls[u].session].files[f])
AgentHands == \A b \in Branches : agent[b] # None =>
  /\ hook[b] # None /\ hook[b].files = agent[b].files
  /\ \A f \in agent[b].files : Handed(hook[b].kind, heap[memory[b]].files[f])
HookHands == At(Hook, "checking") =>
  \A f \in calls[Hook].files : Handed(calls[Hook].kind, heap[calls[Hook].session].files[f])
HookSeen == At(Hook, "refreshing") =>
  \A f \in calls[Hook].files :
    LET file == heap[calls[Hook].session].files[f] IN
    IF calls[Hook].kind = "resolve" THEN file.status # "agent_pending" /\ calls[Hook].choice # "none"
    ELSE /\ file.status = "agent_pending"
         /\ calls[Hook].choice # "none" => file.decision = "pending" /\ file.diff = tree[calls[Hook].branch].content[f]

\* A review closed to the users, and a file marked as handed over, wait for the resolver.
HandsOver(c, b) == calls[c].pc \in {"resolver", "turn", "checking", "refreshing"} /\ calls[c].branch = b
Waits(b) == agent[b] # None \/ \E c \in Callers : HandsOver(c, b)
WaitsFor(b, f) ==
  \/ agent[b] # None /\ f \in agent[b].files
  \/ \E c \in Callers : HandsOver(c, b) /\ f \in calls[c].files
MapWaits == \A b \in Branches : memory[b] # 0 =>
  /\ heap[memory[b]].state = "resolving" => Waits(b)
  /\ \A f \in Files : heap[memory[b]].files[f].status = "agent_pending" => WaitsFor(b, f)
RowOpen == \A b \in Branches : row[b] # None /\ ~ Working(b) =>
  row[b].state # "resolving" /\ \A f \in Files : row[b].files[f].status # "agent_pending"

\* What is committed is decided.
CommitsDecided == \A u \in Users : At(u, "committing") =>
  \A f \in Files : /\ heap[calls[u].session].files[f].decision # "pending"
                   /\ heap[calls[u].session].files[f].status # "conflict"

Kepts == MapKept /\ RowKept /\ AppliesDecided
Hands == UserHands /\ AgentHands /\ HookHands /\ HookSeen
Waiting == MapWaits /\ RowOpen
Faithful == Kepts /\ Hands /\ Waiting /\ CommitsDecided

IInv ==
  /\ Typed
  /\ InTurn => Ordered /\ Truth /\ TakesSides
  /\ InTurn /\ Without({"cut", "git"}) => Merges
  /\ InTurn /\ Without({"cut", "stop", "git", "torn", "stray"}) => Faithful

-----------------------------------------------------------------------------
(* Shapes                                                                  *)

\* The placeholders are no sessions, jobs, turns or calls.
LEMMA Placeholders ==
  /\ \A x \in SessionStates : x # None
  /\ \A x \in Jobs : x # None
  /\ \A x \in [files : SUBSET Files, turn : Turns] : x # None
  /\ \A x \in Calls : x # Idle
<1>1. \A x \in SessionStates : x # None
  BY DEF SessionStates, None
<1>2. \A x \in Jobs : x # None
  BY DEF Jobs, None
<1>3. \A x \in [files : SUBSET Files, turn : Turns] : x # None
  BY DEF None
<1>4. \A x \in Calls : x # Idle
  BY DEF Calls, Idle
<1> QED
  BY <1>1, <1>2, <1>3, <1>4

\* SetStatus changes the status of the given files and nothing else.
LEMMA SetStatusShape ==
  ASSUME NEW x \in SessionStates, NEW F, NEW status \in {"auto_merged", "conflict", "agent_pending", "agent_resolved"}
  PROVE  /\ SetStatus(x, F, status) \in SessionStates
         /\ SetStatus(x, F, status).branch = x.branch
         /\ SetStatus(x, F, status).state = x.state
         /\ SetStatus(x, F, status).resolver = x.resolver
         /\ SetStatus(x, F, status).timer = x.timer
         /\ SetStatus(x, F, status).base = x.base
         /\ \A f \in Files :
              /\ SetStatus(x, F, status).files[f].status = IF f \in F THEN status ELSE x.files[f].status
              /\ SetStatus(x, F, status).files[f].decision = x.files[f].decision
              /\ SetStatus(x, F, status).files[f].diff = x.files[f].diff
BY DEF SetStatus, SessionStates, FileStates

\* What is stored of a session is the session without its timer.
LEMMA StoredShape ==
  ASSUME NEW x \in SessionStates
  PROVE  /\ Stored(x) \in SessionStates
         /\ Stored(x).branch = x.branch /\ Stored(x).files = x.files /\ Stored(x).state = x.state
BY DEF Stored, SessionStates

\* A new session takes a free place.
LEMMA NewSessionFree ==
  ASSUME \E s \in Sessions : Free(s)
  PROVE  NewSession \in Sessions /\ Free(NewSession)
BY DEF NewSession

-----------------------------------------------------------------------------
(* Types of calls                                                          *)

\* The sessions held by the callers D stay where they are.
Keeps(D) ==
  \A d \in D : calls[d] # Idle /\ calls[d].session \in Sessions =>
    heap'[calls[d].session] # None /\ heap'[calls[d].session].branch = heap[calls[d].session].branch

\* No session is lost.
NoneLost == \A s \in Sessions : heap[s] # None => heap'[s] # None /\ heap'[s].branch = heap[s].branch

LEMMA ZeroNoSession == 0 \notin Sessions
BY MergeAssumption DEF Sessions

LEMMA NoneLostKeeps ==
  ASSUME CallsOK, NoneLost
  PROVE  Keeps(Callers)
<1> SUFFICES ASSUME NEW d \in Callers, calls[d] # Idle, calls[d].session \in Sessions
             PROVE  heap'[calls[d].session] # None /\ heap'[calls[d].session].branch = heap[calls[d].session].branch
  BY DEF Keeps
<1>1. CallOK(d)
  BY DEF CallsOK
<1>2. calls[d].session # 0
  BY ZeroNoSession
<1>3. heap[calls[d].session] # None
  BY <1>1, <1>2 DEF CallOK
<1> QED
  BY <1>3 DEF NoneLost

\* A call that is left alone stays what it is.
LEMMA CallStays ==
  ASSUME NEW c \in Callers, CallOK(c), calls[c] # Idle, Keeps({c}), calls'[c] = calls[c]
  PROVE  CallOK(c)'
BY ZeroNoSession DEF CallOK, Keeps

LEMMA CallsStay ==
  ASSUME CallsOK, Keeps(Callers), UNCHANGED calls
  PROVE  CallsOK'
<1>1. ASSUME NEW c \in Callers, calls[c] # Idle
      PROVE  CallOK(c)'
  <2>1. CallOK(c) /\ Keeps({c})
    BY <1>1 DEF CallsOK, Keeps
  <2> QED
    BY <1>1, <2>1, CallStays
<1> QED
  BY <1>1 DEF CallsOK

LEMMA CallReturns ==
  ASSUME CallsOK, NEW c \in Callers, Keeps(Callers \ {c}), Return(c)
  PROVE  CallsOK'
<1>1. /\ DOMAIN calls' = Callers /\ calls'[c] = Idle
      /\ \A d \in Callers : d # c => calls'[d] = calls[d]
  BY DEF Return, CallsOK
<1>2. ASSUME NEW d \in Callers, d # c, calls[d] # Idle
      PROVE  CallOK(d)'
  <2>1. CallOK(d) /\ Keeps({d})
    BY <1>2 DEF CallsOK, Keeps
  <2> QED
    BY <1>1, <1>2, <2>1, CallStays
<1> QED
  BY <1>1, <1>2 DEF CallsOK

\* A call goes on to its next await.
LEMMA CallGoesOn ==
  ASSUME CallsOK, NEW c \in Users, calls[c] # Idle, Keeps(Callers), NEW pc, Await(c, pc), pc \in UserPoints,
         pc \in Started <=> calls[c].pc \in Started,
         pc \notin {"resolver", "applying", "accepting"}, pc = "turn" => calls[c].pc = "resolver",
         pc = "applied" => calls[c].pc = "applying"
  PROVE  CallsOK'
<1>0. c \in Callers
  BY DEF Callers
<1>1. CallOK(c)
  BY <1>0 DEF CallsOK
<1>2. /\ DOMAIN calls' = Callers /\ calls'[c] = [calls[c] EXCEPT !.pc = pc]
      /\ \A d \in Callers : d # c => calls'[d] = calls[d]
  BY <1>0 DEF Await, CallsOK
<1>3. CallOK(c)'
  <2>1. /\ calls'[c] \in Calls /\ calls'[c].pc = pc /\ calls'[c].branch = calls[c].branch
        /\ calls'[c].session = calls[c].session /\ calls'[c].kind = calls[c].kind
        /\ calls'[c].choice = calls[c].choice
    BY <1>1, <1>2 DEF CallOK, Calls
  <2>2. pc \notin HookPoints /\ pc # "aborting"
    BY DEF UserPoints, HookPoints
  <2>3. IF calls'[c].pc \in Started THEN calls'[c].session = 0
        ELSE /\ calls'[c].session \in Sessions
             /\ heap'[calls'[c].session] # None /\ heap'[calls'[c].session].branch = calls'[c].branch
    BY <1>0, <1>1, <2>1 DEF CallOK, Keeps
  <2>4. calls'[c].pc \in {"resolver", "turn", "checking", "refreshing"} => calls'[c].kind \in Kinds
    BY <1>1, <2>1, <2>2 DEF CallOK, HookPoints
  <2>5. calls'[c].pc \in {"applying", "applied", "accepting"} => calls'[c].choice \in Decisions
    BY <1>1, <2>1 DEF CallOK
  <2> QED
    BY <2>1, <2>2, <2>3, <2>4, <2>5 DEF CallOK
<1>4. ASSUME NEW d \in Callers, d # c, calls[d] # Idle
      PROVE  CallOK(d)'
  <2>1. CallOK(d) /\ Keeps({d})
    BY <1>4 DEF CallsOK, Keeps
  <2> QED
    BY <1>2, <1>4, <2>1, CallStays
<1> QED
  BY <1>2, <1>3, <1>4 DEF CallsOK

\* A call begins.
LEMMA CallBegins ==
  ASSUME CallsOK, Keeps(Callers), NEW c \in Callers, NEW pc, NEW b \in Branches, NEW s, NEW job, NEW choice,
         Call(c, pc, b, s, job, choice),
         \/ c \in Users /\ pc \in UserPoints
         \/ c = Hook /\ pc \in HookPoints
         \/ c = Timer /\ pc = "aborting",
         IF pc \in Started THEN s = 0 ELSE s \in Sessions /\ heap'[s] # None /\ heap'[s].branch = b,
         job.kind \in Kinds \cup {"none", "decide"}, job.files \subseteq Files,
         choice \in Decisions \cup {"none"},
         pc \in {"resolver", "turn", "checking", "refreshing"} => job.kind \in Kinds,
         pc \in {"applying", "applied", "accepting"} => choice \in Decisions
  PROVE  CallsOK'
<1>2. /\ DOMAIN calls' = Callers
      /\ calls'[c] = [pc |-> pc, branch |-> b, session |-> s, kind |-> job.kind, files |-> job.files, choice |-> choice]
      /\ \A d \in Callers : d # c => calls'[d] = calls[d]
  BY DEF Call, CallsOK
<1>3. CallOK(c)'
  <2>1. /\ calls'[c].pc = pc /\ calls'[c].branch = b /\ calls'[c].session = s /\ calls'[c].kind = job.kind
        /\ calls'[c].choice = choice
    BY <1>2
  <2>2. pc \in UserPoints \cup HookPoints \cup {"aborting"}
    OBVIOUS
  <2>3. s \in {0} \cup Sessions
    OBVIOUS
  <2>4. calls'[c] \in Calls
    BY <1>2, <2>2, <2>3 DEF Calls
  <2>5. /\ pc \in UserPoints => pc \notin HookPoints /\ pc # "aborting"
        /\ pc \in HookPoints => pc # "aborting"
    BY DEF UserPoints, HookPoints
  <2> QED
    BY <2>1, <2>4, <2>5 DEF CallOK
<1>4. ASSUME NEW d \in Callers, d # c, calls[d] # Idle
      PROVE  CallOK(d)'
  <2>1. CallOK(d) /\ Keeps({d})
    BY <1>4 DEF CallsOK, Keeps
  <2> QED
    BY <1>2, <1>4, <2>1, CallStays
<1> QED
  BY <1>2, <1>3, <1>4 DEF CallsOK

-----------------------------------------------------------------------------
(* Types of sessions                                                       *)

LEMMA PersistTyped ==
  ASSUME RowOK, NEW x \in SessionStates, Persist(x)
  PROVE  RowOK'
BY StoredShape DEF RowOK, Persist, SessionStates

\* A session is changed in its place.
LEMMA ChangeTyped ==
  ASSUME HeapOK, MemoryOK, NEW s \in Sessions, heap[s] # None, NEW x \in SessionStates, x.branch = heap[s].branch,
         heap' = [heap EXCEPT ![s] = x], UNCHANGED memory
  PROVE  HeapOK' /\ MemoryOK' /\ NoneLost
<1>1. x # None
  BY Placeholders
<1>2. HeapOK'
  BY DEF HeapOK
<1>3. NoneLost
  BY <1>1 DEF NoneLost, HeapOK
<1>4. MemoryOK'
  BY <1>1, ZeroNoSession DEF MemoryOK, HeapOK
<1> QED
  BY <1>2, <1>3, <1>4

\* A session is put in a free place and in the map.
LEMMA EnterTyped ==
  ASSUME HeapOK, MemoryOK, RowOK, CallsOK, NEW b \in Branches, NEW x \in SessionStates, x.branch = b,
         \E s \in Sessions : Free(s), Store(NewSession, x), memory' = [memory EXCEPT ![b] = NewSession]
  PROVE  HeapOK' /\ MemoryOK' /\ RowOK' /\ Keeps(Callers)
<1> DEFINE n == NewSession
<1>1. n \in Sessions /\ Free(n)
  BY NewSessionFree
<1> HIDE DEF n
<1>2. heap' = [heap EXCEPT ![n] = x] /\ Persist(x) /\ memory' = [memory EXCEPT ![b] = n]
  BY DEF n, Store
<1>3. x # None
  BY Placeholders
<1>4. HeapOK'
  BY <1>1, <1>2 DEF HeapOK
<1>5. RowOK'
  BY <1>2, PersistTyped
<1>6. Keeps(Callers)
  <2> SUFFICES ASSUME NEW d \in Callers, calls[d] # Idle, calls[d].session \in Sessions
               PROVE  heap'[calls[d].session] # None /\ heap'[calls[d].session].branch = heap[calls[d].session].branch
    BY DEF Keeps
  <2>1. CallOK(d) /\ calls[d].session # n
    BY <1>1 DEF CallsOK, Free
  <2>2. heap[calls[d].session] # None
    BY <2>1, ZeroNoSession DEF CallOK
  <2> QED
    BY <1>2, <2>1, <2>2 DEF HeapOK
<1>7. MemoryOK'
  <2>1. memory' \in [Branches -> {0} \cup Sessions]
    BY <1>1, <1>2 DEF MemoryOK
  <2>2. ASSUME NEW a \in Branches, memory'[a] # 0
        PROVE  heap'[memory'[a]] # None /\ heap'[memory'[a]].branch = a
    <3>1. CASE a = b
      BY <1>1, <1>2, <1>3, <3>1 DEF MemoryOK, HeapOK
    <3>2. CASE a # b
      BY <1>1, <1>2, <2>2, <3>2 DEF MemoryOK, HeapOK, Free
    <3> QED
      BY <3>1, <3>2
  <2> QED
    BY <2>1, <2>2 DEF MemoryOK
<1> QED
  BY <1>4, <1>5, <1>6, <1>7

\* What is recovered is a session of the same branch.
LEMMA RecoveredTyped ==
  ASSUME NEW x \in SessionStates
  PROVE  Recovered(x) \in SessionStates /\ Recovered(x).branch = x.branch
<1> DEFINE Cut == {f \in Files : x.files[f].status = "agent_pending"}
           y == SetStatus(x, Cut, "conflict")
           Done == {f \in Undecided(y) : y.files[f].status = "conflict"}
           w == SetStatus(y, Done, "agent_resolved")
           z == IF Unmerged(x.branch) = {} THEN w ELSE y
<1>1. Recovered(x) = IF x.state = "resolving" THEN [z EXCEPT !.state = "reviewing", !.timer = TRUE]
                     ELSE [x EXCEPT !.timer = TRUE]
  BY DEF Recovered
<1>2. y \in SessionStates /\ y.branch = x.branch
  BY SetStatusShape
<1> HIDE DEF Cut, y
<1>3. w \in SessionStates /\ w.branch = x.branch
  BY <1>2, SetStatusShape
<1> HIDE DEF Done, w
<1>4. z \in SessionStates /\ z.branch = x.branch
  BY <1>2, <1>3
<1> HIDE DEF z
<1> QED
  BY <1>1, <1>4 DEF SessionStates

\* A forgotten session is gone only if no other call holds it.
LEMMA ForgetTyped ==
  ASSUME HeapOK, MemoryOK, RowOK, CallsOK, NEW c \in Callers, NEW b \in Branches, ForgetSession(c, b)
  PROVE  HeapOK' /\ MemoryOK' /\ RowOK' /\ Keeps(Callers \ {c})
<1>1. /\ heap' = [s \in Sessions |->
            IF memory[b] # s THEN heap[s]
            ELSE IF \E d \in Callers \ {c} : calls[d] # Idle /\ calls[d].session = s
                 THEN [heap[s] EXCEPT !.timer = FALSE] ELSE None]
      /\ memory' = [memory EXCEPT ![b] = 0] /\ row' = [row EXCEPT ![b] = None]
  BY DEF ForgetSession
<1>2. \A s \in Sessions : heap[s] # None /\ memory[b] = s =>
        heap[s] \in SessionStates /\ [heap[s] EXCEPT !.timer = FALSE] \in SessionStates
        /\ [heap[s] EXCEPT !.timer = FALSE].branch = heap[s].branch
  BY DEF HeapOK, SessionStates
<1>3. \A s \in Sessions : memory[b] = s => heap[s] # None
  BY ZeroNoSession DEF MemoryOK
<1>4. HeapOK'
  BY <1>1, <1>2, <1>3 DEF HeapOK
<1>5. RowOK'
  BY <1>1 DEF RowOK
<1>6. MemoryOK'
  <2>1. memory' \in [Branches -> {0} \cup Sessions]
    BY <1>1 DEF MemoryOK
  <2>2. ASSUME NEW a \in Branches, memory'[a] # 0
        PROVE  heap'[memory'[a]] # None /\ heap'[memory'[a]].branch = a
    <3>1. a # b /\ memory'[a] = memory[a] /\ memory[a] \in Sessions
      BY <1>1, <2>2 DEF MemoryOK
    <3>2. heap[memory[a]] # None /\ heap[memory[a]].branch = a
      BY <2>2, <3>1 DEF MemoryOK
    <3>3. memory[a] # memory[b]
      BY <3>1, <3>2, ZeroNoSession DEF MemoryOK
    <3> QED
      BY <1>1, <3>1, <3>2, <3>3
  <2> QED
    BY <2>1, <2>2 DEF MemoryOK
<1>7. Keeps(Callers \ {c})
  <2> SUFFICES ASSUME NEW d \in Callers \ {c}, calls[d] # Idle, calls[d].session \in Sessions
               PROVE  heap'[calls[d].session] # None /\ heap'[calls[d].session].branch = heap[calls[d].session].branch
    BY DEF Keeps
  <2> DEFINE s == calls[d].session
  <2>1. CallOK(d) /\ heap[s] # None
    BY ZeroNoSession DEF CallsOK, CallOK
  <2>2. CASE memory[b] # s
    BY <1>1, <2>1, <2>2
  <2>3. CASE memory[b] = s
    <3>1. heap'[s] = [heap[s] EXCEPT !.timer = FALSE]
      BY <1>1, <2>3
    <3> QED
      BY <1>2, <2>1, <2>3, <3>1, Placeholders
  <2> QED
    BY <2>2, <2>3
<1> QED
  BY <1>4, <1>5, <1>6, <1>7

\* A caller that is somewhere holds what the point says.
LEMMA CallerHolds ==
  ASSUME CallsOK, HeapOK, NEW c \in Callers, calls[c].pc # "idle"
  PROVE  /\ calls[c] # Idle /\ CallOK(c) /\ calls[c] \in Calls /\ calls[c].branch \in Branches
         /\ calls[c].pc \notin Started =>
              /\ calls[c].session \in Sessions /\ heap[calls[c].session] # None
              /\ heap[calls[c].session] \in SessionStates
              /\ heap[calls[c].session].branch = calls[c].branch
<1>1. calls[c] # Idle
  BY DEF Idle
<1>2. CallOK(c)
  BY <1>1 DEF CallsOK
<1>3. calls[c] \in Calls /\ calls[c].branch \in Branches
  BY <1>2 DEF CallOK, Calls
<1> QED
  BY <1>1, <1>2, <1>3 DEF CallOK, HeapOK

LEMMA MapHolds ==
  ASSUME HeapOK, MemoryOK, NEW b \in Branches, memory[b] # 0
  PROVE  /\ memory[b] \in Sessions /\ heap[memory[b]] # None
         /\ heap[memory[b]] \in SessionStates /\ heap[memory[b]].branch = b
BY DEF HeapOK, MemoryOK

\* A server where a call or a resolver is at work has started, and stays up.
LEMMA Up ==
  ASSUME BootOK
  PROVE  /\ \A c \in Callers : calls[c] # Idle => booting = {}
         /\ \A b \in Branches : agent[b] # None => booting = {}
BY DEF BootOK

LEMMA StillUp ==
  ASSUME booting = {}, UNCHANGED booting
  PROVE  BootOK'
BY DEF BootOK

LEMMA TypedInit == Init => Typed
<1> SUFFICES ASSUME Init PROVE Typed
  OBVIOUS
<1> USE DEF Init
<1>1. HeapOK /\ MemoryOK /\ RowOK
  BY DEF HeapOK, MemoryOK, RowOK
<1>2. TreeOK
  BY DEF TreeOK, Clean, Contents, Ours
<1>3. AgentOK
  BY MergeAssumption DEF AgentOK
<1>4. CallsOK
  BY DEF CallsOK
<1>5. RestOK
  BY MergeAssumption DEF RestOK, Commits
<1>6. BootOK
  BY DEF BootOK
<1> QED
  BY <1>1, <1>2, <1>3, <1>4, <1>5, <1>6 DEF Typed

LEMMA CleanTyped == Clean \in [merge : BOOLEAN, into : SUBSET Commits, content : [Files -> Contents]]
BY DEF Clean, Contents, Ours

\* Starting and loading a review.
LEMMA TypedStart ==
  ASSUME Typed, NEW u \in Users, NEW b \in Branches, StartMergeReview(u, b)
  PROVE  Typed'
<1> USE DEF Typed, StartMergeReview, gitVars, agentVars
<1>1. NoneLost
  BY DEF NoneLost
<1>2. CallsOK'
  BY <1>1, NoneLostKeeps, CallBegins DEF Callers, UserPoints, NoJob, Started
<1>3. HeapOK' /\ MemoryOK' /\ RowOK' /\ TreeOK' /\ AgentOK' /\ RestOK'
  BY DEF HeapOK, MemoryOK, RowOK, TreeOK, AgentOK, RestOK
<1>4. BootOK'
  BY StillUp DEF Ready
<1> QED
  BY <1>2, <1>3, <1>4

LEMMA TypedMerge ==
  ASSUME Typed, NEW u \in Users, StartMergeSession(u)
  PROVE  Typed'
<1> USE DEF Typed, gitVars, agentVars
<1> DEFINE b == calls[u].branch
<1>0. u \in Callers /\ calls[u] # Idle /\ calls[u].pc = "starting" /\ b \in Branches
  BY CallerHolds DEF StartMergeSession, At, Callers
<1>1. NoneLost
  BY DEF NoneLost, StartMergeSession
<1>2. CallsOK'
  <2>1. CASE Return(u)
    BY <1>0, <1>1, <2>1, NoneLostKeeps, CallReturns DEF Keeps
  <2>2. CASE Await(u, "creating")
    BY <1>0, <1>1, <2>2, NoneLostKeeps, CallGoesOn DEF UserPoints, Started
  <2> QED
    BY <2>1, <2>2 DEF StartMergeSession
<1>3. TreeOK'
  <2>1. Clean \in [merge : BOOLEAN, into : SUBSET Commits, content : [Files -> Contents]]
    BY DEF Clean, Contents, Ours
  <2>2. [merge |-> TRUE, into |-> main, content |->
           [f \in Files |-> IF f \in Conflicting THEN Unresolved ELSE <<"both", 0>>]]
          \in [merge : BOOLEAN, into : SUBSET Commits, content : [Files -> Contents]]
    BY DEF RestOK, Contents, Unresolved
  <2> HIDE DEF Clean
  <2> QED
    BY <1>0, <2>1, <2>2 DEF TreeOK, StartMergeSession
<1>4. HeapOK' /\ MemoryOK' /\ RowOK' /\ AgentOK' /\ RestOK'
  BY DEF HeapOK, MemoryOK, RowOK, AgentOK, RestOK, StartMergeSession
<1>5. BootOK'
  BY <1>0, Up, StillUp DEF StartMergeSession
<1> QED
  BY <1>2, <1>3, <1>4, <1>5

LEMMA TypedCreate ==
  ASSUME Typed, NEW u \in Users, CreateSession(u)
  PROVE  Typed'
<1> USE DEF Typed, gitVars, agentVars
<1> DEFINE b == calls[u].branch
           x == [branch |-> b, state |-> "reviewing", resolver |-> 0, timer |-> TRUE, base |-> None, files |->
                 [f \in Files |-> [status |-> IF f \in Conflicting THEN "conflict" ELSE "auto_merged",
                                   decision |-> "pending", diff |-> tree[b].content[f]]]]
<1>0. u \in Callers /\ b \in Branches
  BY CallerHolds DEF CreateSession, At, Callers
<1>1. x \in SessionStates /\ x.branch = b
  <2>1. \A f \in Files : tree[b].content[f] \in Contents
    BY <1>0 DEF TreeOK
  <2> QED
    BY <1>0, <2>1 DEF SessionStates, FileStates
<1>2. /\ memory' = [memory EXCEPT ![b] = NewSession] /\ Store(NewSession, x) /\ Return(u)
      /\ \E s \in Sessions : Free(s)
      /\ UNCHANGED <<gitVars, tree, agentVars, booting, crashes, env>>
  BY DEF CreateSession
<1> HIDE DEF x
<1>3. HeapOK' /\ MemoryOK' /\ RowOK' /\ Keeps(Callers)
  BY <1>0, <1>1, <1>2, EnterTyped
<1>4. CallsOK'
  BY <1>0, <1>2, <1>3, CallReturns DEF Keeps
<1>5. TreeOK' /\ AgentOK' /\ RestOK'
  BY <1>2 DEF TreeOK, AgentOK, RestOK
<1>6. BootOK'
  BY <1>0, <1>2, Up, StillUp, CallerHolds DEF CreateSession, At
<1> QED
  BY <1>3, <1>4, <1>5, <1>6

\* Load of a session of the branch.
LEMMA TypedLoad ==
  ASSUME Typed, NEW b \in Branches, NEW x \in SessionStates, x.branch = b, Load(b, x),
         UNCHANGED calls
  PROVE  HeapOK' /\ MemoryOK' /\ RowOK' /\ CallsOK'
<1>1. HeapOK' /\ MemoryOK' /\ RowOK' /\ Keeps(Callers)
  BY EnterTyped DEF Typed, Load
<1> QED
  BY <1>1, CallsStay DEF Typed

LEMMA Loadable ==
  ASSUME Typed, NEW b \in Branches, row[b] # None
  PROVE  /\ Recovered(row[b]) \in SessionStates /\ Recovered(row[b]).branch = b
         /\ [row[b] EXCEPT !.state = "recovery_required", !.timer = TRUE] \in SessionStates
         /\ [row[b] EXCEPT !.state = "recovery_required", !.timer = TRUE].branch = b
<1>1. row[b] \in SessionStates /\ row[b].branch = b
  BY DEF Typed, RowOK
<1>2. Recovered(row[b]) \in SessionStates /\ Recovered(row[b]).branch = b
  BY <1>1, RecoveredTyped
<1> QED
  BY <1>1, <1>2 DEF SessionStates

LEMMA TypedGet ==
  ASSUME Typed, NEW u \in Users, NEW b \in Branches, GetMergeReview(u, b)
  PROVE  Typed'
<1>1. HeapOK' /\ MemoryOK' /\ RowOK' /\ CallsOK'
  BY Loadable, TypedLoad DEF GetMergeReview
<1>2. TreeOK' /\ AgentOK' /\ RestOK'
  BY DEF Typed, TreeOK, AgentOK, RestOK, GetMergeReview, gitVars, agentVars
<1>3. BootOK'
  BY StillUp DEF GetMergeReview, Ready
<1> QED
  BY <1>1, <1>2, <1>3 DEF Typed

LEMMA TypedRecover ==
  ASSUME Typed, NEW b \in Branches, RecoverSession(b)
  PROVE  Typed'
<1>0. /\ b \in booting /\ row[b] # None
      /\ UNCHANGED <<gitVars, tree, agentVars, calls, crashes, env>> /\ booting' = booting \ {b}
  BY DEF RecoverSession, Typed, BootOK
<1>1. TreeOK' /\ AgentOK' /\ RestOK'
  BY <1>0 DEF Typed, TreeOK, AgentOK, RestOK, gitVars, agentVars
<1>2. ASSUME \A a \in Branches : a # b => row'[a] = row[a]
      PROVE  BootOK'
  BY <1>0, <1>2 DEF Typed, BootOK, agentVars, RestOK
<1>3. CASE Load(b, Recovered(row[b]))
  <2>1. HeapOK' /\ MemoryOK' /\ RowOK' /\ CallsOK'
    BY <1>0, <1>3, Loadable, TypedLoad
  <2>2. \A a \in Branches : a # b => row'[a] = row[a]
    BY <1>0, <1>3, Loadable DEF Load, Store, Persist, Typed, RowOK
  <2> QED
    BY <1>1, <1>2, <2>1, <2>2 DEF Typed
<1>4. CASE row' = [row EXCEPT ![b].state = "recovery_required"] /\ UNCHANGED <<heap, memory>>
  <2>1. RowOK' /\ \A a \in Branches : a # b => row'[a] = row[a]
    BY <1>0, <1>4 DEF Typed, RowOK, SessionStates
  <2>2. HeapOK' /\ MemoryOK' /\ NoneLost
    BY <1>4 DEF Typed, HeapOK, MemoryOK, NoneLost
  <2> QED
    BY <1>0, <1>1, <1>2, <2>1, <2>2, NoneLostKeeps, CallsStay DEF Typed
<1> QED
  BY <1>3, <1>4 DEF RecoverSession

\* A call begins, continues or returns while nothing but sessions, rows and
\* the worktree change.
LEMMA TypedRest ==
  ASSUME Typed, UNCHANGED <<main, head, crashes, env>>, booting = {}, UNCHANGED booting
  PROVE  RestOK' /\ BootOK'
BY StillUp DEF Typed, RestOK

LEMMA TypedAgents ==
  ASSUME Typed, UNCHANGED <<record, hook, agent, turns>>
  PROVE  AgentOK'
BY DEF Typed, AgentOK

LEMMA TypedTree ==
  ASSUME Typed, UNCHANGED tree
  PROVE  TreeOK'
BY DEF Typed, TreeOK

LEMMA TypedRow ==
  ASSUME Typed, UNCHANGED row
  PROVE  RowOK'
BY DEF Typed, RowOK

LEMMA TypedHeap ==
  ASSUME Typed, UNCHANGED <<heap, memory>>
  PROVE  HeapOK' /\ MemoryOK' /\ NoneLost
BY DEF Typed, HeapOK, MemoryOK, NoneLost

\* The point at which the call of a user on a review begins, with its job.
BeginsWith(pc, job, choice) ==
  /\ pc \in UserPoints \ Started
  /\ job.kind \in Kinds \cup {"none", "decide"} /\ job.files \subseteq Files
  /\ choice \in Decisions \cup {"none"}
  /\ pc \in {"resolver", "turn"} => job.kind \in Kinds
  /\ pc \in {"applying", "applied", "accepting"} => choice \in Decisions

\* A user's call on an open review changes its session and begins to wait.
LEMMA TypedBegin ==
  ASSUME Typed, NEW u \in Users, NEW b \in Branches, Opened(u, b), NEW x \in SessionStates, x.branch = b,
         heap' = [heap EXCEPT ![memory[b]] = x] \/ UNCHANGED heap, UNCHANGED memory,
         NEW pc, NEW job, NEW choice,
         Call(u, pc, b, memory[b], job, choice), BeginsWith(pc, job, choice)
  PROVE  HeapOK' /\ MemoryOK' /\ CallsOK' /\ booting = {}
<1>1. /\ memory[b] \in Sessions /\ heap[memory[b]] # None
      /\ heap[memory[b]].branch = b /\ booting = {}
  BY MapHolds DEF Opened, Ready, Typed
<1>2. HeapOK' /\ MemoryOK' /\ NoneLost
  BY <1>1, ChangeTyped, TypedHeap DEF Typed
<1>3. heap'[memory[b]] # None /\ heap'[memory[b]].branch = b
  BY <1>1, <1>2 DEF NoneLost
<1>4. pc \notin HookPoints /\ u \in Callers /\ Keeps(Callers)
  BY <1>2, NoneLostKeeps DEF HookPoints, UserPoints, Callers, Typed, BeginsWith
<1>5. CallsOK'
  BY <1>1, <1>3, <1>4, CallBegins DEF HookPoints, Typed, BeginsWith
<1> QED
  BY <1>1, <1>2, <1>5

LEMMA TypedDecide ==
  ASSUME Typed, NEW u \in Users, NEW b \in Branches, NEW f \in Files, NEW choice \in Choices,
         DecideFile(u, b, f, choice)
  PROVE  Typed'
<1> DEFINE s == memory[b]
           x == [heap[s] EXCEPT !.files[f].decision = choice]
<1>1. /\ Opened(u, b) /\ heap' = [heap EXCEPT ![s] = x]
      /\ Call(u, "applying", b, s, [kind |-> "decide", files |-> {f}], choice)
      /\ UNCHANGED <<main, head, tree, memory, row, record, hook, agent, turns, booting, crashes, env>>
  BY DEF DecideFile, Reviewing, gitVars, agentVars
<1>2. choice \in Decisions
  BY MergeAssumption
<1>3. x \in SessionStates /\ x.branch = b
  BY <1>1, <1>2, MapHolds DEF Opened, Typed, SessionStates, FileStates
<1> HIDE DEF x
<1>6. BeginsWith("applying", [kind |-> "decide", files |-> {f}], choice)
  BY <1>2 DEF BeginsWith, UserPoints, Started, Kinds, Decisions, NoJob
<1>4. HeapOK' /\ MemoryOK' /\ CallsOK' /\ booting = {}
  BY <1>1, <1>3, <1>6, TypedBegin
<1> QED
  BY <1>1, <1>4, TypedRest, TypedAgents, TypedTree, TypedRow DEF Typed

LEMMA TypedAccept ==
  ASSUME Typed, NEW u \in Users, NEW b \in Branches, AcceptAllRemaining(u, b)
  PROVE  Typed'
<1> DEFINE s == memory[b]
<1>1. PICK f \in Files :
        /\ Opened(u, b) /\ heap' = [heap EXCEPT ![s] = [heap[s] EXCEPT !.files[f].decision = "accept"]]
        /\ Call(u, "accepting", b, s, [kind |-> "decide", files |-> {f}], "accept")
        /\ UNCHANGED <<main, head, tree, memory, row, record, hook, agent, turns, booting, crashes, env>>
  BY DEF AcceptAllRemaining, Reviewing, gitVars, agentVars, Acceptable, Undecided
<1> DEFINE x == [heap[s] EXCEPT !.files[f].decision = "accept"]
<1>3. x \in SessionStates /\ x.branch = b
  BY <1>1, MapHolds DEF Opened, Typed, SessionStates, FileStates, Decisions
<1>5. heap' = [heap EXCEPT ![s] = x]
  BY <1>1
<1> HIDE DEF x
<1>6. BeginsWith("accepting", [kind |-> "decide", files |-> {f}], "accept")
  BY DEF BeginsWith, UserPoints, Started, Kinds, Decisions, NoJob
<1>4. HeapOK' /\ MemoryOK' /\ CallsOK' /\ booting = {}
  BY <1>1, <1>3, <1>5, <1>6, TypedBegin
<1> QED
  BY <1>1, <1>4, TypedRest, TypedAgents, TypedTree, TypedRow DEF Typed

LEMMA TypedResolve ==
  ASSUME Typed, NEW u \in Users, NEW b \in Branches, ResolveConflictsViaAgent(u, b)
  PROVE  Typed'
<1> DEFINE s == memory[b]
           F == {f \in Undecided(heap[s]) : heap[s].files[f].status = "conflict"}
           x == [heap[s] EXCEPT !.state = "resolving"]
<1>1. /\ Opened(u, b) /\ heap' = [heap EXCEPT ![s] = x]
      /\ Call(u, "resolver", b, s, [kind |-> "resolve", files |-> F], "none")
      /\ UNCHANGED <<main, head, tree, memory, row, record, hook, agent, turns, booting, crashes, env>>
  BY DEF ResolveConflictsViaAgent, Reviewing, gitVars, agentVars
<1>3. x \in SessionStates /\ x.branch = b
  BY <1>1, MapHolds DEF Opened, Typed, SessionStates
<1>5. F \subseteq Files
  BY DEF Undecided
<1> HIDE DEF x, F
<1>6. BeginsWith("resolver", [kind |-> "resolve", files |-> F], "none")
  BY <1>5 DEF BeginsWith, UserPoints, Started, Kinds, Decisions, NoJob
<1>4. HeapOK' /\ MemoryOK' /\ CallsOK' /\ booting = {}
  BY <1>1, <1>3, <1>6, TypedBegin
<1> QED
  BY <1>1, <1>4, TypedRest, TypedAgents, TypedTree, TypedRow DEF Typed

LEMMA ContentTyped ==
  ASSUME TreeOK, NEW b \in Branches
  PROVE  /\ tree[b].content \in [Files -> Contents] /\ tree[b].into \subseteq Commits
         /\ tree[b].merge \in BOOLEAN
BY DEF TreeOK

LEMMA TypedRetry ==
  ASSUME Typed, NEW u \in Users, NEW b \in Branches, NEW f \in Files, RetryFileWithAgent(u, b, f)
  PROVE  Typed'
<1> DEFINE s == memory[b]
           y == SetStatus(heap[s], {f}, "agent_pending")
           x == [y EXCEPT !.base = tree[b].content]
<1>1. /\ Opened(u, b) /\ heap' = [heap EXCEPT ![s] = x]
      /\ Call(u, "resolver", b, s, [kind |-> "retry", files |-> {f}], "none")
      /\ UNCHANGED <<main, head, tree, memory, row, record, hook, agent, turns, booting, crashes, env>>
  BY DEF RetryFileWithAgent, Reviewing, gitVars, agentVars
<1>2. y \in SessionStates /\ y.branch = b
  BY <1>1, MapHolds, SetStatusShape DEF Opened, Typed
<1> HIDE DEF y
<1>3. x \in SessionStates /\ x.branch = b
  BY <1>2, ContentTyped DEF Typed, SessionStates
<1> HIDE DEF x
<1>6. BeginsWith("resolver", [kind |-> "retry", files |-> {f}], "none")
  BY DEF BeginsWith, UserPoints, Started, Kinds, Decisions, NoJob
<1>4. HeapOK' /\ MemoryOK' /\ CallsOK' /\ booting = {}
  BY <1>1, <1>3, <1>6, TypedBegin
<1> QED
  BY <1>1, <1>4, TypedRest, TypedAgents, TypedTree, TypedRow DEF Typed

LEMMA TypedBatch ==
  ASSUME Typed, NEW u \in Users, NEW b \in Branches, NEW F \in Batches, RetryFilesWithAgent(u, b, F)
  PROVE  Typed'
<1> DEFINE s == memory[b]
           y == SetStatus(heap[s], F, "agent_pending")
           x == [y EXCEPT !.state = "resolving", !.base = tree[b].content]
<1>1. /\ Opened(u, b) /\ heap' = [heap EXCEPT ![s] = x]
      /\ Call(u, "resolver", b, s, [kind |-> "batch", files |-> F], "none")
      /\ UNCHANGED <<main, head, tree, memory, row, record, hook, agent, turns, booting, crashes, env>>
  BY DEF RetryFilesWithAgent, Reviewing, gitVars, agentVars
<1>2. y \in SessionStates /\ y.branch = b
  BY <1>1, MapHolds, SetStatusShape DEF Opened, Typed
<1> HIDE DEF y
<1>3. x \in SessionStates /\ x.branch = b
  BY <1>2, ContentTyped DEF Typed, SessionStates
<1>5. F \subseteq Files
  BY MergeAssumption
<1> HIDE DEF x
<1>6. BeginsWith("resolver", [kind |-> "batch", files |-> F], "none")
  BY <1>5 DEF BeginsWith, UserPoints, Started, Kinds, Decisions, NoJob
<1>4. HeapOK' /\ MemoryOK' /\ CallsOK' /\ booting = {}
  BY <1>1, <1>3, <1>6, TypedBegin
<1> QED
  BY <1>1, <1>4, TypedRest, TypedAgents, TypedTree, TypedRow DEF Typed

LEMMA TypedCommit ==
  ASSUME Typed, NEW u \in Users, NEW b \in Branches, CommitMergeReview(u, b)
  PROVE  Typed'
<1>1. /\ Opened(u, b) /\ Call(u, "committing", b, memory[b], NoJob, "none")
      /\ UNCHANGED <<main, head, tree, heap, memory, row, record, hook, agent, turns, booting, crashes, env>>
  BY DEF CommitMergeReview, gitVars, agentVars
<1>2. heap[memory[b]] \in SessionStates /\ heap[memory[b]].branch = b
  BY <1>1, MapHolds DEF Opened, Typed
<1>6. BeginsWith("committing", NoJob, "none")
  BY DEF BeginsWith, UserPoints, Started, Kinds, Decisions, NoJob
<1>3. HeapOK' /\ MemoryOK' /\ CallsOK' /\ booting = {}
  BY <1>1, <1>2, <1>6, TypedBegin
<1> QED
  BY <1>1, <1>3, TypedRest, TypedAgents, TypedTree, TypedRow DEF Typed

LEMMA TypedCancel ==
  ASSUME Typed, NEW u \in Users, NEW b \in Branches, CancelMergeReview(u, b)
  PROVE  Typed'
<1>1. /\ Opened(u, b) /\ Call(u, "interrupting", b, memory[b], NoJob, "none")
      /\ hook' = IF heap[memory[b]].resolver = 0 THEN hook ELSE [hook EXCEPT ![b] = None]
      /\ UNCHANGED <<main, head, tree, heap, memory, row, record, agent, turns, booting, crashes, env>>
  BY DEF CancelMergeReview, gitVars
<1>2. heap[memory[b]] \in SessionStates /\ heap[memory[b]].branch = b
  BY <1>1, MapHolds DEF Opened, Typed
<1>6. BeginsWith("interrupting", NoJob, "none")
  BY DEF BeginsWith, UserPoints, Started, Kinds, Decisions, NoJob
<1>3. HeapOK' /\ MemoryOK' /\ CallsOK' /\ booting = {}
  BY <1>1, <1>2, <1>6, TypedBegin
<1>4. AgentOK'
  BY <1>1 DEF Typed, AgentOK
<1> QED
  BY <1>1, <1>3, <1>4, TypedRest, TypedTree, TypedRow DEF Typed

\* A call goes on or returns after it changed its session, or not.
LEMMA TypedAfter ==
  ASSUME Typed, NEW c \in Callers, calls[c].pc \notin {"idle"} \cup Started,
         NEW x \in SessionStates, x.branch = calls[c].branch,
         heap' = [heap EXCEPT ![calls[c].session] = x] \/ UNCHANGED heap, UNCHANGED memory,
         Return(c) \/ UNCHANGED calls
         \/ (c \in Users /\ \E pc \in UserPoints \ Started : 
               /\ Await(c, pc) /\ pc \notin {"resolver", "applying", "accepting"}
               /\ pc = "turn" => calls[c].pc = "resolver"
               /\ pc = "applied" => calls[c].pc = "applying")
  PROVE  HeapOK' /\ MemoryOK' /\ CallsOK' /\ booting = {}
<1>1. /\ calls[c] # Idle /\ CallOK(c) /\ calls[c].session \in Sessions /\ heap[calls[c].session] # None
      /\ heap[calls[c].session].branch = calls[c].branch
  BY CallerHolds DEF Typed
<1>2. HeapOK' /\ MemoryOK' /\ NoneLost
  BY <1>1, ChangeTyped, TypedHeap DEF Typed
<1>3. Keeps(Callers) /\ Keeps(Callers \ {c})
  BY <1>2, NoneLostKeeps DEF Typed, Keeps
<1>4. CASE Return(c)
  BY <1>1, <1>2, <1>3, <1>4, CallReturns, Up DEF Typed
<1>5. CASE UNCHANGED calls
  BY <1>1, <1>2, <1>3, <1>5, CallsStay, Up DEF Typed
<1>6. ASSUME c \in Users, NEW pc \in UserPoints \ Started, Await(c, pc), pc \notin {"resolver", "applying", "accepting"},
             pc = "turn" => calls[c].pc = "resolver", pc = "applied" => calls[c].pc = "applying"
      PROVE  CallsOK'
  BY <1>1, <1>3, <1>6, CallGoesOn DEF Typed
<1> QED
  BY <1>1, <1>2, <1>4, <1>5, <1>6, Up DEF Typed

LEMMA TypedCreateRefused ==
  ASSUME Typed, NEW u \in Users, CreateRefused(u)
  PROVE  Typed'
<1>1. /\ u \in Callers /\ calls[u] # Idle /\ Return(u)
      /\ UNCHANGED <<main, head, tree, heap, memory, row, record, hook, agent, turns, booting, crashes, env>>
  BY CallerHolds DEF CreateRefused, At, Callers, Typed, gitVars, agentVars
<1>2. HeapOK' /\ MemoryOK' /\ NoneLost
  BY <1>1, TypedHeap
<1>3. CallsOK' /\ booting = {}
  BY <1>1, <1>2, NoneLostKeeps, CallReturns, Up DEF Typed, Keeps
<1> QED
  BY <1>1, <1>2, <1>3, TypedRest, TypedAgents, TypedTree, TypedRow DEF Typed

LEMMA TypedApplies ==
  ASSUME Typed, NEW u \in Users, ApplyFileDecision(u)
  PROVE  Typed'
<1> DEFINE c == calls[u]
           new == [f \in Files |-> IF f \in c.files THEN Applied(c.choice, tree[c.branch].content[f])
                                   ELSE tree[c.branch].content[f]]
<1>1. /\ c.pc = "applying" /\ Await(u, "applied")
      /\ UNCHANGED <<main, head, heap, memory, row, record, hook, agent, turns, booting, crashes, env>>
      /\ tree' = [tree EXCEPT ![c.branch].content =
             [f \in Files |-> IF f \in c.files THEN Applied(c.choice, @[f]) ELSE @[f]]]
  BY DEF ApplyFileDecision, At, gitVars, agentVars
<1>2. /\ u \in Callers /\ CallOK(u) /\ c.branch \in Branches /\ heap[c.session] \in SessionStates
      /\ heap[c.session].branch = c.branch /\ c.choice \in Decisions /\ c.pc \notin {"idle"} \cup Started
  BY <1>1, CallerHolds DEF Typed, Callers, Started, CallOK
<1>3. TreeOK'
  <2>1. \A y \in Contents : Applied(c.choice, y) \in Contents
    BY <1>2 DEF Applied, Decisions, Contents, Ours
  <2>2. new \in [Files -> Contents]
    BY <1>2, <2>1, ContentTyped DEF Typed
  <2>3. tree' = [tree EXCEPT ![c.branch].content = new]
    BY <1>1, <1>2 DEF Typed, TreeOK
  <2> HIDE DEF new
  <2> QED
    BY <1>2, <2>2, <2>3 DEF Typed, TreeOK
<1>4. HeapOK' /\ MemoryOK' /\ CallsOK' /\ booting = {}
  BY <1>1, <1>2, TypedAfter DEF UserPoints, Started
<1> QED
  BY <1>1, <1>3, <1>4, TypedRest, TypedAgents, TypedRow DEF Typed

LEMMA TypedApplied ==
  ASSUME Typed, NEW u \in Users, DecisionApplied(u)
  PROVE  Typed'
<1> DEFINE c == calls[u]
           S == {f \in c.files : heap[c.session].files[f].status = "conflict" /\ c.choice \in {"keep_main", "use_branch"}}
           x == SetStatus(heap[c.session], S, "agent_resolved")
<1>1. /\ c.pc = "applied" /\ Return(u) /\ heap' = [heap EXCEPT ![c.session] = x] /\ Persist(x)
      /\ UNCHANGED <<main, head, tree, memory, record, hook, agent, turns, booting, crashes, env>>
  BY DEF DecisionApplied, At, Store, gitVars, agentVars
<1>2. /\ u \in Callers /\ c.branch \in Branches /\ heap[c.session] \in SessionStates
      /\ heap[c.session].branch = c.branch /\ c.pc \notin {"idle"} \cup Started
  BY <1>1, CallerHolds DEF Typed, Callers, Started
<1>3. x \in SessionStates /\ x.branch = c.branch
  BY <1>2, SetStatusShape
<1> HIDE DEF x
<1>4. HeapOK' /\ MemoryOK' /\ CallsOK' /\ booting = {}
  BY <1>1, <1>2, <1>3, TypedAfter
<1>5. RowOK'
  BY <1>1, <1>3, PersistTyped DEF Typed
<1> QED
  BY <1>1, <1>4, <1>5, TypedRest, TypedAgents, TypedTree DEF Typed

LEMMA TypedRefused ==
  ASSUME Typed, NEW u \in Users, DecisionRefused(u)
  PROVE  Typed'
<1>1. /\ calls[u].pc \notin {"idle"} \cup Started /\ Return(u) /\ u \in Callers
      /\ UNCHANGED <<main, head, tree, heap, memory, row, record, hook, agent, turns, booting, crashes, env>>
  BY DEF DecisionRefused, Started, gitVars, agentVars, Callers
<1>2. heap[calls[u].session] \in SessionStates /\ heap[calls[u].session].branch = calls[u].branch
  BY <1>1, CallerHolds DEF Typed
<1>3. HeapOK' /\ MemoryOK' /\ CallsOK' /\ booting = {}
  BY <1>1, <1>2, TypedAfter
<1> QED
  BY <1>1, <1>3, TypedRest, TypedAgents, TypedTree, TypedRow DEF Typed

LEMMA TypedAccepted ==
  ASSUME Typed, NEW u \in Users, AcceptedOne(u)
  PROVE  Typed'
<1> DEFINE c == calls[u]
           x == heap[c.session]
<1>1. c.pc = "accepting" /\ UNCHANGED <<main, head, tree, memory, record, hook, agent, turns, booting, crashes, env>>
  BY DEF AcceptedOne, At, gitVars, agentVars
<1>2. /\ u \in Callers /\ c # Idle /\ CallOK(u) /\ c.branch \in Branches /\ x \in SessionStates /\ x # None
      /\ x.branch = c.branch /\ c.session \in Sessions /\ c.pc \notin {"idle"} \cup Started
  BY <1>1, CallerHolds DEF Typed, Callers, Started, CallOK
<1>3. CASE Store(c.session, x) /\ Return(u)
  <2>1. HeapOK' /\ MemoryOK' /\ CallsOK' /\ booting = {}
    BY <1>1, <1>2, <1>3, TypedAfter DEF Store
  <2>2. RowOK'
    BY <1>2, <1>3, PersistTyped DEF Store, Typed
  <2> QED
    BY <1>1, <2>1, <2>2, TypedRest, TypedAgents, TypedTree DEF Typed
<1>4. ASSUME NEW f \in Files, heap' = [heap EXCEPT ![c.session].files[f].decision = "accept"],
             calls' = [calls EXCEPT ![u].files = {f}], UNCHANGED row
      PROVE  Typed'
  <2> DEFINE y == [x EXCEPT !.files[f].decision = "accept"]
  <2>1. y \in SessionStates /\ y.branch = c.branch
    BY <1>2 DEF SessionStates, FileStates, Decisions
  <2>2. heap' = [heap EXCEPT ![c.session] = y]
    BY <1>4
  <2> HIDE DEF y
  <2>3. HeapOK' /\ MemoryOK' /\ NoneLost
    BY <1>1, <1>2, <2>1, <2>2, ChangeTyped DEF Typed
  <2>4. Keeps(Callers)
    BY <2>3, NoneLostKeeps DEF Typed
  <2>5. CallOK(u)'
    <3>1. /\ calls'[u] \in Calls /\ calls'[u].pc = c.pc /\ calls'[u].session = c.session
          /\ calls'[u].branch = c.branch /\ calls'[u].kind = c.kind /\ calls'[u].choice = c.choice
      BY <1>2, <1>4 DEF Typed, CallsOK, CallOK, Calls
    <3>2. heap'[c.session] # None /\ heap'[c.session].branch = c.branch
      BY <1>2, <2>3 DEF NoneLost
    <3> QED
      BY <1>1, <1>2, <3>1, <3>2 DEF CallOK, Started
  <2>6. CallsOK'
    <3>1. \A d \in Callers : d # u => calls'[d] = calls[d]
      BY <1>2, <1>4 DEF Typed, CallsOK
    <3>2. ASSUME NEW d \in Callers, d # u, calls[d] # Idle
          PROVE  CallOK(d)'
      BY <2>4, <3>1, <3>2, CallStays DEF Typed, CallsOK, Keeps
    <3> QED
      BY <1>2, <1>4, <2>5, <3>1, <3>2 DEF Typed, CallsOK
  <2> QED
    BY <1>1, <1>2, <1>4, <2>3, <2>6, Up, TypedRest, TypedAgents, TypedTree, TypedRow DEF Typed
<1> QED
  BY <1>3, <1>4 DEF AcceptedOne, Acceptable, Undecided

LEMMA TypedEnsure ==
  ASSUME Typed, NEW u \in Users, EnsureMergeResolver(u)
  PROVE  Typed'
<1> DEFINE c == calls[u]
<1>1. c.pc = "resolver" /\ Await(u, "turn") 
      /\ UNCHANGED <<main, head, tree, memory, row, hook, agent, turns, booting, crashes, env>>
  BY DEF EnsureMergeResolver, At, gitVars
<1>2. /\ u \in Callers /\ c.branch \in Branches /\ heap[c.session] \in SessionStates
      /\ heap[c.session].branch = c.branch /\ c.pc \notin {"idle"} \cup Started
  BY <1>1, CallerHolds DEF Typed, Callers, Started
<1>3. PICK t \in Threads :
        record' = [record EXCEPT ![c.branch] = t] /\ heap' = [heap EXCEPT ![c.session].resolver = t]
  BY DEF EnsureMergeResolver
<1> DEFINE x == [heap[c.session] EXCEPT !.resolver = t]
<1>4. x \in SessionStates /\ x.branch = c.branch /\ heap' = [heap EXCEPT ![c.session] = x]
  BY <1>2, <1>3 DEF SessionStates
<1> HIDE DEF x
<1>g. \E pc \in UserPoints \ Started : /\ Await(u, pc) /\ pc \notin {"resolver", "applying", "accepting"}
                                       /\ pc = "turn" => c.pc = "resolver"
                                       /\ pc = "applied" => c.pc = "applying"
  BY <1>1 DEF UserPoints, Started
<1>5. HeapOK' /\ MemoryOK' /\ CallsOK' /\ booting = {}
  BY <1>2, <1>4, <1>g, <1>1, TypedAfter
<1>6. AgentOK'
  BY <1>1, <1>2, <1>3 DEF Typed, AgentOK
<1> QED
  BY <1>1, <1>5, <1>6, TypedRest, TypedTree, TypedRow DEF Typed

LEMMA TypedTurn ==
  ASSUME Typed, NEW u \in Users, ResolverTurnStarted(u)
  PROVE  Typed'
<1> DEFINE c == calls[u]
<1>1. /\ c.pc = "turn" /\ turns < MaxTurns /\ Return(u) /\ turns' = turns + 1
      /\ agent' = [agent EXCEPT ![c.branch] = [files |-> c.files, turn |-> turns + 1]]
      /\ hook' = [hook EXCEPT ![c.branch] = [kind |-> c.kind, files |-> c.files]]
      /\ Persist(heap[c.session])
      /\ UNCHANGED <<main, head, tree, heap, memory, record, booting, crashes, env>>
  BY DEF ResolverTurnStarted, At, gitVars
<1>2. /\ u \in Callers /\ CallOK(u) /\ c.branch \in Branches /\ heap[c.session] \in SessionStates
      /\ heap[c.session].branch = c.branch /\ c.pc \notin {"idle"} \cup Started
  BY <1>1, CallerHolds DEF Typed, Callers, Started
<1>3. HeapOK' /\ MemoryOK' /\ CallsOK' /\ booting = {}
  BY <1>1, <1>2, TypedAfter
<1>4. RowOK'
  BY <1>1, <1>2, PersistTyped DEF Typed
<1>5. AgentOK'
  <2>1. turns + 1 \in Turns /\ turns + 1 \in 0 .. MaxTurns
    BY <1>1, MergeAssumption DEF Typed, AgentOK, Turns
  <2>2. [files |-> c.files, turn |-> turns + 1] \in [files : SUBSET Files, turn : Turns]
        /\ [kind |-> c.kind, files |-> c.files] \in Jobs
    BY <1>1, <1>2, <2>1 DEF CallOK, Calls, Jobs, Kinds
  <2> QED
    BY <1>1, <1>2, <2>1, <2>2 DEF Typed, AgentOK
<1> QED
  BY <1>1, <1>3, <1>4, <1>5, TypedRest, TypedTree DEF Typed

LEMMA TypedFails ==
  ASSUME Typed, NEW u \in Users, ResolverFails(u)
  PROVE  Typed'
<1> DEFINE c == calls[u]
           F == IF c.kind = "resolve" THEN {} ELSE c.files
           y == SetStatus(heap[c.session], F, "conflict")
           x == [y EXCEPT !.state = "reviewing", !.base = IF c.kind = "resolve" THEN @ ELSE None]
<1>1. /\ c.pc \in {"resolver", "turn"} /\ Return(u) /\ Store(c.session, x)
      /\ UNCHANGED <<main, head, tree, memory, record, hook, agent, turns, booting, crashes, env>>
  BY DEF ResolverFails, gitVars, agentVars
<1>2. /\ u \in Callers /\ c.branch \in Branches /\ heap[c.session] \in SessionStates
      /\ heap[c.session].branch = c.branch /\ c.pc \notin {"idle"} \cup Started
  BY <1>1, CallerHolds DEF Typed, Callers, Started
<1>3. y \in SessionStates /\ y.branch = c.branch
  BY <1>2, SetStatusShape
<1> HIDE DEF y
<1>4. x \in SessionStates /\ x.branch = c.branch
  BY <1>3 DEF SessionStates
<1> HIDE DEF x
<1>5. HeapOK' /\ MemoryOK' /\ CallsOK' /\ booting = {}
  BY <1>1, <1>2, <1>4, TypedAfter DEF Store
<1>6. RowOK'
  BY <1>1, <1>4, PersistTyped DEF Typed, Store
<1> QED
  BY <1>1, <1>5, <1>6, TypedRest, TypedAgents, TypedTree DEF Typed

LEMMA TypedWrites ==
  ASSUME Typed, NEW b \in Branches, ResolverWrites(b)
  PROVE  Typed'
<1>1. PICK f \in IF "stray" \in env THEN Files ELSE agent[b].files :
        tree' = [tree EXCEPT ![b].content[f] = <<"turn", agent[b].turn>>]
  BY DEF ResolverWrites
<1>2. /\ agent[b] # None
      /\ UNCHANGED <<main, head, heap, memory, row, record, hook, agent, turns, calls, booting, crashes, env>>
  BY DEF ResolverWrites, gitVars, agentVars
<1>3. agent[b].turn \in Turns /\ f \in Files
  BY <1>2 DEF Typed, AgentOK
<1>4. TreeOK'
  <2>1. <<"turn", agent[b].turn>> \in Contents
    BY <1>3 DEF Contents
  <2> QED
    BY <1>1, <1>3, <2>1 DEF Typed, TreeOK
<1>5. HeapOK' /\ MemoryOK' /\ CallsOK'
  BY <1>2, TypedHeap, NoneLostKeeps, CallsStay DEF Typed
<1> QED
  BY <1>2, <1>4, <1>5, Up, TypedRest, TypedAgents, TypedRow DEF Typed

LEMMA TypedTurnEnds ==
  ASSUME Typed, NEW b \in Branches, ResolverTurnEnds(b)
  PROVE  Typed'
<1>1. /\ agent[b] # None /\ agent' = [agent EXCEPT ![b] = None] /\ hook' = [hook EXCEPT ![b] = None]
      /\ UNCHANGED <<main, head, tree, heap, memory, row, record, turns, booting, crashes, env>>
  BY DEF ResolverTurnEnds, gitVars
<1>2. HeapOK' /\ MemoryOK' /\ NoneLost /\ Keeps(Callers)
  BY <1>1, TypedHeap, NoneLostKeeps DEF Typed
<1>3. CallsOK'
  <2>1. CASE UNCHANGED calls
    BY <1>2, <2>1, CallsStay DEF Typed
  <2>2. CASE hook[b] # None /\ memory[b] # 0 /\ Call(Hook, "checking", b, memory[b], hook[b], "none")
    <3>1. hook[b].kind \in Kinds /\ hook[b].files \subseteq Files
      BY <2>2 DEF Typed, AgentOK, Jobs, Kinds
    <3>2. memory[b] \in Sessions /\ heap'[memory[b]] # None /\ heap'[memory[b]].branch = b
      BY <1>1, <2>2, MapHolds DEF Typed
    <3>3. Hook \in Callers /\ "checking" \in HookPoints /\ "checking" \notin Started
      BY DEF Callers, HookPoints, Started
    <3> QED
      BY <1>2, <2>2, <3>1, <3>2, <3>3, CallBegins DEF Typed
  <2> QED
    BY <2>1, <2>2 DEF ResolverTurnEnds
<1>4. AgentOK'
  BY <1>1 DEF Typed, AgentOK
<1> QED
  BY <1>1, <1>2, <1>3, <1>4, Up, TypedRest, TypedTree, TypedRow DEF Typed

LEMMA TypedTurnStopped ==
  ASSUME Typed, NEW b \in Branches, ResolverTurnStopped(b)
  PROVE  Typed'
<1>1. /\ agent[b] # None /\ agent' = [agent EXCEPT ![b] = None]
      /\ UNCHANGED <<main, head, tree, heap, memory, row, record, hook, turns, calls, booting, crashes, env>>
  BY DEF ResolverTurnStopped, gitVars
<1>2. HeapOK' /\ MemoryOK' /\ CallsOK'
  BY <1>1, TypedHeap, NoneLostKeeps, CallsStay DEF Typed
<1>4. AgentOK'
  BY <1>1 DEF Typed, AgentOK
<1> QED
  BY <1>1, <1>2, <1>4, Up, TypedRest, TypedTree, TypedRow DEF Typed

\* The hook goes on: what it holds stays.
LEMMA HookGoesOn ==
  ASSUME Typed, calls[Hook].pc = "checking", NEW choice \in Decisions \cup {"none"}, Keeps(Callers),
         calls' = [calls EXCEPT ![Hook].pc = "refreshing", ![Hook].choice = choice]
  PROVE  CallsOK'
<1>1. Hook \in Callers /\ calls[Hook] # Idle /\ CallOK(Hook) /\ "checking" \notin Started
  BY CallerHolds DEF Typed, Callers, Started
<1>2. /\ DOMAIN calls' = Callers
      /\ calls'[Hook] = [calls[Hook] EXCEPT !.pc = "refreshing", !.choice = choice]
      /\ \A d \in Callers : d # Hook => calls'[d] = calls[d]
  BY <1>1 DEF Typed, CallsOK
<1>3. CallOK(Hook)'
  <2>1. /\ calls'[Hook] \in Calls /\ calls'[Hook].pc = "refreshing" /\ calls'[Hook].session = calls[Hook].session
        /\ calls'[Hook].branch = calls[Hook].branch /\ calls'[Hook].kind = calls[Hook].kind
    BY <1>1, <1>2 DEF CallOK, Calls, HookPoints
  <2>2. /\ calls[Hook].session \in Sessions /\ heap'[calls[Hook].session] # None
        /\ heap'[calls[Hook].session].branch = calls[Hook].branch /\ calls[Hook].kind \in Kinds
    BY <1>1 DEF CallOK, Keeps
  <2> QED
    BY <2>1, <2>2 DEF CallOK, UserPoints, Started
<1>4. ASSUME NEW d \in Callers, d # Hook, calls[d] # Idle
      PROVE  CallOK(d)'
  BY <1>2, <1>4, CallStays DEF Typed, CallsOK, Keeps
<1> QED
  BY <1>2, <1>3, <1>4 DEF CallsOK

\* The files of a session after the first half of the hook of a job.
Checked(x, kind, F, b) ==
  [f \in Files |->
     IF kind = "resolve"
     THEN IF x.files[f].status = "conflict" /\ f \notin Unmerged(b)
          THEN [x.files[f] EXCEPT !.status = "agent_resolved", !.diff = tree[b].content[f]]
          ELSE x.files[f]
     ELSE IF f \in F
          THEN [x.files[f] EXCEPT !.decision = "pending", !.diff = tree[b].content[f]]
          ELSE x.files[f]]

Inspected(x, kind, F, b) == [x EXCEPT !.files = Checked(x, kind, F, b)]

LEMMA InspectedTyped ==
  ASSUME Typed, NEW x \in SessionStates, NEW kind, NEW F, NEW b \in Branches
  PROVE  /\ Inspected(x, kind, F, b) \in SessionStates
         /\ Inspected(x, kind, F, b).branch = x.branch /\ Inspected(x, kind, F, b).state = x.state
         /\ Inspected(x, kind, F, b).files = Checked(x, kind, F, b)
<1>1. \A f \in Files : x.files[f] \in FileStates /\ tree[b].content[f] \in Contents
  BY ContentTyped DEF Typed, SessionStates
<1>2. Checked(x, kind, F, b) \in [Files -> FileStates]
  BY <1>1 DEF Checked, FileStates
<1> QED
  BY <1>2 DEF SessionStates, Inspected

\* What HookChecks does, in one place.
LEMMA ChecksShape ==
  ASSUME Typed, HookChecks
  PROVE  LET c == calls[Hook]
             x == heap[c.session]
         IN /\ c.pc = "checking" /\ c # Idle /\ Hook \in Callers /\ c.branch \in Branches /\ x \in SessionStates
            /\ x # None /\ x.branch = c.branch /\ c.session \in Sessions /\ c.kind \in Kinds
            /\ UNCHANGED <<main, head, tree, memory, row, record, hook, agent, turns, booting, crashes, env>>
            /\ \/ /\ c.kind = "retry" /\ UNCHANGED heap
                  /\ calls' = [calls EXCEPT ![Hook].pc = "refreshing", ![Hook].choice = "none"]
               \/ /\ heap' = [heap EXCEPT ![c.session] = Inspected(x, c.kind, c.files, c.branch)]
                  /\ calls' = [calls EXCEPT ![Hook].pc = "refreshing", ![Hook].choice = "accept"]
<1> DEFINE c == calls[Hook]
           x == heap[c.session]
<1>1. /\ c.pc = "checking"
      /\ UNCHANGED <<main, head, tree, memory, row, record, hook, agent, turns, booting, crashes, env>>
  BY DEF HookChecks, At, gitVars, agentVars
<1>2. /\ Hook \in Callers /\ c # Idle /\ c.branch \in Branches /\ x \in SessionStates /\ x # None
      /\ x.branch = c.branch /\ c.session \in Sessions /\ c.kind \in Kinds
  BY <1>1, CallerHolds DEF Typed, Callers, Started, CallOK
<1>3. CASE c.kind = "retry" /\ UNCHANGED heap
           /\ calls' = [calls EXCEPT ![Hook].pc = "refreshing", ![Hook].choice = "none"]
  BY <1>1, <1>2, <1>3
<1>4. CASE /\ calls' = [calls EXCEPT ![Hook].pc = "refreshing", ![Hook].choice = "accept"]
           /\ heap' = [heap EXCEPT ![c.session].files = [f \in Files |->
                  IF c.kind = "resolve"
                  THEN IF @[f].status = "conflict" /\ f \notin Unmerged(c.branch)
                       THEN [@[f] EXCEPT !.status = "agent_resolved", !.diff = tree[c.branch].content[f]]
                       ELSE @[f]
                  ELSE IF f \in c.files
                       THEN [@[f] EXCEPT !.decision = "pending", !.diff = tree[c.branch].content[f]]
                       ELSE @[f]]]
  <2>1. heap' = [heap EXCEPT ![c.session] = Inspected(x, c.kind, c.files, c.branch)]
    BY <1>4 DEF Checked, Inspected
  <2> QED
    BY <1>1, <1>2, <1>4, <2>1
<1> QED
  BY <1>3, <1>4 DEF HookChecks

LEMMA TypedChecks ==
  ASSUME Typed, HookChecks
  PROVE  Typed'
<1> DEFINE c == calls[Hook]
           y == Inspected(heap[c.session], c.kind, c.files, c.branch)
<1>1. /\ c.pc = "checking" /\ c # Idle /\ Hook \in Callers /\ c.branch \in Branches /\ heap[c.session] \in SessionStates
      /\ heap[c.session] # None /\ heap[c.session].branch = c.branch /\ c.session \in Sessions
      /\ UNCHANGED <<main, head, tree, memory, row, record, hook, agent, turns, booting, crashes, env>>
      /\ UNCHANGED heap \/ heap' = [heap EXCEPT ![c.session] = y]
      /\ \E choice \in {"none", "accept"} :
           calls' = [calls EXCEPT ![Hook].pc = "refreshing", ![Hook].choice = choice]
  BY ChecksShape
<1>2. y \in SessionStates /\ y.branch = c.branch
  BY <1>1, InspectedTyped
<1> HIDE DEF y
<1>3. HeapOK' /\ MemoryOK' /\ NoneLost /\ Keeps(Callers)
  BY <1>1, <1>2, ChangeTyped, TypedHeap, NoneLostKeeps DEF Typed
<1>4. CallsOK'
  BY <1>1, <1>3, HookGoesOn DEF Decisions
<1> QED
  BY <1>1, <1>3, <1>4, Up, TypedRest, TypedAgents, TypedTree, TypedRow DEF Typed

\* The session after the second half of the hook of a job.
RefreshedBad(c) == IF c.kind = "resolve" THEN {}
                   ELSE IF c.choice = "none" THEN c.files ELSE c.files \cap Unmerged(c.branch)
RefreshedGood(c) == IF c.kind = "resolve" THEN {} ELSE c.files \ RefreshedBad(c)
RefreshedFiles(c, x) ==
  LET y == SetStatus(SetStatus(x, RefreshedGood(c), "agent_resolved"), RefreshedBad(c), "conflict")
  IN [f \in Files |-> IF f \in RefreshedBad(c) THEN [y.files[f] EXCEPT !.decision = "pending"] ELSE y.files[f]]
Refreshed(c, x) ==
  [SetStatus(SetStatus(x, RefreshedGood(c), "agent_resolved"), RefreshedBad(c), "conflict")
     EXCEPT !.state = "reviewing", !.base = None, !.files = RefreshedFiles(c, x)]

LEMMA RefreshedShape ==
  ASSUME NEW x \in SessionStates, NEW c
  PROVE  /\ Refreshed(c, x) \in SessionStates /\ Refreshed(c, x).branch = x.branch
         /\ Refreshed(c, x).state = "reviewing"
         /\ \A f \in Files :
              LET file == Refreshed(c, x).files[f] IN
              /\ file.diff = x.files[f].diff
              /\ file.decision = IF f \in RefreshedBad(c) THEN "pending" ELSE x.files[f].decision
              /\ file.status = IF f \in RefreshedBad(c) THEN "conflict"
                               ELSE IF f \in RefreshedGood(c) THEN "agent_resolved" ELSE x.files[f].status
<1> DEFINE w == SetStatus(x, RefreshedGood(c), "agent_resolved")
           y == SetStatus(w, RefreshedBad(c), "conflict")
<1>1. /\ w \in SessionStates /\ w.branch = x.branch
      /\ \A f \in Files : /\ w.files[f].status = IF f \in RefreshedGood(c) THEN "agent_resolved" ELSE x.files[f].status
                          /\ w.files[f].decision = x.files[f].decision /\ w.files[f].diff = x.files[f].diff
  BY SetStatusShape
<1> HIDE DEF w
<1>2. /\ y \in SessionStates /\ y.branch = x.branch
      /\ \A f \in Files : /\ y.files[f].status = IF f \in RefreshedBad(c) THEN "conflict" ELSE w.files[f].status
                          /\ y.files[f].decision = x.files[f].decision /\ y.files[f].diff = x.files[f].diff
  BY <1>1, SetStatusShape
<1>3. RefreshedFiles(c, x) = [f \in Files |-> IF f \in RefreshedBad(c) THEN [y.files[f] EXCEPT !.decision = "pending"]
                                              ELSE y.files[f]]
      /\ Refreshed(c, x) = [y EXCEPT !.state = "reviewing", !.base = None, !.files = RefreshedFiles(c, x)]
  BY DEF RefreshedFiles, Refreshed, w
<1> HIDE DEF y
<1>4. \A f \in Files : y.files[f] \in FileStates
  BY <1>2 DEF SessionStates
<1>5. /\ RefreshedFiles(c, x) \in [Files -> FileStates]
      /\ \A f \in Files :
           LET file == RefreshedFiles(c, x)[f] IN
           /\ file.diff = y.files[f].diff /\ file.status = y.files[f].status
           /\ file.decision = IF f \in RefreshedBad(c) THEN "pending" ELSE y.files[f].decision
  BY <1>3, <1>4 DEF FileStates
<1>6. /\ Refreshed(c, x) \in SessionStates /\ Refreshed(c, x).branch = x.branch
      /\ Refreshed(c, x).state = "reviewing" /\ Refreshed(c, x).files = RefreshedFiles(c, x)
  BY <1>2, <1>3, <1>5 DEF SessionStates
<1> QED
  BY <1>1, <1>2, <1>5, <1>6

LEMMA RefreshesShape ==
  ASSUME Typed, HookRefreshes
  PROVE  LET c == calls[Hook]
             x == heap[c.session]
         IN /\ c.pc = "refreshing" /\ c # Idle /\ Hook \in Callers /\ c.branch \in Branches /\ x \in SessionStates
            /\ x # None /\ x.branch = c.branch /\ c.session \in Sessions /\ c.kind \in Kinds
            /\ UNCHANGED <<main, head, tree, memory, record, hook, agent, turns, booting, crashes, env>>
            /\ Store(c.session, Refreshed(c, x)) /\ Return(Hook)
<1> DEFINE c == calls[Hook]
           x == heap[c.session]
<1>1. /\ c.pc = "refreshing" /\ Return(Hook)
      /\ UNCHANGED <<main, head, tree, memory, record, hook, agent, turns, booting, crashes, env>>
  BY DEF HookRefreshes, At, gitVars, agentVars
<1>2. /\ Hook \in Callers /\ c # Idle /\ c.branch \in Branches /\ x \in SessionStates /\ x # None
      /\ x.branch = c.branch /\ c.session \in Sessions /\ c.kind \in Kinds
  BY <1>1, CallerHolds DEF Typed, Callers, Started, CallOK
<1>3. Store(c.session, Refreshed(c, x))
  BY DEF HookRefreshes, Refreshed, RefreshedFiles, RefreshedGood, RefreshedBad
<1> QED
  BY <1>1, <1>2, <1>3

LEMMA TypedRefreshes ==
  ASSUME Typed, HookRefreshes
  PROVE  Typed'
<1> DEFINE c == calls[Hook]
           y == Refreshed(c, heap[c.session])
<1>1. /\ c.pc \notin {"idle"} \cup Started /\ c # Idle /\ Hook \in Callers /\ c.branch \in Branches
      /\ heap[c.session] \in SessionStates /\ heap[c.session].branch = c.branch
      /\ UNCHANGED <<main, head, tree, memory, record, hook, agent, turns, booting, crashes, env>>
      /\ Store(c.session, y) /\ Return(Hook)
  BY RefreshesShape DEF Started
<1>2. y \in SessionStates /\ y.branch = c.branch
  BY <1>1, RefreshedShape
<1> HIDE DEF y
<1>3. HeapOK' /\ MemoryOK' /\ CallsOK' /\ booting = {}
  BY <1>1, <1>2, TypedAfter DEF Store
<1>4. RowOK'
  BY <1>1, <1>2, PersistTyped DEF Typed, Store
<1> QED
  BY <1>1, <1>3, <1>4, TypedRest, TypedAgents, TypedTree DEF Typed

LEMMA TypedCommits ==
  ASSUME Typed, NEW u \in Users, CommitMergeSession(u)
  PROVE  Typed'
<1> DEFINE b == calls[u].branch
<1>1. /\ calls[u].pc = "committing" /\ Await(u, "landing")
      /\ head' = [head EXCEPT ![b] = @ \cup tree[b].into] /\ tree' = [tree EXCEPT ![b] = Clean]
      /\ UNCHANGED <<main, heap, memory, row, record, hook, agent, turns, booting, crashes, env>>
  BY DEF CommitMergeSession, At, agentVars
<1>2. /\ u \in Callers /\ b \in Branches /\ heap[calls[u].session] \in SessionStates
      /\ heap[calls[u].session].branch = b /\ calls[u].pc \notin {"idle"} \cup Started
  BY <1>1, CallerHolds DEF Typed, Callers, Started
<1>3. HeapOK' /\ MemoryOK' /\ CallsOK' /\ booting = {}
  BY <1>1, <1>2, TypedAfter DEF UserPoints, Started
<1>4. TreeOK'
  BY <1>1, <1>2, CleanTyped DEF Typed, TreeOK
<1>5. RestOK' /\ BootOK'
  <2>1. head' \in [Branches -> SUBSET Commits]
    BY <1>1, <1>2, ContentTyped DEF Typed, RestOK
  <2> QED
    BY <1>1, <1>3, <2>1, StillUp DEF Typed, RestOK
<1> QED
  BY <1>1, <1>3, <1>4, <1>5, TypedAgents, TypedRow DEF Typed

\* A call goes on while at most a worktree is cleaned.
LEMMA TypedOn ==
  ASSUME Typed, NEW u \in Users, calls[u].pc \notin {"idle"} \cup Started, NEW pc \in UserPoints \ Started,
         pc \notin {"resolver", "applying", "applied", "accepting", "turn"}, Await(u, pc) \/ Return(u),
         UNCHANGED <<main, head, heap, memory, row, record, hook, agent, turns, booting, crashes, env>>,
         UNCHANGED tree \/ tree' = [tree EXCEPT ![calls[u].branch] = Clean]
  PROVE  Typed'
<1>2. /\ u \in Callers /\ calls[u].branch \in Branches /\ heap[calls[u].session] \in SessionStates
      /\ heap[calls[u].session].branch = calls[u].branch
  BY CallerHolds DEF Typed, Callers
<1>3. HeapOK' /\ MemoryOK' /\ CallsOK' /\ booting = {}
  BY <1>2, TypedAfter
<1>4. TreeOK'
  BY <1>2, CleanTyped DEF Typed, TreeOK
<1> QED
  BY <1>3, <1>4, TypedRest, TypedAgents, TypedRow DEF Typed

LEMMA TypedCommitRefused ==
  ASSUME Typed, NEW u \in Users, CommitRefused(u)
  PROVE  Typed'
BY TypedOn DEF CommitRefused, At, Started, UserPoints, gitVars, agentVars

LEMMA TypedRestore ==
  ASSUME Typed, NEW u \in Users, RestoreWorktree(u)
  PROVE  Typed'
BY TypedOn DEF RestoreWorktree, At, Started, UserPoints, gitVars, agentVars

LEMMA TypedLand ==
  ASSUME Typed, NEW u \in Users, LandReview(u)
  PROVE  Typed'
<1> DEFINE b == calls[u].branch
<1>1. /\ calls[u].pc = "landing" /\ (Await(u, "ending") \/ Return(u))
      /\ UNCHANGED <<tree, heap, memory, row, record, hook, agent, turns, booting, crashes, env>>
  BY DEF LandReview, At, agentVars
<1>2. /\ u \in Callers /\ b \in Branches /\ heap[calls[u].session] \in SessionStates
      /\ heap[calls[u].session].branch = b /\ calls[u].pc \notin {"idle"} \cup Started
  BY <1>1, CallerHolds DEF Typed, Callers, Started, LandReview, At
<1>3. HeapOK' /\ MemoryOK' /\ CallsOK' /\ booting = {}
  BY <1>1, <1>2, TypedAfter DEF UserPoints, Started
<1>4. main' \subseteq Commits /\ head' \in [Branches -> SUBSET Commits]
  <2>1. head[b] \subseteq Commits /\ \A x \in Branches : head[x] \subseteq Commits
    BY <1>2 DEF Typed, RestOK
  <2> QED
    BY <2>1 DEF LandReview, Typed, RestOK
<1>5. RestOK' /\ BootOK'
  BY <1>1, <1>3, <1>4, StillUp DEF Typed, RestOK
<1> QED
  BY <1>1, <1>3, <1>5, TypedAgents, TypedRow, TypedTree DEF Typed

LEMMA TypedCleanup ==
  ASSUME Typed, NEW b \in Branches, NEW x, CleanupResolver(b, x), UNCHANGED <<hook, turns>>
  PROVE  AgentOK'
BY DEF CleanupResolver, Typed, AgentOK

LEMMA TypedEnd ==
  ASSUME Typed, NEW u \in Users, EndReview(u)
  PROVE  Typed'
<1> DEFINE b == calls[u].branch
<1>1. /\ calls[u].pc \in {"ending", "closing"} /\ ForgetSession(u, b) /\ Return(u)
      /\ CleanupResolver(b, heap[calls[u].session])
      /\ UNCHANGED <<main, head, tree, hook, turns, booting, crashes, env>>
  BY DEF EndReview, gitVars
<1>2. u \in Callers /\ calls[u] # Idle /\ b \in Branches
  BY <1>1, CallerHolds DEF Typed, Callers
<1>3. HeapOK' /\ MemoryOK' /\ RowOK' /\ Keeps(Callers \ {u})
  BY <1>1, <1>2, ForgetTyped DEF Typed
<1>4. CallsOK' /\ booting = {}
  BY <1>1, <1>2, <1>3, CallReturns, Up DEF Typed
<1> QED
  BY <1>1, <1>2, <1>3, <1>4, TypedRest, TypedTree, TypedCleanup DEF Typed

LEMMA TypedInterrupt ==
  ASSUME Typed, NEW u \in Users, InterruptResolver(u)
  PROVE  Typed'
<1> DEFINE c == calls[u]
<1>1. /\ c.pc = "interrupting" /\ Await(u, "restoring") /\ Persist(heap[c.session])
      /\ agent' = IF heap[c.session].resolver = 0 THEN agent ELSE [agent EXCEPT ![c.branch] = None]
      /\ UNCHANGED <<main, head, tree, heap, memory, record, hook, turns, booting, crashes, env>>
  BY DEF InterruptResolver, At, gitVars
<1>2. /\ u \in Callers /\ c.branch \in Branches /\ heap[c.session] \in SessionStates
      /\ heap[c.session].branch = c.branch /\ c.pc \notin {"idle"} \cup Started
  BY <1>1, CallerHolds DEF Typed, Callers, Started
<1>3. HeapOK' /\ MemoryOK' /\ CallsOK' /\ booting = {}
  BY <1>1, <1>2, TypedAfter DEF UserPoints, Started
<1>4. RowOK'
  BY <1>1, <1>2, PersistTyped DEF Typed
<1>5. AgentOK'
  BY <1>1 DEF Typed, AgentOK
<1> QED
  BY <1>1, <1>3, <1>4, <1>5, TypedRest, TypedTree DEF Typed

LEMMA TypedTimesOut ==
  ASSUME Typed, NEW s \in Sessions, SessionTimesOut(s)
  PROVE  Typed'
<1> DEFINE b == heap[s].branch
           x == [heap[s] EXCEPT !.timer = FALSE]
<1>1. /\ heap[s] # None /\ booting = {} /\ heap' = [heap EXCEPT ![s].timer = FALSE]
      /\ \/ memory[b] = 0 /\ UNCHANGED calls
         \/ memory[b] # 0 /\ Call(Timer, "aborting", b, memory[b], NoJob, "none")
      /\ UNCHANGED <<main, head, tree, memory, row, record, hook, agent, turns, booting, crashes, env>>
  BY DEF SessionTimesOut, gitVars, agentVars
<1>2. heap[s] \in SessionStates /\ b \in Branches
  BY <1>1 DEF Typed, HeapOK, SessionStates
<1>3. x \in SessionStates /\ x.branch = b /\ heap' = [heap EXCEPT ![s] = x]
  BY <1>1, <1>2 DEF SessionStates
<1> HIDE DEF x
<1>4. HeapOK' /\ MemoryOK' /\ NoneLost
  BY <1>1, <1>3, ChangeTyped DEF Typed
<1>5. Keeps(Callers)
  BY <1>4, NoneLostKeeps DEF Typed
<1>6. CallsOK'
  <2>1. CASE UNCHANGED calls
    BY <1>5, <2>1, CallsStay DEF Typed
  <2>2. CASE memory[b] # 0 /\ Call(Timer, "aborting", b, memory[b], NoJob, "none")
    <3>1. memory[b] \in Sessions /\ heap'[memory[b]] # None /\ heap'[memory[b]].branch = b
      BY <1>2, <1>4, <2>2, MapHolds DEF Typed, NoneLost
    <3>2. Timer \in Callers /\ "aborting" \notin Started \cup {"resolver", "turn", "checking", "refreshing", "applying", "applied", "accepting"}
      BY DEF Callers, Started
    <3>3. NoJob.kind \in Kinds \cup {"none", "decide"} /\ NoJob.files \subseteq Files
      BY DEF NoJob
    <3> QED
      BY <1>2, <1>5, <2>2, <3>1, <3>2, <3>3, CallBegins DEF Typed
  <2> QED
    BY <1>1, <2>1, <2>2
<1> QED
  BY <1>1, <1>4, <1>6, TypedRest, TypedAgents, TypedTree, TypedRow DEF Typed

LEMMA TypedExpire ==
  ASSUME Typed, ExpireSession
  PROVE  Typed'
<1> DEFINE b == calls[Timer].branch
<1>1. /\ calls[Timer].pc = "aborting" /\ ForgetSession(Timer, b) /\ Return(Timer)
      /\ tree' = [tree EXCEPT ![b] = Clean]
      /\ UNCHANGED <<main, head, record, hook, agent, turns, booting, crashes, env>>
  BY DEF ExpireSession, At, gitVars, agentVars
<1>2. Timer \in Callers /\ calls[Timer] # Idle /\ b \in Branches
  BY <1>1, CallerHolds DEF Typed, Callers
<1>3. HeapOK' /\ MemoryOK' /\ RowOK' /\ Keeps(Callers \ {Timer})
  BY <1>1, <1>2, ForgetTyped DEF Typed
<1>4. CallsOK' /\ booting = {}
  BY <1>1, <1>2, <1>3, CallReturns, Up DEF Typed
<1>5. TreeOK'
  BY <1>1, <1>2, CleanTyped DEF Typed, TreeOK
<1> QED
  BY <1>1, <1>2, <1>3, <1>4, <1>5, TypedRest, TypedAgents DEF Typed

LEMMA TypedMergeDirect ==
  ASSUME Typed, NEW b \in Branches, HandleMerge(b)
  PROVE  Typed'
<1>1. booting = {} /\ UNCHANGED <<tree, heap, memory, row, record, hook, agent, turns, calls, booting, crashes, env>>
  BY DEF HandleMerge, agentVars
<1>2. main' \subseteq Commits /\ head' \in [Branches -> SUBSET Commits]
  BY DEF HandleMerge, Typed, RestOK
<1>3. HeapOK' /\ MemoryOK' /\ CallsOK'
  BY <1>1, TypedHeap, NoneLostKeeps, CallsStay DEF Typed
<1>4. RestOK' /\ BootOK'
  BY <1>1, <1>2, StillUp DEF Typed, RestOK
<1> QED
  BY <1>1, <1>3, <1>4, TypedAgents, TypedTree, TypedRow DEF Typed

LEMMA TypedCrash ==
  ASSUME Typed, Crash
  PROVE  Typed'
<1>1. /\ crashes < MaxCrashes /\ crashes' = crashes + 1
      /\ heap' = [s \in Sessions |-> None] /\ memory' = [b \in Branches |-> 0]
      /\ hook' = [b \in Branches |-> None] /\ agent' = [b \in Branches |-> None]
      /\ calls' = [c \in Callers |-> Idle] /\ booting' = {b \in Branches : row[b] # None}
      /\ UNCHANGED <<main, head, tree, row, record, turns, env>>
  BY DEF Crash, gitVars
<1>2. crashes' \in 0 .. MaxCrashes
  BY <1>1, MergeAssumption DEF Typed, RestOK
<1>3. HeapOK' /\ MemoryOK'
  BY <1>1 DEF HeapOK, MemoryOK
<1>4. CallsOK' /\ BootOK'
  BY <1>1 DEF CallsOK, BootOK
<1>5. AgentOK'
  BY <1>1 DEF Typed, AgentOK
<1>6. RestOK'
  BY <1>1, <1>2 DEF Typed, RestOK
<1> QED
  BY <1>1, <1>3, <1>4, <1>5, <1>6, TypedTree, TypedRow DEF Typed

LEMMA TypedNext == Typed /\ [Next]_vars => Typed'
<1> SUFFICES ASSUME Typed, [Next]_vars PROVE Typed'
  OBVIOUS
<1>1. ASSUME NEW u \in Users, Continue(u) PROVE Typed'
  BY <1>1, TypedMerge, TypedCreate, TypedCreateRefused, TypedApplies, TypedApplied, TypedRefused, TypedAccepted, TypedEnsure, TypedTurn, TypedFails,
     TypedCommits, TypedCommitRefused, TypedLand, TypedEnd, TypedInterrupt, TypedRestore DEF Continue
<1>2. ASSUME NEW u \in Users, NEW b \in Branches, Begin(u, b) PROVE Typed'
  BY <1>2, TypedStart, TypedGet, TypedRetry, TypedDecide, TypedAccept, TypedResolve, TypedBatch, TypedCommit,
     TypedCancel DEF Begin
<1>3. ASSUME NEW b \in Branches, Resolver(b) \/ HandleMerge(b) \/ RecoverSession(b) PROVE Typed'
  BY <1>3, TypedWrites, TypedTurnEnds, TypedTurnStopped, TypedMergeDirect, TypedRecover DEF Resolver
<1>4. CASE HookChecks \/ HookRefreshes
  BY <1>4, TypedChecks, TypedRefreshes
<1>5. ASSUME NEW s \in Sessions, SessionTimesOut(s) PROVE Typed'
  BY <1>5, TypedTimesOut
<1>6. CASE ExpireSession \/ Crash
  BY <1>6, TypedExpire, TypedCrash
<1>7. CASE UNCHANGED vars
  <2>1. HeapOK' /\ MemoryOK' /\ NoneLost
    BY <1>7, TypedHeap DEF vars
  <2>2. CallsOK' /\ RestOK' /\ BootOK'
    BY <1>7, <2>1, NoneLostKeeps, CallsStay DEF Typed, RestOK, BootOK, vars
  <2> QED
    BY <1>7, <2>1, <2>2, TypedAgents, TypedTree, TypedRow DEF Typed, vars
<1> QED
  BY <1>1, <1>2, <1>3, <1>4, <1>5, <1>6, <1>7 DEF Next

\* The hardships of a behaviour are chosen at its start.
LEMMA EnvStays == [Next]_vars => UNCHANGED env
<1> SUFFICES ASSUME [Next]_vars
             PROVE  UNCHANGED env
  OBVIOUS
<1>1. ASSUME NEW u \in Users, NEW b \in Branches, Begin(u, b)
      PROVE  UNCHANGED env
  BY <1>1 DEF Begin, StartMergeReview, GetMergeReview, RetryFileWithAgent, DecideFile, AcceptAllRemaining,
              ResolveConflictsViaAgent, RetryFilesWithAgent, CommitMergeReview, CancelMergeReview
<1>2. ASSUME NEW u \in Users, Continue(u)
      PROVE  UNCHANGED env
  BY <1>2 DEF Continue, StartMergeSession, CreateSession, CreateRefused, ApplyFileDecision, DecisionApplied, DecisionRefused, AcceptedOne,
              EnsureMergeResolver, ResolverTurnStarted, ResolverFails, CommitMergeSession, CommitRefused, LandReview,
              EndReview, InterruptResolver, RestoreWorktree
<1>3. ASSUME NEW b \in Branches, Resolver(b) \/ HandleMerge(b) \/ RecoverSession(b)
      PROVE  UNCHANGED env
  BY <1>3 DEF Resolver, ResolverWrites, ResolverTurnEnds, ResolverTurnStopped, HandleMerge, RecoverSession
<1>4. CASE HookChecks \/ HookRefreshes \/ ExpireSession \/ Crash \/ \E s \in Sessions : SessionTimesOut(s)
  BY <1>4 DEF HookChecks, HookRefreshes, ExpireSession, Crash, SessionTimesOut
<1>5. CASE UNCHANGED vars
  BY <1>5 DEF vars
<1> QED
  BY <1>1, <1>2, <1>3, <1>4, <1>5 DEF Next

\* What Typed says is what TypeOK says, and more.
LEMMA TypedTypeOK == Typed => TypeOK
<1> SUFFICES ASSUME Typed PROVE TypeOK
  OBVIOUS
<1>1. \A c \in Callers : calls[c].pc \in {"idle", "starting", "creating", "applying", "applied", "accepting",
       "resolver", "turn", "committing", "landing", "ending", "interrupting", "restoring",
       "closing", "aborting", "checking", "refreshing"}
  BY DEF Typed, CallsOK, CallOK, Calls, Idle, UserPoints, HookPoints
<1>2. /\ \A s \in Sessions : heap[s] = None \/ heap[s] \in SessionStates
      /\ \A b \in Branches :
           /\ memory[b] # 0 => heap[memory[b]] # None /\ heap[memory[b]].branch = b
           /\ row[b] = None \/ row[b] \in SessionStates
           /\ hook[b] = None \/ hook[b] \in Jobs
           /\ agent[b] = None \/ agent[b] \in [files : SUBSET Files, turn : Turns]
  BY DEF Typed, HeapOK, MemoryOK, RowOK, AgentOK
<1> QED
  BY <1>1, <1>2 DEF TypeOK, Typed, TreeOK, AgentOK, RestOK

-----------------------------------------------------------------------------
(* One call and one review at a time                                       *)

\* A caller that does something does it alone, on the one review there is.
LEMMA Alone ==
  ASSUME Typed, Ordered, NEW c \in Callers, calls[c] # Idle
  PROVE  /\ booting = {} /\ \A b \in Branches : agent[b] = None
         /\ \A d \in Callers : d # c => calls[d] = Idle
         /\ calls[c].branch \in Branches /\ memory[calls[c].branch] = calls[c].session
         /\ calls[c].pc \in Started => \A b \in Branches : row[b] = None /\ memory[b] = 0
         /\ calls[c].pc \notin Started =>
              /\ memory[calls[c].branch] # 0 /\ row[calls[c].branch] # None
              /\ \A b \in Branches : UnderReview(b) => b = calls[c].branch
<1>1. calls[c].branch \in Branches /\ (calls[c].pc \notin Started => calls[c].session # 0)
  BY ZeroNoSession DEF Typed, CallsOK, CallOK, Calls
<1>2. memory[calls[c].branch] = calls[c].session
  BY DEF Ordered, InMap
<1>3. booting = {} /\ (\A b \in Branches : agent[b] = None) /\ (\A d \in Callers : d # c => calls[d] = Idle)
  BY Up DEF Typed, Ordered, AgentAlone, OneCall
<1>4. calls[c].pc \in Started => \A b \in Branches : row[b] = None /\ memory[b] = 0
  BY DEF Ordered, StartsAlone, MapStored
<1>5. calls[c].pc \notin Started =>
              /\ memory[calls[c].branch] # 0 /\ row[calls[c].branch] # None
              /\ \A b \in Branches : UnderReview(b) => b = calls[c].branch
  BY <1>1, <1>2 DEF Ordered, MapStored, One, UnderReview
<1> QED
  BY <1>1, <1>2, <1>3, <1>4, <1>5

\* Who is ready to call finds nobody at work.
LEMMA Calm ==
  ASSUME Typed, Ordered, InTurn, NEW u \in Users, NEW b \in Branches, Ready(u, b),
         UnderReview(b) \/ \A x \in Branches : row[x] = None
  PROVE  /\ booting = {} /\ (\A c \in Callers : calls[c] = Idle) /\ (\A x \in Branches : agent[x] = None)
<1>1. /\ booting = {} /\ ~ Working(b) /\ calls[Timer] = Idle /\ \A v \in Users : calls[v] = Idle
  BY DEF Ready, InTurn, Without
<1>2. \A c \in Callers : calls[c] = Idle
  BY <1>1 DEF Callers, Working
<1>3. ASSUME NEW x \in Branches, agent[x] # None
      PROVE  FALSE
  <2>1. memory[x] # 0 /\ row[x] # None
    BY <1>3 DEF Ordered, AgentAlone, MapStored
  <2>2. x = b
    BY <2>1 DEF Ordered, One, UnderReview
  <2> QED
    BY <1>1, <1>3, <2>2 DEF Working
<1> QED
  BY <1>1, <1>2, <1>3

\* No call appears out of nothing, or on another review.
Follows == \A c \in Callers : calls'[c] # Idle =>
  /\ calls[c] # Idle /\ calls'[c].branch = calls[c].branch /\ calls'[c].session = calls[c].session
  /\ calls'[c].pc \in Started => calls[c].pc \in Started
SameRows == \A b \in Branches : row'[b] # None <=> row[b] # None
NoAgents == \A b \in Branches : agent'[b] # None => agent[b] # None

LEMMA FollowsStay ==
  ASSUME UNCHANGED calls
  PROVE  Follows
BY DEF Follows

LEMMA FollowsReturn ==
  ASSUME Typed, NEW c \in Callers, Return(c)
  PROVE  Follows /\ calls'[c] = Idle /\ \A d \in Callers : d # c => calls'[d] = calls[d]
BY DEF Follows, Return, Typed, CallsOK

LEMMA FollowsAwait ==
  ASSUME Typed, NEW c \in Callers, calls[c] # Idle, NEW pc, Await(c, pc), pc \in Started => calls[c].pc \in Started
  PROVE  /\ Follows /\ calls'[c].pc = pc /\ \A d \in Callers : d # c => calls'[d] = calls[d]
         /\ calls'[c] # Idle /\ calls'[c].branch = calls[c].branch /\ calls'[c].session = calls[c].session
         /\ calls'[c].kind = calls[c].kind /\ calls'[c].files = calls[c].files /\ calls'[c].choice = calls[c].choice
<1>1. calls[c] \in Calls
  BY DEF Typed, CallsOK, CallOK
<1>2. calls'[c] = [calls[c] EXCEPT !.pc = pc] /\ \A d \in Callers : d # c => calls'[d] = calls[d]
  BY DEF Await, Typed, CallsOK
<1>3. /\ calls'[c].pc = pc /\ calls'[c].branch = calls[c].branch /\ calls'[c].session = calls[c].session
      /\ calls'[c].kind = calls[c].kind /\ calls'[c].files = calls[c].files /\ calls'[c].choice = calls[c].choice
      /\ DOMAIN calls'[c] = {"pc", "branch", "session", "kind", "files", "choice"}
  BY <1>1, <1>2 DEF Calls
<1>4. calls'[c] # Idle
  BY <1>3 DEF Idle
<1> QED
  BY <1>2, <1>3, <1>4 DEF Follows

LEMMA OrderStays ==
  ASSUME Ordered, UNCHANGED <<memory, booting>>, SameRows, NoAgents, Follows
  PROVE  Ordered'
<1>1. MapStored' /\ One'
  BY DEF Ordered, MapStored, One, UnderReview, SameRows
<1>2. OneCall' /\ InMap'
  BY DEF Ordered, OneCall, InMap, Follows
<1>3. StartsAlone'
  BY DEF Ordered, StartsAlone, Follows, SameRows
<1>4. AgentAlone'
  BY DEF Ordered, AgentAlone, Follows, NoAgents
<1> QED
  BY <1>1, <1>2, <1>3, <1>4 DEF Ordered

\* The row of the review is written again.
LEMMA RowsPersist ==
  ASSUME Typed, NEW x \in SessionStates, Persist(x), row[x.branch] # None
  PROVE  SameRows
<1>1. x.branch \in Branches /\ Stored(x) # None
  BY StoredShape, Placeholders DEF SessionStates
<1>2. row' = [row EXCEPT ![x.branch] = Stored(x)] /\ row \in [Branches -> SessionStates \cup {None}]
  BY DEF Persist, Typed, RowOK
<1> HIDE DEF Stored
<1> QED
  BY <1>1, <1>2 DEF SameRows

\* A call on a review, or the start of one, begins where nobody is at work.
LEMMA OrderBegins ==
  ASSUME Typed, Ordered, UNCHANGED <<memory, row, booting>>, NEW c \in Callers, NEW pc, NEW b \in Branches, NEW job, NEW choice,
         Call(c, pc, b, memory[b], job, choice), \A d \in Callers : calls[d] = Idle,
         \A x \in Branches : agent'[x] = None,
         pc \in Started => \A x \in Branches : row[x] = None
  PROVE  Ordered'
<1>1. /\ calls'[c].branch = b /\ calls'[c].session = memory[b] /\ calls'[c].pc = pc
      /\ \A d \in Callers : d # c => calls'[d] = Idle
  BY DEF Call, Typed, CallsOK
<1>2. MapStored' /\ One'
  BY DEF Ordered, MapStored, One, UnderReview
<1>3. OneCall' /\ InMap' /\ StartsAlone'
  BY <1>1 DEF Ordered, OneCall, InMap, StartsAlone
<1>4. AgentAlone'
  BY DEF Ordered, AgentAlone
<1> QED
  BY <1>2, <1>3, <1>4 DEF Ordered

\* The calls of users on an open review.
LEMMA OpenedCalm ==
  ASSUME Typed, Ordered, InTurn, NEW u \in Users, NEW b \in Branches, Opened(u, b)
  PROVE  /\ booting = {} /\ (\A c \in Callers : calls[c] = Idle) /\ (\A x \in Branches : agent[x] = None)
         /\ memory[b] # 0 /\ row[b] # None /\ (\A x \in Branches : UnderReview(x) => x = b)
         /\ memory[b] \in Sessions /\ heap[memory[b]] # None
         /\ heap[memory[b]] \in SessionStates /\ heap[memory[b]].branch = b
<1>1. memory[b] # 0 /\ Ready(u, b) /\ UnderReview(b)
  BY DEF Opened, UnderReview
<1>2. row[b] # None /\ \A x \in Branches : UnderReview(x) => x = b
  BY <1>1 DEF Ordered, MapStored, One
<1> QED
  BY <1>1, <1>2, Calm, MapHolds DEF Typed

LEMMA OrderOpened ==
  ASSUME Typed, Ordered, InTurn, NEW u \in Users, NEW b \in Branches, Opened(u, b),
         UNCHANGED <<memory, row, agent, booting>>, NEW pc \in UserPoints \ Started, NEW job, NEW choice,
         Call(u, pc, b, memory[b], job, choice)
  PROVE  Ordered'
<1>1. /\ booting = {} /\ (\A c \in Callers : calls[c] = Idle) /\ (\A x \in Branches : agent[x] = None)
      /\ u \in Callers
  BY OpenedCalm DEF Callers
<1> QED
  BY <1>1, OrderBegins

LEMMA OrderStart ==
  ASSUME Typed, Ordered, InTurn, NEW u \in Users, NEW b \in Branches, StartMergeReview(u, b)
  PROVE  Ordered'
<1>1. /\ Ready(u, b) /\ (\A x \in Branches : row[x] = None) /\ Call(u, "starting", b, 0, NoJob, "none")
      /\ UNCHANGED <<memory, row, agent, booting>> /\ u \in Callers
  BY DEF StartMergeReview, agentVars, Callers
<1>2. (\A c \in Callers : calls[c] = Idle) /\ (\A x \in Branches : agent'[x] = None) /\ memory[b] = 0
  BY <1>1, Calm DEF Ordered, MapStored
<1> QED
  BY <1>1, <1>2, OrderBegins

LEMMA OrderBegin ==
  ASSUME Typed, Ordered, InTurn, NEW u \in Users, NEW b \in Branches,
         \/ \E f \in Files : RetryFileWithAgent(u, b, f) \/ \E d \in Choices : DecideFile(u, b, f, d)
         \/ AcceptAllRemaining(u, b) \/ ResolveConflictsViaAgent(u, b)
         \/ \E F \in Batches : RetryFilesWithAgent(u, b, F)
         \/ CommitMergeReview(u, b) \/ CancelMergeReview(u, b)
  PROVE  Ordered'
<1> USE OrderOpened DEF UserPoints, Started, agentVars, Reviewing
<1>1. ASSUME NEW f \in Files, RetryFileWithAgent(u, b, f) PROVE Ordered'
  BY <1>1 DEF RetryFileWithAgent
<1>2. ASSUME NEW f \in Files, NEW d \in Choices, DecideFile(u, b, f, d) PROVE Ordered'
  BY <1>2 DEF DecideFile
<1>3. CASE AcceptAllRemaining(u, b)
  <2>1. PICK f \in Files : Call(u, "accepting", b, memory[b], [kind |-> "decide", files |-> {f}], "accept")
    BY <1>3 DEF AcceptAllRemaining, Acceptable, Undecided
  <2> QED
    BY <1>3, <2>1 DEF AcceptAllRemaining
<1>4. CASE ResolveConflictsViaAgent(u, b)
  BY <1>4 DEF ResolveConflictsViaAgent
<1>5. ASSUME NEW F \in Batches, RetryFilesWithAgent(u, b, F) PROVE Ordered'
  BY <1>5 DEF RetryFilesWithAgent
<1>6. CASE CommitMergeReview(u, b)
  BY <1>6 DEF CommitMergeReview
<1>7. CASE CancelMergeReview(u, b)
  BY <1>7 DEF CancelMergeReview
<1> QED
  BY <1>1, <1>2, <1>3, <1>4, <1>5, <1>6, <1>7

\* A review enters the map where there is no other.
LEMMA OrderEnters ==
  ASSUME Typed, Ordered, NEW b \in Branches, NEW n \in Sessions, NEW x \in SessionStates, x.branch = b,
         memory' = [memory EXCEPT ![b] = n], Persist(x), booting' \subseteq booting, b \notin booting',
         \A y \in Branches : UnderReview(y) => y = b,
         \A c \in Callers : calls'[c] = Idle, UNCHANGED agent, \A y \in Branches : agent[y] = None
  PROVE  Ordered'
<1>1. Stored(x) # None /\ n # 0
  BY StoredShape, Placeholders, ZeroNoSession
<1>2. \A y \in Branches : /\ memory'[y] = IF y = b THEN n ELSE memory[y]
                          /\ row'[y] = IF y = b THEN Stored(x) ELSE row[y]
  BY DEF Typed, MemoryOK, RowOK, Persist
<1>3. MapStored'
  BY <1>1, <1>2 DEF Ordered, MapStored
<1>4. One'
  BY <1>1, <1>2 DEF One, UnderReview
<1>5. OneCall' /\ InMap' /\ StartsAlone' /\ AgentAlone'
  BY DEF OneCall, InMap, StartsAlone, AgentAlone
<1> QED
  BY <1>3, <1>4, <1>5 DEF Ordered

LEMMA OrderCreate ==
  ASSUME Typed, Ordered, NEW u \in Users, CreateSession(u)
  PROVE  Ordered'
<1> DEFINE b == calls[u].branch
           x == [branch |-> b, state |-> "reviewing", resolver |-> 0, timer |-> TRUE, base |-> None, files |->
                 [f \in Files |-> [status |-> IF f \in Conflicting THEN "conflict" ELSE "auto_merged",
                                   decision |-> "pending", diff |-> tree[b].content[f]]]]
<1>1. u \in Callers /\ b \in Branches /\ calls[u] # Idle /\ calls[u].pc \in Started
  BY CallerHolds DEF CreateSession, At, Callers, Typed, Started
<1>2. x \in SessionStates /\ x.branch = b
  <2>1. \A f \in Files : tree[b].content[f] \in Contents
    BY <1>1 DEF Typed, TreeOK
  <2> QED
    BY <1>1, <2>1 DEF SessionStates, FileStates
<1>3. /\ memory' = [memory EXCEPT ![b] = NewSession] /\ Persist(x) /\ Return(u) /\ NewSession \in Sessions
      /\ UNCHANGED <<agent, booting>>
  BY NewSessionFree DEF CreateSession, Store, agentVars
<1> HIDE DEF x
<1>4. /\ booting = {} /\ (\A d \in Callers : calls'[d] = Idle) /\ (\A y \in Branches : agent[y] = None)
      /\ \A y \in Branches : ~ UnderReview(y)
  BY <1>1, <1>3, Alone, FollowsReturn DEF UnderReview
<1> QED
  BY <1>1, <1>2, <1>3, <1>4, OrderEnters

LEMMA OrderLoads ==
  ASSUME Typed, Ordered, NEW b \in Branches, row[b] # None, NEW x \in SessionStates, x.branch = b, Load(b, x),
         booting' = booting \ {b}, UNCHANGED <<calls, agent>>,
         \A c \in Callers : calls[c] = Idle, \A y \in Branches : agent[y] = None
  PROVE  Ordered'
<1>1. memory' = [memory EXCEPT ![b] = NewSession] /\ Persist(x) /\ NewSession \in Sessions
  BY NewSessionFree DEF Load, Store
<1>2. \A y \in Branches : UnderReview(y) => y = b
  BY DEF Ordered, One, UnderReview
<1> QED
  BY <1>1, <1>2, OrderEnters

LEMMA OrderGet ==
  ASSUME Typed, Ordered, InTurn, NEW u \in Users, NEW b \in Branches, GetMergeReview(u, b)
  PROVE  Ordered'
<1>1. /\ Ready(u, b) /\ row[b] # None /\ UNCHANGED <<calls, agent, booting>>
  BY DEF GetMergeReview, agentVars
<1>2. booting = {} /\ (\A c \in Callers : calls[c] = Idle) /\ (\A y \in Branches : agent[y] = None)
  BY <1>1, Calm DEF UnderReview
<1>3. booting' = booting \ {b}
  BY <1>1, <1>2
<1> QED
  BY <1>1, <1>2, <1>3, Loadable, OrderLoads DEF GetMergeReview

LEMMA OrderRecover ==
  ASSUME Typed, Ordered, NEW b \in Branches, RecoverSession(b)
  PROVE  Ordered'
<1>1. /\ b \in booting /\ row[b] # None /\ UNCHANGED <<calls, agent>> /\ booting' = booting \ {b}
      /\ (\A c \in Callers : calls[c] = Idle) /\ (\A y \in Branches : agent[y] = None)
  BY DEF RecoverSession, agentVars, Typed, BootOK
<1>2. CASE Load(b, Recovered(row[b]))
  BY <1>1, <1>2, Loadable, OrderLoads
<1>3. CASE row' = [row EXCEPT ![b].state = "recovery_required"] /\ UNCHANGED <<heap, memory>>
  <2>1. SameRows
    <3>1. row[b] \in SessionStates
      BY <1>1 DEF Typed, RowOK
    <3>2. [row[b] EXCEPT !.state = "recovery_required"] \in SessionStates
      BY <3>1 DEF SessionStates
    <3>3. [row[b] EXCEPT !.state = "recovery_required"] # None
      BY <3>2, Placeholders
    <3> QED
      BY <1>1, <1>3, <3>3 DEF SameRows, Typed, RowOK
  <2>2. MapStored'
    BY <1>1, <1>3, <2>1 DEF Ordered, MapStored, SameRows
  <2>3. One' /\ OneCall' /\ InMap' /\ StartsAlone' /\ AgentAlone'
    BY <1>1, <1>3, <2>1 DEF Ordered, One, UnderReview, OneCall, InMap, StartsAlone, AgentAlone, SameRows
  <2> QED
    BY <2>2, <2>3 DEF Ordered
<1> QED
  BY <1>2, <1>3 DEF RecoverSession

\* What a user's call does between two awaits.
LEMMA OrderContinue ==
  ASSUME Typed, Ordered, NEW u \in Users,
         \/ StartMergeSession(u) \/ CreateRefused(u)
         \/ ApplyFileDecision(u) \/ DecisionApplied(u) \/ DecisionRefused(u) \/ AcceptedOne(u)
         \/ EnsureMergeResolver(u) \/ ResolverFails(u)
         \/ CommitMergeSession(u) \/ CommitRefused(u) \/ LandReview(u)
         \/ InterruptResolver(u) \/ RestoreWorktree(u)
  PROVE  Ordered'
<1> DEFINE c == calls[u]
           x == heap[c.session]
<1>1. /\ u \in Callers /\ c # Idle /\ c.branch \in Branches
      /\ c.pc \notin Started => x \in SessionStates /\ x.branch = c.branch /\ row[c.branch] # None
  <2>1. c.pc # "idle"
    BY DEF StartMergeSession, CreateRefused, ApplyFileDecision, DecisionApplied, DecisionRefused, AcceptedOne,
           EnsureMergeResolver, ResolverFails, CommitMergeSession, CommitRefused, LandReview, InterruptResolver, RestoreWorktree, At
  <2> QED
    BY <2>1, CallerHolds, Alone DEF Callers, Typed
<1>2. UNCHANGED <<memory, booting>> /\ NoAgents
  BY DEF StartMergeSession, CreateRefused, ApplyFileDecision, DecisionApplied, DecisionRefused, AcceptedOne,
         EnsureMergeResolver, ResolverFails, CommitMergeSession, CommitRefused, LandReview, InterruptResolver, RestoreWorktree, gitVars, agentVars,
         NoAgents, Typed, AgentOK
<1>3. Follows
  <2>1. CASE Return(u) \/ \E pc : Await(u, pc) /\ pc \notin {"starting", "creating"}
    BY <1>1, <2>1, FollowsReturn, FollowsAwait DEF Started
  <2>2. CASE c.pc = "starting" /\ Await(u, "creating")
    BY <1>1, <2>2, FollowsAwait DEF Started
  <2>3. CASE AcceptedOne(u)
    <3>1. CASE \E f \in Files : calls' = [calls EXCEPT ![u].files = {f}]
      <4>1. c \in Calls
        BY <1>1 DEF Typed, CallsOK, CallOK
      <4>2. calls'[u].branch = c.branch /\ calls'[u].session = c.session /\ calls'[u].pc = c.pc
        BY <1>1, <3>1, <4>1 DEF Typed, CallsOK, Calls
      <4>3. \A d \in Callers : d # u => calls'[d] = calls[d]
        BY <1>1, <3>1 DEF Typed, CallsOK
      <4> QED
        BY <1>1, <4>2, <4>3 DEF Follows
    <3> QED
      BY <1>1, <2>3, <3>1, FollowsReturn DEF AcceptedOne, Acceptable, Undecided
  <2>4. CASE StartMergeSession(u)
    BY <2>1, <2>2, <2>4 DEF StartMergeSession, At
  <2>5. CASE CreateRefused(u) \/ DecisionApplied(u) \/ DecisionRefused(u) \/ ResolverFails(u)
    <3>1. Return(u)
      BY <2>5 DEF CreateRefused, DecisionApplied, DecisionRefused, ResolverFails
    <3> QED
      BY <2>1, <3>1
  <2>6. CASE \/ EnsureMergeResolver(u) \/ CommitMergeSession(u) \/ CommitRefused(u) \/ LandReview(u)
             \/ InterruptResolver(u) \/ RestoreWorktree(u) \/ ApplyFileDecision(u)
    <3>1. Return(u) \/ \E pc \in {"turn", "landing", "ending", "restoring", "closing", "applied"} : Await(u, pc)
      BY <2>6 DEF ApplyFileDecision, EnsureMergeResolver, CommitMergeSession, CommitRefused, LandReview, InterruptResolver, RestoreWorktree
    <3> QED
      BY <2>1, <3>1
  <2> QED
    BY <2>3, <2>4, <2>5, <2>6
<1>4. SameRows
  <2>1. CASE UNCHANGED row
    BY <2>1 DEF SameRows
  <2>2. CASE DecisionApplied(u)
    <3> DEFINE S == {f \in c.files : x.files[f].status = "conflict" /\ c.choice \in {"keep_main", "use_branch"}}
    <3>1. c.pc \notin Started /\ Persist(SetStatus(x, S, "agent_resolved"))
      BY <2>2 DEF DecisionApplied, At, Store, Started
    <3> HIDE DEF S
    <3> QED
      BY <1>1, <3>1, SetStatusShape, RowsPersist
  <2>3. CASE ResolverFails(u)
    <3> DEFINE F == IF c.kind = "resolve" THEN {} ELSE c.files
               y == SetStatus(x, F, "conflict")
               w == [y EXCEPT !.state = "reviewing", !.base = IF c.kind = "resolve" THEN @ ELSE None]
    <3>1. c.pc \notin Started /\ Persist(w)
      BY <2>3 DEF ResolverFails, Store, Started
    <3>2. y \in SessionStates /\ y.branch = c.branch
      BY <1>1, <3>1, SetStatusShape
    <3> HIDE DEF y
    <3>3. w \in SessionStates /\ w.branch = c.branch
      BY <3>2 DEF SessionStates
    <3> HIDE DEF w
    <3> QED
      BY <1>1, <3>1, <3>3, RowsPersist
  <2>4. CASE Persist(x) /\ c.pc \notin Started
    BY <1>1, <2>4, RowsPersist
  <2> QED
    BY <2>1, <2>2, <2>3, <2>4
    DEF StartMergeSession, CreateRefused, ApplyFileDecision, DecisionRefused, AcceptedOne, EnsureMergeResolver, Store,
        CommitMergeSession, CommitRefused, LandReview, InterruptResolver, RestoreWorktree, At, Started
<1> QED
  BY <1>2, <1>3, <1>4, OrderStays

LEMMA OrderTurn ==
  ASSUME Typed, Ordered, NEW u \in Users, ResolverTurnStarted(u)
  PROVE  Ordered'
<1> DEFINE c == calls[u]
<1>1. /\ u \in Callers /\ c.pc = "turn" /\ Return(u) /\ Persist(heap[c.session])
      /\ \A y \in Branches : agent'[y] # None => y = c.branch \/ agent[y] # None
      /\ UNCHANGED <<memory, booting>>
  BY DEF ResolverTurnStarted, At, Callers, Typed, AgentOK
<1>2. /\ c # Idle /\ c.branch \in Branches /\ heap[c.session] \in SessionStates
      /\ heap[c.session].branch = c.branch /\ c.pc \notin Started
  BY <1>1, CallerHolds DEF Typed, Started
<1>3. /\ memory[c.branch] # 0 /\ row[c.branch] # None /\ (\A d \in Callers : calls'[d] = Idle)
      /\ \A y \in Branches : agent[y] = None
  BY <1>1, <1>2, Alone, FollowsReturn
<1>4. SameRows
  BY <1>1, <1>2, <1>3, RowsPersist
<1>5. MapStored' /\ One'
  BY <1>1, <1>4 DEF Ordered, MapStored, One, UnderReview, SameRows
<1>6. OneCall' /\ InMap' /\ StartsAlone'
  BY <1>3 DEF OneCall, InMap, StartsAlone
<1>7. AgentAlone'
  BY <1>1, <1>3 DEF AgentAlone
<1> QED
  BY <1>5, <1>6, <1>7 DEF Ordered

\* A review is over.
LEMMA OrderForgets ==
  ASSUME Typed, Ordered, NEW c \in Callers, calls[c] # Idle, ForgetSession(c, calls[c].branch), Return(c),
         NoAgents, UNCHANGED booting
  PROVE  Ordered'
<1> DEFINE b == calls[c].branch
<1>1. /\ b \in Branches /\ (\A d \in Callers : calls'[d] = Idle) /\ (\A y \in Branches : agent'[y] = None)
  BY Alone, FollowsReturn DEF NoAgents
<1>2. \A y \in Branches : /\ memory'[y] = IF y = b THEN 0 ELSE memory[y]
                          /\ row'[y] = IF y = b THEN None ELSE row[y]
  BY DEF Typed, MemoryOK, RowOK, ForgetSession
<1>3. MapStored' /\ One'
  BY <1>2 DEF Ordered, MapStored, One, UnderReview
<1>4. OneCall' /\ InMap' /\ StartsAlone' /\ AgentAlone'
  BY <1>1 DEF OneCall, InMap, StartsAlone, AgentAlone
<1> QED
  BY <1>3, <1>4 DEF Ordered

LEMMA OrderEnd ==
  ASSUME Typed, Ordered, NEW u \in Users, EndReview(u)
  PROVE  Ordered'
<1>1. calls[u].pc # "idle" /\ u \in Callers
  BY DEF EndReview, Callers
<1>2. calls[u] # Idle
  BY <1>1, CallerHolds DEF Typed
<1>3. NoAgents
  BY DEF EndReview, CleanupResolver, NoAgents, Typed, AgentOK
<1> QED
  BY <1>1, <1>2, <1>3, OrderForgets DEF EndReview

LEMMA OrderExpire ==
  ASSUME Typed, Ordered, ExpireSession
  PROVE  Ordered'
<1>1. calls[Timer].pc # "idle" /\ Timer \in Callers
  BY DEF ExpireSession, At, Callers
<1>2. calls[Timer] # Idle
  BY <1>1, CallerHolds DEF Typed
<1>3. NoAgents
  BY DEF ExpireSession, agentVars, NoAgents
<1> QED
  BY <1>1, <1>2, <1>3, OrderForgets DEF ExpireSession

\* The timeout finds nobody at work either.
LEMMA TimerCalm ==
  ASSUME Typed, Ordered, InTurn, NEW s \in Sessions, SessionTimesOut(s), memory[heap[s].branch] # 0
  PROVE  /\ booting = {} /\ (\A c \in Callers : calls[c] = Idle) /\ (\A x \in Branches : agent[x] = None)
         /\ heap[s].branch \in Branches
<1> DEFINE b == heap[s].branch
<1>1. /\ heap[s] # None /\ booting = {} /\ calls[Timer] = Idle /\ ~ Working(b) /\ ~ Busy(b)
  BY DEF SessionTimesOut, InTurn, Without
<1>2. b \in Branches
  BY <1>1 DEF Typed, HeapOK, SessionStates
<1>3. row[b] # None /\ UnderReview(b)
  BY <1>2 DEF Ordered, MapStored, UnderReview
<1>4. ASSUME NEW c \in Callers, calls[c] # Idle PROVE FALSE
  <2>1. c # Timer /\ c # Hook
    BY <1>1, <1>4 DEF Working
  <2>2. c \in Users /\ calls[c].branch # b
    BY <1>1, <1>4, <2>1 DEF Busy, Callers
  <2> QED
    BY <1>2, <1>3, <1>4, <2>2, Alone
<1>5. ASSUME NEW x \in Branches, agent[x] # None PROVE FALSE
  <2>1. memory[x] # 0
    BY <1>5 DEF Ordered, AgentAlone
  <2>2. x = b
    BY <1>2, <1>3, <2>1 DEF Ordered, One, UnderReview
  <2> QED
    BY <1>1, <1>5, <2>2 DEF Working
<1> QED
  BY <1>1, <1>2, <1>4, <1>5

LEMMA OrderTimesOut ==
  ASSUME Typed, Ordered, InTurn, NEW s \in Sessions, SessionTimesOut(s)
  PROVE  Ordered'
<1> DEFINE b == heap[s].branch
<1>1. UNCHANGED <<memory, row, agent, booting>>
  BY DEF SessionTimesOut, agentVars
<1>2. CASE UNCHANGED calls
  BY <1>1, <1>2, FollowsStay, OrderStays DEF SameRows, NoAgents
<1>3. CASE memory[b] # 0 /\ Call(Timer, "aborting", b, memory[b], NoJob, "none")
  <2>1. /\ (\A c \in Callers : calls[c] = Idle) /\ (\A x \in Branches : agent'[x] = None) /\ b \in Branches
    BY <1>1, <1>3, TimerCalm
  <2>2. Timer \in Callers /\ "aborting" \notin Started
    BY DEF Callers, Started
  <2> QED
    BY <1>1, <1>3, <2>1, <2>2, OrderBegins
<1> QED
  BY <1>2, <1>3 DEF SessionTimesOut

LEMMA OrderResolver ==
  ASSUME Typed, Ordered, NEW b \in Branches, Resolver(b)
  PROVE  Ordered'
<1>1. agent[b] # None /\ UNCHANGED <<memory, row, booting>> /\ NoAgents
  BY DEF Resolver, ResolverWrites, ResolverTurnEnds, ResolverTurnStopped, agentVars, NoAgents, Typed, AgentOK
<1>2. CASE UNCHANGED calls
  BY <1>1, <1>2, FollowsStay, OrderStays DEF SameRows
<1>3. CASE ResolverTurnEnds(b) /\ Call(Hook, "checking", b, memory[b], hook[b], "none")
  <2>1. memory[b] # 0 /\ \A c \in Callers : calls[c] = Idle
    BY <1>1 DEF Ordered, AgentAlone
  <2>2. \A x \in Branches : agent'[x] = None
    <3>1. ASSUME NEW x \in Branches, agent[x] # None
          PROVE  x = b
      BY <1>1, <3>1 DEF Ordered, AgentAlone, One, UnderReview
    <3> QED
      BY <1>3, <3>1 DEF ResolverTurnEnds, Typed, AgentOK
  <2>3. Hook \in Callers /\ "checking" \notin Started
    BY DEF Callers, Started
  <2> QED
    BY <1>1, <1>3, <2>1, <2>2, <2>3, OrderBegins
<1> QED
  BY <1>2, <1>3 DEF Resolver, ResolverWrites, ResolverTurnEnds, ResolverTurnStopped

LEMMA OrderChecks ==
  ASSUME Typed, Ordered, HookChecks
  PROVE  Ordered'
<1> DEFINE c == calls[Hook]
<1>1. /\ c # Idle /\ Hook \in Callers /\ UNCHANGED <<memory, row, agent, booting>>
      /\ \E choice : calls' = [calls EXCEPT ![Hook].pc = "refreshing", ![Hook].choice = choice]
  BY ChecksShape
<1>2. Follows
  <2>1. c \in Calls
    BY <1>1 DEF Typed, CallsOK, CallOK
  <2>2. calls'[Hook].branch = c.branch /\ calls'[Hook].session = c.session /\ calls'[Hook].pc = "refreshing"
    BY <1>1, <2>1 DEF Typed, CallsOK, Calls
  <2>3. \A d \in Callers : d # Hook => calls'[d] = calls[d]
    BY <1>1 DEF Typed, CallsOK
  <2> QED
    BY <1>1, <2>2, <2>3 DEF Follows, Started
<1> QED
  BY <1>1, <1>2, OrderStays DEF SameRows, NoAgents

LEMMA OrderRefreshes ==
  ASSUME Typed, Ordered, HookRefreshes
  PROVE  Ordered'
<1> DEFINE c == calls[Hook]
           y == Refreshed(c, heap[c.session])
<1>1. /\ c.pc \notin Started /\ c # Idle /\ Hook \in Callers /\ c.branch \in Branches /\ heap[c.session] \in SessionStates
      /\ heap[c.session].branch = c.branch /\ UNCHANGED <<memory, agent, booting>> /\ Persist(y) /\ Return(Hook)
  BY RefreshesShape DEF Started, Store
<1>2. y \in SessionStates /\ y.branch = c.branch
  BY <1>1, RefreshedShape
<1> HIDE DEF y
<1>3. SameRows
  BY <1>1, <1>2, Alone, RowsPersist
<1> QED
  BY <1>1, <1>3, FollowsReturn, OrderStays DEF NoAgents

LEMMA OrderCrash ==
  ASSUME Typed, Ordered, Crash
  PROVE  Ordered'
<1>1. /\ memory' = [b \in Branches |-> 0] /\ agent' = [b \in Branches |-> None]
      /\ calls' = [c \in Callers |-> Idle] /\ UNCHANGED row
  BY DEF Crash
<1>2. MapStored' /\ One'
  BY <1>1 DEF Ordered, MapStored, One, UnderReview
<1>3. OneCall' /\ InMap' /\ StartsAlone' /\ AgentAlone'
  BY <1>1 DEF OneCall, InMap, StartsAlone, AgentAlone
<1> QED
  BY <1>2, <1>3 DEF Ordered

LEMMA OrderedNext == Typed /\ InTurn /\ Ordered /\ [Next]_vars => Ordered'
<1> SUFFICES ASSUME Typed, InTurn, Ordered, [Next]_vars PROVE Ordered'
  OBVIOUS
<1>1. ASSUME NEW u \in Users, Continue(u) PROVE Ordered'
  BY <1>1, OrderContinue, OrderCreate, OrderTurn, OrderEnd DEF Continue
<1>2. ASSUME NEW u \in Users, NEW b \in Branches, Begin(u, b) PROVE Ordered'
  BY <1>2, OrderStart, OrderGet, OrderBegin DEF Begin
<1>3. ASSUME NEW b \in Branches, HandleMerge(b) PROVE Ordered'
  BY <1>3, FollowsStay, OrderStays DEF HandleMerge, agentVars, SameRows, NoAgents
<1>4. ASSUME NEW b \in Branches, Resolver(b) \/ RecoverSession(b) PROVE Ordered'
  BY <1>4, OrderResolver, OrderRecover
<1>5. CASE HookChecks \/ HookRefreshes
  BY <1>5, OrderChecks, OrderRefreshes
<1>6. ASSUME NEW s \in Sessions, SessionTimesOut(s) PROVE Ordered'
  BY <1>6, OrderTimesOut
<1>7. CASE ExpireSession \/ Crash
  BY <1>7, OrderExpire, OrderCrash
<1>8. CASE UNCHANGED vars
  BY <1>8, FollowsStay, OrderStays DEF vars, SameRows, NoAgents
<1> QED
  BY <1>1, <1>2, <1>3, <1>4, <1>5, <1>6, <1>7, <1>8 DEF Next

-----------------------------------------------------------------------------
(* What the steps do to a session                                          *)

LEMMA BegunCall ==
  ASSUME Typed, \A d \in Callers : calls[d] = Idle, NEW c \in Callers, NEW pc, NEW b, NEW s, NEW job, NEW choice,
         Call(c, pc, b, s, job, choice), pc # "idle"
  PROVE  /\ calls'[c] # Idle /\ calls'[c].pc = pc /\ calls'[c].branch = b /\ calls'[c].session = s
         /\ calls'[c].kind = job.kind /\ calls'[c].files = job.files /\ calls'[c].choice = choice
         /\ \A d \in Callers : d # c => calls'[d] = Idle
BY DEF Call, Typed, CallsOK, Idle

LEMMA DecideShape ==
  ASSUME Typed, NEW u \in Users, NEW b \in Branches, NEW f \in Files, NEW choice \in Choices,
         DecideFile(u, b, f, choice)
  PROVE  LET x == heap[memory[b]]
             y == heap'[memory[b]]
         IN /\ Opened(u, b) /\ x.state = "reviewing" /\ y.state = x.state
            /\ \A g \in Files : /\ y.files[g].status = x.files[g].status /\ y.files[g].diff = x.files[g].diff
                                /\ y.files[g].decision = IF g = f THEN choice ELSE x.files[g].decision
            /\ x.files[f].decision = "pending" /\ choice \in Decisions
            /\ Call(u, "applying", b, memory[b], [kind |-> "decide", files |-> {f}], choice)
            /\ UNCHANGED <<main, head, tree, memory, row, record, hook, agent, turns, booting, crashes, env>>
<1> DEFINE s == memory[b]
           x == heap[s]
           y == [x EXCEPT !.files[f].decision = choice]
<1>1. /\ Opened(u, b) /\ x.state = "reviewing" /\ heap' = [heap EXCEPT ![s] = y]
      /\ x.files[f].decision = "pending" /\ choice \in Decisions
      /\ Call(u, "applying", b, s, [kind |-> "decide", files |-> {f}], choice)
      /\ UNCHANGED <<main, head, tree, memory, row, record, hook, agent, turns, booting, crashes, env>>
  BY MergeAssumption DEF DecideFile, Reviewing, gitVars, agentVars
<1>2. s \in Sessions /\ x \in SessionStates
  BY <1>1, MapHolds DEF Opened, Typed
<1>3. /\ y.state = x.state
      /\ \A g \in Files : /\ y.files[g].status = x.files[g].status /\ y.files[g].diff = x.files[g].diff
                          /\ y.files[g].decision = IF g = f THEN choice ELSE x.files[g].decision
  BY <1>2 DEF SessionStates, FileStates
<1> HIDE DEF y
<1>4. heap'[s] = y
  BY <1>1, <1>2 DEF Typed, HeapOK
<1> QED
  BY <1>1, <1>3, <1>4

LEMMA AcceptShape ==
  ASSUME Typed, NEW u \in Users, NEW b \in Branches, AcceptAllRemaining(u, b)
  PROVE  LET x == heap[memory[b]]
             y == heap'[memory[b]]
         IN \E f \in Files :
              /\ Opened(u, b) /\ x.state = "reviewing" /\ y.state = x.state
              /\ \A g \in Files : /\ y.files[g].status = x.files[g].status /\ y.files[g].diff = x.files[g].diff
                                  /\ y.files[g].decision = IF g = f THEN "accept" ELSE x.files[g].decision
              /\ x.files[f].decision = "pending"
              /\ Call(u, "accepting", b, memory[b], [kind |-> "decide", files |-> {f}], "accept")
              /\ UNCHANGED <<main, head, tree, memory, row, record, hook, agent, turns, booting, crashes, env>>
<1> DEFINE s == memory[b]
           x == heap[s]
<1>1. PICK f \in Files :
        /\ Opened(u, b) /\ x.state = "reviewing" /\ x.files[f].decision = "pending"
        /\ heap' = [heap EXCEPT ![s] = [x EXCEPT !.files[f].decision = "accept"]]
        /\ Call(u, "accepting", b, s, [kind |-> "decide", files |-> {f}], "accept")
        /\ UNCHANGED <<main, head, tree, memory, row, record, hook, agent, turns, booting, crashes, env>>
  BY DEF AcceptAllRemaining, Reviewing, gitVars, agentVars, Acceptable, Undecided
<1> DEFINE y == [x EXCEPT !.files[f].decision = "accept"]
<1>2. s \in Sessions /\ x \in SessionStates
  BY <1>1, MapHolds DEF Opened, Typed
<1>3. /\ y.state = x.state
      /\ \A g \in Files : /\ y.files[g].status = x.files[g].status /\ y.files[g].diff = x.files[g].diff
                          /\ y.files[g].decision = IF g = f THEN "accept" ELSE x.files[g].decision
  BY <1>2 DEF SessionStates, FileStates
<1>4. heap'[s] = y
  BY <1>1, <1>2 DEF Typed, HeapOK
<1> HIDE DEF y
<1> QED
  BY <1>1, <1>3, <1>4

\* Files are handed over to the resolver, as a job of some kind.
HandedOver(u, b, kind, F) ==
  LET x == heap[memory[b]]
      y == heap'[memory[b]]
  IN /\ Opened(u, b) /\ x.state = "reviewing"
     /\ kind = "resolve" => F = {g \in Undecided(x) : x.files[g].status = "conflict"}
     /\ \A g \in Files :
          /\ y.files[g].diff = x.files[g].diff /\ y.files[g].decision = x.files[g].decision
          /\ y.files[g].status = IF kind # "resolve" /\ g \in F THEN "agent_pending" ELSE x.files[g].status
     /\ Call(u, "resolver", b, memory[b], [kind |-> kind, files |-> F], "none")
     /\ UNCHANGED <<main, head, tree, memory, row, record, hook, agent, turns, booting, crashes, env>>

LEMMA HandShape ==
  ASSUME Typed, NEW u \in Users, NEW b \in Branches,
         \/ ResolveConflictsViaAgent(u, b)
         \/ \E f \in Files : RetryFileWithAgent(u, b, f)
         \/ \E F \in Batches : RetryFilesWithAgent(u, b, F)
  PROVE  \E kind \in Kinds, F \in SUBSET Files : HandedOver(u, b, kind, F)
<1> DEFINE s == memory[b]
           x == heap[s]
<1>0. Opened(u, b) /\ x.state = "reviewing" /\ s \in Sessions /\ x \in SessionStates
  BY MapHolds DEF ResolveConflictsViaAgent, RetryFileWithAgent, RetryFilesWithAgent, Reviewing, Opened, Typed
<1>1. CASE ResolveConflictsViaAgent(u, b)
  <2> DEFINE F == {g \in Undecided(x) : x.files[g].status = "conflict"}
             y == [x EXCEPT !.state = "resolving"]
  <2>1. /\ heap' = [heap EXCEPT ![s] = y]
        /\ Call(u, "resolver", b, s, [kind |-> "resolve", files |-> F], "none")
        /\ UNCHANGED <<main, head, tree, memory, row, record, hook, agent, turns, booting, crashes, env>>
    BY <1>1 DEF ResolveConflictsViaAgent, gitVars, agentVars
  <2>2. y.files = x.files
    BY <1>0 DEF SessionStates
  <2>3. heap'[s] = y
    BY <1>0, <2>1 DEF Typed, HeapOK
  <2>4. F \in SUBSET Files /\ "resolve" \in Kinds
    BY DEF Undecided, Kinds
  <2> HIDE DEF y
  <2>5. HandedOver(u, b, "resolve", F)
    BY <1>0, <2>1, <2>2, <2>3 DEF HandedOver
  <2> QED
    BY <2>4, <2>5
<1>2. ASSUME NEW f \in Files, RetryFileWithAgent(u, b, f)
      PROVE  \E kind \in Kinds, F \in SUBSET Files : HandedOver(u, b, kind, F)
  <2> DEFINE w == SetStatus(x, {f}, "agent_pending")
             y == [w EXCEPT !.base = tree[b].content]
  <2>1. /\ heap' = [heap EXCEPT ![s] = y]
        /\ Call(u, "resolver", b, s, [kind |-> "retry", files |-> {f}], "none")
        /\ UNCHANGED <<main, head, tree, memory, row, record, hook, agent, turns, booting, crashes, env>>
    BY <1>2 DEF RetryFileWithAgent, gitVars, agentVars
  <2>2. /\ w \in SessionStates
        /\ \A g \in Files :
             /\ w.files[g].diff = x.files[g].diff /\ w.files[g].decision = x.files[g].decision
             /\ w.files[g].status = IF g \in {f} THEN "agent_pending" ELSE x.files[g].status
    BY <1>0, SetStatusShape
  <2> HIDE DEF w
  <2>3. y.files = w.files /\ heap'[s] = y
    BY <1>0, <2>1, <2>2 DEF SessionStates, Typed, HeapOK
  <2> HIDE DEF y
  <2>4. HandedOver(u, b, "retry", {f})
    BY <1>0, <2>1, <2>2, <2>3 DEF HandedOver
  <2>5. {f} \in SUBSET Files /\ "retry" \in Kinds
    BY DEF Kinds
  <2> QED
    BY <2>4, <2>5
<1>3. ASSUME NEW G \in Batches, RetryFilesWithAgent(u, b, G)
      PROVE  \E kind \in Kinds, F \in SUBSET Files : HandedOver(u, b, kind, F)
  <2> DEFINE w == SetStatus(x, G, "agent_pending")
             y == [w EXCEPT !.state = "resolving", !.base = tree[b].content]
  <2>1. /\ heap' = [heap EXCEPT ![s] = y]
        /\ Call(u, "resolver", b, s, [kind |-> "batch", files |-> G], "none")
        /\ UNCHANGED <<main, head, tree, memory, row, record, hook, agent, turns, booting, crashes, env>>
    BY <1>3 DEF RetryFilesWithAgent, gitVars, agentVars
  <2>2. /\ w \in SessionStates
        /\ \A g \in Files :
             /\ w.files[g].diff = x.files[g].diff /\ w.files[g].decision = x.files[g].decision
             /\ w.files[g].status = IF g \in G THEN "agent_pending" ELSE x.files[g].status
    BY <1>0, SetStatusShape
  <2> HIDE DEF w
  <2>3. y.files = w.files /\ heap'[s] = y
    BY <1>0, <2>1, <2>2 DEF SessionStates, Typed, HeapOK
  <2> HIDE DEF y
  <2>4. HandedOver(u, b, "batch", G)
    BY <1>0, <2>1, <2>2, <2>3 DEF HandedOver
  <2>5. G \in SUBSET Files /\ "batch" \in Kinds
    BY MergeAssumption DEF Kinds
  <2> QED
    BY <2>4, <2>5
<1> QED
  BY <1>1, <1>2, <1>3

\* The stored session says of the files what the session says.
SavedAs(b, y) == row'[b] # None /\ row'[b].files = y.files /\ row'[b].state = y.state

LEMMA PersistShape ==
  ASSUME Typed, NEW y \in SessionStates, Persist(y)
  PROVE  SavedAs(y.branch, y)
<1>1. y.branch \in Branches /\ Stored(y) # None /\ Stored(y).files = y.files /\ Stored(y).state = y.state
  BY StoredShape, Placeholders DEF SessionStates
<1>2. row'[y.branch] = Stored(y)
  BY <1>1 DEF Persist, Typed, RowOK
<1> QED
  BY <1>1, <1>2 DEF SavedAs

LEMMA LoadShape ==
  ASSUME Typed, NEW b \in Branches, NEW x \in SessionStates, x.branch = b, Load(b, x)
  PROVE  SavedAs(b, x) /\ memory'[b] # 0 /\ heap'[memory'[b]] = x
<1> DEFINE n == NewSession
<1>1. n \in Sessions
  BY NewSessionFree DEF Load
<1> HIDE DEF n
<1>2. heap' = [heap EXCEPT ![n] = x] /\ Persist(x) /\ memory' = [memory EXCEPT ![b] = n]
  BY DEF Load, Store, n
<1>3. memory'[b] = n /\ heap'[n] = x
  BY <1>1, <1>2 DEF Typed, MemoryOK, HeapOK
<1> QED
  BY <1>1, <1>2, <1>3, PersistShape, ZeroNoSession

LEMMA AppliesShape ==
  ASSUME Typed, NEW u \in Users, ApplyFileDecision(u)
  PROVE  LET c == calls[u] IN
         /\ c.pc = "applying" /\ c # Idle /\ c.branch \in Branches /\ c.choice \in Decisions /\ Await(u, "applied")
         /\ c.session \in Sessions /\ u \in Callers
         /\ \A f \in c.files : CanApply(c.choice, tree[c.branch].content[f])
         /\ \A f \in Files : tree'[c.branch].content[f] = IF f \in c.files THEN Applied(c.choice, tree[c.branch].content[f])
                                                          ELSE tree[c.branch].content[f]
         /\ tree'[c.branch].merge = tree[c.branch].merge
         /\ \A b \in Branches : b # c.branch => tree'[b] = tree[b]
         /\ UNCHANGED <<main, head, heap, memory, row, record, hook, agent, turns, booting, crashes, env>>
<1> DEFINE c == calls[u]
           t == tree[c.branch]
           new == [f \in Files |-> IF f \in c.files THEN Applied(c.choice, t.content[f]) ELSE t.content[f]]
<1>1. /\ c.pc = "applying" /\ Await(u, "applied")
      /\ \A f \in c.files : CanApply(c.choice, tree[c.branch].content[f])
      /\ UNCHANGED <<main, head, heap, memory, row, record, hook, agent, turns, booting, crashes, env>>
      /\ tree' = [tree EXCEPT ![c.branch].content = new]
  BY DEF ApplyFileDecision, At, gitVars, agentVars
<1>2. /\ c # Idle /\ CallOK(u) /\ c.branch \in Branches /\ c.choice \in Decisions /\ c.session \in Sessions /\ u \in Callers
  BY <1>1, CallerHolds DEF Typed, Callers, Started, CallOK
<1>3. t \in [merge : BOOLEAN, into : SUBSET Commits, content : [Files -> Contents]]
  BY <1>2 DEF Typed, TreeOK
<1> HIDE DEF new
<1>4. /\ tree'[c.branch].content = new /\ tree'[c.branch].merge = t.merge
      /\ \A b \in Branches : b # c.branch => tree'[b] = tree[b]
  BY <1>1, <1>2, <1>3 DEF Typed, TreeOK
<1>5. \A f \in Files : tree'[c.branch].content[f] = IF f \in c.files THEN Applied(c.choice, tree[c.branch].content[f])
                                                 ELSE tree[c.branch].content[f]
  BY <1>4 DEF new
<1> QED
  BY <1>1, <1>2, <1>4, <1>5

LEMMA AppliedShape ==
  ASSUME Typed, NEW u \in Users, DecisionApplied(u)
  PROVE  LET c == calls[u]
             x == heap[c.session]
             y == heap'[c.session]
         IN /\ c.pc = "applied" /\ c # Idle /\ c.branch \in Branches /\ c.choice \in Decisions /\ Return(u)
            /\ y.state = x.state
            /\ \A f \in Files :
                 /\ y.files[f].decision = x.files[f].decision /\ y.files[f].diff = x.files[f].diff
                 /\ y.files[f].status = IF f \in c.files /\ x.files[f].status = "conflict"
                                           /\ c.choice \in {"keep_main", "use_branch"}
                                        THEN "agent_resolved" ELSE x.files[f].status
            /\ SavedAs(c.branch, y)
            /\ UNCHANGED <<main, head, tree, memory, record, hook, agent, turns, booting, crashes, env>>
<1> DEFINE c == calls[u]
           x == heap[c.session]
           S == {f \in c.files : x.files[f].status = "conflict" /\ c.choice \in {"keep_main", "use_branch"}}
           y == SetStatus(x, S, "agent_resolved")
<1>1. /\ c.pc = "applied" /\ Return(u) /\ heap' = [heap EXCEPT ![c.session] = y] /\ Persist(y)
      /\ UNCHANGED <<main, head, tree, memory, record, hook, agent, turns, booting, crashes, env>>
  BY DEF DecisionApplied, At, Store, gitVars, agentVars
<1>2. /\ c # Idle /\ CallOK(u) /\ c.branch \in Branches /\ x \in SessionStates
      /\ x.branch = c.branch /\ c.choice \in Decisions /\ c.session \in Sessions
  BY <1>1, CallerHolds DEF Typed, Callers, Started, CallOK
<1>3. /\ y \in SessionStates /\ y.branch = c.branch /\ y.state = x.state
      /\ \A f \in Files :
           /\ y.files[f].decision = x.files[f].decision /\ y.files[f].diff = x.files[f].diff
           /\ y.files[f].status = IF f \in c.files /\ x.files[f].status = "conflict"
                                     /\ c.choice \in {"keep_main", "use_branch"}
                                  THEN "agent_resolved" ELSE x.files[f].status
  <2>1. \A f \in Files : f \in S <=> f \in c.files /\ x.files[f].status = "conflict"
                                              /\ c.choice \in {"keep_main", "use_branch"}
    OBVIOUS
  <2> HIDE DEF S
  <2>2. /\ y \in SessionStates /\ y.branch = x.branch /\ y.state = x.state
        /\ \A f \in Files :
             /\ y.files[f].decision = x.files[f].decision /\ y.files[f].diff = x.files[f].diff
             /\ y.files[f].status = IF f \in S THEN "agent_resolved" ELSE x.files[f].status
    BY <1>2, SetStatusShape
  <2> HIDE DEF y
  <2> QED
    BY <1>2, <2>1, <2>2
<1> HIDE DEF y
<1>4. heap'[c.session] = y /\ SavedAs(c.branch, y)
  BY <1>1, <1>2, <1>3, PersistShape DEF Typed, HeapOK
<1> QED
  BY <1>1, <1>2, <1>3, <1>4

LEMMA AcceptedShape ==
  ASSUME Typed, NEW u \in Users, AcceptedOne(u)
  PROVE  LET c == calls[u]
             x == heap[c.session]
             y == heap'[c.session]
         IN /\ c.pc = "accepting" /\ c # Idle /\ c.branch \in Branches
            /\ UNCHANGED <<main, head, tree, memory, record, hook, agent, turns, booting, crashes, env>>
            /\ y.state = x.state
            /\ \A f \in Files : y.files[f].status = x.files[f].status /\ y.files[f].diff = x.files[f].diff
            /\ \/ Return(u) /\ y = x /\ SavedAs(c.branch, y)
               \/ /\ UNCHANGED row /\ calls'[u].pc = "accepting" /\ calls'[u].branch = c.branch
                  /\ calls'[u] # Idle /\ calls'[u].session = c.session
                  /\ \A d \in Callers : d # u => calls'[d] = calls[d]
                  /\ \E f \in Files : /\ x.files[f].decision = "pending" /\ y.files[f].decision = "accept"
                                      /\ \A g \in Files \ {f} : y.files[g].decision = x.files[g].decision
<1> DEFINE c == calls[u]
           x == heap[c.session]
           y == heap'[c.session]
<1>1. c.pc = "accepting" /\ UNCHANGED <<main, head, tree, memory, record, hook, agent, turns, booting, crashes, env>>
  BY DEF AcceptedOne, At, gitVars, agentVars
<1>2. /\ u \in Callers /\ c # Idle /\ c \in Calls /\ c.branch \in Branches /\ x \in SessionStates
      /\ x.branch = c.branch /\ c.session \in Sessions
  BY <1>1, CallerHolds DEF Typed, Callers, Started
<1>3. CASE Store(c.session, x) /\ Return(u)
  <2>1. y = x /\ SavedAs(c.branch, x)
    BY <1>2, <1>3, PersistShape DEF Store, Typed, HeapOK
  <2> QED
    BY <1>1, <1>2, <1>3, <2>1
<1>4. ASSUME NEW f \in Files, x.files[f].decision = "pending", heap' = [heap EXCEPT ![c.session].files[f].decision = "accept"],
             calls' = [calls EXCEPT ![u].files = {f}], UNCHANGED row
      PROVE  /\ y.state = x.state
             /\ \A g \in Files : y.files[g].status = x.files[g].status /\ y.files[g].diff = x.files[g].diff
             /\ calls'[u].pc = "accepting" /\ calls'[u].branch = c.branch
             /\ calls'[u] # Idle /\ calls'[u].session = c.session
             /\ \A d \in Callers : d # u => calls'[d] = calls[d]
             /\ y.files[f].decision = "accept"
             /\ \A g \in Files \ {f} : y.files[g].decision = x.files[g].decision
  <2> DEFINE z == [x EXCEPT !.files[f].decision = "accept"]
  <2>1. /\ z.state = x.state
        /\ \A g \in Files : z.files[g].status = x.files[g].status /\ z.files[g].diff = x.files[g].diff
        /\ z.files[f].decision = "accept"
        /\ \A g \in Files \ {f} : z.files[g].decision = x.files[g].decision
    BY <1>2 DEF SessionStates, FileStates
  <2>2. y = z
    BY <1>2, <1>4 DEF Typed, HeapOK
  <2> HIDE DEF z
  <2>3. /\ calls'[u].pc = "accepting" /\ calls'[u].branch = c.branch /\ calls'[u].session = c.session
        /\ \A d \in Callers : d # u => calls'[d] = calls[d]
    BY <1>1, <1>2, <1>4 DEF Typed, CallsOK, Calls
  <2>4. calls'[u] # Idle
    BY <2>3 DEF Idle
  <2> QED
    BY <2>1, <2>2, <2>3, <2>4
<1>5. \/ Store(c.session, x) /\ Return(u)
      \/ \E f \in Files : /\ x.files[f].decision = "pending" /\ heap' = [heap EXCEPT ![c.session].files[f].decision = "accept"]
                          /\ calls' = [calls EXCEPT ![u].files = {f}] /\ UNCHANGED row
  BY DEF AcceptedOne, Acceptable, Undecided
<1> QED
  BY <1>1, <1>2, <1>3, <1>4, <1>5

LEMMA FailsShape ==
  ASSUME Typed, NEW u \in Users, ResolverFails(u)
  PROVE  LET c == calls[u]
             x == heap[c.session]
             y == heap'[c.session]
         IN /\ c.pc \in {"resolver", "turn"} /\ c # Idle /\ c.branch \in Branches /\ Return(u)
            /\ y.state = "reviewing" /\ SavedAs(c.branch, y)
            /\ \A f \in Files :
                 /\ y.files[f].decision = x.files[f].decision /\ y.files[f].diff = x.files[f].diff
                 /\ y.files[f].status = IF c.kind # "resolve" /\ f \in c.files THEN "conflict" ELSE x.files[f].status
            /\ UNCHANGED <<main, head, tree, memory, record, hook, agent, turns, booting, crashes, env>>
<1> DEFINE c == calls[u]
           x == heap[c.session]
           F == IF c.kind = "resolve" THEN {} ELSE c.files
           w == SetStatus(x, F, "conflict")
           y == [w EXCEPT !.state = "reviewing", !.base = IF c.kind = "resolve" THEN @ ELSE None]
<1>1. /\ c.pc \in {"resolver", "turn"} /\ Return(u) /\ heap' = [heap EXCEPT ![c.session] = y] /\ Persist(y)
      /\ UNCHANGED <<main, head, tree, memory, record, hook, agent, turns, booting, crashes, env>>
  BY DEF ResolverFails, gitVars, agentVars, Store
<1>2. /\ c # Idle /\ c.branch \in Branches /\ x \in SessionStates /\ x.branch = c.branch /\ c.session \in Sessions
  BY <1>1, CallerHolds DEF Typed, Callers, Started
<1>3. /\ w \in SessionStates /\ w.branch = c.branch
      /\ \A f \in Files :
           /\ w.files[f].decision = x.files[f].decision /\ w.files[f].diff = x.files[f].diff
           /\ w.files[f].status = IF c.kind # "resolve" /\ f \in c.files THEN "conflict" ELSE x.files[f].status
  BY <1>2, SetStatusShape
<1> HIDE DEF w
<1>4. y \in SessionStates /\ y.branch = c.branch /\ y.state = "reviewing" /\ y.files = w.files
  BY <1>3 DEF SessionStates
<1> HIDE DEF y
<1>5. heap'[c.session] = y /\ SavedAs(c.branch, y)
  BY <1>1, <1>2, <1>4, PersistShape DEF Typed, HeapOK
<1> QED
  BY <1>1, <1>2, <1>3, <1>4, <1>5

LEMMA EnsureShape ==
  ASSUME Typed, NEW u \in Users, EnsureMergeResolver(u)
  PROVE  LET c == calls[u]
             x == heap[c.session]
             y == heap'[c.session]
         IN /\ c.pc = "resolver" /\ c # Idle /\ c.branch \in Branches /\ Await(u, "turn")
            /\ y.state = x.state /\ y.files = x.files
            /\ UNCHANGED <<main, head, tree, memory, row, hook, agent, turns, booting, crashes, env>>
<1> DEFINE c == calls[u]
           x == heap[c.session]
<1>1. c.pc = "resolver" /\ Await(u, "turn") 
      /\ UNCHANGED <<main, head, tree, memory, row, hook, agent, turns, booting, crashes, env>>
  BY DEF EnsureMergeResolver, At, gitVars
<1>2. c # Idle /\ c.branch \in Branches /\ x \in SessionStates /\ c.session \in Sessions
  BY <1>1, CallerHolds DEF Typed, Callers, Started
<1>3. PICK t \in Threads : heap' = [heap EXCEPT ![c.session].resolver = t]
  BY DEF EnsureMergeResolver
<1> DEFINE y == [x EXCEPT !.resolver = t]
<1>4. y.state = x.state /\ y.files = x.files /\ heap'[c.session] = y
  BY <1>2, <1>3 DEF SessionStates, Typed, HeapOK
<1> HIDE DEF y
<1> QED
  BY <1>1, <1>2, <1>4

\* A session whose resolver was not cut off is recovered as it was stored.
LEMMA RecoveredShape ==
  ASSUME Typed, NEW b \in Branches, row[b] # None
  PROVE  /\ row[b].state # "resolving" =>
              Recovered(row[b]).files = row[b].files /\ Recovered(row[b]).state = row[b].state
         /\ [row[b] EXCEPT !.state = "recovery_required", !.timer = TRUE].files = row[b].files
         /\ [row[b] EXCEPT !.state = "recovery_required", !.timer = TRUE].state = "recovery_required"
         /\ Resolved(row[b], tree[b]) => Resolved(Recovered(row[b]), tree[b])
<1> DEFINE x == row[b]
           Cut == {f \in Files : x.files[f].status = "agent_pending"}
           y == SetStatus(x, Cut, "conflict")
           Done == {f \in Undecided(y) : y.files[f].status = "conflict"}
           w == SetStatus(y, Done, "agent_resolved")
           z == IF Unmerged(x.branch) = {} THEN w ELSE y
<1>0. x \in SessionStates /\ x.branch = b
  BY DEF Typed, RowOK
<1>1. Recovered(x) = IF x.state = "resolving" THEN [z EXCEPT !.state = "reviewing", !.timer = TRUE]
                     ELSE [x EXCEPT !.timer = TRUE]
  BY DEF Recovered
<1>2. /\ y \in SessionStates
      /\ \A f \in Files : y.files[f].status = IF f \in Cut THEN "conflict" ELSE x.files[f].status
  BY <1>0, SetStatusShape
<1> HIDE DEF y
<1>3. /\ w \in SessionStates
      /\ \A f \in Files : w.files[f].status = IF f \in Done THEN "agent_resolved" ELSE y.files[f].status
  BY <1>2, SetStatusShape
<1>4. Resolved(x, tree[b]) => Resolved(z, tree[b])
  <2>1. Resolved(x, tree[b]) => Resolved(y, tree[b])
    BY <1>2 DEF Resolved
  <2>2. Unmerged(b) = {} => \A f \in Files : tree[b].content[f] # Unresolved
    BY DEF Unmerged
  <2>3. Unmerged(b) = {} => Resolved(w, tree[b])
    BY <2>2 DEF Resolved
  <2> HIDE DEF w
  <2> QED
    BY <1>0, <2>1, <2>3
<1>5. z \in SessionStates
  BY <1>2, <1>3
<1> HIDE DEF z, w, Done
<1>6. [z EXCEPT !.state = "reviewing", !.timer = TRUE].files = z.files
  BY <1>5 DEF SessionStates
<1>7. /\ [x EXCEPT !.timer = TRUE].files = x.files /\ [x EXCEPT !.timer = TRUE].state = x.state
      /\ [x EXCEPT !.state = "recovery_required", !.timer = TRUE].files = x.files
      /\ [x EXCEPT !.state = "recovery_required", !.timer = TRUE].state = "recovery_required"
  BY <1>0 DEF SessionStates
<1>8. Resolved(x, tree[b]) => Resolved(Recovered(x), tree[b])
  BY <1>1, <1>4, <1>6, <1>7 DEF Resolved
<1> QED
  BY <1>1, <1>7, <1>8

-----------------------------------------------------------------------------
(* What is called resolved is resolved                                     *)

LEMMA Contrasts ==
  /\ Ours # Unresolved /\ <<"main", 0>> # Unresolved /\ <<"gone", 0>> # Unresolved
  /\ \A n : <<"turn", n>> # Unresolved
  /\ \A choice \in Decisions : \A content : CanApply(choice, content) => Applied(choice, content) # Unresolved
<1>1. Ours # Unresolved /\ <<"main", 0>> # Unresolved /\ <<"gone", 0>> # Unresolved
  BY DEF Ours, Unresolved
<1>2. \A n : <<"turn", n>> # Unresolved
  BY DEF Unresolved
<1>3. \A choice \in Decisions : \A content : CanApply(choice, content) => Applied(choice, content) # Unresolved
  BY <1>1 DEF Applied, CanApply, Decisions
<1> QED
  BY <1>1, <1>2, <1>3

\* The branches that are not under review have nothing to be resolved.
LEMMA TruthOne ==
  ASSUME Ordered', NEW b \in Branches, UnderReview(b)',
         memory'[b] # 0 => Resolved(heap'[memory'[b]], tree'[b]), row'[b] # None => Resolved(row'[b], tree'[b])
  PROVE  Truth'
<1>1. \A x \in Branches : UnderReview(x)' => x = b
  BY DEF Ordered, One
<1> QED
  BY <1>1 DEF Truth, MapResolved, RowResolved, UnderReview

\* The session of the review changes, and maybe its row with it.
LEMMA TruthChanges ==
  ASSUME Ordered', Truth, UNCHANGED <<memory, tree>>, NEW b \in Branches, memory[b] # 0,
         \A f \in Files : heap'[memory[b]].files[f].status = "agent_resolved"
                            => heap[memory[b]].files[f].status = "agent_resolved",
         UNCHANGED row \/ SavedAs(b, heap'[memory[b]])
  PROVE  Truth'
<1>1. Resolved(heap'[memory[b]], tree[b])
  BY DEF Truth, MapResolved, Resolved
<1>2. row'[b] # None => Resolved(row'[b], tree[b])
  BY <1>1 DEF SavedAs, Resolved, Truth, RowResolved
<1> QED
  BY <1>1, <1>2, TruthOne DEF UnderReview

\* Nothing changes but what is no part of a session's files.
LEMMA TruthSame ==
  ASSUME Truth, UNCHANGED <<memory, tree, row>>,
         \A b \in Branches : memory[b] # 0 => heap'[memory[b]].files = heap[memory[b]].files
  PROVE  Truth'
BY DEF Truth, MapResolved, RowResolved, Resolved

\* There is no review.
LEMMA TruthNone ==
  ASSUME \A b \in Branches : memory'[b] = 0 /\ row'[b] = None
  PROVE  Truth'
BY DEF Truth, MapResolved, RowResolved

\* A worktree without a conflict fits every session.
LEMMA TruthClean ==
  ASSUME Typed, Truth, NEW b \in Branches, tree' = [tree EXCEPT ![b] = Clean], UNCHANGED <<memory, row, heap>>
  PROVE  Truth'
<1>1. \A x \in Branches : tree'[x] = IF x = b THEN Clean ELSE tree[x]
  BY DEF Typed, TreeOK
<1>2. \A f \in Files : Clean.content[f] # Unresolved
  BY Contrasts DEF Clean
<1> QED
  BY <1>1, <1>2 DEF Truth, MapResolved, RowResolved, Resolved

LEMMA TruthBegin ==
  ASSUME Typed, InTurn, Ordered, Ordered', Truth, NEW u \in Users, NEW b \in Branches,
         \/ \E f \in Files : RetryFileWithAgent(u, b, f) \/ \E d \in Choices : DecideFile(u, b, f, d)
         \/ AcceptAllRemaining(u, b) \/ ResolveConflictsViaAgent(u, b)
         \/ \E F \in Batches : RetryFilesWithAgent(u, b, F)
  PROVE  Truth'
<1> DEFINE x == heap[memory[b]]
           y == heap'[memory[b]]
<1>1. /\ Opened(u, b) /\ UNCHANGED <<memory, tree, row>>
      /\ \A f \in Files : y.files[f].status = "agent_resolved" => x.files[f].status = "agent_resolved"
  <2>1. CASE \E f \in Files, d \in Choices : DecideFile(u, b, f, d)
    BY <2>1, DecideShape
  <2>2. CASE AcceptAllRemaining(u, b)
    BY <2>2, AcceptShape
  <2>3. CASE \E kind \in Kinds, F \in SUBSET Files : HandedOver(u, b, kind, F)
    BY <2>3 DEF HandedOver
  <2> QED
    BY <2>1, <2>2, <2>3, HandShape
<1>2. memory[b] # 0
  BY <1>1 DEF Opened
<1> QED
  BY <1>1, <1>2, TruthChanges

LEMMA TruthCreate ==
  ASSUME Typed, Ordered', NEW u \in Users, CreateSession(u)
  PROVE  Truth'
<1> DEFINE b == calls[u].branch
           n == NewSession
           x == [branch |-> b, state |-> "reviewing", resolver |-> 0, timer |-> TRUE, base |-> None, files |->
                 [f \in Files |-> [status |-> IF f \in Conflicting THEN "conflict" ELSE "auto_merged",
                                   decision |-> "pending", diff |-> tree[b].content[f]]]]
<1>1. /\ memory' = [memory EXCEPT ![b] = n] /\ heap' = [heap EXCEPT ![n] = x] /\ Persist(x)
      /\ UNCHANGED tree
  BY DEF CreateSession, Store
<1>2. n \in Sessions /\ b \in Branches
  BY CallerHolds, NewSessionFree DEF CreateSession, At, Callers, Typed
<1>3. x.branch = b /\ \A f \in Files : x.files[f].status # "agent_resolved"
  OBVIOUS
<1>4. Stored(x).files = x.files
  BY DEF Stored
<1> HIDE DEF x, n
<1>5. memory'[b] = n /\ heap'[n] = x /\ row'[b] = Stored(x) /\ n # 0
  BY <1>1, <1>2, <1>3, ZeroNoSession DEF Persist, Typed, HeapOK, MemoryOK, RowOK
<1> QED
  BY <1>2, <1>3, <1>4, <1>5, TruthOne DEF Resolved, UnderReview

LEMMA TruthLoads ==
  ASSUME Typed, Ordered', Truth, NEW b \in Branches, row[b] # None, NEW x \in SessionStates, x.branch = b, Load(b, x),
         UNCHANGED tree, Resolved(x, tree[b])
  PROVE  Truth'
<1>1. SavedAs(b, x) /\ memory'[b] # 0 /\ heap'[memory'[b]] = x
  BY LoadShape
<1> QED
  BY <1>1, TruthOne DEF Resolved, UnderReview, SavedAs

LEMMA TruthGet ==
  ASSUME Typed, Ordered', Truth, NEW u \in Users, NEW b \in Branches, GetMergeReview(u, b)
  PROVE  Truth'
<1> DEFINE w == [row[b] EXCEPT !.state = "recovery_required", !.timer = TRUE]
<1>1. row[b] # None /\ UNCHANGED tree /\ (Load(b, Recovered(row[b])) \/ Load(b, w)) /\ Resolved(row[b], tree[b])
  BY DEF GetMergeReview, Truth, RowResolved
<1>2. row[b] \in SessionStates /\ row[b].branch = b
  BY <1>1 DEF Typed, RowOK
<1>3. /\ Resolved(w, tree[b]) /\ Resolved(Recovered(row[b]), tree[b])
  BY <1>1, RecoveredShape DEF Resolved
<1>4. w \in SessionStates /\ w.branch = b
  BY <1>2 DEF SessionStates
<1>5. Recovered(row[b]) \in SessionStates /\ Recovered(row[b]).branch = b
  BY <1>2, RecoveredTyped
<1> QED
  BY <1>1, <1>3, <1>4, <1>5, TruthLoads

LEMMA TruthRecover ==
  ASSUME Typed, Ordered', Truth, NEW b \in Branches, RecoverSession(b)
  PROVE  Truth'
<1>1. row[b] # None /\ UNCHANGED tree /\ row[b] \in SessionStates /\ row[b].branch = b /\ Resolved(row[b], tree[b])
  BY DEF RecoverSession, Typed, BootOK, RowOK, Truth, RowResolved
<1>2. CASE Load(b, Recovered(row[b]))
  <2>1. Recovered(row[b]) \in SessionStates /\ Recovered(row[b]).branch = b
    BY <1>1, RecoveredTyped
  <2> QED
    BY <1>1, <1>2, <2>1, RecoveredShape, TruthLoads
<1>3. CASE row' = [row EXCEPT ![b].state = "recovery_required"] /\ UNCHANGED <<heap, memory>>
  <2>1. row'[b].files = row[b].files /\ \A x \in Branches : x # b => row'[x] = row[x]
    BY <1>1, <1>3 DEF Typed, RowOK, SessionStates
  <2>2. MapResolved'
    BY <1>1, <1>3 DEF Truth, MapResolved
  <2>3. RowResolved'
    BY <1>1, <2>1 DEF Truth, RowResolved, Resolved
  <2> QED
    BY <2>2, <2>3 DEF Truth
<1> QED
  BY <1>2, <1>3 DEF RecoverSession

LEMMA TruthApplies ==
  ASSUME Typed, Ordered, Ordered', Truth, NEW u \in Users, ApplyFileDecision(u)
  PROVE  Truth'
<1>1. /\ calls[u].branch \in Branches /\ UNCHANGED <<heap, memory, row>>
      /\ \A f \in Files : tree'[calls[u].branch].content[f] # Unresolved
                           \/ tree'[calls[u].branch].content[f] = tree[calls[u].branch].content[f]
      /\ \A b \in Branches : b # calls[u].branch => tree'[b] = tree[b]
  BY AppliesShape, Contrasts
<1> QED
  BY <1>1 DEF Truth, MapResolved, RowResolved, Resolved

LEMMA TruthApplied ==
  ASSUME Typed, Ordered, Ordered', Truth, TakesSides, NEW u \in Users, DecisionApplied(u)
  PROVE  Truth'
<1> DEFINE c == calls[u]
           b == c.branch
           x == heap[c.session]
           y == heap'[c.session]
<1>1. /\ c.pc = "applied" /\ c # Idle /\ b \in Branches
      /\ \A f \in Files : y.files[f].status = IF f \in c.files /\ x.files[f].status = "conflict"
                                                  /\ c.choice \in {"keep_main", "use_branch"}
                                               THEN "agent_resolved" ELSE x.files[f].status
      /\ SavedAs(b, y) /\ UNCHANGED <<memory, tree>>
  BY AppliedShape
<1>2. memory[b] = c.session /\ memory[b] # 0
  BY <1>1, Alone DEF Callers, Started
<1>3. c.choice \in {"keep_main", "use_branch"} => \A f \in c.files : tree[b].content[f] # Unresolved
  BY <1>1 DEF TakesSides, At
<1>4. Resolved(x, tree[b])
  BY <1>1, <1>2 DEF Truth, MapResolved
<1>5. Resolved(y, tree'[b])
  BY <1>1, <1>3, <1>4 DEF Resolved
<1>6. row'[b] # None /\ Resolved(row'[b], tree'[b])
  BY <1>1, <1>5 DEF SavedAs, Resolved
<1> QED
  BY <1>1, <1>2, <1>5, <1>6, TruthOne DEF UnderReview

LEMMA TruthContinue ==
  ASSUME Typed, Ordered, Ordered', Truth, NEW u \in Users,
         \/ AcceptedOne(u) \/ EnsureMergeResolver(u) \/ ResolverFails(u) \/ ResolverTurnStarted(u) \/ InterruptResolver(u)
  PROVE  Truth'
<1> DEFINE c == calls[u]
           b == c.branch
           x == heap[c.session]
           y == heap'[c.session]
<1>1. /\ c.pc \notin Started /\ c.pc # "idle" /\ UNCHANGED <<memory, tree>>
      /\ UNCHANGED row \/ Persist(y) \/ SavedAs(b, y)
      /\ \A f \in Files : y.files[f].status = "agent_resolved" => x.files[f].status = "agent_resolved"
  <2>1. CASE AcceptedOne(u)
    BY <2>1, AcceptedShape DEF Started
  <2>2. CASE EnsureMergeResolver(u)
    BY <2>2, EnsureShape DEF Started
  <2>3. CASE ResolverFails(u)
    BY <2>3, FailsShape DEF Started
  <2>4. CASE ResolverTurnStarted(u) \/ InterruptResolver(u)
    BY <2>4 DEF ResolverTurnStarted, InterruptResolver, gitVars, At, Started
  <2> QED
    BY <2>1, <2>2, <2>3, <2>4
<1>2. /\ u \in Callers /\ c # Idle /\ b \in Branches /\ x \in SessionStates /\ x.branch = b /\ c.session \in Sessions
  BY <1>1, CallerHolds DEF Callers, Typed
<1>3. memory[b] = c.session /\ memory[b] # 0
  BY <1>1, <1>2, Alone
<1>4. UNCHANGED row \/ SavedAs(b, y)
  <2>1. CASE ResolverTurnStarted(u) \/ InterruptResolver(u)
    BY <1>2, <2>1, PersistShape DEF ResolverTurnStarted, InterruptResolver
  <2> QED
    BY <2>1, AcceptedShape, EnsureShape, FailsShape
<1> QED
  BY <1>1, <1>2, <1>3, <1>4, TruthChanges

LEMMA TruthWrites ==
  ASSUME Typed, Ordered, Truth, NEW b \in Branches, ResolverWrites(b)
  PROVE  Truth'
<1> PICK f \in IF "stray" \in env THEN Files ELSE agent[b].files :
      tree' = [tree EXCEPT ![b].content[f] = <<"turn", agent[b].turn>>]
  BY DEF ResolverWrites
<1>1. /\ UNCHANGED <<memory, heap, row>>
  BY DEF ResolverWrites
<1>2. \A x \in Branches, g \in Files : tree'[x].content[g] # Unresolved \/ tree'[x].content[g] = tree[x].content[g]
  BY Contrasts DEF Typed, TreeOK
<1> QED
  BY <1>1, <1>2 DEF Truth, MapResolved, RowResolved, Resolved

LEMMA TruthChecks ==
  ASSUME Typed, Ordered, Truth, HookChecks
  PROVE  Truth'
<1> DEFINE c == calls[Hook]
           b == c.branch
           x == heap[c.session]
<1>1. /\ c # Idle /\ b \in Branches /\ x \in SessionStates /\ c.session \in Sessions /\ Hook \in Callers
      /\ c.pc = "checking" /\ UNCHANGED <<tree, memory, row>>
      /\ UNCHANGED heap \/ heap' = [heap EXCEPT ![c.session] = Inspected(x, c.kind, c.files, b)]
  BY ChecksShape
<1>2. CASE UNCHANGED heap
  BY <1>1, <1>2, TruthSame
<1>3. CASE heap' = [heap EXCEPT ![c.session] = Inspected(x, c.kind, c.files, b)]
  <2>1. memory[b] = c.session /\ memory[b] # 0 /\ \A y \in Branches : UnderReview(y) => y = b
    BY <1>1, Alone DEF Started
  <2>2. heap'[c.session].files = Checked(x, c.kind, c.files, b)
    BY <1>1, <1>3, InspectedTyped DEF Typed, HeapOK
  <2>3. Resolved(x, tree[b])
    BY <1>1, <2>1 DEF Truth, MapResolved
  <2>4. \A f \in Files : x.files[f] \in FileStates
    BY <1>1 DEF SessionStates
  <2>5. \A f \in Files : Checked(x, c.kind, c.files, b)[f].status = "agent_resolved" => tree[b].content[f] # Unresolved
    BY <2>3, <2>4 DEF Checked, Resolved, Unmerged, FileStates
  <2>6. Resolved(heap'[memory[b]], tree[b])
    BY <2>1, <2>2, <2>5 DEF Resolved
  <2>7. MapResolved'
    BY <1>1, <2>1, <2>6 DEF MapResolved, UnderReview
  <2> QED
    BY <1>1, <2>7 DEF Truth, RowResolved
<1> QED
  BY <1>1, <1>2, <1>3

LEMMA TruthRefreshes ==
  ASSUME Typed, Ordered, Ordered', Truth, HookRefreshes
  PROVE  Truth'
<1> DEFINE c == calls[Hook]
           b == c.branch
           x == heap[c.session]
           y == Refreshed(c, x)
<1>1. /\ c # Idle /\ b \in Branches /\ x \in SessionStates /\ c.session \in Sessions /\ Hook \in Callers
      /\ c.pc = "refreshing" /\ UNCHANGED <<tree, memory>> /\ Store(c.session, y) /\ x.branch = b
  BY RefreshesShape
<1>2. memory[b] = c.session /\ memory[b] # 0
  BY <1>1, Alone DEF Started
<1>3. /\ y \in SessionStates /\ y.branch = b
      /\ \A f \in Files : y.files[f].status = IF f \in RefreshedBad(c) THEN "conflict"
                                              ELSE IF f \in RefreshedGood(c) THEN "agent_resolved" ELSE x.files[f].status
  BY <1>1, RefreshedShape
<1>4. Resolved(x, tree[b])
  BY <1>1, <1>2 DEF Truth, MapResolved
<1>5. \A f \in Files : f \in RefreshedGood(c) => tree[b].content[f] # Unresolved
  BY DEF RefreshedGood, RefreshedBad, Unmerged
<1> HIDE DEF y
<1>6. Resolved(y, tree[b])
  BY <1>3, <1>4, <1>5 DEF Resolved
<1>7. heap'[c.session] = y /\ SavedAs(b, y)
  BY <1>1, <1>3, PersistShape DEF Store, Typed, HeapOK
<1>8. Resolved(row'[b], tree[b])
  BY <1>6, <1>7 DEF SavedAs, Resolved
<1> QED
  BY <1>1, <1>2, <1>6, <1>7, <1>8, TruthOne DEF UnderReview

\* The review that ends was the only one.
LEMMA ForgottenAll ==
  ASSUME Typed, Ordered, NEW c \in Callers, calls[c] # Idle, calls[c].pc \notin Started,
         ForgetSession(c, calls[c].branch)
  PROVE  \A b \in Branches : memory'[b] = 0 /\ row'[b] = None
<1>1. \A b \in Branches : UnderReview(b) => b = calls[c].branch
  BY Alone
<1>2. \A y \in Branches : /\ memory'[y] = IF y = calls[c].branch THEN 0 ELSE memory[y]
                          /\ row'[y] = IF y = calls[c].branch THEN None ELSE row[y]
  BY DEF Typed, MemoryOK, RowOK, ForgetSession
<1> QED
  BY <1>1, <1>2 DEF UnderReview

LEMMA TruthEnds ==
  ASSUME Typed, Ordered, ExpireSession \/ \E u \in Users : EndReview(u)
  PROVE  Truth'
<1>1. PICK c \in Callers : /\ calls[c].pc \in {"aborting", "ending", "closing"}
                           /\ ForgetSession(c, calls[c].branch)
  BY DEF ExpireSession, EndReview, At, Callers
<1>2. calls[c].pc # "idle" /\ calls[c].pc \notin Started
  BY <1>1 DEF Started
<1>3. calls[c] # Idle
  BY <1>2, CallerHolds DEF Typed
<1> QED
  BY <1>1, <1>2, <1>3, ForgottenAll, TruthNone

LEMMA TruthTimesOut ==
  ASSUME Typed, Truth, NEW s \in Sessions, SessionTimesOut(s)
  PROVE  Truth'
<1>1. heap[s] \in SessionStates /\ heap' = [heap EXCEPT ![s].timer = FALSE] /\ UNCHANGED <<memory, tree, row>>
  BY DEF SessionTimesOut, Typed, HeapOK
<1>2. \A b \in Branches : memory[b] # 0 => heap'[memory[b]].files = heap[memory[b]].files
  BY <1>1 DEF Typed, HeapOK, MemoryOK, SessionStates
<1> QED
  BY <1>1, <1>2, TruthSame

LEMMA TruthNext ==
  Typed /\ InTurn /\ Ordered /\ Ordered' /\ Truth /\ TakesSides /\ [Next]_vars => Truth'
<1> SUFFICES ASSUME Typed, InTurn, Ordered, Ordered', Truth, TakesSides, [Next]_vars
             PROVE  Truth'
  OBVIOUS
<1>1. CASE UNCHANGED <<memory, tree, row, heap>>
  BY <1>1, TruthSame
<1>2. ASSUME NEW u \in Users, NEW b \in Branches, Begin(u, b)
      PROVE  Truth'
  <2>1. CASE StartMergeReview(u, b) \/ CommitMergeReview(u, b) \/ CancelMergeReview(u, b)
    BY <1>1, <2>1 DEF StartMergeReview, CommitMergeReview, CancelMergeReview
  <2> QED
    BY <1>2, <2>1, TruthGet, TruthBegin DEF Begin
<1>3. ASSUME NEW u \in Users, Continue(u)
      PROVE  Truth'
  <2>1. CASE StartMergeSession(u)
    <3>1. At(u, "starting") /\ UNCHANGED <<memory, row>>
      BY <2>1 DEF StartMergeSession
    <3>2. calls[u] # Idle
      BY <3>1 DEF At, Idle
    <3>3. \A b \in Branches : row[b] = None /\ memory[b] = 0
      BY <3>1, <3>2, Alone DEF At, Started, Callers
    <3> QED
      BY <3>1, <3>3, TruthNone
  <2>2. CASE CreateRefused(u) \/ DecisionRefused(u) \/ CommitRefused(u) \/ LandReview(u)
    BY <1>1, <2>2 DEF CreateRefused, DecisionRefused, CommitRefused, LandReview
  <2>3. CASE CommitMergeSession(u) \/ RestoreWorktree(u)
    <3>1. At(u, "committing") \/ At(u, "restoring")
      BY <2>3 DEF CommitMergeSession, RestoreWorktree
    <3>2. calls[u].branch \in Branches
      BY <3>1, CallerHolds DEF At, Typed, Callers
    <3> QED
      BY <2>3, <3>2, TruthClean DEF CommitMergeSession, RestoreWorktree
  <2> QED
    BY <1>3, <2>1, <2>2, <2>3, TruthCreate, TruthApplies, TruthApplied, TruthContinue, TruthEnds DEF Continue
<1>4. ASSUME NEW b \in Branches, Resolver(b) \/ HandleMerge(b) \/ RecoverSession(b)
      PROVE  Truth'
  <2>1. CASE ResolverTurnEnds(b) \/ ResolverTurnStopped(b) \/ HandleMerge(b)
    BY <1>1, <2>1 DEF ResolverTurnEnds, ResolverTurnStopped, HandleMerge
  <2> QED
    BY <1>4, <2>1, TruthWrites, TruthRecover DEF Resolver
<1>5. CASE Crash
  BY <1>5 DEF Crash, Truth, MapResolved, RowResolved
<1>6. CASE UNCHANGED vars
  BY <1>1, <1>6 DEF vars
<1> QED
  BY <1>2, <1>3, <1>4, <1>5, <1>6, TruthChecks, TruthRefreshes, TruthTimesOut, TruthEnds DEF Next

LEMMA SidesNone ==
  ASSUME \A v \in Users : calls'[v].pc # "applied"
  PROVE  TakesSides'
BY DEF TakesSides, At

LEMMA SidesStay ==
  ASSUME TakesSides, UNCHANGED tree, \A v \in Users : calls'[v].pc = "applied" => calls'[v] = calls[v]
  PROVE  TakesSides'
BY DEF TakesSides, At

LEMMA SidesBegin ==
  ASSUME Typed, TakesSides, NEW u \in Users, NEW b \in Branches, Begin(u, b)
  PROVE  TakesSides'
<1>1. ASSUME NEW pc \in UserPoints \ {"applied"}, NEW s, NEW job, NEW choice, Call(u, pc, b, s, job, choice), UNCHANGED tree
      PROVE  TakesSides'
  <2>1. calls'[u].pc = pc /\ \A v \in Users : v # u => calls'[v] = calls[v]
    BY <1>1 DEF Call, Typed, CallsOK, Callers
  <2> QED
    BY <1>1, <2>1, SidesStay
<1>2. CASE StartMergeReview(u, b)
  BY <1>1, <1>2 DEF StartMergeReview, UserPoints
<1>3. CASE GetMergeReview(u, b)
  BY <1>3, SidesStay DEF GetMergeReview
<1>4. CASE CommitMergeReview(u, b)
  BY <1>1, <1>4 DEF CommitMergeReview, UserPoints
<1>5. CASE CancelMergeReview(u, b)
  BY <1>1, <1>5 DEF CancelMergeReview, UserPoints
<1>6. CASE \E f \in Files, d \in Choices : DecideFile(u, b, f, d)
  BY <1>1, <1>6 DEF DecideFile, UserPoints
<1>7. CASE AcceptAllRemaining(u, b)
  BY <1>1, <1>7 DEF AcceptAllRemaining, UserPoints
<1>8. CASE \E kind \in Kinds, F \in SUBSET Files : HandedOver(u, b, kind, F)
  BY <1>1, <1>8 DEF HandedOver, UserPoints
<1> QED
  BY <1>2, <1>3, <1>4, <1>5, <1>6, <1>7, <1>8, HandShape DEF Begin

LEMMA SidesContinue ==
  ASSUME Typed, Ordered, NEW u \in Users, Continue(u)
  PROVE  TakesSides'
<1>1. u \in Callers /\ calls[u].pc # "idle"
  BY DEF Continue, StartMergeSession, CreateSession, CreateRefused, ApplyFileDecision, DecisionApplied, DecisionRefused,
         AcceptedOne, EnsureMergeResolver, ResolverTurnStarted, ResolverFails, CommitMergeSession, CommitRefused,
         LandReview, EndReview, InterruptResolver, RestoreWorktree, At, Callers
<1>2. calls[u] # Idle
  BY <1>1, CallerHolds DEF Typed
<1>3. \A d \in Users : d # u => calls[d].pc = "idle"
  BY <1>1, <1>2, Alone DEF Callers, Idle
<1>4. CASE ApplyFileDecision(u)
  <2>1. /\ calls[u].branch \in Branches /\ calls[u].choice \in Decisions /\ Await(u, "applied")
        /\ \A f \in calls[u].files : CanApply(calls[u].choice, tree[calls[u].branch].content[f])
        /\ \A f \in Files : f \in calls[u].files =>
             tree'[calls[u].branch].content[f] = Applied(calls[u].choice, tree[calls[u].branch].content[f])
    BY <1>4, AppliesShape
  <2>2. /\ calls'[u].branch = calls[u].branch /\ calls'[u].files = calls[u].files /\ calls'[u].choice = calls[u].choice
        /\ \A d \in Callers : d # u => calls'[d] = calls[d]
    BY <1>1, <1>2, <2>1, FollowsAwait DEF Started
  <2>3. calls[u].files \subseteq Files
    BY <1>1, CallerHolds DEF Typed, Calls
  <2>4. \A f \in calls[u].files : tree'[calls[u].branch].content[f] # Unresolved
    BY <2>1, <2>3, Contrasts
  <2> QED
    BY <1>3, <2>2, <2>4 DEF TakesSides, At, Callers
<1>5. CASE \E pc : pc # "applied" /\ Await(u, pc)
  <2> PICK pc : pc # "applied" /\ Await(u, pc)
    BY <1>5
  <2>1. calls'[u].pc = pc /\ \A d \in Users : d # u => calls'[d] = calls[d]
    BY <1>1 DEF Await, Typed, CallsOK, CallOK, Calls, Callers
  <2> QED
    BY <1>3, <2>1, SidesNone
<1>6. CASE Return(u)
  BY <1>1, <1>3, <1>6, FollowsReturn, SidesNone DEF Idle, Callers
<1>7. CASE AcceptedOne(u)
  <2>1. Return(u) \/ (calls'[u].pc = "accepting" /\ \A d \in Callers : d # u => calls'[d] = calls[d])
    BY <1>7, AcceptedShape
  <2> QED
    BY <1>3, <1>6, <2>1, SidesNone DEF Callers
<1> QED
  BY <1>4, <1>5, <1>6, <1>7
  DEF Continue, StartMergeSession, CreateSession, CreateRefused, DecisionApplied, DecisionRefused,
      EnsureMergeResolver, ResolverTurnStarted, ResolverFails, CommitMergeSession, CommitRefused,
      LandReview, EndReview, InterruptResolver, RestoreWorktree

\* A side is called taken once the worktree has it.
LEMMA SidesNext ==
  Typed /\ InTurn /\ Ordered /\ TakesSides /\ [Next]_vars => TakesSides'
<1> SUFFICES ASSUME Typed, InTurn, Ordered, TakesSides, [Next]_vars
             PROVE  TakesSides'
  OBVIOUS
<1>1. ASSUME NEW c \in Callers, calls[c] # Idle, c \notin Users, \A u \in Users : calls'[u] = calls[u]
      PROVE  TakesSides'
  BY <1>1, Alone, SidesNone DEF Callers, Idle
<1>2. ASSUME NEW b \in Branches, Resolver(b)
      PROVE  TakesSides'
  <2>1. agent[b] # None /\ \A u \in Users : calls'[u] = calls[u]
    BY <1>2, MergeAssumption DEF Resolver, ResolverWrites, ResolverTurnEnds, ResolverTurnStopped, Call, Typed, CallsOK, Callers
  <2>2. \A u \in Users : calls[u] = Idle
    BY <2>1 DEF Ordered, AgentAlone, Callers
  <2> QED
    BY <2>1, <2>2, SidesNone DEF Idle
<1>3. ASSUME NEW b \in Branches, HandleMerge(b) \/ RecoverSession(b)
      PROVE  TakesSides'
  BY <1>3, SidesStay DEF HandleMerge, RecoverSession
<1>4. CASE HookChecks \/ HookRefreshes
  <2>1. Hook \in Callers /\ Hook \notin Users /\ calls[Hook].pc # "idle"
    BY <1>4, MergeAssumption DEF HookChecks, HookRefreshes, At, Callers
  <2>2. \A u \in Users : calls'[u] = calls[u]
    BY <1>4, MergeAssumption DEF HookChecks, HookRefreshes, Return, Typed, CallsOK, Callers
  <2> QED
    BY <1>1, <2>1, <2>2, CallerHolds DEF Typed
<1>5. ASSUME NEW s \in Sessions, SessionTimesOut(s)
      PROVE  TakesSides'
  <2>1. UNCHANGED tree /\ \A u \in Users : calls'[u] = calls[u]
    BY <1>5, MergeAssumption DEF SessionTimesOut, Call, Typed, CallsOK, Callers
  <2> QED
    BY <2>1, SidesStay
<1>6. CASE ExpireSession
  <2>1. Timer \in Callers \ Users /\ calls[Timer] # Idle /\ \A u \in Users : calls'[u] = calls[u]
    BY <1>6, MergeAssumption DEF ExpireSession, At, Idle, Return, Typed, CallsOK, Callers
  <2> QED
    BY <1>1, <2>1
<1>7. CASE Crash
  BY <1>7, SidesNone DEF Crash, Idle, Callers
<1>8. CASE UNCHANGED vars
  BY <1>8, SidesStay DEF vars
<1> QED
  BY <1>2, <1>3, <1>4, <1>5, <1>6, <1>7, <1>8, SidesBegin, SidesContinue DEF Next

-----------------------------------------------------------------------------
(* A merge belongs to a review                                             *)

Closings == {"committing", "landing", "ending", "closing"}

LEMMA MergesKeep ==
  ASSUME Merges, UNCHANGED env, \A b \in Branches : tree'[b].merge => tree[b].merge,
         \A b \in Branches : UnderReview(b) => UnderReview(b)',
         \A u \in Users : At(u, "creating") => calls'[u] = calls[u],
         \A u \in Users : calls'[u].pc \in Closings => UNCHANGED tree /\ calls'[u] = calls[u]
  PROVE  Merges'
<1>1. MergeHeld'
  BY DEF Merges, MergeHeld, UnderReview, At
<1>2. CommitsClean'
  BY DEF Merges, CommitsClean, Closings, At, Unmerged
<1>3. MergeOver'
  BY DEF Merges, MergeOver, Closings
<1> QED
  BY <1>1, <1>2, <1>3 DEF Merges

\* A call on a review leaves it in the map.
LEMMA ReviewStays ==
  ASSUME Typed, Ordered, NEW c \in Callers, calls[c] # Idle, calls[c].pc \notin Started, UNCHANGED memory
  PROVE  \A b \in Branches : UnderReview(b) => UnderReview(b)'
<1>1. memory[calls[c].branch] # 0 /\ \A b \in Branches : UnderReview(b) => b = calls[c].branch
  BY Alone
<1> QED
  BY <1>1 DEF UnderReview

LEMMA MergesBegin ==
  ASSUME Typed, InTurn, Ordered, Merges, UNCHANGED env, NEW u \in Users, NEW b \in Branches, Begin(u, b)
  PROVE  Merges'
<1> HIDE DEF Merges
<1>1. ASSUME NEW pc \in UserPoints, NEW s, NEW job, NEW choice, Call(u, pc, b, s, job, choice),
             calls[u] = Idle, UNCHANGED <<tree, memory, row>>, pc = "committing" => Unmerged(b) = {},
             pc \notin {"landing", "ending", "closing"}
      PROVE  Merges'
  <2>1. calls'[u].pc = pc /\ calls'[u].branch = b /\ \A v \in Users : v # u => calls'[v] = calls[v]
    BY <1>1 DEF Call, Typed, CallsOK, Callers
  <2>2. ~ At(u, "creating")
    BY <1>1 DEF At, Idle
  <2>3. MergeHeld'
    BY <1>1, <2>1, <2>2 DEF Merges, MergeHeld, At
  <2>4. CommitsClean'
    BY <1>1, <2>1 DEF Merges, CommitsClean, At, Unmerged
  <2>5. MergeOver'
    BY <1>1, <2>1 DEF Merges, MergeOver
  <2> QED
    BY <2>3, <2>4, <2>5 DEF Merges
<1>2. CASE StartMergeReview(u, b)
  BY <1>1, <1>2 DEF StartMergeReview, Ready, UserPoints
<1>3. CASE GetMergeReview(u, b)
  <2>1. /\ UNCHANGED <<tree, calls>> /\ \A x \in Branches : calls[u] = Idle
        /\ \E x : Load(b, x)
    BY <1>3 DEF GetMergeReview, Ready
  <2>2. /\ memory' = [memory EXCEPT ![b] = NewSession] /\ NewSession \in Sessions /\ NewSession # 0
    BY <2>1, NewSessionFree, ZeroNoSession DEF Load
  <2>3. /\ booting = {} /\ row[b] # None /\ (\A c \in Callers : calls[c] = Idle)
    BY <1>3, Calm DEF GetMergeReview, Ready, UnderReview
  <2>4. \A x \in Branches : UnderReview(x) => x = b
    BY <2>3 DEF Ordered, One, UnderReview
  <2>5. \A v \in Users : calls'[v] = calls[v] /\ calls'[v].pc = "idle"
    BY <2>1, <2>3 DEF Idle, Callers
  <2>6. \A x \in Branches : UnderReview(x) => UnderReview(x)'
    BY <2>2, <2>4 DEF UnderReview, Typed, MemoryOK
  <2> QED
    BY <2>1, <2>5, <2>6, MergesKeep DEF Closings
<1>4. CASE CommitMergeReview(u, b)
  <2>1. Unmerged(b) = {}
    BY <1>4, OpenedCalm DEF CommitMergeReview, Committable
  <2> QED
    BY <1>1, <1>4, <2>1 DEF CommitMergeReview, Opened, Ready, UserPoints
<1>5. CASE CancelMergeReview(u, b)
  BY <1>1, <1>5 DEF CancelMergeReview, Opened, Ready, UserPoints
<1>6. CASE \E f \in Files, d \in Choices : DecideFile(u, b, f, d)
  BY <1>1, <1>6 DEF DecideFile, Reviewing, Opened, Ready, UserPoints
<1>7. CASE AcceptAllRemaining(u, b)
  BY <1>1, <1>7 DEF AcceptAllRemaining, Reviewing, Opened, Ready, UserPoints
<1>8. CASE \E kind \in Kinds, F \in SUBSET Files : HandedOver(u, b, kind, F)
  BY <1>1, <1>8 DEF HandedOver, Opened, Ready, UserPoints
<1> QED
  BY <1>2, <1>3, <1>4, <1>5, <1>6, <1>7, <1>8, HandShape DEF Begin

LEMMA MergesStart ==
  ASSUME Typed, Ordered, Merges, UNCHANGED env, NEW u \in Users, StartMergeSession(u) \/ CreateSession(u) \/ CreateRefused(u)
  PROVE  Merges'
<1> DEFINE b == calls[u].branch
<1>1. /\ u \in Callers /\ calls[u] # Idle /\ calls[u].pc \in Started /\ b \in Branches
  BY CallerHolds DEF StartMergeSession, CreateSession, CreateRefused, At, Callers, Started, Typed
<1>2. /\ \A d \in Callers : d # u => calls[d] = Idle
      /\ \A x \in Branches : row[x] = None /\ memory[x] = 0
  BY <1>1, Alone
<1>3. "unbound" \notin env => \A x \in Branches : x # b => ~ tree[x].merge
  BY <1>2 DEF Merges, MergeHeld, At, Idle, Callers
<1>4. CASE StartMergeSession(u) /\ Return(u)
  <2>1. tree' = [tree EXCEPT ![b] = Clean] \/ calls'[u].pc = "creating"
    BY <1>1, <1>4 DEF StartMergeSession, Await, Typed, CallsOK, CallOK, Calls
  <2>2. \A d \in Callers : calls'[d] = Idle
    BY <1>1, <1>2, <1>4, FollowsReturn
  <2>3. "unbound" \notin env => \A x \in Branches : ~ tree'[x].merge
    BY <1>1, <1>3, <2>1, <2>2 DEF Clean, Typed, TreeOK, Idle
  <2> QED
    BY <2>2, <2>3 DEF Merges, MergeHeld, CommitsClean, MergeOver, At, Idle, Callers
<1>5. CASE StartMergeSession(u) /\ Await(u, "creating")
  <2>1. /\ calls'[u].pc = "creating" /\ calls'[u].branch = b /\ \A d \in Callers : d # u => calls'[d] = Idle
    BY <1>1, <1>2, <1>5, FollowsAwait DEF Started
  <2>2. "unbound" \notin env => \A x \in Branches : x # b => ~ tree'[x].merge
    BY <1>1, <1>3, <1>5 DEF StartMergeSession, Typed, TreeOK
  <2>3. MergeHeld'
    BY <2>1, <2>2 DEF MergeHeld, At
  <2> QED
    BY <2>1, <2>3 DEF Merges, CommitsClean, MergeOver, At, Idle, Callers
<1>6. CASE CreateSession(u)
  <2>1. /\ UNCHANGED tree /\ Return(u) /\ memory' = [memory EXCEPT ![b] = NewSession]
        /\ NewSession \in Sessions /\ NewSession # 0
    BY <1>6, NewSessionFree, ZeroNoSession DEF CreateSession
  <2>2. \A d \in Callers : calls'[d] = Idle
    BY <1>1, <1>2, <2>1, FollowsReturn
  <2>3. MergeHeld'
    BY <1>1, <1>3, <2>1 DEF MergeHeld, Typed, MemoryOK
  <2> QED
    BY <2>2, <2>3 DEF Merges, CommitsClean, MergeOver, At, Idle, Callers
<1>7. CASE CreateRefused(u)
  <2>1. Return(u) /\ "unbound" \in env
    BY <1>7 DEF CreateRefused
  <2>2. \A d \in Callers : calls'[d] = Idle
    BY <1>1, <1>2, <2>1, FollowsReturn
  <2> QED
    BY <2>1, <2>2 DEF Merges, MergeHeld, CommitsClean, MergeOver, At, Idle, Callers
<1> QED
  BY <1>4, <1>5, <1>6, <1>7 DEF StartMergeSession

\* A call in the middle of a review goes on, and does not come to its end.
LEMMA MergesOn ==
  ASSUME Typed, Ordered, Merges, UNCHANGED env, NEW u \in Users, calls[u].pc \notin Started \cup {"idle"},
         UNCHANGED memory, \A b \in Branches : tree'[b].merge => tree[b].merge,
         \A d \in Callers : d # u => calls'[d] = calls[d], calls'[u].pc \notin Closings
  PROVE  Merges'
<1>1. u \in Callers /\ calls[u] # Idle
  BY CallerHolds DEF Typed, Callers
<1>2. \A d \in Callers : d # u => calls[d] = Idle /\ calls'[d].pc = "idle"
  BY <1>1, Alone DEF Idle
<1>3. \A b \in Branches : UnderReview(b) => UnderReview(b)'
  BY <1>1, ReviewStays
<1>4. \A v \in Users : ~ At(v, "creating") /\ calls'[v].pc \notin Closings
  BY <1>2 DEF At, Started, Idle, Callers, Closings
<1> QED
  BY <1>3, <1>4, MergesKeep

LEMMA MergesContinue ==
  ASSUME Typed, Ordered, Merges, UNCHANGED env, NEW u \in Users,
         \/ ApplyFileDecision(u) \/ DecisionApplied(u) \/ DecisionRefused(u) \/ AcceptedOne(u)
         \/ EnsureMergeResolver(u) \/ ResolverTurnStarted(u) \/ ResolverFails(u) \/ InterruptResolver(u)
  PROVE  Merges'
<1>1. /\ calls[u].pc \in {"applying", "applied", "accepting", "resolver", "turn", "interrupting"} /\ UNCHANGED memory
  BY DEF ApplyFileDecision, DecisionApplied, DecisionRefused, AcceptedOne, EnsureMergeResolver, ResolverTurnStarted, ResolverFails,
         InterruptResolver, At
<1>2. calls[u].pc \notin Started \cup {"idle"} /\ u \in Callers
  BY <1>1 DEF Started, Callers
<1>3. calls[u] # Idle
  BY <1>2, CallerHolds DEF Typed
<1>4. \A b \in Branches : tree'[b].merge => tree[b].merge
  <2>1. CASE ApplyFileDecision(u)
    BY <2>1, AppliesShape
  <2>2. CASE DecisionApplied(u)
    BY <2>2, AppliedShape
  <2> QED
    BY <2>1, <2>2 DEF DecisionRefused, AcceptedOne, EnsureMergeResolver, ResolverTurnStarted, ResolverFails, InterruptResolver
<1>5. CASE Return(u)
  BY <1>1, <1>2, <1>4, <1>5, FollowsReturn, MergesOn DEF Closings, Idle
<1>6. CASE Await(u, "turn") \/ Await(u, "restoring") \/ Await(u, "applied")
  BY <1>1, <1>2, <1>3, <1>4, <1>6, FollowsAwait, MergesOn DEF Closings, Started
<1>7. CASE AcceptedOne(u)
  BY <1>1, <1>2, <1>4, <1>5, <1>7, AcceptedShape, MergesOn DEF Closings
<1> QED
  BY <1>5, <1>6, <1>7
  DEF ApplyFileDecision, DecisionApplied, DecisionRefused, EnsureMergeResolver, ResolverTurnStarted, ResolverFails, InterruptResolver

\* The worktree is clean when the review ends.
LEMMA MergesClose ==
  ASSUME Typed, Ordered, Merges, UNCHANGED env, NEW u \in Users, CommitMergeSession(u) \/ RestoreWorktree(u)
  PROVE  Merges'
<1> DEFINE b == calls[u].branch
<1>1. /\ calls[u].pc \in {"committing", "restoring"} /\ UNCHANGED memory /\ tree' = [tree EXCEPT ![b] = Clean]
      /\ Await(u, "landing") \/ Await(u, "closing")
  BY DEF CommitMergeSession, RestoreWorktree, At
<1>2. calls[u].pc \notin Started \cup {"idle"} /\ u \in Callers
  BY <1>1 DEF Started, Callers
<1>3. calls[u] # Idle /\ b \in Branches
  BY <1>2, CallerHolds DEF Typed
<1>4. /\ calls'[u].pc \in {"landing", "closing"} /\ calls'[u].branch = b /\ \A d \in Callers : d # u => calls'[d] = Idle
  BY <1>1, <1>2, <1>3, FollowsAwait, Alone DEF Started
<1>5. \A x \in Branches : tree'[x].merge => tree[x].merge /\ x # b
  BY <1>1, <1>3 DEF Typed, TreeOK, Clean
<1>6. \A x \in Branches : UnderReview(x) => UnderReview(x)'
  BY <1>1, <1>2, <1>3, ReviewStays
<1>7. \A v \in Users : ~ At(v, "creating")
  BY <1>1, <1>2, <1>3, Alone DEF At, Idle, Callers
<1>8. MergeHeld'
  BY <1>5, <1>6, <1>7 DEF Merges, MergeHeld, UnderReview
<1>9. CommitsClean' /\ MergeOver'
  BY <1>3, <1>4, <1>5 DEF CommitsClean, MergeOver, At, Idle, Callers
<1> QED
  BY <1>8, <1>9 DEF Merges

LEMMA MergesLand ==
  ASSUME Typed, Ordered, Merges, UNCHANGED env, NEW u \in Users, LandReview(u)
  PROVE  Merges'
<1>1. /\ calls[u].pc = "landing" /\ UNCHANGED <<memory, tree>> /\ (Await(u, "ending") \/ Return(u))
  BY DEF LandReview, At
<1>2. calls[u].pc \notin Started \cup {"idle"} /\ u \in Callers
  BY <1>1 DEF Started, Callers
<1>3. calls[u] # Idle
  BY <1>2, CallerHolds DEF Typed
<1>4. CASE Return(u)
  BY <1>1, <1>2, <1>4, FollowsReturn, MergesOn DEF Closings, Idle
<1>5. CASE Await(u, "ending")
  <2>1. /\ calls'[u].pc = "ending" /\ calls'[u].branch = calls[u].branch
        /\ \A d \in Callers : d # u => calls[d] = Idle /\ calls'[d] = Idle
    BY <1>1, <1>2, <1>3, <1>5, FollowsAwait, Alone DEF Started
  <2>2. \A x \in Branches : UnderReview(x) => UnderReview(x)'
    BY <1>1, <1>2, <1>3, ReviewStays
  <2>3. MergeHeld'
    BY <1>1, <2>1, <2>2 DEF Merges, MergeHeld, UnderReview, At, Idle, Callers
  <2>4. CommitsClean' /\ MergeOver'
    BY <1>1, <2>1 DEF Merges, CommitsClean, MergeOver, At, Idle, Callers
  <2> QED
    BY <2>3, <2>4 DEF Merges
<1> QED
  BY <1>1, <1>4, <1>5

\* The only review ends, and its worktree is in no merge.
LEMMA MergesEnd ==
  ASSUME Typed, Ordered, Merges, UNCHANGED env, ExpireSession \/ \E u \in Users : EndReview(u)
  PROVE  Merges'
<1>1. PICK c \in Callers :
        /\ ForgetSession(c, calls[c].branch) /\ Return(c)
        /\ \/ c \in Users /\ calls[c].pc \in {"ending", "closing"} /\ UNCHANGED tree
           \/ calls[c].pc = "aborting" /\ tree' = [tree EXCEPT ![calls[c].branch] = Clean]
  BY DEF ExpireSession, EndReview, At, Callers
<1>2. calls[c].pc # "idle" /\ calls[c].pc \notin Started
  BY <1>1 DEF Started
<1>3. calls[c] # Idle /\ calls[c].branch \in Branches
  BY <1>2, CallerHolds DEF Typed
<1>4. /\ \A d \in Callers : d # c => calls[d] = Idle
      /\ \A b \in Branches : UnderReview(b) => b = calls[c].branch
  BY <1>2, <1>3, Alone
<1>5. "unbound" \notin env => \A b \in Branches : b # calls[c].branch => ~ tree[b].merge
  BY <1>1, <1>4 DEF Merges, MergeHeld, UnderReview, At, Idle, Callers
<1>6. ~ tree'[calls[c].branch].merge /\ ("unbound" \notin env => \A b \in Branches : b # calls[c].branch => ~ tree'[b].merge)
  BY <1>1, <1>3, <1>5 DEF Merges, MergeOver, Typed, TreeOK, Clean
<1>7. \A d \in Callers : calls'[d] = Idle
  BY <1>1, <1>3, <1>4, FollowsReturn
<1> QED
  BY <1>6, <1>7 DEF Merges, MergeHeld, CommitsClean, MergeOver, At, Idle, Callers

\* The users wait, and the worktrees stay in their merges.
LEMMA MergesUsersStay ==
  ASSUME Merges, UNCHANGED env, \A b \in Branches : tree'[b].merge = tree[b].merge, \A u \in Users : calls'[u] = calls[u],
         \A u \in Users : calls[u] # Idle => UNCHANGED tree, \A b \in Branches : UnderReview(b) => UnderReview(b)'
  PROVE  Merges'
BY MergesKeep DEF Closings, Idle

LEMMA MergesAround ==
  ASSUME Typed, Ordered, Merges, UNCHANGED env, NEW b \in Branches, Resolver(b) \/ HandleMerge(b) \/ RecoverSession(b)
  PROVE  Merges'
<1>1. CASE ResolverWrites(b)
  <2>1. UNCHANGED <<memory, row, calls>> /\ agent[b] # None
    BY <1>1 DEF ResolverWrites
  <2>2. \A x \in Branches : tree'[x].merge = tree[x].merge
    BY <1>1 DEF ResolverWrites, Typed, TreeOK
  <2>3. \A u \in Users : calls[u] = Idle
    BY <2>1 DEF Ordered, AgentAlone, Callers
  <2> QED
    BY <2>1, <2>2, <2>3, MergesUsersStay DEF UnderReview
<1>2. CASE ResolverTurnEnds(b)
  <2>1. UNCHANGED <<memory, row, tree>>
    BY <1>2 DEF ResolverTurnEnds
  <2>2. \A u \in Users : calls'[u] = calls[u]
    BY <1>2, MergeAssumption DEF ResolverTurnEnds, Call, Typed, CallsOK, Callers
  <2> QED
    BY <2>1, <2>2, MergesUsersStay DEF UnderReview
<1>3. CASE ResolverTurnStopped(b) \/ HandleMerge(b)
  <2>1. UNCHANGED <<memory, row, tree, calls>>
    BY <1>3 DEF ResolverTurnStopped, HandleMerge
  <2> QED
    BY <2>1, MergesUsersStay DEF UnderReview
<1>4. CASE RecoverSession(b)
  <2>1. /\ UNCHANGED <<tree, calls>> /\ b \in booting
        /\ \/ \E x : Load(b, x)
           \/ row' = [row EXCEPT ![b].state = "recovery_required"] /\ UNCHANGED <<heap, memory>>
    BY <1>4 DEF RecoverSession
  <2>2. /\ row[b] # None /\ \A u \in Users : calls[u] = Idle
    BY <2>1 DEF Typed, BootOK, Callers
  <2>3. \A x \in Branches : UnderReview(x) => UnderReview(x)'
    <3>1. CASE \E x : Load(b, x)
      <4>1. /\ memory' = [memory EXCEPT ![b] = NewSession] /\ NewSession # 0
        BY <3>1, NewSessionFree, ZeroNoSession DEF Load
      <4>2. \A x \in Branches : UnderReview(x) => x = b
        BY <2>2 DEF Ordered, One, UnderReview
      <4> QED
        BY <4>1, <4>2 DEF UnderReview, Typed, MemoryOK
    <3>2. CASE row' = [row EXCEPT ![b].state = "recovery_required"] /\ UNCHANGED <<heap, memory>>
      <4>1. row[b] \in SessionStates
        BY <2>2 DEF Typed, RowOK
      <4>2. [row[b] EXCEPT !.state = "recovery_required"] # None
        BY <4>1, Placeholders DEF SessionStates
      <4> QED
        BY <3>2, <4>2 DEF UnderReview, Typed, RowOK
    <3> QED
      BY <2>1, <3>1, <3>2
  <2> QED
    BY <2>1, <2>2, <2>3, MergesUsersStay
<1> QED
  BY <1>1, <1>2, <1>3, <1>4 DEF Resolver

LEMMA MergesHook ==
  ASSUME Typed, Ordered, Merges, UNCHANGED env, HookChecks \/ HookRefreshes
  PROVE  Merges'
<1>1. calls[Hook].pc \notin Started \cup {"idle"} /\ Hook \in Callers /\ UNCHANGED <<tree, memory>>
  BY DEF HookChecks, HookRefreshes, At, Started, Callers
<1>2. calls[Hook] # Idle
  BY <1>1, CallerHolds DEF Typed
<1>3. \A u \in Users : calls'[u] = calls[u]
  BY MergeAssumption DEF HookChecks, HookRefreshes, Return, Typed, CallsOK, Callers
<1>4. \A x \in Branches : UnderReview(x) => UnderReview(x)'
  BY <1>1, <1>2, ReviewStays
<1> QED
  BY <1>1, <1>3, <1>4, MergesUsersStay

LEMMA MergesTimesOut ==
  ASSUME Typed, Merges, UNCHANGED env, NEW s \in Sessions, SessionTimesOut(s)
  PROVE  Merges'
<1>1. UNCHANGED <<tree, memory, row>>
  BY DEF SessionTimesOut
<1>2. \A u \in Users : calls'[u] = calls[u]
  BY MergeAssumption DEF SessionTimesOut, Call, Typed, CallsOK, Callers
<1> QED
  BY <1>1, <1>2, MergesUsersStay DEF UnderReview

LEMMA MergesCrash ==
  ASSUME Typed, Ordered, Merges, UNCHANGED env, Without({"cut", "git"}), Crash
  PROVE  Merges'
<1>1. /\ \A u \in Users : calls[u].pc # "creating" /\ calls'[u] = Idle
      /\ UNCHANGED <<tree, row>>
  BY DEF Crash, Without, Callers
<1>2. MergeHeld'
  BY <1>1 DEF Merges, MergeHeld, At, Ordered, MapStored
<1> QED
  BY <1>1, <1>2 DEF Merges, CommitsClean, MergeOver, At, Idle

\* Every merge has a review that owns it.
LEMMA MergesNext ==
  Typed /\ InTurn /\ Ordered /\ Without({"cut", "git"}) /\ Merges /\ [Next]_vars => Merges'
<1> SUFFICES ASSUME Typed, InTurn, Ordered, Without({"cut", "git"}), Merges, [Next]_vars
             PROVE  Merges'
  OBVIOUS
<1>1. ASSUME NEW u \in Users, CommitRefused(u)
      PROVE  FALSE
  BY <1>1 DEF CommitRefused, Without, Merges, CommitsClean
<1>2. ASSUME NEW u \in Users, Continue(u)
      PROVE  Merges'
  BY <1>1, <1>2, EnvStays, MergesStart, MergesContinue, MergesClose, MergesLand, MergesEnd DEF Continue
<1>3. CASE UNCHANGED vars
  BY <1>3, MergesUsersStay DEF vars, UnderReview
<1> QED
  BY <1>2, <1>3, MergesBegin, MergesAround, MergesHook, MergesTimesOut, MergesEnd, MergesCrash, EnvStays DEF Next

-----------------------------------------------------------------------------
(* What is shown, decided and held by the worktree fits together           *)

\* A session nobody works for, and its worktree.
Fits(x, t) ==
  /\ x.state # "resolving" /\ \A f \in Files : x.files[f].status # "agent_pending"
  /\ t.merge => \A f \in Files : Kept(x.files[f], t.content[f])
FitsMap(b) == memory[b] # 0 => Fits(heap[memory[b]], tree[b])
FitsRow(b) == row[b] # None => Fits(row[b], tree[b])
Only(b) == \A y \in Branches : UnderReview(y) => y = b
NoAgent == \A y \in Branches : agent[y] = None
AllDecided(x) == \A f \in Files : x.files[f].decision # "pending" /\ x.files[f].status # "conflict"

\* At these points of a call nothing is being changed.
Resting == {"accepting", "committing", "landing", "ending", "interrupting", "restoring", "closing", "aborting"}

LEMMA FitsSame ==
  ASSUME NEW x, NEW y, NEW t, Fits(x, t), y.files = x.files, y.state # "resolving"
  PROVE  Fits(y, t)
BY DEF Fits

LEMMA FitsSaved ==
  ASSUME NEW b \in Branches, NEW y, SavedAs(b, y), Fits(y, tree'[b])
  PROVE  FitsRow(b)'
BY DEF FitsRow, SavedAs, Fits

\* Before a step: nobody works on what is in the row.
LEMMA RowFits ==
  ASSUME Faithful, NEW b \in Branches, ~ Working(b), \A u \in Users : ~ At(u, "applied")
  PROVE  FitsRow(b)
BY DEF Writing, Faithful, Kepts, RowKept, Waiting, RowOpen, FitsRow, Fits

\* Before a step: nobody changes the session in the map.
LEMMA MapFits ==
  ASSUME Faithful, NEW b \in Branches, NoAgent, \A c \in Callers : calls[c] # Idle => calls[c].pc \in Resting
  PROVE  FitsMap(b)
<1>1. \A c \in Callers : calls[c].pc \notin {"applying", "applied", "resolver", "turn", "checking", "refreshing"}
  BY DEF Resting, Idle
<1>2. /\ \A f \in Files : ~ Applying(b, f) /\ ~ Edited(b, f) /\ ~ WaitsFor(b, f)
      /\ ~ Waits(b)
  BY <1>1 DEF Applying, Edited, NoAgent, Waits, WaitsFor, HandsOver, At, Callers
<1> QED
  BY <1>2 DEF Faithful, Kepts, MapKept, Waiting, MapWaits, FitsMap, Fits

\* After a step: nobody changes a session.
LEMMA RestingFits ==
  ASSUME NEW b \in Branches, Only(b)', NoAgent', calls'[Hook] = Idle,
         \A c \in Callers : calls'[c] # Idle => calls'[c].pc \in Resting,
         FitsMap(b)', FitsRow(b)',
         \A u \in Users : At(u, "committing")' => AllDecided(heap[calls[u].session])'
  PROVE  Faithful'
<1>1. \A c \in Callers : calls'[c].pc \notin {"applying", "applied", "resolver", "turn", "checking", "refreshing"}
  BY DEF Resting, Idle
<1>2. \A y \in Branches : UnderReview(y)' => y = b
  BY DEF Only
<1>3. MapKept' /\ RowKept' /\ AppliesDecided'
  BY <1>1, <1>2 DEF MapKept, RowKept, AppliesDecided, UnderReview, FitsMap, FitsRow, Fits, At, Callers
<1>4. Hands'
  BY <1>1 DEF Hands, UserHands, AgentHands, HookHands, HookSeen, At, Callers, NoAgent
<1>5. Waiting'
  BY <1>2 DEF Waiting, MapWaits, RowOpen, UnderReview, FitsMap, FitsRow, Fits
<1>6. CommitsDecided'
  BY DEF CommitsDecided, AllDecided
<1> QED
  BY <1>3, <1>4, <1>5, <1>6 DEF Faithful, Kepts

\* After a step: there is no review.
LEMMA NoneFits ==
  ASSUME \A b \in Branches : memory'[b] = 0 /\ row'[b] = None, NoAgent',
         \A c \in Callers : calls'[c] # Idle => calls'[c].pc \in Started
  PROVE  Faithful'
<1>1. \A c \in Callers : calls'[c].pc \notin {"applying", "applied", "resolver", "turn", "checking", "refreshing", "committing"}
  BY DEF Started, Idle
<1>2. MapKept' /\ RowKept' /\ AppliesDecided'
  BY <1>1 DEF MapKept, RowKept, AppliesDecided, At, Callers
<1>3. Hands'
  BY <1>1 DEF Hands, UserHands, AgentHands, HookHands, HookSeen, At, Callers, NoAgent
<1>4. Waiting' /\ CommitsDecided'
  BY <1>1 DEF Waiting, MapWaits, RowOpen, CommitsDecided, At, Callers
<1> QED
  BY <1>2, <1>3, <1>4 DEF Faithful, Kepts

\* Nothing changes that the invariant speaks of.
LEMMA FaithfulSame ==
  ASSUME Typed, Ordered, Faithful, UNCHANGED <<tree, memory, row, hook, agent, calls>>,
         \A s \in Sessions : heap'[s].files = heap[s].files /\ heap'[s].state = heap[s].state
  PROVE  Faithful'
<1>1. \A b \in Branches : memory[b] # 0 => memory[b] \in Sessions
  BY DEF Typed, MemoryOK
<1>2. \A c \in Callers : calls[c].pc \notin Started \cup {"idle"} => calls[c].session \in Sessions
  BY CallerHolds DEF Typed
<1>3. MapKept' /\ RowKept'
  BY <1>1 DEF Faithful, Kepts, MapKept, RowKept, Applying, Writing, Edited, Working, At
<1>4. AppliesDecided' /\ CommitsDecided'
  BY <1>2 DEF Faithful, Kepts, AppliesDecided, CommitsDecided, At, Started, Callers
<1>5. UserHands' /\ HookHands' /\ HookSeen'
  BY <1>2 DEF Faithful, Hands, UserHands, HookHands, HookSeen, At, Started, Callers
<1>6. AgentHands'
  <2> SUFFICES ASSUME NEW b \in Branches, agent'[b] # None, memory[b] # 0
               PROVE  /\ hook'[b] # None /\ hook'[b].files = agent'[b].files
                      /\ \A f \in agent'[b].files : Handed(hook'[b].kind, heap'[memory'[b]].files[f])
    BY DEF AgentHands, Ordered, AgentAlone
  <2> QED
    BY <1>1 DEF Faithful, Hands, AgentHands
<1>7. Waiting'
  BY <1>1 DEF Faithful, Waiting, MapWaits, RowOpen, Waits, WaitsFor, HandsOver, Working
<1> QED
  BY <1>3, <1>4, <1>5, <1>6, <1>7 DEF Faithful, Kepts, Hands

\* Who calls on an open review finds the session, its row and its worktree in agreement.
LEMMA OpenedFits ==
  ASSUME Typed, Ordered, InTurn, Faithful, NEW u \in Users, NEW b \in Branches, Opened(u, b)
  PROVE  /\ Fits(heap[memory[b]], tree[b]) /\ Fits(row[b], tree[b]) /\ Only(b) /\ NoAgent
         /\ memory[b] # 0 /\ \A c \in Callers : calls[c] = Idle
<1>1. /\ (\A c \in Callers : calls[c] = Idle) /\ (\A x \in Branches : agent[x] = None)
      /\ memory[b] # 0 /\ row[b] # None /\ (\A x \in Branches : UnderReview(x) => x = b)
  BY OpenedCalm
<1>2. FitsMap(b) /\ FitsRow(b)
  BY <1>1, MapFits, RowFits DEF NoAgent, Working, At, Idle, Callers
<1> QED
  BY <1>1, <1>2 DEF FitsMap, FitsRow, Only, NoAgent

LEMMA FaithfulStart ==
  ASSUME Typed, Ordered, InTurn, NEW u \in Users, NEW b \in Branches, StartMergeReview(u, b)
  PROVE  Faithful'
<1>1. /\ Ready(u, b) /\ (\A x \in Branches : row[x] = None) /\ UNCHANGED <<memory, row, agent>>
      /\ Call(u, "starting", b, 0, NoJob, "none")
  BY DEF StartMergeReview, agentVars
<1>2. /\ (\A c \in Callers : calls[c] = Idle) /\ NoAgent
  BY <1>1, Calm DEF NoAgent
<1>3. \A x \in Branches : memory[x] = 0
  BY <1>1 DEF Ordered, MapStored
<1>4. calls'[u].pc = "starting" /\ \A d \in Callers : d # u => calls'[d] = Idle
  BY <1>1, <1>2, BegunCall DEF Callers
<1> QED
  BY <1>1, <1>2, <1>3, <1>4, NoneFits DEF NoAgent, Started

LEMMA FaithfulRests ==
  ASSUME Typed, Ordered, InTurn, Faithful, NEW u \in Users, NEW b \in Branches,
         AcceptAllRemaining(u, b) \/ CommitMergeReview(u, b) \/ CancelMergeReview(u, b)
  PROVE  Faithful'
<1> DEFINE x == heap[memory[b]]
           y == heap'[memory[b]]
<1>1. /\ Opened(u, b) /\ UNCHANGED <<tree, memory, row, agent>>
      /\ \E pc \in {"accepting", "committing", "interrupting"} : \E job, choice :
           Call(u, pc, b, memory[b], job, choice) /\ (pc = "committing" => Committable(x) /\ UNCHANGED heap)
      /\ y.state = x.state
      /\ \A f \in Files : /\ y.files[f].status = x.files[f].status /\ y.files[f].diff = x.files[f].diff
                          /\ y.files[f].decision = x.files[f].decision
                             \/ (y.files[f].decision = "accept" /\ x.files[f].decision = "pending")
  <2>1. CASE AcceptAllRemaining(u, b)
    <3>1. PICK f \in Files :
              /\ Opened(u, b) /\ y.state = x.state
              /\ \A g \in Files : /\ y.files[g].status = x.files[g].status /\ y.files[g].diff = x.files[g].diff
                                  /\ y.files[g].decision = IF g = f THEN "accept" ELSE x.files[g].decision
              /\ x.files[f].decision = "pending"
              /\ Call(u, "accepting", b, memory[b], [kind |-> "decide", files |-> {f}], "accept")
              /\ UNCHANGED <<tree, memory, row, agent>>
      BY <2>1, AcceptShape
    <3> QED
      BY <3>1
  <2>2. CASE CommitMergeReview(u, b)
    BY <2>2 DEF CommitMergeReview, agentVars
  <2>3. CASE CancelMergeReview(u, b)
    BY <2>3 DEF CancelMergeReview
  <2> QED
    BY <2>1, <2>2, <2>3
<1>2. /\ Fits(x, tree[b]) /\ Fits(row[b], tree[b]) /\ Only(b) /\ NoAgent
      /\ memory[b] # 0 /\ \A c \in Callers : calls[c] = Idle
  BY <1>1, OpenedFits
<1>3. Fits(y, tree[b])
  BY <1>1, <1>2 DEF Fits, Kept
<1>p. PICK pc \in {"accepting", "committing", "interrupting"} : \E job, choice :
           Call(u, pc, b, memory[b], job, choice) /\ (pc = "committing" => Committable(x) /\ UNCHANGED heap)
  BY <1>1
<1>q. PICK job, choice : Call(u, pc, b, memory[b], job, choice)
  BY <1>p
<1>r. pc = "committing" => Committable(x) /\ UNCHANGED heap
  BY <1>p
<1>4. /\ calls'[u].pc = pc /\ calls'[u].session = memory[b] /\ \A d \in Callers : d # u => calls'[d] = Idle
  BY <1>2, <1>q, BegunCall DEF Callers
<1>5. FitsMap(b)' /\ FitsRow(b)' /\ Only(b)' /\ NoAgent'
  BY <1>1, <1>2, <1>3 DEF FitsMap, FitsRow, Only, UnderReview, NoAgent
<1>6. \A v \in Users : At(v, "committing")' => AllDecided(heap[calls[v].session])'
  BY <1>4, <1>r DEF At, Idle, Callers, Committable, Undecided, AllDecided
<1>7. calls'[Hook] = Idle /\ \A c \in Callers : calls'[c] # Idle => calls'[c].pc \in Resting
  BY <1>p, <1>4, MergeAssumption DEF Resting, Callers
<1> QED
  BY <1>5, <1>6, <1>7, RestingFits

LEMMA FaithfulDecide ==
  ASSUME Typed, Ordered, InTurn, Faithful, NEW u \in Users, NEW b \in Branches, NEW f \in Files, NEW choice \in Choices,
         DecideFile(u, b, f, choice)
  PROVE  Faithful'
<1> DEFINE x == heap[memory[b]]
           y == heap'[memory[b]]
<1>1. /\ Opened(u, b) /\ y.state = x.state
      /\ \A g \in Files : /\ y.files[g].status = x.files[g].status /\ y.files[g].diff = x.files[g].diff
                          /\ y.files[g].decision = IF g = f THEN choice ELSE x.files[g].decision
      /\ x.files[f].decision = "pending" /\ choice \in Decisions
      /\ Call(u, "applying", b, memory[b], [kind |-> "decide", files |-> {f}], choice)
      /\ UNCHANGED <<tree, memory, row, agent>>
  BY DecideShape
<1>2. /\ Fits(x, tree[b]) /\ Fits(row[b], tree[b]) /\ Only(b) /\ NoAgent
      /\ memory[b] # 0 /\ \A c \in Callers : calls[c] = Idle
  BY <1>1, OpenedFits
<1>3. /\ calls'[u].pc = "applying" /\ calls'[u].branch = b /\ calls'[u].session = memory[b] /\ calls'[u].files = {f}
      /\ calls'[u].choice = choice /\ \A d \in Callers : d # u => calls'[d] = Idle
  BY <1>1, <1>2, BegunCall DEF Callers
<1>4. /\ \A z \in Branches : UnderReview(z)' => z = b
      /\ \A z \in Branches : agent'[z] = None
  BY <1>1, <1>2 DEF Only, UnderReview, NoAgent
<1>5. /\ calls'[Hook] = Idle
      /\ \A c \in Callers : calls'[c].pc \notin {"resolver", "turn", "checking", "refreshing", "committing"}
  BY <1>3, MergeAssumption DEF Idle, Callers
<1>6. MapKept'
  <2>1. ASSUME tree[b].merge, NEW g \in Files
        PROVE  Applying(b, g)' \/ Kept(y.files[g], tree[b].content[g])
    <3>1. CASE g = f /\ choice # "accept"
      BY <1>3, <3>1 DEF Applying, At
    <3>2. CASE g # f \/ choice = "accept"
      BY <1>1, <1>2, <2>1, <3>2 DEF Fits, Kept
    <3> QED
      BY <3>1, <3>2
  <2> QED
    BY <1>1, <1>4, <2>1 DEF MapKept, UnderReview
<1>7. RowKept' /\ RowOpen'
  BY <1>1, <1>2, <1>4 DEF RowKept, RowOpen, UnderReview, Fits
<1>8. AppliesDecided'
  BY <1>1, <1>3 DEF AppliesDecided, At, Idle, Callers
<1>9. Hands' /\ CommitsDecided'
  BY <1>4, <1>5 DEF Hands, UserHands, AgentHands, HookHands, HookSeen, CommitsDecided, At, Callers
<1>10. MapWaits'
  BY <1>1, <1>2, <1>4 DEF MapWaits, UnderReview, Fits
<1> QED
  BY <1>6, <1>7, <1>8, <1>9, <1>10 DEF Faithful, Kepts, Waiting

LEMMA FaithfulHands ==
  ASSUME Typed, Ordered, InTurn, Faithful, NEW u \in Users, NEW b \in Branches, NEW kind \in Kinds, NEW F \in SUBSET Files,
         HandedOver(u, b, kind, F)
  PROVE  Faithful'
<1> DEFINE x == heap[memory[b]]
           y == heap'[memory[b]]
<1>1. /\ Opened(u, b)
      /\ kind = "resolve" => F = {g \in Undecided(x) : x.files[g].status = "conflict"}
      /\ \A g \in Files :
          /\ y.files[g].diff = x.files[g].diff /\ y.files[g].decision = x.files[g].decision
          /\ y.files[g].status = IF kind # "resolve" /\ g \in F THEN "agent_pending" ELSE x.files[g].status
      /\ Call(u, "resolver", b, memory[b], [kind |-> kind, files |-> F], "none")
      /\ UNCHANGED <<tree, memory, row, agent>>
  BY DEF HandedOver
<1>2. /\ Fits(x, tree[b]) /\ Fits(row[b], tree[b]) /\ Only(b) /\ NoAgent
      /\ memory[b] # 0 /\ \A c \in Callers : calls[c] = Idle
  BY <1>1, OpenedFits
<1>3. /\ calls'[u].pc = "resolver" /\ calls'[u].branch = b /\ calls'[u].session = memory[b] /\ calls'[u].files = F
      /\ calls'[u].kind = kind /\ \A d \in Callers : d # u => calls'[d] = Idle
  BY <1>1, <1>2, BegunCall DEF Callers
<1>4. /\ \A z \in Branches : UnderReview(z)' => z = b
      /\ \A z \in Branches : agent'[z] = None
  BY <1>1, <1>2 DEF Only, UnderReview, NoAgent
<1>5. /\ calls'[Hook] = Idle
      /\ \A c \in Callers : calls'[c].pc \notin {"applying", "applied", "checking", "refreshing", "committing"}
  BY <1>3, MergeAssumption DEF Idle, Callers
<1>6. MapKept'
  <2>1. ASSUME tree[b].merge, NEW g \in Files
        PROVE  Kept(y.files[g], tree[b].content[g])
    BY <1>1, <1>2, <2>1 DEF Fits, Kept
  <2> QED
    BY <1>1, <1>4, <2>1 DEF MapKept, UnderReview
<1>7. RowKept' /\ RowOpen'
  BY <1>1, <1>2, <1>4 DEF RowKept, RowOpen, UnderReview, Fits
<1>8. AppliesDecided' /\ CommitsDecided'
  BY <1>5 DEF AppliesDecided, CommitsDecided, At, Callers
<1>9. Hands'
  <2>1. \A g \in F : Handed(kind, y.files[g])
    BY <1>1 DEF Handed, Undecided
  <2>2. UserHands'
    BY <1>3, <2>1 DEF UserHands, Idle, Callers
  <2> QED
    BY <1>4, <1>5, <2>2 DEF Hands, AgentHands, HookHands, HookSeen, At, Callers
<1>10. MapWaits'
  <2>1. HandsOver(u, b)' /\ u \in Callers
    BY <1>3 DEF HandsOver, Callers
  <2>2. \A g \in Files : y.files[g].status = "agent_pending" => g \in calls'[u].files
    BY <1>1, <1>2, <1>3 DEF Fits
  <2> QED
    BY <1>1, <1>4, <2>1, <2>2 DEF MapWaits, Waits, WaitsFor, UnderReview
<1> QED
  BY <1>6, <1>7, <1>8, <1>9, <1>10 DEF Faithful, Kepts, Waiting

\* A stored session enters the map.
LEMMA FaithfulLoads ==
  ASSUME Typed, NEW b \in Branches, Only(b), NoAgent, \A c \in Callers : calls[c] = Idle,
         UNCHANGED <<tree, agent, calls>>, NEW x \in SessionStates, x.branch = b, Load(b, x), Fits(x, tree[b])
  PROVE  Faithful'
<1>1. SavedAs(b, x) /\ memory'[b] # 0 /\ heap'[memory'[b]] = x
  BY LoadShape
<1>2. Only(b)'
  <2>1. \A y \in Branches : y # b => memory'[y] = memory[y] /\ row'[y] = row[y]
    BY DEF Load, Store, Persist, Typed, MemoryOK, RowOK
  <2> QED
    BY <2>1 DEF Only, UnderReview
<1>3. FitsMap(b)' /\ FitsRow(b)'
  BY <1>1, FitsSaved DEF FitsMap
<1> QED
  BY <1>2, <1>3, RestingFits DEF NoAgent, Callers, At, Idle

\* What is loaded of a session that fits its worktree fits it.
LEMMA LoadedFits ==
  ASSUME Typed, NEW b \in Branches, row[b] # None, Fits(row[b], tree[b])
  PROVE  /\ row[b] \in SessionStates /\ row[b].branch = b
         /\ Recovered(row[b]) \in SessionStates /\ Recovered(row[b]).branch = b /\ Fits(Recovered(row[b]), tree[b])
         /\ LET w == [row[b] EXCEPT !.state = "recovery_required", !.timer = TRUE]
            IN  w \in SessionStates /\ w.branch = b /\ Fits(w, tree[b])
<1> DEFINE w == [row[b] EXCEPT !.state = "recovery_required", !.timer = TRUE]
<1>1. row[b] \in SessionStates /\ row[b].branch = b
  BY DEF Typed, RowOK
<1>2. w \in SessionStates /\ w.branch = b
  BY <1>1 DEF SessionStates
<1>3. Recovered(row[b]) \in SessionStates /\ Recovered(row[b]).branch = b
  BY <1>1, RecoveredTyped
<1>4. /\ row[b].state # "resolving" =>
              Recovered(row[b]).files = row[b].files /\ Recovered(row[b]).state = row[b].state
      /\ w.files = row[b].files /\ w.state = "recovery_required"
  BY RecoveredShape
<1> HIDE DEF w
<1>5. Fits(w, tree[b]) /\ Fits(Recovered(row[b]), tree[b])
  BY <1>4, FitsSame DEF Fits
<1> QED
  BY <1>1, <1>2, <1>3, <1>5 DEF w

LEMMA FaithfulGet ==
  ASSUME Typed, Ordered, InTurn, Faithful, NEW u \in Users, NEW b \in Branches, GetMergeReview(u, b)
  PROVE  Faithful'
<1> DEFINE w == [row[b] EXCEPT !.state = "recovery_required", !.timer = TRUE]
<1>1. /\ row[b] # None /\ Ready(u, b) /\ UNCHANGED <<tree, agent, calls>> /\ (Load(b, Recovered(row[b])) \/ Load(b, w))
  BY DEF GetMergeReview, agentVars
<1>2. (\A c \in Callers : calls[c] = Idle) /\ NoAgent /\ Only(b)
  BY <1>1, Calm DEF UnderReview, NoAgent, Only, Ordered, One
<1>3. Fits(row[b], tree[b])
  BY <1>1, <1>2, RowFits DEF FitsRow, Working, NoAgent, At, Idle, Callers
<1> QED
  BY <1>1, <1>2, <1>3, LoadedFits, FaithfulLoads

LEMMA FaithfulRecover ==
  ASSUME Typed, Ordered, Faithful, NEW b \in Branches, RecoverSession(b)
  PROVE  Faithful'
<1>1. /\ row[b] # None /\ UNCHANGED <<tree, agent, calls>> /\ NoAgent /\ (\A c \in Callers : calls[c] = Idle)
  BY DEF RecoverSession, agentVars, Typed, BootOK, NoAgent
<1>2. Only(b) /\ memory[b] = 0
  BY <1>1 DEF RecoverSession, UnderReview, Only, Ordered, One, MapStored
<1>3. Fits(row[b], tree[b])
  BY <1>1, RowFits DEF FitsRow, Working, NoAgent, At, Idle, Callers
<1>4. CASE Load(b, Recovered(row[b]))
  BY <1>1, <1>2, <1>3, <1>4, LoadedFits, FaithfulLoads
<1>5. CASE row' = [row EXCEPT ![b].state = "recovery_required"] /\ UNCHANGED <<heap, memory>>
  <2>1. row[b] \in SessionStates
    BY <1>1 DEF Typed, RowOK
  <2>2. /\ row'[b].files = row[b].files /\ row'[b].state = "recovery_required"
        /\ \A x \in Branches : x # b => row'[x] = row[x]
    BY <1>5, <2>1 DEF Typed, RowOK, SessionStates
  <2>3. FitsRow(b)' /\ FitsMap(b)' /\ Only(b)'
    BY <1>1, <1>2, <1>3, <1>5, <2>2, FitsSame DEF FitsRow, FitsMap, Only, UnderReview
  <2> QED
    BY <1>1, <2>3, RestingFits DEF NoAgent, Callers, At, Idle
<1> QED
  BY <1>4, <1>5 DEF RecoverSession

LEMMA FaithfulCreate ==
  ASSUME Typed, Ordered, NEW u \in Users, CreateSession(u)
  PROVE  Faithful'
<1> PICK b \in Branches : b = calls[u].branch
  BY CallerHolds DEF CreateSession, At, Callers, Typed
<1> DEFINE n == NewSession
           x == [branch |-> b, state |-> "reviewing", resolver |-> 0, timer |-> TRUE, base |-> None, files |->
                 [f \in Files |-> [status |-> IF f \in Conflicting THEN "conflict" ELSE "auto_merged",
                                   decision |-> "pending", diff |-> tree[b].content[f]]]]
<1>1. /\ memory' = [memory EXCEPT ![b] = n] /\ heap' = [heap EXCEPT ![n] = x] /\ Persist(x)
      /\ UNCHANGED <<tree, agent>> /\ Return(u) /\ At(u, "creating")
  BY DEF CreateSession, Store, agentVars
<1>2. n \in Sessions /\ b \in Branches /\ u \in Callers /\ calls[u] # Idle
  BY CallerHolds, NewSessionFree DEF CreateSession, At, Callers, Typed
<1>3. /\ (\A y \in Branches : row[y] = None /\ memory[y] = 0 /\ agent[y] = None)
      /\ (\A d \in Callers : calls'[d] = Idle)
  BY <1>1, <1>2, Alone, FollowsReturn DEF At, Started
<1>4. x.branch = b /\ Fits(x, tree[b])
  BY DEF Fits, Kept
<1>5. x \in SessionStates
  <2>1. \A f \in Files : tree[b].content[f] \in Contents
    BY <1>2 DEF Typed, TreeOK
  <2> QED
    BY <1>2, <2>1 DEF SessionStates, FileStates
<1> HIDE DEF x, n
<1>6. memory'[b] = n /\ heap'[n] = x /\ SavedAs(b, x)
  BY <1>1, <1>2, <1>4, <1>5, PersistShape DEF Typed, HeapOK, MemoryOK
<1>7. FitsMap(b)' /\ FitsRow(b)'
  BY <1>1, <1>2, <1>4, <1>6, FitsSaved DEF FitsMap
<1>8. Only(b)'
  BY <1>1, <1>3, <1>4 DEF Only, UnderReview, Persist, Typed, MemoryOK, RowOK
<1> QED
  BY <1>1, <1>2, <1>3, <1>7, <1>8, RestingFits DEF NoAgent, Callers, At, Idle

\* Before a step of a call: what the caller finds.
LEMMA CallerFits ==
  ASSUME Typed, Ordered, Faithful, NEW u \in Users, NEW b \in Branches, b = calls[u].branch,
         calls[u].pc \notin Started \cup {"idle"}
  PROVE  /\ u \in Callers /\ calls[u] # Idle /\ calls[u].session \in Sessions
         /\ memory[b] = calls[u].session /\ memory[b] # 0 /\ heap[calls[u].session] \in SessionStates
         /\ NoAgent /\ Only(b) /\ (\A d \in Callers : d # u => calls[d] = Idle)
         /\ row[b] # None /\ (calls[u].pc # "applied" => Fits(row[b], tree[b]))
         /\ calls[u].pc \in Resting => Fits(heap[calls[u].session], tree[b])
         /\ heap[calls[u].session].branch = b
<1>1. /\ u \in Callers /\ calls[u] # Idle /\ calls[u].session \in Sessions /\ heap[calls[u].session] \in SessionStates
      /\ heap[calls[u].session].branch = b
  BY CallerHolds DEF Callers, Typed
<1>2. /\ memory[b] = calls[u].session /\ memory[b] # 0 /\ row[b] # None
      /\ NoAgent /\ Only(b) /\ \A d \in Callers : d # u => calls[d] = Idle
  BY <1>1, Alone DEF NoAgent, Only
<1>3. calls[u].pc # "applied" => Fits(row[b], tree[b])
  BY <1>2, RowFits, MergeAssumption DEF FitsRow, Working, NoAgent, At, Idle, Callers
<1>4. calls[u].pc \in Resting => Fits(heap[calls[u].session], tree[b])
  BY <1>1, <1>2, MapFits DEF FitsMap
<1> QED
  BY <1>1, <1>2, <1>3, <1>4

\* After a step of a call that has left the session alone, or is over.
LEMMA CallerRests ==
  ASSUME Typed, Ordered, NEW u \in Users, NEW b \in Branches, memory'[b] # 0, UNCHANGED <<memory, agent>>, NoAgent, Only(b),
         Only(b)', \A d \in Callers : d # u => calls'[d] = Idle,
         calls'[u] = Idle \/ calls'[u].pc \in Resting \ {"committing"},
         Fits(heap'[memory[b]], tree'[b]), FitsRow(b)'
  PROVE  Faithful'
<1>1. \A c \in Callers : calls'[c] # Idle => calls'[c].pc \in Resting
  OBVIOUS
<1>2. calls'[Hook] = Idle /\ NoAgent' /\ FitsMap(b)'
  BY MergeAssumption DEF Callers, NoAgent, FitsMap
<1>3. \A v \in Users : ~ At(v, "committing")'
  BY DEF At, Idle, Callers
<1> QED
  BY <1>1, <1>2, <1>3, RestingFits

\* The rows of the other branches are left alone.
LEMMA OnlyStays ==
  ASSUME Ordered', NEW b \in Branches, memory'[b] # 0
  PROVE  Only(b)'
BY DEF Only, UnderReview, Ordered, One

LEMMA FaithfulApplies ==
  ASSUME Typed, Ordered, Ordered', Faithful, NEW u \in Users, ApplyFileDecision(u)
  PROVE  Faithful'
<1> PICK b \in Branches : b = calls[u].branch
  BY AppliesShape
<1> DEFINE c == calls[u]
           x == heap[c.session]
<1>1. /\ c.pc = "applying" /\ c # Idle /\ c.choice \in Decisions /\ Await(u, "applied")
      /\ \A f \in Files : tree'[b].content[f] = IF f \in c.files THEN Applied(c.choice, tree[b].content[f])
                                                ELSE tree[b].content[f]
      /\ tree'[b].merge = tree[b].merge /\ UNCHANGED <<heap, memory, row, hook, agent>>
  BY AppliesShape
<1>2. /\ u \in Callers /\ memory[b] = c.session /\ memory[b] # 0 /\ NoAgent /\ Only(b)
      /\ \A d \in Callers : d # u => calls[d] = Idle
      /\ row[b] # None /\ Fits(row[b], tree[b])
  BY <1>1, CallerFits DEF Started
<1>3. /\ calls'[u].pc = "applied" /\ calls'[u].branch = b /\ calls'[u].session = c.session
      /\ calls'[u].files = c.files /\ calls'[u].choice = c.choice
      /\ \A d \in Callers : d # u => calls'[d] = Idle /\ calls'[d].pc = "idle"
  BY <1>1, <1>2, FollowsAwait DEF Started, Idle
<1>4. x.state # "resolving" /\ \A f \in Files : x.files[f].status # "agent_pending"
  <2>1. \A d \in Callers : ~ HandsOver(d, b)
    BY <1>1, <1>2 DEF HandsOver, Idle
  <2> QED
    BY <1>2, <2>1 DEF Faithful, Waiting, MapWaits, Waits, WaitsFor, NoAgent
<1>5. \A f \in c.files : x.files[f].decision = c.choice
  BY <1>1 DEF Faithful, Kepts, AppliesDecided, At
<1>6. ASSUME tree[b].merge, NEW f \in Files
      PROVE  Kept(x.files[f], tree'[b].content[f])
  <2>1. ~ Edited(b, f)
    BY <1>2, MergeAssumption DEF Edited, NoAgent, Callers
  <2>2. Applying(b, f) => f \in c.files /\ c.choice # "accept"
    BY <1>1, <1>2 DEF Applying, At, Idle, Callers
  <2>3. Applying(b, f) \/ Kept(x.files[f], tree[b].content[f])
    BY <1>2, <1>6, <2>1 DEF Faithful, Kepts, MapKept
  <2>4. CASE f \in c.files /\ c.choice # "accept"
    <3>1. x.files[f].decision = c.choice /\ c.choice # "pending"
      BY <1>1, <1>5, <2>4 DEF Decisions
    <3>2. tree'[b].content[f] = Applied(c.choice, x.files[f].diff)
      BY <1>1, <2>4 DEF Applied, Decisions
    <3> QED
      BY <2>4, <3>1, <3>2 DEF Kept
  <2>5. CASE f \notin c.files \/ c.choice = "accept"
    <3>1. tree'[b].content[f] = tree[b].content[f]
      BY <1>1, <2>5 DEF Applied
    <3> QED
      BY <2>2, <2>3, <2>5, <3>1
  <2> QED
    BY <2>4, <2>5
<1>7. \A y \in Branches : UnderReview(y)' => y = b
  BY <1>1, <1>2 DEF Only, UnderReview
<1>8. MapKept'
  BY <1>1, <1>2, <1>6, <1>7 DEF MapKept, UnderReview
<1>9. RowKept'
  <2>1. \A f \in c.files : Writing(b, f)'
    BY <1>3 DEF Writing, At
  <2>2. \A f \in Files : f \notin c.files => tree'[b].content[f] = tree[b].content[f]
    BY <1>1
  <2>3. tree[b].merge => \A f \in Files : Kept(row[b].files[f], tree[b].content[f])
    BY <1>2 DEF Fits
  <2>4. tree[b].merge => \A f \in Files : Writing(b, f)' \/ Kept(row'[b].files[f], tree'[b].content[f])
    BY <1>1, <2>1, <2>2, <2>3
  <2> QED
    BY <1>1, <1>7, <2>4 DEF RowKept, UnderReview
<1>10. AppliesDecided'
  BY <1>1, <1>3, <1>5 DEF AppliesDecided, At, Callers
<1>11. Hands' /\ CommitsDecided'
  <2>1. \A d \in Callers : calls'[d].pc \notin {"resolver", "turn", "checking", "refreshing", "committing"}
    BY <1>3
  <2> QED
    BY <1>1, <1>2, <2>1 DEF Hands, UserHands, AgentHands, HookHands, HookSeen, CommitsDecided, At, NoAgent, Callers
<1>12. Waiting'
  BY <1>1, <1>2, <1>4, <1>7 DEF Waiting, MapWaits, RowOpen, UnderReview, Fits
<1> QED
  BY <1>8, <1>9, <1>10, <1>11, <1>12 DEF Faithful, Kepts

LEMMA FaithfulApplied ==
  ASSUME Typed, Ordered, Ordered', Faithful, NEW u \in Users, DecisionApplied(u)
  PROVE  Faithful'
<1> PICK b \in Branches : b = calls[u].branch
  BY AppliedShape
<1> DEFINE c == calls[u]
           x == heap[c.session]
           y == heap'[c.session]
<1>1. /\ c.pc = "applied" /\ c.choice \in Decisions /\ Return(u) /\ y.state = x.state
      /\ \A f \in Files :
           /\ y.files[f].decision = x.files[f].decision /\ y.files[f].diff = x.files[f].diff
           /\ y.files[f].status = IF f \in c.files /\ x.files[f].status = "conflict"
                                     /\ c.choice \in {"keep_main", "use_branch"}
                                  THEN "agent_resolved" ELSE x.files[f].status
      /\ SavedAs(b, y) /\ UNCHANGED <<tree, memory, agent>>
  BY AppliedShape
<1>2. /\ u \in Callers /\ memory[b] = c.session /\ memory[b] # 0 /\ NoAgent /\ Only(b)
      /\ \A d \in Callers : d # u => calls[d] = Idle
  BY <1>1, CallerFits DEF Started
<1>3. \A d \in Callers : calls'[d] = Idle
  BY <1>1, <1>2, FollowsReturn
<1>4. x.state # "resolving" /\ \A f \in Files : x.files[f].status # "agent_pending"
  <2>1. \A d \in Callers : ~ HandsOver(d, b)
    BY <1>1, <1>2 DEF HandsOver, Idle
  <2> QED
    BY <1>2, <2>1 DEF Faithful, Waiting, MapWaits, Waits, WaitsFor, NoAgent
<1>5. ASSUME tree[b].merge, NEW f \in Files
      PROVE  Kept(y.files[f], tree[b].content[f])
  <2>1. ~ Edited(b, f) /\ ~ Applying(b, f)
    BY <1>1, <1>2, MergeAssumption DEF Edited, Applying, At, Idle, NoAgent, Callers
  <2>2. Kept(x.files[f], tree[b].content[f])
    BY <1>2, <1>5, <2>1 DEF Faithful, Kepts, MapKept
  <2>3. f \in c.files => x.files[f].decision = c.choice
    BY <1>1 DEF Faithful, Kepts, AppliesDecided, At
  <2> QED
    BY <1>1, <2>2, <2>3 DEF Kept
<1>6. Fits(y, tree'[b])
  BY <1>1, <1>4, <1>5 DEF Fits
<1>7. FitsRow(b)' /\ Only(b)'
  BY <1>1, <1>2, <1>6, FitsSaved, OnlyStays
<1> QED
  BY <1>1, <1>2, <1>3, <1>6, <1>7, CallerRests

LEMMA FaithfulRefused ==
  ASSUME Typed, Ordered, Ordered', Faithful, Without({"git"}), NEW u \in Users, DecisionRefused(u)
  PROVE  Faithful'
<1>1. /\ calls[u].pc \in {"applying", "accepting"} /\ Return(u) /\ UNCHANGED <<tree, heap, memory, row, agent>>
      /\ calls[u].choice = "accept"
  <2>1. "git" \notin env
    BY DEF Without
  <2>2. ~ At(u, "applied")
    BY <2>1 DEF DecisionRefused
  <2> QED
    BY <2>1, <2>2 DEF DecisionRefused, CanApply, At, agentVars
<1>2. calls[u].pc \notin Started \cup {"idle"} /\ u \in Callers
  BY <1>1 DEF Started, Callers
<1> PICK b \in Branches : b = calls[u].branch
  BY <1>2, CallerHolds DEF Typed
<1>3. /\ memory[b] = calls[u].session /\ memory[b] # 0 /\ NoAgent /\ Only(b)
      /\ (\A d \in Callers : d # u => calls[d] = Idle) /\ Fits(row[b], tree[b]) /\ row[b] # None
  BY <1>1, <1>2, CallerFits
<1>4. \A d \in Callers : calls'[d] = Idle
  BY <1>1, <1>2, <1>3, FollowsReturn
<1>5. /\ \A f \in Files : ~ Applying(b, f) /\ ~ Edited(b, f) /\ ~ WaitsFor(b, f)
      /\ ~ Waits(b)
  BY <1>1, <1>3, MergeAssumption DEF Applying, Edited, NoAgent, Waits, WaitsFor, HandsOver, At, Idle, Callers
<1>6. Fits(heap[memory[b]], tree[b])
  BY <1>3, <1>5 DEF Faithful, Kepts, MapKept, Waiting, MapWaits, Fits
<1>7. FitsRow(b)' /\ Only(b)'
  BY <1>1, <1>3, OnlyStays DEF FitsRow
<1>8. Fits(heap'[memory[b]], tree'[b]) /\ calls'[u] = Idle /\ UNCHANGED <<memory, agent>> /\ memory'[b] # 0
  BY <1>1, <1>2, <1>3, <1>4, <1>6
<1> QED
  BY <1>3, <1>4, <1>7, <1>8, CallerRests

LEMMA FaithfulAccepted ==
  ASSUME Typed, Ordered, Ordered', Faithful, NEW u \in Users, AcceptedOne(u)
  PROVE  Faithful'
<1> PICK b \in Branches : b = calls[u].branch
  BY AcceptedShape
<1> DEFINE x == heap[calls[u].session]
           y == heap'[calls[u].session]
<1>1. /\ calls[u].pc = "accepting" /\ UNCHANGED <<tree, memory, agent>> /\ y.state = x.state
      /\ \A f \in Files : y.files[f].status = x.files[f].status /\ y.files[f].diff = x.files[f].diff
      /\ \/ Return(u) /\ y = x /\ SavedAs(b, y)
         \/ /\ UNCHANGED row /\ calls'[u].pc = "accepting" /\ \A d \in Callers : d # u => calls'[d] = calls[d]
            /\ \E f \in Files : /\ x.files[f].decision = "pending" /\ y.files[f].decision = "accept"
                                /\ \A g \in Files \ {f} : y.files[g].decision = x.files[g].decision
  BY AcceptedShape
<1>2. /\ u \in Callers /\ memory[b] = calls[u].session /\ memory[b] # 0 /\ NoAgent /\ Only(b)
      /\ (\A d \in Callers : d # u => calls[d] = Idle) /\ Fits(row[b], tree[b]) /\ Fits(x, tree[b])
  BY <1>1, CallerFits DEF Started, Resting
<1>3. Fits(y, tree[b])
  <2>1. \A f \in Files : y.files[f].decision = x.files[f].decision
                         \/ (x.files[f].decision = "pending" /\ y.files[f].decision = "accept")
    BY <1>1
  <2>2. ASSUME NEW f \in Files, Kept(x.files[f], tree[b].content[f])
        PROVE  Kept(y.files[f], tree[b].content[f])
    BY <1>1, <2>1, <2>2 DEF Kept
  <2> QED
    BY <1>1, <1>2, <2>2 DEF Fits
<1>4. FitsRow(b)' /\ Only(b)'
  BY <1>1, <1>2, <1>3, FitsSaved, OnlyStays DEF FitsRow
<1>5. /\ \A d \in Callers : d # u => calls'[d] = Idle
      /\ calls'[u] = Idle \/ calls'[u].pc = "accepting"
  BY <1>1, <1>2, FollowsReturn
<1> QED
  BY <1>1, <1>2, <1>3, <1>4, <1>5, CallerRests DEF Resting

\* Before a step of a call that hands files over: what is waiting, waits for them.
LEMMA HandingFits ==
  ASSUME Typed, Ordered, Faithful, NEW u \in Users, NEW b \in Branches, b = calls[u].branch,
         calls[u].pc \in {"resolver", "turn"}
  PROVE  LET c == calls[u]
             x == heap[c.session]
         IN /\ tree[b].merge => \A f \in Files : Kept(x.files[f], tree[b].content[f])
            /\ \A f \in Files : x.files[f].status = "agent_pending" => f \in c.files
            /\ \A f \in c.files : Handed(c.kind, x.files[f])
<1>1. /\ memory[b] = calls[u].session /\ memory[b] # 0 /\ NoAgent
      /\ (\A d \in Callers : d # u => calls[d] = Idle)
  BY CallerFits DEF Started
<1>2. \A f \in Files : ~ Applying(b, f) /\ ~ Edited(b, f)
  BY <1>1, MergeAssumption DEF Applying, Edited, NoAgent, At, Idle, Callers
<1>3. \A f \in Files : WaitsFor(b, f) => f \in calls[u].files
  BY <1>1 DEF WaitsFor, HandsOver, NoAgent, Idle
<1> QED
  BY <1>1, <1>2, <1>3 DEF Faithful, Kepts, MapKept, Waiting, MapWaits, Hands, UserHands

LEMMA FaithfulEnsure ==
  ASSUME Typed, Ordered, Ordered', Faithful, NEW u \in Users, EnsureMergeResolver(u)
  PROVE  Faithful'
<1> PICK b \in Branches : b = calls[u].branch
  BY EnsureShape
<1> DEFINE x == heap[calls[u].session]
           y == heap'[calls[u].session]
<1>1. /\ calls[u].pc = "resolver" /\ Await(u, "turn") /\ UNCHANGED <<tree, memory, row, agent>>
      /\ y.files = x.files
  BY EnsureShape
<1>2. /\ u \in Callers /\ calls[u] # Idle /\ memory[b] = calls[u].session /\ memory[b] # 0 /\ NoAgent /\ Only(b)
      /\ (\A d \in Callers : d # u => calls[d] = Idle) /\ Fits(row[b], tree[b])
  BY <1>1, CallerFits DEF Started
<1>3. /\ tree[b].merge => \A f \in Files : Kept(x.files[f], tree[b].content[f])
      /\ \A f \in Files : x.files[f].status = "agent_pending" => f \in calls[u].files
      /\ \A f \in calls[u].files : Handed(calls[u].kind, x.files[f])
  BY <1>1, HandingFits
<1>4. /\ calls'[u].pc = "turn" /\ calls'[u].branch = b /\ calls'[u].session = calls[u].session
      /\ calls'[u].files = calls[u].files /\ calls'[u].kind = calls[u].kind /\ calls'[u].session = memory[b]
      /\ \A d \in Callers : d # u => calls'[d] = Idle
  BY <1>1, <1>2, FollowsAwait DEF Started
<1>5. /\ \A z \in Branches : UnderReview(z)' => z = b
      /\ \A z \in Branches : agent'[z] = None
  BY <1>1, <1>2 DEF Only, UnderReview, NoAgent
<1>6. /\ calls'[Hook] = Idle
      /\ \A c \in Callers : calls'[c].pc \notin {"applying", "applied", "checking", "refreshing", "committing"}
  BY <1>4, MergeAssumption DEF Idle, Callers
<1>7. MapKept'
  BY <1>1, <1>2, <1>3, <1>5 DEF MapKept, UnderReview
<1>8. RowKept' /\ RowOpen'
  BY <1>1, <1>2, <1>5 DEF RowKept, RowOpen, UnderReview, Fits
<1>9. AppliesDecided' /\ CommitsDecided'
  BY <1>6 DEF AppliesDecided, CommitsDecided, At, Callers
<1>10. Hands'
  <2>1. UserHands'
    BY <1>1, <1>3, <1>4 DEF UserHands, Idle, Callers
  <2> QED
    BY <1>5, <1>6, <2>1 DEF Hands, AgentHands, HookHands, HookSeen, At, Callers
<1>11. MapWaits'
  <2>1. HandsOver(u, b)'
    BY <1>4 DEF HandsOver
  <2> QED
    BY <1>1, <1>2, <1>3, <1>4, <1>5, <2>1 DEF MapWaits, Waits, WaitsFor, UnderReview
<1> QED
  BY <1>7, <1>8, <1>9, <1>10, <1>11 DEF Faithful, Kepts, Waiting

LEMMA FaithfulTurn ==
  ASSUME Typed, Ordered, Ordered', Faithful, NEW u \in Users, ResolverTurnStarted(u)
  PROVE  Faithful'
<1>0. calls[u].pc = "turn" /\ calls[u].pc \notin Started \cup {"idle"} /\ u \in Callers
  BY DEF ResolverTurnStarted, At, Started, Callers
<1> PICK b \in Branches : b = calls[u].branch
  BY <1>0, CallerHolds DEF Typed
<1> DEFINE c == calls[u]
           x == heap[c.session]
           a == [files |-> c.files, turn |-> turns + 1]
           j == [kind |-> c.kind, files |-> c.files]
<1>1. /\ Return(u) /\ Persist(x) /\ UNCHANGED <<tree, memory, heap>>
      /\ agent' = [agent EXCEPT ![b] = a] /\ hook' = [hook EXCEPT ![b] = j]
  BY DEF ResolverTurnStarted, gitVars
<1>2. /\ c # Idle /\ memory[b] = c.session /\ memory[b] # 0 /\ NoAgent /\ Only(b)
      /\ (\A d \in Callers : d # u => calls[d] = Idle)
  BY <1>0, CallerFits
<1>3. /\ tree[b].merge => \A f \in Files : Kept(x.files[f], tree[b].content[f])
      /\ \A f \in Files : x.files[f].status = "agent_pending" => f \in c.files
      /\ \A f \in c.files : Handed(c.kind, x.files[f])
  BY <1>0, HandingFits
<1>4. \A d \in Callers : calls'[d] = Idle /\ calls'[d].pc = "idle"
  BY <1>0, <1>1, <1>2, FollowsReturn DEF Idle
<1>5. a # None /\ j # None /\ a.files = c.files /\ j.files = c.files /\ j.kind = c.kind
  BY DEF None
<1> HIDE DEF a, j
<1>6. /\ agent'[b] = a /\ hook'[b] = j /\ (\A z \in Branches : z # b => agent'[z] = None)
      /\ Only(b)'
  BY <1>1, <1>2, OnlyStays DEF NoAgent, Typed, AgentOK
<1>7. Working(b)' /\ \A z \in Branches : UnderReview(z)' => z = b
  BY <1>5, <1>6 DEF Working, Only
<1>8. MapKept'
  BY <1>1, <1>2, <1>3, <1>7 DEF MapKept, UnderReview
<1>9. RowKept' /\ RowOpen'
  BY <1>7 DEF RowKept, RowOpen, UnderReview
<1>10. AppliesDecided' /\ CommitsDecided' /\ UserHands' /\ HookHands' /\ HookSeen'
  BY <1>4 DEF AppliesDecided, CommitsDecided, UserHands, HookHands, HookSeen, At, Callers
<1>11. AgentHands'
  BY <1>1, <1>2, <1>3, <1>5, <1>6 DEF AgentHands
<1>12. MapWaits'
  BY <1>1, <1>2, <1>3, <1>5, <1>6, <1>7 DEF MapWaits, Waits, WaitsFor, UnderReview
<1> QED
  BY <1>8, <1>9, <1>10, <1>11, <1>12 DEF Faithful, Kepts, Hands, Waiting

LEMMA FaithfulFails ==
  ASSUME Typed, Ordered, Ordered', Faithful, NEW u \in Users, ResolverFails(u)
  PROVE  Faithful'
<1> PICK b \in Branches : b = calls[u].branch
  BY FailsShape
<1> DEFINE c == calls[u]
           x == heap[c.session]
           y == heap'[c.session]
<1>1. /\ c.pc \in {"resolver", "turn"} /\ Return(u) /\ UNCHANGED <<tree, memory, agent>>
      /\ y.state = "reviewing" /\ SavedAs(b, y)
      /\ \A f \in Files :
           /\ y.files[f].decision = x.files[f].decision /\ y.files[f].diff = x.files[f].diff
           /\ y.files[f].status = IF c.kind # "resolve" /\ f \in c.files THEN "conflict" ELSE x.files[f].status
  BY FailsShape
<1>2. /\ u \in Callers /\ memory[b] = c.session /\ memory[b] # 0 /\ NoAgent /\ Only(b)
      /\ (\A d \in Callers : d # u => calls[d] = Idle)
  BY <1>1, CallerFits DEF Started
<1>3. /\ tree[b].merge => \A f \in Files : Kept(x.files[f], tree[b].content[f])
      /\ \A f \in Files : x.files[f].status = "agent_pending" => f \in c.files
      /\ \A f \in c.files : Handed(c.kind, x.files[f])
  BY <1>1, HandingFits
<1>4. \A f \in Files : y.files[f].status # "agent_pending"
  BY <1>1, <1>3 DEF Handed
<1>5. ASSUME NEW f \in Files, Kept(x.files[f], tree[b].content[f])
      PROVE  Kept(y.files[f], tree[b].content[f])
  BY <1>1, <1>5 DEF Kept
<1>6. Fits(y, tree'[b])
  BY <1>1, <1>3, <1>4, <1>5 DEF Fits
<1>7. FitsRow(b)' /\ Only(b)' /\ \A d \in Callers : calls'[d] = Idle
  BY <1>1, <1>2, <1>6, FitsSaved, OnlyStays, FollowsReturn
<1> QED
  BY <1>1, <1>2, <1>6, <1>7, CallerRests

\* A call goes on towards its end, and leaves the session alone.
LEMMA FaithfulGoesOn ==
  ASSUME Typed, Ordered, Ordered', Faithful, NEW u \in Users,
         CommitMergeSession(u) \/ LandReview(u) \/ InterruptResolver(u) \/ RestoreWorktree(u)
  PROVE  Faithful'
<1>0. /\ calls[u].pc \in {"committing", "landing", "interrupting", "restoring"} /\ UNCHANGED <<heap, memory>>
      /\ Return(u) \/ \E pc \in {"landing", "ending", "restoring", "closing"} : Await(u, pc)
      /\ u \in Callers /\ calls[u].pc \notin Started \cup {"idle"} /\ calls[u].pc \in Resting
  BY DEF CommitMergeSession, LandReview, InterruptResolver, RestoreWorktree, At, Callers, Started, Resting
<1> PICK b \in Branches : b = calls[u].branch
  BY <1>0, CallerHolds DEF Typed
<1> DEFINE x == heap[calls[u].session]
<1>1. /\ calls[u] # Idle /\ memory[b] = calls[u].session /\ memory[b] # 0 /\ NoAgent /\ Only(b) /\ x \in SessionStates
      /\ (\A d \in Callers : d # u => calls[d] = Idle) /\ row[b] # None /\ Fits(row[b], tree[b]) /\ Fits(x, tree[b])
      /\ x.branch = b
  BY <1>0, CallerFits
<1>2. Fits(x, Clean) /\ Fits(row[b], Clean)
  BY <1>1 DEF Fits, Clean
<1>3. tree'[b] = tree[b] \/ tree'[b] = Clean
  BY DEF CommitMergeSession, LandReview, InterruptResolver, RestoreWorktree, Typed, TreeOK
<1>4. UNCHANGED row \/ SavedAs(b, x)
  BY <1>1, PersistShape DEF CommitMergeSession, LandReview, InterruptResolver, RestoreWorktree
<1>5. Fits(heap'[memory[b]], tree'[b]) /\ FitsRow(b)' /\ Only(b)'
  BY <1>0, <1>1, <1>2, <1>3, <1>4, FitsSaved, OnlyStays DEF FitsRow
<1>6. /\ \A d \in Callers : d # u => calls'[d] = Idle
      /\ calls'[u] = Idle \/ calls'[u].pc \in Resting \ {"committing"}
  BY <1>0, <1>1, FollowsReturn, FollowsAwait DEF Started, Resting
<1>7. UNCHANGED agent
  BY <1>1 DEF CommitMergeSession, LandReview, InterruptResolver, RestoreWorktree, agentVars, NoAgent, Typed, AgentOK
<1> QED
  BY <1>0, <1>1, <1>5, <1>6, <1>7, CallerRests

\* There is no review yet, or no more.
LEMMA FaithfulEnds ==
  ASSUME Typed, Ordered, Ordered', ExpireSession \/ \E u \in Users : EndReview(u)
  PROVE  Faithful'
<1>1. PICK c \in Callers : /\ calls[c].pc \in {"aborting", "ending", "closing"}
                           /\ ForgetSession(c, calls[c].branch) /\ Return(c)
  BY DEF ExpireSession, EndReview, At, Callers
<1>2. calls[c].pc # "idle" /\ calls[c].pc \notin Started
  BY <1>1 DEF Started
<1>3. calls[c] # Idle
  BY <1>2, CallerHolds DEF Typed
<1>4. \A b \in Branches : memory'[b] = 0 /\ row'[b] = None
  BY <1>1, <1>2, <1>3, ForgottenAll
<1>5. NoAgent' /\ \A d \in Callers : calls'[d] = Idle
  BY <1>1, <1>3, <1>4, Alone, FollowsReturn DEF NoAgent, Ordered, AgentAlone
<1> QED
  BY <1>4, <1>5, NoneFits

LEMMA FaithfulMerge ==
  ASSUME Typed, Ordered, NEW u \in Users, StartMergeSession(u) \/ CreateRefused(u)
  PROVE  Faithful'
<1>1. /\ calls[u].pc # "idle" /\ UNCHANGED <<memory, row, agent>> /\ (Return(u) \/ Await(u, "creating"))
      /\ u \in Callers /\ calls[u].pc \in Started
  BY DEF StartMergeSession, CreateRefused, At, agentVars, Callers, Started
<1>2. calls[u] # Idle
  BY <1>1 DEF Idle
<1>3. /\ \A b \in Branches : row[b] = None /\ memory[b] = 0
      /\ NoAgent /\ \A d \in Callers : d # u => calls[d] = Idle
  BY <1>1, <1>2, Alone DEF NoAgent
<1>4. \A c \in Callers : calls'[c] # Idle => calls'[c].pc \in Started
  BY <1>1, <1>2, <1>3, FollowsReturn, FollowsAwait DEF Started
<1> QED
  BY <1>1, <1>3, <1>4, NoneFits DEF NoAgent

LEMMA FaithfulCrash ==
  ASSUME Typed, Ordered, Ordered', Faithful, Without({"cut", "torn"}), Crash
  PROVE  Faithful'
<1>1. /\ \A b \in Branches : ~ Working(b) /\ memory'[b] = 0 /\ agent'[b] = None
      /\ \A c \in Callers : calls'[c] = Idle
      /\ \A u \in Users : ~ At(u, "applied")
      /\ UNCHANGED <<tree, row>>
  BY DEF Crash, Without
<1>2. \A b \in Branches : FitsMap(b)' /\ FitsRow(b)'
  BY <1>1, RowFits DEF FitsMap, FitsRow
<1>3. NoAgent' /\ calls'[Hook] = Idle
  BY <1>1 DEF NoAgent, Callers
<1>4. CASE \E b \in Branches : UnderReview(b)'
  <2> PICK b \in Branches : UnderReview(b)'
    BY <1>4
  <2>1. Only(b)'
    BY DEF Only, Ordered, One
  <2> QED
    BY <1>1, <1>2, <1>3, <2>1, RestingFits DEF At, Idle, Callers
<1>5. CASE \A b \in Branches : ~ UnderReview(b)'
  BY <1>1, <1>3, <1>5, NoneFits DEF UnderReview
<1> QED
  BY <1>4, <1>5

LEMMA FaithfulTimesOut ==
  ASSUME Typed, Ordered, InTurn, Faithful, NEW s \in Sessions, SessionTimesOut(s)
  PROVE  Faithful'
<1>1. /\ heap[s] \in SessionStates /\ heap[s].branch \in Branches /\ heap' = [heap EXCEPT ![s].timer = FALSE]
      /\ UNCHANGED <<tree, memory, row, hook, agent>>
  BY DEF SessionTimesOut, agentVars, Typed, HeapOK, SessionStates
<1>2. \A t \in Sessions : heap'[t].files = heap[t].files /\ heap'[t].state = heap[t].state
  BY <1>1 DEF Typed, HeapOK, SessionStates
<1>3. CASE memory[heap[s].branch] = 0
  BY <1>1, <1>2, <1>3, FaithfulSame DEF SessionTimesOut
<1>4. CASE memory[heap[s].branch] # 0
  <2> PICK b \in Branches : b = heap[s].branch
    BY <1>1
  <2>1. /\ Call(Timer, "aborting", b, memory[b], NoJob, "none")
        /\ (\A c \in Callers : calls[c] = Idle) /\ NoAgent
    BY <1>4, TimerCalm DEF SessionTimesOut, NoAgent
  <2>2. /\ calls'[Timer].pc = "aborting" /\ \A d \in Callers : d # Timer => calls'[d] = Idle
    BY <2>1, BegunCall DEF Callers
  <2>3. FitsMap(b) /\ FitsRow(b) /\ memory[b] \in Sessions /\ memory[b] # 0
    BY <1>4, <2>1, MapFits, RowFits, MapHolds DEF Working, NoAgent, At, Idle, Callers, Typed
  <2>4. Only(b)
    BY <2>3 DEF Only, Ordered, One, UnderReview
  <2>5. FitsMap(b)' /\ FitsRow(b)' /\ Only(b)' /\ NoAgent'
    BY <1>1, <1>2, <2>1, <2>3, <2>4 DEF FitsMap, FitsRow, Only, UnderReview, NoAgent, Fits
  <2>6. calls'[Hook] = Idle /\ \A v \in Users : calls'[v] = Idle
    BY <2>2, MergeAssumption DEF Callers
  <2> QED
    BY <2>2, <2>5, <2>6, RestingFits DEF Resting, At, Idle
<1> QED
  BY <1>3, <1>4

\* Before a step of the resolver: the session it works for.
LEMMA ResolverFits ==
  ASSUME Typed, Ordered, Faithful, NEW b \in Branches, agent[b] # None
  PROVE  /\ memory[b] \in Sessions /\ memory[b] # 0 /\ Only(b)
         /\ (\A c \in Callers : calls[c] = Idle /\ calls[c].pc = "idle")
         /\ (\A z \in Branches : z # b => agent[z] = None)
         /\ tree[b].merge => \A f \in Files : f \in agent[b].files \/ Kept(heap[memory[b]].files[f], tree[b].content[f])
         /\ \A f \in Files : heap[memory[b]].files[f].status = "agent_pending" => f \in agent[b].files
         /\ hook[b] # None /\ hook[b].files = agent[b].files
         /\ \A f \in agent[b].files : Handed(hook[b].kind, heap[memory[b]].files[f])
<1>1. memory[b] # 0 /\ memory[b] \in Sessions /\ \A c \in Callers : calls[c] = Idle /\ calls[c].pc = "idle"
  BY DEF Ordered, AgentAlone, Typed, MemoryOK, Idle
<1>2. Only(b)
  BY <1>1 DEF Only, Ordered, One, UnderReview
<1>3. \A z \in Branches : z # b => agent[z] = None
  BY <1>2 DEF Only, UnderReview, Ordered, AgentAlone
<1>4. \A f \in Files : /\ ~ Applying(b, f) /\ (Edited(b, f) => f \in agent[b].files)
                       /\ WaitsFor(b, f) => f \in agent[b].files
  BY <1>1 DEF Applying, Edited, WaitsFor, HandsOver, At, Callers
<1> QED
  BY <1>1, <1>2, <1>3, <1>4 DEF Faithful, Kepts, MapKept, Waiting, MapWaits, Hands, AgentHands

LEMMA FaithfulWrites ==
  ASSUME Typed, Ordered, Ordered', Faithful, Without({"stray"}), NEW b \in Branches, ResolverWrites(b)
  PROVE  Faithful'
<1> PICK f \in agent[b].files : tree' = [tree EXCEPT ![b].content[f] = <<"turn", agent[b].turn>>]
  BY DEF ResolverWrites, Without
<1>1. agent[b] # None /\ UNCHANGED <<heap, memory, row, hook, agent, calls>>
  BY DEF ResolverWrites, agentVars
<1>2. /\ memory[b] # 0 /\ Only(b)
      /\ (\A c \in Callers : calls[c].pc = "idle")
      /\ (\A z \in Branches : z # b => agent[z] = None)
      /\ tree[b].merge => \A g \in Files : g \in agent[b].files \/ Kept(heap[memory[b]].files[g], tree[b].content[g])
  BY <1>1, ResolverFits
<1>3. /\ tree'[b].merge = tree[b].merge
      /\ \A g \in Files : g # f => tree'[b].content[g] = tree[b].content[g]
  BY DEF Typed, TreeOK
<1>4. Working(b)' /\ \A z \in Branches : UnderReview(z)' => z = b
  BY <1>1, <1>2 DEF Working, Only, UnderReview
<1>5. MapKept'
  <2>1. ASSUME tree[b].merge, NEW g \in Files
        PROVE  Edited(b, g)' \/ Kept(heap[memory[b]].files[g], tree'[b].content[g])
    <3>1. CASE g \in agent[b].files
      BY <1>1, <3>1 DEF Edited
    <3>2. CASE g \notin agent[b].files
      BY <1>2, <1>3, <2>1, <3>2
    <3> QED
      BY <3>1, <3>2
  <2> QED
    BY <1>1, <1>3, <1>4, <2>1 DEF MapKept, UnderReview
<1>6. RowKept' /\ RowOpen'
  BY <1>4 DEF RowKept, RowOpen, UnderReview
<1>7. AppliesDecided' /\ CommitsDecided' /\ UserHands' /\ HookHands' /\ HookSeen'
  BY <1>1, <1>2 DEF AppliesDecided, CommitsDecided, UserHands, HookHands, HookSeen, At, Callers
<1>8. AgentHands' /\ MapWaits'
  BY <1>1 DEF Faithful, Hands, AgentHands, Waiting, MapWaits, Waits, WaitsFor, HandsOver
<1> QED
  BY <1>5, <1>6, <1>7, <1>8 DEF Faithful, Kepts, Hands, Waiting

LEMMA FaithfulTurnEnds ==
  ASSUME Typed, Ordered, Ordered', Faithful, NEW b \in Branches, ResolverTurnEnds(b)
  PROVE  Faithful'
<1> DEFINE x == heap[memory[b]]
           F == agent[b].files
           kind == hook[b].kind
<1>1. agent[b] # None /\ UNCHANGED <<tree, heap, memory, row>> /\ agent' = [agent EXCEPT ![b] = None]
  BY DEF ResolverTurnEnds
<1>2. /\ memory[b] \in Sessions /\ memory[b] # 0 /\ Only(b) /\ (\A c \in Callers : calls[c] = Idle)
      /\ (\A z \in Branches : z # b => agent[z] = None)
      /\ tree[b].merge => \A f \in Files : f \in F \/ Kept(x.files[f], tree[b].content[f])
      /\ \A f \in Files : x.files[f].status = "agent_pending" => f \in F
      /\ hook[b] # None /\ hook[b].files = F
      /\ \A f \in F : Handed(kind, x.files[f])
  BY <1>1, ResolverFits
<1>3. Call(Hook, "checking", b, memory[b], hook[b], "none")
  BY <1>2 DEF ResolverTurnEnds
<1>4. /\ calls'[Hook].pc = "checking" /\ calls'[Hook].branch = b /\ calls'[Hook].session = memory[b] /\ calls'[Hook] # Idle
      /\ calls'[Hook].files = F /\ calls'[Hook].kind = kind /\ \A d \in Callers : d # Hook => calls'[d] = Idle
  BY <1>2, <1>3, BegunCall DEF Callers
<1>5. /\ Working(b)' /\ NoAgent' /\ \A z \in Branches : UnderReview(z)' => z = b
  BY <1>1, <1>2, <1>4 DEF Working, Only, UnderReview, NoAgent, Typed, AgentOK
<1>6. \A u \in Users : calls'[u].pc = "idle"
  BY <1>4, MergeAssumption DEF Idle, Callers
<1> HIDE DEF x, F, kind
<1>7. MapKept'
  <2>1. \A f \in Files : f \in F => Edited(b, f)'
    BY <1>4 DEF Edited, At
  <2> QED
    BY <1>1, <1>2, <1>5, <2>1 DEF MapKept, UnderReview, x
<1>8. RowKept' /\ RowOpen'
  BY <1>5 DEF RowKept, RowOpen, UnderReview
<1>9. AppliesDecided' /\ CommitsDecided' /\ UserHands' /\ HookSeen' /\ AgentHands'
  BY <1>4, <1>5, <1>6 DEF AppliesDecided, CommitsDecided, UserHands, AgentHands, HookSeen, At, NoAgent
<1>10. HookHands'
  BY <1>1, <1>2, <1>4 DEF HookHands, At, x
<1>11. MapWaits'
  <2>1. HandsOver(Hook, b)' /\ Hook \in Callers
    BY <1>4 DEF HandsOver, Callers
  <2> QED
    BY <1>1, <1>2, <1>4, <1>5, <2>1 DEF MapWaits, Waits, WaitsFor, UnderReview, x
<1> QED
  BY <1>7, <1>8, <1>9, <1>10, <1>11 DEF Faithful, Kepts, Hands, Waiting

\* Before a step of the hook: what it finds.
LEMMA HookFits ==
  ASSUME Typed, Ordered, Faithful, NEW b \in Branches, b = calls[Hook].branch,
         calls[Hook].pc \in {"checking", "refreshing"}
  PROVE  LET c == calls[Hook]
             x == heap[c.session]
         IN /\ memory[b] = c.session /\ memory[b] # 0 /\ Only(b) /\ NoAgent
            /\ (\A d \in Callers : d # Hook => calls[d] = Idle)
            /\ tree[b].merge => \A f \in Files :
                 \/ f \in c.files /\ (c.pc = "checking" \/ c.choice = "none")
                 \/ Kept(x.files[f], tree[b].content[f])
            /\ \A f \in Files : x.files[f].status = "agent_pending" => f \in c.files
<1>1. Hook \in Callers /\ calls[Hook] # Idle /\ calls[Hook].pc \notin Started
  BY DEF Callers, Started, Idle
<1>2. /\ memory[b] = calls[Hook].session /\ memory[b] # 0 /\ Only(b) /\ NoAgent
      /\ \A d \in Callers : d # Hook => calls[d] = Idle
  BY <1>1, Alone DEF Only, NoAgent
<1>3. \A f \in Files :
        /\ ~ Applying(b, f)
        /\ Edited(b, f) => f \in calls[Hook].files /\ (calls[Hook].pc = "checking" \/ calls[Hook].choice = "none")
        /\ WaitsFor(b, f) => f \in calls[Hook].files
  BY <1>2, MergeAssumption DEF Applying, Edited, WaitsFor, HandsOver, NoAgent, At, Idle, Callers
<1> QED
  BY <1>2, <1>3 DEF Faithful, Kepts, MapKept, Waiting, MapWaits

LEMMA FaithfulChecks ==
  ASSUME Typed, Ordered, Ordered', Faithful, HookChecks
  PROVE  Faithful'
<1> PICK b \in Branches : b = calls[Hook].branch
  BY ChecksShape
<1> DEFINE c == calls[Hook]
           x == heap[c.session]
           y == heap'[c.session]
<1>1. /\ c.pc = "checking" /\ c # Idle /\ Hook \in Callers /\ x \in SessionStates /\ c.session \in Sessions
      /\ UNCHANGED <<tree, memory, row, hook, agent>>
      /\ \/ /\ c.kind = "retry" /\ UNCHANGED heap
            /\ calls' = [calls EXCEPT ![Hook].pc = "refreshing", ![Hook].choice = "none"]
         \/ /\ heap' = [heap EXCEPT ![c.session] = Inspected(x, c.kind, c.files, b)]
            /\ calls' = [calls EXCEPT ![Hook].pc = "refreshing", ![Hook].choice = "accept"]
  BY ChecksShape
<1>2. /\ memory[b] = c.session /\ memory[b] # 0 /\ Only(b) /\ NoAgent
      /\ (\A d \in Callers : d # Hook => calls[d] = Idle)
      /\ tree[b].merge => \A f \in Files : f \in c.files \/ Kept(x.files[f], tree[b].content[f])
      /\ \A f \in Files : x.files[f].status = "agent_pending" => f \in c.files
  BY <1>1, HookFits
<1>3. \A f \in c.files : Handed(c.kind, x.files[f])
  BY <1>1 DEF Faithful, Hands, HookHands, At
<1>4. c \in Calls
  BY <1>1 DEF Typed, CallsOK, CallOK
<1>5. /\ calls'[Hook].pc = "refreshing" /\ calls'[Hook].branch = b /\ calls'[Hook].session = c.session
      /\ calls'[Hook].kind = c.kind /\ calls'[Hook].files = c.files
      /\ \A d \in Callers : d # Hook => calls'[d] = Idle
      /\ \/ c.kind = "retry" /\ UNCHANGED heap /\ calls'[Hook].choice = "none"
         \/ heap'[c.session] = Inspected(x, c.kind, c.files, b) /\ calls'[Hook].choice = "accept"
  BY <1>1, <1>2, <1>4 DEF Typed, CallsOK, HeapOK, Calls
<1>6. calls'[Hook] # Idle /\ \A u \in Users : calls'[u].pc = "idle"
  BY <1>5, MergeAssumption DEF Idle, Callers
<1>7. \A f \in Files : x.files[f] \in FileStates
  BY <1>1 DEF SessionStates
\* What the hook makes of each file.
<1>8. /\ \A f \in Files : y.files[f].status = "agent_pending" => f \in c.files
      /\ c.files \subseteq Files
      /\ \A f \in c.files :
           IF c.kind = "resolve" THEN y.files[f].status # "agent_pending" /\ calls'[Hook].choice # "none"
           ELSE /\ y.files[f].status = "agent_pending"
                /\ calls'[Hook].choice # "none" => y.files[f].decision = "pending" /\ y.files[f].diff = tree[b].content[f]
      /\ tree[b].merge => \A f \in Files :
                 \/ f \in c.files /\ calls'[Hook].choice = "none"
                 \/ Kept(y.files[f], tree[b].content[f])
  <2>1. CASE c.kind = "retry" /\ UNCHANGED heap /\ calls'[Hook].choice = "none"
    BY <1>2, <1>3, <1>4, <2>1 DEF Handed, Calls
  <2>2. CASE heap'[c.session] = Inspected(x, c.kind, c.files, b) /\ calls'[Hook].choice = "accept"
    <3>1. y.files = Checked(x, c.kind, c.files, b)
      BY <1>1, <2>2, InspectedTyped
    <3> HIDE DEF y
    <3>2. CASE c.kind = "resolve"
      <4>1. \A f \in Files :
              /\ y.files[f].decision = x.files[f].decision
              /\ IF x.files[f].status = "conflict" /\ f \notin Unmerged(b)
                 THEN y.files[f].status = "agent_resolved" /\ y.files[f].diff = tree[b].content[f]
                 ELSE y.files[f].status = x.files[f].status /\ y.files[f].diff = x.files[f].diff
        BY <1>7, <3>1, <3>2 DEF Checked, FileStates
      <4>2. \A f \in c.files : x.files[f].status = "conflict" /\ x.files[f].decision = "pending"
        BY <1>3, <3>2 DEF Handed
      <4>3. ASSUME tree[b].merge, NEW f \in Files
            PROVE  Kept(y.files[f], tree[b].content[f])
        <5>1. x.files[f].decision \in Decisions \cup {"pending"}
          BY <1>7 DEF FileStates
        <5>2. CASE f \in c.files
          BY <4>1, <4>2, <5>2 DEF Kept
        <5>3. CASE f \notin c.files
          <6>1. Kept(x.files[f], tree[b].content[f])
            BY <1>2, <4>3, <5>3
          <6> QED
            BY <4>1, <5>1, <6>1 DEF Kept, Applied, Decisions
        <5> QED
          BY <5>2, <5>3
      <4>4. c.files \subseteq Files
        BY <1>4 DEF Calls
      <4> QED
        BY <1>2, <2>2, <3>2, <4>1, <4>2, <4>3, <4>4
    <3>3. CASE c.kind # "resolve"
      <4>1. \A f \in Files :
              /\ y.files[f].status = x.files[f].status
              /\ IF f \in c.files THEN y.files[f].decision = "pending" /\ y.files[f].diff = tree[b].content[f]
                 ELSE y.files[f].decision = x.files[f].decision /\ y.files[f].diff = x.files[f].diff
        BY <1>7, <3>1, <3>3 DEF Checked, FileStates
      <4>2. c.files \subseteq Files /\ \A f \in c.files : x.files[f].status = "agent_pending"
        BY <1>3, <1>4, <3>3 DEF Handed, Calls
      <4>3. ASSUME tree[b].merge, NEW f \in Files
            PROVE  Kept(y.files[f], tree[b].content[f])
        BY <1>2, <4>1, <4>2, <4>3 DEF Kept
      <4> QED
        BY <1>2, <2>2, <3>3, <4>1, <4>2, <4>3
    <3> QED
      BY <3>2, <3>3
  <2> QED
    BY <1>5, <2>1, <2>2
<1> HIDE DEF y
<1>9. /\ Working(b)' /\ NoAgent' /\ \A z \in Branches : UnderReview(z)' => z = b
  BY <1>1, <1>2, <1>6 DEF Working, Only, UnderReview, NoAgent
<1>10. MapKept'
  <2>1. \A f \in Files : f \in c.files /\ calls'[Hook].choice = "none" => Edited(b, f)'
    BY <1>5, <1>6 DEF Edited, At
  <2> QED
    BY <1>1, <1>2, <1>8, <1>9, <2>1 DEF MapKept, UnderReview, y
<1>11. RowKept' /\ RowOpen'
  BY <1>9 DEF RowKept, RowOpen, UnderReview
<1>12. AppliesDecided' /\ CommitsDecided' /\ UserHands' /\ HookHands' /\ AgentHands'
  BY <1>5, <1>6, <1>9 DEF AppliesDecided, CommitsDecided, UserHands, HookHands, AgentHands, At, NoAgent
<1>13. HookSeen'
  BY <1>1, <1>5, <1>8 DEF HookSeen, y
<1>14. MapWaits'
  <2>1. HandsOver(Hook, b)' /\ Hook \in Callers
    BY <1>1, <1>5 DEF HandsOver
  <2> QED
    BY <1>1, <1>2, <1>5, <1>8, <1>9, <2>1 DEF MapWaits, Waits, WaitsFor, UnderReview, y
<1> QED
  BY <1>10, <1>11, <1>12, <1>13, <1>14 DEF Faithful, Kepts, Hands, Waiting

LEMMA FaithfulRefreshes ==
  ASSUME Typed, Ordered, Ordered', Faithful, HookRefreshes
  PROVE  Faithful'
<1> PICK b \in Branches : b = calls[Hook].branch
  BY RefreshesShape
<1> DEFINE c == calls[Hook]
           x == heap[c.session]
           y == Refreshed(c, x)
<1>1. /\ c.pc = "refreshing" /\ c # Idle /\ Hook \in Callers /\ x \in SessionStates /\ c.session \in Sessions
      /\ x.branch = b /\ Store(c.session, y) /\ Return(Hook)
      /\ UNCHANGED <<tree, memory, hook, agent>>
  BY RefreshesShape
<1>2. /\ memory[b] = c.session /\ memory[b] # 0 /\ Only(b) /\ NoAgent
      /\ (\A d \in Callers : d # Hook => calls[d] = Idle)
      /\ tree[b].merge => \A f \in Files : (f \in c.files /\ c.choice = "none") \/ Kept(x.files[f], tree[b].content[f])
      /\ \A f \in Files : x.files[f].status = "agent_pending" => f \in c.files
  BY <1>1, HookFits
<1>3. \A f \in c.files :
        IF c.kind = "resolve" THEN x.files[f].status # "agent_pending" /\ c.choice # "none"
        ELSE /\ x.files[f].status = "agent_pending"
             /\ c.choice # "none" => x.files[f].decision = "pending" /\ x.files[f].diff = tree[b].content[f]
  BY <1>1 DEF Faithful, Hands, HookSeen, At
<1>4. /\ y \in SessionStates /\ y.branch = b /\ y.state = "reviewing"
      /\ \A f \in Files :
              /\ y.files[f].diff = x.files[f].diff
              /\ y.files[f].decision = IF f \in RefreshedBad(c) THEN "pending" ELSE x.files[f].decision
              /\ y.files[f].status = IF f \in RefreshedBad(c) THEN "conflict"
                               ELSE IF f \in RefreshedGood(c) THEN "agent_resolved" ELSE x.files[f].status
  BY <1>1, RefreshedShape
<1> HIDE DEF y
<1>5. /\ c.kind # "resolve" => \A f \in Files : f \in c.files <=> f \in RefreshedBad(c) \/ f \in RefreshedGood(c)
      /\ c.kind = "resolve" => RefreshedBad(c) = {} /\ RefreshedGood(c) = {}
      /\ c.kind # "resolve" /\ c.choice = "none" => \A f \in Files : f \in c.files => f \in RefreshedBad(c)
  BY DEF RefreshedBad, RefreshedGood
<1>6. \A f \in Files : y.files[f].status # "agent_pending"
  BY <1>2, <1>3, <1>4, <1>5
<1>7. ASSUME tree[b].merge, NEW f \in Files
      PROVE  Kept(y.files[f], tree[b].content[f])
  <2>1. CASE f \in RefreshedBad(c)
    BY <1>4, <2>1 DEF Kept
  <2>2. CASE f \notin RefreshedBad(c) /\ f \in RefreshedGood(c)
    <3>1. f \in c.files /\ c.kind # "resolve" /\ c.choice # "none"
      BY <1>5, <2>2
    <3> QED
      BY <1>3, <1>4, <2>2, <3>1 DEF Kept
  <2>3. CASE f \notin RefreshedBad(c) /\ f \notin RefreshedGood(c)
    <3>1. Kept(x.files[f], tree[b].content[f])
      BY <1>2, <1>3, <1>5, <1>7, <2>3
    <3> QED
      BY <1>4, <2>3, <3>1 DEF Kept
  <2> QED
    BY <2>1, <2>2, <2>3
<1>8. Fits(y, tree[b])
  BY <1>4, <1>6, <1>7 DEF Fits
<1>9. heap'[c.session] = y /\ SavedAs(b, y)
  BY <1>1, <1>4, PersistShape DEF Store, Typed, HeapOK
<1>10. FitsRow(b)' /\ FitsMap(b)' /\ Only(b)' /\ NoAgent' /\ \A d \in Callers : calls'[d] = Idle
  BY <1>1, <1>2, <1>8, <1>9, FitsSaved, OnlyStays, FollowsReturn DEF FitsMap, NoAgent
<1> QED
  BY <1>1, <1>10, RestingFits DEF At, Idle, Callers

\* What the user agreed to is what the worktree holds.
LEMMA FaithfulNext ==
  Typed /\ InTurn /\ Ordered /\ Ordered' /\ Without({"cut", "stop", "git", "torn", "stray"}) /\ Merges /\ Faithful /\ [Next]_vars
    => Faithful'
<1> SUFFICES ASSUME Typed, InTurn, Ordered, Ordered', Without({"cut", "stop", "git", "torn", "stray"}), Merges, Faithful, [Next]_vars
             PROVE  Faithful'
  OBVIOUS
<1>0. Without({"cut", "torn"}) /\ Without({"git"}) /\ Without({"stray"}) /\ "stop" \notin env /\ "git" \notin env
  BY DEF Without
<1>1. ASSUME NEW u \in Users, NEW b \in Branches, Begin(u, b)
      PROVE  Faithful'
  BY <1>1, HandShape, FaithfulStart, FaithfulGet, FaithfulRests, FaithfulDecide, FaithfulHands DEF Begin
<1>2. ASSUME NEW u \in Users, Continue(u)
      PROVE  Faithful'
  <2>1. ~ CommitRefused(u)
    BY <1>0 DEF CommitRefused, Merges, CommitsClean
  <2> QED
    BY <1>0, <1>2, <2>1, FaithfulMerge, FaithfulCreate, FaithfulApplies, FaithfulApplied, FaithfulRefused, FaithfulAccepted, FaithfulEnsure,
       FaithfulTurn, FaithfulFails, FaithfulGoesOn, FaithfulEnds DEF Continue
<1>3. ASSUME NEW b \in Branches, Resolver(b) \/ HandleMerge(b) \/ RecoverSession(b)
      PROVE  Faithful'
  <2>1. CASE HandleMerge(b)
    BY <2>1, FaithfulSame DEF HandleMerge, agentVars
  <2>2. ~ ResolverTurnStopped(b)
    BY <1>0 DEF ResolverTurnStopped
  <2> QED
    BY <1>0, <1>3, <2>1, <2>2, FaithfulWrites, FaithfulTurnEnds, FaithfulRecover DEF Resolver
<1>4. CASE UNCHANGED vars
  BY <1>4, FaithfulSame DEF vars
<1> QED
  BY <1>0, <1>1, <1>2, <1>3, <1>4, FaithfulChecks, FaithfulRefreshes, FaithfulTimesOut, FaithfulEnds, FaithfulCrash DEF Next

-----------------------------------------------------------------------------
(* The invariant                                                           *)

LEMMA InitInv == Init => IInv
<1> SUFFICES ASSUME Init
             PROVE  IInv
  OBVIOUS
<1>1. Typed
  BY TypedInit
<1>2. \A b \in Branches : memory[b] = 0 /\ row[b] = None /\ agent[b] = None /\ ~ tree[b].merge
  BY DEF Init, Clean
<1>3. \A c \in Callers : calls[c] = Idle /\ calls[c].pc = "idle"
  BY DEF Init, Idle
<1>4. Ordered /\ Truth /\ TakesSides
  BY <1>2, <1>3 DEF Ordered, MapStored, One, UnderReview, OneCall, InMap, StartsAlone, AgentAlone,
                    Truth, MapResolved, RowResolved, TakesSides, At, Callers
<1>5. Merges
  BY <1>2, <1>3 DEF Merges, MergeHeld, CommitsClean, MergeOver, At, Callers
<1>6. Faithful
  <2>1. Kepts
    BY <1>2, <1>3 DEF Kepts, MapKept, RowKept, AppliesDecided, At, Callers
  <2>2. Hands
    BY <1>2, <1>3 DEF Hands, UserHands, AgentHands, HookHands, HookSeen, At, Callers
  <2>3. Waiting /\ CommitsDecided
    BY <1>2, <1>3 DEF Waiting, MapWaits, RowOpen, CommitsDecided, At, Callers
  <2> QED
    BY <2>1, <2>2, <2>3 DEF Faithful
<1> QED
  BY <1>1, <1>4, <1>5, <1>6 DEF IInv

LEMMA NextInv == IInv /\ [Next]_vars => IInv'
<1> SUFFICES ASSUME IInv, [Next]_vars
             PROVE  IInv'
  OBVIOUS
<1>1. Typed' /\ UNCHANGED env
  BY TypedNext, EnvStays DEF IInv
<1>2. (InTurn => Ordered /\ Truth /\ TakesSides)'
  BY <1>1, OrderedNext, TruthNext, SidesNext DEF IInv, InTurn, Without
<1>3. (InTurn /\ Without({"cut", "git"}) => Merges)'
  BY <1>1, MergesNext DEF IInv, InTurn, Without
<1>4. (InTurn /\ Without({"cut", "stop", "git", "torn", "stray"}) => Faithful)'
  <2> SUFFICES ASSUME InTurn', Without({"cut", "stop", "git", "torn", "stray"})'
               PROVE  Faithful'
    OBVIOUS
  <2>1. InTurn /\ Without({"cut", "stop", "git", "torn", "stray"}) /\ Without({"cut", "git"})
    BY <1>1 DEF InTurn, Without
  <2>2. Ordered' /\ InTurn'
    BY <1>2
  <2> QED
    BY <2>1, <2>2, FaithfulNext DEF IInv
<1> QED
  BY <1>1, <1>2, <1>3, <1>4 DEF IInv

LEMMA SpecInv == Spec => []IInv
BY InitInv, NextInv, PTL DEF Spec

-----------------------------------------------------------------------------
(* Theorems                                                                *)

LEMMA InvOwned == IInv => MergeOwned
BY DEF IInv, MergeOwned, Merges, MergeHeld, Without

\* While the calls on reviews wait for each other, no restart cuts the start of
\* a review off, none throws before it is entered and no git command fails, a worktree is in a merge only if a review, in the map or
\* stored, owns it (startMergeSession, commitMergeSession, cancelMergeReview,
\* the timeout and recoverSessions), whatever the branches, files and users.
THEOREM MergeAlwaysOwned == Spec => []MergeOwned
BY SpecInv, InvOwned, PTL

LEMMA InvKept == IInv => ReviewsKept
<1> SUFFICES ASSUME IInv
             PROVE  ReviewsKept
  OBVIOUS
<1>1. TypeOK
  BY TypedTypeOK DEF IInv
<1>2. OneReview
  <2> DEFINE S == {b \in Branches : memory[b] # 0 \/ row[b] # None}
  <2> SUFFICES ASSUME InTurn
               PROVE  Cardinality(S) <= 1
    BY DEF OneReview
  <2>1. \A a, b \in S : a = b
    BY DEF IInv, Ordered, One, UnderReview
  <2>2. CASE S = {}
    BY <2>2, FS_EmptySet
  <2>3. CASE S # {}
    <3> PICK b \in S : TRUE
      BY <2>3
    <3>1. S = {b}
      BY <2>1
    <3> QED
      BY <3>1, FS_Singleton
  <2> QED
    BY <2>2, <2>3
<1>3. ResolvedTrue
  BY DEF ResolvedTrue, IInv, Truth, MapResolved, Resolved
<1> QED
  BY <1>1, <1>2, <1>3 DEF ReviewsKept

\* Over restarts, timeouts and the turns of resolvers a project has one review
\* at a time, in the map or stored (startMergeReview), and no file is shown as
\* resolved that the index still calls unmerged (decideFile, the turn-complete
\* hooks and validateSessionForRecovery).
THEOREM ReviewsStayKept == Spec => []ReviewsKept
BY SpecInv, InvKept, PTL

LEMMA StepLands ==
  IInv /\ [Next]_vars =>
    [\A u \in Users :
       InTurn /\ Without({"cut", "stop", "git", "torn", "stray"})
       /\ At(u, "committing") /\ calls'[u].pc = "landing" /\ tree[calls[u].branch].merge
       => \A f \in Files :
            LET file == heap[calls[u].session].files[f] IN
            file.decision # "pending" /\ Agreed(file) = tree[calls[u].branch].content[f]]_vars
<1> SUFFICES ASSUME IInv, NEW u \in Users, InTurn, Without({"cut", "stop", "git", "torn", "stray"}), At(u, "committing"),
                    tree[calls[u].branch].merge, NEW f \in Files
             PROVE  LET file == heap[calls[u].session].files[f] IN
                    file.decision # "pending" /\ Agreed(file) = tree[calls[u].branch].content[f]
  OBVIOUS
<1> DEFINE file == heap[calls[u].session].files[f]
<1>1. Typed /\ Ordered /\ Faithful
  BY DEF IInv
<1>2. calls[u].pc \notin Started \cup {"idle"} /\ calls[u].pc \in Resting /\ u \in Callers
  BY DEF At, Started, Resting, Callers
<1>3. Fits(heap[calls[u].session], tree[calls[u].branch])
  BY <1>1, <1>2, CallerFits, CallerHolds DEF Typed
<1>4. file.decision # "pending" /\ file.status # "conflict" /\ file.status # "agent_pending"
  BY <1>1, <1>3 DEF Faithful, CommitsDecided, Fits
<1>5. Kept(file, tree[calls[u].branch].content[f])
  BY <1>3 DEF Fits
<1> QED
  BY <1>4, <1>5 DEF Kept, Agreed

\* While the worktree changes with the session (no turn is cut off or stopped or
\* edits files it was not given, no git command fails, no restart falls between
\* the worktree and the row of a decision), the commit of a merge
\* (commitMergeSession) holds for every file what its user agreed to: the
\* version shown or the side chosen, however often the files went to the
\* resolver and the server restarted elsewhere in between.
THEOREM ReviewAlwaysLands == Spec => ReviewedLands
BY SpecInv, StepLands, PTL DEF ReviewedLands, Spec

=============================================================================
