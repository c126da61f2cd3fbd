------------------------ MODULE ThreadRuntimeProofs ------------------------
(***************************************************************************)
(* Theorems about ThreadRuntime, for any names, rows, sessions, processes, *)
(* users, bounds and hardships.                                            *)
(*                                                                         *)
(* OneActive follows the reservation: the row a call reserved is the only  *)
(* one of its name that can become active, and keeps others from reserving *)
(* the name, whether or not refused calls leave rows of their own.         *)
(* NoOrphan and ReadyManaged follow the process: it is managed under one   *)
(* name from its start to its end, so that an API on a living process, or  *)
(* a call about to make one of it, finds it in the manager.                *)
(* SessionKept follows the turns: who starts one has claimed its thread    *)
(* alone, while the agent works on none but the one about to be recorded   *)
(* (Alone), and commands know that their thread was activated (Followed).  *)
(***************************************************************************)
EXTENDS ThreadRuntime, FiniteSetTheorems, TLAPS

\* A frame has a name, and a row, from where they are needed on.
FrameOK(f) ==
    /\ f.pc \notin {"idle", "recover", "deactivate"} => f.name \in Names
    /\ f.pc \in {"prepare", "threadStart", "activate", "release"} => f.row \in Rows

\* A call that creates a thread, from its reservation to the thread's activation.
CreatePCs == {"prepare", "request", "spawn", "initialize", "join", "threadStart", "activate", "release"}
Creates(f) == f.pc \in CreatePCs /\ f.row # NoRow

Typed == TypeOK /\ \A c \in Clients : FrameOK(cmd[c])

\* The row of a call that creates a thread is reserved, and its name unused.
Reserved ==
    \A c \in Clients : Creates(cmd[c]) =>
        /\ rows[cmd[c].row].name = cmd[c].name /\ rows[cmd[c].row].status = "creating"
        /\ \A r \in Rows : rows[r].name = cmd[c].name => rows[r].status # "active"

OneCreates ==
    \A c, d \in Clients : Creates(cmd[c]) /\ Creates(cmd[d]) /\ cmd[c].name = cmd[d].name => c = d

OneRow ==
    \A q, r \in Rows :
        rows[q].status = "active" /\ rows[r].status = "active" /\ rows[q].name = rows[r].name => q = r

Owned == Reserved /\ OneCreates /\ OneRow

\* What is managed lives, under one name, and all that lives is managed.
Managed ==
    /\ \A n \in Names : managed[n] # NoProc => process[managed[n]] = "live"
    /\ \A n, m \in Names : managed[n] = managed[m] /\ managed[n] # NoProc => n = m
    /\ \A p \in Procs : process[p] = "live" => \E n \in Names : managed[n] = p

\* A process that was spawned for a name, and lives, is managed under it.
Spawned(p, n) == p \in Procs /\ process[p] # "unused" /\ (process[p] = "live" => managed[n] = p)
Starts == \A c \in Clients : cmd[c].pc = "initialize" => Spawned(cmd[c].proc, cmd[c].name)
Serves == \A n \in Names : Ready(n) => Spawned(pool[n].proc, n)

Processes == Managed /\ Starts /\ Serves

IInv == Typed /\ Owned /\ Processes

-----------------------------------------------------------------------------
(* Frames.                                                                 *)

\* A frame f that may follow g: it creates a thread, or waits for initialize, only
\* as g did.
Follows(f, g) ==
    /\ f \in Frame /\ FrameOK(f)
    /\ Creates(f) => Creates(g) /\ f.name = g.name /\ f.row = g.row
    /\ f.pc = "initialize" => g.pc = "initialize" /\ f.name = g.name /\ f.proc = g.proc

CmdFollows == cmd' \in [Clients -> Frame] /\ \A c \in Clients : Follows(cmd'[c], cmd[c])

LEMMA BlankFollows == Blank \in Frame /\ Blank.pc = "idle" /\ \A g : Follows(Blank, g)
<1>1. Blank \in Frame /\ Blank.pc = "idle"
  BY DEF Blank, Frame, PCs
<1> QED BY <1>1 DEF Follows, FrameOK, Creates, CreatePCs

\* One frame is replaced by one that may follow it.
LEMMA OneFollows ==
  ASSUME Typed, NEW c \in Clients, NEW f, Follows(f, cmd[c]), cmd' = [cmd EXCEPT ![c] = f]
  PROVE  CmdFollows
  BY DEF Typed, TypeOK, Follows, CmdFollows

LEMMA NoneFollows ==
  ASSUME Typed, UNCHANGED cmd
  PROVE  CmdFollows
  BY DEF Typed, TypeOK, Follows, CmdFollows

\* A call goes on to a point where what it holds suffices, or returns.
LEMMA GotoFollows ==
  ASSUME Typed, NEW c \in Clients, NEW pc \in PCs \ {"initialize"}, Goto(c, pc),
         pc \notin {"idle", "recover", "deactivate"} => cmd[c].name \in Names,
         pc \in {"prepare", "threadStart", "activate", "release"} => cmd[c].row \in Rows,
         pc \in CreatePCs => cmd[c].pc \in CreatePCs
  PROVE  CmdFollows
<1> DEFINE f == [cmd[c] EXCEPT !.pc = pc]
<1>1. cmd[c] \in Frame
  BY DEF Typed, TypeOK
<1>2. f \in Frame /\ f.pc = pc /\ f.name = cmd[c].name /\ f.row = cmd[c].row
  BY <1>1 DEF Frame
<1>3. Follows(f, cmd[c])
  BY <1>2 DEF Follows, FrameOK, Creates
<1>4. cmd' = [cmd EXCEPT ![c] = f]
  BY DEF Goto, Typed, TypeOK
<1> HIDE DEF f
<1> QED BY <1>3, <1>4, OneFollows

LEMMA ReturnFollows ==
  ASSUME Typed, NEW c \in Clients, Return(c)
  PROVE  CmdFollows
  BY BlankFollows, OneFollows DEF Return

\* Commands, but for the reservation of a name,
LEMMA FollowsCommand ==
  ASSUME Typed, NEW u \in Users, Command(u), \A n \in Names : ~ Reserve(u, n)
  PROVE  CmdFollows
<1>0. u \in Clients /\ cmd[u] \in Frame
  BY DEF Clients, Typed, TypeOK
<1>1. CASE LeaveThread(u) \/ LinkProject(u)
  BY <1>1, NoneFollows DEF LeaveThread, LinkProject
<1>2. CASE BeginTurn(u)
  <2> DEFINE f == [cmd[u] EXCEPT !.pc = "turn", !.name = bind[u].name, !.session = bind[u].session]
  <2>1. CASE UNCHANGED cmd
    BY <2>1, NoneFollows
  <2>2. CASE cmd' = [cmd EXCEPT ![u].pc = "turn", ![u].name = bind[u].name, ![u].session = bind[u].session]
    <3>1. f \in Frame /\ f.pc = "turn" /\ f.name \in Names
      BY <1>0, <1>2 DEF BeginTurn, Typed, TypeOK, Frame, PCs
    <3>2. Follows(f, cmd[u])
      BY <3>1 DEF Follows, FrameOK, Creates, CreatePCs
    <3>3. cmd' = [cmd EXCEPT ![u] = f]
      BY <1>0, <2>2 DEF Typed, TypeOK
    <3> HIDE DEF f
    <3> QED BY <1>0, <3>2, <3>3, OneFollows
  <2> QED BY <1>2, <2>1, <2>2 DEF BeginTurn
<1>3. CASE DisableProject(u)
  BY <1>0, <1>3, GotoFollows DEF DisableProject, PCs, CreatePCs
<1>4. CASE ReactivateProject(u)
  <2> DEFINE f == [cmd[u] EXCEPT !.pc = "recover", !.todo = {n \in Names : Active(n) # {}}]
  <2>1. f \in Frame /\ f.pc = "recover"
    BY <1>0 DEF Frame, PCs
  <2>2. Follows(f, cmd[u])
    BY <2>1 DEF Follows, FrameOK, Creates, CreatePCs
  <2>3. cmd' = [cmd EXCEPT ![u] = f]
    BY <1>0, <1>4 DEF ReactivateProject, Typed, TypeOK
  <2> HIDE DEF f
  <2> QED BY <1>0, <2>2, <2>3, OneFollows
<1>5. ASSUME NEW n \in Names, JoinThread(u, n) PROVE CmdFollows
  <2>1. PICK r \in Active(n) :
          cmd' = [cmd EXCEPT ![u].pc = "bind", ![u].name = n, ![u].session = rows[r].session]
    BY <1>5 DEF JoinThread
  <2> DEFINE f == [cmd[u] EXCEPT !.pc = "bind", !.name = n, !.session = rows[r].session]
  <2>2. rows[r].session \in Sessions \cup {NoSession}
    BY DEF Active, RowsOf, Typed, TypeOK
  <2>3. f \in Frame /\ f.pc = "bind" /\ f.name = n
    BY <1>0, <2>2 DEF Frame, PCs
  <2>4. Follows(f, cmd[u])
    BY <2>3 DEF Follows, FrameOK, Creates, CreatePCs
  <2>5. cmd' = [cmd EXCEPT ![u] = f]
    BY <1>0, <2>1 DEF Typed, TypeOK
  <2> HIDE DEF f
  <2> QED BY <1>0, <2>4, <2>5, OneFollows
<1>6. ASSUME NEW n \in Names, NEW pc \in {"remove", "policy"},
             cmd' = [cmd EXCEPT ![u].pc = pc, ![u].name = n]
      PROVE  CmdFollows
  <2> DEFINE f == [cmd[u] EXCEPT !.pc = pc, !.name = n]
  <2>1. f \in Frame /\ f.pc = pc /\ f.name = n
    BY <1>0 DEF Frame, PCs
  <2>2. Follows(f, cmd[u])
    BY <2>1 DEF Follows, FrameOK, Creates, CreatePCs
  <2>3. cmd' = [cmd EXCEPT ![u] = f]
    BY <1>0, <1>6 DEF Typed, TypeOK
  <2> HIDE DEF f
  <2> QED BY <1>0, <2>2, <2>3, OneFollows
<1>7. ASSUME NEW n \in Names, DeleteThread(u, n) \/ ConfirmPolicy(u, n)
      PROVE  \E pc \in {"remove", "policy"} : cmd' = [cmd EXCEPT ![u].pc = pc, ![u].name = n]
  BY <1>7 DEF DeleteThread, ConfirmPolicy
<1> QED BY <1>1, <1>2, <1>3, <1>4, <1>5, <1>6, <1>7 DEF Command

\* the steps of an API's start, but for the spawn,
LEMMA FollowsApi ==
  ASSUME Typed, NEW c \in Clients, ApiStep(c), ~ SpawnProcess(c)
  PROVE  CmdFollows
<1>0. cmd[c] \in Frame /\ FrameOK(cmd[c])
  BY DEF Typed, TypeOK
<1>1. CASE RequestApi(c)
  <2> DEFINE n  == cmd[c].name
             pc == IF cmd[c].row = NoRow THEN "recover" ELSE "threadStart"
  <2>1. cmd[c].pc = "request" /\ n \in Names /\ cmd[c].row \in Rows \cup {NoRow}
    BY <1>0, <1>1 DEF RequestApi, At, FrameOK, Frame
  <2>2. pool[n].proc \in Procs \cup {NoProc} /\ pool[n].starter \in Clients \cup {NoOne}
    BY <2>1 DEF Typed, TypeOK
  <2>3. CASE cmd' = [cmd EXCEPT ![c].pc = pc, ![c].proc = pool[n].proc]
    <3> DEFINE f == [cmd[c] EXCEPT !.pc = pc, !.proc = pool[n].proc]
    <3>0. pc \in PCs
      BY DEF PCs
    <3> HIDE DEF pc
    <3>1. f \in Frame /\ f.pc = pc /\ f.row = cmd[c].row /\ f.name = n
      BY <1>0, <2>2, <3>0 DEF Frame
    <3> USE DEF pc
    <3>2. Follows(f, cmd[c])
      BY <2>1, <3>1 DEF Follows, FrameOK, Creates, CreatePCs
    <3>3. cmd' = [cmd EXCEPT ![c] = f]
      BY <2>3 DEF Typed, TypeOK
    <3> HIDE DEF f
    <3> QED BY <3>2, <3>3, OneFollows
  <2>4. ASSUME NEW to \in {"join", "spawn"}, NEW via \in Clients \cup {NoOne},
               cmd' = [cmd EXCEPT ![c].pc = to, ![c].via = via]
        PROVE  CmdFollows
    <3> DEFINE f == [cmd[c] EXCEPT !.pc = to, !.via = via]
    <3>1. f \in Frame /\ f.pc = to /\ f.row = cmd[c].row /\ f.name = n
      BY <1>0 DEF Frame, PCs
    <3>2. Follows(f, cmd[c])
      BY <2>1, <3>1 DEF Follows, FrameOK, Creates, CreatePCs
    <3>3. cmd' = [cmd EXCEPT ![c] = f]
      BY <2>4 DEF Typed, TypeOK
    <3> HIDE DEF f
    <3> QED BY <3>2, <3>3, OneFollows
  <2> QED BY <1>1, <2>2, <2>3, <2>4 DEF RequestApi
<1>2. CASE InitializeAnswered(c) \/ InitializeFails(c)
  <2>1. cmd[c].proc \in Procs \cup {NoProc}
    BY <1>0 DEF Frame
  <2>2. ASSUME NEW d \in Awaiting(c)
        PROVE  Follows(Started(c, d), cmd[d]) /\ Follows(NotStarted(d), cmd[d])
    <3>1. cmd[d] \in Frame /\ FrameOK(cmd[d]) /\ cmd[d].pc \in {"initialize", "join"}
      BY DEF Awaiting, Typed, TypeOK
    <3>2. /\ Started(c, d) \in Frame /\ NotStarted(d) \in Frame
          /\ Started(c, d).pc = IF cmd[d].row = NoRow THEN "recover" ELSE "threadStart"
          /\ NotStarted(d).pc = IF cmd[d].row = NoRow THEN "recover" ELSE "release"
          /\ Started(c, d).name = cmd[d].name /\ Started(c, d).row = cmd[d].row
          /\ NotStarted(d).name = cmd[d].name /\ NotStarted(d).row = cmd[d].row
      BY <2>1, <3>1 DEF Started, NotStarted, Frame, PCs
    <3>3. cmd[d].row \in Rows \cup {NoRow}
      BY <3>1 DEF Frame
    <3> QED BY <3>1, <3>2, <3>3 DEF Follows, FrameOK, Creates, CreatePCs
  <2>3. \A d \in Clients : Follows(cmd[d], cmd[d])
    BY DEF Typed, TypeOK, Follows
  <2>4. /\ DOMAIN cmd' = Clients /\ cmd' = [d \in Clients |-> cmd'[d]]
        /\ \A d \in Clients : Follows(cmd'[d], cmd[d])
    BY <1>2, <2>2, <2>3 DEF InitializeAnswered, InitializeFails
  <2>5. \A d \in Clients : cmd'[d] \in Frame
    BY <2>4 DEF Follows
  <2> QED BY <2>4, <2>5 DEF CmdFollows
<1>3. CASE RecoverThread(c)
  <2>1. ASSUME NEW n \in cmd[c].todo,
               NEW f \in {[Blank EXCEPT !.todo = cmd[c].todo \ {n}, !.pc = "recover"],
                          [Blank EXCEPT !.todo = cmd[c].todo \ {n}, !.pc = "request", !.name = n]}
        PROVE  Follows(f, cmd[c])
    <3>1. cmd[c].todo \in SUBSET Names
      BY <1>0 DEF Frame
    <3>2. f \in Frame /\ f.row = NoRow /\ f.pc \in {"recover", "request"} /\ (f.pc = "request" => f.name \in Names)
      BY <2>1, <3>1 DEF Blank, Frame, PCs
    <3> QED BY <3>2 DEF Follows, FrameOK, Creates
  <2>2. \/ Return(c)
        \/ \E n \in cmd[c].todo :
             \E f \in {[Blank EXCEPT !.todo = cmd[c].todo \ {n}, !.pc = "recover"],
                       [Blank EXCEPT !.todo = cmd[c].todo \ {n}, !.pc = "request", !.name = n]} :
               cmd' = [cmd EXCEPT ![c] = f]
    BY <1>3 DEF RecoverThread, Blank
  <2> QED BY <2>1, <2>2, ReturnFollows, OneFollows
<1> QED BY <1>1, <1>2, <1>3 DEF ApiStep

\* the steps of commands on threads,
LEMMA FollowsThread ==
  ASSUME Typed, NEW u \in Users, ThreadStep(u)
  PROVE  CmdFollows
<1>0. u \in Clients /\ cmd[u] \in Frame /\ FrameOK(cmd[u])
  BY DEF Clients, Typed, TypeOK
<1>1. CASE PrepareWorktree(u)
  BY <1>0, <1>1, GotoFollows DEF PrepareWorktree, At, FrameOK, PCs, CreatePCs
<1>2. CASE ThreadStarted(u)
  <2>1. cmd[u].pc = "threadStart" /\ cmd[u].name \in Names
    BY <1>0, <1>2 DEF ThreadStarted, At, FrameOK
  <2>2. CASE Goto(u, "release")
    BY <1>0, <2>1, <2>2, GotoFollows DEF FrameOK, PCs, CreatePCs
  <2>3. ASSUME NEW s \in Sessions, cmd' = [cmd EXCEPT ![u].pc = "activate", ![u].session = s]
        PROVE  CmdFollows
    <3> DEFINE f == [cmd[u] EXCEPT !.pc = "activate", !.session = s]
    <3>1. f \in Frame /\ f.pc = "activate" /\ f.row = cmd[u].row /\ f.name = cmd[u].name
      BY <1>0 DEF Frame, PCs
    <3>2. Follows(f, cmd[u])
      BY <1>0, <2>1, <3>1 DEF Follows, FrameOK, Creates, CreatePCs
    <3>3. cmd' = [cmd EXCEPT ![u] = f]
      BY <1>0, <2>3 DEF Typed, TypeOK
    <3> HIDE DEF f
    <3> QED BY <1>0, <3>2, <3>3, OneFollows
  <2> QED BY <1>2, <2>2, <2>3 DEF ThreadStarted
<1>3. CASE Activate(u)
  BY <1>0, <1>3, GotoFollows DEF Activate, At, FrameOK, PCs, CreatePCs
<1>4. CASE ReleaseReservation(u)
  BY <1>0, <1>4, GotoFollows, ReturnFollows DEF ReleaseReservation, At, FrameOK, PCs, CreatePCs
<1>5. CASE DisposeRuntime(u) \/ BindUser(u) \/ MarkMerged(u) \/ ApplyPolicy(u) \/ DeactivateProject(u)
  BY <1>0, <1>5, ReturnFollows DEF DisposeRuntime, BindUser, MarkMerged, ApplyPolicy, DeactivateProject
<1>6. CASE RemoveWorktree(u)
  <2>1. Goto(u, "mark") \/ Return(u)
    BY <1>6 DEF RemoveWorktree
  <2>2. cmd[u].name \in Names
    BY <1>0, <1>6 DEF RemoveWorktree, At, FrameOK
  <2> QED BY <1>0, <2>1, <2>2, GotoFollows, ReturnFollows DEF PCs, CreatePCs
<1> QED BY <1>1, <1>2, <1>3, <1>4, <1>5, <1>6 DEF ThreadStep

\* and those of a turn.
LEMMA FollowsTurn ==
  ASSUME Typed, NEW u \in Users, TurnStep(u)
  PROVE  CmdFollows
<1>0. u \in Clients /\ cmd[u] \in Frame /\ FrameOK(cmd[u])
  BY DEF Clients, Typed, TypeOK
<1>1. CASE ResolveAgentApi(u)
  <2> DEFINE n == cmd[u].name
  <2>1. n \in Names
    BY <1>0, <1>1 DEF ResolveAgentApi, FrameOK
  <2>2. pool[n].proc \in Procs \cup {NoProc}
    BY <2>1 DEF Typed, TypeOK
  <2>3. ASSUME NEW pc \in {"turnStart", "reinit"},
               cmd' = [cmd EXCEPT ![u].pc = pc, ![u].proc = pool[n].proc]
        PROVE  CmdFollows
    <3> DEFINE f == [cmd[u] EXCEPT !.pc = pc, !.proc = pool[n].proc]
    <3>1. f \in Frame /\ f.pc = pc /\ f.name = n
      BY <1>0, <2>2 DEF Frame, PCs
    <3>2. Follows(f, cmd[u])
      BY <2>1, <3>1 DEF Follows, FrameOK, Creates, CreatePCs
    <3>3. cmd' = [cmd EXCEPT ![u] = f]
      BY <1>0, <2>3 DEF Typed, TypeOK
    <3> HIDE DEF f
    <3> QED BY <1>0, <3>2, <3>3, OneFollows
  <2>4. \/ \E pc \in {"turnStart", "reinit"} : cmd' = [cmd EXCEPT ![u].pc = pc, ![u].proc = pool[n].proc]
        \/ Return(u)
    BY <1>0, <1>1 DEF ResolveAgentApi, TurnFails, Typed, TypeOK
  <2> QED BY <1>0, <2>3, <2>4, ReturnFollows
<1>2. CASE TurnAnswered(u)
  BY <1>0, <1>2, GotoFollows, ReturnFollows DEF TurnAnswered, TurnFails, At, FrameOK, PCs, CreatePCs
<1>3. CASE ResumeAnswered(u)
  BY <1>0, <1>3, GotoFollows, ReturnFollows DEF ResumeAnswered, TurnFails, At, FrameOK, PCs, CreatePCs
<1>4. CASE StartAgain(u)
  <2>1. ASSUME NEW s \in Sessions,
               cmd' = [cmd EXCEPT ![u].pc = "replace", ![u].old = cmd[u].session, ![u].session = s]
        PROVE  CmdFollows
    <3> DEFINE f == [cmd[u] EXCEPT !.pc = "replace", !.old = cmd[u].session, !.session = s]
    <3>1. f \in Frame /\ f.pc = "replace" /\ f.name = cmd[u].name
      BY <1>0 DEF Frame, PCs
    <3>2. Follows(f, cmd[u])
      BY <1>0, <1>4, <3>1 DEF StartAgain, At, Follows, FrameOK, Creates, CreatePCs
    <3>3. cmd' = [cmd EXCEPT ![u] = f]
      BY <1>0, <2>1 DEF Typed, TypeOK
    <3> HIDE DEF f
    <3> QED BY <1>0, <3>2, <3>3, OneFollows
  <2> QED BY <1>0, <1>4, <2>1, ReturnFollows DEF StartAgain, TurnFails
<1>5. CASE ReplaceSession(u)
  BY <1>0, <1>5, GotoFollows, ReturnFollows DEF ReplaceSession, TurnFails, At, FrameOK, PCs, CreatePCs
<1>6. CASE RebindThread(u)
  BY <1>0, <1>6, GotoFollows DEF RebindThread, At, FrameOK, PCs, CreatePCs
<1>7. CASE RecordTurn(u)
  BY <1>0, <1>7, ReturnFollows DEF RecordTurn, TurnFails
<1> QED BY <1>1, <1>2, <1>3, <1>4, <1>5, <1>6, <1>7 DEF TurnStep

LEMMA FollowsCrash ==
  ASSUME Typed, Crash
  PROVE  CmdFollows
<1> DEFINE f == [Blank EXCEPT !.pc = "recover", !.todo = {n \in Names : Active(n) # {}}]
<1>1. f \in Frame /\ f.pc = "recover"
  BY DEF Blank, Frame, PCs
<1>2. \A g : Follows(f, g)
  BY <1>1 DEF Follows, FrameOK, Creates, CreatePCs
<1>3. \A c \in Clients : cmd'[c] \in {f, Blank}
  BY DEF Crash
<1>4. cmd' = [c \in Clients |-> cmd'[c]]
  BY DEF Crash
<1> HIDE DEF f
<1>5. \A c \in Clients : Follows(cmd'[c], cmd[c])
  BY <1>2, <1>3, BlankFollows
<1>6. \A c \in Clients : cmd'[c] \in Frame
  BY <1>5 DEF Follows
<1> QED BY <1>4, <1>5, <1>6 DEF CmdFollows

\* So no step but a reservation and a spawn makes frames that need an argument.
LEMMA FollowsNext ==
  ASSUME Typed, [Next]_vars,
         \A u \in Users, n \in Names : ~ Reserve(u, n),
         \A c \in Clients : ~ SpawnProcess(c)
  PROVE  CmdFollows
<1>1. (\E n \in Names : EndTurn(n)) \/ (\E p \in Procs : ProcessExits(p)) \/ UNCHANGED vars => UNCHANGED cmd
  BY DEF EndTurn, ProcessExits, vars
<1> QED BY <1>1, NoneFollows, FollowsCommand, FollowsApi, FollowsThread, FollowsTurn, FollowsCrash DEF Next

\* A reservation begins to create a thread, if it is not refused.
LEMMA ReserveFrame ==
  ASSUME Typed, NEW u \in Users, NEW n \in Names, Reserve(u, n)
  PROVE  /\ cmd' \in [Clients -> Frame] /\ \A d \in Clients : FrameOK(cmd'[d])
         /\ \A d \in Clients \ {u} : cmd'[d] = cmd[d]
         /\ \E r \in Rows :
              /\ rows[r].status = "none"
              /\ rows' = [rows EXCEPT ![r] = [name |-> n, status |-> "creating", session |-> NoSession]]
              /\ \/ cmd' = cmd
                 \/ /\ RowsOf(n, {"creating", "active"}) = {}
                    /\ cmd'[u].pc = "prepare" /\ cmd'[u].name = n /\ cmd'[u].row = r
<1>0. u \in Clients /\ cmd[u] \in Frame
  BY DEF Clients, Typed, TypeOK
<1>1. PICK r \in Rows :
        /\ rows[r].status = "none"
        /\ rows' = [rows EXCEPT ![r] = [name |-> n, status |-> "creating", session |-> NoSession]]
        /\ IF RowsOf(n, {"creating", "active"}) = {}
           THEN cmd' = [cmd EXCEPT ![u].pc = "prepare", ![u].name = n, ![u].row = r]
           ELSE UNCHANGED cmd
  BY DEF Reserve
<1>2. CASE UNCHANGED cmd
  BY <1>1, <1>2 DEF Typed, TypeOK
<1>3. CASE /\ RowsOf(n, {"creating", "active"}) = {}
           /\ cmd' = [cmd EXCEPT ![u].pc = "prepare", ![u].name = n, ![u].row = r]
  <2> DEFINE f == [cmd[u] EXCEPT !.pc = "prepare", !.name = n, !.row = r]
  <2>1. f \in Frame /\ f.pc = "prepare" /\ f.name = n /\ f.row = r
    BY <1>0 DEF Frame, PCs
  <2>2. cmd' = [cmd EXCEPT ![u] = f]
    BY <1>0, <1>3 DEF Typed, TypeOK
  <2>3. FrameOK(f)
    BY <2>1 DEF FrameOK
  <2> HIDE DEF f
  <2>4. cmd' \in [Clients -> Frame] /\ cmd'[u] = f /\ \A d \in Clients \ {u} : cmd'[d] = cmd[d]
    BY <1>0, <2>1, <2>2 DEF Typed, TypeOK
  <2> QED BY <1>1, <1>3, <2>1, <2>3, <2>4 DEF Typed
<1> QED BY <1>1, <1>2, <1>3

\* A spawn waits for the answer of the process it found or made.
LEMMA SpawnFrame ==
  ASSUME Typed, NEW c \in Clients, SpawnProcess(c)
  PROVE  /\ cmd' \in [Clients -> Frame] /\ \A d \in Clients : FrameOK(cmd'[d])
         /\ \A d \in Clients \ {c} : cmd'[d] = cmd[d]
         /\ cmd[c].pc = "spawn" /\ cmd[c].name \in Names
         /\ cmd'[c].pc = "initialize" /\ cmd'[c].name = cmd[c].name /\ cmd'[c].row = cmd[c].row
         /\ \E p \in Procs :
              /\ cmd'[c].proc = p
              /\ \/ managed[cmd[c].name] = p /\ Live(p) /\ UNCHANGED <<managed, process>>
                 \/ /\ ~ Live(managed[cmd[c].name]) /\ process[p] = "unused"
                    /\ process' = [process EXCEPT ![p] = "live"]
                    /\ managed' = [managed EXCEPT ![cmd[c].name] = p]
<1>0. cmd[c] \in Frame /\ cmd[c].pc = "spawn" /\ cmd[c].name \in Names
  BY DEF SpawnProcess, At, FrameOK, Typed, TypeOK
<1>1. PICK p \in Procs :
        /\ cmd' = [cmd EXCEPT ![c].pc = "initialize", ![c].proc = p]
        /\ \/ managed[cmd[c].name] = p /\ Live(p) /\ UNCHANGED <<managed, process>>
           \/ /\ ~ Live(managed[cmd[c].name]) /\ process[p] = "unused"
              /\ process' = [process EXCEPT ![p] = "live"]
              /\ managed' = [managed EXCEPT ![cmd[c].name] = p]
  BY DEF SpawnProcess, Live
<1> DEFINE f == [cmd[c] EXCEPT !.pc = "initialize", !.proc = p]
<1>2. f \in Frame /\ f.pc = "initialize" /\ f.name = cmd[c].name /\ f.row = cmd[c].row /\ f.proc = p
  BY <1>0 DEF Frame, PCs
<1>3. cmd' = [cmd EXCEPT ![c] = f]
  BY <1>1 DEF Typed, TypeOK
<1>4. FrameOK(f)
  BY <1>0, <1>2 DEF FrameOK
<1> HIDE DEF f
<1>5. cmd' \in [Clients -> Frame] /\ cmd'[c] = f /\ \A d \in Clients \ {c} : cmd'[d] = cmd[d]
  BY <1>2, <1>3 DEF Typed, TypeOK
<1> QED BY <1>0, <1>1, <1>2, <1>4, <1>5 DEF Typed

LEMMA FramesKept ==
  ASSUME Typed, [Next]_vars
  PROVE  cmd' \in [Clients -> Frame] /\ \A c \in Clients : FrameOK(cmd'[c])
<1>1. CmdFollows => cmd' \in [Clients -> Frame] /\ \A c \in Clients : FrameOK(cmd'[c])
  BY DEF CmdFollows, Follows
<1> QED BY <1>1, FollowsNext, ReserveFrame, SpawnFrame

-----------------------------------------------------------------------------
(* Types.                                                                  *)

LEMMA TypeInit == Init => Typed
  BY BlankFollows, ThreadConstants
  DEF Init, Typed, TypeOK, FrameOK, NoEntry, RowStates, PoolStates

\* The types of everything but the frames.
Rest ==
  /\ rows \in [Rows -> [name : Names \cup {NoName}, status : RowStates, session : Sessions \cup {NoSession}]]
  /\ bind \in [Users -> [name : Names \cup {NoName}, session : Sessions \cup {NoSession}]]
  /\ spent \in SUBSET Sessions /\ worktrees \in SUBSET Names /\ project \in {"active", "disabled"}
  /\ recorded \in SUBSET Names /\ completed \in SUBSET Names /\ busy \in SUBSET Names
  /\ running \in [Names -> Sessions \cup {NoSession}]
  /\ pool \in [Names -> [state : PoolStates, proc : Procs \cup {NoProc}, starter : Clients \cup {NoOne}]]
  /\ managed \in [Names -> Procs \cup {NoProc}]
  /\ process \in [Procs -> {"unused", "live", "killed", "exited"}]
  /\ crashes \in Nat /\ switches \in Nat

LEMMA ReleaseType ==
  ASSUME Typed, NEW ns, ReleaseThreads(ns)
  PROVE  /\ pool' \in [Names -> [state : PoolStates, proc : Procs \cup {NoProc}, starter : Clients \cup {NoOne}]]
         /\ managed' \in [Names -> Procs \cup {NoProc}]
         /\ process' \in [Procs -> {"unused", "live", "killed", "exited"}]
<1>1. [NoEntry EXCEPT !.state = "RELEASED"]
        \in [state : PoolStates, proc : Procs \cup {NoProc}, starter : Clients \cup {NoOne}]
  BY DEF NoEntry, PoolStates
<1> QED BY <1>1 DEF ReleaseThreads, Typed, TypeOK

LEMMA TypeCommand ==
  ASSUME Typed, NEW u \in Users, Command(u)
  PROVE  Rest'
<1> USE DEF store, turns, agents, outside
<1>0. Rest
  BY DEF Typed, TypeOK, Rest
<1>1. CASE LeaveThread(u)
  BY <1>0, <1>1 DEF LeaveThread, Rest
<1>2. CASE BeginTurn(u)
  <2>1. bind[u].name \in Names
    BY <1>0, <1>2 DEF BeginTurn, Rest
  <2> QED BY <1>0, <1>2, <2>1 DEF BeginTurn, Rest
<1>3. CASE DisableProject(u) \/ LinkProject(u) \/ ReactivateProject(u)
  BY <1>0, <1>3 DEF DisableProject, LinkProject, ReactivateProject, Rest
<1>4. ASSUME NEW n \in Names, Reserve(u, n) PROVE Rest'
  <2>1. PICK r \in Rows :
          rows' = [rows EXCEPT ![r] = [name |-> n, status |-> "creating", session |-> NoSession]]
    BY <1>4 DEF Reserve
  <2>2. rows' \in [Rows -> [name : Names \cup {NoName}, status : RowStates, session : Sessions \cup {NoSession}]]
    BY <1>0, <2>1 DEF Rest, RowStates
  <2> QED BY <1>0, <1>4, <2>2 DEF Reserve, Rest
<1>5. ASSUME NEW n \in Names, JoinThread(u, n) \/ ConfirmPolicy(u, n) PROVE Rest'
  BY <1>0, <1>5 DEF JoinThread, ConfirmPolicy, Rest
<1>6. ASSUME NEW n \in Names, DeleteThread(u, n) PROVE Rest'
  BY <1>0, <1>6, ReleaseType DEF DeleteThread, Rest
<1> QED BY <1>1, <1>2, <1>3, <1>4, <1>5, <1>6 DEF Command

LEMMA TypeApi ==
  ASSUME Typed, NEW c \in Clients, ApiStep(c)
  PROVE  Rest'
<1> USE DEF store, turns, agents, outside
<1>0. Rest /\ cmd[c] \in Frame /\ FrameOK(cmd[c])
  BY DEF Typed, TypeOK, Rest
<1>1. CASE RequestApi(c)
  <2>1. [state |-> "STARTING", proc |-> NoProc, starter |-> c]
          \in [state : PoolStates, proc : Procs \cup {NoProc}, starter : Clients \cup {NoOne}]
    BY DEF PoolStates
  <2> QED BY <1>0, <1>1, <2>1 DEF RequestApi, Rest
<1>2. CASE SpawnProcess(c)
  BY <1>0, <1>2 DEF SpawnProcess, Rest
<1>3. CASE InitializeAnswered(c)
  <2>1. [state |-> "READY", proc |-> cmd[c].proc, starter |-> NoOne]
          \in [state : PoolStates, proc : Procs \cup {NoProc}, starter : Clients \cup {NoOne}]
    BY <1>0 DEF PoolStates, Frame
  <2> QED BY <1>0, <1>3, <2>1 DEF InitializeAnswered, Rest
<1>4. CASE InitializeFails(c)
  <2>1. [NoEntry EXCEPT !.state = "FAILED"]
          \in [state : PoolStates, proc : Procs \cup {NoProc}, starter : Clients \cup {NoOne}]
    BY DEF NoEntry, PoolStates
  <2> QED BY <1>0, <1>4, <2>1 DEF InitializeFails, Rest
<1>5. CASE RecoverThread(c)
  BY <1>0, <1>5 DEF RecoverThread, Rest
<1> QED BY <1>1, <1>2, <1>3, <1>4, <1>5 DEF ApiStep

LEMMA TypeThread ==
  ASSUME Typed, NEW u \in Users, ThreadStep(u)
  PROVE  Rest'
<1> USE DEF store, turns, agents, outside
<1>0. Rest /\ u \in Clients /\ cmd[u] \in Frame /\ FrameOK(cmd[u])
  BY DEF Clients, Typed, TypeOK, Rest
<1>1. CASE PrepareWorktree(u) \/ RemoveWorktree(u)
  <2>1. cmd[u].name \in Names
    BY <1>0, <1>1 DEF PrepareWorktree, RemoveWorktree, At, FrameOK
  <2> QED BY <1>0, <1>1, <2>1 DEF PrepareWorktree, RemoveWorktree, AddWorktree, DropWorktree, Rest
<1>2. CASE ThreadStarted(u)
  BY <1>0, <1>2 DEF ThreadStarted, NewSession, Rest
<1>3. CASE Activate(u) \/ ReleaseReservation(u)
  <2>1. cmd[u].row \in Rows /\ cmd[u].session \in Sessions \cup {NoSession}
    BY <1>0, <1>3 DEF Activate, ReleaseReservation, At, FrameOK, Frame
  <2>2. rows' \in [Rows -> [name : Names \cup {NoName}, status : RowStates, session : Sessions \cup {NoSession}]]
    BY <1>0, <1>3, <2>1 DEF Activate, ReleaseReservation, Rest, RowStates
  <2> QED BY <1>0, <1>3, <2>2 DEF Activate, ReleaseReservation, Rest
<1>4. CASE DisposeRuntime(u) \/ ApplyPolicy(u)
  BY <1>0, <1>4, ReleaseType DEF DisposeRuntime, ApplyPolicy, Rest
<1>5. CASE BindUser(u)
  BY <1>0, <1>5 DEF BindUser, Rest, Frame
<1>6. CASE MarkMerged(u)
  <2>1. rows' \in [Rows -> [name : Names \cup {NoName}, status : RowStates, session : Sessions \cup {NoSession}]]
    BY <1>0, <1>6 DEF MarkMerged, Rest, RowStates
  <2> QED BY <1>0, <1>6, <2>1 DEF MarkMerged, Rest
<1>7. CASE DeactivateProject(u)
  BY <1>0, <1>7, ReleaseType DEF DeactivateProject, Rest
<1> QED BY <1>1, <1>2, <1>3, <1>4, <1>5, <1>6, <1>7 DEF ThreadStep

LEMMA TypeTurn ==
  ASSUME Typed, NEW u \in Users, TurnStep(u)
  PROVE  Rest'
<1> USE DEF store, turns, agents, outside
<1>0. Rest /\ u \in Clients /\ cmd[u] \in Frame /\ FrameOK(cmd[u])
  BY DEF Clients, Typed, TypeOK, Rest
<1>1. cmd[u].session \in Sessions \cup {NoSession} /\ cmd[u].old \in Sessions \cup {NoSession}
  BY <1>0 DEF Frame
<1>2. CASE ResolveAgentApi(u) \/ ResumeAnswered(u)
  BY <1>0, <1>2 DEF ResolveAgentApi, ResumeAnswered, TurnFails, Rest
<1>3. CASE TurnAnswered(u)
  BY <1>0, <1>1, <1>3 DEF TurnAnswered, TurnFails, Rest
<1>4. CASE StartAgain(u)
  BY <1>0, <1>4 DEF StartAgain, NewSession, TurnFails, Rest
<1>5. CASE ReplaceSession(u)
  <2>1. rows' \in [Rows -> [name : Names \cup {NoName}, status : RowStates, session : Sessions \cup {NoSession}]]
    BY <1>0, <1>1, <1>5 DEF ReplaceSession, Rest
  <2> QED BY <1>0, <1>5, <2>1 DEF ReplaceSession, TurnFails, Rest
<1>6. CASE RebindThread(u)
  <2>1. cmd[u].name \in Names
    BY <1>0, <1>6 DEF RebindThread, At, FrameOK
  <2>2. bind' \in [Users -> [name : Names \cup {NoName}, session : Sessions \cup {NoSession}]]
    BY <1>0, <1>1, <1>6, <2>1 DEF RebindThread, Rest
  <2> QED BY <1>0, <1>6, <2>2 DEF RebindThread, Rest
<1>7. CASE RecordTurn(u)
  <2>1. cmd[u].name \in Names
    BY <1>0, <1>7 DEF RecordTurn, At, FrameOK
  <2> QED BY <1>0, <1>7, <2>1 DEF RecordTurn, TurnFails, Rest
<1> QED BY <1>2, <1>3, <1>4, <1>5, <1>6, <1>7 DEF TurnStep

LEMMA TypeEndTurn ==
  ASSUME Typed, NEW n \in Names, EndTurn(n)
  PROVE  Rest'
<1>1. Rest
  BY DEF Typed, TypeOK, Rest
<1> QED BY <1>1 DEF EndTurn, Rest, store, agents, outside

LEMMA TypeProcessExits ==
  ASSUME Typed, NEW p \in Procs, ProcessExits(p)
  PROVE  Rest'
<1>1. Rest
  BY DEF Typed, TypeOK, Rest
<1> QED BY <1>1 DEF ProcessExits, Rest, store, turns, outside

LEMMA TypeCrash ==
  ASSUME Typed, Crash
  PROVE  Rest'
<1>1. Rest
  BY DEF Typed, TypeOK, Rest
<1>2. NoEntry \in [state : PoolStates, proc : Procs \cup {NoProc}, starter : Clients \cup {NoOne}]
  BY DEF NoEntry, PoolStates
<1>3. /\ pool' = [n \in Names |-> NoEntry] /\ managed' = [n \in Names |-> NoProc]
      /\ process' = [p \in Procs |-> IF process[p] = "unused" THEN "unused" ELSE "exited"]
      /\ running' = [n \in Names |-> NoSession] /\ busy' = {} /\ crashes' = crashes + 1
      /\ UNCHANGED <<rows, bind, spent, recorded, completed, worktrees, project, switches>>
  BY DEF Crash, store
<1> QED BY <1>1, <1>2, <1>3 DEF Rest

LEMMA TypedKept == Typed /\ [Next]_vars => Typed'
<1> SUFFICES ASSUME Typed, [Next]_vars PROVE Typed'
  OBVIOUS
<1>1. UNCHANGED vars => Rest'
  BY DEF Typed, TypeOK, Rest, vars, store, turns, agents, outside
<1>2. Rest'
  BY <1>1, TypeCommand, TypeApi, TypeThread, TypeTurn, TypeEndTurn, TypeProcessExits, TypeCrash DEF Next
<1> QED BY <1>2, FramesKept DEF Typed, TypeOK, Rest

-----------------------------------------------------------------------------
(* Rows.                                                                   *)

\* Nobody begins to create a thread.
CreatesFollow ==
    \A c \in Clients : Creates(cmd'[c]) =>
        Creates(cmd[c]) /\ cmd'[c].name = cmd[c].name /\ cmd'[c].row = cmd[c].row

\* Rows change but in their session, or by being merged.
RowsQuiet ==
    \A r \in Rows :
        /\ rows'[r].name = rows[r].name
        /\ \/ rows'[r].status = rows[r].status
           \/ rows[r].status = "active" /\ rows'[r].status = "merged"

\* The row of a call that creates a thread is one.
LEMMA CreatesRow ==
  ASSUME Typed, NEW c \in Clients, Creates(cmd[c])
  PROVE  cmd[c].row \in Rows
<1>1. cmd[c].row \in Rows \cup {NoRow}
  BY DEF Typed, TypeOK, Frame
<1> QED BY <1>1 DEF Creates

LEMMA OwnedQuiet ==
  ASSUME Typed, Owned, CreatesFollow, RowsQuiet
  PROVE  Owned'
<1>1. ASSUME NEW c \in Clients, Creates(cmd'[c])
      PROVE  /\ Creates(cmd[c]) /\ cmd[c].row \in Rows
             /\ cmd'[c].name = cmd[c].name /\ cmd'[c].row = cmd[c].row
  BY <1>1, CreatesRow DEF CreatesFollow
<1>2. Reserved'
  BY <1>1 DEF Owned, Reserved, RowsQuiet, Creates
<1>3. OneCreates'
  BY <1>1 DEF Owned, OneCreates, Creates
<1>4. OneRow'
  BY DEF Owned, OneRow, RowsQuiet
<1> QED BY <1>2, <1>3, <1>4 DEF Owned

LEMMA UnchangedQuiet == UNCHANGED rows => RowsQuiet
  BY DEF RowsQuiet

LEMMA ChangedQuiet ==
  ASSUME Typed, NEW u \in Users, MarkMerged(u) \/ ReplaceSession(u)
  PROVE  RowsQuiet
<1>1. \A r \in Rows : rows[r] \in [name : Names \cup {NoName}, status : RowStates, session : Sessions \cup {NoSession}]
  BY DEF Typed, TypeOK
<1>2. CASE MarkMerged(u)
  <2>1. \A r \in Rows : \/ rows'[r] = rows[r]
                        \/ rows[r].status = "active" /\ rows'[r] = [rows[r] EXCEPT !.status = "merged"]
    BY <1>2 DEF MarkMerged, Active, RowsOf
  <2> QED BY <1>1, <2>1 DEF RowsQuiet
<1>3. CASE ReplaceSession(u)
  <2>1. \A r \in Rows : rows'[r] = rows[r] \/ rows'[r] = [rows[r] EXCEPT !.session = cmd[u].session]
    BY <1>3 DEF ReplaceSession
  <2> QED BY <1>1, <2>1 DEF RowsQuiet
<1> QED BY <1>2, <1>3

\* The calls that write rows.
LEMMA RowsUnchanged ==
  ASSUME [Next]_vars,
         \A u \in Users : ~ Activate(u) /\ ~ ReleaseReservation(u) /\ ~ MarkMerged(u) /\ ~ ReplaceSession(u),
         \A u \in Users : \A n \in Names : ~ Reserve(u, n)
  PROVE  UNCHANGED rows
<1>1. ASSUME NEW u \in Users, Command(u) PROVE UNCHANGED rows
  BY <1>1 DEF Command, LeaveThread, BeginTurn, DisableProject, LinkProject, ReactivateProject, JoinThread,
              DeleteThread, ConfirmPolicy, store
<1>2. ASSUME NEW u \in Users, ThreadStep(u) PROVE UNCHANGED rows
  BY <1>2 DEF ThreadStep, PrepareWorktree, ThreadStarted, DisposeRuntime, BindUser, RemoveWorktree,
              ApplyPolicy, DeactivateProject, store
<1>3. ASSUME NEW u \in Users, TurnStep(u) PROVE UNCHANGED rows
  BY <1>3 DEF TurnStep, ResolveAgentApi, TurnAnswered, ResumeAnswered, StartAgain, RebindThread,
              RecordTurn, store
<1>4. ASSUME NEW c \in Clients, ApiStep(c) PROVE UNCHANGED rows
  BY <1>4 DEF ApiStep, RequestApi, SpawnProcess, InitializeAnswered, InitializeFails, RecoverThread, store
<1>5. ASSUME (\E n \in Names : EndTurn(n)) \/ (\E p \in Procs : ProcessExits(p)) \/ Crash \/ UNCHANGED vars
      PROVE  UNCHANGED rows
  BY <1>5 DEF EndTurn, ProcessExits, Crash, vars, store
<1> QED BY <1>1, <1>2, <1>3, <1>4, <1>5 DEF Next

LEMMA QuietRows ==
  ASSUME Typed, [Next]_vars,
         \A u \in Users : ~ Activate(u) /\ ~ ReleaseReservation(u) /\ \A n \in Names : ~ Reserve(u, n)
  PROVE  RowsQuiet
  BY UnchangedQuiet, RowsUnchanged, ChangedQuiet

LEMMA OwnedReserve ==
  ASSUME Typed, Owned, NEW u \in Users, NEW n \in Names, Reserve(u, n)
  PROVE  Owned'
<1>0. u \in Clients /\ ~ Creates(cmd[u])
  BY DEF Clients, Reserve, MayCommand, At, Creates, CreatePCs
<1>1. PICK r \in Rows :
        /\ rows[r].status = "none"
        /\ rows' = [rows EXCEPT ![r] = [name |-> n, status |-> "creating", session |-> NoSession]]
        /\ \/ cmd' = cmd
           \/ /\ RowsOf(n, {"creating", "active"}) = {}
              /\ cmd'[u].pc = "prepare" /\ cmd'[u].name = n /\ cmd'[u].row = r
  BY ReserveFrame
<1>2. /\ rows'[r].name = n /\ rows'[r].status = "creating"
      /\ \A q \in Rows \ {r} : rows'[q] = rows[q]
  BY <1>1 DEF Typed, TypeOK
<1>3. OneRow'
  BY <1>2 DEF Owned, OneRow
<1>4. ASSUME NEW d \in Clients, Creates(cmd[d])
      PROVE  cmd[d].row \in Rows \ {r} /\ rows[cmd[d].row].name = cmd[d].name /\ rows[cmd[d].row].status = "creating"
  BY <1>1, <1>4, CreatesRow DEF Owned, Reserved
<1>5. ASSUME NEW d \in Clients, Creates(cmd[d])
      PROVE  /\ rows'[cmd[d].row].name = cmd[d].name /\ rows'[cmd[d].row].status = "creating"
             /\ \A q \in Rows : rows'[q].name = cmd[d].name => rows'[q].status # "active"
  BY <1>2, <1>4, <1>5 DEF Owned, Reserved
<1>6. CASE cmd' = cmd
  BY <1>3, <1>5, <1>6 DEF Owned, Reserved, OneCreates, Creates
<1>7. CASE /\ RowsOf(n, {"creating", "active"}) = {}
           /\ cmd'[u].pc = "prepare" /\ cmd'[u].name = n /\ cmd'[u].row = r
  <2>1. \A d \in Clients \ {u} : cmd'[d] = cmd[d]
    BY ReserveFrame
  <2>2. \A q \in Rows : rows[q].name = n => rows[q].status \notin {"creating", "active"}
    BY <1>7 DEF RowsOf
  <2>3. \A q \in Rows : rows'[q].name = n => rows'[q].status # "active"
    BY <1>2, <2>2
  <2>4. Reserved'
    BY <1>2, <1>5, <1>7, <2>1, <2>3 DEF Reserved, Creates
  <2>5. \A d \in Clients : Creates(cmd[d]) => cmd[d].name # n
    BY <1>4, <2>2
  <2>6. OneCreates'
    BY <1>7, <2>1, <2>5 DEF Owned, OneCreates, Creates
  <2> QED BY <1>3, <2>4, <2>6 DEF Owned
<1> QED BY <1>1, <1>6, <1>7

\* What the row of a call becomes when the call is over concerns no other call.
LEMMA OwnedSettled ==
  ASSUME Typed, Owned, CreatesFollow, NEW c \in Clients, Creates(cmd[c]), ~ Creates(cmd'[c]),
         \A q \in Rows \ {cmd[c].row} : rows'[q] = rows[q],
         rows'[cmd[c].row].name = cmd[c].name
  PROVE  Owned'
<1> DEFINE r == cmd[c].row
<1>1. /\ r \in Rows /\ rows[r].name = cmd[c].name
      /\ \A q \in Rows : rows[q].name = cmd[c].name => rows[q].status # "active"
  BY CreatesRow DEF Owned, Reserved
<1>2. OneRow'
  BY <1>1 DEF Owned, OneRow
<1>3. ASSUME NEW d \in Clients, Creates(cmd'[d])
      PROVE  /\ Creates(cmd[d]) /\ cmd'[d].name = cmd[d].name /\ cmd'[d].row = cmd[d].row
             /\ d # c /\ cmd[d].name # cmd[c].name
  BY <1>3 DEF CreatesFollow, Owned, OneCreates
<1>4. ASSUME NEW d \in Clients, Creates(cmd'[d])
      PROVE  /\ rows'[cmd'[d].row].name = cmd'[d].name /\ rows'[cmd'[d].row].status = "creating"
             /\ \A q \in Rows : rows'[q].name = cmd'[d].name => rows'[q].status # "active"
  <2>1. cmd[d].row \in Rows /\ rows[cmd[d].row].name = cmd[d].name /\ cmd[d].row # r
    BY <1>1, <1>3, <1>4, CreatesRow DEF Owned, Reserved
  <2> QED BY <1>1, <1>3, <1>4, <2>1 DEF Owned, Reserved
<1>5. Reserved'
  BY <1>4 DEF Reserved, Creates
<1>6. OneCreates'
  BY <1>3 DEF Owned, OneCreates, Creates
<1> QED BY <1>2, <1>5, <1>6 DEF Owned

LEMMA OwnedOver ==
  ASSUME Typed, Owned, CreatesFollow, NEW u \in Users, Activate(u) \/ ReleaseReservation(u)
  PROVE  Owned'
<1>0. u \in Clients /\ cmd[u] \in Frame /\ cmd[u].row \in Rows /\ cmd[u].pc \in {"activate", "release"}
  BY DEF Clients, Activate, ReleaseReservation, At, FrameOK, Typed, TypeOK
<1>1. Creates(cmd[u])
  BY <1>0, ThreadConstants DEF Creates, CreatePCs
<1>2. rows[cmd[u].row].name = cmd[u].name /\ rows[cmd[u].row].status = "creating"
  BY <1>0, <1>1 DEF Owned, Reserved
<1>3. cmd'[u].pc \in {"bind", "dispose", "idle"}
  BY <1>0, <1>2, BlankFollows DEF Activate, ReleaseReservation, Goto, Return, Typed, TypeOK, Frame
<1>4. /\ \A q \in Rows \ {cmd[u].row} : rows'[q] = rows[q]
      /\ rows'[cmd[u].row].name = cmd[u].name
  BY <1>0, <1>2 DEF Activate, ReleaseReservation, Typed, TypeOK
<1>5. ~ Creates(cmd'[u])
  BY <1>3 DEF Creates, CreatePCs
<1> QED BY <1>0, <1>1, <1>4, <1>5, OwnedSettled

LEMMA OwnedKept == Typed /\ Owned /\ [Next]_vars => Owned'
<1> SUFFICES ASSUME Typed, Owned, [Next]_vars PROVE Owned'
  OBVIOUS
<1>1. ASSUME NEW u \in Users, NEW n \in Names, Reserve(u, n) PROVE Owned'
  BY <1>1, OwnedReserve
<1>2. CASE \A u \in Users, n \in Names : ~ Reserve(u, n)
  <2>1. CreatesFollow
    <3>1. CmdFollows => CreatesFollow
      BY DEF CmdFollows, Follows, CreatesFollow
    <3>2. ASSUME NEW c \in Clients, SpawnProcess(c) PROVE CreatesFollow
      BY <3>2, SpawnFrame DEF CreatesFollow, Creates, CreatePCs
    <3> QED BY <1>2, <3>1, <3>2, FollowsNext
  <2> QED BY <1>2, <2>1, OwnedOver, QuietRows, OwnedQuiet
<1> QED BY <1>1, <1>2

-----------------------------------------------------------------------------
(* Processes.                                                              *)

\* Nobody begins to wait for initialize, and no API becomes ready.
InitializeFollows ==
    \A c \in Clients : cmd'[c].pc = "initialize" =>
        cmd[c].pc = "initialize" /\ cmd'[c].name = cmd[c].name /\ cmd'[c].proc = cmd[c].proc
ReadyFollows == \A n \in Names : pool'[n].state = "READY" => Ready(n) /\ pool'[n].proc = pool[n].proc

\* A process that was spawned for a name remains the one of that name.
SpawnedNext(p, n) == p \in Procs /\ process'[p] # "unused" /\ (process'[p] = "live" => managed'[n] = p)
SpawnedKept == \A p : \A n \in Names : Spawned(p, n) => SpawnedNext(p, n)

LEMMA UnchangedSpawned == UNCHANGED <<managed, process>> => SpawnedKept
  BY DEF SpawnedKept, Spawned, SpawnedNext

\* The name of a call that waits for initialize is one.
LEMMA InitializeName ==
  ASSUME Typed, NEW c \in Clients, cmd[c].pc = "initialize"
  PROVE  cmd[c].name \in Names
  BY DEF Typed, FrameOK

LEMMA StartsKept == Typed /\ Starts /\ SpawnedKept /\ InitializeFollows => Starts'
<1> SUFFICES ASSUME Typed, Starts, SpawnedKept, InitializeFollows,
                    NEW c \in Clients, cmd'[c].pc = "initialize"
             PROVE  SpawnedNext(cmd'[c].proc, cmd'[c].name)
  BY DEF Starts, Spawned, SpawnedNext
<1>1. /\ cmd[c].pc = "initialize" /\ cmd[c].name \in Names
      /\ cmd'[c].name = cmd[c].name /\ cmd'[c].proc = cmd[c].proc
  BY InitializeName DEF InitializeFollows
<1>2. Spawned(cmd[c].proc, cmd[c].name)
  BY <1>1 DEF Starts
<1> QED BY <1>1, <1>2 DEF SpawnedKept

LEMMA ServesKept == Serves /\ SpawnedKept /\ ReadyFollows => Serves'
  BY DEF Serves, SpawnedKept, ReadyFollows, Ready, Spawned, SpawnedNext

\* A step that starts and stops no process, and makes no API ready.
LEMMA ProcessesQuiet ==
  ASSUME Typed, Processes, UNCHANGED <<managed, process>>, InitializeFollows, ReadyFollows
  PROVE  Processes'
<1>1. Managed'
  BY DEF Processes, Managed
<1> QED BY <1>1, UnchangedSpawned, StartsKept, ServesKept DEF Processes

LEMMA ProcessesSpawn ==
  ASSUME Typed, Processes, NEW c \in Clients, SpawnProcess(c)
  PROVE  Processes'
<1> DEFINE n == cmd[c].name
<1>0. n \in Names /\ NoProc \notin Procs
  BY SpawnFrame, ThreadConstants
<1>1. PICK p \in Procs :
        /\ cmd'[c].proc = p
        /\ \/ managed[n] = p /\ Live(p) /\ UNCHANGED <<managed, process>>
           \/ /\ ~ Live(managed[n]) /\ process[p] = "unused"
              /\ process' = [process EXCEPT ![p] = "live"]
              /\ managed' = [managed EXCEPT ![n] = p]
  BY SpawnFrame
<1>2. ReadyFollows
  BY DEF SpawnProcess, ReadyFollows, Ready
<1>3. Managed' /\ SpawnedKept /\ SpawnedNext(p, n)
  <2>1. CASE managed[n] = p /\ Live(p) /\ UNCHANGED <<managed, process>>
    BY <2>1, UnchangedSpawned DEF Processes, Managed, SpawnedNext, Live
  <2>2. CASE /\ ~ Live(managed[n]) /\ process[p] = "unused"
             /\ process' = [process EXCEPT ![p] = "live"]
             /\ managed' = [managed EXCEPT ![n] = p]
    <3>1. /\ process'[p] = "live" /\ managed'[n] = p
          /\ \A q \in Procs \ {p} : process'[q] = process[q]
          /\ \A m \in Names \ {n} : managed'[m] = managed[m]
          /\ \A m \in Names : managed[m] \in Procs \cup {NoProc}
      BY <1>0, <2>2 DEF Typed, TypeOK
    <3>2. managed[n] = NoProc
      BY <1>0, <2>2, <3>1 DEF Processes, Managed, Live
    <3>3. \A m \in Names : managed[m] # p
      BY <1>0, <2>2 DEF Processes, Managed
    <3>4. Managed'
      BY <1>0, <3>1, <3>2, <3>3 DEF Processes, Managed
    <3>5. SpawnedKept
      BY <1>0, <2>2, <3>1, <3>2 DEF SpawnedKept, Spawned, SpawnedNext
    <3> QED BY <3>1, <3>4, <3>5 DEF SpawnedNext
  <2> QED BY <1>1, <2>1, <2>2
<1>4. ASSUME NEW d \in Clients, cmd'[d].pc = "initialize"
      PROVE  SpawnedNext(cmd'[d].proc, cmd'[d].name)
  <2>1. CASE d = c
    BY <1>1, <1>3, <2>1, SpawnFrame
  <2>2. CASE d # c
    <3>1. cmd'[d] = cmd[d] /\ cmd[d].name \in Names
      BY <1>4, <2>2, SpawnFrame, InitializeName
    <3>2. Spawned(cmd[d].proc, cmd[d].name)
      BY <1>4, <3>1 DEF Processes, Starts
    <3> QED BY <1>3, <3>1, <3>2 DEF SpawnedKept
  <2> QED BY <2>1, <2>2
<1>5. Starts'
  BY <1>4 DEF Starts, Spawned, SpawnedNext
<1> QED BY <1>2, <1>3, <1>5, ServesKept DEF Processes

\* An API becomes ready on the process that was spawned for it.
LEMMA ProcessesAnswered ==
  ASSUME Typed, Processes, NEW c \in Clients, InitializeAnswered(c), InitializeFollows
  PROVE  Processes'
<1> DEFINE n == cmd[c].name
<1>1. n \in Names /\ Spawned(cmd[c].proc, n)
  BY InitializeName DEF InitializeAnswered, At, Processes, Starts
<1>2. UNCHANGED <<managed, process>>
  BY DEF InitializeAnswered
<1>3. Managed' /\ Starts'
  BY <1>2, UnchangedSpawned, StartsKept DEF Processes, Managed
<1>4. /\ pool'[n].state = "READY" /\ pool'[n].proc = cmd[c].proc
      /\ \A m \in Names \ {n} : pool'[m] = pool[m]
  BY <1>1 DEF InitializeAnswered, Typed, TypeOK
<1>5. Serves'
  BY <1>1, <1>2, <1>4 DEF Processes, Serves, Ready, Spawned
<1> QED BY <1>3, <1>5 DEF Processes

\* Releasing threads stops what is managed under their names and ready, and no more.
LEMMA ProcessesReleased ==
  ASSUME Typed, Processes, NEW ns \in SUBSET Names, ReleaseThreads(ns), InitializeFollows
  PROVE  Processes'
<1> DEFINE gone == {n \in ns : Ready(n)}
           Stopped(p) == process[p] = "live" /\ \E n \in gone : managed[n] = p
<1>1. /\ \A n \in Names : pool'[n] = IF n \in ns THEN [NoEntry EXCEPT !.state = "RELEASED"] ELSE pool[n]
      /\ \A p \in Procs : process'[p] = IF Stopped(p) THEN "killed" ELSE process[p]
      /\ \A n \in Names : managed'[n] = IF n \in gone THEN NoProc ELSE managed[n]
  BY DEF ReleaseThreads
<1>2. gone \in SUBSET Names
  OBVIOUS
<1>3. ReadyFollows
  <2>1. [NoEntry EXCEPT !.state = "RELEASED"].state # "READY"
    BY DEF NoEntry
  <2> QED BY <1>1, <2>1 DEF ReadyFollows, Ready
<1> HIDE DEF gone
<1>4. Managed'
  <2>1. \A n \in Names : managed[n] \in Procs \cup {NoProc}
    BY DEF Typed, TypeOK
  <2>2. \A n \in Names : managed'[n] # NoProc => n \notin gone /\ managed'[n] = managed[n]
    BY <1>1
  <2>3. ASSUME NEW n \in Names, managed'[n] # NoProc PROVE process'[managed'[n]] = "live"
    <3>1. managed[n] \in Procs /\ process[managed[n]] = "live"
      BY <2>1, <2>2, <2>3 DEF Processes, Managed
    <3>2. ~ Stopped(managed[n])
      BY <1>2, <2>2, <2>3 DEF Processes, Managed
    <3> QED BY <1>1, <2>2, <2>3, <3>1, <3>2
  <2>4. \A n, m \in Names : managed'[n] = managed'[m] /\ managed'[n] # NoProc => n = m
    BY <2>2 DEF Processes, Managed
  <2>5. ASSUME NEW p \in Procs, process'[p] = "live" PROVE \E n \in Names : managed'[n] = p
    <3>1. process[p] = "live" /\ ~ Stopped(p)
      BY <1>1, <2>5
    <3>2. PICK n \in Names : managed[n] = p
      BY <3>1 DEF Processes, Managed
    <3> QED BY <1>1, <3>1, <3>2
  <2> QED BY <2>3, <2>4, <2>5 DEF Managed
<1>5. SpawnedKept
  <2>1. ASSUME NEW p, NEW n \in Names, Spawned(p, n) PROVE SpawnedNext(p, n)
    <3>1. p \in Procs /\ process'[p] # "unused"
      BY <1>1, <2>1 DEF Spawned
    <3>2. process'[p] = "live" => managed'[n] = p
      BY <1>1, <2>1 DEF Spawned
    <3> QED BY <3>1, <3>2 DEF SpawnedNext
  <2> QED BY <2>1 DEF SpawnedKept
<1> QED BY <1>3, <1>4, <1>5, StartsKept, ServesKept DEF Processes

LEMMA ProcessesExit ==
  ASSUME Typed, Processes, NEW p \in Procs, ProcessExits(p), InitializeFollows
  PROVE  Processes'
<1>1. /\ process'[p] = "exited" /\ \A q \in Procs \ {p} : process'[q] = process[q]
      /\ \A n \in Names : managed'[n] = IF managed[n] = p THEN NoProc ELSE managed[n]
      /\ UNCHANGED pool
  BY DEF ProcessExits, Typed, TypeOK
<1>2. \A n \in Names : managed[n] \in Procs \cup {NoProc}
  BY DEF Typed, TypeOK
<1>3. Managed'
  BY <1>1, <1>2 DEF Processes, Managed
<1>4. SpawnedKept
  BY <1>1 DEF SpawnedKept, Spawned, SpawnedNext
<1>5. ReadyFollows
  BY <1>1 DEF ReadyFollows, Ready
<1> QED BY <1>3, <1>4, <1>5, StartsKept, ServesKept DEF Processes

LEMMA ProcessesCrash ==
  ASSUME Typed, Processes, Crash
  PROVE  Processes'
<1>1. /\ \A n \in Names : pool'[n] = NoEntry /\ managed'[n] = NoProc
      /\ \A p \in Procs : process'[p] # "live"
      /\ \A c \in Clients : cmd'[c].pc # "initialize"
  <2> DEFINE f == [Blank EXCEPT !.pc = "recover", !.todo = {n \in Names : Active(n) # {}}]
  <2>1. \A c \in Clients : cmd'[c] \in {f, Blank}
    BY DEF Crash
  <2>2. f.pc = "recover" /\ Blank.pc = "idle"
    BY DEF Blank
  <2> HIDE DEF f
  <2>3. \A c \in Clients : cmd'[c].pc # "initialize"
    BY <2>1, <2>2
  <2> QED BY <2>3 DEF Crash
<1>2. NoEntry.state # "READY"
  BY DEF NoEntry
<1> QED BY <1>1, <1>2 DEF Processes, Managed, Starts, Serves, Ready

\* A start that is begun, or fails, makes no API ready.
LEMMA StartsQuiet ==
  ASSUME Typed, NEW c \in Clients, RequestApi(c) \/ InitializeFails(c)
  PROVE  ReadyFollows
<1>1. cmd[c].name \in Names
  BY DEF RequestApi, InitializeFails, At, Typed, FrameOK
<1>2. CASE RequestApi(c)
  <2>1. \/ UNCHANGED pool
        \/ pool' = [pool EXCEPT ![cmd[c].name] = [state |-> "STARTING", proc |-> NoProc, starter |-> c]]
    BY <1>2 DEF RequestApi
  <2>2. CASE UNCHANGED pool
    BY <2>2 DEF ReadyFollows, Ready
  <2>3. CASE pool' = [pool EXCEPT ![cmd[c].name] = [state |-> "STARTING", proc |-> NoProc, starter |-> c]]
    <3>1. \A n \in Names : pool'[n] = pool[n] \/ pool'[n].state = "STARTING"
      BY <1>1, <2>3 DEF Typed, TypeOK
    <3> QED BY <3>1 DEF ReadyFollows, Ready
  <2> QED BY <2>1, <2>2, <2>3
<1>3. CASE InitializeFails(c)
  <2>1. [NoEntry EXCEPT !.state = "FAILED"].state # "READY"
    BY DEF NoEntry
  <2> QED BY <1>1, <1>3, <2>1 DEF InitializeFails, ReadyFollows, Ready, Typed, TypeOK
<1> QED BY <1>2, <1>3

LEMMA ReleasingQuiet ==
  ASSUME Typed, Processes, InitializeFollows, NEW u \in Users,
         \/ DisposeRuntime(u) \/ ApplyPolicy(u) \/ DeactivateProject(u)
         \/ \E n \in Names : DeleteThread(u, n)
  PROVE  Processes'
<1>1. DisposeRuntime(u) \/ ApplyPolicy(u) => cmd[u].name \in Names
  BY DEF DisposeRuntime, ApplyPolicy, At, Typed, FrameOK, Clients
<1>2. \E ns \in SUBSET Names : ReleaseThreads(ns)
  <2>1. CASE DisposeRuntime(u) \/ ApplyPolicy(u)
    BY <1>1, <2>1 DEF DisposeRuntime, ApplyPolicy
  <2>2. CASE DeactivateProject(u)
    BY <2>2 DEF DeactivateProject
  <2>3. CASE \E n \in Names : DeleteThread(u, n)
    BY <2>3 DEF DeleteThread
  <2> QED BY <2>1, <2>2, <2>3
<1> QED BY <1>2, ProcessesReleased

\* What is left leaves agents alone.
LEMMA AgentsUnchanged ==
  UNCHANGED agents => UNCHANGED <<managed, process>> /\ ReadyFollows
  BY DEF agents, ReadyFollows, Ready

LEMMA ProcessesKept == Typed /\ Processes /\ [Next]_vars => Processes'
<1> SUFFICES ASSUME Typed, Processes, [Next]_vars PROVE Processes'
  OBVIOUS
<1>1. ASSUME NEW c \in Clients, SpawnProcess(c) PROVE Processes'
  BY <1>1, ProcessesSpawn
<1>2. CASE \A c \in Clients : ~ SpawnProcess(c)
  <2>1. InitializeFollows
    <3>1. CmdFollows => InitializeFollows
      BY DEF CmdFollows, Follows, InitializeFollows
    <3>2. ASSUME NEW u \in Users, NEW n \in Names, Reserve(u, n) PROVE InitializeFollows
      BY <3>2, ReserveFrame DEF InitializeFollows
    <3> QED BY <1>2, <3>1, <3>2, FollowsNext
  <2>2. CASE UNCHANGED agents
    BY <2>1, <2>2, AgentsUnchanged, ProcessesQuiet
  <2>3. ASSUME NEW u \in Users, Command(u), \A n \in Names : ~ DeleteThread(u, n) PROVE UNCHANGED agents
    BY <2>3 DEF Command, LeaveThread, BeginTurn, DisableProject, LinkProject, ReactivateProject, Reserve,
                JoinThread, ConfirmPolicy
  <2>4. ASSUME NEW u \in Users, ThreadStep(u), ~ DisposeRuntime(u), ~ ApplyPolicy(u), ~ DeactivateProject(u)
        PROVE  UNCHANGED agents
    BY <2>4 DEF ThreadStep, PrepareWorktree, ThreadStarted, Activate, ReleaseReservation, BindUser,
                RemoveWorktree, MarkMerged
  <2>5. ASSUME NEW u \in Users, TurnStep(u) PROVE UNCHANGED agents
    BY <2>5 DEF TurnStep, ResolveAgentApi, TurnAnswered, ResumeAnswered, StartAgain, ReplaceSession,
                RebindThread, RecordTurn
  <2>6. ASSUME NEW c \in Clients, ApiStep(c) PROVE Processes'
    <3>1. CASE RequestApi(c) \/ InitializeFails(c)
      <4>1. UNCHANGED <<managed, process>>
        BY <3>1 DEF RequestApi, InitializeFails
      <4> QED BY <2>1, <3>1, <4>1, StartsQuiet, ProcessesQuiet
    <3>2. CASE RecoverThread(c)
      BY <2>2, <3>2 DEF RecoverThread
    <3> QED BY <1>2, <2>1, <2>6, <3>1, <3>2, ProcessesAnswered DEF ApiStep
  <2>7. (\E n \in Names : EndTurn(n)) \/ UNCHANGED vars => UNCHANGED agents
    BY DEF EndTurn, vars
  <2> QED BY <2>1, <2>2, <2>3, <2>4, <2>5, <2>6, <2>7, ReleasingQuiet, ProcessesExit, ProcessesCrash DEF Next
<1> QED BY <1>1, <1>2

-----------------------------------------------------------------------------
(* Theorems.                                                               *)

LEMMA InitInv == Init => IInv
<1> SUFFICES ASSUME Init PROVE IInv
  OBVIOUS
<1>1. \A c \in Clients : cmd[c].pc = "idle"
  BY BlankFollows DEF Init
<1>2. Owned
  BY <1>1 DEF Init, Owned, Reserved, OneCreates, OneRow, Creates, CreatePCs
<1>3. Processes
  BY <1>1 DEF Init, Processes, Managed, Starts, Serves, Ready, NoEntry
<1> QED BY <1>2, <1>3, TypeInit DEF IInv

LEMMA NextInv == IInv /\ [Next]_vars => IInv'
  BY TypedKept, OwnedKept, ProcessesKept DEF IInv

\* Types, the reservation of names and the hold of names on processes.
THEOREM Invariant == Spec => []IInv
  BY InitInv, NextInv, PTL DEF Spec

\* Whatever calls meet, the rows, bindings and the pool keep their types and a name
\* has at most one active thread.
THEOREM OneThread == Spec => []ThreadsKept
<1>1. ASSUME IInv, NEW n \in Names PROVE Cardinality(Active(n)) <= 1
  <2>1. \A q, r \in Active(n) : q = r
    BY <1>1 DEF IInv, Owned, OneRow, Active, RowsOf
  <2>2. CASE Active(n) = {}
    BY <2>2, FS_EmptySet
  <2>3. CASE Active(n) # {}
    <3>1. PICK r \in Active(n) : Active(n) = {r}
      BY <2>1, <2>3
    <3> QED BY <3>1, FS_Singleton
  <2> QED BY <2>2, <2>3
<1>2. IInv => ThreadsKept
  BY <1>1 DEF ThreadsKept, OneActive, IInv, Typed
<1> QED BY <1>2, Invariant, PTL

\* A living process is managed under exactly one name: nothing that was started is
\* lost sight of.
THEOREM NoneOrphaned == Spec => []NoOrphan
<1>1. ASSUME IInv, NEW p \in Procs, process[p] = "live"
      PROVE  Cardinality({n \in Names : managed[n] = p}) = 1
  <2>1. PICK n \in Names : managed[n] = p
    BY <1>1 DEF IInv, Processes, Managed
  <2>2. \A m \in Names : managed[m] = p => m = n
    BY <1>1, <2>1, ThreadConstants DEF IInv, Processes, Managed
  <2>3. {m \in Names : managed[m] = p} = {n}
    BY <2>1, <2>2
  <2> QED BY <2>3, FS_Singleton
<1>2. IInv => NoOrphan
  BY <1>1 DEF NoOrphan, Live
<1> QED BY <1>2, Invariant, PTL

\* A ready API on a living process is on the one that releasing its thread stops.
THEOREM ReadyStopped == Spec => []ReadyManaged
<1>1. IInv => ReadyManaged
  BY DEF IInv, Processes, Serves, Spawned, ReadyManaged, Live
<1> QED BY <1>1, Invariant, PTL

-----------------------------------------------------------------------------
(* Conversations: SessionKept.  While users wait for a busy thread, one of them *)
(* at most is at work on a thread, and none while its agent works on a turn.    *)

TurnPCs == {"turn", "turnStart", "turnAgain", "record", "resume", "lost", "reinit", "replace", "rebind"}
Turning(c, n) == cmd[c].pc \in TurnPCs /\ cmd[c].name = n

\* A thread of that name was created and activated.
Known(n)     == \E r \in Rows : rows[r].name = n /\ rows[r].status \in {"active", "merged"}
KnownNext(n) == \E r \in Rows : rows'[r].name = n /\ rows'[r].status \in {"active", "merged"}
Merged(n)    == RowsOf(n, {"merged"}) # {}

\* The commands that start turns, and how they know their thread.
Followed ==
    /\ \A c \in Clients : cmd[c].pc \in TurnPCs => c \in Users /\ cmd[c].name \in Names
    /\ \A c \in Clients : cmd[c].pc = "deactivate" => switches > 0
    /\ \A c \in Clients : cmd[c].pc \in TurnPCs \cup {"bind"} => Known(cmd[c].name)
    /\ \A u \in Users : bind[u].name # NoName => Known(bind[u].name)

\* Who starts a turn has claimed the thread, alone; the agent works on no turn but
\* the one about to be recorded; and who replaces the session has seen no completed turn.
Alone(n) ==
    /\ \A c \in Clients : Turning(c, n) => n \in busy
    /\ \A c, d \in Clients : Turning(c, n) /\ Turning(d, n) => c = d
    /\ running[n] # NoSession => n \in busy
    /\ \A c \in Clients : Turning(c, n) /\ running[n] # NoSession => cmd[c].pc = "record"
    /\ \A c \in Clients : Turning(c, n) /\ cmd[c].pc \in {"lost", "reinit", "replace"} => n \notin completed

\* It is so unless a command forgot that a thread is busy.
Waits == \A n \in Names : switches = 0 /\ ~Merged(n) => Alone(n)

\* An activated row keeps its name, and is merged at most.
RowsKept ==
    \A r \in Rows : rows[r].status \in {"active", "merged"} =>
        /\ rows'[r].name = rows[r].name
        /\ \/ rows'[r].status = rows[r].status
           \/ rows'[r].status = "merged"

LEMMA RowsKeptNext ==
  ASSUME Typed, [Next]_vars
  PROVE  RowsKept
<1>0. rows \in [Rows -> [name : Names \cup {NoName}, status : RowStates, session : Sessions \cup {NoSession}]]
  BY DEF Typed, TypeOK
<1>1. CASE \A u \in Users : ~ Activate(u) /\ ~ ReleaseReservation(u) /\ \A n \in Names : ~ Reserve(u, n)
  BY <1>1, QuietRows DEF RowsQuiet, RowsKept
<1>2. ASSUME NEW u \in Users, Activate(u) PROVE RowsKept
  BY <1>0, <1>2 DEF Activate, RowsKept
<1>3. ASSUME NEW u \in Users, ReleaseReservation(u) PROVE RowsKept
  BY <1>0, <1>3 DEF ReleaseReservation, RowsKept
<1>4. ASSUME NEW u \in Users, NEW n \in Names, Reserve(u, n) PROVE RowsKept
  BY <1>0, <1>4 DEF Reserve, RowsKept
<1> QED BY <1>1, <1>2, <1>3, <1>4

\* What is known stays known, and what is merged stays merged.
LEMMA KnownKept ==
  ASSUME RowsKept, NEW n
  PROVE  (Known(n) => KnownNext(n)) /\ (Merged(n) => Merged(n)')
  BY DEF RowsKept, Known, KnownNext, Merged, RowsOf

\* Only the replacement of a session changes the session of an active thread.
LEMMA SessionsKept ==
  ASSUME Typed, [Next]_vars, \A u \in Users : ~ ReplaceSession(u), NEW r \in Rows,
         rows[r].status = "active", rows'[r].status = "active"
  PROVE  rows'[r].session = rows[r].session
<1>0. rows \in [Rows -> [name : Names \cup {NoName}, status : RowStates, session : Sessions \cup {NoSession}]]
  BY DEF Typed, TypeOK
<1>1. ASSUME NEW u \in Users, NEW n \in Names, Reserve(u, n) PROVE rows'[r] = rows[r]
  BY <1>0, <1>1 DEF Reserve
<1>2. ASSUME NEW u \in Users, Activate(u) PROVE rows'[r].session = rows[r].session
  BY <1>0, <1>2 DEF Activate
<1>3. ASSUME NEW u \in Users, ReleaseReservation(u) PROVE rows'[r].session = rows[r].session
  BY <1>0, <1>3 DEF ReleaseReservation
<1>4. ASSUME NEW u \in Users, MarkMerged(u) PROVE rows'[r].session = rows[r].session
  BY <1>0, <1>4 DEF MarkMerged
<1> QED BY <1>1, <1>2, <1>3, <1>4, RowsUnchanged

\* A call that starts a turn, binds a user or disables a project is where it was.
WatchPCs == TurnPCs \cup {"bind", "deactivate"}
FrameStays(c) == cmd'[c].pc \in WatchPCs => cmd'[c].pc = cmd[c].pc /\ cmd'[c].name = cmd[c].name
AllStay == \A c \in Clients : FrameStays(c)

\* One call goes where it is not watched.
LEMMA LeavesWatch ==
  ASSUME Typed, NEW c \in Clients, NEW f, f.pc \notin WatchPCs, cmd' = [cmd EXCEPT ![c] = f]
  PROVE  AllStay
<1>1. cmd \in [Clients -> Frame] BY DEF Typed, TypeOK
<1> QED BY <1>1 DEF AllStay, FrameStays

LEMMA GotoStays ==
  ASSUME Typed, NEW c \in Clients, NEW pc \in PCs \ WatchPCs, Goto(c, pc)
  PROVE  AllStay
<1>1. cmd \in [Clients -> Frame] BY DEF Typed, TypeOK
<1> DEFINE f == [cmd[c] EXCEPT !.pc = pc]
<1>2. f.pc = pc BY <1>1 DEF Frame
<1>3. cmd' = [cmd EXCEPT ![c] = f] BY <1>1 DEF Goto
<1> HIDE DEF f
<1> QED BY <1>2, <1>3, LeavesWatch

LEMMA ReturnStays ==
  ASSUME Typed, NEW c \in Clients, Return(c)
  PROVE  AllStay
  BY BlankFollows, LeavesWatch DEF Return, WatchPCs, TurnPCs

LEMMA SameStays == UNCHANGED cmd => AllStay
  BY DEF AllStay, FrameStays

\* The start of an API goes on to the creation of a thread or to the recovery.
LEMMA ApiStays ==
  ASSUME Typed, NEW c \in Clients, ApiStep(c)
  PROVE  AllStay
<1>0. cmd \in [Clients -> Frame] /\ cmd[c] \in Frame BY DEF Typed, TypeOK
<1>1. CASE RequestApi(c)
  <2>1. PICK f \in Frame : cmd' = [cmd EXCEPT ![c] = f] /\ f.pc \in {"recover", "threadStart", "join", "spawn"}
    <3> DEFINE n == cmd[c].name
               a == [cmd[c] EXCEPT !.pc = IF cmd[c].row = NoRow THEN "recover" ELSE "threadStart", !.proc = pool[n].proc]
               b == [cmd[c] EXCEPT !.pc = "join", !.via = pool[n].starter]
               d == [cmd[c] EXCEPT !.pc = "spawn", !.via = c]
    <3>1. n \in Names BY <1>0, <1>1 DEF RequestApi, At, Typed, FrameOK
    <3>2. pool[n].proc \in Procs \cup {NoProc} /\ pool[n].starter \in Clients \cup {NoOne}
      BY <3>1 DEF Typed, TypeOK
    <3>3. a \in Frame /\ a.pc \in {"recover", "threadStart"} BY <1>0, <3>2 DEF Frame, PCs
    <3>4. b \in Frame /\ b.pc = "join" BY <1>0, <3>2 DEF Frame, PCs
    <3>5. d \in Frame /\ d.pc = "spawn" BY <1>0 DEF Frame, PCs
    <3>6. cmd' = [cmd EXCEPT ![c] = a] \/ cmd' = [cmd EXCEPT ![c] = b] \/ cmd' = [cmd EXCEPT ![c] = d]
      BY <1>0, <1>1 DEF RequestApi
    <3> HIDE DEF a, b, d
    <3> QED BY <3>3, <3>4, <3>5, <3>6
  <2> QED BY <2>1, LeavesWatch DEF WatchPCs, TurnPCs
<1>2. CASE SpawnProcess(c)
  <2>1. PICK p : cmd' = [cmd EXCEPT ![c].pc = "initialize", ![c].proc = p]
    BY <1>2 DEF SpawnProcess
  <2> DEFINE f == [cmd[c] EXCEPT !.pc = "initialize", !.proc = p]
  <2>2. f.pc = "initialize" /\ cmd' = [cmd EXCEPT ![c] = f] BY <1>0, <2>1 DEF Frame
  <2> HIDE DEF f
  <2> QED BY <2>2, LeavesWatch DEF WatchPCs, TurnPCs
<1>3. CASE InitializeAnswered(c)
  <2>1. \A d \in Clients : cmd'[d] = cmd[d] \/ cmd'[d] = Started(c, d)
    BY <1>3 DEF InitializeAnswered
  <2>2. \A d \in Clients : Started(c, d).pc \in {"recover", "threadStart"} BY <1>0 DEF Started, Frame
  <2> QED BY <2>1, <2>2 DEF AllStay, FrameStays, WatchPCs, TurnPCs
<1>4. CASE InitializeFails(c)
  <2>1. \A d \in Clients : cmd'[d] = cmd[d] \/ cmd'[d] = NotStarted(d)
    BY <1>4 DEF InitializeFails
  <2>2. \A d \in Clients : NotStarted(d).pc \in {"recover", "release"} BY <1>0 DEF NotStarted, Frame
  <2> QED BY <2>1, <2>2 DEF AllStay, FrameStays, WatchPCs, TurnPCs
<1>5. CASE RecoverThread(c)
  <2>1. CASE Return(c) BY <2>1, ReturnStays
  <2>2. CASE \E n \in cmd[c].todo :
               LET rest == [Blank EXCEPT !.todo = cmd[c].todo \ {n}, !.pc = "recover"] IN
               cmd' = [cmd EXCEPT ![c] = IF ~Ready(n) /\ n \in worktrees
                                         THEN [rest EXCEPT !.pc = "request", !.name = n] ELSE rest]
    <3>1. PICK n : LET rest == [Blank EXCEPT !.todo = cmd[c].todo \ {n}, !.pc = "recover"] IN
               cmd' = [cmd EXCEPT ![c] = IF ~Ready(n) /\ n \in worktrees
                                         THEN [rest EXCEPT !.pc = "request", !.name = n] ELSE rest]
      BY <2>2
    <3> DEFINE rest == [Blank EXCEPT !.todo = cmd[c].todo \ {n}, !.pc = "recover"]
               f == IF ~Ready(n) /\ n \in worktrees THEN [rest EXCEPT !.pc = "request", !.name = n] ELSE rest
    <3>2. rest.pc = "recover" /\ [rest EXCEPT !.pc = "request", !.name = n].pc = "request" BY DEF Blank
    <3>3. f.pc \in {"request", "recover"} BY <3>2
    <3>4. cmd' = [cmd EXCEPT ![c] = f] BY <3>1
    <3> HIDE DEF f
    <3> QED BY <3>3, <3>4, LeavesWatch DEF WatchPCs, TurnPCs
  <2> QED BY <1>5, <2>1, <2>2 DEF RecoverThread
<1> QED BY <1>1, <1>2, <1>3, <1>4, <1>5 DEF ApiStep

\* So does the creation of a thread, but for the activation.
LEMMA ThreadStays ==
  ASSUME Typed, NEW c \in Users, ThreadStep(c), ~ Activate(c)
  PROVE  AllStay
<1>0. c \in Clients /\ cmd \in [Clients -> Frame] /\ cmd[c] \in Frame BY DEF Typed, TypeOK, Clients
<1>1. CASE PrepareWorktree(c) BY <1>0, <1>1, GotoStays DEF PrepareWorktree, PCs, WatchPCs, TurnPCs
<1>2. CASE ThreadStarted(c)
  <2>1. CASE Goto(c, "release") BY <1>0, <2>1, GotoStays DEF PCs, WatchPCs, TurnPCs
  <2>2. CASE \E s \in Sessions : cmd' = [cmd EXCEPT ![c].pc = "activate", ![c].session = s]
    <3>1. PICK s \in Sessions : cmd' = [cmd EXCEPT ![c].pc = "activate", ![c].session = s] BY <2>2
    <3> DEFINE f == [cmd[c] EXCEPT !.pc = "activate", !.session = s]
    <3>2. f.pc = "activate" /\ cmd' = [cmd EXCEPT ![c] = f] BY <1>0, <3>1 DEF Frame
    <3> HIDE DEF f
    <3> QED BY <1>0, <3>2, LeavesWatch DEF WatchPCs, TurnPCs
  <2> QED BY <1>2, <2>1, <2>2 DEF ThreadStarted
<1>3. CASE ReleaseReservation(c)
  BY <1>0, <1>3, GotoStays, ReturnStays DEF ReleaseReservation, PCs, WatchPCs, TurnPCs
<1>4. CASE DisposeRuntime(c) \/ BindUser(c) \/ MarkMerged(c) \/ ApplyPolicy(c) \/ DeactivateProject(c)
  BY <1>0, <1>4, ReturnStays DEF DisposeRuntime, BindUser, MarkMerged, ApplyPolicy, DeactivateProject
<1>5. CASE RemoveWorktree(c)
  BY <1>0, <1>5, GotoStays, ReturnStays DEF RemoveWorktree, PCs, WatchPCs, TurnPCs
<1> QED BY <1>1, <1>2, <1>3, <1>4, <1>5 DEF ThreadStep

\* And so do most commands.
LEMMA CommandStays ==
  ASSUME Typed, NEW u \in Users, Command(u),
         ~ BeginTurn(u), ~ DisableProject(u), \A n \in Names : ~ JoinThread(u, n)
  PROVE  AllStay
<1>0. u \in Clients /\ cmd \in [Clients -> Frame] /\ cmd[u] \in Frame BY DEF Typed, TypeOK, Clients
<1>1. CASE LeaveThread(u) \/ LinkProject(u)
  BY <1>1, SameStays DEF LeaveThread, LinkProject
<1>2. CASE ReactivateProject(u)
  <2> DEFINE f == [cmd[u] EXCEPT !.pc = "recover", !.todo = {n \in Names : Active(n) # {}}]
  <2>1. f.pc = "recover" /\ cmd' = [cmd EXCEPT ![u] = f] BY <1>0, <1>2 DEF ReactivateProject, Frame
  <2> HIDE DEF f
  <2> QED BY <1>0, <2>1, LeavesWatch DEF WatchPCs, TurnPCs
<1>3. ASSUME NEW n \in Names, Reserve(u, n)
      PROVE  AllStay
  <2>1. CASE UNCHANGED cmd BY <2>1, SameStays
  <2>2. CASE \E r \in Rows : cmd' = [cmd EXCEPT ![u].pc = "prepare", ![u].name = n, ![u].row = r]
    <3>1. PICK r \in Rows : cmd' = [cmd EXCEPT ![u].pc = "prepare", ![u].name = n, ![u].row = r] BY <2>2
    <3> DEFINE f == [cmd[u] EXCEPT !.pc = "prepare", !.name = n, !.row = r]
    <3>2. f.pc = "prepare" /\ cmd' = [cmd EXCEPT ![u] = f] BY <1>0, <3>1 DEF Frame
    <3> HIDE DEF f
    <3> QED BY <1>0, <3>2, LeavesWatch DEF WatchPCs, TurnPCs
  <2> QED BY <1>3, <2>1, <2>2 DEF Reserve
<1>4. ASSUME NEW n \in Names, DeleteThread(u, n)
      PROVE  AllStay
  <2> DEFINE f == [cmd[u] EXCEPT !.pc = "remove", !.name = n]
  <2>1. f.pc = "remove" /\ cmd' = [cmd EXCEPT ![u] = f] BY <1>0, <1>4 DEF DeleteThread, Frame
  <2> HIDE DEF f
  <2> QED BY <1>0, <2>1, LeavesWatch DEF WatchPCs, TurnPCs
<1>5. ASSUME NEW n \in Names, ConfirmPolicy(u, n)
      PROVE  AllStay
  <2> DEFINE f == [cmd[u] EXCEPT !.pc = "policy", !.name = n]
  <2>1. f.pc = "policy" /\ cmd' = [cmd EXCEPT ![u] = f] BY <1>0, <1>5 DEF ConfirmPolicy, Frame
  <2> HIDE DEF f
  <2> QED BY <1>0, <2>1, LeavesWatch DEF WatchPCs, TurnPCs
<1> QED BY <1>1, <1>2, <1>3, <1>4, <1>5 DEF Command

\* A call that is not where it was, but knows its thread.
FrameGood(c) ==
    /\ cmd'[c].pc \in TurnPCs => c \in Users /\ cmd'[c].name \in Names
    /\ cmd'[c].pc \in TurnPCs \cup {"bind"} => KnownNext(cmd'[c].name)
    /\ cmd'[c].pc = "deactivate" => switches' > 0

LEMMA FollowedQuiet ==
  ASSUME Followed, RowsKept, switches \in Nat, switches' \in Nat, switches' >= switches,
         \A c \in Clients : FrameStays(c) \/ FrameGood(c),
         \A u \in Users : bind'[u].name # NoName => Known(bind'[u].name)
  PROVE  Followed'
<1>1. ASSUME NEW c \in Clients, cmd'[c].pc \in TurnPCs PROVE c \in Users /\ cmd'[c].name \in Names
  BY <1>1 DEF FrameStays, FrameGood, Followed, WatchPCs
<1>2. ASSUME NEW c \in Clients, cmd'[c].pc = "deactivate" PROVE switches' > 0
  <2>1. CASE FrameGood(c) BY <1>2, <2>1 DEF FrameGood
  <2>2. CASE FrameStays(c)
    <3>1. switches > 0 BY <1>2, <2>2 DEF FrameStays, Followed, WatchPCs
    <3> QED BY <3>1
  <2> QED BY <2>1, <2>2
<1>3. ASSUME NEW c \in Clients, cmd'[c].pc \in TurnPCs \cup {"bind"} PROVE KnownNext(cmd'[c].name)
  <2>1. CASE FrameGood(c) BY <1>3, <2>1 DEF FrameGood
  <2>2. CASE FrameStays(c)
    <3>1. Known(cmd[c].name) /\ cmd'[c].name = cmd[c].name
      BY <1>3, <2>2 DEF FrameStays, Followed, WatchPCs
    <3> QED BY <3>1, KnownKept
  <2> QED BY <2>1, <2>2
<1>4. ASSUME NEW u \in Users, bind'[u].name # NoName PROVE KnownNext(bind'[u].name)
  BY <1>4, KnownKept
<1> QED BY <1>1, <1>2, <1>3, <1>4 DEF Followed, Known, KnownNext

\* A step that starts no turn, moves none and ends none.
TurnsStay == \A c \in Clients : cmd'[c].pc \in TurnPCs => cmd'[c].pc = cmd[c].pc /\ cmd'[c].name = cmd[c].name

LEMMA AllTurnsStay == AllStay => TurnsStay
  BY DEF AllStay, FrameStays, TurnsStay, WatchPCs

LEMMA WaitsQuiet ==
  ASSUME Waits, RowsKept, TurnsStay, switches' = 0 => switches = 0,
         UNCHANGED <<busy, running, completed>>
  PROVE  Waits'
<1> SUFFICES ASSUME NEW n \in Names, switches' = 0, ~Merged(n)' PROVE Alone(n)'
  BY DEF Waits
<1>1. Alone(n) BY KnownKept DEF Waits
<1>2. ASSUME NEW c \in Clients, Turning(c, n)' PROVE Turning(c, n) /\ cmd'[c].pc = cmd[c].pc
  BY <1>2 DEF Turning, TurnsStay
<1> QED BY <1>1, <1>2 DEF Alone

\* A step that starts turns of nobody but on the thread n, and changes who works on no other.
ElsewhereSame(n) ==
    /\ \A m \in Names \ {n} : \A c \in Clients : Turning(c, m)' => Turning(c, m) /\ cmd'[c].pc = cmd[c].pc
    /\ \A m \in Names \ {n} :
         /\ m \in busy => m \in busy'
         /\ running'[m] = running[m]
         /\ m \in completed' => m \in completed

LEMMA WaitsElsewhere ==
  ASSUME Waits, RowsKept, switches' = 0 => switches = 0, NEW n \in Names, ElsewhereSame(n),
         switches = 0 /\ ~Merged(n) /\ Alone(n) /\ ~Merged(n)' => Alone(n)'
  PROVE  Waits'
<1> SUFFICES ASSUME NEW m \in Names, switches' = 0, ~Merged(m)' PROVE Alone(m)'
  BY DEF Waits
<1>1. ~Merged(m) /\ Alone(m) BY KnownKept DEF Waits
<1>2. CASE m = n BY <1>1, <1>2
<1>3. CASE m # n
  <2>1. ASSUME NEW c \in Clients, Turning(c, m)' PROVE Turning(c, m) /\ cmd'[c].pc = cmd[c].pc
    BY <1>3, <2>1 DEF ElsewhereSame
  <2>2. (m \in busy => m \in busy') /\ running'[m] = running[m] /\ (m \in completed' => m \in completed)
    BY <1>3 DEF ElsewhereSame
  <2> QED BY <1>1, <2>1, <2>2 DEF Alone
<1> QED BY <1>2, <1>3

\* The command of user c, which starts a turn, goes on to f.
LEMMA TurnMoves ==
  ASSUME Typed, Followed, Waits, RowsKept, switches' = switches, NEW c \in Users, NEW f \in Frame,
         cmd[c].pc \in TurnPCs \ {"record"}, cmd' = [cmd EXCEPT ![c] = f],
         f.pc \in TurnPCs, f.name = cmd[c].name, UNCHANGED <<busy, completed>>,
         running' = running \/ (f.pc = "record" /\ \E s : running' = [running EXCEPT ![cmd[c].name] = s]),
         f.pc \in {"lost", "reinit", "replace"} =>
             cmd[c].pc \in {"lost", "reinit", "replace"} \/ cmd[c].name \notin completed
  PROVE  Waits'
<1>n. PICK n \in Names : n = cmd[c].name
  BY DEF Clients, Followed
<1>0. c \in Clients /\ cmd \in [Clients -> Frame] /\ n = cmd[c].name /\ running \in [Names -> Sessions \cup {NoSession}]
  BY <1>n DEF Clients, Typed, TypeOK
<1>1. cmd'[c] = f /\ \A d \in Clients : d # c => cmd'[d] = cmd[d] BY <1>0
<1>2. ElsewhereSame(n)
  <2>1. ASSUME NEW m \in Names \ {n}, NEW d \in Clients, Turning(d, m)' PROVE Turning(d, m) /\ cmd'[d].pc = cmd[d].pc
    BY <1>0, <1>1, <2>1 DEF Turning
  <2>2. \A m \in Names \ {n} : running'[m] = running[m] BY <1>0
  <2> QED BY <2>1, <2>2 DEF ElsewhereSame
<1>3. ASSUME Alone(n) PROVE Alone(n)'
  <2>1. Turning(c, n) /\ n \in busy /\ running[n] = NoSession BY <1>0, <1>3 DEF Alone, Turning
  <2>2. \A d \in Clients : Turning(d, n) => d = c BY <1>0, <1>3, <2>1 DEF Alone
  <2>3. ASSUME NEW d \in Clients, Turning(d, n)' PROVE d = c BY <1>0, <1>1, <2>2, <2>3 DEF Turning
  <2>4. running'[n] # NoSession => f.pc = "record" BY <1>0, <2>1
  <2>5. f.pc \in {"lost", "reinit", "replace"} => n \notin completed BY <1>0, <1>3, <2>1 DEF Alone
  <2> QED BY <1>1, <2>1, <2>3, <2>4, <2>5 DEF Alone
<1> QED BY <1>0, <1>2, <1>3, WaitsElsewhere

\* It returns: the turn is recorded, or failed and releases the thread.
LEMMA TurnReturns ==
  ASSUME Typed, Followed, Waits, RowsKept, switches' = switches, NEW c \in Users,
         cmd[c].pc \in TurnPCs, Return(c), UNCHANGED <<running, completed>>,
         busy' = busy \/ (busy' = busy \ {cmd[c].name} /\ (cmd[c].pc = "record" => Active(cmd[c].name) = {}))
  PROVE  Waits'
<1>n. PICK n \in Names : n = cmd[c].name
  BY DEF Clients, Followed
<1>0. c \in Clients /\ cmd \in [Clients -> Frame] /\ n = cmd[c].name /\ running \in [Names -> Sessions \cup {NoSession}]
  BY <1>n DEF Clients, Typed, TypeOK
<1>1. cmd'[c].pc = "idle" /\ \A d \in Clients : d # c => cmd'[d] = cmd[d] BY <1>0, BlankFollows DEF Return
<1>2. \A m, d : d \in Clients /\ Turning(d, m)' => Turning(d, m) /\ cmd'[d].pc = cmd[d].pc /\ d # c
  BY <1>1 DEF Turning, TurnPCs
<1>3. ElsewhereSame(n) BY <1>0, <1>2 DEF ElsewhereSame
<1>4. ASSUME Alone(n), ~Merged(n) PROVE Alone(n)'
  <2>1. Turning(c, n) /\ n \in busy BY <1>0, <1>4 DEF Alone, Turning
  <2>2. \A d \in Clients : Turning(d, n) => d = c BY <1>0, <1>4, <2>1 DEF Alone
  <2>3. \A d \in Clients : ~Turning(d, n)' BY <1>2, <2>2
  <2>4. running[n] # NoSession => n \in busy'
    <3>1. CASE cmd[c].pc # "record" BY <1>0, <1>4, <2>1, <3>1 DEF Alone
    <3>2. CASE cmd[c].pc = "record"
      <4>1. Known(n) BY <1>0, <3>2 DEF Followed, TurnPCs
      <4>2. Active(n) # {} BY <1>4, <4>1 DEF Known, Merged, Active, RowsOf
      <4> QED BY <1>0, <2>1, <3>2, <4>2
    <3> QED BY <3>1, <3>2
  <2> QED BY <2>3, <2>4 DEF Alone
<1> QED BY <1>0, <1>3, <1>4, WaitsElsewhere

\* What the commands that start turns do.
Moves(c) ==
    /\ cmd[c].pc # "record"
    /\ cmd' = [cmd EXCEPT ![c] = cmd'[c]]
    /\ cmd'[c].pc \in TurnPCs /\ cmd'[c].name = cmd[c].name
    /\ busy' = busy
    /\ \/ running' = running
       \/ cmd'[c].pc = "record" /\ \E s : running' = [running EXCEPT ![cmd[c].name] = s]
    /\ cmd'[c].pc \in {"lost", "reinit", "replace"} =>
         cmd[c].pc \in {"lost", "reinit", "replace"} \/ cmd[c].name \notin completed
Returns(c) ==
    /\ Return(c)
    /\ running' = running
    /\ busy' = busy \/ (busy' = busy \ {cmd[c].name} /\ (cmd[c].pc = "record" => Active(cmd[c].name) = {}))

LEMMA TurnStepped ==
  ASSUME Typed, NEW c \in Users, TurnStep(c)
  PROVE  /\ cmd[c].pc \in TurnPCs /\ completed' = completed /\ switches' = switches
         /\ Moves(c) \/ Returns(c)
<1>0. c \in Clients /\ cmd \in [Clients -> Frame] /\ cmd[c] \in Frame BY DEF Typed, TypeOK, Clients
<1>t. ASSUME NEW pc, Goto(c, pc)
      PROVE  cmd' = [cmd EXCEPT ![c] = cmd'[c]] /\ cmd'[c].pc = pc /\ cmd'[c].name = cmd[c].name
  BY <1>0, <1>t DEF Goto, Frame
<1>f. ASSUME TurnFails(c), running' = running, cmd[c].pc # "record" PROVE Returns(c)
  BY <1>f DEF TurnFails, Returns
<1>1. CASE ResolveAgentApi(c)
  <2>1. cmd[c].pc \in {"turn", "lost"} /\ UNCHANGED <<running, completed, switches>>
    BY <1>1 DEF ResolveAgentApi, outside
  <2>2. CASE Ready(cmd[c].name)
    <3> DEFINE f == [cmd[c] EXCEPT !.pc = IF @ = "turn" THEN "turnStart" ELSE "reinit", !.proc = pool[cmd[c].name].proc]
    <3>1. busy' = busy /\ cmd' = [cmd EXCEPT ![c] = f] BY <1>0, <1>1, <2>2 DEF ResolveAgentApi
    <3>2. f.name = cmd[c].name /\ f.pc = IF cmd[c].pc = "turn" THEN "turnStart" ELSE "reinit" BY <1>0 DEF Frame
    <3>3. cmd'[c] = f BY <1>0, <3>1
    <3> HIDE DEF f
    <3> QED BY <2>1, <3>1, <3>2, <3>3 DEF Moves, TurnPCs
  <2>3. CASE ~Ready(cmd[c].name) BY <1>1, <1>f, <2>1, <2>3 DEF ResolveAgentApi, TurnPCs
  <2> QED BY <2>2, <2>3
<1>2. CASE TurnAnswered(c)
  <2>1. cmd[c].pc \in {"turnStart", "turnAgain"} /\ UNCHANGED <<completed, switches>>
    BY <1>2 DEF TurnAnswered, outside
  <2>2. CASE running' = [running EXCEPT ![cmd[c].name] = cmd[c].session] /\ Goto(c, "record") /\ busy' = busy
    <3>1. \E s : running' = [running EXCEPT ![cmd[c].name] = s] BY <2>2, Zenon
    <3>2. Goto(c, "record") /\ busy' = busy BY <2>2
    <3> QED BY <1>t, <2>1, <3>1, <3>2 DEF Moves, TurnPCs
  <2>3. CASE Goto(c, "resume") /\ UNCHANGED <<running, busy>>
    BY <1>t, <2>1, <2>3 DEF Moves, TurnPCs
  <2>4. CASE TurnFails(c) /\ UNCHANGED running BY <1>f, <2>1, <2>4 DEF TurnPCs
  <2> QED BY <1>2, <2>2, <2>3, <2>4 DEF TurnAnswered
<1>3. CASE ResumeAnswered(c)
  <2>1. cmd[c].pc = "resume" /\ UNCHANGED <<running, completed, switches>>
    BY <1>3 DEF ResumeAnswered, At, outside
  <2>2. CASE Goto(c, "turnAgain") /\ UNCHANGED busy BY <1>t, <2>1, <2>2 DEF Moves, TurnPCs
  <2>3. CASE cmd[c].name \notin completed /\ Goto(c, "lost") /\ UNCHANGED busy
    BY <1>t, <2>1, <2>3 DEF Moves, TurnPCs
  <2>4. CASE TurnFails(c) BY <1>f, <2>1, <2>4 DEF TurnPCs
  <2> QED BY <1>3, <2>2, <2>3, <2>4 DEF ResumeAnswered
<1>4. CASE StartAgain(c)
  <2>1. cmd[c].pc = "reinit" /\ UNCHANGED <<running, completed, switches>>
    BY <1>4 DEF StartAgain, At, outside
  <2>2. CASE busy' = busy /\ \E s \in Sessions :
               cmd' = [cmd EXCEPT ![c].pc = "replace", ![c].old = cmd[c].session, ![c].session = s]
    <3>1. PICK s \in Sessions : cmd' = [cmd EXCEPT ![c].pc = "replace", ![c].old = cmd[c].session, ![c].session = s]
      BY <2>2
    <3> DEFINE f == [cmd[c] EXCEPT !.pc = "replace", !.old = cmd[c].session, !.session = s]
    <3>2. f.pc = "replace" /\ f.name = cmd[c].name /\ cmd' = [cmd EXCEPT ![c] = f] BY <1>0, <3>1 DEF Frame
    <3>3. cmd'[c] = f BY <1>0, <3>2
    <3> HIDE DEF f
    <3> QED BY <2>1, <2>2, <3>2, <3>3 DEF Moves, TurnPCs
  <2>3. CASE TurnFails(c) BY <1>f, <2>1, <2>3 DEF TurnPCs
  <2> QED BY <1>4, <2>2, <2>3 DEF StartAgain
<1>5. CASE ReplaceSession(c)
  <2>1. cmd[c].pc = "replace" /\ UNCHANGED <<running, completed, switches>>
    BY <1>5 DEF ReplaceSession, At, outside
  <2>2. CASE Goto(c, "rebind") /\ UNCHANGED busy BY <1>t, <2>1, <2>2 DEF Moves, TurnPCs
  <2>3. CASE TurnFails(c) BY <1>f, <2>1, <2>3 DEF TurnPCs
  <2> QED BY <1>5, <2>2, <2>3 DEF ReplaceSession
<1>6. CASE RebindThread(c)
  <2>1. cmd[c].pc = "rebind" /\ UNCHANGED <<running, completed, switches, busy>> /\ Goto(c, "turnAgain")
    BY <1>6 DEF RebindThread, At, outside, turns
  <2> QED BY <1>t, <2>1 DEF Moves, TurnPCs
<1>7. CASE RecordTurn(c)
  <2>1. cmd[c].pc = "record" /\ UNCHANGED <<running, completed, switches>>
    BY <1>7 DEF RecordTurn, At, outside
  <2>2. CASE Return(c) /\ UNCHANGED busy BY <2>1, <2>2 DEF Returns, TurnPCs
  <2>3. CASE TurnFails(c) /\ Active(cmd[c].name) = {} BY <2>1, <2>3 DEF Returns, TurnFails, TurnPCs
  <2> QED BY <1>7, <2>2, <2>3 DEF RecordTurn
<1> QED BY <1>1, <1>2, <1>3, <1>4, <1>5, <1>6, <1>7 DEF TurnStep

\* The calls that write bindings, and the one that disables the project.
LEMMA OthersUnchanged ==
  ASSUME [Next]_vars,
         \A u \in Users : ~ LeaveThread(u) /\ ~ BindUser(u) /\ ~ RebindThread(u) /\ ~ DisableProject(u)
  PROVE  UNCHANGED <<bind, switches>>
<1>1. ASSUME NEW u \in Users, Command(u) PROVE UNCHANGED <<bind, switches>>
  <2>1. CASE BeginTurn(u) \/ LinkProject(u) \/ ReactivateProject(u)
    BY <2>1 DEF BeginTurn, LinkProject, ReactivateProject, store, outside
  <2>2. CASE \E n \in Names : Reserve(u, n) \/ JoinThread(u, n)
    BY <2>2 DEF Reserve, JoinThread, store, outside
  <2>3. CASE \E n \in Names : DeleteThread(u, n) \/ ConfirmPolicy(u, n)
    BY <2>3 DEF DeleteThread, ConfirmPolicy, store, outside
  <2> QED BY <1>1, <2>1, <2>2, <2>3 DEF Command
<1>2. ASSUME NEW u \in Users, ThreadStep(u) PROVE UNCHANGED <<bind, switches>>
  BY <1>2 DEF ThreadStep, PrepareWorktree, ThreadStarted, Activate, ReleaseReservation, DisposeRuntime,
              RemoveWorktree, MarkMerged, ApplyPolicy, DeactivateProject, store, outside
<1>3. ASSUME NEW u \in Users, TurnStep(u) PROVE UNCHANGED <<bind, switches>>
  BY <1>3 DEF TurnStep, ResolveAgentApi, TurnAnswered, ResumeAnswered, StartAgain, ReplaceSession,
              RecordTurn, store, outside
<1>4. ASSUME NEW c \in Clients, ApiStep(c) PROVE UNCHANGED <<bind, switches>>
  BY <1>4 DEF ApiStep, RequestApi, SpawnProcess, InitializeAnswered, InitializeFails, RecoverThread, store, outside
<1>5. ASSUME (\E n \in Names : EndTurn(n)) \/ (\E p \in Procs : ProcessExits(p)) \/ Crash \/ UNCHANGED vars
      PROVE  UNCHANGED <<bind, switches>>
  BY <1>5 DEF EndTurn, ProcessExits, Crash, vars, store, outside
<1> QED BY <1>1, <1>2, <1>3, <1>4, <1>5 DEF Next

BindGood ==
    /\ \A u \in Users : bind'[u].name # NoName => Known(bind'[u].name)
    /\ switches' \in Nat /\ switches' >= switches

\* What a step does to the bindings and to the number of times the project was disabled.
LEMMA BindingsKnown ==
  ASSUME Typed, Followed, [Next]_vars
  PROVE  BindGood
<1>0. switches \in Nat /\ cmd \in [Clients -> Frame] /\ Users \subseteq Clients
      /\ bind \in [Users -> [name : Names \cup {NoName}, session : Sessions \cup {NoSession}]]
  BY DEF Typed, TypeOK, Clients
<1>1. \A u \in Users : bind[u].name # NoName => Known(bind[u].name) BY DEF Followed
<1>2. CASE UNCHANGED <<bind, switches>>
  BY <1>0, <1>1, <1>2 DEF BindGood
<1>3. ASSUME NEW u \in Users, LeaveThread(u) PROVE BindGood
  <2>1. bind' = [bind EXCEPT ![u] = [name |-> NoName, session |-> NoSession]] /\ switches' = switches
    BY <1>3 DEF LeaveThread, outside
  <2>2. \A v \in Users : bind'[v].name = NoName \/ bind'[v] = bind[v] BY <1>0, <2>1
  <2> QED BY <1>0, <1>1, <2>1, <2>2 DEF BindGood
<1>4. ASSUME NEW u \in Users, BindUser(u) PROVE BindGood
  <2>1. bind' = [bind EXCEPT ![u] = [name |-> cmd[u].name, session |-> cmd[u].session]] /\ switches' = switches
        /\ cmd[u].pc = "bind"
    BY <1>4 DEF BindUser, outside, At
  <2>2. Known(cmd[u].name) BY <1>0, <2>1 DEF Followed
  <2>3. \A v \in Users : bind'[v].name = cmd[u].name \/ bind'[v] = bind[v] BY <1>0, <2>1
  <2> QED BY <1>0, <1>1, <2>1, <2>2, <2>3 DEF BindGood
<1>5. ASSUME NEW u \in Users, RebindThread(u) PROVE BindGood
  <2>1. switches' = switches BY <1>5 DEF RebindThread, outside
  <2>2. \A v \in Users : bind'[v].name = bind[v].name
    <3> DEFINE old == [name |-> cmd[u].name, session |-> cmd[u].old]
    <3>1. \A v \in Users : \/ bind'[v] = bind[v]
                           \/ bind[v] = old /\ bind'[v] = [old EXCEPT !.session = cmd[u].session]
      BY <1>5 DEF RebindThread
    <3>2. old.name = cmd[u].name /\ [old EXCEPT !.session = cmd[u].session].name = cmd[u].name OBVIOUS
    <3> QED BY <3>1, <3>2
  <2> QED BY <1>0, <1>1, <2>1, <2>2 DEF BindGood
<1>6. ASSUME NEW u \in Users, DisableProject(u) PROVE BindGood
  <2>1. bind' = bind /\ switches' = switches + 1 BY <1>6 DEF DisableProject, store
  <2> QED BY <1>0, <1>1, <2>1 DEF BindGood
<1> QED BY <1>2, <1>3, <1>4, <1>5, <1>6, OthersUnchanged

\* One call goes to where it knows its thread.
LEMMA OneGood ==
  ASSUME Typed, NEW c \in Clients, NEW f, cmd' = [cmd EXCEPT ![c] = f], FrameGood(c)
  PROVE  \A d \in Clients : FrameStays(d) \/ FrameGood(d)
<1>1. cmd \in [Clients -> Frame] BY DEF Typed, TypeOK
<1>2. \A d \in Clients : d # c => FrameStays(d) BY <1>1 DEF FrameStays
<1> QED BY <1>2

\* The start of a turn, when it is not refused.
BeginsTurn(u) ==
    LET n == bind[u].name IN
    /\ cmd' = [cmd EXCEPT ![u] = [cmd[u] EXCEPT !.pc = "turn", !.name = n, !.session = bind[u].session]]
    /\ n \in Names /\ n \notin busy /\ busy' = busy \cup {n}
    /\ cmd'[u].pc = "turn" /\ cmd'[u].name = n

\* A user who waits for a busy thread is not refused.
LEMMA Begins ==
  ASSUME Typed, NEW u \in Users, BeginTurn(u)
  PROVE  /\ UNCHANGED cmd \/ BeginsTurn(u)
         /\ "overlap" \notin Env => BeginsTurn(u)
<1>0. u \in Clients /\ cmd \in [Clients -> Frame] /\ cmd[u] \in Frame
      /\ bind \in [Users -> [name : Names \cup {NoName}, session : Sessions \cup {NoSession}]]
  BY DEF Typed, TypeOK, Clients
<1> DEFINE n == bind[u].name
           f == [cmd[u] EXCEPT !.pc = "turn", !.name = n, !.session = bind[u].session]
<1>1. n \in Names BY <1>0 DEF BeginTurn
<1>2. f.pc = "turn" /\ f.name = n BY <1>0 DEF Frame
<1>3. CASE n \in busy BY <1>3 DEF BeginTurn
<1>4. CASE n \notin busy
  <2>1. busy' = busy \cup {n} /\ cmd' = [cmd EXCEPT ![u] = f] BY <1>0, <1>4 DEF BeginTurn
  <2>2. cmd'[u] = f BY <1>0, <2>1
  <2> HIDE DEF f
  <2>3. cmd'[u].pc = "turn" /\ cmd'[u].name = n BY <1>2, <2>2
  <2>4. cmd' = [cmd EXCEPT ![u] = [cmd[u] EXCEPT !.pc = "turn", !.name = n, !.session = bind[u].session]]
    BY <2>1 DEF f
  <2> QED BY <1>1, <1>4, <2>1, <2>3, <2>4 DEF BeginsTurn
<1> QED BY <1>3, <1>4

\* Commands know their thread.
LEMMA FramesKnown ==
  ASSUME Typed, Owned, Followed, RowsKept, [Next]_vars
  PROVE  \A c \in Clients : FrameStays(c) \/ FrameGood(c)
<1>0. cmd \in [Clients -> Frame] /\ Users \subseteq Clients
  BY DEF Typed, TypeOK, Clients
<1>a. AllStay => \A c \in Clients : FrameStays(c) \/ FrameGood(c) BY DEF AllStay
<1>1. ASSUME NEW u \in Users, BeginTurn(u)
      PROVE  \A c \in Clients : FrameStays(c) \/ FrameGood(c)
  <2>1. CASE UNCHANGED cmd BY <1>a, <2>1, SameStays
  <2>2. CASE BeginsTurn(u)
    <3>1. Known(bind[u].name)
      <4>1. bind[u].name # NoName BY <1>1 DEF BeginTurn
      <4> QED BY <4>1 DEF Followed
    <3>2. cmd'[u].pc = "turn" /\ cmd'[u].name = bind[u].name /\ bind[u].name \in Names BY <2>2 DEF BeginsTurn
    <3>3. KnownNext(cmd'[u].name) BY <3>1, <3>2, KnownKept
    <3>4. FrameGood(u) BY <3>2, <3>3 DEF FrameGood
    <3> QED BY <1>0, <2>2, <3>4, OneGood DEF BeginsTurn
  <2> QED BY <1>1, <2>1, <2>2, Begins
<1>2. ASSUME NEW u \in Users, DisableProject(u)
      PROVE  \A c \in Clients : FrameStays(c) \/ FrameGood(c)
  <2>1. Goto(u, "deactivate") /\ switches' = switches + 1 /\ switches \in Nat
    BY <1>2 DEF DisableProject, Typed, TypeOK
  <2>2. cmd' = [cmd EXCEPT ![u] = [cmd[u] EXCEPT !.pc = "deactivate"]] BY <1>0, <2>1 DEF Goto
  <2>3. cmd'[u].pc = "deactivate" BY <1>0, <2>2 DEF Frame
  <2>4. FrameGood(u) BY <2>1, <2>3 DEF FrameGood, TurnPCs
  <2> QED BY <1>0, <2>2, <2>4, OneGood
<1>3. ASSUME NEW u \in Users, NEW n \in Names, JoinThread(u, n)
      PROVE  \A c \in Clients : FrameStays(c) \/ FrameGood(c)
  <2>1. PICK r \in Active(n) : cmd' = [cmd EXCEPT ![u].pc = "bind", ![u].name = n, ![u].session = rows[r].session]
    BY <1>3 DEF JoinThread
  <2> DEFINE f == [cmd[u] EXCEPT !.pc = "bind", !.name = n, !.session = rows[r].session]
  <2>2. f.pc = "bind" /\ f.name = n /\ cmd' = [cmd EXCEPT ![u] = f] BY <1>0, <2>1 DEF Frame
  <2>3. cmd'[u] = f BY <1>0, <2>2
  <2> HIDE DEF f
  <2>4. KnownNext(n) BY <2>1, KnownKept DEF Known, Active, RowsOf
  <2>5. FrameGood(u) BY <2>2, <2>3, <2>4 DEF FrameGood, TurnPCs
  <2> QED BY <1>0, <2>2, <2>5, OneGood
<1>4. ASSUME NEW u \in Users, Activate(u)
      PROVE  \A c \in Clients : FrameStays(c) \/ FrameGood(c)
  <2>1. CASE Goto(u, "release")
    BY <1>0, <1>a, <2>1, GotoStays DEF PCs, WatchPCs, TurnPCs
  <2>2. CASE Goto(u, "bind") /\ rows' = [rows EXCEPT ![cmd[u].row].status = "active",
                                                    ![cmd[u].row].session = cmd[u].session]
    <3>1. cmd[u].pc = "activate" /\ cmd[u].row \in Rows BY <1>0, <1>4 DEF Activate, At, Typed, FrameOK
    <3>2. rows[cmd[u].row].name = cmd[u].name
      BY <1>0, <3>1, ThreadConstants DEF Owned, Reserved, Creates, CreatePCs
    <3>3. rows'[cmd[u].row].name = cmd[u].name /\ rows'[cmd[u].row].status = "active"
      BY <2>2, <3>1, <3>2 DEF Typed, TypeOK
    <3>4. cmd' = [cmd EXCEPT ![u] = [cmd[u] EXCEPT !.pc = "bind"]] BY <1>0, <2>2 DEF Goto
    <3>5. cmd'[u].pc = "bind" /\ cmd'[u].name = cmd[u].name BY <1>0, <3>4 DEF Frame
    <3>6. FrameGood(u) BY <3>1, <3>3, <3>5 DEF FrameGood, KnownNext, TurnPCs
    <3> QED BY <1>0, <3>4, <3>6, OneGood
  <2> QED BY <1>4, <2>1, <2>2 DEF Activate
<1>5. ASSUME NEW u \in Users, TurnStep(u)
      PROVE  \A c \in Clients : FrameStays(c) \/ FrameGood(c)
  <2>1. cmd[u].pc \in TurnPCs /\ (Moves(u) \/ Returns(u)) BY <1>5, TurnStepped
  <2>2. CASE Returns(u) BY <1>0, <1>a, <2>2, ReturnStays DEF Returns
  <2>3. CASE Moves(u)
    <3>1. cmd[u].name \in Names /\ Known(cmd[u].name) BY <1>0, <2>1 DEF Followed
    <3>2. cmd'[u].pc \in TurnPCs /\ cmd'[u].name = cmd[u].name /\ cmd' = [cmd EXCEPT ![u] = cmd'[u]]
      BY <2>3 DEF Moves
    <3>3. FrameGood(u) BY <3>1, <3>2, KnownKept DEF FrameGood, TurnPCs
    <3> QED BY <1>0, <3>2, <3>3, OneGood
  <2> QED BY <2>1, <2>2, <2>3
<1>6. ASSUME (\E n \in Names : EndTurn(n)) \/ (\E p \in Procs : ProcessExits(p)) \/ UNCHANGED vars
      PROVE  \A c \in Clients : FrameStays(c) \/ FrameGood(c)
  BY <1>6, <1>a, SameStays DEF EndTurn, ProcessExits, vars
<1>7. CASE Crash
  <2>1. \A c \in Clients : cmd'[c].pc \in {"idle", "recover"}
    BY <1>7, BlankFollows DEF Crash, Blank
  <2> QED BY <2>1 DEF FrameStays, WatchPCs, TurnPCs
<1>8. ASSUME NEW c \in Clients, ApiStep(c)
      PROVE  \A d \in Clients : FrameStays(d) \/ FrameGood(d)
  BY <1>8, <1>a, ApiStays
<1>9. ASSUME NEW u \in Users, ThreadStep(u)
      PROVE  \A c \in Clients : FrameStays(c) \/ FrameGood(c)
  BY <1>4, <1>9, <1>a, ThreadStays
<1>10. ASSUME NEW u \in Users, Command(u)
       PROVE  \A c \in Clients : FrameStays(c) \/ FrameGood(c)
  BY <1>1, <1>2, <1>3, <1>10, <1>a, CommandStays
<1> QED BY <1>5, <1>6, <1>7, <1>8, <1>9, <1>10 DEF Next

LEMMA FollowedKept == Typed /\ Owned /\ Followed /\ [Next]_vars => Followed'
<1> SUFFICES ASSUME Typed, Owned, Followed, [Next]_vars PROVE Followed'
  OBVIOUS
<1>1. switches \in Nat BY DEF Typed, TypeOK
<1> QED BY <1>1, RowsKeptNext, FramesKnown, BindingsKnown, FollowedQuiet DEF BindGood


\* The steps that change who works on a thread.
LEMMA TurnsUnchanged ==
  ASSUME [Next]_vars, ~ Crash, \A n \in Names : ~ EndTurn(n),
         \A u \in Users : ~ BeginTurn(u) /\ ~ DeactivateProject(u) /\ ~ TurnStep(u)
  PROVE  UNCHANGED <<busy, running, completed>>
<1>1. ASSUME NEW u \in Users, Command(u) PROVE UNCHANGED <<busy, running, completed>>
  <2>1. CASE LeaveThread(u) \/ DisableProject(u) \/ LinkProject(u) \/ ReactivateProject(u)
    BY <2>1 DEF LeaveThread, DisableProject, LinkProject, ReactivateProject, turns
  <2>2. CASE \E n \in Names : Reserve(u, n) \/ JoinThread(u, n)
    BY <2>2 DEF Reserve, JoinThread, turns
  <2>3. CASE \E n \in Names : DeleteThread(u, n) \/ ConfirmPolicy(u, n)
    BY <2>3 DEF DeleteThread, ConfirmPolicy, turns
  <2> QED BY <1>1, <2>1, <2>2, <2>3 DEF Command
<1>2. ASSUME NEW u \in Users, ThreadStep(u) PROVE UNCHANGED <<busy, running, completed>>
  BY <1>2 DEF ThreadStep, PrepareWorktree, ThreadStarted, Activate, ReleaseReservation, DisposeRuntime,
              BindUser, RemoveWorktree, MarkMerged, ApplyPolicy, turns
<1>3. ASSUME NEW c \in Clients, ApiStep(c) PROVE UNCHANGED <<busy, running, completed>>
  BY <1>3 DEF ApiStep, RequestApi, SpawnProcess, InitializeAnswered, InitializeFails, RecoverThread, turns
<1>4. ASSUME (\E p \in Procs : ProcessExits(p)) \/ UNCHANGED vars
      PROVE  UNCHANGED <<busy, running, completed>>
  BY <1>4 DEF ProcessExits, vars, turns
<1> QED BY <1>1, <1>2, <1>3, <1>4 DEF Next

\* A user claims a thread that is not busy, on which nobody is at work then.
LEMMA WaitsBegin ==
  ASSUME Typed, Waits, RowsKept, NEW u \in Users, BeginTurn(u), BeginsTurn(u)
  PROVE  Waits'
<1>n. PICK n \in Names : n = bind[u].name
  BY DEF BeginsTurn
<1>0. u \in Clients /\ cmd \in [Clients -> Frame] /\ switches' = switches
      /\ UNCHANGED <<running, completed>> /\ cmd[u].pc = "idle"
  BY DEF Clients, Typed, TypeOK, BeginTurn, outside, MayCommand, At
<1>1. n \notin busy /\ busy' = busy \cup {n} /\ cmd'[u].pc = "turn" /\ cmd'[u].name = n
  BY <1>n DEF BeginsTurn
<1>2. \A d \in Clients : d # u => cmd'[d] = cmd[d]
  BY <1>0 DEF BeginsTurn
<1>3. \A m, d : d \in Clients /\ Turning(d, m)' => (d = u /\ m = n) \/ (d # u /\ Turning(d, m) /\ cmd'[d].pc = cmd[d].pc)
  BY <1>1, <1>2 DEF Turning
<1>4. ElsewhereSame(n)
  BY <1>0, <1>1, <1>3 DEF ElsewhereSame
<1>5. ASSUME Alone(n) PROVE Alone(n)'
  <2>1. running[n] = NoSession /\ \A d \in Clients : ~Turning(d, n)
    BY <1>1, <1>5 DEF Alone
  <2>2. \A d \in Clients : Turning(d, n)' => d = u
    BY <1>3, <2>1
  <2> QED BY <1>0, <1>1, <2>1, <2>2 DEF Alone
<1> QED BY <1>0, <1>4, <1>5, WaitsElsewhere

\* The turn of an agent ends once it is recorded: nobody is at work on its thread.
LEMMA WaitsEnd ==
  ASSUME Typed, Followed, Waits, RowsKept, NEW n \in Names, EndTurn(n)
  PROVE  Waits'
<1>0. running \in [Names -> Sessions \cup {NoSession}]
  BY DEF Typed, TypeOK
<1>1. /\ running[n] # NoSession /\ running' = [running EXCEPT ![n] = NoSession] /\ busy' = busy \ {n}
      /\ completed' = completed \cup ({n} \cap recorded)
      /\ UNCHANGED <<cmd, switches>> /\ \A u \in Users : cmd[u].pc = "record" => cmd[u].name # n
  BY DEF EndTurn, outside, At
<1>2. \A m, d : Turning(d, m)' => Turning(d, m) /\ cmd'[d].pc = cmd[d].pc
  BY <1>1 DEF Turning
<1>3. ElsewhereSame(n)
  BY <1>0, <1>1, <1>2 DEF ElsewhereSame
<1>4. ASSUME Alone(n) PROVE Alone(n)'
  <2>1. ASSUME NEW d \in Clients PROVE ~Turning(d, n)
    <3>1. SUFFICES ASSUME Turning(d, n) PROVE FALSE
      OBVIOUS
    <3>2. d \in Users BY <3>1 DEF Followed, Turning
    <3>3. cmd[d].pc = "record" /\ cmd[d].name = n BY <1>1, <1>4, <3>1 DEF Alone, Turning
    <3> QED BY <1>1, <3>2, <3>3
  <2>2. \A d \in Clients : ~Turning(d, n)' BY <1>2, <2>1
  <2>3. running'[n] = NoSession BY <1>0, <1>1
  <2> QED BY <2>2, <2>3 DEF Alone
<1> QED BY <1>1, <1>3, <1>4, WaitsElsewhere

\* A restart forgets the turns that were on their way.
LEMMA WaitsCrash ==
  ASSUME Crash
  PROVE  Waits'
<1>1. \A c \in Clients : cmd'[c].pc \in {"idle", "recover"}
  BY BlankFollows DEF Crash, Blank
<1>2. \A n : \A c \in Clients : ~Turning(c, n)'
  BY <1>1 DEF Turning, TurnPCs
<1>3. \A n \in Names : running'[n] = NoSession
  BY DEF Crash
<1> QED BY <1>2, <1>3 DEF Waits, Alone

\* The project is disabled: there is nothing to show from then on.
LEMMA WaitsDisabled ==
  ASSUME Typed, Followed, NEW u \in Users, DisableProject(u) \/ DeactivateProject(u)
  PROVE  Waits'
<1>0. switches \in Nat /\ u \in Clients
  BY DEF Typed, TypeOK, Clients
<1>1. switches' # 0
  <2>1. CASE DisableProject(u) BY <1>0, <2>1 DEF DisableProject
  <2>2. CASE DeactivateProject(u)
    <3>1. switches' = switches /\ switches > 0
      BY <1>0, <2>2 DEF DeactivateProject, outside, At, Followed
    <3> QED BY <1>0, <3>1
  <2> QED BY <2>1, <2>2
<1> QED BY <1>1 DEF Waits

\* Who joins a thread, or has activated one, is about to be bound to it.
LEMMA BindTurnsStay ==
  ASSUME Typed, NEW u \in Users, Activate(u) \/ \E n \in Names : JoinThread(u, n)
  PROVE  TurnsStay
<1>0. u \in Clients /\ cmd \in [Clients -> Frame] /\ cmd[u] \in Frame
  BY DEF Typed, TypeOK, Clients
<1>1. \A d \in Clients : d # u => cmd'[d] = cmd[d]
  BY <1>0 DEF Activate, JoinThread, Goto
<1>2. cmd'[u].pc \in {"release", "bind"}
  BY <1>0 DEF Activate, JoinThread, Goto, Frame
<1> QED BY <1>1, <1>2 DEF TurnsStay, TurnPCs

LEMMA WaitsKept ==
  ASSUME "overlap" \notin Env, Typed, Owned, Followed, Waits, [Next]_vars
  PROVE  Waits'
<1>0. RowsKept /\ BindGood /\ switches \in Nat
  BY RowsKeptNext, BindingsKnown DEF Typed, TypeOK
<1>1. ASSUME NEW u \in Users, BeginTurn(u) PROVE Waits'
  BY <1>0, <1>1, Begins, WaitsBegin
<1>2. ASSUME NEW u \in Users, TurnStep(u) PROVE Waits'
  <2>1. /\ cmd[u].pc \in TurnPCs /\ completed' = completed /\ switches' = switches
        /\ Moves(u) \/ Returns(u)
    BY <1>2, TurnStepped
  <2>2. CASE Returns(u)
    <3>1. Return(u) /\ UNCHANGED <<running, completed>>
          /\ (busy' = busy \/ (busy' = busy \ {cmd[u].name} /\ (cmd[u].pc = "record" => Active(cmd[u].name) = {})))
      BY <2>1, <2>2 DEF Returns
    <3> QED BY <1>0, <2>1, <3>1, TurnReturns
  <2>3. CASE Moves(u)
    <3>1. PICK f \in Frame : f = cmd'[u]
      BY TypedKept DEF Typed, TypeOK, Clients
    <3>2. /\ cmd[u].pc \in TurnPCs \ {"record"} /\ cmd' = [cmd EXCEPT ![u] = f]
          /\ f.pc \in TurnPCs /\ f.name = cmd[u].name /\ UNCHANGED <<busy, completed>>
      BY <2>1, <2>3, <3>1 DEF Moves
    <3>3. running' = running \/ (f.pc = "record" /\ \E s : running' = [running EXCEPT ![cmd[u].name] = s])
      BY <2>3, <3>1, Zenon DEF Moves
    <3>4. f.pc \in {"lost", "reinit", "replace"} =>
             cmd[u].pc \in {"lost", "reinit", "replace"} \/ cmd[u].name \notin completed
      BY <2>3, <3>1 DEF Moves
    <3> QED BY <1>0, <2>1, <3>2, <3>3, <3>4, TurnMoves
  <2> QED BY <2>1, <2>2, <2>3
<1>3. ASSUME NEW n \in Names, EndTurn(n) PROVE Waits'
  BY <1>0, <1>3, WaitsEnd
<1>4. CASE Crash
  BY <1>4, WaitsCrash
<1>5. ASSUME NEW u \in Users, DisableProject(u) \/ DeactivateProject(u) PROVE Waits'
  BY <1>5, WaitsDisabled
<1>6. ASSUME TurnsStay, ~ Crash, \A n \in Names : ~ EndTurn(n),
             \A u \in Users : ~ BeginTurn(u) /\ ~ DeactivateProject(u) /\ ~ TurnStep(u)
      PROVE  Waits'
  <2>1. UNCHANGED <<busy, running, completed>>
    BY <1>6, TurnsUnchanged
  <2>2. switches' = 0 => switches = 0
    BY <1>0 DEF BindGood
  <2> QED BY <1>0, <1>6, <2>1, <2>2, WaitsQuiet
<1>7. ASSUME ~ Crash, \A n \in Names : ~ EndTurn(n),
             \A u \in Users : ~ BeginTurn(u) /\ ~ DisableProject(u) /\ ~ DeactivateProject(u) /\ ~ TurnStep(u)
      PROVE  TurnsStay
  <2>1. ASSUME NEW u \in Users, Command(u) PROVE TurnsStay
    BY <1>7, <2>1, CommandStays, AllTurnsStay, BindTurnsStay
  <2>2. ASSUME NEW u \in Users, ThreadStep(u) PROVE TurnsStay
    BY <2>2, ThreadStays, AllTurnsStay, BindTurnsStay
  <2>3. ASSUME NEW c \in Clients, ApiStep(c) PROVE TurnsStay
    BY <2>3, ApiStays, AllTurnsStay
  <2>4. ASSUME (\E p \in Procs : ProcessExits(p)) \/ UNCHANGED vars PROVE TurnsStay
    BY <2>4, SameStays, AllTurnsStay DEF ProcessExits, vars
  <2> QED BY <1>7, <2>1, <2>2, <2>3, <2>4 DEF Next
<1> QED BY <1>1, <1>2, <1>3, <1>4, <1>5, <1>6, <1>7

LEMMA InitWaits == Init => Followed /\ Waits
<1> SUFFICES ASSUME Init PROVE Followed /\ Waits
  OBVIOUS
<1>1. \A c \in Clients : cmd[c].pc = "idle"
  BY BlankFollows DEF Init
<1>2. \A u \in Users : bind[u].name = NoName
  BY DEF Init
<1>3. \A n \in Names : running[n] = NoSession
  BY DEF Init
<1> QED BY <1>1, <1>2, <1>3 DEF Followed, Waits, Alone, Turning, TurnPCs

\* While users wait for a busy thread, its session is replaced only before a turn of
\* it has completed, unless the project was disabled or the thread deleted under a turn.
THEOREM SessionsStay == ASSUME "overlap" \notin Env PROVE Spec => SessionKept
<1> DEFINE Inv == IInv /\ Followed /\ Waits
<1>1. Init => Inv
  BY InitInv, InitWaits
<1>2. Inv /\ [Next]_vars => Inv'
  BY NextInv, FollowedKept, WaitsKept DEF IInv
<1>3. Inv /\ [Next]_vars =>
        [\A r \in Rows :
          /\ rows[r].status = "active" /\ rows'[r].status = "active"
          /\ rows'[r].session # rows[r].session
          /\ switches = 0 /\ RowsOf(rows[r].name, {"merged"}) = {}
          => rows[r].name \notin completed]_vars
  <2> SUFFICES ASSUME Inv, [Next]_vars, NEW r \in Rows,
                      rows[r].status = "active", rows'[r].status = "active",
                      rows'[r].session # rows[r].session,
                      switches = 0, RowsOf(rows[r].name, {"merged"}) = {}
               PROVE  rows[r].name \notin completed
    OBVIOUS
  <2>1. PICK u \in Users : ReplaceSession(u)
    BY SessionsKept DEF IInv
  <2>2. /\ cmd[u].pc = "replace"
        /\ r \in {q \in Active(cmd[u].name) : rows[q].session = cmd[u].old}
    BY <2>1 DEF ReplaceSession, At
  <2>3. u \in Clients /\ rows[r].name = cmd[u].name
    BY <2>2 DEF Active, RowsOf, Clients
  <2>4. cmd[u].name \in Names
    BY <2>2, <2>3 DEF Followed, TurnPCs
  <2>5. Alone(cmd[u].name)
    BY <2>3, <2>4 DEF Waits, Merged
  <2> QED BY <2>2, <2>3, <2>5 DEF Alone, Turning, TurnPCs
<1> QED BY <1>1, <1>2, <1>3, PTL DEF Spec, SessionKept
=============================================================================
