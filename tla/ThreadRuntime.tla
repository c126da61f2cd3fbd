--------------------------- MODULE ThreadRuntime ---------------------------
(***************************************************************************)
(* The threads of ONE project and their agents: ThreadUseCaseService,      *)
(* ThreadRuntimeService, SqliteThreadRegistry, the user bindings,          *)
(* DefaultAgentApiPool, AgentProcessManager, SessionRecoveryService and    *)
(* what ThreadExecutionPolicyService, TurnLifecycleService and             *)
(* ProjectService do to them.                                              *)
(*                                                                         *)
(* A command is a frame that runs from one await to the next.  A turn is   *)
(* cut down to the claim of its thread, the agent session it is sent to    *)
(* and its end; module TurnLifecycle has it in full.                       *)
(***************************************************************************)
EXTENDS Naturals, FiniteSets

CONSTANTS
    Names,      \* thread names
    Rows,       \* primary keys of project_threads, each inserted once
    Sessions,   \* backend thread ids
    Procs,      \* agent processes, each spawned once
    Users,      \* users, each with one command at a time
    Host,       \* the server itself, which recovers threads
    NoName, NoRow, NoSession, NoProc, NoOne,
    MaxCrashes,  \* bound on the crashes of a behaviour
    MaxSwitches, \* bound on how often the project is disabled
    Env         \* what the environment may do, see Hardships

\* "failure"  agents, worktrees and starts may fail
\* "exit"     agent processes exit by themselves
\* "lost"     agents answer that they do not know a session
\* "overlap"  users send text to a busy thread
\* "policy"   users change the execution policy
Hardships == {"failure", "exit", "lost", "overlap", "policy"}

Clients == Users \cup {Host}

ASSUME ThreadConstants ==
    /\ NoName \notin Names /\ NoRow \notin Rows /\ NoSession \notin Sessions
    /\ NoProc \notin Procs /\ Host \notin Users /\ NoOne \notin Clients
    /\ MaxCrashes \in Nat /\ MaxSwitches \in Nat
    /\ Env \subseteq Hardships

VARIABLES
    rows,       \* project_threads
    bind,       \* user_thread_bindings
    spent,      \* sessions that backends have created
    worktrees,  \* names whose worktree exists and is registered
    project,    \* disabled, or active and bound to a chat
    recorded,   \* threads with an active turn in thread_turn_states
    completed,  \* threads with a last completed turn there
    busy,       \* threads whose conversation machine is not IDLE
    running,    \* session of the turn that the agent of a thread works on
    pool,       \* DefaultAgentApiPool.entries
    managed,    \* AgentProcessManager.processes
    process,    \* the operating system's view of each process
    cmd,        \* frame of each client
    crashes, switches

store   == <<rows, bind, spent>>
turns   == <<recorded, completed, busy, running>>
agents  == <<pool, managed, process>>
outside == <<worktrees, project, crashes, switches>>
vars    == <<store, turns, agents, outside, cmd>>

RowStates  == {"none", "creating", "active", "failed", "merged"}
PoolStates == {"NOT_STARTED", "STARTING", "READY", "FAILED", "RELEASED"}
PCs == {"idle", "prepare", "request", "spawn", "initialize", "join",    \* an API
        "threadStart", "activate", "release", "dispose", "bind",        \* create, join
        "remove", "mark", "policy", "deactivate", "recover",
        "turn", "turnStart", "turnAgain", "record", "resume", "lost", "reinit", "replace", "rebind"}
Frame == [pc : PCs, name : Names \cup {NoName}, row : Rows \cup {NoRow},
          session : Sessions \cup {NoSession}, old : Sessions \cup {NoSession},
          proc : Procs \cup {NoProc}, via : Clients \cup {NoOne}, todo : SUBSET Names]
Blank == [pc |-> "idle", name |-> NoName, row |-> NoRow, session |-> NoSession,
          old |-> NoSession, proc |-> NoProc, via |-> NoOne, todo |-> {}]
NoEntry == [state |-> "NOT_STARTED", proc |-> NoProc, starter |-> NoOne]

Init ==
    /\ rows = [r \in Rows |-> [name |-> NoName, status |-> "none", session |-> NoSession]]
    /\ bind = [u \in Users |-> [name |-> NoName, session |-> NoSession]]
    /\ spent = {}
    /\ worktrees = {}
    /\ project = "active"
    /\ recorded = {} /\ completed = {} /\ busy = {}
    /\ running = [n \in Names |-> NoSession]
    /\ pool = [n \in Names |-> NoEntry]
    /\ managed = [n \in Names |-> NoProc]
    /\ process = [p \in Procs |-> "unused"]
    /\ cmd = [c \in Clients |-> Blank]
    /\ crashes = 0 /\ switches = 0

At(c, pc)    == cmd[c].pc = pc
Goto(c, pc)  == cmd' = [cmd EXCEPT ![c].pc = pc]
Return(c)    == cmd' = [cmd EXCEPT ![c] = Blank]
Fails        == "failure" \in Env
MayCommand(u) == At(u, "idle") /\ At(Host, "idle")  \* the platforms start after the recovery

RowsOf(n, states) == {r \in Rows : rows[r].name = n /\ rows[r].status \in states}
Active(n)    == RowsOf(n, {"active"})
Live(p)      == p \in Procs /\ process[p] = "live"
Ready(n)     == pool[n].state = "READY"

-----------------------------------------------------------------------------
(* DefaultAgentApiPool and AgentProcessManager *)

\* pool.get and createWithConfig: an API that is ready, the start under way, or
\* a start of one's own.
RequestApi(c) ==
    LET n == cmd[c].name IN
    /\ At(c, "request")
    /\ \/ /\ Ready(n)
          /\ cmd' = [cmd EXCEPT ![c].pc = IF cmd[c].row = NoRow THEN "recover" ELSE "threadStart",
                                ![c].proc = pool[n].proc]
          /\ UNCHANGED pool
       \/ /\ pool[n].state = "STARTING"
          /\ cmd' = [cmd EXCEPT ![c].pc = "join", ![c].via = pool[n].starter]
          /\ UNCHANGED pool
       \/ /\ pool[n].state \notin {"READY", "STARTING"}
          /\ pool' = [pool EXCEPT ![n] = [state |-> "STARTING", proc |-> NoProc, starter |-> c]]
          /\ cmd' = [cmd EXCEPT ![c].pc = "spawn", ![c].via = c]
    /\ UNCHANGED <<store, turns, managed, process, outside>>

\* Mutant: a process is spawned without a look at the one of the key.
SpawnAnew(c) ==
    /\ At(c, "spawn")
    /\ \E p \in Procs :
          /\ process[p] = "unused"
          /\ process' = [process EXCEPT ![p] = "live"]
          /\ managed' = [managed EXCEPT ![cmd[c].name] = p]
          /\ cmd' = [cmd EXCEPT ![c].pc = "initialize", ![c].proc = p]
    /\ UNCHANGED <<store, turns, pool, outside>>

\* AgentProcessManager.start: the managed process while it runs, or a new one.
SpawnProcess(c) ==
    LET n == cmd[c].name IN
    /\ At(c, "spawn")
    /\ \/ /\ Live(managed[n])
          /\ cmd' = [cmd EXCEPT ![c].pc = "initialize", ![c].proc = managed[n]]
          /\ UNCHANGED <<managed, process>>
       \/ /\ ~Live(managed[n])
          /\ \E p \in Procs :
                /\ process[p] = "unused"
                /\ process' = [process EXCEPT ![p] = "live"]
                /\ managed' = [managed EXCEPT ![n] = p]
                /\ cmd' = [cmd EXCEPT ![c].pc = "initialize", ![c].proc = p]
    /\ UNCHANGED <<store, turns, pool, outside>>

\* The clients that wait for the start promise of c, c among them.
Awaiting(c) == {d \in Clients : cmd[d].via = c /\ cmd[d].pc \in {"initialize", "join"}}

Started(c, d) ==
    [cmd[d] EXCEPT !.pc = IF cmd[d].row = NoRow THEN "recover" ELSE "threadStart",
                   !.proc = cmd[c].proc, !.via = NoOne]
NotStarted(d) ==
    [cmd[d] EXCEPT !.pc = IF cmd[d].row = NoRow THEN "recover" ELSE "release",
                   !.proc = NoProc, !.via = NoOne]

\* The answer of initialize makes the entry READY whatever it is by now.
InitializeAnswered(c) ==
    /\ At(c, "initialize")
    /\ Live(cmd[c].proc)
    /\ pool' = [pool EXCEPT ![cmd[c].name] =
                    [state |-> "READY", proc |-> cmd[c].proc, starter |-> NoOne]]
    /\ cmd' = [d \in Clients |-> IF d \in Awaiting(c) THEN Started(c, d) ELSE cmd[d]]
    /\ UNCHANGED <<store, turns, managed, process, outside>>

\* Mutant: the failed start takes the process out of the manager without a kill.
InitializeForgets(c) ==
    /\ At(c, "initialize")
    /\ Fails \/ ~Live(cmd[c].proc)
    /\ pool' = [pool EXCEPT ![cmd[c].name] = [NoEntry EXCEPT !.state = "FAILED"]]
    /\ managed' = [managed EXCEPT ![cmd[c].name] = NoProc]
    /\ cmd' = [d \in Clients |-> IF d \in Awaiting(c) THEN NotStarted(d) ELSE cmd[d]]
    /\ UNCHANGED <<store, turns, process, outside>>

\* It fails or times out: the process is left running, since the pool of the
\* server has no process manager to stop it with.
InitializeFails(c) ==
    /\ At(c, "initialize")
    /\ Fails \/ ~Live(cmd[c].proc)
    /\ pool' = [pool EXCEPT ![cmd[c].name] = [NoEntry EXCEPT !.state = "FAILED"]]
    /\ cmd' = [d \in Clients |-> IF d \in Awaiting(c) THEN NotStarted(d) ELSE cmd[d]]
    /\ UNCHANGED <<store, turns, managed, process, outside>>

\* releaseThread for each of the threads: dispose stops what is managed under
\* the key of the API; an entry without an API has nothing to dispose of.
ReleaseThreads(ns) ==
    LET gone == {n \in ns : Ready(n)} IN
    /\ pool' = [n \in Names |-> IF n \in ns THEN [NoEntry EXCEPT !.state = "RELEASED"] ELSE pool[n]]
    /\ process' = [p \in Procs |-> IF process[p] = "live" /\ \E n \in gone : managed[n] = p
                                   THEN "killed" ELSE process[p]]
    /\ managed' = [n \in Names |-> IF n \in gone THEN NoProc ELSE managed[n]]

\* The exit event of a process, killed or not; a later process of the key stays.
ProcessExits(p) ==
    /\ process[p] = "killed" \/ (process[p] = "live" /\ "exit" \in Env)
    /\ process' = [process EXCEPT ![p] = "exited"]
    /\ managed' = [n \in Names |-> IF managed[n] = p THEN NoProc ELSE managed[n]]
    /\ UNCHANGED <<store, turns, pool, outside, cmd>>

-----------------------------------------------------------------------------
(* createThread, joinThread, leaveThread *)

\* Mutant: a name that is being created does not count as taken.
ReserveOverCreating(u, n) ==
    /\ MayCommand(u)
    /\ Active(n) = {}
    /\ \E r \in Rows :
          /\ rows[r].status = "none"
          /\ rows' = [rows EXCEPT ![r] = [name |-> n, status |-> "creating", session |-> NoSession]]
          /\ cmd' = [cmd EXCEPT ![u].pc = "prepare", ![u].name = n, ![u].row = r]
    /\ UNCHANGED <<bind, spent, turns, agents, outside>>

\* One batch looks for a creating or active row of the name and inserts one; if
\* it found one the call throws, but its own row is there.
Reserve(u, n) ==
    /\ MayCommand(u)
    /\ \E r \in Rows :
          /\ rows[r].status = "none"
          /\ rows' = [rows EXCEPT ![r] = [name |-> n, status |-> "creating", session |-> NoSession]]
          /\ IF RowsOf(n, {"creating", "active"}) = {}
             THEN cmd' = [cmd EXCEPT ![u].pc = "prepare", ![u].name = n, ![u].row = r]
             ELSE UNCHANGED cmd
    /\ UNCHANGED <<bind, spent, turns, agents, outside>>

\* createWorktree: what is registered already is taken as it is.
AddWorktree(n) == worktrees' = worktrees \cup {n}

\* removeWorktree: git refuses to remove what is no worktree.
DropWorktree(n) == n \in worktrees /\ worktrees' = worktrees \ {n}

\* createForNewThread up to the request of an API: the configuration, the skills
\* and the worktree, each of which may fail.
PrepareWorktree(c) ==
    /\ At(c, "prepare")
    /\ \/ AddWorktree(cmd[c].name) /\ Goto(c, "request")
       \/ /\ Fails
          /\ AddWorktree(cmd[c].name) \/ UNCHANGED worktrees
          /\ Goto(c, "release")
    /\ UNCHANGED <<store, turns, agents, project, crashes, switches>>

\* thread/start of an agent: a session that was never used before.
NewSession(s) == s \notin spent /\ spent' = spent \cup {s}

ThreadStarted(c) ==
    /\ At(c, "threadStart")
    /\ \/ /\ Live(cmd[c].proc)
          /\ \E s \in Sessions :
                /\ NewSession(s)
                /\ cmd' = [cmd EXCEPT ![c].pc = "activate", ![c].session = s]
       \/ /\ Fails \/ ~Live(cmd[c].proc)
          /\ Goto(c, "release")
          /\ UNCHANGED spent
    /\ UNCHANGED <<rows, bind, turns, agents, outside>>

Activate(c) ==
    /\ At(c, "activate")
    /\ IF rows[cmd[c].row].status = "creating"
       THEN /\ rows' = [rows EXCEPT ![cmd[c].row].status = "active",
                                    ![cmd[c].row].session = cmd[c].session]
            /\ Goto(c, "bind")
       ELSE /\ Goto(c, "release")
            /\ UNCHANGED rows
    /\ UNCHANGED <<bind, spent, turns, agents, outside>>

\* createThread, its catch block: the reservation fails, and an API that was created is released.
ReleaseReservation(c) ==
    LET r == cmd[c].row IN
    /\ At(c, "release")
    /\ rows' = [rows EXCEPT ![r].status = IF @ = "creating" THEN "failed" ELSE @]
    /\ IF cmd[c].proc = NoProc THEN Return(c) ELSE Goto(c, "dispose")
    /\ UNCHANGED <<bind, spent, turns, agents, outside>>

DisposeRuntime(c) ==
    /\ At(c, "dispose")
    /\ ReleaseThreads({cmd[c].name})
    /\ Return(c)
    /\ UNCHANGED <<store, turns, outside>>

BindUser(c) ==
    /\ At(c, "bind")
    /\ bind' = [bind EXCEPT ![c] = [name |-> cmd[c].name, session |-> cmd[c].session]]
    /\ Return(c)
    /\ UNCHANGED <<rows, spent, turns, agents, outside>>

JoinThread(u, n) ==
    /\ MayCommand(u)
    /\ \E r \in Active(n) :
          cmd' = [cmd EXCEPT ![u].pc = "bind", ![u].name = n, ![u].session = rows[r].session]
    /\ UNCHANGED <<store, turns, agents, outside>>

LeaveThread(u) ==
    /\ MayCommand(u)
    /\ bind[u].name # NoName
    /\ bind' = [bind EXCEPT ![u] = [name |-> NoName, session |-> NoSession]]
    /\ UNCHANGED <<rows, spent, turns, agents, outside, cmd>>

-----------------------------------------------------------------------------
(* deleteThread and confirmUpdate *)

\* The record is there: its API is released before anything else.
DeleteThread(u, n) ==
    /\ MayCommand(u)
    /\ Active(n) # {}
    /\ ReleaseThreads({n})
    /\ cmd' = [cmd EXCEPT ![u].pc = "remove", ![u].name = n]
    /\ UNCHANGED <<store, turns, outside>>

RemoveWorktree(c) ==
    LET n == cmd[c].name IN
    /\ At(c, "remove")
    /\ \/ DropWorktree(n) /\ Goto(c, "mark")
       \/ /\ Fails \/ n \notin worktrees
          /\ Return(c)
          /\ UNCHANGED worktrees
    /\ UNCHANGED <<store, turns, agents, project, crashes, switches>>

MarkMerged(c) ==
    /\ At(c, "mark")
    /\ rows' = [r \in Rows |-> IF r \in Active(cmd[c].name) THEN [rows[r] EXCEPT !.status = "merged"]
                               ELSE rows[r]]
    /\ Return(c)
    /\ UNCHANGED <<bind, spent, turns, agents, outside>>

\* guardNoActiveTurn, then the row is written and the API released.
ConfirmPolicy(u, n) ==
    /\ MayCommand(u)
    /\ "policy" \in Env
    /\ Active(n) # {}
    /\ n \notin recorded
    /\ cmd' = [cmd EXCEPT ![u].pc = "policy", ![u].name = n]
    /\ UNCHANGED <<store, turns, agents, outside>>

ApplyPolicy(c) ==
    /\ At(c, "policy")
    /\ ReleaseThreads({cmd[c].name})
    /\ Return(c)
    /\ UNCHANGED <<store, turns, outside>>

-----------------------------------------------------------------------------
(* startUserTurn: the session is the one of the user's binding. *)

\* ensureCanStartTurn; a refusal releases the machine all the same.
BeginTurn(u) ==
    LET n == bind[u].name IN
    /\ MayCommand(u)
    /\ n # NoName
    /\ "overlap" \in Env \/ n \notin busy
    /\ IF n \in busy
       THEN /\ busy' = busy \ {n}
            /\ UNCHANGED cmd
       ELSE /\ busy' = busy \cup {n}
            /\ cmd' = [cmd EXCEPT ![u].pc = "turn", ![u].name = n, ![u].session = bind[u].session]
    /\ UNCHANGED <<store, recorded, completed, running, agents, outside>>

\* releaseFailedStartTurn
TurnFails(c) ==
    /\ busy' = busy \ {cmd[c].name}
    /\ Return(c)

\* resolveAgentApi: an API that is there, never a new one.
ResolveAgentApi(c) ==
    LET n == cmd[c].name IN
    /\ cmd[c].pc \in {"turn", "lost"}
    /\ IF Ready(n)
       THEN /\ cmd' = [cmd EXCEPT ![c].pc = IF @ = "turn" THEN "turnStart" ELSE "reinit",
                                  ![c].proc = pool[n].proc]
            /\ UNCHANGED busy
       ELSE TurnFails(c)
    /\ UNCHANGED <<store, recorded, completed, running, agents, outside>>

\* The agent takes the turn up, or fails, or does not know the session the first
\* time it is asked.
TurnAnswered(c) ==
    LET n == cmd[c].name IN
    /\ cmd[c].pc \in {"turnStart", "turnAgain"}
    /\ \/ /\ Live(cmd[c].proc)
          /\ running' = [running EXCEPT ![n] = cmd[c].session]
          /\ Goto(c, "record")
          /\ UNCHANGED busy
       \/ /\ At(c, "turnStart") /\ Live(cmd[c].proc) /\ "lost" \in Env
          /\ Goto(c, "resume")
          /\ UNCHANGED <<running, busy>>
       \/ /\ Fails \/ ~Live(cmd[c].proc)
          /\ TurnFails(c)
          /\ UNCHANGED running
    /\ UNCHANGED <<store, recorded, completed, agents, outside>>

\* Mutant: a lost session is replaced whatever its thread has completed.
ResumeReplacing(c) ==
    /\ At(c, "resume")
    /\ \/ /\ Live(cmd[c].proc)
          /\ Goto(c, "turnAgain")
          /\ UNCHANGED busy
       \/ /\ Live(cmd[c].proc)
          /\ Active(cmd[c].name) # {}
          /\ Goto(c, "lost")
          /\ UNCHANGED busy
    /\ UNCHANGED <<store, recorded, completed, running, agents, outside>>

\* threadResume finds the session again, or has no rollout of it: then only a
\* thread without a completed turn gets another one.
ResumeAnswered(c) ==
    LET n == cmd[c].name IN
    /\ At(c, "resume")
    /\ \/ /\ Live(cmd[c].proc)
          /\ Goto(c, "turnAgain")
          /\ UNCHANGED busy
       \/ /\ Live(cmd[c].proc)
          /\ n \notin completed /\ Active(n) # {}
          /\ Goto(c, "lost")
          /\ UNCHANGED busy
       \/ TurnFails(c)
    /\ UNCHANGED <<store, recorded, completed, running, agents, outside>>

\* reinitializeEmptyCodexThread: threadStart, then the row, then the bindings.
StartAgain(c) ==
    /\ At(c, "reinit")
    /\ \/ /\ Live(cmd[c].proc)
          /\ \E s \in Sessions :
                /\ NewSession(s)
                /\ cmd' = [cmd EXCEPT ![c].pc = "replace", ![c].old = cmd[c].session, ![c].session = s]
          /\ UNCHANGED busy
       \/ /\ Fails \/ ~Live(cmd[c].proc)
          /\ TurnFails(c)
          /\ UNCHANGED spent
    /\ UNCHANGED <<rows, bind, recorded, completed, running, agents, outside>>

ReplaceSession(c) ==
    LET hit == {r \in Active(cmd[c].name) : rows[r].session = cmd[c].old} IN
    /\ At(c, "replace")
    /\ rows' = [r \in Rows |-> IF r \in hit THEN [rows[r] EXCEPT !.session = cmd[c].session]
                               ELSE rows[r]]
    /\ IF hit = {} THEN TurnFails(c) ELSE Goto(c, "rebind") /\ UNCHANGED busy
    /\ UNCHANGED <<bind, spent, recorded, completed, running, agents, outside>>

RebindThread(c) ==
    LET old == [name |-> cmd[c].name, session |-> cmd[c].old] IN
    /\ At(c, "rebind")
    /\ bind' = [u \in Users |-> IF bind[u] = old THEN [old EXCEPT !.session = cmd[c].session]
                                ELSE bind[u]]
    /\ Goto(c, "turnAgain")
    /\ UNCHANGED <<rows, spent, turns, agents, outside>>

\* ensureTurnStarted writes the active turn of the thread; without a record it throws.
RecordTurn(c) ==
    LET n == cmd[c].name IN
    /\ At(c, "record")
    /\ IF Active(n) # {}
       THEN /\ recorded' = recorded \cup {n}
            /\ Return(c)
            /\ UNCHANGED busy
       ELSE TurnFails(c) /\ UNCHANGED recorded
    /\ UNCHANGED <<store, completed, running, agents, outside>>

\* The agent ends the turn; its events wait for the start, then finishTurn follows.
EndTurn(n) ==
    /\ running[n] # NoSession
    /\ ~\E u \in Users : At(u, "record") /\ cmd[u].name = n
    /\ running' = [running EXCEPT ![n] = NoSession]
    /\ busy' = busy \ {n}
    /\ recorded' = recorded \ {n}
    /\ completed' = completed \cup ({n} \cap recorded)
    /\ UNCHANGED <<store, agents, outside, cmd>>

-----------------------------------------------------------------------------
(* disableProject, linkProjectToChat, reactivateProject and restarts *)

DisableProject(u) ==
    /\ MayCommand(u)
    /\ project = "active" /\ switches < MaxSwitches
    /\ project' = "disabled"
    /\ switches' = switches + 1
    /\ Goto(u, "deactivate")
    /\ UNCHANGED <<store, turns, agents, worktrees, crashes>>

\* onProjectDeactivated: releaseByPrefix of the pool and of the session state.
DeactivateProject(c) ==
    /\ At(c, "deactivate")
    /\ ReleaseThreads({n \in Names : pool[n].state # "NOT_STARTED"})
    /\ busy' = {}
    /\ Return(c)
    /\ UNCHANGED <<store, recorded, completed, running, outside>>

\* A disabled project is bound to no chat, so that linking it makes it active
\* and reactivating it has threads to recover only once it is linked.
LinkProject(u) ==
    /\ MayCommand(u)
    /\ project = "disabled"
    /\ project' = "active"
    /\ UNCHANGED <<store, turns, agents, worktrees, crashes, switches, cmd>>

ReactivateProject(u) ==
    /\ MayCommand(u)
    /\ project = "active" /\ switches > 0
    /\ cmd' = [cmd EXCEPT ![u].pc = "recover", ![u].todo = {n \in Names : Active(n) # {}}]
    /\ UNCHANGED <<store, turns, agents, outside>>

\* recoverSessions: the threads listed at its start, one after the other.  One
\* that is cached needs nothing, one without its worktree is reported.
RecoverThread(c) ==
    /\ At(c, "recover")
    /\ \/ /\ cmd[c].todo = {}
          /\ Return(c)
       \/ \E n \in cmd[c].todo :
             LET rest == [Blank EXCEPT !.todo = cmd[c].todo \ {n}, !.pc = "recover"] IN
             cmd' = [cmd EXCEPT ![c] =
                        IF ~Ready(n) /\ n \in worktrees THEN [rest EXCEPT !.pc = "request", !.name = n]
                        ELSE rest]
    /\ UNCHANGED <<store, turns, agents, outside>>

\* The process dies with its children; the next one recovers the threads of an
\* active project before it serves anybody.
Crash ==
    /\ crashes < MaxCrashes
    /\ crashes' = crashes + 1
    /\ busy' = {}
    /\ running' = [n \in Names |-> NoSession]
    /\ pool' = [n \in Names |-> NoEntry]
    /\ managed' = [n \in Names |-> NoProc]
    /\ process' = [p \in Procs |-> IF process[p] = "unused" THEN "unused" ELSE "exited"]
    /\ cmd' = [c \in Clients |->
                 IF c = Host /\ project = "active"
                 THEN [Blank EXCEPT !.pc = "recover", !.todo = {n \in Names : Active(n) # {}}]
                 ELSE Blank]
    /\ UNCHANGED <<store, recorded, completed, worktrees, project, switches>>

-----------------------------------------------------------------------------
Command(u) ==
    \/ LeaveThread(u) \/ BeginTurn(u)
    \/ DisableProject(u) \/ LinkProject(u) \/ ReactivateProject(u)
    \/ \E n \in Names : Reserve(u, n) \/ JoinThread(u, n) \/ DeleteThread(u, n) \/ ConfirmPolicy(u, n)

\* What goes on by itself once the await it waits for is answered.
ApiStep(c) ==
    \/ RequestApi(c) \/ SpawnProcess(c) \/ InitializeAnswered(c) \/ InitializeFails(c)
    \/ RecoverThread(c)
ThreadStep(c) ==
    \/ PrepareWorktree(c) \/ ThreadStarted(c) \/ Activate(c) \/ ReleaseReservation(c)
    \/ DisposeRuntime(c) \/ BindUser(c) \/ RemoveWorktree(c) \/ MarkMerged(c) \/ ApplyPolicy(c)
    \/ DeactivateProject(c)
TurnStep(c) ==
    \/ ResolveAgentApi(c) \/ TurnAnswered(c) \/ ResumeAnswered(c) \/ StartAgain(c)
    \/ ReplaceSession(c) \/ RebindThread(c) \/ RecordTurn(c)

Next ==
    \/ \E u \in Users : Command(u) \/ ThreadStep(u) \/ TurnStep(u)
    \/ \E c \in Clients : ApiStep(c)
    \/ \E n \in Names : EndTurn(n)
    \/ \E p \in Procs : ProcessExits(p)
    \/ Crash

Spec == Init /\ [][Next]_vars

-----------------------------------------------------------------------------
(* Properties *)

\* Every variable has its type.
TypeOK ==
    /\ rows \in [Rows -> [name : Names \cup {NoName}, status : RowStates,
                          session : Sessions \cup {NoSession}]]
    /\ bind \in [Users -> [name : Names \cup {NoName}, session : Sessions \cup {NoSession}]]
    /\ spent \in SUBSET Sessions
    /\ worktrees \in SUBSET Names
    /\ project \in {"active", "disabled"}
    /\ recorded \in SUBSET Names /\ completed \in SUBSET Names /\ busy \in SUBSET Names
    /\ running \in [Names -> Sessions \cup {NoSession}]
    /\ pool \in [Names -> [state : PoolStates, proc : Procs \cup {NoProc},
                           starter : Clients \cup {NoOne}]]
    /\ managed \in [Names -> Procs \cup {NoProc}]
    /\ process \in [Procs -> {"unused", "live", "killed", "exited"}]
    /\ cmd \in [Clients -> Frame]
    /\ crashes \in Nat /\ switches \in Nat

\* Whatever commands, refused duplicates, deletions and restarts come together,
\* a name has at most one active thread: get, list and the agent of a name then
\* mean the same thread.
OneActive == \A n \in Names : Cardinality(Active(n)) <= 1

\* The rows, the bindings and the pool have their types, and a name means one thread.
ThreadsKept == TypeOK /\ OneActive

\* A running agent process is in the process manager under exactly one thread,
\* so that releasing the thread can stop it: none is lost sight of when a start is
\* repeated, or when the exit of an earlier process is reported late.
NoOrphan == \A p \in Procs : Live(p) => Cardinality({n \in Names : managed[n] = p}) = 1

\* The API a turn would use talks to the process that releasing the thread stops:
\* no agent goes on working for a thread that was released.
ReadyManaged == \A n \in Names : Ready(n) /\ Live(pool[n].proc) => managed[n] = pool[n].proc

\* The session of a thread is replaced only while no turn of the thread has
\* completed: a conversation is never thrown away, as long as users wait for a busy
\* thread.  Two commands forget that a thread is busy, and the property does not
\* speak of what follows them: to disable the project, and to delete the thread
\* under a turn, which then ends or fails under the next thread of the name.
SessionKept ==
    [][\A r \in Rows :
          /\ rows[r].status = "active" /\ rows'[r].status = "active"
          /\ rows'[r].session # rows[r].session
          /\ switches = 0 /\ RowsOf(rows[r].name, {"merged"}) = {}
          => rows[r].name \notin completed]_vars

=============================================================================
