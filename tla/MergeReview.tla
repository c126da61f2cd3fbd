---------------------------- MODULE MergeReview ----------------------------
(***************************************************************************)
(* The per-file review of a merge (services/merge/merge-service.ts): main  *)
(* is merged into the worktree of a branch without committing, the user    *)
(* decides every file or hands it to a resolver agent working in the same  *)
(* worktree, and the result is committed and main fast-forwarded to it.    *)
(*                                                                         *)
(* A session lives in three places: the object the calls hold (heap), the  *)
(* map the service looks it up in (memory) and the row that survives a     *)
(* restart (row).  A call of the service is a record in calls whose pc is  *)
(* the git command or request it awaits; the guards before the first await *)
(* and the assignments after each are one step.  The reads and writes of   *)
(* the database are queued in order, so a write counts when it is issued.  *)
(*                                                                         *)
(* Abstractions.  A branch is the set of commits it contains: what main    *)
(* started with, 0, and what each branch did.  A merge is the union, so    *)
(* that main stands where a branch stands when they contain the same.  The *)
(* content of a file is a member of a small set: the version of either     *)
(* side, git's merge, a conflict, nothing, or what the resolver turn of a  *)
(* number wrote.  Every file differs on both sides, and those in           *)
(* Conflicting cannot be merged by git.                                    *)
(***************************************************************************)
EXTENDS Naturals, FiniteSets

CONSTANTS
  Branches,       \* branches of the project, numbers other than 0
  Files,          \* files that differ between main and the branches
  Conflicting,    \* those that git cannot merge
  Users,          \* callers of the service, each with one call at a time
  Choices,        \* decisions the users take
  Batches,        \* sets of files the users retry together
  Hook, Timer,    \* the callers of the turn-complete hook and of the timeout
  MaxSessions,    \* session objects
  MaxTurns,       \* bound on the turns of the resolver
  MaxCrashes,     \* bound on the restarts
  Envs            \* environments: the hardships that may happen together

\* What may happen beside the calls of the users.
Hardships == {"overlap",  \* calls of several users overlap
              "main",     \* another branch lands on main
              "agent",    \* the resolver cannot be started
              "crash",    \* the server restarts
              "recovery", \* a session cannot be validated after a restart
              "busy",     \* a user acts on a review while a resolver works for it
              "late",     \* the timeout fires while a call or a resolver works
              "cut",      \* a restart cuts off a resolver or the start of a review
              "torn",     \* a restart falls between a decision in the worktree and its row
              "stray",    \* the resolver edits files it was not given
              "unbound",  \* the thread or chat of a review cannot be read when it starts
              "stop",     \* a user stops the turn of the resolver
              "git"}      \* a git command of a decision or of the commit fails

Decisions == {"accept", "keep_main", "use_branch", "skip"}
Commits == {0} \cup Branches   \* what main and each branch started with
Callers == Users \cup {Hook, Timer}
Turns == 1 .. MaxTurns
Threads == {1, 2}   \* a new thread differs from the registered one
Sessions == 1 .. MaxSessions
Ours == <<"ours", 0>>
Unresolved == <<"unmerged", 0>>
Contents == {<<c, 0>> : c \in {"ours", "main", "both", "unmerged", "gone"}}
            \cup {<<"turn", n>> : n \in Turns}

ASSUME MergeAssumption ==
  /\ Branches \subseteq Nat \ {0} /\ IsFiniteSet(Branches)
  /\ Conflicting \subseteq Files /\ IsFiniteSet(Files)
  /\ Choices \subseteq Decisions /\ Batches \subseteq (SUBSET Files) \ {{}} /\ Envs \subseteq SUBSET Hardships
  /\ Hook # Timer /\ {Hook, Timer} \cap Users = {}
  /\ {MaxSessions, MaxTurns, MaxCrashes} \subseteq Nat

VARIABLES
  main,     \* commits of the base branch
  head,     \* commits of each branch
  tree,     \* worktree of each branch: MERGE_HEAD, what it merges, the content of the files
  heap,     \* session objects
  memory,   \* MergeUseCase.mergeSessions: the session of a branch, or 0
  row,      \* merge_sessions: the stored session of a branch
  record,   \* thread of the registered resolver of a branch, or 0
  hook,     \* turnCompleteHooks: what runs when the resolver's turn completes
  agent,    \* the running turn of the resolver
  turns,    \* number of the last turn of a resolver
  calls,    \* the call of each caller
  booting,  \* branches whose session the startup has yet to recover
  crashes,
  env       \* the environment of this behaviour

vars == <<main, head, tree, heap, memory, row, record, hook, agent, turns,
          calls, booting, crashes, env>>

None == [none |-> TRUE]
Idle == [pc |-> "idle"]
Clean == [merge |-> FALSE, into |-> {}, content |-> [f \in Files |-> Ours]]

FileStates == [status : {"auto_merged", "conflict", "agent_pending", "agent_resolved"},
               decision : Decisions \cup {"pending"}, diff : Contents]
SessionStates == [branch : Branches, state : {"reviewing", "resolving", "recovery_required"},
                  files : [Files -> FileStates], resolver : {0} \cup Threads, timer : BOOLEAN,
                  base : [Files -> Contents] \cup {None}]
Jobs == [kind : {"resolve", "retry", "batch"}, files : SUBSET Files]

\* Every variable has the kind of value the code keeps in it.
TypeOK ==
  /\ main \subseteq Commits /\ head \in [Branches -> SUBSET Commits]
  /\ tree \in [Branches -> [merge : BOOLEAN, into : SUBSET Commits,
                            content : [Files -> Contents]]]
  /\ \A s \in Sessions : heap[s] = None \/ heap[s] \in SessionStates
  /\ \A b \in Branches :
       /\ memory[b] # 0 => heap[memory[b]] # None /\ heap[memory[b]].branch = b
       /\ row[b] = None \/ row[b] \in SessionStates
       /\ hook[b] = None \/ hook[b] \in Jobs
       /\ agent[b] = None \/ agent[b] \in [files : SUBSET Files, turn : Turns]
  /\ record \in [Branches -> {0} \cup Threads]
  /\ turns \in 0 .. MaxTurns /\ crashes \in 0 .. MaxCrashes
  /\ \A c \in Callers : calls[c].pc \in {"idle", "starting", "creating", "applying", "applied",
       "accepting", "resolver", "turn", "committing", "landing", "ending", "interrupting", "restoring",
       "closing", "aborting", "checking", "refreshing"}
  /\ booting \subseteq Branches /\ env \in Envs

-----------------------------------------------------------------------------
(* Sessions                                                                *)

Working(b) == agent[b] # None \/ calls[Hook] # Idle
Busy(b) == \E c \in Users \cup {Hook} : calls[c] # Idle /\ calls[c].branch = b

\* A session object no call and no map entry refers to may be reused.
Free(s) == /\ heap[s] # None => ~ heap[s].timer
           /\ \A b \in Branches : memory[b] # s
           /\ \A c \in Callers : calls[c] # Idle => calls[c].session # s
NewSession == CHOOSE s \in Sessions : Free(s)

Stored(x) == [x EXCEPT !.timer = FALSE]
Persist(x) == row' = [row EXCEPT ![x.branch] = Stored(x)]
Store(s, x) == heap' = [heap EXCEPT ![s] = x] /\ Persist(x)

Undecided(x) == {f \in Files : x.files[f].decision = "pending"}
Unmerged(b) == {f \in Files : tree[b].content[f] = Unresolved}
SetStatus(x, F, status) ==
  [x EXCEPT !.files = [f \in Files |-> IF f \in F THEN [@[f] EXCEPT !.status = status] ELSE @[f]]]

\* A call on the review of branch b, by a user who is doing nothing else.
Ready(u, b) == /\ booting = {} /\ calls[u] = Idle
               /\ (\E v \in Users : calls[v] # Idle) => "overlap" \in env
               /\ Working(b) => "busy" \in env
               /\ calls[Timer] # Idle => "late" \in env
Opened(u, b) == Ready(u, b) /\ memory[b] # 0
Reviewing(u, b) == Opened(u, b) /\ heap[memory[b]].state = "reviewing"

Call(c, pc, b, s, job, choice) ==
  calls' = [calls EXCEPT ![c] = [pc |-> pc, branch |-> b, session |-> s,
                                 kind |-> job.kind, files |-> job.files, choice |-> choice]]
Await(c, pc) == calls' = [calls EXCEPT ![c].pc = pc]
Return(c) == calls' = [calls EXCEPT ![c] = Idle]
At(c, pc) == calls[c].pc = pc
NoJob == [kind |-> "none", files |-> {}]

gitVars == <<main, head>>
agentVars == <<record, hook, agent, turns>>

Init ==
  /\ main = {0}
  /\ head = [b \in Branches |-> {b}]
  /\ tree = [b \in Branches |-> Clean]
  /\ heap = [s \in Sessions |-> None]
  /\ memory = [b \in Branches |-> 0]
  /\ row = [b \in Branches |-> None]
  /\ record = [b \in Branches |-> 0]
  /\ hook = [b \in Branches |-> None]
  /\ agent = [b \in Branches |-> None]
  /\ turns = 0
  /\ calls = [c \in Callers |-> Idle]
  /\ booting = {} /\ crashes = 0
  /\ env \in Envs

-----------------------------------------------------------------------------
(* Starting a review                                                       *)

Dirty(b) == \E f \in Files : tree[b].content[f] # Ours

\* Mutant: the other branches of the project are not looked at.
StartUnchecked(u, b) ==
  /\ Ready(u, b)
  /\ row[b] = None /\ ~ Dirty(b)
  /\ Call(u, "starting", b, 0, NoJob, "none")
  /\ UNCHANGED <<gitVars, tree, heap, memory, row, agentVars, booting, crashes, env>>

\* startMergeReview: no stored session of the project, a clean worktree.
StartMergeReview(u, b) ==
  /\ Ready(u, b)
  /\ \A x \in Branches : row[x] = None
  /\ ~ Dirty(b)
  /\ Call(u, "starting", b, 0, NoJob, "none")
  /\ UNCHANGED <<gitVars, tree, heap, memory, row, agentVars, booting, crashes, env>>

\* startMergeSession: git merge --no-commit; a branch that has all of main is
\* refused, a MERGE_HEAD left behind is reset first.
StartMergeSession(u) ==
  /\ At(u, "starting")
  /\ LET b == calls[u].branch IN
       IF main \subseteq head[b]
       THEN Return(u) /\ tree' = [tree EXCEPT ![b] = Clean]
       ELSE /\ Await(u, "creating")
            /\ tree' = [tree EXCEPT ![b] = [merge |-> TRUE, into |-> main, content |->
                 [f \in Files |-> IF f \in Conflicting THEN Unresolved ELSE <<"both", 0>>]]]
  /\ UNCHANGED <<gitVars, heap, memory, row, agentVars, booting, crashes, env>>

\* The session is entered in the map, given its timeout and stored.
CreateSession(u) ==
  /\ At(u, "creating")
  /\ \E s \in Sessions : Free(s)
  /\ LET b == calls[u].branch
         x == [branch |-> b, state |-> "reviewing", resolver |-> 0, timer |-> TRUE, base |-> None, files |->
                 [f \in Files |-> [status |-> IF f \in Conflicting THEN "conflict" ELSE "auto_merged",
                                   decision |-> "pending", diff |-> tree[b].content[f]]]]
     IN /\ memory' = [memory EXCEPT ![b] = NewSession]
        /\ Store(NewSession, x)
  /\ Return(u)
  /\ UNCHANGED <<gitVars, tree, agentVars, booting, crashes, env>>

\* getRecord or requireProjectChatId throws before the session is entered: the
\* merge git has begun is left as it is.
CreateRefused(u) ==
  /\ At(u, "creating") /\ "unbound" \in env
  /\ Return(u)
  /\ UNCHANGED <<gitVars, tree, heap, memory, row, agentVars, booting, crashes, env>>

\* validateSessionForRecovery: a session whose resolver was cut off is reviewed
\* again; conflicts the index no longer has count as resolved.
Recovered(x) ==
  LET Cut == {f \in Files : x.files[f].status = "agent_pending"}
      y == SetStatus(x, Cut, "conflict")
      Done == {f \in Undecided(y) : y.files[f].status = "conflict"}
      z == IF Unmerged(x.branch) = {} THEN SetStatus(y, Done, "agent_resolved") ELSE y
  IN IF x.state = "resolving" THEN [z EXCEPT !.state = "reviewing", !.timer = TRUE]
     ELSE [x EXCEPT !.timer = TRUE]

Load(b, x) ==
  /\ \E s \in Sessions : Free(s)
  /\ memory' = [memory EXCEPT ![b] = NewSession]
  /\ Store(NewSession, x)

\* getOrLoadSession of a branch whose session is stored and not in the map; one
\* that cannot be validated is loaded to be cancelled.
GetMergeReview(u, b) ==
  /\ Ready(u, b) /\ memory[b] = 0 /\ row[b] # None
  /\ \/ Load(b, Recovered(row[b]))
     \/ "recovery" \in env /\ Load(b, [row[b] EXCEPT !.state = "recovery_required", !.timer = TRUE])
  /\ UNCHANGED <<gitVars, tree, agentVars, calls, booting, crashes, env>>

-----------------------------------------------------------------------------
(* Decisions                                                               *)

\* decideFile: a file already decided is left alone; the decision is recorded
\* before git is asked to apply it.
DecideFile(u, b, f, choice) ==
  LET s == memory[b] IN
  /\ Reviewing(u, b)
  /\ heap[s].files[f].decision = "pending"
  /\ heap' = [heap EXCEPT ![s].files[f].decision = choice]
  /\ Call(u, "applying", b, s, [kind |-> "decide", files |-> {f}], choice)
  /\ UNCHANGED <<gitVars, tree, memory, row, agentVars, booting, crashes, env>>

\* applyFileDecision: accepting keeps what is there and refuses a conflict.
Applied(choice, content) ==
  CASE choice = "accept"     -> content
    [] choice = "keep_main"  -> <<"main", 0>>
    [] choice = "use_branch" -> Ours
    [] choice = "skip"       -> <<"gone", 0>>
CanApply(choice, content) == choice = "accept" => content # Unresolved

\* The git command of a decision: the worktree has the decision, the row not yet.
ApplyFileDecision(u) ==
  /\ At(u, "applying")
  /\ LET c == calls[u] IN
       /\ \A f \in c.files : CanApply(c.choice, tree[c.branch].content[f])
       /\ tree' = [tree EXCEPT ![c.branch].content =
            [f \in Files |-> IF f \in c.files THEN Applied(c.choice, @[f]) ELSE @[f]]]
  /\ Await(u, "applied")
  /\ UNCHANGED <<gitVars, heap, memory, row, agentVars, booting, crashes, env>>

\* decideFile after its git command: a conflict taken from one side is
\* resolved, and the row is written.
DecisionApplied(u) ==
  /\ At(u, "applied")
  /\ LET c == calls[u]
         x == heap[c.session]
         S == {f \in c.files : x.files[f].status = "conflict" /\ c.choice \in {"keep_main", "use_branch"}}
     IN Store(c.session, SetStatus(x, S, "agent_resolved"))
  /\ Return(u)
  /\ UNCHANGED <<gitVars, tree, memory, agentVars, booting, crashes, env>>

\* A git command fails: the call throws, the decision stays recorded.  One that
\* fails after the checkout leaves the worktree changed.
DecisionRefused(u) ==
  /\ calls[u].pc \in {"applying", "applied", "accepting"}
  /\ LET c == calls[u] IN
       \/ "git" \in env
       \/ ~ At(u, "applied") /\ \E f \in c.files : ~ CanApply(c.choice, tree[c.branch].content[f])
  /\ Return(u)
  /\ UNCHANGED <<gitVars, tree, heap, memory, row, agentVars, booting, crashes, env>>

\* acceptAllRemaining: the undecided files that are no conflict, one after the
\* other; git stages what is there, and the row is written after the last.
Acceptable(x) == {f \in Undecided(x) : x.files[f].status # "conflict"}

AcceptAllRemaining(u, b) ==
  LET s == memory[b] IN
  /\ Reviewing(u, b)
  /\ \E f \in Acceptable(heap[s]) :
       /\ heap' = [heap EXCEPT ![s].files[f].decision = "accept"]
       /\ Call(u, "accepting", b, s, [kind |-> "decide", files |-> {f}], "accept")
  /\ UNCHANGED <<gitVars, tree, memory, row, agentVars, booting, crashes, env>>

AcceptedOne(u) ==
  /\ At(u, "accepting")
  /\ LET c == calls[u]
         x == heap[c.session]
     IN /\ \A f \in c.files : CanApply("accept", tree[c.branch].content[f])
        /\ \/ /\ Acceptable(x) = {}
              /\ Store(c.session, x) /\ Return(u)
           \/ \E f \in Acceptable(x) :
                /\ heap' = [heap EXCEPT ![c.session].files[f].decision = "accept"]
                /\ calls' = [calls EXCEPT ![u].files = {f}]
                /\ UNCHANGED row
  /\ UNCHANGED <<gitVars, tree, memory, agentVars, booting, crashes, env>>

-----------------------------------------------------------------------------
(* The resolver                                                            *)

\* resolveConflictsViaAgent: all undecided conflicts, in one turn.
ResolveConflictsViaAgent(u, b) ==
  LET s == memory[b]
      F == {f \in Undecided(heap[s]) : heap[s].files[f].status = "conflict"}
  IN /\ Reviewing(u, b) /\ F # {} /\ turns < MaxTurns
     /\ heap' = [heap EXCEPT ![s].state = "resolving"]
     /\ Call(u, "resolver", b, s, [kind |-> "resolve", files |-> F], "none")
     /\ UNCHANGED <<gitVars, tree, memory, row, agentVars, booting, crashes, env>>

\* retryFileWithAgent: one file, the session stays open to the users; what the
\* other files hold is noted to see later that only this one was changed.
RetryFileWithAgent(u, b, f) ==
  LET s == memory[b]
      x == SetStatus(heap[s], {f}, "agent_pending")
  IN /\ Reviewing(u, b) /\ turns < MaxTurns
     /\ heap' = [heap EXCEPT ![s] = [x EXCEPT !.base = tree[b].content]]
     /\ Call(u, "resolver", b, s, [kind |-> "retry", files |-> {f}], "none")
     /\ UNCHANGED <<gitVars, tree, memory, row, agentVars, booting, crashes, env>>

\* retryFilesWithAgent: several files, the session is closed to the users.
RetryFilesWithAgent(u, b, F) ==
  LET s == memory[b]
      x == SetStatus(heap[s], F, "agent_pending")
  IN /\ Reviewing(u, b) /\ turns < MaxTurns
     /\ heap' = [heap EXCEPT ![s] = [x EXCEPT !.state = "resolving", !.base = tree[b].content]]
     /\ Call(u, "resolver", b, s, [kind |-> "batch", files |-> F], "none")
     /\ UNCHANGED <<gitVars, tree, memory, row, agentVars, booting, crashes, env>>

\* ensureMergeResolver: the thread of the session is resumed, else one is
\* started; ensureResolverThreadRecord admits it if it is the registered one
\* or none is.
EnsureMergeResolver(u) ==
  /\ At(u, "resolver")
  /\ LET c == calls[u] IN
     \E t \in Threads :
       /\ t = heap[c.session].resolver \/ t = IF record[c.branch] = 1 THEN 2 ELSE 1
       /\ record[c.branch] \in {0, t}
       /\ record' = [record EXCEPT ![c.branch] = t]
       /\ heap' = [heap EXCEPT ![c.session].resolver = t]
  /\ Await(u, "turn")
  /\ UNCHANGED <<gitVars, tree, memory, row, hook, agent, turns, booting, crashes, env>>

\* turnStart answers: the hook of the job takes the place of an earlier one.
ResolverTurnStarted(u) ==
  /\ At(u, "turn") /\ turns < MaxTurns
  /\ LET c == calls[u] IN
       /\ agent[c.branch] = None
       /\ turns' = turns + 1
       /\ agent' = [agent EXCEPT ![c.branch] = [files |-> c.files, turn |-> turns + 1]]
       /\ hook' = [hook EXCEPT ![c.branch] = [kind |-> c.kind, files |-> c.files]]
       /\ Persist(heap[c.session])
  /\ Return(u)
  /\ UNCHANGED <<gitVars, tree, heap, memory, record, booting, crashes, env>>

\* The catch of the three jobs: the session is reviewed again, files handed
\* over are conflicts.
ResolverFails(u) ==
  /\ calls[u].pc \in {"resolver", "turn"}
  /\ LET c == calls[u]
         F == IF c.kind = "resolve" THEN {} ELSE c.files
     IN /\ \/ "agent" \in env
           \/ At(u, "turn") /\ agent[c.branch] # None
           \/ At(u, "resolver") /\ record[c.branch] \notin {0, heap[c.session].resolver}
        /\ Store(c.session, [SetStatus(heap[c.session], F, "conflict") EXCEPT
                               !.state = "reviewing", !.base = IF c.kind = "resolve" THEN @ ELSE None])
  /\ Return(u)
  /\ UNCHANGED <<gitVars, tree, memory, agentVars, booting, crashes, env>>

\* The resolver edits and stages a file it was given; the worktree is open to
\* it, so it can do the same to any other.
ResolverWrites(b) ==
  /\ agent[b] # None
  /\ \E f \in IF "stray" \in env THEN Files ELSE agent[b].files :
       tree' = [tree EXCEPT ![b].content[f] = <<"turn", agent[b].turn>>]
  /\ UNCHANGED <<gitVars, heap, memory, row, agentVars, calls, booting, crashes, env>>

\* turn_complete of the resolver: finishTurn commits nothing for it, and the
\* hook is taken off the table and called; it looks the session up again.
ResolverTurnEnds(b) ==
  /\ agent[b] # None /\ calls[Hook] = Idle
  /\ agent' = [agent EXCEPT ![b] = None]
  /\ hook' = [hook EXCEPT ![b] = None]
  /\ IF hook[b] = None \/ memory[b] = 0 THEN UNCHANGED calls
     ELSE Call(Hook, "checking", b, memory[b], hook[b], "none")
  /\ UNCHANGED <<gitVars, tree, heap, memory, row, record, turns, booting, crashes, env>>

\* turn_aborted: the hook stays registered and is not called.
ResolverTurnStopped(b) ==
  /\ "stop" \in env /\ agent[b] # None
  /\ agent' = [agent EXCEPT ![b] = None]
  /\ UNCHANGED <<gitVars, tree, heap, memory, row, record, hook, turns, calls, booting, crashes, env>>

\* assertAgentRetryScopedToFile: nothing but the file changed since the retry.
ScopedTo(x, F) ==
  \A g \in Files \ F : tree[x.branch].content[g] = IF x.base = None THEN Ours ELSE x.base[g]

\* Mutant: a retried file keeps the decision taken before.
HookKeepsDecision ==
  /\ At(Hook, "checking")
  /\ calls' = [calls EXCEPT ![Hook].pc = "refreshing", ![Hook].choice = "accept"]
  /\ UNCHANGED <<gitVars, tree, heap, memory, row, agentVars, booting, crashes, env>>

\* The first half of the three hooks: what is read decides for good, and a
\* retried file loses its decision.
HookChecks ==
  /\ At(Hook, "checking")
  /\ LET c == calls[Hook]
         x == heap[c.session]
         Remaining == c.files \cap Unmerged(c.branch)
     IN IF c.kind = "retry" /\ ~ ScopedTo(x, c.files)
        THEN calls' = [calls EXCEPT ![Hook].pc = "refreshing", ![Hook].choice = "none"] /\ UNCHANGED heap
        ELSE /\ calls' = [calls EXCEPT ![Hook].pc = "refreshing", ![Hook].choice = "accept"]
             /\ heap' = [heap EXCEPT ![c.session].files = [f \in Files |->
                  IF c.kind = "resolve"
                  THEN IF @[f].status = "conflict" /\ f \notin Unmerged(c.branch)
                       THEN [@[f] EXCEPT !.status = "agent_resolved", !.diff = tree[c.branch].content[f]]
                       ELSE @[f]
                  ELSE IF f \in c.files
                       THEN [@[f] EXCEPT !.decision = "pending", !.diff = tree[c.branch].content[f]]
                       ELSE @[f]]]
  /\ UNCHANGED <<gitVars, tree, memory, row, agentVars, booting, crashes, env>>

\* Mutant: the session is not opened again.
HookLeavesClosed ==
  /\ At(Hook, "refreshing")
  /\ LET c == calls[Hook]
         Bad == IF c.kind = "resolve" THEN {} ELSE c.files \cap Unmerged(c.branch)
         Good == IF c.kind = "resolve" THEN {} ELSE c.files \ Bad
     IN Store(c.session, [SetStatus(SetStatus(heap[c.session], Good, "agent_resolved"), Bad, "conflict")
                            EXCEPT !.base = None])
  /\ Return(Hook)
  /\ UNCHANGED <<gitVars, tree, memory, agentVars, booting, crashes, env>>

\* The second half: a retried file is a conflict if the index says so or the
\* check threw, and the session is open again.
HookRefreshes ==
  /\ At(Hook, "refreshing")
  /\ LET c == calls[Hook]
         Bad == IF c.kind = "resolve" THEN {}
                ELSE IF c.choice = "none" THEN c.files ELSE c.files \cap Unmerged(c.branch)
         Good == IF c.kind = "resolve" THEN {} ELSE c.files \ Bad
         x == SetStatus(SetStatus(heap[c.session], Good, "agent_resolved"), Bad, "conflict")
     IN Store(c.session, [x EXCEPT !.state = "reviewing", !.base = None, !.files =
                [f \in Files |-> IF f \in Bad THEN [@[f] EXCEPT !.decision = "pending"] ELSE @[f]]])
  /\ Return(Hook)
  /\ UNCHANGED <<gitVars, tree, memory, agentVars, booting, crashes, env>>

-----------------------------------------------------------------------------
(* Ending a review                                                         *)

\* assertSessionReadyToCommit and assertSessionConsistentForCommit.
Committable(x) ==
  /\ x.state # "recovery_required"
  /\ Undecided(x) = {}
  /\ \A f \in Files : x.files[f].status # "conflict"
  /\ Unmerged(x.branch) = {}

CommitMergeReview(u, b) ==
  /\ Opened(u, b) /\ Committable(heap[memory[b]])
  /\ Call(u, "committing", b, memory[b], NoJob, "none")
  /\ UNCHANGED <<gitVars, tree, heap, memory, row, agentVars, booting, crashes, env>>

\* commitMergeSession: git commit --allow-empty of what is staged; the parents
\* are the branch and, if the merge is still under way, what it merges.
CommitMergeSession(u) ==
  /\ At(u, "committing")
  /\ LET b == calls[u].branch IN
       /\ Unmerged(b) = {}
       /\ head' = [head EXCEPT ![b] = @ \cup tree[b].into]
       /\ tree' = [tree EXCEPT ![b] = Clean]
  /\ Await(u, "landing")
  /\ UNCHANGED <<main, heap, memory, row, agentVars, booting, crashes, env>>

\* A commit that git refuses ends the review all the same.
CommitRefused(u) ==
  /\ At(u, "committing")
  /\ "git" \in env \/ Unmerged(calls[u].branch) # {}
  /\ Await(u, "ending")
  /\ UNCHANGED <<gitVars, tree, heap, memory, row, agentVars, booting, crashes, env>>

\* syncMergedAndFollowerThreads: clean branches that stood where main stood
\* and are not under review follow it.
Followers(b, old) ==
  {x \in Branches \ {b} : head[x] = old /\ ~ Dirty(x) /\ memory[x] = 0 /\ row[x] = None}

\* The ancestry check and fastForwardMain.
LandReview(u) ==
  /\ At(u, "landing")
  /\ LET b == calls[u].branch IN
       IF main \subseteq head[b]
       THEN /\ main' = head[b]
            /\ head' = [x \in Branches |-> IF x \in Followers(b, main) THEN head[b] ELSE head[x]]
            /\ Await(u, "ending")
       ELSE UNCHANGED <<main, head>> /\ Return(u)
  /\ UNCHANGED <<tree, heap, memory, row, agentVars, booting, crashes, env>>

\* clearSessionTimeout, the map and the row: by branch, whatever session is
\* there.  An object no other call holds is gone with it.
ForgetSession(c, b) ==
  /\ heap' = [s \in Sessions |->
       IF memory[b] # s THEN heap[s]
       ELSE IF \E d \in Callers \ {c} : calls[d] # Idle /\ calls[d].session = s
            THEN [heap[s] EXCEPT !.timer = FALSE] ELSE None]
  /\ memory' = [memory EXCEPT ![b] = 0]
  /\ row' = [row EXCEPT ![b] = None]

\* cleanupResolverThread: its API is released, its record removed.
CleanupResolver(b, x) ==
  IF x.resolver = 0 THEN UNCHANGED <<agent, record>>
  ELSE agent' = [agent EXCEPT ![b] = None] /\ record' = [record EXCEPT ![b] = 0]

EndReview(u) ==
  /\ calls[u].pc \in {"ending", "closing"}
  /\ LET b == calls[u].branch IN
       ForgetSession(u, b) /\ CleanupResolver(b, heap[calls[u].session])
  /\ Return(u)
  /\ UNCHANGED <<gitVars, tree, hook, turns, booting, crashes, env>>

\* cancelMergeReview: the hook goes first, then the turn, then the merge.
CancelMergeReview(u, b) ==
  /\ Opened(u, b)
  /\ hook' = IF heap[memory[b]].resolver = 0 THEN hook ELSE [hook EXCEPT ![b] = None]
  /\ Call(u, "interrupting", b, memory[b], NoJob, "none")
  /\ UNCHANGED <<gitVars, tree, heap, memory, row, record, agent, turns, booting, crashes, env>>

InterruptResolver(u) ==
  /\ At(u, "interrupting")
  /\ LET c == calls[u] IN
       /\ agent' = IF heap[c.session].resolver = 0 THEN agent ELSE [agent EXCEPT ![c.branch] = None]
       /\ Persist(heap[c.session])
  /\ Await(u, "restoring")
  /\ UNCHANGED <<gitVars, tree, heap, memory, record, hook, turns, booting, crashes, env>>

\* Mutant: the merge is not aborted.
RestoreNothing(u) ==
  /\ At(u, "restoring")
  /\ Await(u, "closing")
  /\ UNCHANGED <<gitVars, tree, heap, memory, row, agentVars, booting, crashes, env>>

\* restoreWorktreeToPreMergeState: the merge is aborted, or the worktree built anew.
RestoreWorktree(u) ==
  /\ At(u, "restoring")
  /\ tree' = [tree EXCEPT ![calls[u].branch] = Clean]
  /\ Await(u, "closing")
  /\ UNCHANGED <<gitVars, heap, memory, row, agentVars, booting, crashes, env>>

\* scheduleSessionTimeout: half an hour after the session was created or loaded.
SessionTimesOut(s) ==
  /\ heap[s] # None /\ heap[s].timer /\ calls[Timer] = Idle /\ booting = {}
  /\ LET b == heap[s].branch IN
       /\ "late" \in env \/ ~ (Working(b) \/ Busy(b))
       /\ heap' = [heap EXCEPT ![s].timer = FALSE]
       /\ IF memory[b] = 0 THEN UNCHANGED calls
          ELSE Call(Timer, "aborting", b, memory[b], NoJob, "none")
  /\ UNCHANGED <<gitVars, tree, memory, row, agentVars, booting, crashes, env>>

\* Once the merge is aborted the session is dropped; the resolver is left alone.
ExpireSession ==
  /\ At(Timer, "aborting")
  /\ LET b == calls[Timer].branch IN
       /\ tree' = [tree EXCEPT ![b] = Clean]
       /\ ForgetSession(Timer, b)
  /\ Return(Timer)
  /\ UNCHANGED <<gitVars, agentVars, booting, crashes, env>>

-----------------------------------------------------------------------------
(* Around a review                                                         *)

\* handleMerge: a branch with a clean worktree is merged straight into main,
\* whatever reviews are open; it and the followers move to the new main.
HandleMerge(b) ==
  /\ "main" \in env /\ booting = {}
  /\ ~ Dirty(b) /\ ~ head[b] \subseteq main
  /\ LET new == main \cup head[b]
         Moved == Followers(b, main) \cup {x \in {b} : memory[x] = 0 /\ row[x] = None}
     IN /\ main' = new
        /\ head' = [x \in Branches |-> IF x \in Moved THEN new ELSE head[x]]
  /\ UNCHANGED <<tree, heap, memory, row, agentVars, calls, booting, crashes, env>>

\* The server dies, its agents with it.
Crash ==
  /\ "crash" \in env /\ crashes < MaxCrashes
  /\ "cut" \in env \/ /\ \A b \in Branches : ~ Working(b)
                      /\ \A u \in Users : calls[u].pc \notin {"starting", "creating"}
  /\ "torn" \in env \/ \A u \in Users : ~ At(u, "applied")
  /\ crashes' = crashes + 1
  /\ heap' = [s \in Sessions |-> None]
  /\ memory' = [b \in Branches |-> 0]
  /\ hook' = [b \in Branches |-> None]
  /\ agent' = [b \in Branches |-> None]
  /\ calls' = [c \in Callers |-> Idle]
  /\ booting' = {b \in Branches : row[b] # None}
  /\ UNCHANGED <<gitVars, tree, row, record, turns, env>>

\* recoverSessions, one stored session.
RecoverSession(b) ==
  /\ b \in booting
  /\ booting' = booting \ {b}
  /\ \/ Load(b, Recovered(row[b]))
     \/ /\ "recovery" \in env
        /\ row' = [row EXCEPT ![b].state = "recovery_required"]
        /\ UNCHANGED <<heap, memory>>
  /\ UNCHANGED <<gitVars, tree, agentVars, calls, crashes, env>>

-----------------------------------------------------------------------------
Begin(u, b) ==
  \/ StartMergeReview(u, b) \/ GetMergeReview(u, b)
  \/ \E f \in Files : RetryFileWithAgent(u, b, f) \/ \E d \in Choices : DecideFile(u, b, f, d)
  \/ AcceptAllRemaining(u, b) \/ ResolveConflictsViaAgent(u, b)
  \/ \E F \in Batches : RetryFilesWithAgent(u, b, F)
  \/ CommitMergeReview(u, b) \/ CancelMergeReview(u, b)

Continue(u) ==
  \/ StartMergeSession(u) \/ CreateSession(u) \/ CreateRefused(u)
  \/ ApplyFileDecision(u) \/ DecisionApplied(u) \/ DecisionRefused(u) \/ AcceptedOne(u)
  \/ EnsureMergeResolver(u) \/ ResolverTurnStarted(u) \/ ResolverFails(u)
  \/ CommitMergeSession(u) \/ CommitRefused(u) \/ LandReview(u) \/ EndReview(u)
  \/ InterruptResolver(u) \/ RestoreWorktree(u)

Resolver(b) == ResolverWrites(b) \/ ResolverTurnEnds(b) \/ ResolverTurnStopped(b)

Next ==
  \/ \E u \in Users : Continue(u) \/ \E b \in Branches : Begin(u, b)
  \/ \E b \in Branches : Resolver(b) \/ HandleMerge(b) \/ RecoverSession(b)
  \/ HookChecks \/ HookRefreshes
  \/ \E s \in Sessions : SessionTimesOut(s)
  \/ ExpireSession \/ Crash

\* A command or request that was issued is answered, the resolver's turn ends
\* and the startup goes through the stored sessions; nobody has to act.
Fairness ==
  /\ \A u \in Users : WF_vars(Continue(u))
  /\ \A b \in Branches : WF_vars(ResolverTurnEnds(b)) /\ WF_vars(RecoverSession(b))
  /\ WF_vars(HookChecks) /\ WF_vars(HookRefreshes) /\ WF_vars(ExpireSession)

Spec == Init /\ [][Next]_vars
FairSpec == Spec /\ Fairness

-----------------------------------------------------------------------------
(* Properties                                                              *)
(* Each names the hardships it does not survive in this code.              *)

Without(H) == env \cap H = {}

\* The callers of the service wait for each other: nothing in the code makes them.
InTurn == Without({"overlap", "busy", "late"})

\* A worktree is in the middle of a merge only while a review owns the merge:
\* startMergeSession leaves the worktree merging and its caller must commit or
\* abort it, through every restart and timeout.  A review cut off before it is
\* stored, one that throws before it is entered and a commit that git refuses
\* leave a merge to nobody.
MergeOwned ==
  InTurn /\ Without({"cut", "git", "unbound"}) =>
    \A b \in Branches :
      tree[b].merge => \/ memory[b] # 0 \/ row[b] # None
                       \/ \E u \in Users : At(u, "creating") /\ calls[u].branch = b

\* One review of a project at a time, over restarts and timeouts: the check for
\* other reviews reads the rows, the reviews live in the map.
OneReview ==
  InTurn => Cardinality({b \in Branches : memory[b] # 0 \/ row[b] # None}) <= 1

\* A file shown as resolved has no conflict left in the index of its worktree.
ResolvedTrue ==
  InTurn => \A b \in Branches : memory[b] # 0 =>
    \A f \in Files : heap[memory[b]].files[f].status = "agent_resolved"
                      => tree[b].content[f] # Unresolved

\* The reviews of a project, the map of them and the worktrees fit together.
ReviewsKept == TypeOK /\ OneReview /\ ResolvedTrue

\* What the user agreed to for a file: the diff shown, or the side chosen.
Agreed(file) == IF file.decision = "accept" THEN file.diff ELSE Applied(file.decision, file.diff)

\* The commit of a merge holds what the user agreed to for every file, whatever
\* turns of the resolver, hooks and recoveries led to it.  The code keeps this
\* only while the worktree changes with the session: a restart before the row of
\* a decision is written, a git command that fails half way, a resolver that is
\* stopped, cut off or edits files it was not given change the worktree under a
\* file the session shows as it was before, or as decided.
ReviewedLands ==
  [][\A u \in Users :
       InTurn /\ Without({"cut", "stop", "git", "torn", "stray"})
       /\ At(u, "committing") /\ calls'[u].pc = "landing" /\ tree[calls[u].branch].merge
       => \A f \in Files :
            LET file == heap[calls[u].session].files[f] IN
            file.decision # "pending" /\ Agreed(file) = tree[calls[u].branch].content[f]]_vars

\* Files handed to the resolver come back to the users, or the review ends.  A
\* stopped turn or a restart leaves the session waiting for its hook until the
\* timeout.
WithResolver(b) ==
  memory[b] # 0 /\ (\/ heap[memory[b]].state = "resolving"
                    \/ \E f \in Files : heap[memory[b]].files[f].status = "agent_pending")
HandedBack ==
  (Without({"cut", "stop"}) /\ \E b \in Branches : WithResolver(b))
    ~> (\A b \in Branches : ~ WithResolver(b))
=============================================================================
