# Verification of CollabVibe

CollabVibe lets teams drive coding agents (Codex, ACP backends, Claude Code) from a chat
platform. A *project* is a git repository bound to a chat; a *thread* of it is a branch in a
worktree with one agent; a *turn* is one request to that agent and what comes of it. This
directory holds TLA+ models of the parts of the program where order, failure and timing decide
whether it works, the TLC runs that check them and TLAPS proofs of their most important
properties. `PROJECT.json` lists components, runs, mutants, hazards and theorems, and maps every
definition to the source lines it stands for.

Paths below are relative to the repository (`src/`); `services/` is the L2 layer.

## 1. Inventory

The process is one Node event loop with a database worker thread, one child process or connection
per agent, and the sockets of the chat platforms. L1 (`src/feishu`, `src/slack`, `src/common`)
turns messages and buttons into calls of the orchestrator API and outputs into cards; L2
(`services/`) is the core; L3 (`packages/`) has agent clients, git utilities, logging and the admin UI.

| component | state | operations | what makes it correct |
|---|---|---|---|
| turn lifecycle (`services/turn`) | `turn_records`, `turn_details`, in-flight starts | start, ensure started, finish, interrupt, accept, revert, finalize | one turn of a thread at a time; a finished turn waits for the user; records follow what happened |
| session state (`services/session`) | conversation machine per thread, interrupt registration and timer, pending approvals | claim, finish, begin/complete/clear interrupt, release | never stuck; follows the turns |
| thread turn state (`services/thread/thread-service.ts`) | active, blocking, last completed turn | read-modify-write upserts | names turns that exist and are in that situation |
| event runtime (`services/event/thread-event-runtime.ts`) | routes, parked events, lanes, contexts, finished and suppressed turns | attach, prepare, activate, handle event | every event once, in order, to the right turn; every end handled |
| stream output (`services/event`) | gathered text, snapshots, timers, intent windows | ingest, flush, force flush, clean up | no text lost or doubled, before the summary; row complete at the end |
| approvals (`services/approval`) | contexts, waits, rows, dedup sets | register, decide, time out, expire, recover | one answer per approval, the stored one; nothing pending for ever |
| agent pool, thread runtime (`services/session/agent-api-pool.ts`, `services/thread`, `agent-core`) | registry row, binding, API and process per thread | create, join, resume, delete, disable, recover, change policy | one process per thread, none left behind; a thread keeps the session it began with |
| agent clients (`packages/agent-core`, `codex-client`, `acp-client`) | requests under way, current turn and mode, the child process | initialise, start a turn, interrupt, answer a question, close | every call returns; an end is taken for the turn that ended |
| merge (`services/merge`) | review session, its row, the worktree | start, decide, retry, commit, cancel, recover | what is committed is what was reviewed; cancel restores |
| turn card (`src/feishu/channel`) | card state, its token, creation under way, dirty flag and timer per turn | show, add text, finish, interrupt, accept, revert | one card per turn, which ends by showing what the turn was |
| projects, plugins, IAM (`services/project`, `services/plugin`, `services/iam`) | one JSON document of projects, members and skills; users; the skill store | create, bind, toggle, delete, install, enable, appoint | a chat has one project; what is deleted stays deleted and leaves no member; an enabled skill is installed |
| git (`packages/git-utils`) | worktrees, snapshots, tags | snapshot, restore, commit, diff, merge | revert gives back what was there before the turn |
| pull, backends, audit | tables and files | administration | mostly one row or one file at a time |

How they meet: a chat message becomes `handleUserTextForUser`, which claims the machine, asks the
agent for a turn and records it. The agent's notifications come back through the source's callback
into the event runtime, which parks them while a turn is being started, activates turns, and
handles them one by one in a lane per thread (approvals in a second lane). The end of a turn frees
the machine, commits the worktree, stores the turn's status and sends a summary card with
accept and revert buttons. The in-memory machine and the persistent row are checked one after the
other by a start, and written by different handlers with database awaits in between: this is
where the hard behaviours come from. Timers (interrupt, approval, persist, UI, intent windows) and
restarts add to it. Below that boundary the same pattern repeats: a review keeps a session object, a stored row and git's own
merge in step across agent turns; a thread keeps a registry row, a worktree, an API and a process in step; the card keeps what it
shows and what it should show in step; and administration writes back a document it read some awaits ago. The hazards are listed in `PROJECT.json` at their lines.

## 2. Modules

| module | models | file |
|---|---|---|
| `TurnLedger` | abstract: what a thread promises about its turns | - |
| `TurnLifecycle` | the turns of one thread, every awaited step an action | `services/turn`, `services/session`, `thread-service.ts`, stream lane of `thread-event-runtime.ts` |
| `ApprovalFlow` | the approvals of one thread, from question to answer and row | `services/approval`, `turn-state-manager.ts`, `sqlite-approval-store.ts`, approval lane |
| `StreamOutput` | the streamed output of one turn | `stream-output-coordinator.ts`, `output-intent-buffer.ts`, `syncTurnState`, end of the lane |
| `ThreadRuntime` | the threads of one project with their rows, bindings, worktrees, APIs and processes | `services/thread`, `agent-api-pool.ts`, `agent-process-manager.ts`, `session-recovery-service.ts` |
| `AgentSession` | one agent process and the client that speaks to it, for the three kinds of backend | `agent-core`, `codex-client`, `acp-client`, and where `services/turn` and the event runtime use them |
| `MergeReview` | the merge reviews of a project: sessions, rows, worktrees, resolver turns | `services/merge`, `git-utils/src/merge.ts`, `sqlite-merge-session-repository.ts` |
| `TurnCard` | the card of one turn on Feishu | `feishu-turn-card.ts`, `stream-aggregator.ts`, `card-dispatch-coordinator.ts`, the turn's buttons in `feishu-card-handler.ts` |
| `AdminState` | projects, members and skills in one document | `services/project`, `services/plugin`, `services/iam`, startup in `factory.ts` |
| `TurnLifecycleProofs`, `StreamOutputProofs`, `ApprovalFlowProofs`, `ThreadRuntimeProofs`, `AdminStateProofs`, `TurnCardProofs`, `MergeReviewProofs`, `AgentSessionProofs` | theorems about the module of that name | |
| `MC...` | environments and model values of the runs | |

Definitions keep the source's names (`EnsureCanStartTurn`, `FinishSessionTurn`, `ForceFlush`);
a function that awaits becomes one action per stretch between awaits, and the stretch it is in is
the `pc` of its frame (`proc[c]` for a user's command, `proc[Lane]` or `lane` for a lane). The
definitions introduced by a `Mutant` comment are plausible wrong versions of the definition below
them; they are used by no specification and serve to show that each property can fail.

The modules meet at narrow places, where one has in full what the other cuts down: a turn is one claim and one end in
`ThreadRuntime`, a machine in `ApprovalFlow`, a resolver's running turn in `MergeReview`; the queue of outputs `TurnCard` takes
is what `StreamOutput` emits; `AgentSession` is the outside of `TurnLifecycle` opened up, with its ends arriving or not. Where a
module cuts another one down it does so to *more* behaviours, not fewer, except for the limits named in section 6.

**Atomicity.** Code between two awaits runs alone on the event loop. A database call takes effect
together with the code that its answer resumes: `async-database-proxy.ts:84-133` and
`database-worker.ts` serve calls in order and answer in order, so an action "reads the row, then
runs on to the next await" loses no interleaving. Awaits that touch none of the modelled state are
not steps. `upsertRuntimeState` is therefore two steps, read and write, with anything in between.

**TurnLifecycle.** State: the machine; the registered interrupt and its timer (always set and cleared
together); the status of each turn's record; the row of active, blocking and last turn; the event
runtime (pending start, latest and active turns, parked events, lane, ensured, finished, suppressed and
interrupting turns); `startEnsureInflight`; a frame per command and for the lane; and the outside:
what the agent has done with each turn, which it was asked to stop, which cards are shown. An
ordinary thread is modelled, not that of a merge resolver. `resume` of an expired backend thread,
`reinitializeEmptyCodexThread` and other calls before `turn/start` are one step that may fail
(`ResumeThread`, `StartFails`). A crash forgets memory, keeps rows, and does what `recoverSessions` does.

**ApprovalFlow.** Turns are cut down to what they do to the machine. Requests queue in the approval
lane; `RegisterRequest` runs up to the insertion of the row (its id lookup, a read, is merged in),
`CreateApproval` from the answer to the armed timer. `MarkExpired` is the detached update of a
timer, an interrupt or an abort; it comes after the insertion of the same row, which was sent
first. `PressButton` to `MarkResolved` is a user's decision with its dedup sets. The service
recovers before the platforms start (`server.ts:110-111`), so `Crash` is one step. `finished` stands for
`finishedTurns` and `suppressedTurns`; handling an end is one step.

**StreamOutput.** Text is a sequence of chunk numbers per kind, so loss, doubling and reordering
show. Routing streamed text ends in the intent buffer without waiting, and the lane takes events in
separate macrotasks, so `flushUi` is one step; a persist flush is a call in `db`, the queue of
`syncTurnState` calls under way. These all make the same number of database calls and so finish in the
order they began. The size and time thresholds that flush early are a free choice at each chunk. A timer is none,
armed, or *stale*: it fired during a flush, joined it and left its handle (`stream-output-coordinator.ts:284`).
`events` may be streamed text, notifications, progress reports; then the turn ends, and with `Echo` the end is reported again.

**ThreadRuntime.** State: the rows of `project_threads` (each inserted once, so that a re-created thread is another row), the
binding of each user, the worktrees, the pool's entry per thread, the process behind an API, the backend session a row
names, which threads have an active and a completed turn, and a frame per command. A command runs from one await to the next: creating a thread reserves the
name, makes the worktree, spawns, initialises, starts a backend thread and activates the row, and each of these may fail and
be undone; deleting releases, removes, ends the row; a changed policy releases the API. Recovery after a crash walks the active rows. `spent` are sessions that
backends know; with `lost` a backend forgets one. A project can be disabled and enabled again (`MaxSwitches`).

**AgentSession.** State: requests without an answer, the lines in either direction, the adapter's current turn, pending mode
and finished flag, the call `sendTurn` and the interrupt at the await they are in, the machine and the maps of the event runtime
for the thread, and the agent itself: what each turn is doing, and the session's mode. `Kinds` are Codex, whose events carry turn
ids; an ACP backend whose updates end a turn; and one whose answer to the prompt does (`opencode`). The kind and the environment
are chosen in `Init`, so one run covers all of them. The session is already established and there is one caller at a time:
overlapping calls are `TurnLifecycle`'s. The agent is outside the repository and does what the protocol lets it do.

**MergeReview.** State: `main`, the head and worktree of each branch (`MERGE_HEAD`, what it merges, the content of files), session
objects in `heap`, the map `mergeSessions`, the stored row, the registered resolver and its hook, its turn, and frames for users,
hook and timer. A file's content is a tag that tells apart what the user chose, what the agent wrote and the conflict; so
"what lands is what was reviewed" is a comparison of tags. Each user command is split at its git, database and agent awaits: a decision
is recorded in the object, then in the worktree (`ApplyFileDecision`), then in the row (`DecisionApplied`), and a restart may fall between (`torn`).
The resolver writes the files it was given, or any (`stray`), since the code looks at what it touched after the retry of a single file only. A call begins while
another user's is under way only with `overlap`.

**TurnCard.** State: the dispatcher's queue and the task it runs, the card state, whether the token exists, the creation under way and
the calls that wait for it, dirty flag and timer, the deltas the aggregator holds, updates on the wire, and the cards the platform has.
The text is a sequence of delta numbers, as in `StreamOutput`. Cards are static, as the server creates them; the native
streaming of the class is enabled by no caller. `lost` is a creation whose answer is lost and which the client sends again.

**AdminState.** The projects, members and skills are one JSON value that each operation reads whole, and after awaits writes whole
with its change. A call is therefore a request together with the document it read. The checks an operation makes are made on that
copy. The directories of the skills change in place. An installation that also enables its skill for a project is a call of several
stages (copied, `AutoEnable`, `BindToProject`, linking), each of which may throw (`InstallFails`), and what is caught removes the directory, also when
the document already names the skill. With `overlap` a call may read before another has written.

## 3. Runs

`Env` or `Envs` says what the environment of a run may do beyond the ordinary; the comment of `Hardships` in
each module explains the words. `Envs` is a set of environments of which a behaviour picks one at its start: hardships that
have nothing to do with each other are put in different ones, which keeps the runs small without dropping a case.
A property that holds only without some hardship says so in its statement (`Without({...}) => ...`), so its run may contain
environments in which the condition is false; section 5 tells what happens there.

| run | environment and bounds | shows |
|---|---|---|
| `turns_calm` | no hardship; 2 users, 3 turns | with users who wait for the thread to settle (two may still resolve a turn at the same time): the thread keeps `TurnLedger`'s promise (`LedgerKept`), ends idle and closed (`SettledClosed`), never runs a turn while one awaits a decision, and a turn that awaits one blocks the next |
| `turns_rough` | everything but echoes; 1 user, 2 turns | what needs nobody's good behaviour: `InterruptArmed`, `ReferencesRecorded`, `CreateOnce` |
| `turns_live` | overlapping sends, repeated ends; fair; 2 turns | parked events keep their order and are owned by a start (`ParkedKept`); one summary per turn; every end is handled, every admitted start returns |
| `turns_abort_running` | aborts | **violated**: `SettledIdle` |
| `approvals_rough` | everything, or overlaps and failures; 2 users, 2 turns, 2 approvals | the agent gets at most one answer per approval, a stored decision is the one it got and stays (`AuditTrue`, `AnsweredOnce`, `DecisionStays`); a waiting thread has an approval that can still be decided or time out (`AwaitingBacked`) |
| `approvals_settle` | interrupts, abandoned turns, crashes; fair | no stored request stays pending; an interrupting thread is released |
| `stream_output` | echo; fair; 4 events, 2 kinds | text conserved, shown, all before the summary; the row complete at the end and not overwritten |
| `threads_rough` | failures, exits, lost sessions, policy changes; 1 name, 2 rows, sessions, processes and users, 1 crash, 1 disabling | types, and one active thread per name (`ThreadsKept`); a running process is managed under exactly one thread (`NoOrphan`); the API a turn would use talks to the process that releasing the thread stops (`ReadyManaged`); a thread with a completed turn keeps its session (`SessionKept`) |
| `agent_session` | six environments times three kinds of backend; fair; 2 turns | an end taken for a turn is one that turn came to, and without failed starts a turn runs in the mode asked for (`TurnsTrue`); no start and no interrupt waits for ever (`CallsReturn`); with an agent that answers well, and for ACP without interrupts, a thread is freed or waits for its user (`ThreadFreed`) |
| `merge_review` | landing branches, failing agents and recoveries, crashes; or torn decisions, stray edits, starts that throw, crashes; or stops, cuts, git failures, crashes; fair; 2 branches, 2 files, 2 sessions, 1 resolver turn, 1 crash | git's open merge belongs to a review (`MergeOwned`); one review of the project at a time, and a file shown as resolved has no conflict left (`ReviewsKept`); the commit holds what the user agreed to for every file (`ReviewedLands`); files handed to the resolver come back to the users or the review ends (`HandedBack`) |
| `turn_card` | four environments; fair; 2 deltas | one card per turn, which shows what its state says (`CardTrue`); a settled card is up to date (`Settled`); a card that shows an end keeps it; the end of a turn is shown |
| `admin` | four environments; 2 projects, 1 chat, 1 user, 1 skill, 2 calls | a chat has one project (`ChatOwned`) and a project that is gone no member (`MembersOwned`), however calls overlap; one call at a time, an enabled skill is installed (`SkillsInstalled`) and a deleted project stays deleted (`DeletedStays`) |

**Bounds.** Two turns let a start meet the end of the turn before it, a third lets two users resolve
earlier turns while a later one runs. Turn ids are spent, never reused, and a start is tried only
while the agent has an id left (`TurnBudget`), so runs end. An agent speaks at most once per turn
before its end (`Speak`) and repeats an end at most once (`EchoEnd`): one event before the end is
enough for the first event to race the answer of `turn/start`, and the properties about order compare
two events. Two approvals can be pending at once and belong to one turn or to two. `MaxEvents = 4`
is enough for a flush that starts, text that arrives during it, a UI flush and a joining timer.
Two kinds of text: one whose column an empty snapshot leaves alone, one (tools) whose column it empties.
A thread's name is used by two rows one after the other, and the second meets what the first left; two names share nothing but the
project. In `AgentSession` the second turn meets the late end, the pending mode and the marks of the first. In `MergeReview` one file conflicts
and one does not, so a review has a file git decided and one a user must; two branches let the second land during the
review of the first; two sessions let a review follow a cancelled, timed-out or recovered one; one resolver turn per session starts a resolution or a retry.
Two deltas are enough for one that is shown while another is held back; two updates on the wire for their reordering.
Two calls of `AdminState` on two projects and one chat meet on the document, the chat and the project.

**Deadlock.** `CHECK_DEADLOCK FALSE` everywhere: turn ids, approvals, sessions and events run out, and a
thread nobody writes to is a legitimate end.

**Symmetry** of turns, users, approvals, decisions, rows, sessions, processes and projects is used in runs without liveness only
(`admin`'s and `approvals_rough`'s temporal properties are action properties, which symmetry leaves alone). `turns_live` instead takes
the constraint `FirstFirst`: of the interchangeable turns a chosen one is used first, which cuts no behaviour up to renaming.

**Fairness.** An async function goes on once its await is answered, queues are drained and timers that
are set fire: weak fairness of each client's `StartStep` and `CommandStep`, each process's
`EnsureStep`, `LaneStep`, `InterruptTimeout` (turns); `CommandStep`, `LaneStep`, `TimerStep`, `MarkExpired`,
`EndStep`, `InterruptTimeout` (approvals); `LaneStep`, `PersistDone`, the two timers, `FlushBuffer` (stream); the same of the
frames of `MergeReview`, the tasks, timers and wire of `TurnCard`, and the calls, timers and streams of `AgentSession`.
The event loop, the FIFO worker and Node's timers justify it. Users are never assumed to act. Nor are agents in the runs of
turns, approvals and streams, whose properties begin with an end that arrived (`EndHandled`). `AgentSession`, `MergeReview` and
`TurnCard` assume that an agent reads what it is sent and comes to an end with a turn (`Ends`, `ResolverTurnEnds`, `Completes` or
`Aborts`): without it nothing could be said of what follows a turn, and the environments with an agent that exits, refuses or
stops for odd reasons are where this fails. The exact conjuncts stand in each `FairSpec`.

## 4. Proofs

`TurnLifecycleProofs` proves, for any sets of turns and users and any environment, from
`ConstantsAssumption` (null values are not turns, the lane is not a client):

* `TypeCorrect`. `TInv` strengthens `TypeOK` by what a frame holds at each point: without "the
  frame holds a turn here" an action could not be shown to keep the types of records.
* `Armed`, `Holds`: the machine is INTERRUPTING exactly while an interrupt and its timer are
  registered, and leaves that state for IDLE only.
* `Parked`: events wait only while a start is pending and no turn is active.
* `CreatedOnce`, `Recorded`, from `RInv`: every turn named by the row, by a frame that will write it, by a
  patch or by a stale copy of the row has a record, records are never removed, and of the frames between taking and
  leaving an entry of `startEnsureInflight` at most one belongs to a turn. The stale copies are the
  reason the invariant has to speak about frames: `upsertRuntimeState` may put back any row it once read.
* `InOrder` (the events of a turn reach the lane in the order the backend sent them), by `QInv`: parked events and the lane are one
  queue, which is appended to at one end and emptied at the other.
* `ParkedReleased` (`ParkedKept`; its part about who releases the parked events without failures), by `PendingOwned`: a pending start has a
  client that waits for its answer or goes on after it.
* `SummarizedOnce` (`SummaryOnce`), by `SInv`: a turn is in `finished` from the moment its end is handled, also while its card is on the way.

For threads whose users wait for them and interrupt nothing (`Calm`: no `overlap`, `interrupt` or `echo`; crashes, failed calls and aborts
are allowed), `CInv` says what makes turns alternate, in four parts, each inductive given the ones before it: who may be busy at once
(`Stages`); that one turn is under way, by any of its agent, its events, the lane or its start (`Single`); that the end of that turn is
ahead until the lane takes it, and is its last event (`Ends`); and what the records, the row and every stale copy of them say meanwhile
(`Rows`). `Rows` is needed because the row is written from copies: a resolving user's copy must name the turn that awaits a decision, and the
patch of the lane must name the turn it completes.

* `NoneRunsWhileAwaiting` (`NoRunWhileAwaiting`) and `AwaitingTurnBlocks` (`AwaitingBlocks`).

For threads without any hardship (`Env = {}`, the environment of `turns_calm`), `PInv` adds that whatever says a turn runs has somebody who
will end it: a running machine has a start on its way, an end ahead or the lane about to release it (`Claimed`); a running record and an
active turn in the row have an end ahead or the lane completing them, and no copy of the row brings an active turn back (`Working`); the
events of a start are parked and its turn's end is ahead (`Opening`); a turn on a card has an outcome (`Decided`).

* `SettledThreads` (`SettledClosed`).
* `LedgerImplemented` (`LedgerKept`), the refinement of `TurnLedger` by the records: creating a record is `Start`, completing the turn
  `Finish`, accepting and reverting `Resolve`, and every other step, `finalizeTurnState`'s write of the whole record included, stutters.

`StreamOutputProofs` proves, for any kinds of text and any number of events, the three safety properties of `stream_output`.
`Conserved` (`TextConserved`) and `LastWord` (`SummaryLast`: no text after the summary) follow from one invariant: `IInv` adds to `TextConserved` that the coordinator holds no text back from the last
forced flush on, which is why the cleanup loses none. `MovedKept` reduces every step except
`Ingest` to one of three moves of text between coordinator, intent buffer and chat.
`StoredAtEnd` (`EndStored`) is about the order of database calls, which `Stow` adds: the calls under way at each point of the lane, at
most one of them a flush (`Queued`); that from the first forced flush of the end on only the persist timer can start another, which the
last forced flush waits for, and that text is still marked as unstored when that matters (`Calmed`); and that no snapshot is of more than was
heard, while the lane's own is of everything (`Storing`). The order of service makes the lane's row the last to be written.

`AdminStateProofs` proves, for any projects, chats, users, skills and callers and any environments, from `AdminAssumption`:

* `TypeCorrect`, `OneProject` (a chat has one project) and `NoMemberLeft` (only a project that exists has members). These
  hold under any overlap, which is not obvious: a write puts back an old document. The invariant has to say that every copy a call
  holds is itself a good document (`Copies`, with `Good`), so that one call's change of a good copy is good whatever happened to the
  stored one meanwhile.
* `Loadable` (an enabled skill is installed) and `DeletedGone`: only without overlap. `Alone` says that of all callers at most one
  holds a copy, and that this is the stored document. `Still` says, where all goes well (`Orderly`: no overlap, no name twice, links that can be made),
  what its checks promised until it writes, and why a failing installation takes nothing away: before the write no project has its
  skill, and after it the project is there with all its skills, so that linking them does not throw.

`ApprovalFlowProofs` proves, for any turns, approvals, users, decisions and environments, from `ApprovalConstants`, all four
properties of `approvals_rough`: `Audited` (`AuditTrue`), `Backed` (`AwaitingBacked`), `OneAnswer` (`AnsweredOnce`) and `Final`
(`DecisionStays`). None is inductive. An approval that waits in the lane has left no trace (`Queueing`), so its timer is set once; only one whose
timer is set can be decided, and deciding disarms it, so at most one call is on its way to the agent (`OneActs`) and the agent has
no answer yet (`Untold`, `Told`). For the two properties stated without interrupts, abandoned turns and crashes, `Unstopped`
says that nothing is being stopped and `Lapsed` that an approval expires by its timer only, after which nobody can decide it.

`ThreadRuntimeProofs` proves, for any names, rows, sessions, processes, users, bounds and hardships, from `ThreadConstants`:

* `OneThread` (`ThreadsKept`). A reservation cannot be read off the rows alone, since refused calls and crashes leave `creating` rows
  behind; so the invariant follows the *calls*: the row of a call that creates a thread is reserved and no row of its name is active
  (`Reserved`), and no two calls create the same name (`OneCreates`).
* `NoneOrphaned` (`NoOrphan`) and `ReadyStopped` (`ReadyManaged`). What is managed lives, under one name, and all that lives is managed
  (`Managed`). An API that starts, or is ready, on a process that lives has that process under its name (`Starts`, `Serves`), although
  the answer of `initialize` makes an entry READY whatever became of it meanwhile. `FollowsNext` shows once for all steps
  that none but a reservation and a spawn makes a frame that these parts would have to argue about.
* `SessionsStay` (`SessionKept`), for environments without `overlap`. The call that replaces a session looked at the completed turns many
  awaits before it writes. `Alone` says why the answer still holds: of the calls that start turns on a thread there is one, which has claimed it;
  meanwhile its agent works on no turn but the one about to be recorded; and a call on its way to replace the session has seen no completed turn. `Waits`
  states this where the property does (projects never disabled, no thread of the name merged). It needs `Followed`: whoever
  starts a turn, and every binding, names a thread that was activated, so recording a turn finds its row unless that was merged.

`TurnCardProofs` proves, for any numbers of text deltas, queued outputs and updates, any users and environments, from `CardAssumption`:

* `CardAlwaysTrue` (`CardTrue`). An end is shown only if the turn came to it, so the invariant follows what is said of the turn on every
  way to the card: the queued outputs (`Queue`), the state, the card that is being created and each update on the wire (`Truth`). That there is
  one card needs `Life`: while the token is there nothing is being created, and while it is not no update is sent.
* `NothingLost` (`Settled`), without failures, refusals and reordering: once the end of the turn was taken from the queue, what
  the platform has or will have after all that is under way is the card of the state, or the dirty flag is up with its timer (`Synced`).
* `EndIsFinal` (`StaysEnded`): an update that shows an end is followed on the wire by such updates only, and the state it came from stays
  ended (`LastWord`); the clicks on an interrupt button are followed in `Stopping`.

`MergeReviewProofs` proves, for any branches, files, users, choices, batches, bounds and environments, from `MergeAssumption`,
the three safety properties of `merge_review`. They are about the same few facts, so there is one invariant in parts:

* `Typed`, in every environment: `TypeOK` with what the fields of a call are at each `pc` and what the retry of a review keeps.
* `Ordered`, for calls that wait for each other: at most one call is under way (`OneCall`); the branches with a session, stored, mapped or being
  created, are at most one (`One`); a session in the map is the stored one but for its timer (`MapStored`). The check for other
  reviews reads rows and acts on the map, so neither is inductive alone. Of it and `Truth` follows `ReviewsStayKept` (`ReviewsKept`). `Truth`
  needs `TakesSides`: between the worktree and the row of a decision the conflict it takes a side of is already gone.
* `Merges`, without `cut` and `git` (and `unbound` for the owner): a merge is owned by its review or the call that starts or ends it, and a branch out of a merge has its own
  commits only (`CommitsClean`). It gives `MergeAlwaysOwned` (`MergeOwned`).
* `Faithful`, without `cut`, `stop`, `git`, `torn` and `stray`: a file with a decision contains what was agreed to, unless a call is applying that decision, the
  resolver has been handed the file or the hook has yet to look at it. `Kepts` says this of the map and the row, with the exceptions;
  `Hands` says which files each call, the resolver's turn and its hook have in hand, and that these are open; `Waiting` that
  a session waits for a resolver only while one is there. A restart reads the row, so all of it is said of rows too, but for the row of a
  decision that is in the worktree already (`applied`), which no restart may read here.
  It gives `ReviewAlwaysLands` (`ReviewedLands`).

`AgentSessionProofs` proves, for any number of texts, any kinds of backend and any environments, from `AgentSessionAssumption`:

* `TurnsAlwaysTrue` (`TurnsTrue`). `Fresh` says that a turn is begun at most once on its way from call to agent, `Said` that every line, parked
  event and report of an end tells what that turn came to. The requested mode is followed through the adapter, the requests and the
  answers under way (`Served`); the types need `Awaited`, that a request waits for an answer only while its call does.
* `AcpTurnsAlone`: an end of an ACP agent names no turn and is taken for the latest one's. This is right because, while nothing is muted, the only turn
  that may still end is the latest, and no other is being started (`Alone`); and once a turn was interrupted the mark that mutes its
  thread is never taken back (section 5), so that late ends are dropped rather than misattributed.

So every safety property and action property of the passing runs is proved. Only model-checked is liveness, which is beyond the prover:
`EndHandled`, `StartReturns`, `InterruptReleased`, `ApprovalSettles`, `TextShown`, `CallsReturn`, `ThreadFreed`, `HandedBack`, `EndShown`.
The theorems inherit the limits of their modules (section 6), and those stated for some environments only (`Calm`, `Env = {}`, `Without(...)`,
no `overlap`) say nothing about the others, where section 5 tells what happens.

## 5. What the runs found

One run is expected to be violated; it contradicts a sentence of the repository quoted in `PROJECT.json`: a turn aborted by the agent
on its own never reaches `finishTurn`, and the machine stays RUNNING (`thread-event-runtime.ts:500`).

The rest are limits met while modelling. They show in the hardships that the properties' conditions or the runs' environments exclude.

*Turns.*

* A start that is *refused* because a turn is running enters the same catch block as one that failed, and releases the
  machine of the running turn (`turn-lifecycle-service.ts:311`).
* `finishTurn` frees the machine before it stores `awaiting_approval` (`turn-lifecycle-service.ts:322`): with overlapping sends,
  `NoRunWhileAwaiting`, `AwaitingBlocks` and `LedgerKept` fail, although the comment at lines 176-179 calls the persistent check "the true guard".
* `finalizeTurnState` and `upsertRuntimeState` write back whole rows (`turn-command-service.ts:278`), so an `interrupted`
  status can be undone while the thread is INTERRUPTING.
* A repeated end re-activates a finished turn; events of the next start are then not parked and `SettledClosed` fails. It also
  empties the tools of the stored turn (`StreamOutput`'s `EchoEnd`).
* A failed start leaves its pending flag, so the ownership of parked events (`ParkedOwned`, a part of `ParkedKept`) fails with
  failures; a failed commit drops the end of the turn.

*Approvals.*

* An approval that times out makes the machine IDLE while its turn still runs (`approval-use-case.ts:86`).
* An abandoned turn leaves AWAITING_APPROVAL with nothing to decide (`turn-lifecycle-service.ts:437`), so `AwaitingBacked` is stated
  without `abandon`. An interrupt between a decision and `markResolved` expires the row for a moment (the `ExpiredUnanswered` part of `AuditTrue`).
* After a refused answer (`approval-use-case.ts:140`) the context stays without a wait: later presses are duplicates and the row is
  pending until a restart, so `ApprovalSettles` is checked without `failure`.

*Stream.* A persist flush marks text as stored that arrived after its snapshot (`stream-output-coordinator.ts:295`), and a joining timer leaves its
handle (`:284`): that text waits for the next event, without limit. The end of the turn stores it, which is what `EndStored` says.

*Threads.*

* A refused duplicate leaves a `creating` row, as does a crash during creation, and the name cannot be used again
  (`sqlite-thread-registry.ts:119`; `thread/contracts.ts:31` says a failed reservation is released).
* A thread released while its API starts is marked READY when the start returns (`agent-api-pool.ts:64`); a process whose
  initialisation fails is left running (the pool is composed without a process manager, `factory.ts:209`).
* Two deletions that race a re-creation remove the new thread's worktree (`thread-runtime-service.ts:403`); deletion looks at no running turn.
* A crash between the removal of a worktree and `markMerged` leaves a thread that cannot be deleted.
* A join that races a re-initialisation binds the old session; disabling a project, and deleting a thread under a turn,
  forget that a thread is busy, so `SessionKept` is stated for projects never disabled and names no thread was deleted of
  (with three sessions and a deletion a completed conversation can be replaced by a turn of the earlier thread); a revert clears the last completed turn and makes the thread look empty.
* A changed policy releases the API (`thread-execution-policy-service.ts:199`) and a turn only looks one up: the thread
  is unusable until a restart, against the comment at line 196, "so the next turn creates a new session". The check that guards it is made before an await.
* Linking a project recovers no sessions; `/sync-reset` recommends joining a thread it has deleted.

*Agent clients.*

* A plan turn whose start fails leaves the adapter's pending mode, and the next turn runs in plan mode (`codex-api-factory.ts:96`,
  `acp-api-adapter.ts:119`).
* The end of an interrupted ACP turn carries no turn id and is dropped while the thread is marked interrupting
  (`thread-event-runtime.ts:249`): only the 30 s timer frees the thread. That mark is not cleared by the timer, nor by an end that comes
  before it is set (`turn-command-service.ts:297`), and then drops the id-less events of later turns.
* A Codex start that times out leaves a turn whose end frees whatever runs.
* An ACP prompt that fails, or whose process exits, is only logged, and unknown stop reasons end nothing: the turn never ends. A
  prompt on a dead transport counts as started. A text question of an ACP agent can never be answered (`thread-runtime-service.ts:333`).

*Merge reviews.*

* A commit that git refuses drops the session without an abort (`merge-service.ts:1440`), although `git-utils/src/merge.ts:394` requires one:
  `MergeOwned` is stated without `cut`, `git` and `unbound`. A crash between the start of the merge and its stored row leaves the same, and
  so does a thread or chat that cannot be read then: `getRecord` or `requireProjectChatId` throws (`merge-service.ts:803-804`) after git began.
* A decision changes the worktree (`merge-service.ts:1302`) awaits before its row is written (1317, 1323). A restart in between brings the file back
  as undecided with its old diff although the worktree holds, say, the version of main; accepting it then commits what nobody was shown (`torn`).
* What the resolver touched is compared with what it was given after the retry of a single file only (`merge-service.ts:323-334`), and then the stray edit
  stays in the worktree. The hooks of a resolution (959) and of a batch (1234) do not look, and refresh no diff but those they know of: a decided or
  shown file it edits meanwhile is committed unseen (`stray`). `ReviewedLands` is stated without `torn` and `stray`; TLC refutes it with either.
* Nothing makes the callers of the service wait for each other: overlapping starts both pass the check (`overlap`), a commit while a resolver
  works lands content nobody reviewed (`busy`), a timeout may meet a call under way (`late`). The safety properties are stated for callers that
  do wait (`InTurn`), and these environments are in no passing run. A git command that fails leaves the decision recorded.
* A restart during a single-file retry leaves the file pending; a stopped resolver turn never runs its hook, and the session waits for its
  timeout. The timeout leaves the resolver's thread record, and the old resolver keeps writing.
* A second retry replaces the hook of the first; main moving during a review makes the commit fail while a cancel keeps the merge
  commit; a row persisted after its deletion comes back.

*Turn card.*

* An interrupt clicked as the turn completes (`beaten`) leaves a finished card that shows "interrupting"; an interrupt stops the turn of
  the user's bound thread, not that of the card (`other`); a turn that completes while it is being interrupted sends no summary.
* Static cards append held deltas after the final message (`late`), and concurrent updates may arrive out of order (`reorder`).
* A failed update loses the dirty flag; a failed creation is kept, so the card never appears; a creation sent again makes a second
  card (`lost`). A card that was running at a restart stays so. A failed accept or revert replaces the card.

*Administration.*

* With overlap a deleted project returns, although its deletion is documented as permanent (`project-service.ts:337`), and
  changes of members and skills are lost. The check of a role, a binding or a removal is made before the await.
* An installation for a project writes the project's list (`plugin-service.ts:341`) and then links its skills (344). If that throws, a disk
  error suffices, the error path removes the directory (531) and the project keeps a skill enabled that is not there (`sync`), without
  any overlap. After that no thread of the project starts a turn (`turn-lifecycle-service.ts:188` links first). An installation under the name of an
  installed skill fails and removes that one (`reinstall`). `SkillsInstalled` is stated without both; TLC refutes it with either.
* Adding an administrator of the configuration by hand changes its origin, so it can be removed (`sqlite-user-repository.ts:71`; the
  contract says "Idempotent", `iam/user-repository.ts:38`). This was read, not checked: see section 6.
* Toggling can activate an unbound project; project ids made in the same millisecond collide (`project-service.ts:138`).

## 6. Not modelled

* In turns: failures of the database and of the chat platform; the ten-minute expiry of finished and suppressed turns and
  contexts; deletion of threads and projects under a running turn (`releaseByPrefix`); `handleRollback`; redelivered platform
  messages (`callId`); plan drafts and the plan finalizer's message.
* In the stream: windows of the intent buffer that keep only the latest output; the relative order of different kinds of text; crashes.
* In threads: staleness and synchronisation of threads with the base branch, previews, listings.
* In agent clients: the handshake, ids of requests that collide within a millisecond, failures to write, wording of questions.
* In reviews: the direct merge with force, previews, the diff that is shown.
* In cards: the detail pages, plans, tools, token counts; native streaming; Slack, whose outputs are sent without a card state.
* In administration: git commands and directories of a project, manifests and archives of skills, a copy of a skill that a restart
  leaves half made; and the table of administrators, whose operations are one statement each with one check: a property of
  them would repeat that check.
* Snapshots and their restoration, project pull, configuration files of backends, the audit log, the admin UI and the log: one git
  command or file each, or without effect on the rest. `PROJECT.json` gives the reason for each component marked `not_modelled`.
* The platforms' card builders and strings, which are half of L1, are layout.

## 7. Plan

1. *Done*: `TurnLedger`, `TurnLifecycle`, `ApprovalFlow`, `StreamOutput`, `ThreadRuntime`, `MergeReview`, `TurnCard`, `AdminState`,
   `AgentSession`, and the proofs above.
2. `GitSnapshot`: `createSnapshot`, the commit of a turn and `restoreSnapshot` on sets of files (tracked, untracked, ignored),
   checked against "the worktree as it was"; pure operators, lemmas proved.
3. The composition of `TurnLifecycle` with `AgentSession`'s ends, and of `MergeReview` with `ThreadRuntime`'s deletion of a merged thread.
4. `TurnStarts`: redelivered messages (`callId`, `callStartInflight`) in front of `TurnLifecycle`'s start; metadata writes of
   `ensureTurnStarted` beside the stream flushes.
5. `ProjectPull`: preview and confirmation against a repository that moves.
6. Proofs: of the liveness properties, the safety half (that somebody is there to take each next step, as `PInv` and `Claimed` say for turns);
   then the compositions of item 3.
