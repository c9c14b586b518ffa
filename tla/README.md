# A verification model of gcabb

gcabb is a desktop application that runs many Copilot sessions side by side,
each in a git worktree of its own. This directory holds TLA+ models of its
concurrent and durable core, the TLC configurations that check them on small
instances, and theorems proved with TLAPS for every value of the constants.
Paths below are relative to `src/`; `SM` is
`crates/session-manager/src/lib.rs`, `ST` is `crates/storage/src/lib.rs`, `CP`
is `crates/copilot-provider/src/lib.rs`.

## The system

| component | state it keeps | operations | talks to |
|---|---|---|---|
| follow-up queue (`SM` actor, `ST` queue tables, `app-model/src/queue.rs`, `copilot-provider/src/queue.rs`) | `queue_items`, `queue_state`, the actor's `state.queue`, `state.status` | enqueue, edit, remove, reorder, pause, clear, sync, drain, deliver, complete, reconcile | storage, the runtime, coordination |
| event log and snapshots (`SM` `apply_raw`, `publish`, `reconcile_history`; `ST` events and snapshots; `app-model` `apply`) | `events`, `tool_outputs`, `snapshots`, the actor's `SessionState`, the broadcast ring | append, deduplicate, snapshot, replay, reconcile, rebuild | provider stream, user interface |
| plan approval and coordination (`SM` `respond_to_session_plan`, `handle_plan_*`, `notify_parent_*`; `ST` `coordination_items`, `plan_responses`; gateway in `apps/desktop/src/main.rs`) | coordination rows, plan responses with a version, pending interactions | ask, answer by developer or ancestor, retry, invalidate, notify parent, expire | runtime's host tools, queue |
| session lifecycle (`SM`) | session rows with states open, closed, archived; `sessions` map; `restoring` set; `lifecycle` lock | create, close, restore, archive, unarchive, delete, stop | actor, orchestrator, git |
| session launch (`session-orchestrator`) | worktree, branch, title, session row of one launch | allocate, create, start, compensate | git, `SM` |
| Copilot provider (`copilot-provider`) | registry of sessions, interactions, subscriptions | create, send, abort, respond, close, deliver | Copilot SDK (external) |
| updater (`updater`, `apps/desktop/src/updates.rs`) | settings, staged archive, installed build | check, download, verify, stage, swap | release feed, file system |
| automations (`app-model/src/automation.rs`, `automation_runner.rs`) | automation rows, run rows, running set | due, claim, run, record | `SM` |
| tool activity projection (`app-model/src/tools.rs`) | cards and terminals derived from events | fold | event log |
| git service, diagnostics, user interface, release tool, probes, shims | none with a protocol | | |

How they interact. The session manager spawns one tokio task per live session,
the *actor*, which selects over a mailbox of commands (user interface, other
sessions through the manager) and a broadcast subscription of provider events.
An actor handles one message at a time and awaits the runtime in the middle of
some; the database is one SQLite connection behind a mutex, shared with every
task, each call being a transaction at most. Other tasks therefore see and
change the database between any two calls of an actor, and only tell it by
putting a command in its mailbox.

Which behaviours are hard: rows that two tasks write; a cached copy that a task
acts upon; an await between reading a row and recording what became of it; a
crash at that await; events of the runtime that arrive later than the answer
they follow from; a notification sent while nobody listens yet; a database call
that fails and whose error is only logged. `PROJECT.json` lists each at its line.

What makes each part correct:

- **Follow-up queue.** A prompt is handed to the runtime once; one follow-up
  is taken at a time; what the table calls dispatched or completed was handed over
  and, after a crash, is not made up; the ledger and the queue agree; every
  follow-up of a session left alone is delivered.
- **Session lifecycle.** Uncommitted work is in a worktree or in the archive
  record, never in neither; a hidden session has no runtime and, while it is
  archived, no worktree; a family goes bottom up; guards and the lock are given
  back, and operations that meet come to an end.
- **Event log.** Each provider event is applied once, in order; replay from a
  snapshot and the events after it gives the state the actor had; a crash
  between the two writes of a snapshot loses neither.
- **Plan approval.** A plan is answered once, by somebody allowed to; a retried
  answer changes nothing; a parent that can answer is told; nothing waits for a
  session that is gone.
- **Launch.** A failed launch leaves neither a worktree nor a branch nor a row.
- **Updater.** At every point one complete build is installed or recoverable;
  what is installed was verified.
- **Automations.** A due time runs once; no two runs of one automation overlap;
  an interrupted run is recorded as failed.

## What is modelled

| module | of what |
|---|---|
| `SessionQueue` | the follow-up queue of one session, with all writers, the runtime, closing, crashing and restoring |
| `FollowUps` | what that queue promises of each item; `SessionQueue` implements it |
| `SessionLifecycle` | launching, closing, resuming, archiving, unarchiving and deleting sessions by three concurrent tasks |
| `Coordination` | plans that agents ask about, announced, answered and withdrawn, and completions of children, through a bounded channel and its one consumer |
| `PlanApproval` | what the approval of plans promises; `Coordination` implements it |
| `EventLog` | events of one session, from the runtime's buffer to the log, the state and the snapshot, and their recovery |
| `UpdateSwap`, `Updates` | the swap of the installed build with a downloaded one, and the window and worker that lead to it |
| `ToolOutput` | what is shown and what is stored of the output of tool calls and shells |
| `Launches` | launching and forking a session, the ledger of host tool calls, and taking a failed launch back |
| `Automations` | when automations are due, the one run each may have, and what is left of a run cut off |

Each has an `MC_` module with its instances and symmetry for TLC (`MC_Updates` is
that of both update modules), except `FollowUps` and `PlanApproval`, which are
checked and proved through `SessionQueue` and `Coordination`. The proofs are in `SessionQueueProofs`,
`SessionLifecycleProofs`, `EventLogProofs`, `CoordinationProofs`,
`AutomationsProofs`, `LaunchesProofs`, `ToolOutputProofs` and `UpdatesProofs`.

Each definition that stands for code is listed in `PROJECT.json` under "map"
with its lines. A definition whose comment starts with "Mutant:" is no part of
a model: it is a plausible bug, there to show that a property can fail.

### SessionQueue and FollowUps

| variable | in the code |
|---|---|
| `queue` | rows of `queue_items` of one session and its `queue_state.paused` |
| `ledger`, `read` | `state` and `read_at` of the `coordination_items` linked to a row |
| `history` | the user prompts in the runtime's own transcript |
| `view`, `status` | `state.queue` and `state.status` of the actor |
| `alive`, `installed` | the actor's task; its entry in `SessionManager.sessions` |
| `sending`, `reply` | the call of `deliver_queued` the actor awaits, and its result |
| `poked` | a `QueueCommand::Sync` in the mailbox |
| `events` | provider events not yet read |
| `inbox`, `turn` | the runtime: accepted prompts, and the turn's own |
| `accepted`, `faults`, `crashes` | ghosts, read by properties and bounds only |

The actor's commands (`Enqueue`, `UpdateText`, `Remove`, `Reorder`, `SetPaused`,
`Clear`, `Sync`) share the tail of `apply_queue`: write, reload, drain. `Drain`
ends at the await in `drain_queue`; `DeliveryReturns` is what follows it. In
between the actor handles nothing, which `Ready` says, while the manager
(`CreateCoordination`, `ResolveNotice`, `RetireSender`) writes rows and the runtime acts
(`RuntimeAccepts`, `RuntimeRejects`, `TurnStart`, `TurnEnd`, `TurnError`). A
failed database call is a disjunct of the action that makes it, with the partial
effect it has. Texts are version numbers; positions are in units of
`QUEUE_POSITION_STRIDE`, and two writers may take the same one.

`FollowUps` has neither actor nor copy, mailbox, runtime or restart: only the stage of
each row, how often the runtime took the item, and the losses (crashes and failed
database calls) so far. The refinement maps `queue` to `stage`, `accepted` to `handed`
and `faults` to `lost`. Rows go from pending to withdrawn, failed or dispatched, and from
there to completed; what is called dispatched was taken. `WrittenBlindly` is the one
exception, and says when it may occur: the row is written back by an actor that does
not know what became of it, because a row another session had sent was withdrawn by
another task, or because something was lost. `Abandons` is the row that ran when its
session was archived.

### SessionLifecycle

| variable | in the code |
|---|---|
| `rows`, `archive` | `app_sessions` and `session_archives` (branch known, patch) |
| `tree` | the worktree of a session: missing, or the uncommitted work in it |
| `sessions` | `SessionManager.sessions`: no entry, a live runtime, a disconnected one, an unavailable stand-in |
| `orphaned` | actors that run on although their entry was dropped, since a clone of the handle exists |
| `restoring`, `lifecycle` | the guard set and the lock |
| `job` | per task: its operation, where it is, and its local variables |
| `faults` | ghost: crashes, dead runtimes, failed database calls |

`Service` runs the commands of the user interface one at a time, `Gateway`
those of the agents' host tools, `Runner` automation runs. An operation starts
with a request (`Launch`, `Resume`, `Archive`, `Delete`, `Unarchive`) and goes on
with one step of `Proceed` per stretch of code between two points at which
another task can act: `Close`/`Unmap` are the two halves of `close_session`,
`Drop`, `List`, `Guard`, `Restore`, `Install`, `Discard` those of
`resume_closed_session`, `Guard`, `Lock`, `Pick`, `Stop`, `Capture` and `Remove`, or
`Erase` and `Reclaim`, those of archiving and deleting, `Rebuild`, `Apply` and
`Clear` those of unarchiving. Every git command may be refused and every call of a
provider may fail at any time; a failing database call counts as a fault.
`Quit` and `Crash` drop everything that is not durable.

Restoring at the start of the process is left to `Resume`: the database calls
and the guard are the same, but sessions come back one after the other.

### Coordination and PlanApproval

| variable | in the code |
|---|---|
| `responses` | table `plan_responses` |
| `notice`, `unread` | the `plan_waiting` row of a plan in `coordination_items`, and its `read_at` |
| `completion` | the once-only completion row of a child |
| `status`, `hidden` | `state.status` of a session; archived or deleted sessions |
| `owner`, `working`, `answer` | the runtime: who asked, whose turn goes on, what the callback of `ExitPlanModeHandler::handle` returned |
| `arriving` | the channel of `InteractionBroker` |
| `pending`, `listed`, `shown` | `pending_responses`, `state.pending_interactions`, and the same in the published snapshot |
| `up`, `installed`, `act` | the actor's task, its entry in the map, what it is in the middle of |
| `channel` | `HostGatewayEvent`s on their way to the one consumer |
| `job`, `lock` | the consumer (`Gateway`) and the service thread; the lifecycle lock |

The actor takes a plan from its channel, publishes it and announces it, waiting
while the channel is full. The consumer writes the notice, pokes the parent, and
also runs the agents' `respond_to_session_plan` (SM:1744): look up, refuse, claim,
resolve the callback, record what became of it. The developer's answers go the
same way from the service thread. Cancelling, closing, losing the runtime,
archiving and restarting withdraw plans. `PlanApproval` knows only the claim
and what was heard; the refinement maps `responses` to `claim` and `answer` to
`heard`.

### EventLog

| variable | in the code |
|---|---|
| `log`, `snap` | `domain_events`, and the session's row in `snapshots` |
| `emitted`, `history`, `runtime`, `buffer`, `skipped` | what the runtime emitted, which of it its own history keeps, and its broadcast subscription, which forgets |
| `pipe` | the channel of `register` (CP:1541) |
| `phase`, `todo`, `state` | the actor, or the restore it starts from; the history it has read; `SessionSnapshot` |
| `writing` | which of the two statements of `write_snapshot` is next |
| `kept`, `torn`, `since` | history: notes that a stored snapshot held; a crash fell between those statements; `emitted` when the session subscribed last |

### UpdateSwap and Updates

| variable | in the code |
|---|---|
| `disk`, `crossing`, `platform` | what installation, backup and staging hold, file by file; whether a rename is refused |
| `job` | what `install.rs` is doing to them |
| `feed`, `deferred` | the release feed; `settings.deferred_version` |
| `running`, `helping`, `home`, `stray` | the process, the Windows helper, where its executable lies now |
| `banner`, `requests`, `pending` | the window; its queue to the worker; `check_pending` |
| `worker`, `skipped`, `offered`, `serving`, `events` | the worker thread of `updates.rs`: whether it serves or returned early (345-361), its settings in memory, its offer, its request, its queue to the window |
| `torn` | history: a job began over a build left in part |

### ToolOutput

| variable | in the code |
|---|---|
| `invocation`, `terminal` | `ToolActivity` in memory |
| `stream` | `tool_outputs`, by call and by shell |
| `unread` | `output_load_error`: calls and shells whose text could not be read at a restart and was cleared |
| `sent`, `over`, `odd` | history: what was sent of a call; calls that ended; calls and shells that were linked late, and shells that showed all of a result before it came |

### Launches

| variable | in the code |
|---|---|
| `rows`, `ledger`, `selected` | `app_sessions` (rows that are gone are kept as `deleted` by a compensation, `removed` by the developer), `host_tool_launches`, the selected session |
| `trees`, `branches` | worktrees with what is uncommitted in them, branches with or without commits of their own |
| `live`, `lingering` | sessions with a runtime; runtimes that could not be stopped |
| `lock`, `job` | `workspace_lock`; what the service thread and the host tools' consumer are doing |
| `kicked`, `answered`, `left` | history: first prompts that arrived, calls reported as done, leftovers that were reported |

A launch is one step per stretch between two points at which it can fail:
`Acquire`, `Worktree`, `Snapshot` (forks), `Create`, `RestoreFork`, `Configure`,
`Activate`, `Kick`, `Finish`; its compensation `Stop`, `Erase`, `Discard`, `Clean`,
`Branch`, `Reselect`. `Delete` is the developer's deletion of a session on the list.
The look-up of a free name and the taking of it are one step of `Worktree`, because
`workspace_lock` is held over both (OR:209-225, 320-325) and whoever else makes a
worktree makes one of a branch that exists; the model does not ask what happened
without the lock.

A deletion shows a difference between the two host tools. A call of `create_session`
leaves an entry in `host_tool_launches` when its session is deleted and is refused
when it is made again. A call of `fork_session` is looked up in `app_sessions` alone
(`session_for_fork_tool_call`, ST:431-446), so made again after the developer deleted
the fork it forks and sends its prompt again. `KickoffDelivered` says so: at most one
session of a call has its prompt, forks that the developer deleted not counted. Left
out is the deletion of a session whose worktree's name is at that moment being given
to another launch, which takes an earlier deletion that failed half way.

### Automations

| variable | in the code |
|---|---|
| `autos`, `rows`, `sessions` | `automations`, `automation_runs`, and rows of sessions made by runs |
| `running` | the set of automations in flight (`automation_runner.rs`) |
| `task` | the task of each run and its local variables |
| `status`, `moved`, `turn`, `spoken` | the session's snapshot as `wait_for` sees it, and its runtime |
| `now` | the clock, which goes on while the program is closed |
| `noisy`, `leaked` | history: runs with a stray or failed event in their turn; sessions left behind by a crash or the database |

## What the runs show

| run | question | bounds |
|---|---|---|
| `queue_rows` | is each follow-up handed over once and truthfully recorded, and never taken for finished once its turn is known to run (`AtMostOnce`, `NoPhantomDelivery`, `RetiredAfterTurn`, `CachedPendingIsCurrent`)? | two follow-ups, two positions, one fault |
| `queue_ledger` | do ledger and queue agree, and is a message in the transcript not handed over again, and is every step one of the promised stages (`LedgerMatchesQueue`, `TranscriptNotRepeated`, `PromiseKept`)? | one message or one notice, one edit, one fault |
| `queue_live` | is every follow-up delivered, while no delivery fails (`FollowUpsDrain`)? | two follow-ups, no faults |
| `life_work` | is uncommitted work ever lost (`WorkNeverDropped`)? | a session and an automation run, two edits, two faults; one task resumes sessions |
| `life_tree` | do hidden sessions stay down, archives reduced, families in order, guards returned, and does every operation end whose actors answer (`HiddenNotRunning`, `ArchiveStaysReduced`, `ChildGoneFirst`, `NothingHeldAtRest`, `OperationsEnd`), and is the state well-typed (`TypeOK`)? | a parent and a child, one fault |
| `life_capture` | can an agent write between capture and removal (`CaptureIsFinal`)? **Yes, the property is violated** | one session, one edit, one fault |
| `plan_answers` | is a plan answered once, by an ancestor or the developer, and as recorded; does the parent learn of it, and of completions; do the consumer of the channel and the service thread stop for nothing but a circular wait (`AnsweredOnce`, `HeardAsRecorded`, `OnlyAncestorsAnswer`, `UnreadIsOpen`, `CompletionNotLost`, `GatewayServes`)? | a session and its child, one plan, one call by each, a channel of one, one turn, one trouble |
| `event_log` | are events numbered once, in order, none lost, the screen what the log says, permissions kept (`NumbersAreNew`, `OrderKept`, `NothingLost`, `ScreenIsLog`, `NotesKept`)? | three events, buffer and pipe of one, a snapshot every two, three ends, one fault |
| `updates` | can a swap be undone, is the banner true, and do banner, checks and restarts come to an end (`UndoPossible`, `BannerIsTrue`, `NothingHangs`)? | three builds, the second with a file more, three platforms, two faults |
| `tool_output` | is what is shown what is stored, and what is stored what was sent; does a shell that exited stay so (`ShownIsStored`, `SentIsStored`, `ExitIsFinal`)? | two calls, a shell, results of two chunks, one restart that may fail to read, a window of one chunk |
| `launches` | is a tool call's prompt delivered once, but for forks that the developer deleted, nothing left behind unreported, an agent's work kept (`KickoffDelivered`, `NothingLeftBehind`, `WorkKept`)? | a user, one create and one fork call, two sessions, two names, two faults |
| `automations` | is an occurrence run once, one run at a time, judged when its turn is over, its session taken away, and what is due served (`EachOccurrenceOnce`, `OneRunUnderWay`, `TurnIsOver`, `SessionsAccounted`, `DueIsServed`)? | one automation with a condition, two runs, an interval or a calendar, three minutes, two edits, one trouble |

Every property holds but `CaptureIsFinal`: `resume_closed_session` removes what the
map holds when it gets there (SM:1434), not what it looked at. Of two tasks that
resume a session whose runtime died, the second takes out the first one's new
runtime; an archive that comes next finds nothing to disconnect, and the agent
writes on into the worktree that is captured and removed.
There is a second way into the same gap. When a launch is taken back, `close_session`
disconnects the runtime it found and, once its provider has stopped, removes what the
map then holds (SM:1404). A session that was resumed in between is orphaned likewise.
`life_work` has neither a fork that is resumed twice nor a launch that fails on a
session with a worktree.

What a property does not promise is in its premise, because the code does not
keep it there:

- `ChildGoneFirst`, without faults: after a failed deletion of a child its parent
  is deleted all the same (SM:2384).
- `RetiredAfterTurn` and `CachedPendingIsCurrent`, while no database call fails; the
  process may crash.
- `RetiredAfterTurn` speaks of the time after the actor has read that a turn began.
  Before that, the status is still idle: a command, or a poke, handled between the
  hand-over and that event completes the row although its turn has only begun (SM:4406),
  and the same drain hands the next item over, against the comment that a dispatched
  item of an idle session has "had its turn run to completion" (SM:4400) and the one
  that delivery is one at a time (SM:4433). With such a command at hand two rows are in
  the runtime at once; no property says that this does not happen.
- A message whose sender is archived or deleted while the recipient's actor has it in its
  copy is delivered nonetheless (`RetireSender`; ST:1725 tells no actor): the ledger
  says retired, the row is written anew. `FollowUps` allows it for
  the rows of other sessions (`WrittenBlindly`).
- `PromiseKept` lets a failed row be dispatched after all, though `is_terminal` has it as
  a state an item will not leave (`queue.rs:41`): when the outcome was written and
  the rows could not be read again (SM:4482), the actor still has the item as pending,
  delivers it once more on the next idle event and overwrites its row.
- `FollowUpsDrain`, while no delivery fails: one that fails on an idle session ends
  `drain_queue` (SM:4471), and the next item waits for a command or a turn. A
  message stored while a session is restored pokes nobody either (SM:2193), which
  is why the property is about the developer's follow-ups.
- After a crash the first drain marks every dispatched row completed (SM:4406),
  also one whose turn never started; no property calls a completed row finished.
- A withdrawn plan notice whose delivery is awaited is delivered all the same
  (ST:1633); the ledger says resolved, and `LedgerMatchesQueue` is about linked rows.
- `UnreadIsOpen` and `CompletionNotLost`, while no database call fails.
- `GatewayServes` has one way out, `CircularWait`, and the run reaches it in both its
  forms. The channel is full, an actor waits for room in it (CP:525-541, `main.rs:1342`),
  and the only consumer waits for that actor: to give it an agent's answer or to poke its
  queue; or it waits for the lifecycle lock (SM:1744) while the service thread holds it
  and waits for that actor to answer or to disconnect. Nothing in the code ends this
  wait. The property says that everything short of it comes to an end, a full
  channel included, and is checked with a channel of one; the program's has 16 places.
- `OperationsEnd`, if every actor that is told to disconnect answers some time
  (`ActorsAnswer`). The program does not guarantee it: `disconnect().await` (SM:1395,
  2457, 2573) has no time limit, and an actor in the circular wait above never answers. The task
  that archives or deletes then keeps the lifecycle lock for ever, and launches, answers to
  plans and messages (SM:1060, 1748, 1885) stop with it. What the property adds is that
  the lock and the guards close no circle of their own.
- `NothingLost` speaks of what the runtime's history keeps and of what was emitted
  since the session subscribed. Output of a turn that was cancelled never enters the
  history (`docs/phase-3/README.md:29`): what was only streamed to a session that
  ended, or to a process that died, before it was logged is gone, and no report
  says so.
- `OrderKept`, while nothing lags or fails: reconciliation appends what was missed
  after what was seen (SM:4578). `NotesKept`, unless a crash fell between the two
  statements of `write_snapshot` (ST:967).
- `UndoPossible` and `BannerIsTrue`, until a job begins over a build left in part
  (`torn`). Through every failure and crash a whole build is there; but nothing looks
  whether it is the one installed. The next start, if the executable is among what is
  installed, takes the swap for done and deletes the backup (`install.rs:151`), and so
  does the next installation (`install.rs:259`), against "so a failed swap can always
  be undone". Four ways lead to half an installation. A process dies while a copy fills
  it, or before the old build is put back over it. A process dies while it deletes what
  was copied aside. That deletion fails half way (`install.rs:314-315`): `apply` then
  says that "the previous installation was restored" (37, 268-272), over half of it;
  the model calls this result "not aside", and claims of it only that the old build is
  installed or backed up. A copy that puts the old build back fails half way, and the
  caller is told so (280). A fifth begins elsewhere: on Windows, a second request to
  install begins to unpack while the window still shows the first as ready, and
  restarting hands over what is half unpacked (`HalfStaged`; the model has one staging
  directory, the code one for each version, so there the two requests must be for the
  same). With builds of one file nothing is ever half copied: hence the second file.
- `NothingHangs`, but for the flag of a check that was queued to a worker which then
  could not start (`updates.rs:345-361`): it stays, and later checks end at line 309,
  silently. No check is answered then in any case, and the banner never says that one
  is under way.
- `ShownIsStored`, but for shells that a call joined late, and for one case that the
  proof found. A preview that left something out is restored after a restart, cut to
  the window; the terminal is scrolled back, the call is not; the complete result is
  what the terminal shows already, and begins with the little that the call shows.
  `project_complete` then appends the rest to the terminal (`tools.rs:1040`), whereas
  `output_updates` stores nothing, because it asks for several calls (`tools.rs:1228`):
  the screen has the rest twice until the next restart, although "Projection then
  applies the same mutations to in-memory display state" (`tools.rs:1079`). `Doubled`
  names the case, and takes the shell out of the premise.
- `ExitIsFinal` is about a shell's state. Its exit code is not kept: every completion
  of a call with that shell sets it anew (`tools.rs:1009`), to nothing if it has none.
- `OneRunUnderWay`, while no database call fails; `TurnIsOver`, for runs without a
  stray event in their turn; `SessionsAccounted`, but for sessions that a crash
  left before they were noted.

- `WorkKept`, but for names in dispute. It takes four faults to need this, one more
  than the run has; the proof found it. The row of a session that compensation
  could not delete stays while its worktree is removed; a later fork is given the
  same name and worktree; after a crash the old session is restored into it, its
  agent edits, and when the fork fails its discard drops those edits.

### Bounds

All bounds are CONSTANTS or guards that name them. `MaxPosition`, `MaxRows`,
`MaxEdits`, `MaxEvents` and `MaxFaults` of the queue limit the ordering keys, the
rows, the edits of a text, the unread events and the crashes plus failed calls;
every hazard listed takes at most two items, one edit and two faults, since a
row meets one other row, one stale copy and one restart at a time. Events are at
most one unread: the actor reads them in order and one at a time, so a longer
backlog only delays. In the lifecycle two sessions are a session and a relative
of it; a third only repeats what the second does, the operations being per
session but for `Targets`. Two pieces of work are one in the patch and one in the
worktree. In the coordination one plan with an ancestor's call, a call by the
asking session itself and the developer has every pair of answers meet, and a
channel of one is full at once. Three events are one that is forgotten, one on its way and one the history has, and
a snapshot after the second. A result
of two equal chunks, in partial results of one, and a window of one chunk have
every prefix, suffix and repetition meet a window that cuts it. Three
builds are the one before, the one installed and the next. Two sessions and
two names are a launch and what it may collide with; two faults are a failure and
one in its compensation, or a crash. Two runs of one automation are those that
must not overlap.

### Fairness

`SessionQueue`: weak fairness for the actor's own steps (tokio polls a ready
task), for the runtime's answer and its turns (an answer always comes, be it an
error; a turn ends), and for `Install`. Nothing is assumed of users, of the
manager, of crashes, closing or restoring; `FollowUpsDrain` therefore speaks of
behaviours in which the session stays up from some time on.
`SessionLifecycle`: strong fairness of each task's next step, but of no step that waits
for an actor to disconnect (`Disconnecting`), because a step that
waits for the lifecycle lock is enabled again and again, and tokio's mutex is
handed over in the order of waiting.
`Coordination`: weak fairness of the actors' own steps; strong fairness of the next
step of the consumer and of the service thread, for the same reason: the lock, the places
in the channel and an actor's mailbox are all handed over first come, first served. A
step that waits for an actor without end is never enabled, and fairness asks nothing of it.
`Updates`: weak fairness of the worker thread, its start included, and of the window
taking events at its frames. `Automations`: weak fairness of the service thread's tick and of each
run's next step, the time limit included; since `RUN_TIMEOUT` bounds only the waiting for the
turn, this assumes that creating a session, sending and closing return.

## What is proved

Every theorem holds for all values of the constants that satisfy the assumptions
of its module; TLC evaluates those on every run. An inductive invariant was
checked with TLC before it was proved.

`SessionQueueProofs`, from `QueueAssumption` (a finite
set of items, the bounds are natural numbers, identifiers are distinct) and
`DirectIsNoPrompt` (a prompt that did not come from the queue is told apart):

- `TypeCorrect`: `Spec => []TypeOK`.
- `HandedOverOnce`: `Spec => []AtMostOnce`. `AtMostOnce` counts what the runtime has
  accepted, and is not inductive: whether an item may be handed over again depends
  on the table, on the actor's copy and on the call under way. The invariant
  `QueueInv` adds `Accounted` (an item still pending in the table or in the copy
  was accepted at most as often as there were faults), `Delivering` (the item
  in flight is pending in the copy of a living actor) and `Born` (an item without
  a row was never accepted). One lemma per group of actions shows that it is
  preserved; `DrainSafe` carries the draining that most of them end in.
- `DeliveriesAreReal`, `CopyIsCurrent`, `TablesAgree`, `TranscriptTrusted`
  (`NoPhantomDelivery`, `CachedPendingIsCurrent`,
  `LedgerMatchesQueue`, `TranscriptNotRepeated`), from one invariant, `RecordInv`:
  each depends on the copy, because that is what is written back, and on the
  prompts under way, because they turn up in the transcript. `Records` has a part
  that survives everything and one, `Sound`, that holds as long as no database
  call failed, crashes or not.
- `QueueImplementsPromise`: `Spec => PromiseKept`, the refinement of `FollowUps`. What a
  step may do to a row depends on how far the actor's copy can be from the table,
  of which `RecordInv` speaks only where no call failed. `CopyInv` adds what is left
  after a failure (`CopyIn`): a row the copy calls pending may have been withdrawn or
  answered, never finished; one it calls dispatched was dispatched. `MovesTo` and
  `HandsOver` say how one step may change a row and its hand-overs; `DrainPromised`
  carries the draining, `EditPromised` the tail of every command.
- `TurnsRunOut`: `Spec => RetiredAfterTurn`, from `CopyInv` and `TurnAhead`: while a turn
  runs and no call has failed, the actor that is idle has still to read that it began,
  and so has one that is about to read that the runtime is idle.

`SessionLifecycleProofs`, from `LifecycleAssumption` (three distinct tasks, `None` is
neither a task nor a session, automation sessions are new and not managed, the
sessions are finite) and `NoneIsNothing` (a missing record or worktree is not an
empty one):

- `LifecycleTypeCorrect`: `Spec => []TypeOK`.
- `HiddenNeverRuns`: `Spec => []HiddenNotRunning`. That an entry of the map belongs
  to a visible session is not inductive: a launch enters a runtime a step after the
  row was made, and archiving hides a session two steps after its entry was taken
  out. `LifeInv` adds `Exclusive` (whoever is about to change rows, records or
  a family holds the lifecycle lock), and with it what the holder looked at stays
  true until it acts: `Launching` (the session is still visible) and `Unhooked`
  (the entry is still gone). `Undisturbed` is what every other task respects, and
  `OthersKeep` turns it into the preservation of the holder's part. An automation
  run deletes its session without the lock; the property excludes those sessions.
- `AllGivenBack`: `Spec => []NothingHeldAtRest`. `HeldInv` says that each guard is in
  the hands of an operation under way and that an operation has none before it
  asked (`Fresh`), because asking replaces what it had; `HandsOver` is the one fact
  each action shows.
- `ArchivedStaysReduced`: `Spec => ArchiveStaysReduced`, an action property from
  `LifeInv`: only the service thread rebuilds (`Rebuilding`), and what is not born
  has no archive record (`Unborn`).
- `ChildrenGoFirst`: `Spec => ChildGoneFirst`, for families of any shape and depth.
  A parent is picked when none of its children is left in `todo`; that it has none in
  the database either is `ChildrenFirst`, which needs three things: the targets are the
  `WholeFamily` (the walk of `lifecycle_targets` is closed under children, so no
  induction along it is needed), a session leaves `todo` without losing its row only
  when a database call failed, and rows only go while the lifecycle lock is held
  (`RowsOnlyGo`), so that no child is launched in between. `OnCourse` says which steps
  each operation has, and that one that is not `deep` stays at its own session.
- `SoleWorkIsKept`: no step loses the uncommitted work of a session that is neither
  a fork, which a second task may resume, nor a launch that may be taken back
  (`Shared`). Of those sessions `WorkNeverDropped` cannot be proved, since it is false of
  them: this is what `CaptureIsFinal` shows. `life_work` checks the property
  itself on sessions without either, an automation's run among them. The invariant
  `WorkInv` carries what each operation knows between two steps (`Minding`): a
  worktree about to be removed is all in the patch and its session without a runtime
  (`Captured`), the record read for unarchiving is still the one stored, and its patch
  is in the worktree when it is cleared (`Rescuing`). `CapturedIsStill` is the point
  where the excluded sessions differ: nobody can write between the capture and the
  removal, because no actor of a `Sole` session is ever orphaned (`Kept`) and no
  other task has a runtime of it in its hands (`OutsideOnly`, `Mapped`). TLC refutes
  the statement for the others; see `life_capture` below the table of runs.

`EventLogProofs`, from `EventLogAssumption` and `NoneIsNoState`:

- `EventLogTypeCorrect`, `EventsNumberedOnce`, `ShownIsLogged` and `PermissionsKept`
  (`NumbersAreNew`, `ScreenIsLog`, `NotesKept`), from `LogInv`: the log has a last row
  and numbers from 1, the snapshot shows the rows up to its own number, and nobody
  writes one while the session is down.
- `LoggedInOrder`: `Spec => []OrderKept`. That the next event to be logged is later
  than all that are needs to know where the others are: `OrderInv` says that, while
  nothing was skipped and no write failed, the log has all that came before any of
  its events but for what was streamed to a session that ended (`Complete`), a restore appends the rest from its oldest (`Ahead`), and
  each event on its way is preceded, in the log or on the way, by the one emitted
  before it (`Following`).
- `LossIsReported`: `Spec => []NothingLost`. The property is about a moment at which
  nothing is on its way; `LossInv` keeps the balance at all others: of the events that
  the session should see (`Due`: what was emitted since it subscribed and, once it
  reads the history, what that keeps) those that can no longer arrive (`Lost`) are at most those that the reports in the log admit,
  those of reports in the pipe (`ToReport`) and those skipped and not reported yet
  (`Accounted`). What forgets an event, reports it, logs the report or restores it from
  history moves it from one side to another. The sums are cardinalities of finite sets
  of marks, one mark per event that a report admits, so that no fold has to be unrolled
  by induction.

`CoordinationProofs`, from `CoordinationAssumption` (a tree of sessions with its
ancestors, identifiers of tool calls that are none of the made-up `ui:` and
`invalidation:` ones, a channel with room) and `NoneIsNoClaim`:

- `CoordinationTypeCorrect`.
- `PlansAnsweredAsRecorded` and `AncestorsAnswer` (`HeardAsRecorded`,
  `OnlyAncestorsAnswer`). Between the claim of a plan, the answer to its callback and
  the record of the answer they depend on what the worker in the middle of it
  knows: `Doing` says that it holds the lock, that its row is there and says
  submitting, that its caller is an ancestor; `Obeying`, that an actor in the middle of
  a command is waited for; `RowIs` and `Backed`, what stays of an answer.
- `PlansAnsweredOnce`: `Spec => AnsweredOnce`, the refinement of `PlanApproval`.
  `ClaimMoves` and `HeardMoves` say how one step may change what is on record and
  what was heard.
- `ParentsTold`: `Spec => []CompletionNotLost`. The report that a child owes is with
  its actor, in the channel or with the gateway until its row is there (`Told`);
  a child whose actor is gone reports when it is restored, since it is not fresh
  any more (`Begun`).
- `WaitingPlansShown`: `Spec => []UnreadIsOpen`. `NoticeInv`: a plan that is announced
  is open or has a row that says who dealt with it, in which case it is not
  stored as a notice; one whose notice is unread is open, or whoever dealt with it
  has yet to withdraw the notice. `Clearing` says of an actor that gives up its
  plans that none of them is open any more, which is why its end takes none away.

`AutomationsProofs`, from `AutomationsAssumption`:

- `AutomationsTypeCorrect`.
- `OccurrencesRunOnce` (`EachOccurrenceOnce`): every way to compute the next
  occurrence ends after the present, and what was run lies in the past, so what is
  due next lies after all that was run (`NextAhead`). That the search for the next
  minute of a calendar has a least result is the one use of well-founded induction.
- `OneRunAtATime`, `SessionsTakenAway`, `JudgedWhenOver` (`OneRunUnderWay`,
  `SessionsAccounted`, `TurnIsOver`): the set of automations in flight is tied to the
  tasks (`Alone`), the rows to the tasks (`Recorded`), sessions to runs (`Owned`), and
  what `wait_for` heard to the turn (`Heard`).

`LaunchesProofs`, from `LaunchesAssumption` and `RowsAssumption`:

- `LaunchesTypeCorrect`.
- `PromptDeliveredOnce`, `AllTakenBack`, `AgentsKeepTheirWork` (`KickoffDelivered`,
  `NothingLeftBehind`, `WorkKept`). All that makes or takes back a workspace holds the
  lock, so a name that is being given away has no other claimant unless a
  compensation reported it. The first attempt to prove `WorkKept` failed for a good
  reason: see "What the runs show".

`ToolOutputProofs`, from `ToolOutputAssumption` and `NoneAssumption` (what is not there
is no record):

- `ToolOutputTypeCorrect`.
- `OutputAgrees` and `OutputComplete` (`ShownIsStored`, `SentIsStored`). Projection and
  storage decide by different conditions, so that they agree is shown case by case
  for a completion (`CallAgrees`, `ShellAgrees`, `ShellBegins`) and depends on more than
  the texts at hand: what shows nothing stands for nothing (`Shape`), a call with a
  shell is among the calls of its terminal and until it ends is there for no other
  reason (`Linked`), and what a call has streamed so far its shell has too (`Fed`).
  That nothing is stored twice needs what a call remembers of its last partial result,
  and that the time of the next is new (`Known`); a text that could not be read is
  cleared but its counts stay, which `Counted` ties to what is stored. The first attempt failed for a good
  reason: see "What the runs show".
- `ExitKept`: `Spec => ExitIsFinal`, an action property, by cases of the step.

`UpdatesProofs`, from `UpdateSwapAssumption`, `UpdatesAssumption` and `NoneIsNoDir`:

- `UpdatesTypeCorrect`.
- `SwapCanBeUndone`: `Spec => []UndoPossible`. `Placed` says for each step of a job what
  lies where: the old build is whole in the installation until all of it is in the
  backup, and stays there until all of the new one is installed; it needs that each job
  began over a whole installation, and nothing of how the jobs before ended. `JobShape`
  and `Owned`
  say how far a job of the worker, or of the Windows helper, can be.
- `BannerTold`: `Spec => []BannerIsTrue`. `OfferKnown`: the worker's offer is the last one
  that the window was or will be told; `ReadyIsThere`: a build that is or will be
  announced as ready is where it was said to be until the next installation begins,
  of which the window hears first. Both look through the events on their way, one at
  each end per step (`AnnouncedTell`).
`TypeOK` is the invariant of a run for `SessionLifecycle` only; of the other modules it
is part of what is proved.

What is only model-checked:

- The liveness properties, which are out of the prover's reach: `FollowUpsDrain`,
  `OperationsEnd`, `GatewayServes`, `NothingHangs`, `DueIsServed`.
- `CaptureIsFinal` is violated, and cannot be a theorem.

## What is not modelled

- `relocate_session`, the background restore of the remaining sessions and the
  limit on a parent's children when it is unarchived.
- The window between the two database calls of `UpdateText`, and the poke that is
  lost while a session is restored (SM:2193).
- A failed `write_snapshot` at the end of a restore, which leaves the provider's
  session connected; worktrees that a crash leaves, for which there is no sweep.
- A start whose migration of old data fails, which tidies nothing (`main.rs:14355`);
  `ensure_writable` failing once the archive is unpacked; the clean-up of the helper.
- Recovery of automations looks at the newest 1000 runs only; the editor's saves
  are single commands.
- The content of prompts, patches, branches and settings; git and the runtime
  beyond what their callers can observe; the Copilot SDK, which is external.
- The desktop window: most of `apps/desktop/src/main.rs` lays out and draws what
  the snapshots say, and the rest of it that keeps state (drafts, selection, rows
  hidden while an operation is under way) is a copy of what the service reports.
  That file alone is well over a third of the lines of the repository, which is why
  the models cover a small share of them.
- The components that `PROJECT.json` lists as not modelled, with the reason.

## Plan

Done: the modules above, their runs, and the theorems listed. What is left, in this
order:

1. `SessionLifecycle`: `relocate_session`; the background restore of the remaining
   sessions, and the limit on a parent's children when it is unarchived.
2. A module for permission and question requests: `InteractionBroker` (CP:1230-1437),
   `receive_interaction`, `respond` and `cancel_pending_interactions` (SM:3939-4300), the
   requests in `app-model` (`lib.rs:923`), and the set of requests the window is
   answering (`main.rs:4735`). To state: a request is answered once and by what the
   developer saw; nothing that is answered stays on screen; a runtime never waits
   for a request nobody shows.
3. A module for the window's own state (`main.rs:4168`-4640): selection, drafts and
   rows hidden while an operation is under way, against the snapshots they copy.
