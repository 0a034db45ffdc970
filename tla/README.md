# A TLA+ model of OpenPI

OpenPI is a desktop assistant: a Rust daemon (`crates/`) that runs LLM agents in
sessions, a Tauri shell and a React UI that talk to it over a Unix socket, and
phones that reach it over the LAN. This directory models the parts whose
correctness depends on the order of things. In the daemon: concurrent turns of a
session, the loop of one turn, the execution gateway with its budget and
breaker, the scheduler of tasks and runs, the records of sessions. In the desktop:
the link to the daemon, the view of a conversation that is put together from
events and polled answers, the composer, the window's navigation and theme, and
the panels, each a copy of something that others change. Paths below are relative
to `src/`; UI paths without a directory are under
`apps/desktop/web/components/surfaces/`.

Contents

1. The system: components, state, operations, interaction
2. Modules, and how they correspond to the code
3. Runs: what is checked, with which bounds and fairness
4. What the checks found
5. Proofs
6. What is only model-checked, and what is not modelled
7. Plan

To check a run: `tlc -config MCEngineSession.cfg MCEngineSession`; to check the
proofs: `tlapm EngineSessionProofs.tla`.

## 1. The system

### The daemon

| Component | State | Operations | Hard behaviour | Correct when |
|---|---|---|---|---|
| Engine session manager (`openpi-engine/session_manager.rs`) | a map from session to (turn id, cancellation token), a turn counter | `prompt`, `abort`, `set_model`, `is_running`, end of a spawned turn | a new prompt cancels the old turn but does not wait for it, so turns overlap; the turn id is drawn outside the lock | the newest wanted turn is always reachable, an entry never outlives its task, a cancelled turn starts nothing new |
| Agent loop (`openpi-engine/agent_loop.rs`) | step, context, token, flags of one turn | requests to the model, batches of tool calls, reviews, synthesis, settle events | cancellation at any await, errors of single writes, a budget checked in one place and spent in another | the context is valid at every request, a turn ends, and never silently |
| Turn guard (`turn_guard.rs`) | call count, fingerprints, what was announced | `record`, `budget_exhausted` | two kinds of notices compete for one slot | thresholds are announced in time |
| Session journal (`session_journal.rs`) | a JSONL file per session | appends by turns, reviews and `set_model`; load, prune | several writers with handles of their own; a crash inside a line | what is loaded is a conversation the provider accepts |
| LLM client (`llm_client.rs`) | none between calls | stream a completion, retry | retries after partial output, cancellation | one completion or one error per request |
| Tools (`tool_registry.rs`, `openpi-tools`) | files, child processes | read, edit, bash ... | time limits, output limits | outside the model: I/O |
| Execution gateway (`openpi-daemon/gateway.rs`) | shares breaker and budget | `execute` | requests run concurrently and are dropped when a client hangs up | every reservation is settled, guards precede effects |
| Resource budget (`openpi-safety/budget.rs`) | used and reserved tokens of two halves | `reserve`, `meter`, `release` | check and use are apart; cost differs from estimate | use and reservations stay within the limit but for overruns |
| Circuit breaker (`openpi-safety/circuit_breaker.rs`) | state, counter, both under locks of their own | `state`, `record_success`, `record_failure`, `force_reset` | late outcomes of earlier requests arrive in any state; a reader changes the state | counter agrees with state, only the documented edges |
| Task scheduler (`openpi-scheduler/lib.rs`, `openpi-daemon/task_runner.rs`) | tables `tasks`, `task_runs`; map `active_runs` of tokens | create, pause, resume, delete, trigger, run, cancel, complete, advance | tokens are made twice and inserted by spawned tasks; rows are overwritten by whoever is last; the daemon may die between any two writes | rows tell the truth, cancelled means asked for, schedules are not lost |
| DAG planner (`openpi-scheduler/dag.rs`) | none | topological order of steps | cycles, missing dependencies | order respects dependencies |
| Storage (`openpi-storage/lib.rs`) | SQLite | single statements | none of its own: one connection under a mutex | durability |
| Supervisor (`openpi-daemon/supervisor.rs`) | sessions in memory and on disk, event broadcast | create, rename, delete, prompt, abort, events | memory and disk are written apart; generated titles race with renames; events are unattributed to turns | no deleted session returns, an explicit name is kept |
| IPC server (`ipc.rs`), LAN server (`lan.rs`) | connections, subscriptions | requests, events, watchdog | a broken connection aborts its handlers | a request has its full effect or none |
| Sentinel (`openpi-daemon/assets/sentinel.js`) | files read, calls in a row, probes, the map of the repository, checkpoints | the gate before every tool, code search, subagents, rollback | state is written before the tool runs, by calls that overlap, and outlives the session | a write follows a read, a loop is stopped, a rollback ends at a commit |
| Cloud sync (`cloud_sync.rs`) | watermarks, tombstones | push, pull | two devices, clocks, partial failure | devices converge, deletions win |
| Event bus, producers, proactive loop | subscriptions | publish, gate | lagging receivers | gated by the breaker |
| Decision layer, attribution, memory, Jev, identity/goal state, skill scanner | records and scores | pure functions and single writers | numeric | |

### The desktop

| Component | State | Operations | Hard behaviour | Correct when |
|---|---|---|---|---|
| Link to the daemon (`api.ts`, `daemon_client.rs`) | connection, table of waiting requests, desired state | `call` with retries, reader, supervisor, stop, restart | a connection ends between registration, writing and answer | nobody waits in vain, what must not happen twice does not |
| Conversation view (`App.tsx`, `ipc_handlers.rs`) | the view, caches, the optimistic message, what streams | live events, polls, fetches of a settled turn, the watchdog, `sendMessage`, abort | three sources of the same messages race; the ref and the state of the selection differ | no message in a foreign conversation, the journal in the end |
| Conversation list (`App.tsx`) | snapshot, selection, busy marker | create, rename, delete, remove a project | optimistic changes that are undone | the list is the daemon's, what is selected is listed |
| Composer and feed (`workspace-preview.tsx`, `draft-store.ts`, `action-chain.tsx`) | draft, attachments, store of drafts, sends under way | type, attach, send, steer, slash commands, switch | one effect moves drafts while files are read and sends wait | a text goes where it was typed, moving keeps drafts |
| Window and navigation (`App.tsx`, `lib/view-route.ts`) | view, modes, history, local storage | go, back, create, change the mode, reload | effects run after the render | state, storage and history agree |
| Theme (`lib/theme-manager.ts`, `general-tab.tsx`, `ipc_handlers.rs`) | what two windows show, local storage, a file | choose, save, echo, reload | one change arrives twice, an old save reverts it | windows show what is stored |
| Panels (`panels/`, `dialogs/`, `settings/tabs/`, `lib/`) | a copy of git's status, models, extensions, market, memory, personal memories, goals, settings, tasks, account, status data, suggestions | load, change, load again | answers late, out of order, failed in part; busy markers | the copy follows what is stored, no marker stays on, the detail is that of what is selected |
| Island (`components/IslandApp.tsx`, `system_ops.rs`) | a small window on one run | events, loads, resizing | echoes of its own resizing, timers | it says what the run does |
| Gateway server, homepage, chat surface | | | separate programs, or rendered by nothing | |

How they interact. The UI sends an operation through the shell over the socket;
`ipc.rs` spawns a handler per request, which calls the supervisor or `app_ops.rs`. A
prompt goes through the supervisor to the session manager, which spawns `run_turn`;
the turn writes to the session's journal and sends events on a broadcast channel,
from which the supervisor, the shell (and so the UI) and `execute_turn` read. The
scheduler's loop polls the table `tasks` every 5 s and spawns `execute_task_run`,
which opens a session of its own, prompts it and watches its events.
`execute_through_gateway` passes the guards, reserves budget, calls the injected
dispatcher under a timeout and tells budget and breaker how it went. A panel calls,
and the rest of its handler runs when the answer comes, with the values it captured.

The complete list of components with the status of each is in `PROJECT.json`
(`components`), and the list of hazards, each at its line, under `hazards`.

## 2. Modules

| Module | Models | Uses |
|---|---|---|
| `TurnSlot` | what the session manager promises: one slot per session, and a turn that lost it never works again | |
| `EngineSession` | manager, spawned turns, journal, background reviews, crash | implements `TurnSlot` |
| `TurnGuard` | the guard as operators on a record | |
| `AgentTurn` | one call of `run_turn` | `TurnGuard` |
| `CircuitBreaker` | the breaker as operators on a record | |
| `ExecutionGateway` | `execute` with budget and breaker | `CircuitBreaker` |
| `TaskScheduler` | tasks, runs, tokens, loop | |
| `SupervisorSessions` | the supervisor's map of sessions, `instances.json`, late titles, restart | |
| `ConversationView` | the transcript view, with the daemon and the shell as it meets them | |
| `DaemonLink` | `call` of `api.ts` and the shell's `DaemonClient` | |
| `Composer` | drafts, attachments, sends, the following of the feed | |
| `Panel` | what panels have in common: clicks, calls under way, answers, what is settled | |
| `GitSurface`, `ModelsTab`, `ExtensionsTab`, `ExtensionsMarket`, `MemorySurface`, `PersonalTab`, `QuickSave`, `FilePreview`, `GoalsSurface`, `CloudSession`, `ConversationList`, `SettingsTabs`, `TasksSurface`, `Island`, `ConversationData`, `ActionCards`, `Feed`, `Navigation`, `Theme`, `Sentinel` | a panel, or something of the shape of one, each | `Panel` |
| `WorkPanels`, `AppPanels`, `Surfaces` | all of these, one at a time: the panels about the user's work, those about the app, the rest with the specification | the panels, `Composer`, `DaemonLink` |
| `MC*` | values of constants for TLC | |
| `EngineSessionProofs`, `ExecutionGatewayProofs`, `TaskSchedulerProofs`, `SupervisorSessionsProofs` | theorems about the module of that name | |
| `TurnProofs` | theorems about `AgentTurn` and `ConversationView` | |
| `DesktopProofs`, `PanelProofs`, `SurfacesProofs` | theorems about `DaemonLink` and `Composer`, and the panels of `WorkPanels`; the panels of `AppPanels`; the rest, and all together | |

In every module a decision of the code that can be got wrong is an operator of its
own (`Superseded`, `EntryAfter`, `MayContinue`, `Fits`, `Verdicts` ...). The
operators marked "Variant" before it are the same decision with a plausible bug;
no specification uses them. Put in place of the decision, each one makes the
property it belongs to fail (`mutants` in `PROJECT.json`), which is how we know
that the property depends on that line of code.

**EngineSession.** `active` is the map `active_sessions`, `cancelled` the set of
turns whose token is cancelled, `pc[t]` the await point of turn `t`'s task,
`journal[s]` the file. `DrawTurnId` and `InstallTurn` are the two halves of
`prompt`: the `fetch_add` outside the lock, and everything under it. `InstallTurn`
cancels the token of the turn in the map and overwrites the entry; the old task
lives on. `ReleaseEntry` is the end of the spawned task, with its comparison of turn
ids. `StartTool` and `RequestModel` look at the token where the code does: at the
head of the loop and before each call of a batch. `ToolReturns` does not: a
running tool is not interrupted and its result is written. `JournalFails` is every
append that is propagated by `?`, `TryWrite` every one that is ignored. `Restart`
kills tasks and clears the map; files stay. `Messages` is
`load_raw_history_messages`, which skips the lines that are no messages, and
`History` is `load_history_messages` with `prune_history_messages` at the
granularity of entries. A turn here makes at most `MaxRequests` requests before its
synthesis: how a single turn loops is the next module's subject.

**AgentTurn.** One turn without its neighbours, with everything that steers the
loop: step limit (0 is unlimited), guard, empty completions, reviews, cancellation,
synthesis. The context is kept as far as a provider judges it: how many calls
of the last assistant message lack a result, and whether something was put between
calls and results. `EndBatch` injects the notices that were held back while the
batch ran. `Cancel` may happen at any moment. Fingerprints of calls are model
values; the normalisation that makes them is abstracted to their equality.
`Level` in `TurnGuard` keeps the order of `record`: a repetition notice takes
precedence over a threshold and postpones it to the next call.

**ExecutionGateway.** Each lock taken in `execute` is a step: `Admit` (guards,
with the side effect of `state()`), `Reserve`, `Meter`/`Release`, and
`RecordSuccess`/`RecordFailure`. Between them other requests run. `HangUp` is
`abort_all` on the client's connection, which drops the future inside the dispatcher,
and with it the code that would have settled the reservation. Requests without a
timeout, and writing requests without the user's confirmation, are rejected before
anything changes and are left out.

**TaskScheduler.** Rows of both tables, the map `active_runs` and the tokens.
`trigger_task` and `execute_task_run` each make a token, and each inserts it in the
map by a spawned task (`pending`, `Register`), so `active_runs` may hold either,
or a token inserted after the run is over. `held` is the one the run watches. `CancelToken`
and `RecordCancel` are the two halves of `cancel_run`, `Unregister` and
`RecordOutcome` those of `complete_run`, `ResumeTask` and `FinishResuming` the two
writes of `set_task_paused(false)`. Time is abstracted to whether `next_run_at` is
NULL, ahead, or due. The session in which a run executes its turn is external: it
ends, and it ends early when the watched token is cancelled. `create_task` refuses
nothing: a schedule is a time (`once`), an expression that always has a next time
(`cron`), or one that has none from some moment on (`lapsing`: its years are over, it
cannot be parsed, its kind is unknown), so `NextAfter` is a set. The writes that end a run
may fail, and the code goes on without them: `unwritten` holds the runs whose outcome never
reached their row.

**SupervisorSessions.** `sessions` is the map, `instances` the file, `journal[s]`
whether `<s>.jsonl` exists and yields a title. The mutex of the map is held by one
task across an await only in `save_records`, between `CollectRecords` and
`WriteRecords` or `FailToWrite`; every other use is one step that needs `lock =
NoTask`. A task is a call of a client or of a scheduled run (`Caller`), the listener
for `session_renamed`, or the save that follows a start; `pc` names the await at which it
stands. `Call` and the operations that use it are the first step of a request,
`Configure` and `SetName` the change under the lock, `LookForName`, `PublishTitle` and
`SendPrompt` the rest of a prompt. `set_model` changes and saves twice, as
`send_rpc` and then `handle_request` do. `HangUp` drops a call at any await and gives
its lock back. `Restart` is the loss of everything in memory followed by
`Supervisor::new`. A name is known by its origin only; `cwd` and model are one
field, `settings`, that is as created, changed, or what a journal alone gives.
The three history variables say what the properties must not claim: `unrecorded`
(sessions changed by a task that was cut off before it saved, or that never saves),
`gone` (deletions that were answered) and `firm` (names given while no prompt was
making a title).

**ConversationView.** The daemon's side is external: per conversation a journal
that only grows (`stored`), a turn that emits its events in order, aborts, and a shell
that forwards events and drops what it cannot keep up with. The view's side is
`App.tsx`: what is shown, the cache per conversation, the optimistic copy of a
message just sent, what is taken to be streaming, and the difference between the
selection on the screen and `selectedInstanceIdRef`, at which handlers look. `get_conversation`
reads the journal first (`Reads`, `ipc_handlers.rs:743`) and asks for the running flag
later (`Serve`, `:865`): between the two a turn may begin, write or end, so an old journal
may come with "not running". Its answer is applied some time after that. `DaemonAccepts`
sets the session's entry; the spawned task stores the user's message later (`TurnOpens`) or
fails before it does (`TurnFailsToBegin`). `sendMessage` asks for nothing, so a message may
be sent while a turn runs, and replaces it; `busy` is its mark. An initial state may have a
conversation that another client is running (the second branch of `Init`). Not
followed: the cache written by a poll whose effect was disposed, `streamConnected`
and `watchConversation`, `turnProgress`, a reload of the page, the fallback after
`DAEMON_SILENCE`, a poll that fails, extension dialogs (nothing produces
`extension_ui_request`).

**Composer.** `key` is the conversation whose draft is on the screen, `ref` is
`selectedInstanceIdRef`, `creating` counts the creations under way and `running` stands for
`isWorking`. `Select` sets key and ref, `ListMoves` the key alone (a refresh, a deletion),
`Created` both, wherever the user has gone. Steering and follow-ups go to `Target`, the ref's
conversation if there is one; `sent.astray` records that this was not the key's. Nothing
keeps a second steer or follow-up from going out beside the first.

**DaemonLink.** A request is a call and the number of its attempt. The write lock makes
opening, writing and the reader's clean-up one step each; a call passes
`connect`, `register`, `write` and waits, so the clean-up may empty the table
between registration and writing. `stop` and `restart_daemon` set the desired state,
which the supervisor's two steps read and act on.

**Panel and the panels.** A component's state is the record `ui`, its backend's the
record `stored`. A click (`Clicks`, `Turns`) sends calls of which at most `MaxCalls`
are under way; the backend carries one out (`Serves`) or it fails (`Fails`) before it
was; and the rest of the handler (`Goes`) runs later, with what it captured. Others
change what is stored (`ChangedElsewhere`). A handler's name, and the shell's
command, are the operators' names. Identical calls under way count as one.
What a panel must show cannot be said of moments at which a call is on its way or
two calls overlapped, so the history variable `clean` holds the parts of the copy
that, since a load that nothing overlapped, no two calls touched at the same time
and no failure spoiled; `Settled(p)` adds that nothing touches `p` now. The claim
`InStep` is then: a settled part shows what is stored. It fails when a handler forgets
to reload, reloads too early, applies an answer to the wrong thing, or undoes too much. A
list that is asked for by a filter or a workspace carries whose it is (`of`): it shows what is
stored for that one, which is the selected one unless its answer came late (`late`).
Where the handlers are known to leave the copy as it is, the step says that it spoils the part,
and nothing is claimed until the part is loaded again. These ways are: deleting a memory does not load an open
archive again; the reviewer's settings that failed and the probe of the models' form; keeping a message
that failed; the card that is reloaded before its dismissal is known; a profile that could not be saved; a
commit or synchronisation that git refused; a form of the settings that came without settings, that left a
text out or whose save failed; a theme whose save failed, or loaded while earlier events were still to come;
a rename that failed; a snapshot that lacks the tasks; what the island takes from an event
before it asks; an answer that is not heard because it is not of the ref's conversation.
The three panels whose answers are compared with `selectedInstanceIdRef` (`ConversationData`,
`ExtensionsTab`, and `Composer` for what it sends) have that ref, and `lagged` says that the
list has moved the selection away from it. `ConversationList` starts with a kept snapshot and a
kept selection that need not agree; `sure` says that a refresh has been applied and that
neither the shell nor `onReload` has undone it since.
Each panel has its own `Init`, `Next`, `InStep` and, where it has markers or details,
`BusyMeansCalling` and `DetailMatches`. What each leaves out stands in its header. A few things
that a reader may look for and not find: Auto-Pilot is unreachable
(`ipc_handlers.rs:2830-2930` are stubs), and so are `TodayBriefingHero` and the
today tab that would show it.

**Surfaces** runs the panels, the composer and the link one at a time: `panel` says
which one a behaviour is about. They share no state with each other but what the modules
name themselves, and a product would only multiply their states. How many calls and
clicks each panel has is a constant (`CallsOf`, `ClicksOf`, at most `MostCalls` and
`MostClicks`); the values for TLC stand in `MCSurfaces`. A handler is enabled only where
the screen offers what starts it: a row that is listed, a form that is open, a button
that is not disabled (`ShowsAccount`, `ShowsForm`, `Rows`, `Card`, `LocalSlash` ...).
The instances are split over three modules because a proof is the slower the more of
them are in sight.

## 3. Runs

| Run | Instance | States | Checks |
|---|---|---|---|
| `engine_session` | 1 session whose journal holds a finished turn, 2 overlapping turns, batches of 1, 1 request and a synthesis, 1 crash or `set_model`, history pruned to 1 user turn | 556 k | type, `LiveTurnIsReachable`, `IdleMeansSettled`, `CancelledTurnWritesOnce`, `InterleavedTurnsWereCancelled`, `UndisturbedHistoryIsWellFormed`, refinement `SlotSpec`, `EntriesAreGivenBack` |
| `engine_session_history` | 1 session, 2 turns, the code's pruning | violated | `HistoryIsWellFormed` |
| `agent_turn` | batches of up to 3, 2 fingerprints, budget 6 with thresholds 2 and 4, 3 steps or unlimited, 2 retries of each kind | 77 k | type, `RequestsAreAnswered`, `NoSilentEnd`, `WarningsOnTime`, `TurnEnds` |
| `agent_turn_budget` | the same | violated | `BudgetIsHard` |
| `execution_gateway` | 5 requests (interchangeable), breaker degraded at 1 and open at 2 failures, 2 probes, limit of 3 estimates, reports below and above the estimate | 122 k | type, `FailuresMatchState`, `OverrunIsAllThatExceeds`, `ReservationsAreSettled` |
| `task_scheduler` | 1 task of each kind of schedule, 1 run, scheduled or manual, 1 cancellation, 1 restart | 101 k | type, `RunningIsExecuted`, `ReachedIsCancelled`, `CompletedByRunOrResumption`, `RunsEnd`, `DueTasksAreRun` |
| `task_scheduler_once` | 1 task, 2 scheduled runs | violated | `OnceRunsOnce` |
| `supervisor_sessions` | 1 session, 2 callers who between them make every call, 1 generated title, 1 refused save, 1 restart | 64 k | type, `SavedOrBeingSaved`, `DeletedIsGone`, `GivenNameIsKept`, `RestartKeepsSessions`, `CallsEnd`, `TitlesAreTaken` |
| `supervisor_sessions_deletion` | 1 session, a creation, a prompt and a deletion | violated | `DeletionIsPermanent` |
| `conversation_view` | 2 conversations, one with a past, 1 message whose turn has a text of 1 delta and in one of the two a tool call, queue of 1, 1 request between its two reads, 1 disturbance | 524 k | type, `ViewsShowTheirJournal`, `ViewCatchesUp` |
| `conversation_view_disconnect` | the same | violated | `DisconnectEndsRun` |
| `surfaces` | every panel with 1 to 3 calls under way and 2 to 7 clicks; the composer with 2 calls (sends, reads, creations), 1 attachment, 1 edit or turn of the wheel, 1 move; the link with 3 calls, 1 retry, 2 connections | 2.7 M | type, `InStep`, `BusyMeansCalling`, `DetailMatches`, `TextGoesWhereItWasTyped`, `CarriedOutOnce`, `MovingKeepsDrafts` |

The states of `surfaces` by panel, in thousands: git 55, models 133, extensions 59, market 8,
memory 59, personal 23, save 61, preview 19, goals 40, account 333, list 103,
settings 26, tasks 106, today 52, data 54, island 67, feed 84, sentinel 320,
navigation 11, theme 173, composer 615, link 320.

**Why the bounds are enough.** Sessions of the manager share nothing but the
counter, so one session with two turns shows every interference of turns (the third
turn only meets the second as the second met the first). A batch of one can already be cut
between the call and its result; one of three is the smallest that overruns the turn's
budget by two. Thresholds of the guard and of the breaker are scaled down but keep
their order, and budget and batch are chosen so that one batch crosses two thresholds
at once. Five requests suffice to open the breaker, cool it down and probe
it twice while an older request is still running. Two scheduled runs of one task
are what it takes to see it run twice; one run, cancelled or resumed or cut off by
a restart, meets every other writer of its rows. Sessions of the supervisor share the
lock and the file only, and every save writes all of them: one session shows each
order of changes and saves, and two saves that overlap besides the listener's and
the one at start are all that can meet there. A view can confuse two
conversations and no more; one delta already arrives twice or not at all, one message
replaces the turn that another client started, and one request between its two reads meets every
step of a turn (the watchdog's request reads at once; it is its flag and its view that can be late). A panel needs
two calls that overlap, so that answers cross, and a click or a change from outside
in between. The same panels were also checked alone with more: git, extensions, goals, list,
settings, tasks, suggestions and memory with 3 calls and 3 clicks (up to 4.4 M states), status data
with 3 and 4 (355 k), navigation with 2 and 4, the theme with 3 and 2 and with 2 and 3 (4.0 M): no
property failed. The safety properties proved in section 5 do not depend on the bounds at all.

`CHECK_DEADLOCK FALSE` stands in every configuration because behaviours are finite
there: when all turns, requests, clicks or runs have been used and users do nothing more,
the system really stops.

**Fairness.** `EngineSession`: weak fairness of each turn's task (`TurnStep(t)`). The
runtime polls every task; a request ends by the client's 300 s timeout, a tool by
its own timeout. `AgentTurn`: the same for its only task. `TaskScheduler`: weak
fairness of the loop and of each run's execution; a turn of a run ends by its
600 s timeout. `SupervisorSessions`: weak fairness of each task (`TaskStep(t)`). That
is enough only because each call makes one change and then ends, so the lock is
free for good at some time; the code's mutex is fair (first come, first served)
anyway. `ConversationView`: weak fairness of what is under way (turns, events, calls), of
the polling, which an interval repeats while a run is marked, and of the watchdog,
another interval. Nothing is assumed of users, clocks, reviews, the insertions of tokens,
lost events or crashes. `ExecutionGateway` and the panels have no fairness and no
liveness property: a client may hang up at any time, and that a marker goes off is
stated of states without calls.

Some properties are proved and no run repeats them: `EntryHasRunningTurn`,
`OvershootIsBounded`, `FollowsTheDiagram`, `SpentStaysSpent`,
`CancelledOnRequest` and `AnsweredMeansDone` (section 5). TLC checked each
of them before it was proved.

## 4. What the checks found

Five runs have the expectation "violation": each checks one sentence of the
repository's own documents, comments or texts for the user against what the code does.

- `engine_session_history`: cancelling a turn inside a batch leaves tool calls
  without results in the journal (`agent_loop.rs:584`). `load_history_messages` does
  not repair this, so the next prompts send a history that, as the comment at
  `agent_loop.rs:591` says, the provider rejects with 400.
  `UndisturbedHistoryIsWellFormed` shows the converse: without cancellation, error,
  crash or late critique, the history is well formed however it is pruned.
- `agent_turn_budget`: the tool budget is checked between batches only and is overrun
  by up to a batch less one; `OvershootIsBounded` is what does hold.
- `task_scheduler_once`: the schedule of a task is advanced when its run is over, so
  the loop starts a task that is still running again every 5 s; for a task of kind
  `once` this contradicts its name.
- `supervisor_sessions_deletion`: a deleted conversation keeps its journal, and the next
  start discovers it and lists it again, although the dialog promises that it is gone
  for good together with its messages. `DeletedIsGone` shows what does hold: as long
  as the daemon lives, no late title, rename or save brings it back.
- `conversation_view_disconnect`: the shell reports a lost daemon for the session `*`,
  and the guard of the handler (`App.tsx:656`) drops events of any session but the
  selected one, so the run stays marked until a poll or the watchdog finds out.
  `ViewCatchesUp` shows that one of these does.

The properties of the other runs hold, some only because they say what the code does
rather than what one would like. What was met on the way, all of it in the
models, none of it contradicted by a text of the repository unless quoted:

*Daemon.* A gateway request that costs more than its reservation is charged in full, so
the limit can be exceeded; `OverrunIsAllThatExceeds` says exactly by how much. An
`in_memory` session that was prompted has a journal too and joins the list after a
restart. A daemon handler that fails by `?` sends no answer; its caller waits for 60 s.
`create_task` takes any schedule: an expression that cannot be parsed (`compute_next_run`,
`openpi-scheduler/src/lib.rs:105`) makes an active task without a next time that never runs. A
run whose last write fails keeps the row "running" (`task_runner.rs:75,95,144`). A rename
between the two locks of a prompt is overwritten by the title (`supervisor.rs:651`).

*Sentinel.* Reads are recorded before the tool runs, so a failed or denied read lets a
later blind write pass; the set of files read survives `session_start`, though the comment at
`sentinel.js:496` says "in this session"; a confirmation that throws lets the tool run;
a denied command stays in the history and ends a row of equal ones; a blocked mutation
resets the probe counter; the map of the repository may be marked as given in a session
that never got it; `/rollback` restores to the index only, drops the user's own changes and
reports success though git failed; a subagent without an answer reports success;
`search_replace` expands `$` patterns; paths are resolved without the session's directory.

*Link.* A request that the clean-up declared lost before it was written may still be carried out on
the next connection; the supervisor decides and connects in two steps, so a deliberate
stop can be undone by it, and by any active request (`daemon_client.rs` tests near 430 say
that it must stay stopped); stopping a stopped daemon starts it. Calls whose answers are
lost are reported as failed though carried out, or carried out twice when they may be
retried (`run_task` and `create_task` are among these).

*The ref.* A refresh or a deletion moves the selection and leaves `selectedInstanceIdRef` behind
(`App.tsx:350`, `:2096`). Until the user selects again, the loading marks of models and capabilities stay on
(`:1400`, `:1444`), the answer for what is selected is dropped and another conversation's models are
offered (`:1392`), and a steer or follow-up goes to the conversation that was left (`:1834`, `:1846`).
The selection kept from the last session need not be in the kept list (`:111`, `:160`); the shell
selects any id (`:2065`), and `onReload` replaces the list without the selection (`:2488`).

*Composer and feed.* A send that returns empties whatever draft is shown by then. A steer without
a target empties the composer though nothing was sent. Documents are emptied with a steer that
did not take them. The draft of a deleted conversation is forgotten, and put away again when the selection
leaves it. `addFiles` measures the room before it reads, so two readings together may exceed the limit. The late
result of an aborted turn can fill the row of a newer call of the same tool; both of two such
calls show as running, queued ones of another tool as interrupted; a retry after an
abort resends the unanswered message under an older answer.

*Navigation and theme.* A creation that ends takes the user to it wherever he went, and sets the agent's
mode but not the app's; the stored agent mode never survives a start; effects that have not run
at a reload are lost. "system" always resolves to light, though `theme-manager.ts:155` and
`index.html:38` say otherwise; a mode that looks like the present one is not stored; every save of
the settings sends the file's theme again; `GeneralTab.handleSave` writes back all it
loaded, so toggling a switch after choosing a theme reverts the theme; two saves at once can lose one.

*Panels.* The goals of a filter and the memory of a workspace that was left stay on the screen when their
answer comes last (`goals-surface.tsx:42`, `App.tsx:2254`). A commit that staged everything and failed leaves the list as it was. The settings' forms
write back everything they loaded; a blank proxy or persona is never cleared; the security tab can save
its defaults while its load is under way; a switch whose save failed keeps showing the choice. Form
texts of goals and personal memories typed while a save is under way are cleared. The dialog that keeps a message
closes and loses its text when saving fails. The preview keeps the old text under the new path's load. A
removed repository still filters the market. A log is shown under whatever run is selected by then;
starting and stopping the daemon count as done when they failed. A suggestion is executed and filed in
two calls: when the second fails it is offered again. `removeSelectedProject` rolls nothing back. Two looks at a
session in its last minute refresh it twice with one token, which revokes it. Status data of the earlier
conversation stays until the new comes. An echo of its own resizing can collapse an expanded
island, two in flight flip it for ever, and the timer after a task hides it while a turn runs.

## 5. Proofs

Each proof is by an inductive invariant. The step that preserves it has one case per
action, and a lemma for each group of actions that writes the same variables. All
theorems hold for every value of the constants that satisfies the assumptions named
in the modules; the complete list is in `PROJECT.json`.

**`EngineSessionProofs`.** `TypeOK` alone is not inductive: a result is written with
`owed - 1`, so one needs that a batch is owed while a turn is in `tools` or `exec`
(`BatchIsOwed`), and `active`'s turn must have a session (`Addressed`). `IInv` is
the conjunction of

- `TypeInv`: these three;
- `SlotInv`: `LiveTurnIsReachable`, `EntryHasRunningTurn` and that a cancelled turn had
  been installed. The first is preserved by `InstallTurn` only because it cancels the turn in
  the entry, by `ReleaseEntry` only because of the comparison of turn ids;
- `LateInv`: a turn that has written a line after its cancellation is past the phases
  that lead to a line, and only the checks of the token could bring it back to them;
- `SettleInv`: a turn past its end has settled, killed ones apart;
- `TraceInv`: of two turns that are neither cancelled nor killed, the one that still
  runs has all its lines behind those of the other (it was alone in the map), which is
  what keeps `InterleavedTurnsWereCancelled` true.

`ManagerImplementsSlot` proves that every step of `EngineSession` is a step of
`TurnSlot` or a stutter, under the mapping at the end of `EngineSession`: the slot is
held by the turn in the map while its token is not cancelled. It needs `SlotInv`:
a turn that may continue is the one in the map.

`UndisturbedHistoriesAreSent` is about what a prompt sends to the model, journals of any
length and a history pruned anywhere. It adds `HistoryInv` to `IInv`:

- `JournalInv`: among the messages of turns that nothing disturbed, calls are
  followed by their results and results belong to a call; a batch that is still open
  belongs to the one turn at work in the session and lacks as many results as that
  turn owes;
- `BatchInv`: the same from the side of the turn;
- `LoadInv`: what a turn loaded is still a prefix of the journal, and nothing in it
  was open, since the turn was alone at work when it loaded (`IInv`).

`Messages`, which leaves out the lines that are not messages, is a recursive function.
What is used of it (its type, what it makes of an appended line) is not proved by
the library's induction but from the existence of a table of partial results,
by the smallest length without one. Pruning cuts before a user's message, and a suffix
that begins there is well formed (`SuffixIsWellFormed`). The theorem's hypothesis is
that the journals left by earlier runs are well formed, which
`MCEngineSession`'s `PastIsWellFormed` evaluates for those of the run.

**`TurnProofs`, the turn.** `TurnInv` is `TurnTypeOK` with `CountersInv` (the counters are below
their limits wherever they can still grow), `CallsInv` (what is left of a batch is
exactly what lacks a result, and only a cancelled turn leaves some behind),
`BudgetInv` (a batch starts below the limit), `EndInv` (the loop is left with an
answer, or with a reason for a summary) and `Warned(guard)` (a threshold may be
overdue only at the very call that a repetition notice has just taken, and its
cooldown keeps the next call free). From it follow `RequestsAreAnswered`,
`NoSilentEnd`, `WarningsOnTime` and `OvershootIsBounded`.

**`TurnProofs`, the view.** `ViewInv` is `DaemonInv`, `WayInv` and `ScreenInv`: the
events, polls and answers under way, the view on the screen and every cached one are
made of messages that the journal of their conversation has, or of the text of the
running turn; and a journal only grows, so a late answer stays within it
(`OwnGrows`, `GoodStaysGood`). `CommitInv` says the same of the state that a handler
hands over, whichever handler it is. From it follow the type of the state and
`ViewsShowTheirJournal`.

**`ExecutionGatewayProofs`.** `Agree(breaker)` relates counter and state: it holds of
every breaker that any order of `state`, `record_success` and `record_failure` can
produce, and gives `FailuresMatchState` and `FollowsTheDiagram`. `ReservationsAreSettled` is
inductive with `TypeOK`. `LimitHolds` is about two sums, over what is reserved and over
what was charged beyond its estimate, which are folds over sets. `LimitInv` says that
both sets are finite and that only a metered request was charged, so each is charged
once. The facts about sums (`TotalFacts`: the empty set, one element more, equal
terms) are again proved from the least cardinality at which they would fail.

**`TaskSchedulerProofs`.** `SchedulerInv` is `TypeOK`, `RunInv` (a triggered run has a task;
only a run executed to its end advances the schedule), `RequestInv` (whatever is cancelled, or
being cancelled, was asked for), `StoppedInv` (a run watches its token until it
decides, one stopped before decides "cancelled", and its row then says nothing
else, but perhaps "running" where no outcome could be written) and `RunningIsExecuted`. The action properties
`CompletedByRunOrResumption` and `SpentStaysSpent` follow step by step.

**`SupervisorSessionsProofs`.** `StoreInv` is the conjunction of `TypeOK`;
`JobInv` (what a task's job can be at its `pc`: the save at start has no session, the
name of a rename is the user's, the name of a prompt's or of an event's is a title);
`LockInv` (who holds the lock is the one task in `saving`, and its `records` are still the
map, because nothing changes the map without the lock); `SavedOrBeingSaved`; `DeletedIsGone`;
and `TitleInv`, which is `GivenNameIsKept` with the fact that no title made from a prompt
is on its way to a firm session. `LockInv` is what makes a save harmless: what it
writes is the map as it is at that moment, so a later save never writes older
records. `TitleInv` is needed because a title in the channel would replace a
name later than the invariant looks. `RestartKeepsSaved` follows step by step.

**`DesktopProofs`, the link.** `OnceInv` strengthens `CarriedOutOnce`: a call that may not be
retried has no second attempt, and nothing was done for it before its request left
the daemon's inbox. `WaitInv` strengthens `NobodyWaitsInVain`: a call about to write
is in the table, or was told that it is not; it is why the window between registration and
writing is harmless. `AnswerInv`: whatever is on its way back was carried out.

**`DesktopProofs`, the composer.** `DraftInv` says what a draft is, `TextInv` that each draft, shown
or put away, holds only text typed under its own key, and `TextGoesWhereItWasTyped`.
`ShowKeepsDrafts` and `ShowKeepsTexts` are the one idea of the component (the draft left is
put away as it is, under the key it has), used by every action that moves.
`MovingKeepsDrafts` follows step by step. Assumed is that the key of the draft
without a conversation is no conversation's. `ComposerIs` is the type of the composer
as the steps need it. The number of attachments is not part of it: readings that overlap, or a
draft with attachments that is brought out beneath one, may exceed `MaxAttachments`.

**`DesktopProofs`, `PanelProofs`, `SurfacesProofs`: the panels.** What TLC checks of the panels
with two or three calls is proved here for any number of clicks and calls and any
data. `Base` says that calls have the form of calls and that clicks are counted. Every panel
has an invariant of its own, `GitOf`, `ModelsOf`, `MemoryOf` ..., about the record on the
screen and the calls under way:

- each marker stands only while a call is under way whose end takes it away. This is more
  than `BusyMeansCalling`, which speaks of states without calls, and it is what a step
  needs: a call that ends may take its marker with it, or another's, but must not leave one that
  only it would have taken away. Which calls these are is the panel's secret: `ModelsMarks`,
  `CloudMarks`, `ListMarks`, `TasksMarks` and `TodayMarks` say it where one operation serves
  several markers. A form of the settings is left while its calls are under way; what keeps
  their answers from the next form's marks is the number `n` of the visit (`SettingsOf`), and
  the first tab of the memory view has the same with `mount` (`PersonalOf`);
- a detail, or its call, belongs to what is selected: `GitOf` says of each difference under
  way that it was asked for the selected entry, and of its answer that it is that
  entry's; `PreviewOf` that each read is of the path on the screen; `DataOf` that what is
  shown has the present key unless the ref was left behind; `ListOf` that who is selected is
  listed once a refresh was applied.

These are invariants up to `Twin`: a step of `Panel` rewrites the other calls under way (each
loses the parts that the new one touches), which no marker looks at. `Follows` and `Moves`
say so once, `TurnMoves` and its like prove it of `Panel`'s operators, and the lemmas
about a panel's handlers cite these. For the panels without markers (market, feed, sentinel,
navigation, theme, island) `Base` is enough. `ShownInv` puts them together, and from it follow
`SurfacesTypeCorrect`, `IndicatorsEnd` and `DetailsMatch`. Assumed of the constants is what
they mean: a bound for each panel below the common one (`LimitsAssumption`), and that
`None` is none of the values it stands beside (`NoneAssumption`).

## 6. Only model-checked, and not modelled

Only model-checked: all liveness (`EntriesAreGivenBack`, `TurnEnds`, `RunsEnd`, `DueTasksAreRun`,
`CallsEnd`, `TitlesAreTaken`, `ViewCatchesUp`), since the prover does not reason about
fairness and `ENABLED`; and `InStep` of the panels. Its inductive invariant has to say
of every call under way, and of every order in which the answers may be applied, what each part
of the copy on the screen will differ in from what is stored: another relation for each
part of each panel, through `clean`, which is a record of the past. What the
proofs above establish about calls and markers is the first half of it.

Not modelled, among what the daemon does: the bytes of a journal line (two handles
that write at once, a line cut by a crash), the shortening of history by size and
`compact_inflight_messages`, retries of the LLM client, `run_ephemeral_subagent`'s wait for
events, cloud sync, subscriptions and the idle watchdog of a connection, the steps of a
DAG run and the event loop of `execute_turn`. Of the resource budget only the
execution half is modelled: nothing in the repository reserves from the other one;
`force_reset` of the breaker has no caller.
Tools, prompts, parsing of model output, memory scoring and the skill scanner are I/O,
text or numeric heuristics, without an order of events to get wrong. Among what the
desktop does: how anything is drawn, grouped, searched or exported, windows, shortcuts,
speech and media, progress rows and extension dialogs of the transcript, the pruning of
contexts by the sentinel. The notes of the components in `PROJECT.json` say it for each.

## 7. Plan

Done: `TurnSlot` and `EngineSession`, `AgentTurn`, `ExecutionGateway`, `TaskScheduler`,
`SupervisorSessions`, `ConversationView`, `DaemonLink`, `Composer` and the panels, each with
its proofs. Next, most important first:

1. `InStep` as a theorem, panel by panel, beginning with those whose handlers load again
   after every change (goals, tasks): what a load under way has seen, as a function of `clean`.
2. `CloudSync`: two devices and a server, push before pull, watermarks, tombstones,
   failed uploads. Properties: nothing deleted comes back, devices converge when nothing
   changes any more. Theorem: the watermark never passes an entry not yet seen.
3. `SessionJournal`: lines as bytes in flight, several handles, a torn last line, the
   loader's skipping of what it cannot parse; composed with `EngineSession`'s writers.
4. `TaskRunSession`: `TaskScheduler`'s run composed with `EngineSession` by the event
   loop of `execute_turn`, which takes any `agent_settled` of the session for its own.
5. `IpcConnection`: handlers, abort at hang-up, subscriptions and the watchdog.
6. `LlmClient`: retries, cancellation and partial output.
7. `DagPlan`: the topological order as a recursive function against a reference
   definition.
