# A verification project for overcode

overcode supervises many Claude Code agents that run in tmux windows. It is not one
program but a family of processes that share a directory of JSON files: short-lived
CLI commands, hook processes that Claude Code starts inside every agent, a monitor
daemon, a supervisor daemon, a TUI, a web server. There is no broker between them. What
makes the system correct is therefore the file protocols, the order in which each process
reads and writes, and what each process does with a value that has changed since it read
it. Those are the things that unit tests (each process alone, each call mocked) hardly
reach, and the things modelled here.

## Inventory

| component | state it keeps | operations | interacts through |
|---|---|---|---|
| state files (`session_manager.py`, `job_manager.py`) | `sessions.json`, `jobs.json`, flock, `.bak` | `_locked_state`, `_load_state`, `restore_from_backup` | every process |
| archive (`session_manager.py`) | `archive.json` | `delete_session`, `_archive_session`, `list_archived_sessions` | CLI kill/cleanup, daemon, TUI |
| budgets and hierarchy (`session_manager.py`, `cli/budget.py`, `launcher.py`) | `parent_session_id`, `cost_budget_usd`, cost so far | transfer, reclaim, set, re-parent on kill | launcher, `follow_mode`, `list_sessions`, hooks that enforce a budget |
| conversations (`monitor_daemon.py`, `claude_pid.py`, `launcher.py`) | ids an agent owns, the active one, a cache by directory | launch, fork, clear, relaunch, the daemon's sync | Claude's `history.jsonl`, `sessions.json` |
| token counts (`history_reader.py`, `container.py`) | none: read from transcripts | sum the calls of an agent's conversations and subagents | Claude's transcripts, docker, budgets |
| daemon singletons (`pid_utils.py`, `daemon_utils.py`) | `.pid` file, `.lock` flock | acquire, remove, stop, status | monitor daemon, supervisor daemon |
| monitor daemon (`monitor_daemon.py`, `monitor_daemon_core.py`) | last status, time totals, heartbeat sets | tick: ids, stats, heartbeats, detection, time, cost, oversight, publish | sessions.json, tmux, hook files, published state |
| published state (`monitor_daemon_state.py`) | `monitor_daemon_state.json` | save (temp and rename), load, staleness | TUI, web, supervisor, hooks, relay |
| agent life cycle (`launcher.py`, `cli/agent.py`, `follow_mode.py`) | session status, tmux window, report file, oversight fields | launch, fork, report, follow, kill, revive, cleanup, `list_sessions` | daemon, hooks, tmux |
| hooks (`hook_handler.py`, `hook_status_detector.py`) | `hook_state_*.json`, `hook_events_*.jsonl` | write state, append event, rotate, detect status | Claude Code, daemon, TUI |
| polling status detector (`status_detector.py`, `status_patterns.py`, `status_detector_factory.py`) | hash of the last content, mode | thirteen phases over the pane | tmux |
| status history (`status_history.py`) | csv, the rows kept with an offset | append, incremental read, slots | daemon, TUI threads |
| presence (`presence_logger.py`, `PresenceComponent`) | csv, time of the last key in the TUI | sample, infer sleep, publish | daemon, TUI, report of the web page |
| jobs (`job_manager.py`, `job_launcher.py`, `cli/jobs.py`) | `jobs.json`, job windows, exit code files | launch, list, complete, kill, clear | tmux, wrapper shell |
| supervisor daemon (`supervisor_daemon.py`, `supervisor_daemon_core.py`) | daemon claude window, run statistics | launch, wait, kill, count tokens | published state, tmux |
| TUI, list of agents (`tui.py`, `tui_logic.py`, `tui_actions/`) | cached sessions, sorted list, widgets, selection | refresh workers, kill, revive, cleanup, filter, sort | state files |
| TUI, views (`tui.py`, `tui_widgets/`) | zoom flag, modals, a copy of what they edit | open, apply, cancel | tmux |
| TUI, stalls (`tui.py`, `notifier.py`) | when green, when stalled, bells, pending notifications | fetch, apply, ring, coalesce | panes, published state |
| TUI, command bar (`tui_widgets/command_bar.py`, `tui.py`) | mode, target, posted messages | send, orders, value, annotation, budget, fork, heartbeat | launcher, sisters |
| TUI, windows and panes (`tui.py`, `implementations.py`) | panes held for 30 seconds, window in the bottom pane, ssh windows | select, capture, open, clean up | tmux |
| summariser (`summarizer_component.py`, `summarizer_client.py`) | summaries, hashes, cost | overlapping rounds, cap, idle pause | tmux, a paid model |
| sisters (`sister_poller.py`, `sister_controller.py`, `web_server.py`) | per-host cache and status | slow poll, focused poll, control requests, optimistic updates | web server of another host |
| web server process (`web_server_runner.py`, `web_server.py`) | `.pid` and `.port` files | start on a free port, stop, toggle | TUI, CLI |
| split layout (`cli/split.py`) | lock file, tmux windows and panes | set up, repair, exec, uninstall | tmux |
| input to panes (`tmux_utils.py`, `tmux_manager.py`, `launcher.py`) | tmux's paste buffer, copy mode | paste, type, answer the startup dialogs | every sender |
| relay (`cloudflare-relay/src/index.js`) | last pushed snapshot | push, view | monitor daemon |
| usage, export, configuration, doctor | snapshots, small files | fetch, write, read | a user |

How the parts interact, in one paragraph. The CLI writes sessions into `sessions.json` and
types a Claude command line into a tmux window. Claude starts `hook-handler` at each of its
own events; the hook leaves the last event in a small file. Every two seconds the monitor
daemon reads the sessions, the panes or hook files and Claude's transcripts, decides a
status for each agent, sends heartbeats, adds up time, tokens and cost, enforces oversight
timeouts, writes what must last back into `sessions.json` and publishes the rest in
`monitor_daemon_state.json`. The TUI, the web server and the supervisor daemon read that
file; the TUI starts a monitor daemon that it does not find, and shows the agents of other
hosts as their web servers tell them. The supervisor runs a Claude of its own while agents
need attention. `overcode follow`, in a parent agent, waits for a child's report.
`list_sessions`, called by the TUI's refresh and by most CLI commands, repairs statuses as a
side effect. Nothing else synchronises any two of these: a `flock` per state file, the `.pid`
files, and what each wrote last. Inside the TUI worker threads fetch and the UI thread applies;
a worker that is replaced cannot be stopped, so its answer may come after a newer one.

What makes each part correct, and the property that says so:

| part | promise | property |
|---|---|---|
| state files | an update that returned is not lost, a reader does not go back; torn text is not silently replaced; nobody waits for a dead process | `ImplementsRegistry`, `TornFileIsKept`, `EveryUpdateEnds` |
| archive | a session is in one place | `OnePlace` |
| budgets | transfers and refunds create no money; a limit is lost only by way of 0 | `NoBudgetMinted`, `LimitLostOnlyAtZero` |
| conversations | one owner each among the agents of a tmux session; the one that is known is the one that goes on | `OneOwner`, `ActiveCatchesUp` |
| token counts | each call once, for its own agent | `TokensAreTrue` |
| daemon singletons | one of each kind, named by its file | `OneDaemonIsSeen` |
| heartbeats | as often as asked, never into a turn the daemon knows of, always to an agent that waits | `NoHeartbeatStorm`, `NoHeartbeatIntoKnownTurn`, `IdleIsPrompted` |
| time totals | what is shown counts each second once | `ShownAddsUp` |
| timelines | a slot shows what the file said at some moment of the read | `TimelineIsTrue` |
| presence | a recent row is right about the user | `PresenceIsTrue` |
| oversight | "done" and the exit code of `follow` have a cause, a report under the child's name or a deadline; waiting ends, and a report wins in the end | `DoneHasACause`, `ExitCodeIsTrue`, `OversightEnds` |
| jobs | a failure or a kill on record is real; an end is noticed | `RecordIsTrue`, `EndIsSeen` |
| supervisor | one Claude of its own, each transcript counted once; agents in need are attended to | `OneClaudeCountedOnce`, `AttentionIsPaid` |
| hooks | rest is seen | `RestIsSeen` |
| polling detector | who rests does not flash green, who works only if the pane changed or a long one is read at another depth; a standstill is seen | `NoFlash`, `StandstillIsSeen` |
| TUI | x kills only what it was pressed for twice; lists, captures and panes catch up; a line reaches its agent; each stall is told, once; a dialog leaves no trace | `KilledOnSecondPress`, `ListCatchesUp`, `CaptureCatchesUp`, `FocusIsShown`, `LineReachesItsAgent`, `StallsAreToldOnce`, `DialogsLeaveNoTrace` |
| summariser | spending passes the cap by a known amount only; the summary catches up | `SummariesCatchUpWithinCap` |
| sisters | what is shown of another host catches up; an outage removes nobody | `ShownCatchesUp`, `OutageHidesNobody` |
| web server | the one that runs can be found | `ServerIsNamed` |
| split layout | an undisturbed run leaves one layout | `OneLayout` |
| input to panes | a text that nothing disturbed arrives whole | `UndisturbedTextArrives` |

## Modules

Each module has the shape VARIABLES, one action per step of the code, Init, Next, a
specification and its properties. The unit of a step is what other processes or threads can
see: one system call in StateFile, PidLock, SplitLayout and WebServer, one tmux command in
PaneInput, one message or call to the UI thread in the modules of the TUI, elsewhere one locked update of
`sessions.json` or `jobs.json` (StateFile shows that it is one), together with the reads since
the last one where nothing can tell them apart. What was read earlier and is used later is a
variable of its own (`local`, `arg`, `snap`, `list[l].next`, `answer`): most of the hazards are about
those. `PROJECT.json` maps each definition to its lines. An operator whose comment begins with
"Mutant" is not part of a specification: it is a plausible bug in the definition after it,
used to see that a property would notice.

| module | code | state and actions |
|---|---|---|
| SessionRegistry | the promise of `SessionManager` | an atomic dictionary: `Update`, `Load` |
| StateFile | `_locked_state`, `_load_state`, `restore_from_backup` | content of the file (missing, empty, torn, JSON, or pieces of a dump and a copy), the exclusive lock, each process's position. `Open` ... `Unlock` are the statements of one update; `Crash` and `DumpFails` may strike between any two. `FindMissing` ... `Reread` are the statements of a read; a restore empties the file (`RestoreOpens`), then copies (`RestoreCopies`) or fails, all without the lock |
| AgentTree | `launch`, `launch_fork`, `kill_session`, `transfer_budget`, `reclaim_budget`, `cli/budget.py`, the daemon's cost sync | parents, budgets, costs, and what each command in progress has read. A launch is `LaunchBegin`, `LaunchCreate`, `LaunchAdopt`, then `LaunchGrant`, `LaunchTransfer` or `LaunchUndo`; a cascade kill lists the descendants first and removes one per step |
| SessionArchive | `delete_session`, `_archive_session`, `_save_archive` | registry, archive, and each process's session in hand; a death between the removal, the load and the rename |
| Conversations | `sync_session_id`, `claude_pid.py`, launch, fork, restart, `/clear` | who began each conversation, the tmux session of each agent and what its record says; for each tmux session a daemon, its cache by directory and its pass in steps; which prompts the last 64 KB hold |
| TokenCounts | `get_session_stats` and what it calls | the calls in each file with their times, copies, what is recorded; local time is a constant |
| Summariser | `SummarizerComponent`, the TUI's rounds around it | hashes, due times, the calls of each round, switches |
| PidLock | `acquire_daemon_lock`, `remove_pid_file`, `is_daemon_lock_held`, `stop_process` | the flock, the `.pid` file (missing, blank, a pid), pids that die and are reused |
| SupervisorDaemon | `supervisor_daemon.py`, `supervisor_daemon_core.py` | the loop's phase, the daemon claude's window, statistics in memory and on disk. One action per stage: clean up, read and decide, create window, start up, prompt, record, poll, kill, count, sync, save |
| Oversight | `follow_mode.py`, `list_sessions`, `cli/agent.py` report/revive/kill, the daemon's detection and enforcement | status, window, last hook event, report file, deadline of one child, the event and the report that an earlier agent of its name left; position and copies of each follower, lister, the daemon's tick, the reporter |
| SplitLayout | `cli/split.py` | the setup lock, windows, panes and what runs in them, each run's position |
| WebServer | `web_server_runner.py`, `web_server.py`, `action_toggle_web_server` | processes, ports, the two files, the step of the one call |
| JobLifecycle | `job_manager.py`, `job_launcher.py`, `cli/jobs.py` | one job's record, tmux window, wrapper script, exit code file, and each process that lists or kills it |
| HookState | `hook_handler.py`, `hook_status_detector.py` | record and event log, each hook process's copy, the one temporary file, what the detector shows |
| MonitorStatus | `status_constants.py` | which statuses are green |
| Heartbeat | `check_and_send_heartbeats`, the tick around it, settings in CLI, TUI and web | the agent, what pane or hook shows of it, its settings, the tick's copy, what the daemon remembers |
| TimeTracking | `_update_state_time`, `calculate_time_accumulation`, `get_current_state_times` | a clock that may be set back, totals on disk, anchors in memory |
| Timeline | `status_history.py`, `build_timeline_slots` | rows of the file, those kept with offset and scope, each thread between its look at the size and the lock |
| Presence | `presence_logger.py`, `PresenceComponent`, `write_tui_heartbeat` | ages instead of times: of input, keys, sleep, each logger's last row; the last row and what is published |
| PaneInput | `tmux_utils.py`, `TmuxManager`, `_wait_for_prompt`, `send_key_to_agent` | what is typed into each pane, copy mode and the look at it that may fail, the dialogs, the one paste buffer, each call's position |
| PollingDetector | `status_detector.py`, `status_patterns.py`, the dispatcher | the kinds of lines of a pane, what is drawn below, the selection and with it the depth of the capture, the remembered hash; each phase an operator |
| Sisters | `sister_poller.py`, `sister_controller.py`, `web_control_api.py` | truth there, published, queue of the server, answers under way, what is shown |
| TuiSessions | `tui.py` refresh, `tui_actions/session.py`, `tui_logic.py` | registry and windows, answers of workers, list, widgets, selection, ghosts, the pending x |
| TuiView | modals, help, jobs and sister views of `tui.py` | zoom, open dialogs, columns saved and shown, messages |
| TuiStalls | `_update_statuses`, `_apply_status_results`, `notifier.py` | class of pane and daemon, stall ages, bell, notified, pending |
| TuiCommands | `command_bar.py`, handlers in `tui.py` | mode, target, the text typed, posted messages, agents and names |
| BottomPane | `implementations.py`, `_focus_tmux_window` and the ssh windows of `tui.py` | windows by name, panes held, window selected and placeholder, per TUI |

The theorems and their proofs are in modules of their own: StateFileProofs, ReachProofs (TuiCommands,
Sisters, PollingDetector), RegistryProofs (AgentTree, SessionArchive, Conversations, TokenCounts, Summariser), DaemonProofs
(PidLock, SupervisorDaemon, Oversight, WebServer, SplitLayout), MonitorProofs (Heartbeat, Presence, PaneInput, Timeline,
TimeTracking), TuiProofs (TuiSessions, TuiView, TuiStalls, BottomPane), FrontProofs (JobLifecycle, HookState),
and SumTheorems (sums over finite sets, maxima and minima).
The MC modules give the constants values. Each puts modules that share no variable beside each
other: a variable `part`, chosen in the initial state, says which of them moves, and the
fairness of a module is required only in its own behaviours. Letting them interleave would
multiply their states and show nothing that the parts do not.

Where components meet, one module holds both sides: HookState the hook processes and the
detector, Oversight the child, its parent's `follow`, the listers and the daemon, Sisters the
daemon, the server, the network and the TUI, Summariser the component and the TUI's timers.
SessionRegistry is the abstract specification that StateFile implements (`ImplementsRegistry`,
checked and proved).

## Runs

| run | parts and their size | distinct states | properties |
|---|---|---|---|
| `front` | state file: 3 writers, 1 reader, no fault; job: 2 listers, 2 failures; hooks: 3 events of 2 processes, a log rotated over 2 lines; agent list: 3 agents (one a child), 2 workers, 1 event from outside, 2 keys; views: 2 decisions waiting; stalls: 4 changes of class; bottom pane: 2 TUIs, 1 agent here, 1 elsewhere, 3 windows | 428 760 | `TypesOK`, `RecordIsTrue`, `DialogsLeaveNoTrace`, `FocusIsShown`; `ImplementsRegistry`, `EndIsSeen`, `RestIsSeen`, `KilledOnSecondPress`, `ListCatchesUp`, `StallsAreToldOnce`, `CaptureCatchesUp` |
| `reach` | state file: the same with 2 faults and perhaps a `.bak` of an older release; command bar: 3 agents, two of one name, one elsewhere, 3 keys; sisters: 2 pollers, 1 control call, 1 outage; detector: panes of 3 lines, 4 moves | 763 435 | `LineReachesItsAgent`; `TornFileIsKept`, `EveryUpdateEnds`, `ShownCatchesUp`, `OutageHidesNobody`, `NoFlash`, `StandstillIsSeen` |
| `registry` | hierarchy: 2 agents and 2 commands, or 3 agents and 1 command, amounts 0 to 2; archive: 3 sessions, 3 processes, 2 faults; conversations: 2 agents of one directory, in one tmux session or two, 3 conversations (2 in two tmux sessions, or beside prompts elsewhere), 2 prompts, 1 restart, of which the tail holds 1; tokens: 2 agents, 3 calls, 2 files; summariser: 2 rounds, cap 1, 2 pauses | 1 182 774 | `NoBudgetMinted`, `OnePlace`, `OneOwner`, `TokensAreTrue`; `LimitLostOnlyAtZero`, `ActiveCatchesUp`, `SummariesCatchUpWithinCap` |
| `daemons` | lock: 3 pids, 2 probes, 2 stops, 1 reused pid; supervisor: 3 runs, 3 faults; oversight: 1 follower, 1 lister, the daemon, 1 report, 1 revival, the three policies, and under one of them what an earlier agent left; split: 3 runs, 2 windows, 2 upsets; web: 3 servers, 2 ports, 2 mishaps | 1 380 731 | `OneDaemonIsSeen`, `OneClaudeCountedOnce`, `ExitCodeIsTrue`, `ServerIsNamed`; `OneLayout`, `AttentionIsPaid`, `DoneHasACause`, `OversightEnds` |
| `monitor` | heartbeats: clock 0..2, frequency 1, 1 stop, 1 resume, both modes; time: clock 0..4, set back once, 2 restarts; timeline: 2 threads, 3 rows; input: 2 calls, 1 window opened twice, 1 scroll, closing or failure of tmux; presence: a daemon's logger and one by hand | 2 605 193 | `NoHeartbeatStorm`, `ShownAddsUp`, `TimelineIsTrue`, `UndisturbedTextArrives`, `PresenceIsTrue`; `NoHeartbeatIntoKnownTurn`, `IdleIsPrompted` |
| `registry_limit` | hierarchy | violation | `LimitIsKept`: a refund or a transfer makes a limited agent unlimited |
| `registry_adopted` | conversations | violation | `OnlyOwnConversations`: an agent is given a conversation that another one began |
| `registry_tokens` | tokens, local time one hour behind UTC | violation | `NoTokenIsLost`: a call after the start is taken for one before it |
| `oversight_follow` | oversight, policy wait, polling | violation | `FollowHearsReport`: a follower whose child's window closed after the report waits for ever |
| `split_refused` | split | violation | `RefusedWhileSettingUp`: a run is refused because of a client that is attached |
| `jobs_success` | job without failures | violation | `SuccessIsReal`: a job that has not begun is recorded as completed |
| `heartbeat_shell` | heartbeats, no stop | violation | `TerminatedGetsNoHeartbeat`: a heartbeat is typed into the shell of a terminated agent |

Deadlock is not checked: in every run the system may come to rest (the updates are made,
the job is cleared, the clock is at its bound). What must not stop is stated as liveness.
Some properties exempt a case in which they fail, and say so: `NoFlash` when the selection moves on or off an
agent that works and whose pane is longer than the shallow capture, `OneOwner` between agents of two tmux sessions,
`DoneHasACause` and `ExitCodeIsTrue` for the report of an earlier agent of the child's name,
`ActiveCatchesUp` for a prompt that is no more in the last 64 KB, `OneLayout` once a run has
removed a live run's lock, `ServerIsNamed` once a start was overtaken, `FocusIsShown` once two
TUIs opened one ssh window at once, `TokensAreTrue` in containers and away from Greenwich,
`UndisturbedTextArrives` for calls that met another, `StandstillIsSeen` for lines that read like
work, `AttentionIsPaid` for a lost prompt. Each of these cases is under "Where code and documentation differ".

**Bounds, and why they are enough.** Interference here is between two processes that use
what they read, and a third that changes it: three writers show a lock that is handed over
twice; three pids, a daemon that runs, one that starts and one that is reused;
two stops, a stop that acts on what another did. Two commands over two agents
show each pair of commands that meet on an agent (a transfer against a refund, a kill
against a launch); three agents under one command show chains, which a cascade lists and a
removed parent breaks. Amounts 0, 1, 2 tell nothing, part and all of a budget apart.
`MaxDepth` is 3 where the code has 5; no chain of three agents reaches it, and no property is
about it. `MaxRetries` is 2 where the code has 5: one failure that is retried, one that is the
last. One job is enough because no step relates two of them; properties
about two of a kind (names of jobs) are not claimed. Two children meet only in the files of a name that is used again:
the run starts the child beside nothing, beside a Stop event and a reported failure, or beside a SessionEnd and a
file that is cut short (with a success left over the exit code 0 would be excused from the start). A `follow`
that was begun for the earlier agent and goes on with the later one is left out. Under the policy with a
timeout Claude exits only during a turn there (`LeavesAtWork`). A heartbeat every second over a clock of
two seconds has the three instants "first", "due again" and "too early"; the time totals need
four seconds so that a step back in the clock can fall before, at and after an observation.
Two workers of a group are as many answers as can be out of order; three agents in a list, one of
them a child, are enough to re-sort, to filter the selected one out and to take a
descendant along. Three conversations of two agents: one each, and one whose owner is not known; two daemons meet
over two already, without a restart, and two are enough beside prompts elsewhere (`InTwo`). A tail of one prompt, and a prompt elsewhere, push the only prompt of an agent out of sight. Two
threads of the history file with different scopes are what the TUI has. A pane of three lines
holds a line that outweighs, one that is outweighed and one that leaves the tail; `Tail100 = 3` stands for
the tail of 100 lines. In Presence a sample, the idle threshold and the freshness of a key are one
tick each, as in the code, where each is 60 seconds; a loop of the daemon and its gap of 20 seconds are also
one tick each there, so the ratio between samples and loops is not kept (no property compares
them); ages are counted up to what some comparison tells apart, so that part has no bound in time.

**Fairness and why the code justifies it.**

- StateFile: a process between two system calls goes on. Nobody must begin an update; no crash must happen.
- PidLock: a `stop` goes on (it polls with a timeout); daemons and probes need not.
- Oversight: time passes (`DeadlinePasses`), the daemon loops, a follower polls twice a
  second, the TUI's refresh timer calls `list_sessions`. Nothing is assumed of the child,
  its window or a human. The violation run has even strong fairness for the follower: it fails not
  because the follower is slow.
- JobLifecycle: `launch` and the wrapper go on, time passes, the TUI lists the jobs on a timer. The command may run for ever.
- Heartbeat: the TUI starts a monitor daemon that it finds missing, the daemon loops, and
  the end of a turn shows (the pane changes, Claude Code runs its Stop hook). An Escape runs no hook: no such event is assumed.
- SupervisorDaemon: the loop goes on, the wait for a run has a timeout, a missing window is
  noticed, Claude gets to its prompt and ends its turn.
- HookState: a hook process that began goes on, the log ages, the detector looks again and again.
- TuiSessions, TuiStalls, BottomPane: the timers of the TUI fire and its threads' answers are
  applied; panes held are dropped after their 30 seconds. Keys, clicks and other processes are never assumed.
- Conversations: each daemon's pass goes on and comes again, over the agents of its tmux session. Nobody must prompt, clear or fork.
- Summariser: rounds go on, the two intervals pass; a call may fail each time the bound allows.
- Sisters: pollers go on, the server serves while it is up, the daemon there publishes while it
  runs, a call ends (by its timeout if by nothing else).
- PollingDetector: each mode's detector is asked again (the daemon's loop, the TUI's timer).

AgentTree, SessionArchive, TokenCounts, TimeTracking, Timeline, Presence, PaneInput, TuiView, TuiCommands,
SplitLayout and WebServer are about safety only.

**Assumptions about the environment.** A `flock` belongs to an open file and ends with its
process. The 30 seconds of grace in `job_launcher.py:136` are longer than a launch, and than
the time between the snapshot `list_jobs` takes and its look at the window. One supervisor
per `~/.overcode`; a killed Claude writes no more to its transcript; the marks by which the
supervisor recognises a working or finished Claude are there when it is one. Detection from
the text of a pane is taken to be right in Heartbeat and Oversight but for being late (what the
text can do is PollingDetector). Claude asks its startup dialogs one at a time; the lines of a
pasted piece do not submit; a pid of a web server or of a run of `overcode tmux` is not used again.
On a loaded machine a row of a presence logger is at most one sample late, and a loop of the daemon
at most its gap of 20 seconds. `PresenceIsTrue` rests on that: docker calls for agents in containers and a slow push to the
relay, several in one loop, can make it later, and the daemon then publishes a sleep that was none.
TokenCounts takes a conversation as one agent's: what two agents of two tmux sessions count twice is not in `TokensAreTrue`.

## Proofs

TLC shows a property on small instances; these theorems show it for every value of the
constants, from the named assumptions on them only. Modules that share no variable share a
proof module; what is proved of each is proved of its own specification. Most of the properties
are not inductive; the invariant that is says what every process in the middle of something
may rely on. TLC checked the invariants on small instances before they were proved. The refinement
and the token counts apart, no theorem has a hypothesis.

- **StateFileProofs**: `FileTypeCorrect`, `UpdatesSurvive` (NoLostUpdate), `ReadsAdvance`
  (ReadsNeverGoBack), `RegistryImplemented` (ImplementsRegistry: the refinement, under
  `MaxFaults = 0` and no legacy backup), `TornKept` (TornFileIsKept, with faults of any number).
  NoLostUpdate says nothing of a
  writer that has parsed and not yet written. The invariant `FileProtocolInv` adds that the lock belongs
  to the one writer between load and unlock (`LockInv`), what the file and that writer's copy
  are at each of its steps (`FileInv`), and that the committed dictionary holds exactly the
  updates of the writers past their dump and everything any reader saw (`DataInv`); the last
  two only while nothing has gone wrong. In the refinement `Committed` is the parsed copy while
  the file is being rewritten, so the end of the dump is the abstract update, and all else but
  loads stutters. `TornInv`, for torn files: who has loaded or just truncated the file does not look at a torn one. Only a reader
that found a backup restores (`RestoringInv`), so in the refinement nobody does; with a backup a restore may empty
the file or mix its copy with a dump, and TornFileIsKept allows just that.
- **ReachProofs, command bar**: `LineArrives` (LineReachesItsAgent). Every message that waits is
  `Honest`: of the kind and for the agent that the label named when it was made; the bar that
  asks for the name of a fork has an agent to fork.
- **ReachProofs, sisters**: `NobodyHidden` (OutageHidesNobody). Each list on its way, published, known,
  shown, or in the hands of a thread, is `Faithful`: it lacks only agents that some published list
  lacked; the answer about one agent is never "gone".
- **ReachProofs, polling**: `NobodyFlashes` (NoFlash). As long as nothing but the bar has touched the pane, what
  the detector remembers is the hash of what it would capture at the depth of its last look (`RemembersPane`): lines of
  the bar are left out of the hash (`HashIgnoresBar`), and the bar's ticks move no other line
  into or out of the capture (`BarMoves`). At the other depth the hash is the same if the shallow capture holds the pane (`ShortPane`).
  What is left is an agent at work with a long pane, which is excused; one at rest shows a dialog, a shell or a prompt at
  either depth (`AtRest`), and these are asked before the change of content is.
- **RegistryProofs, hierarchy**: `TreeTypeOK`, `BudgetsConserved` (NoBudgetMinted),
  `LimitsLostOnlyAtZero` (LimitLostOnlyAtZero), for a finite set of agents. NoBudgetMinted is inductive together with
  the types; the proof is arithmetic of sums: a transfer takes from one summand what it adds
  to another, and clean-up leaves some out. That no more is handed out than the bound allows,
  a type, needs what the commands in progress may still hand out (`Afforded`).
- **RegistryProofs, archive**: `OneRecord` (OnePlace). Who holds a session has removed it from the registry, no two hold
  one (`ArchiveInv`); as long as no two archived at once, who saves has read the archive
  as it is (`Sequential`).
- **RegistryProofs, conversations**: `ConversationsKept` (OneOwner), for any number of tmux sessions with a daemon each. Ids that are
  recorded, cached or about to be bound are of conversations that have begun (`IdsBegun`, so a new one is nobody's), and
  what a daemon is about to bind to an agent is no other agent's of that tmux session (`Exclusive`); a daemon touches only
  the agents of its own, so the daemons' steps do not disturb each other (`GoodBinding`, `OneDaemonSteps`).
- **RegistryProofs, tokens**: `TokensCounted` (TokensAreTrue), under `Offset = 0`: elsewhere the code counts otherwise
  (NoTokenIsLost). No two agents have a conversation in common (`FilesApart`), so what one agent's call
  adds to a file adds to one sum; a conversation without a prompt is the copy a fork began with, and
  holds of the calls since its start those the source made before the copy (`Beginnings`). Both are needed for the
  inductive equation, `BooksOf`: the recent calls in an agent's files, added up, are its calls and those copied.
- **RegistryProofs, summariser**: `CapHolds` (SpendingIsBounded, the safety half of SummariesCatchUpWithinCap). A round has two calls
  to make at most; what was spent and what the rounds under way can still spend, added up, is within the bound (`SpendingInv`).
- **DaemonProofs, supervisor**: `ClaudeCounted` (OneClaudeCountedOnce). There is one window at most and transcripts are read only when no
  Claude works on (`SupLoop`); statistics, in memory and on disk, are the sum of the tokens of
  the runs they list, and a run that may still use tokens is not listed (`SupBooks`).
- **DaemonProofs, oversight**: `ExitCodesTrue` (ExitCodeIsTrue), `DoneOnlyWithCause` (DoneHasACause). What each follower,
  lister and the daemon has read and will act on is true of the child, and the cause of what it is about
  to write exists (`FollowerTrue`, `ListerTrue`, `DaemonTrue`); causes never go away. A report is a cause whether the
  child made it or an earlier agent of its name (`Reported`), since the code cannot tell; the theorems hold from
  every event and report that may have been left over.
- **DaemonProofs, web server**: `ServerFound` (ServerIsNamed). Unless a start was overtaken (`lost`), one process at most lives, the files
  name it from its first write on, and a stop that is about to remove them has seen it end (`WebNamed`).
- **DaemonProofs, split layout**: `LayoutIsOne` (OneLayout). Unless a live run lost its lock, the run that sets up is the
  one the lock file names (`LockHeld`), so there is one split window at most, and none when one is about
  to be created (`OneWindow`); what a run has found or made still stands at its next step, if nothing
  disturbed it (`LayoutStands`).
- **DaemonProofs, daemon lock**: `PidTypeCorrect`, `Singleton` (OneDaemon), `SeenUntilSwept` (RunningIsSeen),
  and both as `DaemonIsSeen` (OneDaemonIsSeen, which the run checks). The invariant is
  `HolderInside`: whoever is past flock has the lock. For RunningIsSeen one adds that between
  truncate and write the `.pid` file is blank or was removed.
- **MonitorProofs, heartbeats**: `HeartbeatsPaced` (NoHeartbeatStorm), `KnownTurnUndisturbed` (NoHeartbeatIntoKnownTurn). A heartbeat that is
  about to be sent is paid for by the time since the last one in the tick's copy, which may be older
  than the record on disk (`PacedInv`); a turn the daemon knows of was green at its last look (`TurnIsGreen`).
- **MonitorProofs, presence**: `PresenceTrue` (PresenceIsTrue). Each row and what is published is right *by now*: with its age
  it stays right of a user whose last input, key and sleep age with it (`RightAt`, `TickKeeps`);
  a loop or a logger that comes late was held up by a sleep that the next row sees.
- **MonitorProofs, input**: `TextArrives` (UndisturbedTextArrives). A call that nothing has disturbed is the only one under way, its
  pane takes what it is about to send (it has left copy mode, unless a command of tmux failed, which counts as a disturbance),
  what it has sent is the end of the line, and the buffer
  holds the next piece (`Steady`, `Ready`, `Arriving`).
- **MonitorProofs, timelines**: `TimelineTrue` (TimelineIsTrue). Unless a read of the end failed, what is kept `Covers` the first n
  rows of the file, for an n not below the size looked at: it has every row in scope, none that is not in the
  file, and after each entry the later rows again. Filtering and reading on keep that (`SinceCovers`, `TailCovers`), although rows may be there
  twice and the size may be looked at too early; slots filled from entries that cover n rows are those of the n rows
  (`SlotsTrue`), since what is carried forward is determined (`CarriedOnce`).
- **MonitorProofs, time totals**: `TimeTypeCorrect`, `CountsOnce` (EverySecondOnce), `ShownIsExact`
  (ShownAddsUp). The invariant adds that memory and file agree on up to when time was
  counted; a lemma shows that the cap at the uptime never changes a total.
- **FrontProofs, jobs**: `JobTypeCorrect`, `TrueRecord` (RecordIsTrue) from `NoInventedFailure`
  (FailureIsReal) and `NoUnaskedKill` (KilledIsAsked). The invariant follows the exit code 1
  through its copies (file, each lister's, record) back to the command (`CodeInv`), and says why
  a lister about to write "killed" is right (`KillInv`), which needs that past the grace period
  the record and each lister's copy agree on whether there is a window (`NameInv`).
- **FrontProofs, hooks**: `RestRecorded` (RestIsRecorded, the safety half of RestIsSeen) and `HookTypeCorrect`, for any number of
  hooks. The hook of a prompt, or of the end of a turn, runs alone, so what it writes stays until the next turn, however the
  hooks of parallel tools mixed their writes before (`TurnInv`). The log passes its limit by one line for each
  hook that is about to rotate it or finds that another has, and by no more (`LogInv`).
- **TuiProofs, list**: `TuiTypeCorrect` and `AnswerIsShown` (the step half of ListCatchesUp). An agent's lineage is a finite
  climb (`ClimbEnds`); on the agents whose lineages are listed "is walked before" is a total order (`StandsIs`), so a row in that
  order exists and has each of them once (`RowExists`, `SortedIs`): `sort_sessions` loses and doubles none of those it reaches.
  The filters keep that (`KeptSelects`), and the index stays one the widgets can have, over any keys and answers (`UpdateTyped`).
- **TuiProofs, views**: `NoTraceLeft` (DialogsLeaveNoTrace). Columns differ from those saved only while their modal is open or a
  decision of it waits (`ViewInv`).
- **TuiProofs, x**: `KilledOnlyAsked` (KilledOnSecondPress). What waits for a second press is what the last press of its kind
  was for (`PressInv`).
- **TuiProofs, stalls**: `NobodyNags` (NoNagging, the safety half of StallsAreToldOnce). While the agent is green the age the TUI
  counts is the one that says what it saw, and without a span of work since a notification it still is in
  `_notified_stalls` (`NotNagged`).
- **TuiProofs, bottom pane**: `FocusKept` (FocusIsShown). Windows open in order, an agent elsewhere has one window and none while
  a TUI is about to open it (`OneProxy`), and a calm TUI shows its agent's (`ShowsFocus`); the
  names of agents and placeholder differ (`BottomPaneAssumption`: "name-1a2b", "ssh:host:name", "oc-empty").
- **Types**: where a module states the types of its variables, that they are kept is a theorem, `...TypeCorrect` or `TreeTypeOK`. Where it bounds something it needs an
  invariant of its own: as many requests wait for a sister's server as there are clients that wait and requests given up
  (`RequestsCounted`); of the lines posted one at most hides the bar (`AgentsTyped`); a tick holds the time of a heartbeat, or a
  status, only between the steps that need it (`HeartbeatTypeCorrect`).
- **All parts together**: `FrontIsSafe`, `ReachIsSafe`, `RegistryIsSafe`, `DaemonsAreSafe`, `MonitorIsSafe` say of the
  specifications that TLC runs what the theorems say of their parts: each part of such a behaviour is one of its own
  specification (`ReachParts` and so on). `TypesCorrect`, `ReachTypesCorrect`, `RegistryTypesCorrect`, `DaemonTypesCorrect` and
  `MonitorTypesCorrect` do so for the types. TLC checks `TypesOK` in the run `front`, and checked it in the others before it was proved.
- **SumTheorems**: sums over finite sets change by what one summand changes (`SumUpdate`), split over a
  union, fall when summands are left out. The library's theorems about sums take the summand as an
  operator, which the provers cannot instantiate; these are about functions, and follow from the
  existence of partial sums along the order in which the fold takes the set.

SelectSeq, too, is a recursive operator that the provers cannot expand, and SetToSortSeq takes its order as an operator. The filters
of Timeline (`Since`) and TuiSessions (`Kept`) are recursive functions, the one of PollingDetector a flattening of kept lines, and
the sort of the agent list a row in order that is chosen; what they compute is shown by a least
counterexample. TLC reaches the same number of states as with the library's.

Two proof attempts changed the model. PresenceIsTrue was true at the ages the run counted up to and
not provable for others, because ages were capped below what a late logger compares: the caps were
enlarged. KilledOnSecondPress was false with three keys: x on A (its kill warning), x on B, which has ended
(its clean-up warning), x on A again within three seconds kills A. The two warnings are kept
apart in the code, so the property now asks for an earlier x *of that kind* on the same agent.

The provers mistranslate some forms of EXCEPT (several updates of one function, an `@` inside another EXCEPT). The
modules with theorems update one element at a time, or a record inside it.

Only model-checked: all liveness (`EndIsSeen`, `RestIsSeen`, `ListCatchesUp`, `CaptureCatchesUp`, `EveryUpdateEnds`,
`ShownCatchesUp`, `StandstillIsSeen`, `ActiveCatchesUp`, `AttentionIsPaid`, `IdleIsPrompted`, and the fair
parts of `OversightEnds`, `StallsAreToldOnce` and `SummariesCatchUpWithinCap`), which is out of reach of the
prover. Of `RestIsSeen`, `ListCatchesUp`, `StallsAreToldOnce` and `SummariesCatchUpWithinCap` the safety half is a theorem. `UpdatesSurvive`,
`ReadsAdvance` and `CountsOnce` have no run of their own: their properties are parts of the
invariants from which the refinement and `ShownIsExact` are proved.

## Where code and documentation differ

The seven violation runs, each with its line, are the findings of `PROJECT.json`:
`LimitIsKept`, `OnlyOwnConversations`, `NoTokenIsLost`, `FollowHearsReport`,
`RefusedWhileSettingUp`, `SuccessIsReal`, `TerminatedGetsNoHeartbeat`. The following was met
while reading and is in the models as the code has it where it is about something modelled,
without a run of its own.

- *State files.* `_locked_state` never calls `_backup_state`, so no `.bak` is ever made
  (`session_manager.py:276`). A reader of a torn file says it is "starting fresh" (line 312) and returns
  no sessions, but nothing starts: every later update raises `StateWriteError`. A reader that restores a `.bak`
  copies it without the lock (`session_manager.py:348`): the copy empties the file first, a writer that looks just then starts
  from no sessions at all, and one that dumps meanwhile is mixed with the copy.
- *Archive.* A death after `session_manager.py:677` and before the archive's rename loses the
  record; so do two processes that archive at once (735 to 737), which the comment at 688 excludes.
- *Hierarchy.* The depth limit is checked before the child is linked, so two launches at once can exceed it
  (`docs/advanced-features.md:159`). A child launched during a cascade kill survives it (`launcher.py:948`).
  A second `reclaim_budget` answers None, not 0. TUI and `budget set` by an operator pass the parent check by.
- *Daemon lock.* `stop_process` removes the `.pid` file of a daemon that started meanwhile, which then is
  reported as not running (`pid_utils.py:309`); a probe takes the lock for a moment, so a
  daemon that starts just then is refused (`pid_utils.py:182`); `daemon_utils.py:59` kills a pid that was reused.
- *Oversight.* `report_<name>.json` and `hook_state_<name>.json` (`follow_mode.py:49`, 69) outlive an agent, and a launch under
  its name does not remove them (`launcher.py:346` to 355). So the child of a reused name is marked done by the next `list_sessions`, and
  its budget goes back to its parent (`launcher.py:876` to 885), and `follow` exits with what the earlier agent reported, before the new
  one has (`OnlyOwnReportCounts` in Oversight states the contrary and fails in TLC). Auto-archive does not stick (`monitor_daemon.py:1357`): with hooks the next tick sees the old Stop
  event again. `list_sessions` marks a child as waiting without a deadline. A
  success that was recorded may be overwritten by a timeout. Revival keeps the old report and Stop event. Ctrl-C
  has no effect while `follow` polls for a report. The refund is also given for a reported failure, and lost
  if the lister dies before it.
- *Jobs.* Of two listers, the second may find the exit code file removed and record a failed
  job as completed. `jobs tail` of a cleared job never ends. After a reboot jobs stay "running" as
  long as there is no tmux session. `kill` before the window has a name records "killed", and the command starts all the same.
- *Heartbeats.* Resume in the TUI clears `last_heartbeat_time` "so next heartbeat is computed from now"
  (`tui_actions/session.py:241`), but without it the heartbeat counts from `start_time`: it is due at once. After an Escape, with
  hooks, there is no heartbeat until the next prompt (`monitor_daemon.py:555`). A sleep in bash, "done" and
  waiting for approval are not green once a heartbeat is configured, so they are prompted
  (compare `monitor_daemon_core.py:71`). Elapsed time goes to the status at the end of the interval.
- *Supervisor.* A startup timeout calls `log.warning`, which its logger does not have: the
  daemon ends (`supervisor_daemon.py:625`; modelled as such). A prompt that was lost leaves an idle Claude that is waited for for ever.
  After a timeout the run goes on but its time is not counted. `supervisor_claude_running` survives
  a death on disk, and the time since is added to a later run. Interventions are never counted:
  the log has `[2026-01-31 12:00:00]` (`daemon_logging.py:46`), which the counter does not parse.
- *Conversations.* "A sessionId already owned by another agent is never stolen" (`monitor_daemon.py:657` to 660), but the guard sees
  only the agents of the daemon's own tmux session (675 to 678, 715 to 718), while `sessions.json` and `history.jsonl` are everybody's: two
  agents of one directory in two tmux sessions may own one conversation, whose tokens both count (`NeverStolen` in
  Conversations states the contrary and fails in TLC). After /clear a prompt is looked for in the last 64 KB of `history.jsonl`
  only (`history_reader.py:405`): where other agents prompt a lot it may be missed. `restart --fresh` drops the old ids, and the daemon gives the agent its old
  conversation back until the first prompt. The cache of ids is keyed by the directory alone.
  The daemon overwrites `session.model`, so the command line of a restart may differ.
- *Tokens.* "Sum tokens from task-*.jsonl" in a docstring, but the code only counts these files. In a
  container the start of the agent and subagents are not regarded, and when docker
  fails the total goes back to what the host has. East of Greenwich calls from before the start are counted.
- *Polling.* The tail that is hashed is taken after bar lines were filtered, so a shallow capture hashes
  fewer lines than a deep one, and the hash changes with the focus, against the comment in
  `_update_content_hash` (`status_detector.py:268` to 271): an agent at work with a long pane that was answered error, sleeping or waiting
  turns running when the selection moves, and nothing in the pane has changed (`SelectionNeverFlashes` in PollingDetector
  states the contrary and fails in TLC). Old lines with "thinking" or "searching" make an idle agent
  running; "permission denied" among the last lines makes a working one wait.
- *TUI.* `_apply_sessions` sorts the list before the selected agent is looked up by its index, so
  the selection can jump (`SelectionIsKept` in TuiSessions states the contrary and fails in TLC). `visited_stalled_agents` is
  saved, and undone at the next start. `_tree_aware_sort` drops an agent whose parent is not
  listed. Ctrl+S in the command bar sends in whatever mode it is; in fork mode to a stale target. A click moves the focus and not the selected index.
- *Captures and windows.* A revived agent reads as empty for up to 30 seconds. The placeholder stays when
  its agent gets a window. A TUI that starts closes the ssh windows of every TUI; two that open
  the same one at once leave two of one name, which no look-up finds. `_count_untracked_windows` calls
  a method that does not exist and always counts 0.
- *Input.* tmux has one paste buffer: two sends at once to different agents can paste each other's text. A text
  and its Enter are separate commands without a lock, so senders merge their lines. Copy mode is
  left only before a paste: keys of `overcode send`, the command bar or the web page typed
  meanwhile are lost and reported as sent. After 30 seconds the prompt of a launch is pasted into whatever dialog is shown.
- *Summariser.* A failed call sets the time stamp as a good one does, and the hash is recorded before
  the calls, so the short summary may stay behind until the pane changes. `A` while paused for idleness resumes first and then switches off.
- *Sisters.* The two polls build ids from different names, so an agent's id flips. `agent_value` is not
  in what is published, so an optimistic value is undone. A request that timed out is carried out later.
- *Timeline.* A read that fails to open the file advances the offset, so rows are missing until a full read.
  The size is read before the lock, so rows may be read twice, which skews the mean spin. The hour
  after daylight saving time ends breaks the binary search. `clear_old_history` is never called.
- *Presence.* A machine that sleeps is recorded as asleep once it wakes: the time asleep counts as
  whatever came before (`web_api.py:745` counts it as away). The published sleep is a gap of 20 seconds
  where its docstring says twice the interval (2 seconds each), so a slow push to the relay and a loop after it come near it, and calls of docker
  beside them pass it.
  Without Quartz the user never is idle. After a logger ends the report uses its last row without limit.
  A range that ends in the past loses rows, since `hours` is counted from now. A logger by hand knows no TUI and writes
  3 beside the daemon's 4; its `.pid` is tested and written without a lock (`presence_logger.py:471`).
- *Split layout.* A second run may remove a lock before the pid is in it, or after another replaced a stale one.
  A stale layout in a session "overcode" takes the user's own windows with it. `--uninstall` takes no lock.
- *Web server.* There is no lock: two starts at once start two servers, and one that takes more than a second is reported
  as failed, after which the next toggle starts a second one on the next port. A failed bind, or a late
  SIGTERM, removes the files of whoever wrote them.
- *Relay.* A push may keep the daemon's loop for 10 seconds, and the TUI takes a state of 7 seconds for
  stale. Its page shows the last push, in which the daemon always runs, so a daemon that died shows as running there.

## Not modelled, and why

`PROJECT.json` lists every component with its reason. In short: text (rendering, columns, prompts,
logs, command lines, web pages, CSV and parquet export), which no property is about;
configuration and small user files that one process reads or writes at a time; diagnostics
without state (doctor, dependencies, sandbox, process resources); the usage fetch, one snapshot and the time of the
last try; the published state, a temporary file renamed by the one holder of the daemon's lock,
whose late or stale readers are in the modules that read it; the relay, one writer that stores the last push. Code
of other programs (tmux, Claude Code, docker, the operating system) appears as what it may do.
On platforms without `fcntl` the code takes no lock; tmux does not run there either.

Within the modelled components some operations are left out, each named in the header of its module:
permission requests among the hooks, the wide layout of the TUI, tags and columns, the
new-agent form, prices and context windows, key bindings and sizes of the split layout,
calls of the web server's start that overlap, the reader's cache of the presence file.

## What is left to prove

Every safety invariant, every type invariant and every action property that a run checks is stated by a
theorem. What is left is liveness, which the prover cannot show: that the lists, the shown statuses, the rounds and the
records catch up under the fairness stated above stays with TLC's bounds.
