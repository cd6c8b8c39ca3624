# A verification project for sinteractive

`sinteractive` starts an interactive Slurm job with a zellij session in it and
keeps supervising that session until the job ends. This directory holds TLA+
models of its concurrent parts, the TLC configurations that check them on small
instances, and theorems about them that TLAPS proves for every value of the
constants. Paths below are relative to the repository; `job.rs`, `launch.rs`,
`ensure.rs`, `events.rs` are in `crates/sint/src/commands/`, `state.rs`,
`worktree.rs` and `squeue.rs` in `crates/sint-core/src/` (`slurm/`), `bundle.rs` and
`zellij_cmd.rs` in `crates/sint/src/`.

To use it: `tlc -config MCJobLoop.cfg JobLoop` checks a model, `tlapm
JobLoopProofs.tla` its proofs. `PROJECT.json` lists the runs, the source lines of
every definition, a mutation of the code that each property rejects, the hazards
and the theorems.

## 1. Inventory

### The processes

| process | where | what it does |
|---|---|---|
| `launch`, `ensure` | login node | finds a session of the same name, `sbatch`, tags the job with a Comment, waits for RUNNING and for the session, cancels on Ctrl-C |
| `__job` (supervisor) | compute node | starts zellij, ticks once a second: countdown, warnings, alive check, other jobs, samples; tears the session down |
| zellij server, status plugin | compute node | the session and its bar; the supervisor pipes status messages to the plugin |
| `RemotePoller` | thread of `__job` | samples the user's other jobs through their own metrics file or `srun` |
| readers | anywhere | `time`, `status`, `list`, `hook`, `events --follow`, `statusline`, `mcp`: read the files, never the supervisor |
| Slurm | controller | the job's state, its end time, its Comment; answers late, differently, or not at all |

They share no memory. They share Slurm's state of a job, and files in the user's
cache directory: `<jobid>.json` (the countdown), `<jobid>.metrics.json`,
`<jobid>.events.ndjson`, `<jobid>.poke`, `quota.json`.

### The components

For each: the state it keeps, what is hard, and what makes it correct. The
last column names the module; "plan" refers to section 5.

| component | state and operations | hard | correct when | module |
|---|---|---|---|---|
| supervisor loop (`JobLoop::step`, `run`) | end time with the stamps of its query and confirmation, write stamp, misses, red phase, event flags; one tick, cut at each call to Slurm or zellij | the limit moves, squeue fails, and seconds pass between two calls of one tick; signals; a lost session | what readers are told is the exact time to an end that Slurm held within a known age; the session is ended in time where its calls return in time, announced, and never on one bad answer | `JobLoop` |
| start of the server (`start_server`) | client, server, ready marker | a client that connects too early makes the server panic | nothing connects early; ready means attachable; a start ends | `ServerStart` |
| state files (`StateDir`, `atomic_write`) | a path and its `.tmp` sibling; write, read, cleanup | crash between two calls, two writers of one path, slow readers | a reader sees one whole version | `AtomicWrite`, `AtomicFile` |
| event log and its follower | the log, `printed`, `state_seen` | appends and removal between the follower's two looks | prints in order and once, stops when and only when the session is over | `EventLog` |
| launch and ensure | place in `bring_up`, `INTERRUPTED` | Ctrl-C hits the child process too; two launches of one name | no job is left behind by a launch that gave it up; duplicates only from a race | `Launch` |
| what launch asks of Slurm (`split_launch_argv`, `flag_value`, `apply_defaults`, `fit`, job limit, times) | none | two command lines in one, spellings of flags, defaults, a maintenance | what the user said is what sbatch takes, and the job ends before the maintenance | `LaunchRequest` |
| other jobs (`refresh_queue`, `poll_remotes`, `reclassify`, `RemotePoller`) | seen jobs, classification, panel, summary, samples in flight | what is known of a job changes while samples of it are in flight; two squeue calls see two queues | departures reported once they happened; panel and summary follow the verdict; nobody's file is overwritten | `QueueMonitor` |
| quota | `quota.json`, what each session holds of it | a cache that every session and `quota check` refresh; daemons that answer in part or not | what a session says of the quota is recent, and a check reaches the sessions that it pokes | `QuotaCache` |
| usage index (`quota reindex`, `quota top`) | totals by directory, links seen | files move under the walk | each byte once, each directory at least its children | `UsageIndex` |
| notices and status messages | the notices current, their file, the pause of the pipe | writes that fail, a plugin that does not answer | the file and the plugin have what is current | `Reports` |
| targets (`resolve_target`, `list`, cancel, status, attach) | none; lookups on a list that ages | a position is resolved against another list than the one read | the job acted on is the one meant | `Targets` |
| CWD column (`list`, `metrics/pane.rs`) | none; three looks at /proc | processes end, pids are given out again | the directory is that of the pane's shell | `PaneCwd` |
| attach (`attach_local.rs`) | clients of a session | list, then detach, while others attach | the newcomer is alone, and no attach hangs | `Attach` |
| exec | pane, wrapper, files of the exit code | the command ends as it is given up | the code is the command's, nothing runs on | `Exec` |
| panes (`send`, `peek`) | none; a listing of panes | focus and titles change; the user types too | the keys go where they were meant | `Panes` |
| job wait (`wait_for_jobs`) | jobs still live | requeued and vanished jobs, failing accounting | ends, with each job's outcome | `JobWait` |
| MCP server, `wait_for_event` | calls, threads; offset in the log | waits, cancelled requests, an upgrade; half written lines, a removed log | quick calls are quick, the first event is the one returned | `McpServer`, `WaitEvent` |
| worktree prune (`inspect`, `classify`, `prune`) | the facts read of a worktree, the verdict on it | a dozen git commands, one after the other, while the user works and merges | no work is lost, merged work does not linger | `Worktree` |
| worktree audit (`resubmit`) | the audit jobs in the queue | audits that end together | one chain of audits, which goes on | `Audit` |
| worktree hooks | directories and branches | several sessions and repositories at once | a session is given its own whole worktree | `WorktreeHooks` |
| scratch directories | directories with a manifest | crash between two steps, work by hand | nothing in use is removed, nothing is left behind | `Scratch` |
| scratch guard | none; a command line | quoting, `cd`, `..` | no bulk data in worktrees, no false alarm | `ShellSplit`, `ScratchGuard` |
| bundle, permissions | extraction directory, `permissions.kdl` | several first starts at once | the bundle used is complete, no grant is lost | `Startup` |
| status plugin | notices, mode, selection, panel and focus, rows | messages, keys and manifests in any order; panes of any size | the display follows what is there; rows fit; clicks hit | `PluginState`, `Panel`, `StatusLine` |
| host metrics | baselines, NVML handle, ticks by pid; cgroup | sources that come and go, pids that are reused | figures cover the time they say; pids and directories are the job's | `HostMetrics`, `JobCgroup` |
| monitor screen | last message, scroll, screen | messages, keys, resizes | the screen is current and says when its data is not | `MonitorScreen` |
| queue listing | three lists and a frame | lists gathered one by one; keys; pane size | each job is in one of them; the frame has no more lines than the pane has rows | `QueueView` |
| Slurm wrappers and parsers | none | failures, retries, rows of steps, separators in names | failure is not absence; columns stay | `SlurmText` |
| Claude Code integration | settings.json, .claude.json, skills | files that others write, earlier installs | nothing is lost, installing twice is installing once | `ClaudeInstall` |
| agent's prompt hook and briefing | none; the state file | an aged file, a moved limit | the time told is what was left of the end last confirmed | `AgentBriefing` |
| config, theme, colours, doctor | texts, options | - | - | not modelled |

### How they interact

`Launch` creates the job in which `__job` runs: it only learns of it through
squeue and one probe over ssh. The supervisor's only outputs are files and pipe
messages; its only inputs are answers of child processes, the poke file and a
signal flag. `events --follow` has to conclude from two files that a process
on another machine has ended. Supervisors of one user meet in `quota.json`, and
in the metrics file of a job when both hold it for theirs; `ours` in `job.rs`
exists to prevent the second.

## 2. The modules

An action's name is the name of its function where the code has one; a
function that calls out is cut at each call, since the environment can act there
and nowhere else matters. A variable named like a Rust field is that field;
variables commented `history` only record what properties talk about. Operators
commented `(mutant)` are plausible bugs, used by no specification: PROJECT.json
names for every property a definition and the mutant that breaks it.

**JobLoop** is the walltime half of `job.rs`: `JobLoop::step` from the alive check
(`CheckAlive`) over the poke and the query that precedes a write (`Refresh`) to
the four endings of a tick (`NoDeadline`, `Calm`, `Red`/`EnterRed`/`NearEnd`) and the
driver's exits (`EndSession`, `LeaveLoop`, `Teardown`). `now` is the tick's copy of
the clock; the environment moves the clock between any two calls, by as much as it
likes. `SendStatus` is the pipe to the plugin: a message is lost, and nobody told, while
the plugin is left alone after a pipe that ran into its two seconds. Answers of
squeue are Slurm's end time of that moment, or nothing. `lastTrue` records for each
end time when Slurm last held it, which is what "honest" is measured by, and `lateAt`
the last second in which the loop was overdue.

**AtomicWrite** is `atomic_write` down to open, two half writes, rename and the
removal on error, on inodes, so that a name can change hands while a descriptor
stays open. **AtomicFile** is what the header of `state.rs` promises: a register.

**EventLog** has the session's side (append, write the state file, `ended`, the two
removals of `cleanup`, or a kill) and the follower's (`Start`, `Read`, `Check`).

**Launch** has any number of launchers, some of them `ensure`. A launcher in a call
can be hit by Ctrl-C, which sets the flag and may also kill the child; before `arm`
and after `disarm` it kills the launcher. `Probe` ends with the last look at the flag, and
`Disarm` is a step of its own, as a Ctrl-C may come between the two. Slurm moves jobs on
its own.

**QueueMonitor** has the loop's share (query, classify, kick, take samples one at a
time), the poller thread with its one-entry request channel, and the cluster:
jobs start, end, are suspended; submitting shells exit, after which only the job's
environment can say whose it was.

**QuotaCache** is the quota half of the loop, for several sessions: `Tick` decides on
the poke, the cadence and the age of the cache (`read_quota`), `Ask` and `Store` are
the probe and the write that follow it; `CheckAsk`, `CheckStore` and `PokeOne` are
`quota check`: `PokeListed` lists the sessions that have a state file, and `PokeFails` is
the poke whose error ends `poke_all`. What daemons say is known by when they were asked.

**Startup** is what a starting session does to shared files: `bundle::ensure`
(`Ensure`, `Extract`, `Install`), `grant_plugin_permissions` (`ReadGrants`,
`WriteGrant`, `RenameGrant`), and zellij's look at the permissions (`Load`).

**Worktree** is one `prune` of one worktree: each command of `inspect` is an action,
then `Classify`, `Remove` and `DeleteBranch`; the user and the remote act between any
two. **Audit** is `resubmit` by audits that are jobs or run in a shell, with Slurm.

**JobWait** is `wait_for_jobs` from the first look to the report, with squeue,
accounting and jobs that are requeued. **Exec** is the remote script of
`exec.rs` line by line and the wrapper that runs in the pane; **Attach** lists,
detaches, sleeps and attaches; **Panes** resolves a pane and types; **Targets** is
the printed list and every way a command resolves its target; **PaneCwd** is the
column of that list that is read from /proc on the node. **ServerStart**
is `start_server` with zellij's client and server as far as `job.rs` says what they do.

**Reports** is the middle of `JobLoop::step`: the set of notices, the file and
`send_status` with its growing pauses. **PluginState** is `state.rs` of the plugin,
a function from messages, keys and ticks to the display; **Panel** is `main.rs`, two
instances with the screen between them, whose events reach them late; **StatusLine**
is `render.rs`, where a text is its number of columns.

**HostMetrics** keeps the baselines of the sampler as ages, **JobCgroup** is
`cgroup.rs`: where the directories are found, the collection of pids step by step,
and the arithmetic. **MonitorScreen** is the monitor: feeder thread, event loop, table.
**QueueView** gathers the lists of `queue`, cuts them to the pane and reads keys.
**UsageIndex** walks a small home directory an entry at a time while it changes.

**McpServer** has the protocol loop and the pool of threads, with one step for what
a command reads (`Read`), one for what it does (`Act`), and places to wait in: for events,
jobs and a command, each with its cap, and for a launch, which has none; **WaitEvent** is `wait_for_event` on a log whose lines arrive in
halves. **AgentBriefing** and **WorktreeHooks** are the hooks of Claude Code,
**ShellSplit** and **ScratchGuard** the hook that reads a Bash command, first
into simple commands and then against the worktrees. **ClaudeInstall** is the
install, each file read, merged, backed up and renamed, with others writing.

**LaunchRequest** is a command line on its way to sbatch, as tokens: which half a
token goes to, what `launch` reads of it, what is put in front and what is replaced.
**SlurmText** is what is read of Slurm: one call with its failures, the rows of an
allocation, the pieces of a row, the number of a job. **Scratch** is `create` and `clean`.

Algorithms without state (`short_path`, `watch_frame`, `cfs_cpus`, ...) are operators
in these modules; their properties quantify over bounded inputs, and are
guarded by one state of the story so that TLC evaluates them once.

**MCUserFiles**, **MCLaunch** and **MCQueueMonitor** put several components together for TLC. The components
of such a module share nothing with each other, so each behaviour is a behaviour of
one of them (`story`), and the states explored are the sum of theirs and not the
product. In the last two the host (`Launch`, `QueueMonitor`) has its own variables
and the others keep theirs in the slots `s1`, `s2`, ..., as many as each has; an
`INSTANCE` per story says which slot is which variable.

The modules talk about disjoint state: the calls of one tick are sequential, so
the loop's walltime half and its queue half interfere in no variable, and what a
session leaves for others is in `JobLoop` the file and in `EventLog` its removal.
`AtomicWrite` is what justifies that `JobLoop` writes a file in one step:
with one writer it implements `AtomicFile`.

`JobLoop` and `EventLog` are checked by themselves: their configurations give the values.

## 3. What the runs check

| run | question and result | instance, and why it is enough |
|---|---|---|
| `jobloop` | Was the end in `<jobid>.json` Slurm's when the file says, for itself (`FileHonest`) and as a reader ages it (`ReaderContract`)? Is a session given up only after a full run of misses, turned red only on a confirmed deadline, ended only near one, only announced, and, where no tick of the grace was overdue, before Slurm would? Does a lost session end the job, and a known deadline, whatever squeue answers later, if no call hangs for ever? Yes | seconds 9 to 13, end times 13 and 15, warning lines at 5 and 4, a grace of 3, `MaxLag` 1: every branch of `step` is taken, the limit moves both ways across the red line and the grace, a pipe that times out costs the messages of two seconds, and files outlive `STALE_AFTER`; 1.4 million states |
| `jobloop_extension` | "an extension inside that window is honoured" (job.rs:899-901)? **No**: `remaining` is computed before the query on red entry, which can confirm an extension; if the second query fails the old value decides | seconds 10 to 19, lines at 6 and 4, `AliveEvery` 2 |
| `jobloop_failed_query` | "Write only on a deadline Slurm just confirmed. A failed query leaves state_written unadvanced" (job.rs:856-860)? **No**, when the last confirmation is exactly `END_MIN_GAP` old. `FileHonest` holds all the same | seconds 10 to 19, lines at 6 and 4, `AliveEvery` 2 |
| `atomic_write_shared` | "reads are atomic" (state.rs:12) with two writers of one path? **No**: `.tmp` has one name, and the second writer truncates what the first publishes | two writers |
| `event_follow_loss` | "whatever was appended last has been printed above" (events.rs:55-56)? **No**: the last events are appended and removed between a read and the look at the state file | no kills needed |
| `user_files`, files | Does `atomic_write` implement a register, with crashes, full disks and a cleanup at any point, and does a slow reader see one version? Yes, with one writer | one writer and one reader, two versions: a reader overlaps any number of writes; four inodes: the file, the one a reader holds, the one the writer holds, and a fresh one |
| `user_files`, events | Does a follower print events in order, once and without a gap, stop only at the end, and stop when it has seen the state file? Yes | up to three events and `ended`, kills included: two unread events at once, and a read before and after each |
| `user_files`, quota | Is a notice less than two cadences and two probes old as long as probes succeed? Does a check's answer reach the notice of every session that it got to poke, unless an older probe was under way? Do notices recover from an outage? Yes | two sessions and a check, a cadence of 2 and probes of up to 1: two probes overlap, a cache becomes stale during one, and any session may have no state file or come after a poke that failed |
| `user_files`, starts | Is a bundle in use whole, whoever extracted it and whoever was killed? Does a start fail or prompt for nothing but another one at the same time? Yes | three starts, two of them with one bundle: the third can act between the steps of the two |
| `user_files`, worktree | Has everything that prune found landed when it removes a worktree? Is only work lost that came after its last look? Is merged work found, fast-forwards included? Yes | two commits, one of which may land without the other; every merge, deletion and edit between any two commands; prunes repeat |
| `user_files`, audits | Does a second chain of audits, or the end of the chain, take a race or a failure? Yes | two audits in shells, three job ids, which are used again |
| `quota_check` | "so the fresh answer reaches their notices on the next tick" (commands/quota.rs:5-6)? **No**: a session's slower probe overwrites the check's answer | as `user_files` |
| `start_prompt` | "so a headless session never waits on the interactive prompt" (zellij_cmd.rs:177-178)? **No**: a grant is lost between another start's read and write | as `user_files` |
| `launch` | Do duplicates of a name need a race? Is a job given up gone? Is a caught Ctrl-C heeded, but for one between the last look and `disarm`? Does Ctrl-C in the pending wait cancel, and does a lost job end the launch, if the calls return? Yes | a `launch` and an `ensure` of one name, one Ctrl-C each, a Slurm whose commands do not fail by themselves |
| `launch_interrupt` | "From here a Ctrl-C cancels the job" (launch.rs:735-736)? **No**: the Ctrl-C also kills `scontrol`, and the error returns before the flag is looked at | one launcher |
| `queue_monitor` | Do panel and summary follow the verdict on each job, are known foreign jobs left alone, and does `job_done` mean done? Yes | one job of this session and one of another's: the verdict on the second changes with its shell, with a sample, or not at all |
| `launch`, job wait | Has each job waited for ended when the answer says so, is each reported once, does the wait end, if its calls return? Yes | two jobs, one of them asked for by name; a squeue that fails and an accounting that never hears of one |
| `launch`, attach | Is the newcomer alone but for those that came after it listed? Does no attach hang, if no zellij command does? Yes | two callers, three client ids, a server that may end |
| `launch`, server | Does nothing connect before the client is done? Does ready mean attachable? Does a start end, if `list-sessions` returns? Yes | four looks, which outlast the client or do not |
| `launch`, status line and panel | Is what is displayed there, does the panel keep its job, does the status line come back? Are beliefs true once all has arrived, is no swap repeated, does the panel get the focus? Yes | two hosts, two notices, two pages; three presses, with up to a swap and manifests from before and after it under way |
| `queue_monitor`, scratch | Is only what has expired removed, is what is new managed, does what was made by hand stay so? Yes | two makers and a cleaner, each killed anywhere |
| `queue_monitor`, job wait; exec; targets; panes | As in `launch`, with both jobs by name; is the code the command's, does nothing run on; is a position, an id or a name that is no number what was meant; are the keys typed there? Yes | two codes, two polls; ids that equal positions and ids that do not, a session whose name is a number; two terminals, two titles |
| `queue_monitor`, reports; metrics; wait event | Is the file right and the plugin told; do figures cover what they say and GPUs come back; is the first event returned and none slept through? Yes | pauses up to three doublings; a pause and an idle time of two samples; two lines, each in two halves |
| `queue_monitor`, split and guard | Does splitting undo quoting? Is bulk data kept out, and nothing else denied? Yes | every sequence of three words of six, quoted in every way; a `cd` and a copy to each of seven places, and files that the editor tools write |
| `queue_monitor`, drawing | Do rows fit, is nothing cut in vain, do clicks hit? Yes | ten widths around each threshold of `render.rs` |
| `queue_monitor`, install | Is nothing lost, is a second install idle, do hooks run, do skills stay? Yes | two binaries of which one is linked and one old, an edit in between |
| `queue_monitor`, request | Do explicit flags win, does the job end before the maintenance, is the end that is told the one asked for, is the limit the request's, do times keep their length? Yes | every pair of flags in each form around the `--` |
| `queue_monitor`, monitor; queue view | Is the screen current, is silence told, is nobody left out, is the source the one meant; is each job shown, do frames fit where their lines do and keys count? Yes | two heights, pages of two; a job that goes through all of its states |
| `queue_monitor`, mcp; briefing; worktrees | Are quick calls quick and is staleness told; is the time told what was left of the end last confirmed; is a worktree whole, of its repository and with its branch? Yes | two calls and two threads, a binary that is replaced or removed; ends that move across the warning, written up to a second after they were confirmed; two askers, two repositories, one commit |
| `queue_monitor`, usage; slurm; cgroup; cwd | Is the index exact, does it add up; is failure told from absence, do columns stay; is the cgroup found and are its pids; is the directory the shell's? Yes | two files that change once; four rows of three allocations; two processes in two steps; three pids and two processes started, so that each pid is used twice |
| `queue_monitor_live` | Is every departure reported, does a job of ours leave nothing behind, and is the metrics file of a running session left alone? Yes | a job that may be suspended or requeued, and a session launched from here |

A property of a run stands for one thing the system owes its user, and is often
the conjunction of several that the modules state one by one, each with its
comment. Each mutant of PROJECT.json breaks one part of a property, and the
properties with many parts have several mutants.

| property | its parts |
|---|---|
| `EndingIsFounded` | `GoneOnlyAfterSilence`, `EndingIsAnnounced` |
| `LoopEnds` | `SessionLossNoticed`, `DeadlineEnds` |
| `FileIsAtomic` | `ImplementsAtomicFile`, `ReadsAreAtomic` |
| `FollowerIsExact` | `PrintsAPrefix`, `StopsOnlyAtTheEnd` |
| `NoticesAreRecent` | `NoticeIsRecent`, `CheckReachesNotices` |
| `StartsAreWhole` | `BundlesAreWhole`, `StartsUnlessCrossed` |
| `PruneLosesNothing` | `OnlyLandedWorkIsRemoved`, `OnlyLaterWorkIsLost`, `MergedIsFound` |
| `ChainIsOne` | `OneChainUnlessRaced`, `ChainGoesOnUnlessMet` |
| `FilesSettle` | `StopsAfterTeardown`, `NoticesRecover` |
| `ClientsDoNotMeet` | attach, server: `NewcomerIsAlone`, `NoProbePanics`, `ReadyMeansAttachable` |
| `DisplayIsTrue` | plugin: `ShownExists`, `BeliefsAreTrue`, `NoSecondSwap` |
| `WaitersAreServed` | `WaitInterruptCancels`, `LostJobEndsTheLaunch`, and that a `job wait`, an attach and a start end |
| `PluginSettles` | plugin: the status line comes back, the panel gets the focus, `KeepsItsJob` |
| `DeparturesAreSettled` | `DepartureIsReported`, `NothingLeftOfOurs` |
| `FilesAreKept` | scratch, install, worktrees |
| `OutcomesAreTrue` | job wait, exec |
| `TargetsAreMeant` | targets, panes, cwd, the source of the monitor |
| `MergesAreRight` | request; install: a second run changes nothing, a hook registered runs |
| `InputIsUnderstood` | split, guard, slurm |
| `FiguresAreTrue` | metrics; cgroup: its processes, its memory, where it is |
| `NewsArrives` | reports, wait event, mcp |
| `ScreensAreTrue` | monitor: what it shows and when; queue view: lists, redraws, keys, frames, hints |
| `ReportsAddUp` | drawing, usage, the path of the briefing, the table of the monitor, the legend of the queue view, the CPUs of the cgroup |
| `StepsAreTrue` | the action properties `ChargesTheUse`, `SkillsStay`, `StalenessIsTold`, `BudgetsAreTrue`, `GivingIsWhole` |

Where a component has a type invariant of its own, it is a part as well.

Bounds, all constants or guards: `MaxClock` (the clock stops, so properties about
time talk of what fits before it), `MaxLag`, `MaxEvents`, `MaxPresses`, `MaxCommits`,
`Inodes`, the sets of jobs, sessions, starts and audits, and for the stories the
constants of their modules, each commented where it is declared; in `QuotaCache` ages
are counted up to `Oldest`, beyond which every property treats them alike. The cadences of `job.rs` are scaled down with their order kept: `Poll`
above `EndMinGap`, `WarnYellow` above `WarnRed` above `Grace`, `AliveMisses`
checks inside the run.

Deadlock is not checked (`CHECK_DEADLOCK FALSE`) where the system stops: the
session is over, the launcher has exited, every job is gone, every start is up.

Timing. No call has a bound: `Advance` moves the clock between any two steps, and of the
calls of a tick, made one after the other, squeue (slurm/mod.rs:68), list-sessions
(job.rs:1533) and pgrep (job.rs:1412) have no timeout, nor have write-chars and
kill-session after it (job.rs:1597-1613). `MaxLag` is not a bound but a line: the loop is
overdue (`OverdueAt`) when more than `MaxLag` seconds have passed since its tick began, all
its calls together, and `lateAt` is the last second in which it was. `EndsBeforeDeadline` says that
a loop which was not overdue in the grace is out before the deadline, under the condition
`Timely`, that the grace and both lines exceed twice `MaxLag`. The default grace is 10
seconds, with lines at 600 and 3600, so this covers ticks of up to 4 seconds; one tick of the
grace that takes longer (a squeue that hangs is enough) may leave the end to Slurm.

One press of Ctrl-C. With two, the second can kill the squeue that asks for the
node after the first was taken note of, or the scancel itself, and
`WaitInterruptCancels` fails: this is how the code is, and no comment promises
more. `Flaky = FALSE` for the same reason: `GivenUpIsGone` needs a scancel that
works, whose outcome the code ignores on purpose.

### Fairness

- `JobLoop`: weak fairness of the clock, and of the tick and of leaving the loop where no
  call without a timeout is waited for (`~InCall`); a pipe has its two seconds, a sleep its
  end. `LoopEnds` has the hypothesis `[]<>~InCall`, that no such call hangs for ever, and its
  parts leave out a loop that was overdue at the end of the model. Nothing is assumed of
  squeue's answers (it may fail on every query but the first that counts), of
  list-sessions' or of the user.
- `EventLog`: the follower polls, and a teardown that has begun is carried
  through unless it is killed; nothing says that the session ends.
- `QuotaCache`: time passes, sessions tick when they are due, and a check that has begun goes
  on. A probe of the quota has a timeout (`ProbeTime`); a session that hangs in another
  call of its tick is not considered, and what it says of the quota ages meanwhile.
  `NoticesRecover` assumes on its left that the daemons answer for good.
- In `MCUserFiles` the fairness of `EventLog` and of `QuotaCache` holds in their story.
  The other parts have safety properties only.
- `Launch`: each launcher takes the steps that wait for no child (`Goes`). Slurm commands
  and ssh have no timeout, and launch's own deadlines are looked at between calls only, so
  what must happen has the hypothesis that the calls return (`[]<>~InCall`). Slurm
  and the user owe nothing: a pending job may be pending for ever.
- `QueueMonitor`: the loop ticks; a due query of the queue succeeds infinitely
  often (strong fairness: a failure is an allowed step, failing or hanging for ever is
  not claimed to be handled); a poll round ends (`REMOTE_TIMEOUT`).

- The stories of `launch`: `job wait`, `attach` and `start_server` (which looks every 200 ms)
  go on where they wait for no child. squeue, sacct and zellij's commands have no timeout, and
  the 30 seconds of `start_server` are looked at between two of them only, so that each
  part of `WaitersAreServed` has its `[]<>~InCall` as a hypothesis. The plugin's timer
  ticks; zellij's screen carries out what was asked and delivers its events. Slurm, users
  and the zellij server itself owe nothing, except that what waits for the user
  (`StatusComesBack`) says so.
- The stories of `queue_monitor` have safety properties only. What must happen in
  time is stated there as safety on a bounded clock: `RedrawsOnTime`, `AnswersInTime`,
  `PluginIsTold`, `GpusComeBack`.

### Divergences found and not given a run

- `ensure` can fail with exit 1 on the name it was asked to ensure: the guard in
  `bring_up` sees the session another process tagged after `existing_session`
  looked (ensure.rs:66, launch.rs:626).
- A Ctrl-C between the last look at the flag (launch.rs:781) and `disarm` (787) is caught
  and ignored: the launch is reported all the same. `CaughtIsNotIgnored` has the exception.
- `wait_for_running` aborts a job in any state but PENDING and RUNNING, so
  CONFIGURING (a node that boots) cancels the job (launch.rs:488).
- A follower of a session that never wrote its state file does not stop when its
  polls miss `ended` (events.rs:53): `StopsAfterTeardown` has `seen` on its left.
- When the squeue behind `session_ids` fails its answer is empty, and until the
  next one sessions count as jobs (squeue.rs:298). `SessionFilesAreTheirs` is about
  answers that arrive.
- A suspended or requeued job is reported by `job_done` (job.rs:572), hence the
  exception in `DoneMeansGone`.

- "N sessions still cost one probe per interval" (job.rs:1386-1388) holds unless two
  find the cache stale at once; and as a session keeps for a cadence what may have
  been in the cache for one, a notice "checked every ten minutes"
  (docs/usage.md:426-427) can be nearly twenty old, which is the bound that
  `NoticeIsRecent` states.
- "pokes every live session so the fresh answer reaches their notices on the next tick"
  (commands/quota.rs:4-6): `poke_all` lists the sessions that have a `<jobid>.json`
  (state.rs:105-110), of which there is none before an end was first confirmed nor ever for a job
  without a limit; it stops at the first poke that fails (state.rs:128-145), and
  commands/quota.rs:32 ignores the error. The sessions left out wait for their own cadence:
  `CheckReachesNotices` is about those that were got to.
- Two starts that write permissions.kdl share its `.tmp`: the rename of the second
  fails, and with it the start (zellij_cmd.rs:195). `StartsUnlessCrossed` has the
  condition.
- `prune` deletes the branch with `-D`, as "landed work was verified above"
  (worktree.rs:358): commits made after the last of `inspect`'s commands are lost
  when the worktree is clean again by the time it is removed. `OnlyLaterWorkIsLost`
  says that nothing else is.
- "One chain at a time" (cli.rs:597, docs/usage.md:37): two audits that look before
  either has submitted both do, and there are two chains; after that each audit of one chain sees
  the other's and queues nothing, so that both may end. `OneChainUnlessRaced` and
  `ChainGoesOnUnlessMet` have the conditions.

- Jobs and targets: `last_notices` is set although the file could not be written
  (job.rs:836), hence the exception in `FileSaysIt`; a status message sent during a
  pause, or whose pipe runs into its two seconds, is dropped, not queued (job.rs:1490-1528). So
  the last message before the end may never be seen: `EndingIsAnnounced` has the exception,
  and asks of the walltime events, which go by the log, that they were sent.
- A session whose name is a number, which `validate_name` admits (session.rs:104-115), is not
  reached by it: `Target::parse` takes digits for a job id or a position (session.rs:124-131), and
  another session may be acted on. `TargetsAreMeant` says what digits mean.
- sacct's 0:0 is told as exit code 0 whatever the state, so for TIMEOUT, CANCELLED and NODE_FAIL
  jobs too, and for a FAILED one (sacct.rs:116-124, 167-174): whether a job succeeded is in
  its state, and `CodeIsTold` is about the code alone.
- launch.rs:139: a name or partition attached to its short flag (`-pgpu`), or a long flag cut
  short, reaches sbatch but is not read: no job limit is looked up for it, and no
  maintenance fitted to a walltime behind the `--`. A walltime given twice is fitted
  by the first, while sbatch takes the last (against maint.rs:3). The job limit is
  not applied when Slurm is silent.
- `ensure --exclusive web` takes `web` for the flag's value in one of its spellings.
- Status plugin: `since_msg_secs` counts down between messages for nobody: what is
  drawn is the last message's time left. Every character counts one column.
- install_claude.rs: a 0.x script in an entry that also holds something of the
  user's is left registered, and its file removed; two backups of the same second
  share a name; what others write between the copy and the rename is in neither.
- monitor: the scroll position is not clamped; in a table of one line the heading gives way
  to a count that is one too many; a name that several sessions have is taken for a host
  and connected to; the file that an ended job left shadows a position of that number.
- mcp.rs:354: a binary replaced in its place, or started by a relative path, is never
  reported stale. A request that is taken back goes on (mcp.rs:327), and waits
  fill the pool when there are as many as threads.
- hook.rs:247: repositories of the same base name keep their worktrees in the same
  place, and one is given the other's. A hook that is killed, or met by another,
  leaves a partly filled directory that the next one gives away as it is.
- A limit that is changed is told to the agent late by up to the two minutes that a
  state file may be old, and the `END_MIN_GAP` that its end may have been confirmed before it
  was written (job.rs:843, 861).
- queue: a frame is cut to the rows of the pane and not to its columns (queue.rs:193-241). The
  lines of the tables are up to about 98 columns wide; in a narrower pane they wrap, and the frame
  is taller than the pane, against the comment in front (188-192). `FrameFits` bounds its lines, and
  its rows where no line is wider than the pane.
- queue: the finished states lack NODE_FAIL, PREEMPTED, DEADLINE and BOOT_FAIL, the
  listed ones SUSPENDED (queue.rs:30): such a job is in no list. Below 4 GB
  the hint "could use" may exceed what was asked for.
- usage.rs: "root is left out unless nothing else qualifies" is not what the report
  does: root is listed whenever no child holds 80 % of it. An older reindex may
  overwrite a newer one.
- A `|` in the path of the output file shifts the columns of an outcome (sacct.rs),
  which `ColumnsStay` leaves out.
- Scratch guard: `rsync x host:dest` into a path like a worktree is denied, `tee` and
  `touch` are not looked at, and a redirection behind a `cd` is judged after it.
- `wait_for_event` called before the first state file may miss `ended` (mcp.rs:981), and
  events between two calls are nobody's. A log replaced by one as long is read on
  from the old offset.
- The CWD column follows the oldest bash of the job: once the pane's first shell has been
  replaced (`exec zsh`) or closed, that is another pane's, or a script's.

## 4. What is proved

Seven proof modules, each of which extends what it is about and holds nothing else.
Each theorem names the property of the run that shows it on an instance, and holds
for every value of the constants: nothing bounds the clock, the launchers, the
jobs, the end times, the sessions or the calls, except where section 3 names a
bound that is part of a guard. A typed state is a part of each invariant and not
mentioned again.

| module | theorems | property |
|---|---|---|
| `JobLoopProofs` | `TypeCorrect`, `FileIsHonest`, `ReadersAreServed`, `EndingNeedsTheRedPhase`, `RedNeedsConfirmation`, `EndsInTime`, `EndingsAreFounded` | `TypeOK`, `FileHonest`, `ReaderContract`, `EndingIsNear`, `RedIsConfirmed`, `EndsBeforeDeadline`, `EndingIsFounded` |
| `LaunchProofs` | `TypeCorrect`, `DuplicatesRaced`, `CaughtIsHeeded`, `GivenUp` | `TypeOK`, `DuplicatesNeedARace`, `CaughtIsNotIgnored`, `GivenUpIsGone` |
| `QueueMonitorProofs` | `TypeCorrect`, `Panel`, `Summary`, `ForeignFiles`, `DoneJobsAreGone`, `SessionFiles`, `TargetsAreTheMeant`, `FiguresAreReal`, `ScreensAreReal` | `TypeOK`, `PanelIsOurs`, `SummaryIsCurrent`, `KnownForeignIsNotWritten`, `DoneMeansGone`, `SessionFilesAreTheirs`, `TargetsAreMeant`, `FiguresAreTrue`, `ScreensAreTrue` |
| `UserFilesProofs` | `FilesAreAtomic`, `FollowersAreExact`, `NoticesHoldRecentAnswers`, `StartsGetBundles`, `PruneIsSafe`, `AuditsChain` | `FileIsAtomic`, `FollowerIsExact`, `NoticesAreRecent`, `StartsAreWhole`, `PruneLosesNothing`, `ChainIsOne` |
| `PluginProofs` | `ClientsAreApart`, `DisplaysAreTrue` | `ClientsDoNotMeet`, `DisplayIsTrue` |
| `OutcomeProofs` | `OutcomesAreReal`, `NewsAlwaysArrive` | `OutcomesAreTrue`, `NewsArrives` |
| `KeptProofs` | `FilesStay`, `StepsHold` | `FilesAreKept`, `StepsAreTrue` |

**JobLoopProofs.** `TypeCorrect` first. `FileIsHonest` and `ReadersAreServed` rest on
`HonestInv`: the end time held was Slurm's when it was last confirmed, a
confirmation is never later than its query, and what is in the file satisfies the
same with the file's stamp. It is needed because `FileHonest` speaks of the file
only, and the file is written from `endEpoch` after the query. Both say how old what is told is,
not that it is still so: a limit cut after the confirmation is found at the next query. `EndingNeedsTheRedPhase` and
`RedNeedsConfirmation` rest on `AlarmInv`: in the red phase, or in the calls in front
of it, the end time in use was inside the line when it was last looked at. `EndsInTime`
rests on `PaceInv`, which bounds at each point of a tick how far the clock can be
ahead of `now` unless the loop has been overdue since (`lateAt`), and, while the loop
sleeps, how far `now` is from the deadline.
`EndingsAreFounded` takes two more: `SilenceInv`, that every miss counted stands for a
cadence without an answer (multiplication, so the lemmas about it come first), and
`AnnouncedInv`, that a tick which goes on to the alarm has announced what it knows, to the bar only if
that listens.

**LaunchProofs.** `TypeCorrect` includes the agreement of place, exit, job and
interrupted call. `DuplicatesRaced` rests on `RacedInv`: a launcher that has passed
its check ("committed") and another one of its name are related by what one did not
see of the other. `CaughtIsHeeded` rests on `ReadyInv`, `GivenUp` on
`GivenUpInv`, from `Flaky = FALSE`.

**QueueMonitorProofs.** `Panel` and `Summary` rest on `ShownInv`, which says what holds
in the middle of a tick: as long as no sample has changed a verdict (`settled`), the
panel and the summary are as they should be; `reclassify` at the end of the
samples restores them otherwise. `DoneJobsAreGone` rests on `DoneInv` (a job seen has been
submitted), `TypeCorrect` on `AnswerInv` (between the two calls the jobs seen are those
of the first answer). `ForeignFiles` is an action property from the type invariant.
`SessionFiles` rests on `SessionInv`, over both answers of squeue, and has the
hypothesis `SessionsRunThrough`: a session that is requeued between the two calls is
missing from one and back in the other, and TLC finds its file written over.

`TargetsAreTheMeant` is about four machines told beside the monitor (`MeantInv`).

- `TargetInv`: what is printed of a queue that has not moved since is what that queue has,
  so that a position counts to the same session in both. It rests on a lemma about
  counting, `PositionsDiffer`: of two rows in a finite set no two have as many before them.
- `PaneInv`: from the moment a pane is resolved until Enter it is the one meant; no pane
  has the command before `send` types it, and then that one alone has it, alone on its
  line unless the user typed there too.
- `ShellInv`: while the first bash of the job lives it is the only process of its start
  time, and is on the list of pids still to be looked at or among the candidates; so it
  is the oldest of those. Processes may come and go between any two looks.
- `SourceInv`: what `Resolve` chose, for each word that can be typed and each listing
  and snapshot there can be (`SourceOfAQuestion`), is what the monitor stays with.

`FiguresAreReal` and `ScreensAreReal` are about four more, each with its invariant.

- `SampleInv`: the sampler's count of idle time is the length of the run, and `gpu_idle` is
  sent at its one event; while a load of the driver is put off, the driver has not been
  up for longer than since the last failure; the host's baseline is of the last sample.
- `CgroupInv`: during a collection whoever has stayed since its begin is collected or in a
  step that is still to be read, and all who live have been seen.
- `ScreenInv`: between its draws the screen is right for the second it was drawn in unless it
  is dirty; and the last that the thread said, on its way or shown, is a reason for the
  silence or a snapshot fresh when the thread last looked, which it does in time.
- `ListsInv`: a job that was there when the gathering began is in a list once squeue has
  answered, or has ended by then and is sacct's to tell of; a key that quits stays typed
  until it is read.

The rest of the two, frames, hints and bars, is arithmetic (`FrameAlwaysFits`,
`HintSuffices`, which holds of any request, `LoadLights`).

**UserFilesProofs.** A step of `MCUserFiles` is a step of the part whose story is told
or leaves that part alone (`StorySteps`), so each part has an invariant of its own.

- `FilesAreAtomic` is the refinement: under `FileInv` each step of `AtomicWrite` is a
  step of `AtomicFile` on what is published, or a stutter. `FileInv` says that the
  inode called `.tmp` belongs to the writer alone, is no reader's and has no second name,
  and that what has the name or a reader is whole. It needs `OneWriter`, and
  `atomic_write_shared` is the run that refutes it with two.
- `FollowersAreExact`: until the log is removed it is what was appended, and the follower
  has printed as much as it counts; a state file seen stays until `ended` is appended.
- `NoticesHoldRecentAnswers`: `AgesInv` relates the ages of an answer in a hand, in the
  cache and in a view (for the bound of two cadences and two probes), `AnswerInv` follows
  the answer of a check to each session that it gets to, through the poke that is taken or not.
- `StartsGetBundles`: unless two starts crossed, what a start read of `permissions.kdl` is
  what the file holds.
- `PruneIsSafe`: what a command of `inspect` said of HEAD stays true while the user and the
  remote go on, since what has landed stays landed and a remote branch is deleted only
  after it has.
- `AuditsChain`: without a race one audit at a time is between its look and its
  submission; one that ends leaves its successor pending, or had found one.

**PluginProofs.** `ClientsAreApart` rests on `AttachInv` (whoever is attached when a caller
goes on came after its listing, or will be told to go) and `ServerInv` (how far client
and server can be apart). `DisplaysAreTrue` rests on invariants over the queues of
events and commands that zellij has not delivered: the last manifest on its way to an
instance describes the panes there are (`InboxInv`); an instance that none is on its way to
believes what is so, but for the panel asked for (`BeliefInv`); permission, title and
swap likewise (`TitleInv`, `SwapInv`).

**OutcomeProofs.** `OutcomesAreReal` rests on `WaitInv` (each job waited for is pending or
was once seen ended, and nothing is reported twice) and `ExecInv` (the file that the
script polls is absent or has the code of its own command, because older files are
removed before the pane opens and the wrapper renames what it has written).
`NewsAlwaysArrive` is about three machines. In `ReportsInv` the time that a plugin which
answers has been waiting, and the time the present pause still takes, stay together within
its patience. `McpInv` bounds the age of a request by its place. In `EventInv` the offset of the
call divides the log into what was returned or not wanted and what is yet to be read,
half lines included. Its hypotheses: `PoolSuffices`, since with more waits than threads
a quick call has to queue behind them (mcp.rs runs all of them on one blocking pool), and
`Red <= Warn`, which the defaults satisfy and config.rs does not enforce: with the two
swapped a warning is told below the red line.

**KeptProofs.** `FilesStay` rests on `ScratchInv` (what a cleaner has found expired is as it
was found, unless somebody changed it in between), `InstallInv` (when a file is about
to be replaced, all that is in it is in a backup or was edited since) and `TreesInv` (a
worktree has its branch and lies at the root of its repository). `StepsHold` proves the
action properties from one small invariant each: `UseInv` (what a process used since the last
sample, in the seconds there were), `SkillInv` (where old skills are about to be
removed the new ones are), `QuietInv` (a request under way has no answer), `BriefInv` (what
the state file says was what was left of the end last confirmed, at most `END_MIN_GAP` before) and `WholeInv` (while no two
hooks have met, a root has one hook at work, and a worktree that is not whole the one
that fills it).

### From which assumptions

The `ASSUME`s of the modules; TLC evaluates each in a run.

- `JobLoop`: times, lines and cadences are numbers (in any order), and the loop starts
  later than `END_MIN_GAP` after the epoch. `EndsInTime` has its condition, `Timely`, in it.
- `AtomicWrite`: there is an inode for each process and two more. `Launch`: an `ensure`
  has a name. `QueueMonitor`: one user's other jobs are as many as an answer of squeue
  lists (`FiniteAssumption`).
- `MCUserFiles` (`UserAssumption`): a quota is asked for no more often than a probe takes
  (config.rs has a floor of 30 s, a daemon 5 s), an audit is a job or a shell.
- `MCLaunch`, `MCQueueMonitor` (`StoryAssumption`, `TargetAssumption`): bounds and
  durations are numbers, `SendOk` is not zero as in job.rs, `None` differs from what it is
  compared with, a title can be told from a pane's id and from `focused`, and there is
  a terminal pane and a title. `FigureAssumption` of the latter: what HostMetrics, JobCgroup,
  MonitorScreen and QueueView count is a number, a sample is taken at most once a second,
  and `None` is no step, snapshot or explanation.

### What is only model-checked, and why

- Liveness: `LoopEnds`, `FilesSettle`, `WaitersAreServed`, `PluginSettles`,
  `DeparturesAreSettled`. The prover has no rule for fairness.
- `InputIsUnderstood`, `ReportsAddUp`, `MergesAreRight`: most of their parts are algorithms
  over sequences, by folds or recursion, and quantify over bounded inputs themselves; for
  every input they would take induction over data.

## 5. Plan

Done: every component of section 1 but the last, most important first, and the proofs
of section 4, among them all that the plan had named except these:

1. The parts of `MergesAreRight` and `ReportsAddUp` that are state machines: the second run of
   `ClaudeInstall`, the index of `UsageIndex`.
2. Abstract specifications worth stating: for the event log a queue that is read in
   order and closed, for `QuotaCache` a register whose value is the answer of some recent
   probe, for `JobWait` that the outcome of each job is reported once. The properties
   proved say as much; a refinement would say it in one sentence.

A module that is proved about gets its assumptions in the module itself or in the one
that its run checks, as weak as the code justifies.

## 6. Not modelled, and why

`zellij_embed/commands.rs` is a copy of a file of zellij, and the rest of
`zellij_embed` is glue to that library. `doctor.rs` is a list of independent checks
with their wording; `config.rs`, `theme.rs` and `color.rs` are defaults and escape
sequences; `commands/mod.rs` dispatches. Of the modelled components, the text for
humans and agents, JSON shapes, the parsing of /proc and of NVML's fields and
the declarations of subcommands are left out: they keep no state that another
step depends on.

In `JobLoop` the poke file counts, its other readers do not. In `QueueMonitor`
whether a part is due is left open, which only adds behaviours. In `Targets`,
`Panes` and `McpServer` what a command does to a session is one step. In `PaneCwd`
the collection of the pids is one step, which `JobCgroup` cuts, and the shell
does not replace itself by another program. In `StatusLine` colours are left out, in
`MonitorScreen` all rows but the table's. In `AgentBriefing` the quota line and the guard
against nested agents, in `SlurmText` reservations, partitions and GPU counts.

In `QuotaCache` the verdict on a quota is the time it was asked; the sum over the
daemons, the write of a notice's file and a cache that cannot be written are left
out, and sessions neither start nor end. In `Startup` no disk is full, and a torn
permissions file is `AtomicWrite`'s subject. `Worktree` has a worktree on a branch,
with a default branch and `gh` asked; branches that are rewritten (rebase, amend,
force-push), ignored files, which `git worktree remove` deletes, and the age filter
are left out. In `Audit` the interval exceeds the time limit of an audit.
