--------------------------- MODULE MCQueueMonitor ---------------------------
(***************************************************************************)
(* QueueMonitor for TLC, and the machines of which only safety is asked:   *)
(* scratch directories, exec, targets, panes, the session's reports, its   *)
(* metrics, the MCP server's wait and the hook that guards worktrees. They *)
(* share nothing, so a behaviour tells the story of one of them: what is   *)
(* explored is the sum of their states and not the product. Each story     *)
(* keeps its variables in the same slots, as many as it needs.             *)
(***************************************************************************)
EXTENDS QueueMonitor, TLC

CONSTANTS
  None,
  Stories,                                 \* which of them
  own, other,                              \* QueueMonitor
  Makers, Cleaners, MaxNow, OlderThan, KeepFor,     \* Scratch
  WaitedFor, Named, WaitFor, PollEvery,    \* JobWait
  Codes, MaxPolls,                         \* Exec
  JobIds, SessionNames, Inside,            \* Targets
  Terminals, Plugins, Titles,              \* Panes
  SendOk, PipeWait, MaxPause,              \* Reports
  SampleEvery, GpuIdleAfter, RetryAfter, MaxTicks,  \* HostMetrics
  MaxLines, Warn, Red,                     \* WaitEvent
  Caches,                                  \* ScratchGuard
  Cols, Wide,                              \* StatusLine
  Installs, LinkedBuild, OldBuilds, Hooks, Edits, MaxSeconds, \* ClaudeInstall
  Heights, StaleAfter, Refresh, PageRows, MaxScroll, MaxTime, \* MonitorScreen
  Calls, Pool, WaitMax, WaitsAsked, \* McpServer
  EndTimes, WarnAt, StateStale, EndMinGap, LastSecond, \* AgentBriefing
  Repos, Askers, CommitBound, \* WorktreeHooks
  QueueJobs, WatchEvery, KeyBound, LastMoment, \* QueueView
  HomeFiles, MinDir, ChangeBound, LastHour, \* UsageIndex
  Allocations, BusyMost, RowBound, \* SlurmText
  JobPids, Steps, ByteWidth, \* JobCgroup
  PidBound, Folders, StartBound \* PaneCwd

\* None is no number, no record, no log, no state of a job and no text that
\* an exit code is read from; who has a name is a job; times are counted.
ASSUME StoryAssumption ==
  /\ None \notin {"PENDING", "RUNNING", "COMPLETED", "NODE_FAIL", "stale", "current"} /\ Named \subseteq WaitedFor
  /\ Codes \cap {None, "empty"} = {}
  /\ LET Manifests == [created : Nat, keepUntil : Nat]
         Dirs == [manifest : Manifests \cup {None}, tmp : Manifests \cup {None}]
     IN  None \notin Nat \cup Manifests \cup Dirs
  /\ {WaitFor, PollEvery, MaxPolls} \subseteq Nat
  /\ None \notin Seq({"job_done", "ended"}) /\ \A set \in SUBSET {"quota", "hint"} : None # set
  /\ {MaxNow, OlderThan, KeepFor, MaxSeconds, CommitBound, PipeWait, MaxPause, Pool, WaitMax,
      Warn, Red, WarnAt, StateStale, EndMinGap} \subseteq Nat
  /\ SendOk \in Nat \ {0} /\ WaitsAsked \cup EndTimes \subseteq Nat /\ None \notin [repo : Repos, whole : BOOLEAN]

\* None is no name, title or directory either, no pane and no process; what
\* looks like a pane's id is no title; there is a pane, and a title.
ASSUME TargetAssumption ==
  /\ {MaxTime, Refresh, PageRows, MaxScroll, StartBound} \subseteq Nat
  /\ None \notin {<<>>} \cup {<<n>> : n \in SessionNames} /\ None \notin Titles \cup Folders \cup {"focused"}
  /\ Terminals # {} /\ Titles # {} /\ Terminals \cap (Titles \cup {"focused", None}) = {}
  /\ None \notin [title : Titles, line : Seq({"user", "sent"})]
  /\ None \notin [comm : {"bash", "other"}, starttime : Nat, at : Folders]

VARIABLES
  story,
  s1, s2, s3, s4, s5, s6, s7, s8, s9, s10, s11, s12, s13, s14, s15, s16, s17,
  s18

slots == <<s1, s2, s3, s4, s5, s6, s7, s8, s9, s10, s11, s12, s13, s14, s15,
            s16, s17, s18>>


\* The words that are split: characters that quoting is about, in each place.
MCWords == {<<>>, <<"'">>, <<"\"">>, <<"\\">>, <<"a", ">">>, <<"1">>}

\* The lines that are judged: a cd and what is done after it.
MCHome == <<"/", "home">>
MCStart == <<"/", "w">>
Worktree == MCStart \o <<".claude", "worktrees", "a">>
Places == {<<".">>, Worktree, <<"..">>, <<"..", "..", "..">>,
           <<".claude", "worktrees", "b">>, <<"~", ".cache", "new">>, <<"~", ".cache", "uv">>}
Files == {<<"data.bam">>, <<"notes">>, <<"..", "data.bam">>}
Line(words) == [words |-> words, redirects |-> <<>>]
Changes == {Line(<<<<"cd">>, p>>) : p \in Places} \cup {Line(<<<<"FOO=1">>, <<"cd">>, Worktree>>)}
Work ==
  UNION {{Line(<<<<"cp">>, f, p>>), Line(<<<<"cp">>, <<"-t">>, p, f, <<"notes">>>>),
          Line(<<<<"sudo">>, <<"/", "bin", "cp">>, <<"-r">>, <<"--">>, f, p>>),
          Line(<<<<"tar">>, <<"-x">>, f, <<"-C">>, p>>), Line(<<<<"tar">>, <<"-x">>, f>>),
          Line(<<<<"mkdir">>, p>>), [words |-> <<>>, redirects |-> <<f>>],
          [words |-> <<<<"cd">>, p>>, redirects |-> <<f>>]}
           : f \in Files, p \in Places}
Written ==
  {Line(<<<<"Write">>, dir \o f, <<len>>>>)
     : dir \in Places \ {<<".">>}, f \in {<<"data.bam">>, <<"t.csv">>, <<"notes">>}, len \in {"1G", "100M", "1K"}}
MCCommands == {<<c, w>> : c \in Changes, w \in Work} \cup {<<w>> : w \in Work \cup Written}

\* The command lines: walltimes, partitions and the rest in their spellings,
\* before and behind the `--`, and where the name of an ensure may stand.
Eq(flag, val) == [form |-> "eq", flag |-> flag, val |-> val]
Other(form, flag, val) == [form |-> form, flag |-> flag, val |-> val]
Word(val) == Other("word", None, val)
Human(d, h, m) == [form |-> "human", days |-> d, clock |-> <<h, m>>]
SlurmTime(d, clock) == [form |-> "slurm", days |-> d, clock |-> clock]
Groups ==
  {<<Other("attached", "time", t)>> : t \in {Human(0, 1, 0), Human(0, 25, 90), Human(3, 0, 0)}} \cup
  {<<Other("short", "time", None), Word(t)>> : t \in {Human(3, 0, 0), SlurmTime(None, <<90, 0>>)}} \cup
  {<<Eq("partition", "long")>>, <<Other("attached", "partition", "long")>>,
   <<Other("cut", "partition", "long")>>, <<Other("attached", "threads", 4)>>,
   <<Eq("mem-per-cpu", "2G")>>, <<Eq("qos", "high")>>, <<Other("short", "qos", None), Word("high")>>,
   <<Other("long", "exclusive", None)>>, <<Other("long", "gres", None), Word("gpu")>>,
   <<Eq("reservation", "mine")>>, <<Other("long", "detach", None)>>}
Behind ==
  {<<>>} \cup {<<Other("--", None, None)>> \o g : g \in
    {<<Other("attached", "time", SlurmTime(2, <<0>>))>>, <<Eq("time", SlurmTime(0, <<12, 30, 0>>))>>,
     <<Other("cut", "time", SlurmTime(2, <<12>>))>>,
     <<Eq("time", [form |-> "text", days |-> None, clock |-> <<>>])>>,
     <<Other("short", "partition", None), Word("long")>>}}
NameForms == {<<Other("short", "name", None), Word("web")>>, <<Eq("name", "web")>>, <<Other("attached", "name", "web")>>}
Asked(tokens, ensure, name) == [tokens |-> tokens, ensure |-> ensure, name |-> name]
MCLines ==
  {Asked(g \o h \o b, FALSE, None) : g, h \in Groups \cup {<<>>}, b \in Behind} \cup
  {Asked(g \o n \o <<Other("long", "exclusive", None)>>, FALSE, "web") : n \in NameForms, g \in Groups} \cup
  UNION {{Asked(g \o <<Word("web")>> \o h, TRUE, "web"), Asked(<<Word("web")>> \o g \o h, TRUE, "web")}
           : g, h \in Groups \cup {<<>>}}

\* The maintenance one second too near, near enough, far, and further than
\* another reservation; jobs below the limit, at it, and Slurm not answering.
Reserved(start, maint) == [start |-> start, maint |-> maint]
Mine(n, partition) == {[id |-> i, partition |-> partition] : i \in 1..n}
Limits == [high |-> 1, long |-> 2, normal |-> None, interactive |-> 0]
MCWorlds ==
  {[reservations |-> r, mine |-> {}, limit |-> Limits] :
     r \in {None, {}, {Reserved(-60, TRUE), Reserved(900, TRUE)}, {Reserved(899, TRUE)},
            {Reserved(500, FALSE), Reserved(90061, TRUE), Reserved(200000, TRUE)}}} \cup
  {[reservations |-> {}, mine |-> j, limit |-> Limits] :
     j \in {None, Mine(1, "long"), Mine(2, "long"), Mine(2, "interactive")}}
MCDefaults == [time |-> SlurmTime(None, <<24, 0, 0>>), partition |-> "interactive", qos |-> "normal",
               mem |-> "8G"] @@ ("cpus-per-task" :> 2)

\* A host with three processes, one of which holds a GPU.
MCTables == {<<TRUE, FALSE, FALSE>>}

\* None is no step, set of them, snapshot or explanation; a sample is taken at
\* most once a second.
ASSUME FigureAssumption ==
  /\ SampleEvery \in Nat \ {0} /\ {GpuIdleAfter, RetryAfter, MaxTicks, StaleAfter, WatchEvery, KeyBound, LastMoment} \subseteq Nat
  /\ None \notin Steps /\ \A set \in SUBSET Steps : None # set
  /\ None \notin [ts : Nat, procs : MCTables] \cup {"no snapshot yet", "failed", "sampler stopped"}

S == INSTANCE Scratch WITH now <- s1, dir <- s2, maker <- s3, cleaner <- s4,
    byHand <- s5, renewed <- s6, cleaned <- s7, upset <- s8
J == INSTANCE JobWait WITH Jobs <- WaitedFor, Timeout <- WaitFor, queue <- s1,
    acct <- s2, at <- s3, ids <- s4, pending <- s5, asked <- s6, left <- s7,
    timedOut <- s8, report <- s9, ended <- s10
E == INSTANCE Exec WITH keep <- s1, script <- s2, polls <- s3, pane <- s4,
    reply <- s5, wrapper <- s6, code <- s7, out <- s8, rcTmp <- s9, rc <- s10,
    status <- s11
T == INSTANCE Targets WITH Names <- SessionNames, queue <- s1, shown <- s2,
    cmd <- s3, moved <- s4, acted <- s5
P == INSTANCE Panes WITH panes <- s1, focus <- s2, at <- s3, spec <- s4,
    target <- s5, meant <- s6, met <- s7, ran <- s8
R == INSTANCE Reports WITH answering <- s1, at <- s2, quotaNotice <- s3,
    hintWanted <- s4, last <- s5, file <- s6, severity <- s7, gap <- s8,
    pause <- s9, timeouts <- s10, shown <- s11, writeFailed <- s12,
    answers <- s13, untold <- s14
M == INSTANCE HostMetrics WITH driver <- s1, gpu <- s2, proc <- s3,
    used <- s4, sampled <- s5, nvml <- s6, failedFor <- s7, listed <- s8,
    idleFor <- s9, idleSent <- s10, cgroupFor <- s11, hostFor <- s12,
    prev <- s13, cpu <- s14, charged <- s15, upFor <- s16, run <- s17,
    events <- s18
W == INSTANCE WaitEvent WITH phase <- s1, log <- s2, state <- s3, left <- s4,
    at <- s5, wanted <- s6, offset <- s7, last <- s8, hadState <- s9,
    result <- s10, expired <- s11, began <- s12, sawState <- s13,
    sawLeft <- s14, woke <- s15
L == INSTANCE ShellSplit WITH Words <- MCWords, tokens <- s1, rest <- s2,
    lexed <- s3
G == INSTANCE ScratchGuard WITH Commands <- MCCommands, Home <- MCHome,
    Start <- MCStart, cmds <- s1, left <- s2, cwd <- s3, denied <- s4
D == INSTANCE StatusLine WITH kind <- s1, cols <- s2, parts <- s3, with <- s4,
    kept <- s5, tail <- s6, at <- s7
Q == INSTANCE LaunchRequest WITH Lines <- MCLines, Worlds <- MCWorlds,
    Defaults <- MCDefaults, line <- s1, world <- s2, at <- s3, ours <- s4,
    args <- s5, carry <- s6
I == INSTANCE ClaudeInstall WITH now <- s1, doc <- s2, elsewhere <- s3,
    backups <- s4, skills <- s5, at <- s6, exe <- s7, plan <- s8,
    edited <- s9, unsaved <- s10
O == INSTANCE MonitorScreen WITH Tables <- MCTables, now <- s1, file <- s2,
    sampler <- s3, asked <- s4, source <- s5, feeder <- s6, chan <- s7,
    app <- s8, height <- s9, dirty <- s10, drawn <- s11, looped <- s12,
    pc <- s13, screen <- s14
Y == INSTANCE McpServer WITH session <- s1, inside <- s2, call <- s3,
    image <- s4
B == INSTANCE AgentBriefing WITH second <- s1, end <- s2, changed <- s3,
    state <- s4, hook <- s5, said <- s6, known <- s7
H == INSTANCE WorktreeHooks WITH oneRoot <- s1, dir <- s2, branch <- s3,
    asker <- s4, remover <- s5, met <- s6, killed <- s7, reset <- s8
V == INSTANCE QueueView WITH job <- s1, accounted <- s2, moment <- s3,
    keysRead <- s4, all <- s5, raw <- s6, at <- s7, snap <- s8, drawn <- s9,
    until <- s10, typed <- s11, began <- s12, excused <- s13, quit <- s14
U == INSTANCE UsageIndex WITH hour <- s1, file <- s2, changes <- s3,
    changed <- s4, walk <- s5, found <- s6, began <- s7, copies <- s8,
    index <- s9
K == INSTANCE SlurmText WITH listed <- s1, call <- s2, result <- s3,
    rows <- s4, read <- s5, folded <- s6, outcomes <- s7
N == INSTANCE JobCgroup WITH asked <- s1, unified <- s2, at <- s3,
    found <- s4, in <- s5, open <- s6, walk <- s7, pids <- s8, stayed <- s9,
    seenIn <- s10, memory <- s11, used <- s12
F == INSTANCE PaneCwd WITH proc <- s1, shell <- s2, starts <- s3, look <- s4,
    todo <- s5, candidates <- s6, pid <- s7, cwd <- s8, lived <- s9,
    were <- s10

\* The story at hand; the other machines stay as they began.
Tells(s) == story = s /\ UNCHANGED <<story, vars>>

\* The slots that a story leaves unused, from some slot on.
rest16 == <<s16, s17, s18>>
rest15 == <<s15, rest16>>
rest13 == <<s13, s14, rest15>>
rest12 == <<s12, rest13>>
rest11 == <<s11, rest12>>
rest10 == <<s10, rest11>>
rest9 == <<s9, rest10>>
rest8 == <<s8, rest9>>
rest7 == <<s7, rest8>>
rest6 == <<s6, rest7>>
rest5 == <<s5, rest6>>
rest4 == <<s4, rest5>>
rest1 == <<s1, s2, s3, rest4>>
Unused16 == s16 = None /\ s17 = None /\ s18 = None
Unused15 == s15 = None /\ Unused16
Unused13 == s13 = None /\ s14 = None /\ Unused15
Unused12 == s12 = None /\ Unused13
Unused11 == s11 = None /\ Unused12
Unused10 == s10 = None /\ Unused11
Unused9 == s9 = None /\ Unused10
Unused8 == s8 = None /\ Unused9
Unused7 == s7 = None /\ Unused8
Unused6 == s6 = None /\ Unused7
Unused5 == s5 = None /\ Unused6
Unused4 == s4 = None /\ Unused5
Unused1 == s1 = None /\ s2 = None /\ s3 = None /\ Unused4

StoryInit ==
  /\ story \in Stories /\ Init
  /\ \/ story = "queue" /\ Unused1
     \/ story = "scratch" /\ S!Init /\ Unused9
     \/ story = "job wait" /\ J!Init /\ Unused11
     \/ story = "exec" /\ E!Init /\ Unused12
     \/ story = "targets" /\ T!Init /\ Unused6
     \/ story = "panes" /\ P!Init /\ Unused9
     \/ story = "reports" /\ R!Init /\ Unused15
     \/ story = "metrics" /\ M!Init
     \/ story = "wait event" /\ W!Init /\ Unused16
     \/ story = "split" /\ L!Init /\ Unused4
     \/ story = "guard" /\ G!Init /\ Unused5
     \/ story = "drawing" /\ D!Init /\ Unused8
     \/ story = "request" /\ Q!Init /\ Unused7
     \/ story = "install" /\ I!Init /\ Unused11
     \/ story = "monitor" /\ O!Init /\ Unused15
     \/ story = "mcp" /\ Y!Init /\ Unused5
     \/ story = "briefing" /\ B!Init /\ Unused8
     \/ story = "worktrees" /\ H!Init /\ Unused9
     \/ story = "queue view" /\ V!Init /\ Unused15
     \/ story = "usage" /\ U!Init /\ Unused10
     \/ story = "slurm" /\ K!Init /\ Unused8
     \/ story = "cgroup" /\ N!Init /\ Unused13
     \/ story = "cwd" /\ F!Init /\ Unused11

StoryNext ==
  \/ story = "queue" /\ Next /\ UNCHANGED <<story, rest1>>
  \/ Tells("scratch") /\ S!Next /\ UNCHANGED rest9
  \/ Tells("job wait") /\ J!Next /\ UNCHANGED rest11
  \/ Tells("exec") /\ E!Next /\ UNCHANGED rest12
  \/ Tells("targets") /\ T!Next /\ UNCHANGED rest6
  \/ Tells("panes") /\ P!Next /\ UNCHANGED rest9
  \/ Tells("reports") /\ R!Next /\ UNCHANGED rest15
  \/ Tells("metrics") /\ M!Next
  \/ Tells("wait event") /\ W!Next /\ UNCHANGED rest16
  \/ Tells("split") /\ L!Next /\ UNCHANGED rest4
  \/ Tells("guard") /\ G!Next /\ UNCHANGED rest5
  \/ Tells("drawing") /\ D!Next /\ UNCHANGED rest8
  \/ Tells("request") /\ Q!Next /\ UNCHANGED rest7
  \/ Tells("install") /\ I!Next /\ UNCHANGED rest11
  \/ Tells("monitor") /\ O!Next /\ UNCHANGED rest15
  \/ Tells("mcp") /\ Y!Next /\ UNCHANGED rest5
  \/ Tells("briefing") /\ B!Next /\ UNCHANGED rest8
  \/ Tells("worktrees") /\ H!Next /\ UNCHANGED rest9
  \/ Tells("queue view") /\ V!Next /\ UNCHANGED rest15
  \/ Tells("usage") /\ U!Next /\ UNCHANGED rest10
  \/ Tells("slurm") /\ K!Next /\ UNCHANGED rest8
  \/ Tells("cgroup") /\ N!Next /\ UNCHANGED rest13
  \/ Tells("cwd") /\ F!Next /\ UNCHANGED rest11

storyVars == <<story, vars, slots>>
StorySpec == StoryInit /\ [][StoryNext]_storyVars
FairStorySpec ==
  /\ StorySpec
  /\ WF_vars(story = "queue" /\ Loop) /\ SF_vars(story = "queue" /\ QueryQueue)
  /\ WF_vars(story = "queue" /\ EndRound)

(* The properties of the machines, each in its story.                       *)


\* Nothing is lost of what is somebody's: scratch directories, settings that
\* others wrote, worktrees and their branches.
FilesAreKept ==
  \* What clean removes was managed, old and not held.
  \* What new made has a manifest.
  \* What was made by hand gets no manifest.
  /\ story = "scratch" => S!TypeOK /\ S!OnlyExpiredIsCleaned /\ S!NewIsManaged
       /\ S!HandMadeStaysSo
  \* What others wrote is in the file or in a backup.
  /\ story = "install" => I!TypeOK /\ I!NothingIsLost
  \* A session is given a worktree of its own repository.
  \* A worktree keeps its branch, and a branch its commits.
  /\ story = "worktrees" => H!TypeOK /\ H!GivenIsOfTheRepo
       /\ H!BranchesAreKept

\* What is reported of a job or a command that was waited for is how it
\* ended.
OutcomesAreTrue ==
  \* An answer that did not time out waited for each job to end.
  \* Each job waited for is reported, once.
  /\ story = "job wait" => J!TypeOK /\ J!FinishedHaveEnded
       /\ J!EachIsReportedOnce
  \* An exit code is the one of the call's own command.
  \* A command that overruns is killed and leaves no file.
  /\ story = "exec" => E!TypeOK /\ E!CodeIsTheCommands /\ E!NothingRunsOn

\* What a command acts on is what its words meant: a session, a pane, a
\* source, the shell of a pane.
TargetsAreMeant ==
  \* A position means the session that was listed there.
  \* An id or a name means the session that has it.
  /\ story = "targets" => T!TypeOK /\ T!PositionsAreTheListed
       /\ T!TypedIsMeant
  \* What is sent is typed into the pane that was meant.
  \* Enter runs what was sent.
  /\ story = "panes" => P!TypeOK /\ P!TypedWhereMeant /\ P!RunsWhatWasSent
  \* The directory shown is one of the pane's own shell.
  \* Processes that end between two looks do not hide the shell.
  /\ story = "cwd" => F!TypeOK /\ F!CwdIsTheShells /\ F!PaneIsFound
  \* What is watched is what was asked for.
  /\ story = "monitor" => O!TypeOK /\ O!SourceIsTheMeant

\* What the user said or wrote is completed and not altered: a request by the
\* defaults and the maintenance to come, the settings by our hooks.
MergesAreRight ==
  \* A second install changes nothing, and no hook is there twice.
  \* A hook that is registered is one that runs.
  /\ story = "install" => I!InstallIsIdempotent /\ I!HooksRun
  \* The name of an ensure is the one that was meant.
  \* What the user said wins over a default.
  \* A job ends before the next maintenance.
  \* The end that the session is told of is the one asked for.
  \* The limit looked up is the one of the request.
  \* A walltime keeps its length in every form.
  /\ story = "request" => Q!TypeOK /\ Q!NameIsTheNamed /\ Q!ExplicitFlagsWin
       /\ Q!EndsBeforeMaintenance /\ Q!ToldIsAsked /\ Q!LimitIsTheRequests
       /\ Q!TimeKeepsItsLength

\* What a command line says and what Slurm prints is read as it is meant: by
\* the hook that guards worktrees as the shell does, and by the wrappers of
\* Slurm.
InputIsUnderstood ==
  \* Splitting gives back what was quoted.
  /\ story = "split" => L!TypeOK /\ L!SplitGivesBackWhatIsMeant
  \* No command that is allowed puts bulk data into a worktree.
  \* What is denied would do so.
  /\ story = "guard" => G!TypeOK /\ G!BulkIsKeptOut /\ G!NoFalseAlarm
  \* A job is called gone when squeue did not list it.
  \* The peak memory of an allocation is the largest of its rows.
  \* Bars in the free text of a row shift no column.
  \* The exit code 0 is told of success alone.
  \* The id of a job is read, and no other number.
  /\ story = "slurm" => K!TypeOK /\ K!GoneIsGone /\ K!PeakIsTold
       /\ K!ColumnsStay /\ K!CodeIsTold /\ K!IdIsTheJobs

\* The figures of a host and of a job are those there were.
FiguresAreTrue ==
  \* gpu_idle is told once, of a GPU that is held and idle.
  \* GPUs are listed again once their driver is back.
  \* The host's CPU% covers the time since the last sample.
  /\ story = "metrics" => M!TypeOK /\ M!IdleIsIdle /\ M!GpusComeBack
       /\ M!HostWindowIsKnown
  \* Processes that stay through a collection are collected, and no others.
  \* The memory said to be used is no more than was.
  \* A job's cgroup is found wherever it is, at its usual place first.
  /\ story = "cgroup" => N!TypeOK /\ N!StayersAreFound /\ N!UsedIsNoMore
       /\ N!FoundWhereItIs

\* News reach whoever waits for them: the plugin, the notices file, the
\* callers of wait_event and of the MCP server.
NewsArrives ==
  \* A plugin that answers is told before long.
  \* The notices file lists the notices.
  /\ story = "reports" => R!TypeOK /\ R!PluginIsTold /\ R!FileSaysIt
  \* The first wanted event since the call began is returned.
  \* No wanted event is slept through.
  \* The end of the session is told.
  \* A threshold told was crossed during the call.
  /\ story = "wait event" => W!TypeOK /\ W!FirstIsReturned
       /\ W!NothingIsSleptThrough /\ W!EndIsTold /\ W!CrossingIsReal
  \* Every call is answered in its time, whatever the others do.
  /\ story = "mcp" => Y!TypeOK /\ Y!AnswersInTime

\* What is shown is current, has everything that was there, and is drawn
\* again in time.
ScreensAreTrue ==
  \* The screen shows what the program knows.
  \* Old numbers and a silent source are said to be so.
  \* Any load lights a cell of its bar.
  /\ story = "monitor" => O!ScreenIsCurrent /\ O!SilenceIsTold
       /\ O!AnyLoadLights
  \* A job that was there is in one of the lists.
  \* The lists are gathered anew in time, whatever is typed.
  \* The keys that leave do, and the terminal is given back.
  \* The frame fits the pane, and counts what it leaves out.
  \* The memory hinted at would have been enough.
  /\ story = "queue view" => V!TypeOK /\ V!EachJobIsShown /\ V!RedrawsOnTime
       /\ V!QuitIsHeard /\ V!FrameFits /\ V!HintIsEnough

\* What is laid out or summed up fits, adds up, and counts what it leaves
\* out: the status line and its path, tables and legends, the usage of a home
\* directory, the CPUs of a job.
ReportsAddUp ==
  \* No row is wider than the terminal.
  \* Nothing is left out that there is room for.
  \* A click runs what is written where it lands.
  /\ story = "drawing" => D!TypeOK /\ D!RowsFit /\ D!NothingIsCutInVain
       /\ D!ClickRunsWhatIsShown
  \* The working directory fits its place in the status line, and says what
  \* fits.
  /\ story = "briefing" => B!TypeOK /\ B!PathFits
  \* Every process is on the screen or counted.
  /\ story = "monitor" => O!NobodyIsLeftOut
  \* The legend and the title fit the pane.
  /\ story = "queue view" => V!LegendFits
  \* An index that nothing has changed since is exact.
  \* No directory is left out that holds an indexed one.
  \* The report names as many as asked, and where the bytes are.
  \* What is called a copy is another file.
  /\ story = "usage" => U!TypeOK /\ U!IndexIsExact /\ U!IndexAddsUp
       /\ U!TopSaysWhere /\ U!CopiesAreCopies
  \* The CPUs of a job are enough for its quota.
  /\ story = "cgroup" => N!CpusAreGranted

\* What a single step may not do: charge too much, lose a skill, keep quiet,
\* mislead an agent, hand out a worktree that is not whole.
StepsAreTrue == [][
  \* No process is charged for more than it used.
  /\ story = "metrics" => M!ChargesTheUse
  \* A skill is never without its old or its new form.
  /\ story = "install" => I!SkillsStay
  \* A server left behind by an upgrade says so.
  /\ story = "mcp" => Y!StalenessIsTold
  \* What an agent is told to be left is what is left.
  /\ story = "briefing" => B!BudgetsAreTrue
  \* A worktree is there and filled when it is given.
  /\ story = "worktrees" => H!GivingIsWhole]_slots
=============================================================================
