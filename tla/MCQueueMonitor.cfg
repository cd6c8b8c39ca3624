SPECIFICATION StorySpec
CHECK_DEADLOCK FALSE
CONSTANTS
  None = None
  Stories = {"queue", "scratch", "job wait", "exec", "targets", "panes", "reports",
    "metrics", "wait event", "split", "guard", "drawing", "install",
    "request", "monitor", "mcp", "briefing", "worktrees", "queue view", "usage", "slurm", "cgroup", "cwd"}
  own = own
  other = other
  Jobs = {own, other}
  Foreign = {other}
  Sessions = {}
  MonitorSessions = FALSE
  Suspendable = {}
  Makers = {m1, m2}
  Cleaners = {c1}
  MaxNow = 2
  OlderThan = 1
  KeepFor = 1
  WaitedFor = {j1, j2}
  Named = {j2}
  WaitFor = 1
  PollEvery = 1
  Codes = {"0", "3"}
  MaxPolls = 2
  JobIds = {2, 9}
  SessionNames = {dev, 2}
  Inside = None
  Terminals = {t0, t1}
  Plugins = {bar}
  Titles = {main, agent}
  SendOk = 2
  PipeWait = 2
  MaxPause = 6
  SampleEvery = 2
  GpuIdleAfter = 4
  RetryAfter = 3
  MaxTicks = 2
  MaxLines = 2
  Warn = 1
  Red = 0
  Caches = {"uv"}
  Cols = {1, 14, 24, 33, 41, 48, 80, 121, 122, 150}
  Wide = 9
  Installs = {"a", "b"}
  LinkedBuild = "a"
  OldBuilds = {"b"}
  Hooks = {"prompt"}
  Edits = {e1}
  MaxSeconds = 1
  Calls = {q1, q2}
  Pool = 2
  WaitMax = 2
  WaitsAsked = {3}
  EndTimes = {2, 5}
  WarnAt = 2
  StateStale = 2
  EndMinGap = 1
  LastSecond = 5
  Repos = {w1, w2}
  Askers = {c1, c2}
  CommitBound = 1
  QueueJobs = {m1}
  WatchEvery = 2
  KeyBound = 2
  LastMoment = 3
  HomeFiles = {y1, y2}
  MinDir = 2
  ChangeBound = 1
  LastHour = 1
  Allocations = {0, 1, 2}
  BusyMost = 2
  RowBound = 4
  JobPids = {m1, m2}
  Steps = {c1, c2}
  ByteWidth = 4
  PidBound = 3
  Folders = {m1, m2}
  StartBound = 2
  Heights = {2, 3}
  StaleAfter = 1
  Refresh = 1
  PageRows = 2
  MaxScroll = 2
  MaxTime = 4
INVARIANTS TypeOK PanelIsOurs SummaryIsCurrent DoneMeansGone
  FilesAreKept OutcomesAreTrue TargetsAreMeant MergesAreRight InputIsUnderstood
  FiguresAreTrue NewsArrives ScreensAreTrue ReportsAddUp
PROPERTIES KnownForeignIsNotWritten StepsAreTrue
