SPECIFICATION FairStorySpec
CHECK_DEADLOCK FALSE
CONSTANTS
  None = None
  Stories = {"launch", "job wait", "attach", "server", "status line", "panel"}
  Launchers = {launch, ensure}
  Ensurers = {ensure}
  NameOf <- MCNames
  NoName = NoName
  launch = launch
  ensure = ensure
  dev = dev
  MaxPresses = 1
  Flaky = FALSE
  Jobs = {j1}
  Named = {j1}
  WaitFor = 1
  PollEvery = 1
  Callers = {c1, c2}
  ClientIds = {i1, i2, i3}
  LooksFor = 4
  Hosts = {h1, h2}
  MaxNotices = 2
  Pages = 2
  CycleTicks = 2
  IdleTicks = 3
  PanelPresses = 3
INVARIANTS TypeOK DuplicatesNeedARace GivenUpIsGone CaughtIsNotIgnored
  ClientsDoNotMeet DisplayIsTrue
PROPERTIES WaitersAreServed PluginSettles
