SPECIFICATION StorySpec
CHECK_DEADLOCK FALSE
CONSTANTS
  None = None
  Stories = {"launch"}
  Launchers = {launch}
  Ensurers = {}
  NameOf <- MCNames
  NoName = NoName
  launch = launch
  ensure = ensure
  dev = dev
  MaxPresses = 1
  Flaky = FALSE
  Jobs = {}
  Named = {}
  WaitFor = 1
  PollEvery = 1
  Callers = {}
  ClientIds = {}
  LooksFor = 1
  Hosts = {}
  MaxNotices = 1
  Pages = 1
  CycleTicks = 1
  IdleTicks = 1
  PanelPresses = 1
INVARIANT CaughtCancels
