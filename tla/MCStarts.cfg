SPECIFICATION UserSpec
CHECK_DEADLOCK FALSE
CONSTANTS
  None = None
  Stories = {"starts"}
  Writers = {w1}
  Readers = {r1}
  Versions = {v1, v2}
  Inodes <- MCInodes
  MaxEvents = 3
  MayBeKilled = TRUE
  Sessions = {s1, s2}
  Checker = Checker
  QuotaPoll = 2
  ProbeTime = 1
  Starts = {t1, t2, t3}
  mouse = mouse
  noMouse = noMouse
  MaxCommits = 2
  Jobs = {j1, j2, j3}
  Users = {u1, u2}
  Flaky = TRUE
INVARIANT NeverPrompts
