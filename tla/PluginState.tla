---------------------------- MODULE PluginState ----------------------------
(***************************************************************************)
(* The state of one instance of the status plugin and its transitions      *)
(* (sint-zellij/src/state.rs): status messages of the session, actions of  *)
(* the keybindings, ticks of its timer, the terminal's answer about its    *)
(* theme. A message may drop the very notice or job that is on display.    *)
(***************************************************************************)
EXTENDS Naturals, Sequences, SequencesExt

CONSTANTS
  Jobs,          \* the jobs whose hosts can be monitored
  MaxNotices, Pages,
  CycleTicks,    \* NOTICE_CYCLE_TICKS
  IdleTicks      \* MODE_IDLE_TICKS

VARIABLES
  mode, idx,     \* BarMode, with its notice or page
  ttl,           \* mode_ttl
  frame,         \* frame, as far as `tick` looks at it
  notices,       \* how many notices the last message has
  hosts, host,   \* its hosts, in order, and host_idx
  theme, fromSession

vars == <<mode, idx, ttl, frame, notices, hosts, host, theme, fromSession>>
bar == <<mode, idx, ttl>>

Lists == UNION {{s \in [1..n -> Jobs] : IsInjective(s)} : n \in 0..Cardinality(Jobs)}

TypeOK ==
  /\ mode \in {"status", "notices", "help"} /\ idx \in Nat
  /\ ttl \in 0..IdleTicks /\ frame \in 0..(CycleTicks - 1)
  /\ notices \in 0..MaxNotices /\ hosts \in Lists
  /\ host \in Nat /\ (host > 0 => host < Len(hosts))
  /\ theme \in {"dark", "light"} /\ fromSession \in BOOLEAN

Init ==
  /\ mode = "status" /\ idx = 0 /\ ttl = 0 /\ frame = 0 /\ notices = 0
  /\ hosts = <<>> /\ host = 0 /\ theme = "dark" /\ fromSession = FALSE

----------------------------------------------------------------------------
Selected == IF host < Len(hosts) THEN {hosts[host + 1]} ELSE {}

\* (mutant) The selector stays where it is.
FollowPlace(list) == IF host < Len(list) THEN host ELSE 0

\* (mutant) The old place is kept, whether there is a job in it or not.
FollowOnly(list) ==
  LET at == {i \in DOMAIN list : list[i] \in Selected}
  IN IF at # {} THEN (CHOOSE i \in at : TRUE) - 1 ELSE host

\* The place of the selected job in the new list, or the old place if there
\* is a job in it.
Follow(list) ==
  LET at == {i \in DOMAIN list : list[i] \in Selected}
  IN IF at # {} THEN (CHOOSE i \in at : TRUE) - 1
     ELSE IF host < Len(list) THEN host ELSE 0

\* (mutant) A notice on display is not missed when it has gone.
ApplyMsgOnly(list, n, pref) ==
  /\ IF pref = "none" THEN UNCHANGED <<theme, fromSession>>
     ELSE theme' = pref /\ fromSession' = TRUE
  /\ host' = Follow(list) /\ hosts' = list /\ notices' = n
  /\ UNCHANGED <<mode, idx, ttl, frame>>

\* apply_msg.
ApplyMsg(list, n, pref) ==
  /\ IF pref = "none" THEN UNCHANGED <<theme, fromSession>>
     ELSE theme' = pref /\ fromSession' = TRUE
  /\ host' = Follow(list) /\ hosts' = list /\ notices' = n
  /\ IF mode = "notices" /\ idx >= n THEN mode' = "status" /\ idx' = 0
     ELSE UNCHANGED <<mode, idx>>
  /\ UNCHANGED <<ttl, frame>>

\* Notices and Help: the first of their pages, the next, or the status line.
Page(which, pages) ==
  IF mode = which /\ idx + 1 < pages THEN mode' = which /\ idx' = idx + 1
  ELSE IF mode # which /\ pages > 0 THEN mode' = which /\ idx' = 0
  ELSE mode' = "status" /\ idx' = 0

\* apply_action; Monitor's effects are another module's.
Action(a) ==
  /\ ttl' = IdleTicks
  /\ CASE a = "notices" -> Page("notices", notices)
       [] a = "help" -> Page("help", Pages)
       [] a = "escape" -> mode' = "status" /\ idx' = 0
       [] OTHER -> UNCHANGED <<mode, idx>>
  /\ host' = (IF hosts = <<>> THEN host
              ELSE CASE a = "host-prev" -> (host + Len(hosts) - 1) % Len(hosts)
                     [] a = "host-next" -> (host + 1) % Len(hosts)
                     [] OTHER -> host)
  /\ UNCHANGED <<frame, notices, hosts, theme, fromSession>>

\* (mutant) Showing the next notice starts the wait again.
TickRestarting ==
  /\ frame' = (frame + 1) % CycleTicks
  /\ ttl' = (IF mode = "status" \/ ttl = 0 THEN ttl
             ELSE IF mode = "notices" /\ frame' = 0 /\ notices > 1 THEN IdleTicks ELSE ttl - 1)
  /\ IF mode # "status" /\ ttl' = 0 THEN mode' = "status" /\ idx' = 0
     ELSE /\ mode' = mode
          /\ idx' = (IF mode = "notices" /\ frame' = 0 /\ notices > 1
                     THEN (idx + 1) % notices ELSE idx)
  /\ UNCHANGED <<notices, hosts, host, theme, fromSession>>

\* tick.
Tick ==
  /\ frame' = (frame + 1) % CycleTicks
  /\ ttl' = (IF mode = "status" \/ ttl = 0 THEN ttl ELSE ttl - 1)
  /\ IF mode # "status" /\ ttl' = 0 THEN mode' = "status" /\ idx' = 0
     ELSE /\ mode' = mode
          /\ idx' = (IF mode = "notices" /\ frame' = 0 /\ notices > 1
                     THEN (idx + 1) % notices ELSE idx)
  /\ UNCHANGED <<notices, hosts, host, theme, fromSession>>

\* HostTerminalThemeChanged: only until the session has said otherwise.
ThemeChanged(t) ==
  /\ ~fromSession /\ theme' = t
  /\ UNCHANGED <<bar, frame, notices, hosts, host, fromSession>>

Message == \E list \in Lists, n \in 0..MaxNotices, pref \in {"none", "dark", "light"} :
             ApplyMsg(list, n, pref)

Key == \E a \in {"notices", "help", "monitor", "host-prev", "host-next", "escape"} : Action(a)

Next == Message \/ Key \/ Tick \/ \E t \in {"dark", "light"} : ThemeChanged(t)

\* zellij fires the timer each time `update` has set it.
Fairness == WF_vars(Tick)

Spec == Init /\ [][Next]_vars /\ Fairness

----------------------------------------------------------------------------
\* A notice or a page is on display only while there is such a notice or
\* page, whatever messages have come since it was opened.
ShownExists ==
  /\ mode = "notices" => idx < notices
  /\ mode = "help" => idx < Pages

\* Whatever order the jobs come in, and whichever have gone, the panel goes
\* on showing the job it showed for as long as there is that job, until the
\* user chooses another.
KeepsItsJob ==
  hosts' # hosts /\ Selected # {} /\ Selected \subseteq ToSet(hosts') => Selected' = Selected
PanelKeepsItsJob == [][KeepsItsJob]_vars

\* Unless the user presses keys for ever the status line comes back: no
\* message and no cycling of the notices keeps the bar in another mode.
ShowsStatus == mode = "status"
StatusComesBack == []<>ShowsStatus \/ []<><<Key>>_vars
=============================================================================
