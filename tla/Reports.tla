------------------------------ MODULE Reports ------------------------------
(***************************************************************************)
(* What the supervisor's loop tells the user: the notices (notices.rs and  *)
(* the middle of JobLoop::step) in <jobid>.notices, written when the set   *)
(* changes, and in the status messages piped to the plugin, which may not  *)
(* answer for a while (NodeDeps::send_status). Quota and hint fall due on  *)
(* cadences of their own: any tick may be theirs.                          *)
(***************************************************************************)
EXTENDS Naturals, FiniteSets

CONSTANTS
  None,
  SendOk,      \* send_every(Ok); one second for every other severity
  PipeWait,    \* how long a pipe is waited for
  MaxPause     \* the longest pipe_backoff

VARIABLES
  answering,                        \* the plugin answers a pipe
  at,
  quotaNotice, hintWanted, last,    \* JobLoop; `last` is last_notices
  file,                             \* what <jobid>.notices lists, {} when it is absent
  severity, gap, pause, timeouts,   \* seconds since last_sent, and to pipe_resume
  shown,                            \* the notices of the last message that arrived
  writeFailed,                      \* history: the last write of the file failed
  answers, untold                   \* history: seconds the plugin has answered, and none came

vars == <<answering, at, quotaNotice, hintWanted, last, file,
          severity, gap, pause, timeouts, shown, writeFailed, answers, untold>>
pipe == <<gap, pause, timeouts, shown>>
clocks == <<answers, untold>>

Lesser(a, b) == IF a < b THEN a ELSE b
Ago(a, secs) == IF a > secs THEN a - secs ELSE 0

\* Long enough for any pause, the gap after it and the wait for one message.
Patience == MaxPause + SendOk + PipeWait

TypeOK ==
  /\ answering \in BOOLEAN
  /\ at \in {"look", "send", "sleep"} /\ quotaNotice \in BOOLEAN /\ hintWanted \in BOOLEAN
  /\ last \in {None} \cup SUBSET {"quota", "hint"} /\ file \in SUBSET {"quota", "hint"}
  /\ severity \in {"ok", "red"} /\ gap \in 0..SendOk /\ pause \in 0..MaxPause
  /\ timeouts \in 0..4 /\ writeFailed \in BOOLEAN
  /\ answers \in 0..(Patience + 1) /\ untold \in 0..(Patience + 1)

Init ==
  /\ answering = FALSE
  /\ at = "look" /\ quotaNotice = FALSE /\ hintWanted = FALSE /\ last = None
  /\ file = {} /\ severity = "ok" /\ gap = SendOk /\ pause = 0 /\ timeouts = 0
  /\ shown = None /\ writeFailed = FALSE /\ answers = 0 /\ untold = 0

----------------------------------------------------------------------------
\* quota first, as the severe one, then the hint; the order is the set's.
Notices(quota, hint) == (IF quota THEN {"quota"} ELSE {}) \cup (IF hint THEN {"hint"} ELSE {})

\* (mutant) A set that only lost notices is not written.
WriteMore(set) ==
  \/ file' = (IF set \subseteq file THEN file ELSE set) /\ writeFailed' = FALSE
  \/ set # {} /\ writeFailed' = TRUE /\ UNCHANGED file

\* notices::write: an empty list removes the file, which a disk over its
\* quota allows.
WriteNotices(set) ==
  \/ file' = set /\ writeFailed' = FALSE
  \/ set # {} /\ writeFailed' = TRUE /\ UNCHANGED file

\* The tick up to the notices file, with what read_quota and
\* claude_hint_wanted find where they are due. An error of the write is
\* printed, and last_notices set all the same.
Look ==
  /\ at = "look" /\ at' = "send"
  /\ quotaNotice' \in BOOLEAN /\ hintWanted' \in BOOLEAN
  /\ LET current == Notices(quotaNotice', hintWanted')
     IN  IF last = current THEN UNCHANGED <<last, file, writeFailed>>
         ELSE WriteNotices(current) /\ last' = current
  /\ UNCHANGED <<answering, severity, pipe, clocks>>

\* (mutant) The pause goes on doubling.
BackoffUncapped(n) == 2 * 2 ^ n
PipeBackoff(n) == Lesser(2 * 2 ^ (IF n < 1 THEN 1 ELSE Lesser(n, 4)), MaxPause)

Every == IF severity = "ok" THEN SendOk ELSE 1

\* JobLoop::send and send_status: silent in the gap and in the pause, though
\* the message counts as sent in the latter.
Send ==
  /\ at = "send" /\ at' = "sleep"
  /\ IF gap < Every THEN UNCHANGED <<pipe, clocks>>
     ELSE /\ gap' = 0
          /\ CASE pause > 0 -> UNCHANGED <<pause, timeouts, shown, clocks>>
               [] pause = 0 /\ answering ->
                    /\ timeouts' = 0 /\ pause' = 0 /\ shown' = Notices(quotaNotice, hintWanted)
                    /\ untold' = 0 /\ UNCHANGED answers
               [] OTHER ->
                    /\ timeouts' = Lesser(timeouts + 1, 4) /\ pause' = PipeBackoff(timeouts + 1)
                    /\ untold' = Lesser(untold + PipeWait, Patience + 1) /\ UNCHANGED <<shown, answers>>
  /\ UNCHANGED <<answering, quotaNotice, hintWanted, last, file, severity, writeFailed>>

\* Continue(1s), and the severity of the next tick.
Sleep ==
  /\ at = "sleep" /\ at' = "look"
  /\ gap' = Lesser(gap + 1, SendOk) /\ pause' = Ago(pause, 1)
  /\ severity' \in {"ok", "red"}
  /\ answers' = IF answering THEN Lesser(answers + 1, Patience + 1) ELSE 0
  /\ untold' = Lesser(untold + 1, Patience + 1)
  /\ UNCHANGED <<answering, quotaNotice, hintWanted, last, file, timeouts, shown, writeFailed>>

\* A plugin answers while a client renders it and it is not stuck.
PluginChanges ==
  /\ answering' = ~answering /\ answers' = 0
  /\ UNCHANGED <<at, quotaNotice, hintWanted, last, file, severity, pipe, writeFailed, untold>>

Next == Look \/ Send \/ Sleep \/ PluginChanges
Spec == Init /\ [][Next]_vars

----------------------------------------------------------------------------
\* A plugin that answers again is told before long: it is not left alone for
\* longer than the longest pause, however often it has timed out.
PluginIsTold == answers > Patience => untold <= Patience

\* The file lists the notices of the last tick, and is absent when there are
\* none ("absence means nothing to say", notices.rs:4), except after a write
\* that failed.
FileSaysIt ==
  at # "look" /\ ~writeFailed => file = Notices(quotaNotice, hintWanted)
=============================================================================
