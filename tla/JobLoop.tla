------------------------------ MODULE JobLoop ------------------------------
(***************************************************************************)
(* The walltime side of the in-job supervisor, `sinteractive __job`        *)
(* (crates/sint/src/commands/job.rs): JobLoop::step cut at every call it   *)
(* makes to Slurm or zellij, and the driver `run` around it, against an    *)
(* environment that moves the clock, changes the job's time limit, ends    *)
(* the session, pokes the loop, and signals it.                            *)
(*                                                                         *)
(* `now` is the loop's local copy of the clock, read once per tick; the    *)
(* clock and the limit may move between any two calls of the same tick.    *)
(* The calls of step that touch neither the deadline nor the session keep  *)
(* state of their own: the queue refresh is modelled in QueueMonitor, the  *)
(* quota, the hint and the samplers are left out.                          *)
(***************************************************************************)
EXTENDS Integers

CONSTANTS
  None,          \* Rust's Option::None
  Ends,          \* the end times the job's limit may be moved between
  Start,         \* the epoch second the loop starts in
  MaxClock,      \* model bound: the last second the clock reaches
  MaxLag,        \* seconds within which a loop that is not overdue ends a tick
  Poll,          \* cfg.poll
  EndMinGap,     \* END_MIN_GAP
  AliveEvery,    \* ALIVE_EVERY
  AliveMisses,   \* ALIVE_MISSES
  WarnYellow, WarnRed, Grace,   \* cfg.warn_yellow, cfg.warn_red, cfg.grace
  WalltimeWarn, WalltimeRed,    \* WALLTIME_WARN_SECS, WALLTIME_RED_SECS
  SendOk,        \* send_every(Ok), SAMPLE_EVERY; the other severities' is 1
  Pauses,        \* the values of pipe_backoff
  StaleAfter     \* state.rs STALE_AFTER

ASSUME NoneAssumption == None \notin Int
ASSUME TimeAssumption ==
  /\ Start \in Nat /\ MaxClock \in Nat /\ Ends \subseteq Nat \ {0}
  /\ Poll \in Nat \ {0} /\ EndMinGap \in Nat /\ StaleAfter \in Nat
  /\ AliveEvery \in Nat \ {0} /\ AliveMisses \in Nat \ {0}
  /\ MaxLag \in Nat \ {0}
ASSUME ThresholdAssumption ==
  /\ {WarnYellow, WarnRed, Grace, WalltimeWarn, WalltimeRed, SendOk} \subseteq Nat
  /\ Pauses \subseteq Nat \ {0}
ASSUME EpochAssumption == Start > EndMinGap   \* "never" (0) is long ago

VARIABLES
  \* the environment
  clock,         \* the wall clock, in seconds
  slurmEnd,      \* the end time Slurm holds for the job
  lastTrue,      \* history: per end time, the last second it was Slurm's (0 = never)
  sessionUp,     \* the zellij session exists
  poked,         \* <jobid>.poke exists
  signalled,     \* SIGNALLED: SIGTERM or SIGINT was received
  lateAt,        \* history: the last second the loop was overdue in (0 = never)
  \* JobLoop
  pc, now,
  endEpoch, endQuery, endChecked, stateWritten,
  aliveChecked, misses,
  remaining,     \* step's local, computed once per tick before the two re-checks
  inRed, warned, redWarned,
  lastSent,
  pipeResume,    \* the second until which the plugin is left alone, 0 for None
  \* what the loop leaves outside
  file,          \* <jobid>.json, None when absent
  shown,         \* severity of the last message the plugin took
  wake,          \* the second sleep_interruptible ends in; `now` in a tick
  reason,        \* the reason `run` gives in the `ended` event
  lastUp         \* history: the second the session last answered a check

env == <<clock, slurmEnd, lastTrue, sessionUp, poked, signalled, lateAt>>
deadline == <<endEpoch, endQuery, endChecked>>
alive == <<aliveChecked, misses, lastUp>>
warnings == <<warned, redWarned>>
status == <<lastSent, pipeResume, shown>>
outside == <<reason, wake>>
loop == <<pc, now, deadline, stateWritten, alive, remaining, inRed, warnings,
          status, file, outside>>
vars == <<env, loop>>

Looping == {"top", "alive", "refresh", "decide", "enterRed", "nearEnd"}
Labels == Looping \cup {"ending", "gone", "teardown", "done"}
Severities == {"none", "ok", "yellow", "red", "ending"}

NonNeg(n) == IF n > 0 THEN n ELSE 0
Later(a, b) == IF a > b THEN a ELSE b

\* What squeue can say of the end time: nothing (unreachable, no time
\* limit), or the one it holds at that moment.
Answers == {None, slurmEnd}

\* StateFile as write_state is given it; job_id, name and node do not change
\* the properties below and are left out.
StateFile(e, t) == [end |-> e, remaining |-> NonNeg(e - t), updated |-> t]

\* (mutant) A reader that trusts a file of any age.
AgedRemainingForever(f, t) == NonNeg(f.remaining - (t - f.updated))

\* StateFile::aged_remaining, with the clamp of its result.
AgedRemaining(f, t) ==
  LET age == t - f.updated
  IN IF age \in 0..StaleAfter THEN NonNeg(f.remaining - age) ELSE None

----------------------------------------------------------------------------
(* JobLoop::new and the first lines of `run`: nothing is confirmed, and    *)
(* every stamp is 0, so that every cadence is due on the first tick.       *)
Init ==
  /\ clock = Start /\ now = Start /\ wake = Start
  /\ slurmEnd \in Ends
  /\ lastTrue = [e \in Ends |-> IF e = slurmEnd THEN Start ELSE 0]
  /\ sessionUp = TRUE /\ poked = FALSE /\ signalled = FALSE /\ lateAt = 0
  /\ pc = "top"
  /\ endEpoch = None /\ endQuery = 0 /\ endChecked = 0 /\ stateWritten = 0
  /\ aliveChecked = None /\ misses = 0 /\ lastUp = None
  /\ remaining = None /\ inRed = FALSE /\ warned = FALSE /\ redWarned = FALSE
  /\ lastSent = None /\ pipeResume = 0 /\ shown = "none"
  /\ file = None /\ reason = None

----------------------------------------------------------------------------
(* The environment.                                                        *)

\* More than MaxLag seconds since the tick began, all its calls taken
\* together; a second more when the sleep that follows it counts too.
OverdueAt(t) == pc \in Looping /\ t > now + MaxLag + (IF pc = "top" THEN 1 ELSE 0)

\* The second changes. Nothing bounds the time a call takes, or how many of
\* a tick are slow: of squeue, list-sessions and pgrep none has a timeout.
Advance ==
  /\ clock < MaxClock
  /\ clock' = clock + 1
  /\ lastTrue' = [lastTrue EXCEPT ![slurmEnd] = clock + 1]
  /\ lateAt' = IF OverdueAt(clock + 1) THEN clock + 1 ELSE lateAt
  /\ UNCHANGED <<slurmEnd, sessionUp, poked, signalled, loop>>

\* `scontrol update TimeLimit`, by the user or an operator.
ChangeLimit ==
  /\ \E e \in Ends \ {slurmEnd} :
       /\ slurmEnd' = e
       /\ lastTrue' = [lastTrue EXCEPT ![e] = clock]
  /\ UNCHANGED <<clock, sessionUp, poked, signalled, lateAt, loop>>

\* The user quits zellij, or its server dies.
SessionLost ==
  /\ sessionUp /\ sessionUp' = FALSE
  /\ UNCHANGED <<clock, slurmEnd, lastTrue, poked, signalled, lateAt, loop>>

\* `sinteractive status --refresh`, `quota check`: StateDir::poke. The file is
\* looked at in one place only, and a poke there stands for any since the last.
Poke ==
  /\ pc = "refresh" /\ ~poked /\ poked' = TRUE
  /\ UNCHANGED <<clock, slurmEnd, lastTrue, sessionUp, signalled, lateAt, loop>>

\* scancel, or Slurm's own timeout: on_signal sets the flag, nothing else. The
\* flag is read at `top` and `gone` only: a signal there stands for any earlier.
Signal ==
  /\ ~signalled /\ pc \in {"top", "gone"}
  /\ signalled' = TRUE
  /\ UNCHANGED <<clock, slurmEnd, lastTrue, sessionUp, poked, lateAt, loop>>

----------------------------------------------------------------------------
(* JobLoop::step.                                                          *)

\* (mutant) The answer is stamped with the second it came in.
RefreshStampsArrival(a) ==
  /\ endQuery' = now
  /\ IF a = None
       THEN UNCHANGED <<endEpoch, endChecked>>
       ELSE endEpoch' = a /\ endChecked' = clock

\* refresh_end_epoch with squeue's answer a: the query is always stamped,
\* the end time only when there is one.
RefreshEndEpoch(a) ==
  /\ endQuery' = now
  /\ IF a = None
       THEN UNCHANGED <<endEpoch, endChecked>>
       ELSE endEpoch' = a /\ endChecked' = now

\* Leave the tick and sleep: Continue(1s), or Continue(200ms), which may wake
\* in the same second.
Sleep(secs) == pc' = "top" /\ wake' = clock + secs

SendEvery(severity) == IF severity = "ok" THEN SendOk ELSE 1

\* NodeDeps::send_status: nothing while the plugin is left alone; else a pipe
\* that ends, though a session that is gone shows nothing, or one that is
\* killed after its two seconds, and the plugin is left alone. (A pipe that
\* cannot be spawned, or fails while the session is up, is left out.)
SendStatus(severity) ==
  IF clock < pipeResume THEN UNCHANGED <<pipeResume, shown>>
  ELSE \/ pipeResume' = 0 /\ shown' = IF sessionUp THEN severity ELSE shown
       \/ UNCHANGED shown /\ \E p \in Pauses : pipeResume' = clock + p

\* (mutant) The final message waits out the gap like any other.
SendInGap(severity, last) ==
  IF lastSent # None /\ now - lastSent < SendEvery(severity)
    THEN UNCHANGED status
    ELSE lastSent' = now /\ SendStatus(severity)

\* JobLoop::send, `last` being last_sent: silent inside the gap, and a message
\* counts as sent whether or not it arrives.
Send(severity, last) ==
  IF last # None /\ now - last < SendEvery(severity)
    THEN lastSent' = last /\ UNCHANGED <<pipeResume, shown>>
    ELSE lastSent' = now /\ SendStatus(severity)

\* `while !signalled()`: the next tick reads the clock.
BeginTick ==
  /\ pc = "top" /\ ~signalled /\ clock >= wake
  /\ now' = clock /\ wake' = clock /\ pc' = "alive"
  /\ UNCHANGED <<env, deadline, stateWritten, alive, remaining, inRed, warnings,
                 status, file, reason>>

\* (mutants) A check on every tick; a check on the first tick only.
AliveDueEveryTick == TRUE
AliveDueOnce == aliveChecked = None

AliveDue == aliveChecked = None \/ now - aliveChecked >= AliveEvery

\* The alive check: list-sessions answers for a session that is up, and may
\* miss it.
CheckAlive ==
  /\ pc = "alive"
  /\ IF ~AliveDue THEN UNCHANGED alive /\ pc' = "refresh"
     ELSE \E up \in {FALSE, sessionUp} :
       /\ aliveChecked' = now
       /\ misses' = IF up THEN 0 ELSE misses + 1
       /\ lastUp' = IF up THEN now ELSE lastUp
       /\ pc' = IF misses' >= AliveMisses THEN "gone" ELSE "refresh"
  /\ UNCHANGED <<env, now, deadline, stateWritten, remaining, inRed, warnings,
                 status, file, outside>>

\* (mutant) A due query that fails forgets the end time.
RefreshForgets ==
  /\ pc = "refresh" /\ pc' = "decide"
  /\ poked' = FALSE
  /\ stateWritten' = IF poked THEN 0 ELSE stateWritten
  /\ IF now - stateWritten' >= Poll /\ now - endQuery >= EndMinGap
       THEN \E a \in Answers : endEpoch' = a /\ endQuery' = now
              /\ endChecked' = IF a = None THEN endChecked ELSE now
       ELSE UNCHANGED deadline
  /\ UNCHANGED <<clock, slurmEnd, lastTrue, sessionUp, signalled, lateAt, now, alive,
                 remaining, inRed, warnings, status, file, outside>>

\* take_poke, then the query in front of a due write.
Refresh ==
  /\ pc = "refresh" /\ pc' = "decide"
  /\ poked' = FALSE
  /\ stateWritten' = IF poked THEN 0 ELSE stateWritten
  /\ IF now - stateWritten' >= Poll /\ now - endQuery >= EndMinGap
       THEN \E a \in Answers : RefreshEndEpoch(a)
       ELSE UNCHANGED deadline
  /\ UNCHANGED <<clock, slurmEnd, lastTrue, sessionUp, signalled, lateAt, now, alive,
                 remaining, inRed, warnings, status, file, outside>>

\* check_walltime_events: the flags stand for the events, sent as a flag
\* rises and re-armed above the line.
CheckWalltimeEvents(r) ==
  /\ warned' = (r <= WalltimeWarn)
  /\ redWarned' = (r <= WalltimeRed)

\* (mutant) The countdown is written whether or not it was confirmed.
WriteDueUnconfirmed == now - stateWritten >= Poll

\* write_state, on a deadline confirmed no more than END_MIN_GAP ago.
WriteDue == now - stateWritten >= Poll /\ now - endChecked <= EndMinGap

WriteState ==
  IF WriteDue
    THEN stateWritten' = now /\ file' = StateFile(endEpoch, now)
    ELSE UNCHANGED <<stateWritten, file>>

\* No end time yet: a plain dot.
NoDeadline ==
  /\ pc = "decide" /\ endEpoch = None
  /\ Send("ok", lastSent) /\ Sleep(1)
  /\ UNCHANGED <<env, now, deadline, stateWritten, alive, remaining, inRed,
                 warnings, file, reason>>

\* Above warn_red: the green and the yellow branch.
Calm ==
  /\ pc = "decide" /\ endEpoch # None
  /\ LET r == NonNeg(endEpoch - now)
     IN /\ r > WarnYellow \/ r > WarnRed
        /\ CheckWalltimeEvents(r)
        /\ Send(IF r > WarnYellow THEN "ok" ELSE "yellow", lastSent)
  /\ WriteState
  /\ inRed' = FALSE
  /\ Sleep(1)
  /\ UNCHANGED <<env, now, deadline, alive, remaining, reason>>

\* (mutant) The session is left running until its very last second.
RedOrEndLate(r) ==
  IF r <= 0
    THEN pc' = "nearEnd" /\ remaining' = r /\ UNCHANGED <<status, wake>>
    ELSE Send("red", lastSent) /\ Sleep(0) /\ remaining' = None

\* The rest of a red tick: another query when the session is about to be
\* ended, the red message otherwise.
RedOrEnd(r) ==
  IF r <= Grace
    THEN pc' = "nearEnd" /\ remaining' = r /\ UNCHANGED <<status, wake>>
    ELSE Send("red", lastSent) /\ Sleep(0) /\ remaining' = None

\* (mutants) The answer is not looked at; it is off by one.
ExtendedNever(a, line) == FALSE
ExtendedLoosely(a, line) == a # None /\ a - now > line + 1

\* The re-check before an alarm: Slurm's answer lies beyond the line.
Extended(a, line) == a # None /\ a - now > line

\* Red: on entry the deadline is queried again before anything is shown.
Red ==
  /\ pc = "decide" /\ endEpoch # None
  /\ LET r == NonNeg(endEpoch - now)
     IN /\ r <= WarnYellow /\ r <= WarnRed
        /\ CheckWalltimeEvents(r)
        /\ IF inRed THEN RedOrEnd(r)
           ELSE pc' = "enterRed" /\ remaining' = r /\ UNCHANGED <<status, wake>>
  /\ WriteState
  /\ UNCHANGED <<env, now, deadline, alive, inRed, reason>>

\* The query on entry. An extension it confirms ends the tick; otherwise the
\* tick goes on with the `remaining` it had before the query.
EnterRed ==
  /\ pc = "enterRed"
  /\ \E a \in Answers :
       /\ RefreshEndEpoch(a)
       /\ IF Extended(a, WarnRed)
            THEN Sleep(0) /\ remaining' = None /\ UNCHANGED <<inRed, status>>
            ELSE inRed' = TRUE /\ RedOrEnd(remaining)
  /\ UNCHANGED <<env, now, stateWritten, alive, warnings, file, reason>>

\* The query before the session is ended; no answer ends it too.
NearEnd ==
  /\ pc = "nearEnd"
  /\ remaining' = None
  /\ \E a \in Answers :
       /\ RefreshEndEpoch(a)
       /\ IF Extended(a, Grace)
            THEN Sleep(0) /\ UNCHANGED status
            ELSE pc' = "ending" /\ Send("ending", None) /\ UNCHANGED wake
  /\ UNCHANGED <<env, now, stateWritten, alive, inRed, warnings, file, reason>>

----------------------------------------------------------------------------
(* The driver: run, from the loop's exit to the teardown.                  *)

\* kill-session, whose status nobody looks at.
KillSession == sessionUp' \in {FALSE, sessionUp}

\* Step::Ending: the farewell line, the pause, kill-session. A signal that
\* arrives meanwhile does not change the reason (`ended_by_us`).
EndSession ==
  /\ pc = "ending" /\ pc' = "teardown"
  /\ KillSession /\ reason' = "walltime"
  /\ UNCHANGED <<clock, slurmEnd, lastTrue, poked, signalled, lateAt, now, deadline,
                 stateWritten, alive, remaining, inRed, warnings, status, file,
                 wake>>

\* The loop was left by a signal, or by Step::Gone with or without one.
LeaveLoop ==
  /\ pc = "gone" \/ (pc = "top" /\ signalled)
  /\ pc' = "teardown"
  /\ IF signalled THEN KillSession /\ reason' = "signal"
                  ELSE UNCHANGED sessionUp /\ reason' = "gone"
  /\ UNCHANGED <<clock, slurmEnd, lastTrue, poked, signalled, lateAt, now, deadline,
                 stateWritten, alive, remaining, inRed, warnings, status, file,
                 wake>>

\* The `ended` event and StateDir::cleanup, which also takes a pending poke.
Teardown ==
  /\ pc = "teardown" /\ pc' = "done"
  /\ file' = None /\ poked' = FALSE
  /\ UNCHANGED <<clock, slurmEnd, lastTrue, sessionUp, signalled, lateAt, now, deadline,
                 stateWritten, alive, remaining, inRed, warnings, status,
                 outside>>

----------------------------------------------------------------------------
Environment == /\ pc # "done"
               /\ Advance \/ ChangeLimit \/ SessionLost \/ Poke \/ Signal
Tick == \/ BeginTick \/ CheckAlive \/ Refresh
        \/ NoDeadline \/ Calm \/ Red \/ EnterRed \/ NearEnd
Leave == EndSession \/ LeaveLoop \/ Teardown

Next == Environment \/ Tick \/ Leave

Spec == Init /\ [][Next]_vars

\* A child without a timeout is, or may be, waited for: list-sessions,
\* the calls before the query and the query itself, the two queries of the
\* red phase, write-chars and kill-session.
InCall ==
  \/ pc \in {"refresh", "enterRed", "nearEnd", "ending"}
  \/ pc = "alive" /\ AliveDue
  \/ pc \in {"top", "gone"} /\ signalled

\* Time passes, and the process runs where it waits for no such child; that
\* one returns is not assumed, nor anything of Slurm's answers or the user.
FairSpec == Spec /\ WF_vars(Advance) /\ WF_vars(~InCall /\ (Tick \/ Leave))

----------------------------------------------------------------------------
StampType ==
  /\ clock \in Start..Later(Start, MaxClock) /\ now \in Start..clock /\ wake \in Nat
  /\ lateAt \in 0..clock /\ pipeResume \in Nat
  /\ endQuery \in 0..now /\ endChecked \in 0..now /\ stateWritten \in 0..now
  /\ aliveChecked \in (0..now) \cup {None} /\ lastUp \in (0..now) \cup {None}
  /\ lastSent \in (0..now) \cup {None}
  /\ misses \in Nat
EndType ==
  /\ slurmEnd \in Ends /\ endEpoch \in Ends \cup {None}
  /\ lastTrue \in [Ends -> 0..clock]
  /\ remaining \in Nat \cup {None}
  /\ file \in [end : Ends, remaining : Nat, updated : 0..now] \cup {None}
FlagType ==
  /\ sessionUp \in BOOLEAN /\ poked \in BOOLEAN /\ signalled \in BOOLEAN
  /\ inRed \in BOOLEAN /\ warned \in BOOLEAN /\ redWarned \in BOOLEAN
  /\ pc \in Labels /\ shown \in Severities
  /\ reason \in {None, "walltime", "gone", "signal"}
TypeOK == StampType /\ EndType /\ FlagType

\* The honesty contract of state.rs: the end time in <jobid>.json was Slurm's
\* no longer than END_MIN_GAP before the file's updated_epoch, whatever Slurm
\* answered, was asked or was changed to in between.
FileHonest ==
  file # None => lastTrue[file.end] >= file.updated - EndMinGap

\* What a reader of the file is owed: when aged_remaining answers at all, it
\* is the exact time to an end that was Slurm's at most STALE_AFTER plus
\* END_MIN_GAP ago, however long the scheduler has been silent.
ReaderContract ==
  file # None =>
    LET r == AgedRemaining(file, clock)
    IN r # None => /\ r = NonNeg(file.end - clock)
                   /\ lastTrue[file.end] >= clock - StaleAfter - EndMinGap

\* A session is given up only after a whole run of misses: it last answered
\* at least ALIVE_MISSES checks ago, so one slow list-sessions never ends it.
GoneOnlyAfterSilence ==
  pc = "gone" => now - (IF lastUp = None THEN Start - AliveEvery ELSE lastUp)
                   >= AliveMisses * AliveEvery

\* A message of this step arrived.
Arrives == /\ lastSent' # lastSent /\ sessionUp
           /\ clock >= pipeResume /\ pipeResume' = 0

\* No crying wolf: when a red message arrives, the last deadline Slurm
\* confirmed is inside warn_red.
RedIsConfirmed == [][Arrives /\ shown' = "red" => endEpoch' - now <= WarnRed]_vars

\* The session is never ended on a deadline that Slurm last confirmed outside
\* the red phase (or outside the grace, when that is configured longer).
EndingIsNear ==
  pc = "ending" => endEpoch - now <= Later(WarnRed, Grace)

\* The session is ended with everybody told: both walltime events were sent
\* since the deadline was last far away, and the bar shows Ending even when a
\* red message went out in the same second. The message is lost only while
\* the plugin is left alone for a pipe that timed out, or with the session.
EndingIsAnnounced ==
  pc = "ending" => /\ \/ shown = "ending" \/ now < pipeResume \/ ~sessionUp
                   /\ Grace <= WalltimeRed => redWarned
                   /\ Grace <= WalltimeWarn => warned

Timely == {Grace, WarnRed, WarnYellow} \subseteq {n \in Nat : n > 2 * MaxLag}

\* The point of the grace: a loop that knew its deadline with the grace still
\* to come leaves the loop before that deadline, so that the teardown runs and
\* not Slurm's kill, if it was not overdue in the grace: if there no tick took
\* longer than MaxLag, all its calls together, and the lines allow for two.
EndsBeforeDeadline ==
  Timely =>
    (pc \in Looping /\ endEpoch # None /\ endEpoch - endChecked > Grace
     /\ lateAt < endEpoch - Grace
       => clock < endEpoch)

\* The seconds that ALIVE_MISSES checks may take in a loop that is not overdue.
NoticeTime == AliveMisses * (AliveEvery + MaxLag)

\* A session lost while there is time for ALIVE_MISSES checks is noticed, or
\* the loop was overdue in that time.
SessionLossNoticed ==
  (~sessionUp /\ clock + NoticeTime <= MaxClock)
    ~> (pc = "done" \/ lateAt > MaxClock - NoticeTime)

\* A loop that has once been told its deadline ends, whatever Slurm does
\* afterwards: the limit moves, or every later query fails; unless it is
\* overdue in the last second of the model, where a sleep has no end.
DeadlineEnds == (endEpoch # None) ~> (pc = "done" \/ lateAt = MaxClock)

\* A session is ended for a reason, and with everybody told: the silence of a
\* whole run of checks, or a deadline that both events announced.
EndingIsFounded == GoneOnlyAfterSilence /\ EndingIsAnnounced

\* If no call hangs for ever, the loop ends: soon after its session is lost, and
\* at the deadline that it was told, whatever Slurm answers later.
LoopEnds == []<>~InCall => SessionLossNoticed /\ DeadlineEnds

\* job.rs:898-902, "re-check so an extension inside that window is honoured":
\* the session is ended only on a deadline within the grace.
ExtensionHonoured == pc = "ending" => endEpoch - now <= Grace

\* job.rs:856-860, "When squeue is unreachable the file is left alone ...
\* A failed query leaves state_written unadvanced": a query of this tick that
\* failed is not followed by a write in this tick.
FailedQueryLeavesFile ==
  [][pc = "decide" /\ endQuery = now /\ endChecked < now => file' = file]_vars
=============================================================================
