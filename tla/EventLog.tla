------------------------------ MODULE EventLog ------------------------------
(***************************************************************************)
(* A session's event log and `sinteractive events --follow` on the login   *)
(* node. The session's loop appends to <jobid>.events.ndjson and writes    *)
(* <jobid>.json; its driver appends `ended` and removes both files in      *)
(* StateDir::cleanup. The follower (crates/sint/src/commands/events.rs)    *)
(* reads the log and looks at the state file in two separate steps, once a *)
(* second, and has nothing else to go by.                                  *)
(***************************************************************************)
EXTENDS Naturals, Sequences

CONSTANTS MaxEvents,   \* model bound: events a session appends before `ended`
          MayBeKilled  \* whether the session may die without a teardown

VARIABLES
  phase,      \* the session: running, ended, cleaning, over or killed
  stateFile,  \* <jobid>.json exists
  log,        \* the events in the log, <<>> when the file is absent
  appended,   \* history: every event ever appended
  at,         \* the follower: start, read, check or stopped
  seen,       \* state_seen
  printed,    \* printed
  out         \* what it has printed

session == <<phase, stateFile, log, appended>>
follower == <<at, seen, printed, out>>
vars == <<session, follower>>

Event == [id : 1..(MaxEvents + 1), kind : {"tick", "ended"}]

TypeOK ==
  /\ phase \in {"running", "ended", "cleaning", "over", "killed"}
  /\ stateFile \in BOOLEAN /\ seen \in BOOLEAN
  /\ log \in Seq(Event) /\ appended \in Seq(Event) /\ out \in Seq(Event)
  /\ at \in {"start", "read", "check", "stopped"}
  /\ printed \in 0..Len(appended)
  /\ phase = "over" => log = <<>> /\ ~stateFile

Init ==
  /\ phase = "running" /\ stateFile = FALSE /\ log = <<>> /\ appended = <<>>
  /\ at = "start" /\ seen = FALSE /\ printed = 0 /\ out = <<>>

----------------------------------------------------------------------------
(* The session.                                                            *)

\* events::append: one whole line at the end, creating the file.
Emit(kind) ==
  LET e == [id |-> Len(appended) + 1, kind |-> kind]
  IN log' = Append(log, e) /\ appended' = Append(appended, e)

EmitEvent ==
  /\ phase = "running" /\ Len(appended) < MaxEvents
  /\ Emit("tick")
  /\ UNCHANGED <<phase, stateFile, follower>>

\* write_state; a session whose end time squeue never gives has no such file.
WriteStateFile ==
  /\ phase = "running" /\ stateFile' = TRUE
  /\ UNCHANGED <<phase, log, appended, follower>>

EmitEnded ==
  /\ phase = "running" /\ phase' = "ended"
  /\ Emit("ended")
  /\ UNCHANGED <<stateFile, follower>>

\* (mutant) The state file is left to age.
KeepStateFile ==
  /\ phase = "ended" /\ phase' = "cleaning"
  /\ UNCHANGED <<stateFile, log, appended, follower>>

\* cleanup removes the state file first ...
RemoveStateFile ==
  /\ phase = "ended" /\ phase' = "cleaning"
  /\ stateFile' = FALSE
  /\ UNCHANGED <<log, appended, follower>>

\* ... and the log last.
RemoveLog ==
  /\ phase = "cleaning" /\ phase' = "over"
  /\ log' = <<>>
  /\ UNCHANGED <<stateFile, appended, follower>>

\* SIGKILL after KillWait, or the node fails: the files stay.
Killed ==
  /\ MayBeKilled /\ phase \notin {"over", "killed"} /\ phase' = "killed"
  /\ UNCHANGED <<stateFile, log, appended, follower>>

----------------------------------------------------------------------------
(* The follower.                                                           *)

Start ==
  /\ at = "start" /\ at' = "read"
  /\ seen' = stateFile
  /\ UNCHANGED <<session, printed, out>>

\* (mutant) Every line of the log is printed on every poll.
ReadAgain ==
  /\ at = "read" /\ out' = out \o log /\ printed' = Len(log)
  /\ at' = IF \E i \in 1..Len(log) : log[i].kind = "ended" THEN "stopped" ELSE "check"
  /\ UNCHANGED <<session, seen>>

\* Print what follows the lines printed so far; `ended` among them stops it.
Read ==
  /\ at = "read"
  /\ LET new == SubSeq(log, printed + 1, Len(log))
     IN /\ out' = out \o new
        /\ at' = IF \E i \in 1..Len(new) : new[i].kind = "ended" THEN "stopped" ELSE "check"
  /\ printed' = Len(log)
  /\ UNCHANGED <<session, seen>>

\* (mutant) A state file that was never there counts as gone.
CheckUnseen ==
  /\ at = "check"
  /\ at' = IF ~stateFile THEN "stopped" ELSE "read"
  /\ seen' = (seen \/ stateFile)
  /\ UNCHANGED <<session, printed, out>>

\* (mutant) Only the `ended` event counts.
CheckNothing ==
  /\ at = "check" /\ at' = "read"
  /\ seen' = (seen \/ stateFile)
  /\ UNCHANGED <<session, printed, out>>

\* The state file that was there is gone: the session is over.
Check ==
  /\ at = "check"
  /\ at' = IF seen /\ ~stateFile THEN "stopped" ELSE "read"
  /\ seen' = (seen \/ stateFile)
  /\ UNCHANGED <<session, printed, out>>

----------------------------------------------------------------------------
Session == \/ EmitEvent \/ WriteStateFile \/ EmitEnded \/ RemoveStateFile
           \/ RemoveLog \/ Killed
Follower == Start \/ Read \/ Check

Next == Session \/ Follower
Spec == Init /\ [][Next]_vars

\* The follower polls for ever; a teardown, once begun, is carried through.
Fairness == WF_vars(Follower) /\ WF_vars(RemoveStateFile) /\ WF_vars(RemoveLog)

FairSpec == Spec /\ Fairness

----------------------------------------------------------------------------
\* What is printed is what was appended: in order, once each and with no gap,
\* wherever the polls fall between appends and removals.
PrintsAPrefix ==
  Len(out) <= Len(appended) /\ out = SubSeq(appended, 1, Len(out))

\* The follower stops for nothing but the end of the session.
StopsOnlyAtTheEnd == at = "stopped" => phase \in {"ended", "cleaning", "over", "killed"}

\* A follower that has seen the state file of a session that is torn down
\* stops, even when it misses the `ended` event.
StopsAfterTeardown == (seen /\ phase \in {"cleaning", "over"}) ~> at = "stopped"

\* events.rs:53-57, "whatever was appended last has been printed above": a
\* follower that has stopped has printed every event.
EverythingPrinted == at = "stopped" => out = appended
=============================================================================
