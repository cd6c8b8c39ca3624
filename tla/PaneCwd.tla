------------------------------ MODULE PaneCwd ------------------------------
(***************************************************************************)
(* The CWD column of `list` (commands/list.rs, metrics/pane.rs): on the    *)
(* session's node, the working directory of the oldest bash of the job is  *)
(* read in three looks at /proc, while processes come and go and pids are  *)
(* given out again. Names are bash or another, start times are ticks.      *)
(***************************************************************************)
EXTENDS Integers

CONSTANTS
  PidBound,    \* the pids that there are
  Folders,     \* directories
  StartBound,  \* bound on the processes started
  None

VARIABLES
  proc,        \* by pid: the process, None when there is none
  shell,       \* the pid of the pane's shell
  starts,      \* how many processes were started
  look,        \* where session_cwd is: "no", "pids", "cwd", "done", "failed"
  todo,        \* the pids listed and not yet read
  candidates,  \* stat_candidates, so far
  pid,         \* pane_shell_pid's result
  cwd,         \* and that of session_cwd
  lived, were  \* history: whether the pane's shell was there all the time, and where

vars == <<proc, shell, starts, look, todo, candidates, pid, cwd, lived, were>>

Pids == 1..PidBound
Process(comm, starttime, at) == [comm |-> comm, starttime |-> starttime, at |-> at]
Is(p, comm) == proc[p] # None /\ proc[p].comm = comm

TypeOK ==
  /\ shell \in Pids /\ starts \in 0..StartBound /\ cwd \in Folders \cup {None}
  /\ todo \subseteq Pids /\ pid \in Pids \cup {None} /\ were \subseteq Folders
  /\ \A c \in candidates : c.pid \in Pids /\ c.starttime \in 0..StartBound

\* The session's shell, at whichever pid.
Init ==
  /\ shell \in Pids /\ \E f \in Folders : proc = [p \in Pids |-> IF p = shell THEN Process("bash", 0, f) ELSE None]
  /\ starts = 0 /\ look = "no" /\ todo = {} /\ candidates = {} /\ pid = None /\ cwd = None
  /\ lived = TRUE /\ were = {}

----------------------------------------------------------------------------
(* The job.                                                                *)

Cd(f) ==
  /\ Is(shell, "bash") /\ lived /\ proc' = [proc EXCEPT ![shell].at = f] /\ were' = were \cup {f}
  /\ UNCHANGED <<shell, starts, look, todo, candidates, pid, cwd, lived>>

\* A subshell, a script, an editor; the pids have wrapped round.
Fork(p, comm, f) ==
  /\ proc[p] = None /\ starts < StartBound /\ starts' = starts + 1
  /\ proc' = [proc EXCEPT ![p] = Process(comm, starts', f)]
  /\ UNCHANGED <<shell, look, todo, candidates, pid, cwd, lived, were>>

Exit(p) ==
  /\ proc[p] # None /\ proc' = [proc EXCEPT ![p] = None] /\ lived' = (lived /\ p # shell)
  /\ UNCHANGED <<shell, starts, look, todo, candidates, pid, cwd, were>>

----------------------------------------------------------------------------
(* `list`, over ssh.                                                       *)

ListPids ==
  /\ look = "no" /\ look' = "pids" /\ todo' = {p \in Pids : proc[p] # None}
  /\ were' = {proc[p].at : p \in {shell} \ {q \in Pids : proc[q] = None}}
  /\ UNCHANGED <<proc, shell, starts, candidates, pid, cwd, lived>>

\* (mutant) One process that cannot be read ends it all.
StatCandidatesOrNone(p) ==
  /\ look = "pids" /\ p \in todo /\ todo' = todo \ {p}
  /\ IF proc[p] = None
     THEN look' = "done" /\ UNCHANGED candidates
     ELSE /\ candidates' = candidates \cup {[pid |-> p, comm |-> proc[p].comm, starttime |-> proc[p].starttime]}
          /\ UNCHANGED look
  /\ UNCHANGED <<proc, shell, starts, pid, cwd, lived, were>>

\* stat_candidates: a process that has gone is left out.
stat_candidates(p) ==
  /\ look = "pids" /\ p \in todo /\ todo' = todo \ {p}
  /\ candidates' = candidates \cup
       {[pid |-> q, comm |-> proc[q].comm, starttime |-> proc[q].starttime] : q \in {q \in {p} : proc[q] # None}}
  /\ UNCHANGED <<proc, shell, starts, look, pid, cwd, lived, were>>

\* (mutant) The bash of the lowest pid is the first that was started.
PickLowest(of) == {c \in of : c.comm = "bash" /\ \A d \in of : d.comm = "bash" => c.pid <= d.pid}
\* The bash that was started first.
pick_pane_shell(of) == {c \in of : c.comm = "bash" /\ \A d \in of : d.comm = "bash" => c.starttime <= d.starttime}

Pick ==
  /\ look = "pids" /\ todo = {} /\ candidates' = {}
  /\ LET picked == pick_pane_shell(candidates)
     IN  \/ picked = {} /\ look' = "done" /\ UNCHANGED pid
         \/ \E c \in picked : pid' = c.pid /\ look' = "cwd"
  /\ UNCHANGED <<proc, shell, starts, todo, cwd, lived, were>>

ReadCwd ==
  /\ look = "cwd" /\ look' = "done"
  /\ cwd' = IF proc[pid] = None THEN None ELSE proc[pid].at
  /\ UNCHANGED <<proc, shell, starts, todo, candidates, pid, lived, were>>

\* fetch_cwds: no connection within 3 s, no cgroup, no permission.
SshFails ==
  /\ look \in {"pids", "cwd"} /\ look' = "failed" /\ todo' = {} /\ candidates' = {} /\ pid' = None
  /\ UNCHANGED <<proc, shell, starts, cwd, lived, were>>

Next ==
  \/ \E f \in Folders : Cd(f) \/ \E p \in Pids, comm \in {"bash", "other"} : Fork(p, comm, f)
  \/ \E p \in Pids : Exit(p) \/ stat_candidates(p)
  \/ ListPids \/ Pick \/ ReadCwd \/ SshFails

----------------------------------------------------------------------------
(* Properties.                                                             *)

\* As long as the pane's shell lives, what is shown is where it was at some
\* time of the look, never where a script or a subshell of it is, whatever pids
\* these were given.
CwdIsTheShells == look = "done" /\ lived /\ cwd # None => cwd \in were

\* And it is shown: processes of the job that end between two looks, or that are
\* no shells, do not hide it.
PaneIsFound == look = "done" /\ lived => cwd # None
=============================================================================
