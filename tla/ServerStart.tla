---------------------------- MODULE ServerStart ----------------------------
(***************************************************************************)
(* The start of a session on its node (`run` and `start_server` in         *)
(* commands/job.rs) against zellij: the create-background client spawns    *)
(* the server and then gives it the session's data; a client that connects *)
(* in between makes the server panic. The launcher waits for the marker.   *)
(***************************************************************************)
EXTENDS Naturals

CONSTANTS None,
  Deadline     \* how many rounds start_server looks at the server for

VARIABLES
  at, round, clientDone, signalled,   \* start_server and the end of run
  client, server,                     \* zellij: its client and its server
  config, ready,                      \* the two markers, and the server as ready was written
  told                                \* whose config the launcher's client attaches with

vars == <<at, round, clientDone, signalled, client, server, config, ready, told>>
zellij == <<client, server>>
markers == <<config, ready>>

TypeOK ==
  /\ at \in {"spawn", "look", "asking", "config", "ready", "loop", "failed"} /\ round \in 0..Deadline
  /\ clientDone \in BOOLEAN /\ signalled \in BOOLEAN /\ config \in {"absent", "written", "failed"}
  /\ client \in {"none", "spawns", "configures", "done", "failed", "killed"}
  /\ server \in {"none", "bare", "session", "panicked", "gone"}
  /\ ready \in {"absent", "written"} /\ told \in {None, "job", "own"}

Init ==
  /\ at = "spawn" /\ round = 0 /\ clientDone = FALSE /\ signalled = FALSE
  /\ client = "none" /\ server = "none" /\ config = "absent" /\ ready = "absent" /\ told = None

Fails == at' = "failed"

----------------------------------------------------------------------------
Spawn ==
  /\ at = "spawn"
  /\ \/ at' = "look" /\ client' = "spawns"
     \/ Fails /\ UNCHANGED client
  /\ UNCHANGED <<round, clientDone, signalled, server, markers, told>>

\* list-sessions: it connects to a server that is there, and may fail.
Connect == server' = IF server = "bare" THEN "panicked" ELSE server
Listed == server = "session"

\* (mutant) The session is looked for from the first round.
LookAtOnce ==
  /\ at = "look" /\ round < Deadline /\ round' = round + 1
  /\ Connect /\ at' = "asking"
  /\ UNCHANGED <<clientDone, signalled, client, markers, told>>

\* (mutant) No deadline.
LookForever ==
  /\ at = "look" /\ round < Deadline
  /\ IF clientDone
     THEN Connect /\ at' = "asking" /\ UNCHANGED clientDone
     ELSE /\ clientDone' = (client = "done") /\ UNCHANGED server
          /\ IF client = "failed" \/ signalled THEN Fails ELSE UNCHANGED at
  /\ UNCHANGED <<round, signalled, client, markers, told>>

\* One round, 200 ms or more after the last: the client until it has finished,
\* the session after that.
Look ==
  /\ at = "look" /\ round < Deadline /\ round' = round + 1
  /\ IF clientDone
     THEN Connect /\ at' = "asking" /\ UNCHANGED clientDone
     ELSE /\ clientDone' = (client = "done") /\ UNCHANGED server
          /\ IF client = "failed" \/ signalled THEN Fails ELSE UNCHANGED at
  /\ UNCHANGED <<signalled, client, markers, told>>

\* What list-sessions says, when it has said it; it may have failed.
Answered ==
  /\ at = "asking"
  /\ \/ Listed /\ at' = "config"
     \/ IF signalled THEN Fails ELSE at' = "look"
  /\ UNCHANGED <<round, clientDone, signalled, zellij, markers, told>>

\* The client is killed; the server it may have spawned is not.
GiveUp ==
  /\ at = "look" /\ round = Deadline /\ Fails
  /\ client' = IF client \in {"spawns", "configures"} THEN "killed" ELSE client
  /\ UNCHANGED <<round, clientDone, signalled, server, markers, told>>

\* An error of the config marker is dropped, one of the ready marker is not.
WriteConfig ==
  /\ at = "config" /\ at' = "ready" /\ config' \in {"written", "failed"}
  /\ UNCHANGED <<round, clientDone, signalled, zellij, ready, told>>

\* (mutant) The marker the launcher waits for comes first.
ReadyFirst ==
  /\ at \in {"config", "ready"} /\ at' = "loop" /\ ready' = "written"
  /\ UNCHANGED <<round, clientDone, signalled, zellij, config, told>>

WriteReady ==
  /\ at = "ready"
  /\ \/ at' = "loop" /\ ready' = "written"
     \/ Fails /\ UNCHANGED ready
  /\ UNCHANGED <<round, clientDone, signalled, zellij, config, told>>

----------------------------------------------------------------------------
\* scancel while the session starts.
Signal ==
  /\ ~signalled /\ at \in {"look", "asking"} /\ signalled' = TRUE
  /\ UNCHANGED <<at, round, clientDone, zellij, markers, told>>

\* The client may fail at either step; the server may go at any time.
ClientSteps ==
  /\ \/ client = "spawns" /\ client' = "configures" /\ server' = "bare"
     \/ client = "configures" /\ server = "bare" /\ client' = "done" /\ server' = "session"
     \/ client \in {"spawns", "configures"} /\ client' = "failed" /\ UNCHANGED server
  /\ UNCHANGED <<at, round, clientDone, signalled, markers, told>>
ServerGoes ==
  /\ server = "session" /\ server' = "gone"
  /\ UNCHANGED <<at, round, clientDone, signalled, client, markers, told>>

\* The launcher's probe waits for the ready marker; __attach then takes the
\* config the job named, or that of a bundle of its own.
Attach ==
  /\ told = None /\ ready = "written"
  /\ told' = IF config = "written" THEN "job" ELSE "own"
  /\ UNCHANGED <<at, round, clientDone, signalled, zellij, markers>>

Start == Spawn \/ Look \/ Answered \/ GiveUp \/ WriteConfig \/ WriteReady
Next == Start \/ Signal \/ ClientSteps \/ ServerGoes \/ Attach

\* list-sessions has no timeout, and the deadline is looked at after it only.
InCall == at = "asking"
Goes == ~InCall /\ Start
Fairness == WF_vars(Goes)
Spec == Init /\ [][Next]_vars /\ Fairness

----------------------------------------------------------------------------
\* job.rs:1562-1565: start_server never connects to a server that its client
\* has not finished with.
NoProbePanics == server # "panicked"

\* A launcher that finds the ready marker finds a server that has listed the
\* session, and the config of the job (with its mouse mode, job.rs:1642-1643)
\* unless that could not be written.
ReadyMeansAttachable ==
  /\ told = "own" => config = "failed"
  /\ ready = "written" => server \in {"session", "gone"}

\* A start ends, in a session or as a failed job, whatever zellij does but
\* never answer a list-sessions.
Ended == at \in {"loop", "failed"}
StartEnds == []<>~InCall => <>Ended
=============================================================================
