----------------------------- MODULE McpServer -----------------------------
(***************************************************************************)
(* `sinteractive mcp` (commands/mcp.rs): the server between a client and   *)
(* the data functions of the commands. The protocol loop takes requests    *)
(* and hands each to a thread of the blocking pool, where it asks Slurm    *)
(* what its target is, looks whether it runs, and acts; waits end by       *)
(* themselves, but a launch waits for Slurm as long as it takes. What the  *)
(* commands do with a session is in Targets, Panes, Exec, Launch, JobWait  *)
(* and WaitEvent; here it is a step, or two with a wait between them.      *)
(***************************************************************************)
EXTENDS Naturals, FiniteSets, FiniteSetsExt

CONSTANTS
  Calls,       \* the requests a client may have under way
  Pool,        \* threads of the blocking pool
  WaitMax,     \* WAIT_MAX_SECS
  WaitsAsked,  \* the timeouts that are asked for
  None

VARIABLES
  session,     \* the session called dev: its number and its state
  inside,      \* whether the server runs in a session: the first one
  call,        \* the requests: what was asked, where the work is, the answer
  image        \* the binary: how it is installed, the newest version, the server's

vars == <<session, inside, call, image>>

\* What the tools need of a session: nothing, its number, or that it runs.
Free == {"list_sessions", "ensure_session", "agent_context", "wait_for_jobs"}
OfAJob == {"session_status", "cancel_session", "monitor_snapshot", "wait_for_event"}
OfARunning == {"send", "run_in_session"}  \* peek and list_panes are as send
Waiting == {"wait_for_event", "wait_for_jobs", "run_in_session"}
TakesDefault == {"session_status", "monitor_snapshot", "wait_for_event"}
Tools == Free \cup OfAJob \cup OfARunning

Idle == [tool |-> None, named |-> FALSE, blank |-> FALSE, at |-> "idle", job |-> 0,
         age |-> 0, left |-> 0, out |-> None]   \* age and left in seconds

TypeOK ==
  /\ session.job \in 0..2 /\ session.state \in {"none", "PENDING", "RUNNING"}
  /\ \A c \in Calls : call[c].tool \in Tools \cup {None} /\ call[c].job \in 0..2
  /\ \A c \in Calls : call[c].age \in Nat /\ call[c].left \in Nat

Init ==
  /\ session = [job |-> 1, state |-> "RUNNING"] /\ inside \in BOOLEAN
  /\ call = [c \in Calls |-> Idle]
  /\ image \in [linked : BOOLEAN, absolute : BOOLEAN, there : {TRUE}, new : {1}, own : {1}]

----------------------------------------------------------------------------
(* The client.                                                             *)

Ask(c, tool) ==
  /\ call[c].at = "idle"
  /\ \E named \in BOOLEAN, blank \in BOOLEAN, wait \in WaitsAsked \cup {0} :
       /\ tool \in TakesDefault \/ named
       /\ blank => tool \in OfARunning
       /\ tool \notin Waiting => wait = 0
       /\ call' = [call EXCEPT ![c] = [Idle EXCEPT !.tool = tool, !.named = named, !.blank = blank,
                                                  !.left = wait, !.at = "sent"]]
  /\ UNCHANGED <<session, inside, image>>

\* A request that the client takes back is seen through all the same, and its
\* answer goes nowhere: nothing else changes.
TakeAnswer(c) ==
  /\ call[c].at = "answered" /\ call' = [call EXCEPT ![c] = Idle]
  /\ UNCHANGED <<session, inside, image>>

----------------------------------------------------------------------------
(* The server.                                                             *)

Under == {c \in Calls : call[c].at \in {"resolve", "check", "act", "wait", "launch"}}

Answer(c, out) == call' = [call EXCEPT ![c] = [Idle EXCEPT !.tool = call[c].tool, !.at = "answered", !.out = out]]
Step(c, at) == call' = [call EXCEPT ![c].at = at]

\* (mutant) The loop works on one request at a time.
LoopIsIdle == Under = {}
Room == Cardinality(Under) < Pool

\* blocking: the work is done in the pool. A command that is blank is refused
\* at once.
Accept(c) ==
  /\ call[c].at = "sent" /\ Room
  /\ IF call[c].blank THEN Answer(c, "error") ELSE Step(c, IF call[c].tool \in Free THEN "act" ELSE "resolve")
  /\ UNCHANGED <<session, inside, image>>

\* resolve: by name of what runs or is pending, else the server's own session.
\* squeue may fail, and so may every step that calls it.
Resolve(c) ==
  /\ call[c].at = "resolve"
  /\ \E up \in BOOLEAN :
       LET job == IF ~call[c].named THEN IF inside THEN {1} ELSE {}
                  ELSE IF up /\ session.state # "none" THEN {session.job} ELSE {}
           next == IF call[c].tool \in OfARunning THEN "check" ELSE "act"
       IN  IF job = {} THEN Answer(c, "error")
           ELSE call' = [call EXCEPT ![c].at = next, ![c].job = Max(job)]
  /\ UNCHANGED <<session, inside, image>>

IsUp(c, states) == session.job = call[c].job /\ session.state \in states

\* require_running.
Check(c) ==
  /\ call[c].at = "check"
  /\ \E up \in BOOLEAN : IF up /\ IsUp(c, {"RUNNING"}) THEN Step(c, "act") ELSE Answer(c, "error")
  /\ UNCHANGED <<session, inside, image>>

\* (mutant) The wait is as long as was asked for.
TimeoutAsked(wait) == wait
Timeout(wait) == Min({wait, WaitMax})

\* (mutant) The server is old when its file is no longer there.
IsStaleIfGone == image.absolute /\ ~image.there

\* Launch::is_stale: the path that it was started by leads elsewhere, or
\* nowhere. A path that is not absolute is not looked at, and a file replaced
\* where it is has the same path.
IsStale == image.absolute /\ (~image.there \/ (image.linked /\ image.new # image.own))

\* list_sessions and monitor_snapshot: Slurm, or the file that a session's
\* loop left, answers or it does not.
Reads == {"list_sessions", "monitor_snapshot"}
Read(c) ==
  /\ call[c].at = "act" /\ call[c].tool \in Reads
  /\ \E out \in {"ok", "error"} : Answer(c, out)
  /\ UNCHANGED <<session, inside, image>>

\* The other tools: what they tell, and what they change.
Act(c) ==
  /\ call[c].at = "act"
  /\ LET tool == call[c].tool IN
     \/ /\ tool = "agent_context" /\ UNCHANGED session
        /\ Answer(c, IF ~inside THEN "error" ELSE IF IsStale THEN "stale" ELSE "current")
     \/ /\ tool \in Waiting /\ UNCHANGED session
        /\ call' = [call EXCEPT ![c].at = "wait", ![c].left = Timeout(@)]
     \/ /\ tool = "ensure_session" /\ session.state # "none" /\ UNCHANGED session
        /\ \E out \in {"ok", "error"} : Answer(c, out)
     \/ /\ tool = "ensure_session" /\ session.state = "none" /\ UNCHANGED session
        /\ Answer(c, "error")
     \/ /\ tool = "ensure_session" /\ session.state = "none" /\ session.job < 2
        /\ session' = [job |-> session.job + 1, state |-> "PENDING"]
        /\ call' = [call EXCEPT ![c].at = "launch", ![c].job = session.job + 1]
     \/ /\ tool = "cancel_session"
        /\ session' \in {session, IF IsUp(c, {"RUNNING", "PENDING"}) THEN [session EXCEPT !.state = "none"] ELSE session}
        /\ Answer(c, IF session' = session THEN "error" ELSE "ok")
     \/ /\ tool = "session_status" /\ UNCHANGED session
        /\ Answer(c, IF IsUp(c, {"RUNNING", "PENDING"}) THEN "ok" ELSE "error")
     \/ /\ tool = "send" /\ UNCHANGED session
        /\ Answer(c, IF IsUp(c, {"RUNNING"}) THEN "ok" ELSE "error")
  /\ UNCHANGED <<inside, image>>

\* The end of bring_up: the job runs, and is described; or it is gone. It may
\* pend for as long as Slurm likes.
Launched(c) ==
  /\ call[c].at = "launch"
  /\ \/ IsUp(c, {"RUNNING"}) /\ Answer(c, "ok")
     \/ ~IsUp(c, {"PENDING"}) /\ Answer(c, "error")
  /\ UNCHANGED <<session, inside, image>>

\* The wait's end: "event" is what was waited for.
Waited(c) ==
  /\ call[c].at = "wait"
  /\ \/ call[c].left = 0 /\ Answer(c, "timed_out")
     \/ Answer(c, "event")
  /\ UNCHANGED <<session, inside, image>>

\* A task that panics is an error of its call.
Panic(c) ==
  /\ c \in Under /\ Answer(c, "error")
  /\ UNCHANGED <<session, inside, image>>

----------------------------------------------------------------------------
(* The world.                                                              *)

SessionChanges ==
  /\ session' \in {[session EXCEPT !.state = "none"]} \cup
       (IF session.state = "none" /\ session.job < 2 THEN {[job |-> session.job + 1, state |-> "PENDING"]} ELSE {}) \cup
       (IF session.state = "PENDING" THEN {[session EXCEPT !.state = "RUNNING"]} ELSE {})
  /\ session' # session
  /\ UNCHANGED <<inside, call, image>>

Upgrade ==
  /\ image.new = 1 /\ image' = [image EXCEPT !.new = 2, !.there = TRUE]
  /\ UNCHANGED <<session, inside, call>>

Uninstall ==
  /\ image.there /\ image' = [image EXCEPT !.there = FALSE]
  /\ UNCHANGED <<session, inside, call>>

\* Slurm, ssh and the file system take no time: a second passes when every
\* call that can go on has done so. A launch has no time to keep to.
Busy(c) == (call[c].at = "sent" /\ Room) \/ call[c].at \in {"resolve", "check", "act"}
Waits == {c \in Calls : call[c].at = "wait"}
Tick ==
  /\ \A c \in Calls : ~Busy(c)
  /\ Waits # {} /\ \A c \in Waits : call[c].left > 0
  /\ call' = [c \in Calls |-> IF call[c].at \in {"idle", "answered", "launch"} THEN call[c]
                              ELSE [call[c] EXCEPT !.age = @ + 1, !.left = IF c \in Waits THEN @ - 1 ELSE @]]
  /\ UNCHANGED <<session, inside, image>>

Next ==
  \/ SessionChanges \/ Upgrade \/ Uninstall \/ Tick
  \/ \E c \in Calls :
       \/ \E tool \in Tools : Ask(c, tool)
       \/ TakeAnswer(c) \/ Accept(c) \/ Resolve(c) \/ Check(c) \/ Read(c) \/ Act(c) \/ Launched(c) \/ Waited(c) \/ Panic(c)

----------------------------------------------------------------------------
(* Properties.                                                             *)

\* No call waits for another one's wait, and no wait is longer than the cap,
\* whatever was asked for, whoever panics and whatever is taken back. Only a
\* call that launches a session waits for Slurm without a limit.
AnswersInTime ==
  \A c \in Calls : call[c].at \notin {"idle", "answered", "launch"} =>
    call[c].age <= IF call[c].tool \in Waiting THEN WaitMax ELSE 0

\* A server that an upgrade has left behind says so, where the binary is a
\* link, and one whose binary is gone; a server that is current never does.
StalenessIsTold ==
  \A c \in Calls :
       call[c].tool = "agent_context" /\ call[c].at = "act" /\ call'[c].out \in {"stale", "current"} =>
         /\ image.absolute /\ image.linked /\ image.there => (call'[c].out = "stale" <=> image.new # image.own)
         /\ image.absolute /\ ~image.there => call'[c].out = "stale"
         /\ call'[c].out = "stale" => image.new # image.own \/ ~image.there
=============================================================================
