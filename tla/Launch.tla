------------------------------- MODULE Launch -------------------------------
(***************************************************************************)
(* `sinteractive launch` and `sinteractive ensure` on the login node       *)
(* (crates/sint/src/commands/launch.rs, ensure.rs): find a session of the  *)
(* same name, submit the job, tag it with a Comment, wait for it to run,   *)
(* wait for the session to come up, and cancel the job when Ctrl-C is      *)
(* pressed before that.                                                    *)
(*                                                                         *)
(* Every Slurm command and ssh is a child process, and Ctrl-C goes to the  *)
(* whole foreground process group: an interrupt that finds a launcher in a *)
(* call may kill the child, whose call then fails. Slurm and the session   *)
(* on the node are external; a job is named after the launcher that        *)
(* submitted it. Options, defaults, the maintenance fit and the job limit  *)
(* come before the submission and keep no state.                           *)
(***************************************************************************)
EXTENDS Naturals, FiniteSets

CONSTANTS
  Launchers,   \* the processes, `launch` and `ensure`
  Ensurers,    \* those of them that are `ensure`
  NameOf,      \* the session name each was given
  NoName,      \* ... or that it was given none
  MaxPresses,  \* model bound: Ctrl-C presses per launcher
  Flaky        \* whether a Slurm command may fail on its own

ASSUME LaunchAssumption ==
  /\ Ensurers \subseteq Launchers
  /\ \A l \in Ensurers : NameOf[l] # NoName
  /\ MaxPresses \in Nat /\ Flaky \in BOOLEAN

VARIABLES
  pc,        \* where a launcher is; see Places
  flag,      \* INTERRUPTED
  hit,       \* Ctrl-C came while the current child ran
  found,     \* the existing session `ensure` is about to describe
  exit,      \* how a launcher ended
  job,       \* squeue's state of the job, "none" before submission
  comment,   \* the job carries the Comment sinteractive:NAME
  up,        \* the session on the node has come up
  presses,   \* history: Ctrl-C presses at a launcher
  late,      \* history: one of them came after the last look at the flag
  unseen     \* history: the sessions in the making, or suspended, at its check

slurm == <<job, comment, up>>
history == <<presses, late, unseen>>
vars == <<pc, flag, hit, found, exit, slurm, history>>

Making == {"submit", "submitted", "comment"}
Looked == {"connected", "gaveup"}             \* past the last look, before disarm
Calls == {"comment", "poll", "host", "probe"} \* between arm and disarm, in a child
Armed == Calls \cup Looked \cup {"wait"}       \* ... or not
Places == {"ensure", "describe", "check", "submitted", "submit", "cancel", "abort", "done"} \cup Armed

Exits == {"none", "ready", "notup", "cancelled", "aborted", "error", "killed",
          "refused", "unsubmitted", "reused", "notfound"}

States == {"none", "PENDING", "CONFIGURING", "RUNNING", "SUSPENDED", "gone"}
Live(l) == job[l] \notin {"none", "gone"}

TypeOK ==
  /\ pc \in [Launchers -> Places] /\ exit \in [Launchers -> Exits]
  /\ flag \in [Launchers -> BOOLEAN] /\ hit \in [Launchers -> BOOLEAN]
  /\ found \in [Launchers -> SUBSET Launchers]
  /\ job \in [Launchers -> States]
  /\ comment \in [Launchers -> BOOLEAN] /\ up \in [Launchers -> BOOLEAN]
  /\ presses \in [Launchers -> 0..MaxPresses] /\ late \in [Launchers -> BOOLEAN]
  /\ unseen \in [Launchers -> SUBSET Launchers]
  /\ \A l \in Launchers : /\ pc[l] = "done" <=> exit[l] # "none"
                          /\ pc[l] \in Armed \cup {"submitted"} => job[l] # "none"
                          /\ hit[l] => pc[l] \in Calls /\ flag[l]

Init ==
  /\ pc = [l \in Launchers |->
             IF l \in Ensurers THEN "ensure"
             ELSE IF NameOf[l] = NoName THEN "submit" ELSE "check"]
  /\ flag = [l \in Launchers |-> FALSE] /\ hit = [l \in Launchers |-> FALSE]
  /\ found = [l \in Launchers |-> {}]
  /\ exit = [l \in Launchers |-> "none"]
  /\ job = [l \in Launchers |-> "none"]
  /\ comment = [l \in Launchers |-> FALSE] /\ up = [l \in Launchers |-> FALSE]
  /\ presses = [l \in Launchers |-> 0]
  /\ late = [l \in Launchers |-> FALSE] /\ unseen = [l \in Launchers |-> {}]

----------------------------------------------------------------------------
(* Steps of a launcher.                                                    *)

\* The call under way is over, and the launcher goes on at `place`.
Goto(l, place) ==
  /\ pc' = [pc EXCEPT ![l] = place]
  /\ hit' = [hit EXCEPT ![l] = FALSE]
  /\ UNCHANGED exit

Finish(l, how) ==
  /\ pc' = [pc EXCEPT ![l] = "done"]
  /\ exit' = [exit EXCEPT ![l] = how]
  /\ hit' = [hit EXCEPT ![l] = FALSE]

\* The current call can fail.
MayFail(l) == Flaky \/ hit[l]

CallFails(l) == MayFail(l) /\ Finish(l, "error")

\* Ctx::sessions, the rows with the Comment of l's name. squeue matches
\* --states RUNNING,PENDING on the base state, so a job that is still being
\* configured is listed and a suspended one is not.
SameName(l) ==
  {o \in Launchers : /\ job[o] \in {"PENDING", "CONFIGURING", "RUNNING"}
                     /\ comment[o] /\ NameOf[o] = NameOf[l]}

EnsureCheck(l) ==
  /\ pc[l] = "ensure"
  /\ \/ CallFails(l) /\ UNCHANGED found
     \/ SameName(l) = {} /\ Goto(l, "check") /\ UNCHANGED found
     \/ \E o \in SameName(l) : found' = [found EXCEPT ![l] = {o}] /\ Goto(l, "describe")
  /\ UNCHANGED <<flag, slurm, history>>

\* session_info of the session found, which may have ended since.
Describe(l) ==
  /\ pc[l] = "describe"
  /\ \/ CallFails(l)
     \/ Finish(l, IF \E o \in found[l] : Live(o) THEN "reused" ELSE "notfound")
  /\ UNCHANGED <<flag, found, slurm, history>>

\* (mutant) Only sessions that already run are looked at.
CheckRunning(l) ==
  /\ pc[l] = "check"
  /\ IF \E o \in SameName(l) : job[o] = "RUNNING" THEN Finish(l, "refused") ELSE Goto(l, "submit")
  /\ unseen' = [unseen EXCEPT ![l] = {o \in Launchers : pc[o] \in Making \/ job[o] = "SUSPENDED"}]
  /\ UNCHANGED <<flag, found, slurm, presses, late>>

\* The duplicate-name guard of bring_up.
Check(l) ==
  /\ pc[l] = "check"
  /\ \/ CallFails(l)
     \/ IF SameName(l) # {} THEN Finish(l, "refused") ELSE Goto(l, "submit")
  /\ unseen' = [unseen EXCEPT ![l] = {o \in Launchers : pc[o] \in Making \/ job[o] = "SUSPENDED"}]
  /\ UNCHANGED <<flag, found, slurm, presses, late>>

\* (mutant) sbatch's exit status is not looked at.
SubmitUnchecked(l) ==
  /\ pc[l] = "submit" /\ Goto(l, "submitted")
  /\ \E s \in {"none", "PENDING"} : job' = [job EXCEPT ![l] = s]
  /\ UNCHANGED <<flag, found, comment, up, history>>

Submit(l) ==
  /\ pc[l] = "submit"
  /\ \/ Finish(l, "unsubmitted") /\ UNCHANGED job
     \/ Goto(l, "submitted") /\ job' = [job EXCEPT ![l] = "PENDING"]
  /\ UNCHANGED <<flag, found, comment, up, history>>

Arm(l) ==
  /\ pc[l] = "submitted"
  /\ Goto(l, "comment")
  /\ flag' = [flag EXCEPT ![l] = FALSE]
  /\ UNCHANGED <<found, slurm, history>>

\* A call that fails may have reached the controller all the same.
SetComment(l) ==
  /\ pc[l] = "comment"
  /\ \/ CallFails(l) /\ \E done \in BOOLEAN : comment' = [comment EXCEPT ![l] = done]
     \/ Live(l) /\ Goto(l, "wait") /\ comment' = [comment EXCEPT ![l] = TRUE]
     \/ ~Live(l) /\ Finish(l, "error") /\ UNCHANGED comment
  /\ UNCHANGED <<flag, found, job, up, history>>

\* (mutant) The flag is only looked at when squeue fails.
LoopWithoutLooking(l) ==
  /\ pc[l] = "wait"
  /\ Goto(l, "poll")
  /\ UNCHANGED <<flag, found, slurm, history>>

\* The top of wait_for_running's loop.
LoopTop(l) ==
  /\ pc[l] = "wait"
  /\ Goto(l, IF flag[l] THEN "cancel" ELSE "poll")
  /\ UNCHANGED <<flag, found, slurm, history>>

\* (mutant) A job that is not listed is waited for.
PollOn(l) ==
  /\ pc[l] = "poll"
  /\ \/ MayFail(l) /\ flag[l] /\ Goto(l, "cancel")
     \/ ~flag[l] /\ CallFails(l)
     \/ Goto(l, IF job[l] = "RUNNING" THEN "host" ELSE "wait")
  /\ UNCHANGED <<flag, found, slurm, history>>

Poll(l) ==
  /\ pc[l] = "poll"
  /\ \/ MayFail(l) /\ flag[l] /\ Goto(l, "cancel")
     \/ ~flag[l] /\ CallFails(l)
     \/ Goto(l, CASE job[l] = "RUNNING" -> "host"
                  [] job[l] = "PENDING" -> "wait"
                  [] OTHER -> "abort")
  /\ UNCHANGED <<flag, found, slurm, history>>

BatchHost(l) ==
  /\ pc[l] = "host"
  /\ \/ CallFails(l)
     \/ Live(l) /\ Goto(l, "probe")
     \/ ~Live(l) /\ flag[l] /\ Goto(l, "cancel")
     \/ ~Live(l) /\ ~flag[l] /\ Finish(l, "error")
  /\ UNCHANGED <<flag, found, slurm, history>>

\* (mutant) The flag is not looked at after the probe.
ProbeOnly(l) ==
  /\ pc[l] = "probe"
  /\ \/ up[l] /\ Goto(l, "connected")
     \/ Goto(l, "gaveup")
  /\ UNCHANGED <<flag, found, slurm, history>>

\* wait_until_ready: one ssh that waits on the node up to 30 s, and may fail.
WaitUntilReady(l) == {"gaveup"} \cup (IF up[l] THEN {"connected"} ELSE {})

\* The probe, and the last look at the flag.
Probe(l) ==
  /\ pc[l] = "probe"
  /\ \/ flag[l] /\ Goto(l, "cancel")
     \/ ~flag[l] /\ \E place \in WaitUntilReady(l) : Goto(l, place)
  /\ UNCHANGED <<flag, found, slurm, history>>

\* disarm and the report of what the probe found.
Disarm(l) ==
  /\ pc[l] \in Looked
  /\ Finish(l, IF pc[l] = "connected" THEN "ready" ELSE "notup")
  /\ UNCHANGED <<flag, found, slurm, history>>

\* scancel --quiet, its outcome ignored.
Scancel(l) ==
  \/ job' = [job EXCEPT ![l] = "gone"]
  \/ Flaky /\ UNCHANGED job

CancelByUser(l) ==
  /\ pc[l] = "cancel"
  /\ Scancel(l) /\ Finish(l, "cancelled")
  /\ UNCHANGED <<flag, found, comment, up, history>>

\* (mutant) A job that is not there needs no scancel.
AbortOnly(l) ==
  /\ pc[l] = "abort"
  /\ Finish(l, "aborted")
  /\ UNCHANGED <<flag, found, slurm, history>>

\* "job is neither RUNNING nor PENDING. Aborting."
Abort(l) ==
  /\ pc[l] = "abort"
  /\ Scancel(l) /\ Finish(l, "aborted")
  /\ UNCHANGED <<flag, found, comment, up, history>>

----------------------------------------------------------------------------
(* The user at the terminal.                                               *)

\* Caught: the handler stores the flag.
Interrupt(l) ==
  /\ pc[l] \in Armed /\ presses[l] < MaxPresses
  /\ presses' = [presses EXCEPT ![l] = @ + 1]
  /\ flag' = [flag EXCEPT ![l] = TRUE]
  /\ hit' = [hit EXCEPT ![l] = pc[l] \in Calls]
  /\ late' = [late EXCEPT ![l] = @ \/ pc[l] \in Looked]
  /\ UNCHANGED <<pc, found, exit, slurm, unseen>>

\* Not caught: launcher and child die, and the child's sbatch or scancel has
\* reached the controller or has not.
InterruptUnarmed(l) ==
  /\ pc[l] \notin Armed \cup {"done"} /\ presses[l] < MaxPresses
  /\ presses' = [presses EXCEPT ![l] = @ + 1]
  /\ Finish(l, "killed")
  /\ \/ UNCHANGED job
     \/ pc[l] = "submit" /\ job' = [job EXCEPT ![l] = "PENDING"]
     \/ pc[l] \in {"cancel", "abort"} /\ job' = [job EXCEPT ![l] = "gone"]
  /\ UNCHANGED <<flag, found, comment, up, late, unseen>>

----------------------------------------------------------------------------
(* Slurm and the node.                                                     *)

JobMoves(l, from, to) ==
  /\ job[l] = from /\ job' = [job EXCEPT ![l] = to]
  /\ UNCHANGED <<pc, flag, hit, found, exit, comment, up, history>>

Allocate(l) == JobMoves(l, "PENDING", "RUNNING") \/ JobMoves(l, "PENDING", "CONFIGURING")
NodeBooted(l) == JobMoves(l, "CONFIGURING", "RUNNING")
Suspend(l) == JobMoves(l, "RUNNING", "SUSPENDED")
Resume(l) == JobMoves(l, "SUSPENDED", "RUNNING")
JobEnds(l) == Live(l) /\ JobMoves(l, job[l], "gone")

ComesUp(l) ==
  /\ job[l] = "RUNNING" /\ ~up[l] /\ up' = [up EXCEPT ![l] = TRUE]
  /\ UNCHANGED <<pc, flag, hit, found, exit, job, comment, history>>

----------------------------------------------------------------------------
Step(l) ==
  \/ EnsureCheck(l) \/ Describe(l) \/ Check(l) \/ Submit(l) \/ Arm(l)
  \/ SetComment(l) \/ LoopTop(l) \/ Poll(l) \/ BatchHost(l) \/ Probe(l)
  \/ Disarm(l) \/ CancelByUser(l) \/ Abort(l)

User(l) == Interrupt(l) \/ InterruptUnarmed(l)

Cluster(l) ==
  \/ Allocate(l) \/ NodeBooted(l) \/ Suspend(l) \/ Resume(l) \/ JobEnds(l) \/ ComesUp(l)

Next == \E l \in Launchers : Step(l) \/ User(l) \/ Cluster(l)
Spec == Init /\ [][Next]_vars

\* A Slurm command or ssh is waited for, and none has a timeout.
InCall(l) ==
  pc[l] \in Calls \cup {"ensure", "describe", "check", "submit", "cancel", "abort"}

\* A launcher goes on where it waits for no child; that one returns is not
\* assumed, nor anything else of Slurm.
Goes(l) == ~InCall(l) /\ Step(l)
FairSpec == Spec /\ \A l \in Launchers : WF_vars(Goes(l))

----------------------------------------------------------------------------
\* Two live sessions of one name need a race: one of them was still being
\* submitted and tagged, or was suspended, when the other looked (the guard
\* at launch.rs:626 is best-effort, and this is all it lets through).
DuplicatesNeedARace ==
  \A a, b \in Launchers :
    (a # b /\ NameOf[a] # NoName /\ NameOf[a] = NameOf[b]
           /\ Live(a) /\ Live(b) /\ comment[a] /\ comment[b])
      => a \in unseen[b] \/ b \in unseen[a]

\* A launch that gives its job up leaves no job behind: exit 130 and
\* "Aborting" both mean that the queue is free of it (with a Slurm that
\* answers).
GivenUpIsGone ==
  \A l \in Launchers : exit[l] \in {"cancelled", "aborted"} => ~Live(l)

\* An interrupt that the handler caught never ends in a session reported as
\* ready or as still starting, but in the moment between the last look at the
\* flag and the disarm (launch.rs:781-787), where it is caught and lost.
CaughtIsNotIgnored ==
  \A l \in Launchers : (pc[l] = "done" /\ flag[l] /\ ~late[l]) => exit[l] \notin {"ready", "notup"}

\* A Ctrl-C in the pending wait, if it is the only one (a second one can
\* kill the squeue that asks for the node, or the scancel), ends the job: whatever squeue
\* answers meanwhile, and however far the job has got when it is noticed; if
\* no call hangs for ever.
WaitInterruptCancels ==
  \A l \in Launchers :
    []<>~InCall(l) => ((pc[l] \in {"wait", "poll"} /\ flag[l]) ~> ~Live(l))

\* A launch whose job has left the queue does not wait for ever, if no call
\* hangs.
LostJobEndsTheLaunch ==
  \A l \in Launchers : []<>~InCall(l) => (job[l] = "gone" ~> pc[l] = "done")

\* launch.rs:735-736, "From here a Ctrl-C cancels the job until the session is
\* confirmed up": a caught interrupt leaves no live job.
CaughtCancels ==
  \A l \in Launchers : (pc[l] = "done" /\ flag[l]) => ~Live(l)
=============================================================================
