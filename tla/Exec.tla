-------------------------------- MODULE Exec --------------------------------
(***************************************************************************)
(* One `exec` (crates/sint/src/commands/exec.rs): a script on the node     *)
(* opens a pane, whose wrapper runs the command and publishes its exit     *)
(* code in a file that the script waits for. Script, wrapper, the user at  *)
(* the pane and the ssh connection go their own ways.                      *)
(***************************************************************************)
EXTENDS Naturals

CONSTANTS
  Codes,       \* what a command may exit with, as the text of a file
  None,
  MaxPolls     \* model bound: polls before the script gives up

VARIABLES
  keep,        \* --keep: the pane stays
  script,      \* the script's next command
  polls, pane, reply,
  wrapper,     \* the wrapper's next command, or "dead"
  code,        \* history: what this call's command exited with
  out, rcTmp, rc, \* the three files, each with what is in it, or None
  status       \* exec's exit status, or None

vars == <<keep, script, polls, pane, reply, wrapper, code, out, rcTmp, rc, status>>
files == <<out, rcTmp, rc>>
inPane == <<wrapper, code>>
call == <<keep, script, polls, pane, reply, status>>

Empty == "empty"      \* a file with nothing in it yet
NoReply == [timedOut |-> FALSE, exitCode |-> None]

TypeOK ==
  /\ keep \in BOOLEAN /\ polls \in 0..MaxPolls /\ pane \in {"none", "open", "closed"}
  /\ script \in {"rm", "run", "poll", "header", "close", "clean", "done", "lost"}
  /\ wrapper \in {"none", "command", "write", "written", "rename", "exit", "dead"}
  /\ code \in Codes \cup {None} /\ status \in Codes \cup {None, "1", "124"}
  /\ {out, rcTmp, rc} \subseteq Codes \cup {None, Empty, "old", "output"}
  /\ reply \in [timedOut : BOOLEAN, exitCode : Codes \cup {None, "old"}]

\* A call with the same token may have left its files (its ssh was cut).
Init ==
  /\ keep \in BOOLEAN /\ script = "rm" /\ polls = 0 /\ pane = "none" /\ reply = NoReply
  /\ wrapper = "none" /\ code = None /\ status = None
  /\ out \in {None, "old"} /\ rc \in {None, "old"} /\ rcTmp = None

----------------------------------------------------------------------------
(* The script, on the node.                                                *)

Rm ==
  /\ script = "rm" /\ script' = "run" /\ out' = None /\ rc' = None
  /\ UNCHANGED <<keep, polls, pane, reply, inPane, rcTmp, status>>

\* `zellij run`, which may fail: exit 1, an error of the call.
Run ==
  /\ script = "run"
  /\ \/ script' = "poll" /\ pane' = "open" /\ wrapper' = "command" /\ UNCHANGED status
     \/ script' = "done" /\ status' = "1" /\ UNCHANGED <<pane, wrapper>>
  /\ UNCHANGED <<keep, polls, reply, code, files>>

PollRc ==
  /\ script = "poll"
  /\ IF rc # None \/ polls = MaxPolls THEN script' = "header" /\ UNCHANGED polls
                                     ELSE polls' = polls + 1 /\ UNCHANGED script
  /\ UNCHANGED <<keep, pane, reply, inPane, files, status>>

\* The header line, as parse_remote reads it: an empty $rc is no exit code.
Header ==
  /\ script = "header" /\ script' = (IF keep THEN "clean" ELSE "close")
  /\ reply' = [timedOut |-> rc = None,
               exitCode |-> IF rc \in {None, Empty} THEN None ELSE rc]
  /\ UNCHANGED <<keep, polls, pane, inPane, files, status>>

\* (mutant) The pane is left to the user.
ForgetPane ==
  /\ script = "close" /\ script' = "clean"
  /\ UNCHANGED <<keep, polls, pane, reply, inPane, files, status>>

\* close-pane hangs up on what runs in the pane.
ClosePane ==
  /\ script = "close" /\ script' = "clean"
  /\ pane' = "closed" /\ wrapper' = "dead"
  /\ UNCHANGED <<keep, polls, reply, code, files, status>>

\* The last rm, and exec's exit status from the reply.
Clean ==
  /\ script = "clean" /\ script' = "done"
  /\ out' = None /\ rc' = None /\ rcTmp' = None
  /\ status' = IF reply.timedOut THEN "124"
               ELSE IF reply.exitCode = None THEN "1" ELSE reply.exitCode
  /\ UNCHANGED <<keep, polls, pane, reply, inPane>>

\* The connection is cut: an error for the caller, and the script is gone.
Cut ==
  /\ script \notin {"done", "lost"} /\ script' = "lost" /\ status' = "1"
  /\ UNCHANGED <<keep, polls, pane, reply, inPane, files>>

----------------------------------------------------------------------------
(* WRAPPER, in the pane.                                                   *)

Command ==
  /\ wrapper = "command"
  /\ \/ out' = "output" /\ UNCHANGED inPane
     \/ \E c \in Codes : code' = c /\ wrapper' = "write" /\ UNCHANGED out
  /\ UNCHANGED <<call, rcTmp, rc>>

\* (mutant) The exit code goes to the file that is waited for.
WriteRcInPlace ==
  /\ \/ wrapper = "write" /\ rc' = Empty /\ wrapper' = "written"
     \/ wrapper = "written" /\ rc' = code /\ wrapper' = "exit"
  /\ UNCHANGED <<call, code, out, rcTmp>>

\* echo > o.rc.tmp: the file is there before its content.
WriteRc ==
  /\ \/ wrapper = "write" /\ rcTmp' = Empty /\ wrapper' = "written"
     \/ wrapper = "written" /\ rcTmp' = code /\ wrapper' = "rename"
  /\ UNCHANGED <<call, code, out, rc>>

MvRc ==
  /\ wrapper = "rename" /\ wrapper' = "exit"
  /\ IF rcTmp = None THEN UNCHANGED files ELSE rc' = rcTmp /\ rcTmp' = None /\ UNCHANGED out
  /\ UNCHANGED <<call, code>>

\* The user closes the pane.
UserCloses ==
  /\ pane = "open" /\ pane' = "closed" /\ wrapper' = "dead"
  /\ UNCHANGED <<keep, script, polls, reply, code, files, status>>

Next == \/ Rm \/ Run \/ PollRc \/ Header \/ ClosePane \/ Clean \/ Cut
        \/ Command \/ WriteRc \/ MvRc \/ UserCloses
Spec == Init /\ [][Next]_vars

----------------------------------------------------------------------------
\* exec.rs:42-43 and 143-145: an exit code is the one of this call's command,
\* a call that did not time out has one, one that did has none.
CodeIsTheCommands ==
  script \in {"close", "clean", "done"} /\ pane # "none" =>
    IF reply.timedOut THEN reply.exitCode = None
    ELSE reply.exitCode = code /\ code # None

\* A command that overruns is killed with its pane, and the call leaves no
\* file behind it, whatever the wrapper was at. (A pane that is kept may
\* still write, and a call that was cut leaves everything.)
NothingRunsOn ==
  script = "done" /\ ~keep => /\ wrapper \in {"none", "dead"}
                              /\ out = None /\ rc = None /\ rcTmp = None
=============================================================================
