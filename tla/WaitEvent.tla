------------------------------ MODULE WaitEvent ------------------------------
(***************************************************************************)
(* wait_for_event of the MCP server: block until the session's next event. *)
(* It polls the session's event log from where it ended when the call      *)
(* began and, while there is no log, watches the state file. The session   *)
(* writes both while it runs and its driver removes them at the end, the   *)
(* state file first. A line of the log reaches the disk in two halves.     *)
(***************************************************************************)
EXTENDS Naturals, Sequences, FiniteSets, FiniteSetsExt

CONSTANTS
  None,
  MaxLines,   \* model bound: the lines a session logs before `ended`
  Warn, Red   \* the thresholds, in the bands that `left` counts

VARIABLES
  phase,      \* the session: running, ending or gone
  log,        \* the halves of the log's lines, None when there is no log
  state,      \* there is a state file
  left,       \* the walltime aged_remaining gives, None for a stale file
  at, wanted, offset, last, hadState, result,   \* the call
  expired,    \* its deadline has passed
  began, sawState, sawLeft, woke   \* history of the call: where the log ended, whether it
              \* ever saw the state file, the walltimes it saw, and what the last sleep left

session == <<phase, log, state, left>>
call == <<wanted, offset, last, hadState, result>>
history == <<began, sawState, sawLeft, woke>>
vars == <<session, at, call, expired, history>>

Kinds == {"job_done", "ended"}
Bands == 0..(Warn + 1)
Halves(l) == IF l = None THEN <<>> ELSE l

\* Neither a result nor a sleep yet.
Nothing == [kind |-> "", line |-> 0]
Asleep == [lines |-> 0, gone |-> FALSE]

TypeOK ==
  /\ phase \in {"running", "ending", "gone"}
  /\ log = None \/ log \in Seq(Kinds)
  /\ state \in BOOLEAN /\ left \in Bands \cup {None}
  /\ at \in {"idle", "watch", "read", "exists", "observe", "check", "asleep", "done"}
  /\ wanted \subseteq Kinds \cup {"walltime_warn", "walltime_red"}
  /\ offset \in Nat /\ last \in Bands \cup {None} /\ hadState \in BOOLEAN
  /\ expired \in BOOLEAN /\ sawState \in BOOLEAN /\ sawLeft \subseteq Bands

Init ==
  /\ phase = "running" /\ log = None /\ state = FALSE /\ left = None
  /\ at = "idle" /\ wanted = {} /\ offset = 0 /\ last = None /\ hadState = FALSE
  /\ result = Nothing /\ expired = FALSE
  /\ began = 0 /\ sawState = FALSE /\ sawLeft = {} /\ woke = Asleep

----------------------------------------------------------------------------
(* The session: events::append, write_state, and StateDir::cleanup.        *)

Whole == Len(Halves(log)) % 2 = 0

Write(k) == log' = Append(Halves(log), k)

AppendLine ==
  /\ phase = "running"
  /\ IF Whole THEN Len(Halves(log)) < 2 * MaxLines /\ Write("job_done")
     ELSE Write(log[Len(log)])
  /\ UNCHANGED <<phase, state, left, at, call, expired, history>>

\* Each second ages the file, each write makes it fresh, and an extension
\* of the job may raise what it says.
WriteState ==
  /\ phase = "running" /\ state' = TRUE
  /\ left' \in Bands
  /\ UNCHANGED <<phase, log, at, call, expired, history>>

Stales ==
  /\ state /\ left # None /\ left' = None
  /\ UNCHANGED <<phase, log, state, at, call, expired, history>>

\* A session may have lost its last line to a kill of the loop.
AppendEnded ==
  /\ IF phase = "running" THEN Whole /\ phase' = "ending"
     ELSE phase = "ending" /\ ~Whole /\ UNCHANGED phase
  /\ Write("ended")
  /\ UNCHANGED <<state, left, at, call, expired, history>>

RemoveState ==
  /\ phase = "ending" /\ Whole /\ state
  /\ state' = FALSE /\ left' = None
  /\ UNCHANGED <<phase, log, at, call, expired, history>>

RemoveLog ==
  /\ phase = "ending" /\ Whole /\ ~state
  /\ log' = None /\ phase' = "gone"
  /\ UNCHANGED <<state, left, at, call, expired, history>>

Session == AppendLine \/ WriteState \/ Stales \/ AppendEnded \/ RemoveState \/ RemoveLog

----------------------------------------------------------------------------
(* The call.                                                               *)

\* (mutant) A fresh reader starts at the end of the file.
EndOfFile(l) == Len(Halves(l))

\* start_of_unfinished_line, in halves.
StartOfUnfinishedLine(l) == 2 * (Len(Halves(l)) \div 2)

\* `kinds` is any set, the empty one standing for all; session_ended is
\* canonical_kind's other name of `ended`.
Begin ==
  /\ at = "idle" /\ at' = "watch"
  /\ wanted' \in {{"ended"}, {"job_done"}, {"walltime_red", "walltime_warn"},
                  Kinds \cup {"walltime_red", "walltime_warn"}}
  /\ offset' = StartOfUnfinishedLine(log)
  /\ began' = Len(Halves(log)) \div 2
  /\ UNCHANGED <<session, last, hadState, result, expired, sawState, sawLeft, woke>>

\* (mutant) The watch starts as if there were no state file.
WatchAfresh ==
  /\ at = "watch" /\ at' = "read"
  /\ hadState' = FALSE /\ last' = None
  /\ sawState' = state /\ sawLeft' = {left} \ {None}
  /\ UNCHANGED <<session, wanted, offset, result, expired, began, woke>>

\* WalltimeWatch::new.
Watch ==
  /\ at = "watch" /\ at' = "read"
  /\ hadState' = state /\ last' = left
  /\ sawState' = state /\ sawLeft' = {left} \ {None}
  /\ UNCHANGED <<session, wanted, offset, result, expired, began, woke>>

Return(kind, line) == result' = [kind |-> kind, line |-> line] /\ at' = "done"

\* Where the complete lines past `from` end: the tail of a line cut by
\* `from` ends there too, and does not parse.
Ends(from) == {i \in (from + 1)..Len(Halves(log)) : i % 2 = 0}
Found(from) == {i \in Ends(from) : i >= from + 2 /\ log[i] \in wanted}

\* next_logged_event. A shorter log is a new one.
ReadLog ==
  LET from == IF Len(Halves(log)) < offset THEN 0 ELSE offset
  IN /\ at = "read"
     /\ \/ \E i \in Found(from) :
             /\ \A j \in Found(from) : i <= j
             /\ offset' = i /\ Return(log[i], i \div 2)
        \/ /\ Found(from) = {} /\ at' = "exists" /\ UNCHANGED result
           /\ offset' = IF log = None THEN offset ELSE Max(Ends(from) \cup {from})
     /\ UNCHANGED <<session, wanted, last, hadState, expired, history>>

Exists ==
  /\ at = "exists" /\ at' = (IF log = None THEN "observe" ELSE "check")
  /\ UNCHANGED <<session, call, expired, history>>

\* (mutant) Warn is looked at first.
CrossedWarnFirst ==
  LET crossed(t) == last # None /\ last > t /\ left <= t
  IN IF crossed(Warn) THEN "walltime_warn" ELSE IF crossed(Red) THEN "walltime_red" ELSE ""

\* The crossing since the last look; red outranks warn.
Crossed ==
  LET crossed(t) == last # None /\ last > t /\ left <= t
  IN IF crossed(Red) THEN "walltime_red" ELSE IF crossed(Warn) THEN "walltime_warn" ELSE ""

\* WalltimeWatch::observe. An `ended` nobody wants is not told again.
Observe ==
  LET kind == IF ~state THEN IF hadState THEN "ended" ELSE ""
              ELSE IF left = None THEN "" ELSE Crossed
  IN /\ at = "observe"
     /\ hadState' = state
     /\ last' = (IF state /\ left # None THEN left ELSE last)
     /\ sawState' = (sawState \/ state) /\ sawLeft' = (sawLeft \cup {left}) \ {None}
     /\ IF kind \in wanted THEN Return(kind, 0) ELSE at' = "check" /\ UNCHANGED result
     /\ UNCHANGED <<session, wanted, offset, expired, began, woke>>

\* The deadline is looked at after the log and the state file were; the
\* sleep ends at the deadline at the latest.
Check ==
  /\ at = "check"
  /\ IF expired THEN Return("timed_out", 0) ELSE at' = "asleep" /\ UNCHANGED result
  /\ UNCHANGED <<session, wanted, offset, last, hadState, expired, history>>

\* (mutant) The deadline ends the sleep, and the call with it.
WakeAtDeadline ==
  /\ at = "asleep" /\ at' = (IF expired THEN "check" ELSE "read")
  /\ woke' = [lines |-> Len(Halves(log)), gone |-> phase = "gone"]
  /\ UNCHANGED <<session, call, expired, began, sawState, sawLeft>>

Wake ==
  /\ at = "asleep" /\ at' = "read"
  /\ woke' = [lines |-> Len(Halves(log)), gone |-> phase = "gone"]
  /\ UNCHANGED <<session, call, expired, began, sawState, sawLeft>>

Deadline ==
  /\ ~expired /\ expired' = TRUE /\ at # "idle"
  /\ UNCHANGED <<session, at, call, history>>

Next == Session \/ Begin \/ Watch \/ ReadLog \/ Exists \/ Observe \/ Check \/ Wake \/ Deadline

Spec == Init /\ [][Next]_vars

----------------------------------------------------------------------------
\* An event read from the log is the first wanted one that was completed
\* after the call began: the line half written then counts, what was
\* written before does not.
FirstIsReturned ==
  result.line > 0 /\ log # None =>
    /\ result.line > began
    /\ \A i \in (began + 1)..(result.line - 1) : log[2 * i] \notin wanted

\* A call times out only when no wanted line was completed before its last
\* sleep was over and the log is still there to read.
NothingIsSleptThrough ==
  result.kind = "timed_out" /\ log # None =>
    \A i \in (2 * began + 1)..woke.lines : i % 2 = 0 => log[i] \notin wanted

\* A call that has seen the state file, wants `ended` and sleeps until after
\* the session has removed its files does not time out: the line is gone, and
\* the state file with it.
EndIsTold ==
  result.kind = "timed_out" /\ "ended" \in wanted /\ sawState => ~woke.gone

\* A threshold is told only by a call that saw the walltime above it, and
\* the severest one crossed is the one told.
CrossingIsReal ==
  /\ result.kind = "walltime_warn" => (\E w \in sawLeft : w > Warn) /\ last > Red
  /\ result.kind = "walltime_red" => (\E w \in sawLeft : w > Red) /\ last <= Red
=============================================================================
