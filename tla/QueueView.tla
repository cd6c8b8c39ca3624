----------------------------- MODULE QueueView -----------------------------
(***************************************************************************)
(* `queue` and `queue --watch` (commands/queue.rs): the lists are gathered *)
(* by several commands while the jobs go on, a frame of them is cut to the *)
(* pane, and keys are read until the next one.                             *)
(***************************************************************************)
EXTENDS Integers, Sequences, FiniteSetsExt, Functions

CONSTANTS
  QueueJobs,   \* the user's jobs
  WatchEvery,  \* WATCH_EVERY
  KeyBound,    \* bound on the keys typed ahead
  LastMoment,  \* bound on the clock
  None

VARIABLES
  job,         \* by job: its state, "none" before it is submitted
  accounted,   \* the ended jobs that accounting has heard of
  moment,
  keysRead,    \* there is a terminal on both ends
  all,         \* --all
  raw,         \* the terminal is in raw mode
  at,          \* where the loop is
  snap,        \* what is gathered so far; once drawn, what is shown
  drawn,       \* when
  until,       \* when the wait for a key is over
  typed,       \* the keys that are not read yet
  began,       \* history: the jobs there were when the gathering began,
  excused,     \* those of them that no command told of for a reason,
  quit         \* and that a key which quits was typed

vars == <<job, accounted, moment, keysRead, all, raw, at, snap, drawn, until, typed, began, excused, quit>>

Listed == {"RUNNING", "PENDING", "COMPLETING", "CONFIGURING"}
Ended == {"COMPLETED", "CANCELLED", "NODE_FAIL"}
FINISHED == {"COMPLETED", "FAILED", "CANCELLED", "TIMEOUT", "OUT_OF_MEMORY", "OOM"}
Empty == [running |-> {}, pending |-> {}, recent |-> {}]

TypeOK ==
  /\ job \in [QueueJobs -> Listed \cup Ended \cup {"none", "SUSPENDED"}] /\ accounted \subseteq QueueJobs
  /\ moment \in 0..LastMoment /\ raw \in BOOLEAN /\ Len(typed) <= KeyBound
  /\ at \in {"squeue", "names", "sacct", "partitions", "draw", "waiting", "ended"}
  /\ \A list \in DOMAIN snap : snap[list] \subseteq QueueJobs

Init ==
  /\ job \in [QueueJobs -> {"none", "RUNNING"}] /\ accounted = {} /\ moment = 0
  /\ keysRead \in BOOLEAN /\ all \in BOOLEAN /\ raw = keysRead /\ at = "squeue"
  /\ snap = Empty /\ drawn = 0 /\ until = 0 /\ typed = <<>>
  /\ began = {j \in QueueJobs : job[j] # "none"} /\ excused = {} /\ quit = FALSE

----------------------------------------------------------------------------
(* Slurm, the user and the clock.                                          *)

Follows == [none |-> {"PENDING"}, PENDING |-> {"CONFIGURING", "CANCELLED"}, CONFIGURING |-> {"RUNNING"},
            RUNNING |-> {"COMPLETING", "SUSPENDED", "PENDING"}, SUSPENDED |-> {"RUNNING"},
            COMPLETING |-> {"COMPLETED", "NODE_FAIL"}]

Move(j) ==
  /\ job[j] \in DOMAIN Follows /\ \E s \in Follows[job[j]] : job' = [job EXCEPT ![j] = s]
  /\ UNCHANGED <<accounted, moment, keysRead, all, raw, at, snap, drawn, until, typed, began, excused, quit>>

\* Accounting hears of an end later than squeue forgets the job.
Account(j) ==
  /\ job[j] \in Ended /\ j \notin accounted /\ accounted' = accounted \cup {j}
  /\ UNCHANGED <<job, moment, keysRead, all, raw, at, snap, drawn, until, typed, began, excused, quit>>

Type(key) ==
  /\ raw /\ Len(typed) < KeyBound /\ typed' = Append(typed, key) /\ quit' = (quit \/ key = "q")
  /\ UNCHANGED <<job, accounted, moment, keysRead, all, raw, at, snap, drawn, until, began, excused>>

\* The loop wakes when its time has come.
Tick ==
  /\ moment < LastMoment /\ at # "ended" /\ (at = "waiting" => moment < until)
  /\ moment' = moment + 1
  /\ UNCHANGED <<job, accounted, keysRead, all, raw, at, snap, drawn, until, typed, began, excused, quit>>

----------------------------------------------------------------------------
(* Snapshot::gather. A failed squeue is the end of the command; without    *)
(* names, or without a history, it goes on.                                *)

\* (mutant) What has ended is asked for first.
AfterHistory(step) ==
  [names |-> "sacct", sacct |-> "squeue", squeue |-> IF all THEN "partitions" ELSE "draw", partitions |-> "draw",
   waiting |-> "names"][step]
After(step) ==
  [squeue |-> "names", names |-> "sacct", sacct |-> IF all THEN "partitions" ELSE "draw", partitions |-> "draw",
   waiting |-> "squeue"][step]

\* RawGuard: every way out puts the terminal back.
Leave == at' = "ended" /\ raw' = FALSE

Squeue ==
  /\ at = "squeue"
  /\ \/ /\ snap' = [snap EXCEPT !.running = {j \in QueueJobs : job[j] \in Listed \ {"PENDING"}},
                                !.pending = {j \in QueueJobs : job[j] = "PENDING"}]
        /\ at' = After("squeue") /\ UNCHANGED raw
     \/ Leave /\ UNCHANGED snap
  /\ excused' = excused \cup {j \in QueueJobs : job[j] = "SUSPENDED"}
  /\ UNCHANGED <<job, accounted, moment, keysRead, all, drawn, until, typed, began, quit>>

\* What they are called, when squeue answers.
Names ==
  /\ at = "names" /\ at' = After("names")
  /\ UNCHANGED <<job, accounted, moment, keysRead, all, raw, snap, drawn, until, typed, began, excused, quit>>

is_finished(j) == job[j] \in FINISHED

Sacct ==
  /\ at = "sacct" /\ at' = After("sacct")
  /\ \E up \in BOOLEAN :
       /\ snap' = [snap EXCEPT !.recent = {j \in accounted : up /\ is_finished(j)}]
       /\ excused' = excused \cup {j \in QueueJobs : job[j] \in Ended /\ (~up \/ j \notin accounted \/ ~is_finished(j))}
  /\ UNCHANGED <<job, accounted, moment, keysRead, all, raw, drawn, until, typed, began, quit>>

\* Everyone's jobs, counted by partition.
Partitions ==
  /\ at = "partitions" /\ (Leave \/ (at' = After("partitions") /\ UNCHANGED raw))
  /\ UNCHANGED <<job, accounted, moment, keysRead, all, snap, drawn, until, typed, began, excused, quit>>

Draw ==
  /\ at = "draw" /\ at' = "waiting" /\ drawn' = moment /\ until' = moment + WatchEvery
  /\ UNCHANGED <<job, accounted, moment, keysRead, all, raw, snap, typed, began, excused, quit>>

----------------------------------------------------------------------------
(* wait.                                                                   *)

Redraw ==
  /\ at' = After("waiting") /\ snap' = Empty /\ excused' = {}
  /\ began' = {j \in QueueJobs : job[j] # "none"}

WaitEnds ==
  /\ at = "waiting" /\ moment >= until /\ Redraw
  /\ UNCHANGED <<job, accounted, moment, keysRead, all, raw, drawn, until, typed, quit>>

\* (mutant) A key that asks for nothing begins the wait anew.
IgnoreAndWait == until' = moment + WatchEvery /\ UNCHANGED <<at, raw, snap, drawn, began, excused>>
Ignore == UNCHANGED <<at, raw, snap, drawn, until, began, excused>>

\* (mutant) A redraw forgets what else was typed.
RestForgotten == IF Head(typed) = "r" THEN <<>> ELSE Tail(typed)
Rest == Tail(typed)

\* "q" is also Esc, and Ctrl-C and Ctrl-D, which raw mode delivers as keys;
\* "r" is also a resize.
ReadKey ==
  /\ at = "waiting" /\ keysRead /\ typed # <<>> /\ moment < until /\ typed' = Rest
  /\ \/ Head(typed) = "q" /\ Leave /\ UNCHANGED <<snap, drawn, until, began, excused>>
     \/ Head(typed) = "r" /\ Redraw /\ UNCHANGED <<raw, drawn, until>>
     \/ Head(typed) = "x" /\ Ignore
  /\ UNCHANGED <<job, accounted, moment, keysRead, all, quit>>

Next ==
  \/ \E j \in QueueJobs : Move(j) \/ Account(j)
  \/ \E key \in {"q", "r", "x"} : Type(key)
  \/ Tick \/ Squeue \/ Names \/ Sacct \/ Partitions \/ Draw \/ WaitEnds \/ ReadKey

----------------------------------------------------------------------------
(* watch_frame. A line is the number of its columns.                       *)

\* The parts of the legend that fit; the way out always.
LegendParts == <<20, 14, 20>>
Widths(n) == FoldFunction(+, 0, SubSeq(LegendParts, 1, n))
watch_legend(cols) == Max({1} \cup {n \in 1..3 : Widths(n) <= cols})
\* The name, with the clock, with the subtitle.
Title(cols) == Max({18} \cup {w \in {28, 56} : w <= cols})

\* What is hidden is counted in a line of its own.
NoteWidth == 50

\* (mutant) The line that says how many are left out takes no room.
ClipUncounted(lines, room) == [body |-> room, hidden |-> lines - room, note |-> 1]
\* Lines are clipped, columns are not.
Clip(lines, room) == [body |-> room - 1, hidden |-> lines - room + 1, note |-> 1]

\* The title, the legend and a blank line come first.
watch_frame(body, cols, rows) ==
  LET room == Max({rows - 3, 0})
      cut == IF Len(body) > room THEN Clip(Len(body), room) ELSE [body |-> Len(body), hidden |-> 0, note |-> 0]
      top == <<Title(cols), Widths(watch_legend(cols))>>
  IN  IF room = 0 THEN [lines |-> top, body |-> 0, hidden |-> 0]
      ELSE [lines |-> top \o <<0>> \o SubSeq(body, 1, cut.body) \o [i \in 1..cut.note |-> NoteWidth],
            body |-> cut.body, hidden |-> cut.hidden]

div_ceil(a, b) == (a + b - 1) \div b

\* The terminal wraps a line that is wider than the pane.
RowsOf(width, cols) == IF width <= cols THEN 1 ELSE div_ceil(width, cols)
OnScreen(lines, cols) == UNION {{i} \X (1..RowsOf(lines[i], cols)) : i \in DOMAIN lines}

----------------------------------------------------------------------------
(* The hint to ask for less memory, in megabytes.                          *)

\* (mutant) Rounded to the step that is nearest below.
SuggestBelow(used) == LET headroom == Max({div_ceil(used * 3, 2), 1})
                      IN  IF headroom < 1024 THEN Max({headroom \div 256, 1}) * 256 ELSE (headroom \div 1024) * 1024
suggest_mem(used) == LET headroom == Max({div_ceil(used * 3, 2), 1})
                     IN  IF headroom < 1024 THEN div_ceil(headroom, 256) * 256 ELSE div_ceil(headroom, 1024) * 1024
mem_hint(req, used) == IF req = 0 \/ used * 2 >= req THEN {} ELSE {suggest_mem(used)}

----------------------------------------------------------------------------
(* Properties.                                                             *)

Shown == snap.running \cup snap.pending \cup snap.recent

\* A job that was there when the lists were asked for is in one of them,
\* however far it came meanwhile, unless it is suspended, ended in a state
\* that is not among the finished ones, or accounting is late or silent.
EachJobIsShown == at = "waiting" => began \subseteq Shown \cup excused

\* The frame is never older than it says, whatever is typed.
RedrawsOnTime == at = "waiting" => moment <= drawn + WatchEvery

\* A key that quits does, after what was typed before it, and every end gives
\* the terminal back.
QuitIsHeard ==
  /\ quit => at = "ended" \/ "q" \in Range(typed)
  /\ at = "ended" => ~raw

\* What render may draw: rows of running jobs, of 100 columns, and shorter ones.
Bodies == {[i \in 1..n |-> IF i <= wide THEN 100 ELSE 24] : n \in {0, 1, 9, 10, 16}, wide \in {0, 1, 16}}

\* queue.rs:188-192: the frame has no more lines than the pane has rows, and
\* where none of them is wider than the pane it is no higher; each line of the
\* lists is shown or counted. In a narrower pane lines wrap, and it may be.
FrameFits ==
  moment = 0 /\ at = "squeue" =>
    \A body \in Bodies, cols \in {22, 80, 100}, rows \in {2, 3, 4, 12, 20} :
      LET frame == watch_frame(body, cols, rows)
      IN  /\ Len(frame.lines) <= rows
          /\ (\A i \in DOMAIN frame.lines : frame.lines[i] <= cols) => Cardinality(OnScreen(frame.lines, cols)) <= rows
          /\ rows > 3 => frame.body + frame.hidden = Len(body)

\* The lines above the lists never wrap.
LegendFits ==
  moment = 0 /\ at = "squeue" =>
    \A cols \in 20..90 : Widths(watch_legend(cols)) <= cols /\ Title(cols) <= cols

\* Half as much again as was used is in the hint, and from 4100 MB on it is
\* less than what was asked for.
HintIsEnough ==
  moment = 0 /\ at = "squeue" =>
    \A used \in {0, 1, 170, 171, 300, 682, 683, 1365, 1366, 2049, 3000}, req \in {0, 100, 1500, 2048, 4100, 4101, 6200, 8192} :
      \A hint \in mem_hint(req, used) : 2 * hint >= 3 * used /\ (req >= 4100 => hint <= req)
=============================================================================
