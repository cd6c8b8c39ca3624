--------------------------- MODULE MonitorScreen ---------------------------
(***************************************************************************)
(* `sinteractive monitor` (commands/monitor.rs, monitor_tui.rs and the     *)
(* dump of snapshot.rs): what it samples, the thread that polls the source *)
(* and the screen that shows what the thread sent. The sampler of the      *)
(* session writes the snapshot (HostMetrics); here it only writes, stops   *)
(* and leaves its file or takes it away.                                   *)
(***************************************************************************)
EXTENDS Integers, Sequences, SequencesExt, FiniteSetsExt

CONSTANTS
  Tables,      \* what a sample may find: for each process, whether it holds a GPU
  Heights,     \* the rows that the table may have
  StaleAfter, Refresh, PageRows, MaxScroll,
  MaxTime,     \* bound on the clock
  None

VARIABLES
  now,
  file,        \* <jobid>.metrics.json
  sampler,     \* "runs" or "gone"
  asked,       \* what the command line said, and the world it was said in
  source,      \* what is sampled
  feeder,      \* when the thread polls next, or None when it is dead
  chan,        \* what it sent and the screen has not taken
  app,         \* latest, waiting, gpu_only, scroll
  height, dirty, drawn,  \* rows of the table; to be redrawn; the second it was drawn
  looped,      \* the loop has come by in this second
  pc, screen

vars == <<now, file, sampler, asked, source, feeder, chan, app, height, dirty,
          drawn, looped, pc, screen>>

ask == <<asked, source>>
ui == <<app, height, dirty, drawn, looped, pc, screen>>

Snapshots == [ts : 0..MaxTime, procs : Tables]
Msgs == [snap : Snapshots, why : {None}] \cup
        [snap : {None}, why : {"stale", "no snapshot yet", "failed"}]

TypeOK ==
  /\ now \in 0..MaxTime /\ file \in Snapshots \cup {None} /\ sampler \in {"runs", "gone"}
  /\ feeder \in 0..(MaxTime + Refresh) \cup {None} /\ chan \in Seq(Msgs)
  /\ app.latest \in Snapshots \cup {None} /\ app.scroll \in 0..MaxScroll
  /\ height \in Heights /\ pc \in {"start", "drain", "poll", "quit", "refused"}

----------------------------------------------------------------------------
(* What is sampled: run().                                                 *)

\* The words one may type; the sessions that run, in the order of the list,
\* with the node; the jobs that have a snapshot; whether Slurm answers.
dev == 100   \* a name, and two hosts
n8 == 108
n9 == 109
Typed == {None, 1, 8, 9, dev, n8}
Listings == {<<>>, <<[id |-> 8, name |-> dev, node |-> n8]>>,
             <<[id |-> 9, name |-> None, node |-> n9], [id |-> 8, name |-> dev, node |-> n8]>>,
             <<[id |-> 9, name |-> dev, node |-> n9], [id |-> 8, name |-> dev, node |-> n8]>>}
Questions == [word : Typed, live : BOOLEAN, in : {None, 8}, rows : Listings,
              files : {{}, {8}, {8, 9}}, up : BOOLEAN]

IdsNamed(q, word) == {q.rows[i].id : i \in {j \in DOMAIN q.rows : q.rows[j].name = word}}
NodeOf(q, id) == {r.node : r \in {s \in Range(q.rows) : s.id = id}}

Cache(id) == [job |-> id, host |-> None]
Host(h) == [job |-> None, host |-> h]

\* resolve_index (Targets), of the sessions that run.
AtPosition(q, n) ==
  IF n \in {r.id : r \in Range(q.rows)} \/ n \notin DOMAIN q.rows THEN n ELSE q.rows[n].id

\* (mutant) A number is a job's, a word a host's.
AsTyped(q) ==
  IF q.word = None THEN {Cache(q.in)} \ {Cache(None)}
  ELSE IF q.word \in {1, 8, 9} THEN {Cache(q.word)} ELSE {Host(q.word)}

\* A number whose snapshot is there is a job, else it may be a position; a
\* word is a session's name, or else a host; Slurm has to answer for a name.
SourceOf(q) ==
  IF q.word = None THEN {Cache(q.in)} \ {Cache(None)}
  ELSE IF q.word \in {1, 8, 9}
       THEN {Cache(IF q.word \in q.files \/ ~q.up THEN q.word ELSE AtPosition(q, q.word))}
  ELSE IF ~q.up THEN {}
  ELSE LET named == IdsNamed(q, q.word)
       IN  {IF named # {} /\ Max(named) = Min(named) THEN Cache(Max(named)) ELSE Host(q.word)}

\* --live on a session: its node, if it has one.
Located(q, s) ==
  IF ~q.live \/ s.job = None THEN {s}
  ELSE IF ~q.up THEN {} ELSE {Host(n) : n \in NodeOf(q, s.job)}

Resolve ==
  /\ pc = "start" /\ asked = None
  /\ \E q \in Questions :
       LET found == UNION {Located(q, s) : s \in SourceOf(q)}
       IN  \/ found = {} /\ pc' = "refused" /\ UNCHANGED ask
           \/ \E s \in found : source' = s /\ asked' = q /\ UNCHANGED pc
  /\ UNCHANGED <<now, file, sampler, feeder, chan, app, height, dirty, drawn, looped, screen>>

\* The thread is started and the screen opened; what was asked is forgotten.
Open ==
  /\ pc = "start" /\ asked # None
  /\ source' = IF source.job = None THEN Host(n8) ELSE Cache(8)   \* one stands for all
  /\ asked' = None /\ pc' = "drain" /\ feeder' = now
  /\ UNCHANGED <<now, file, sampler, chan, app, height, dirty, drawn, looped, screen>>

----------------------------------------------------------------------------
(* The session's sampler, and the thread.                                  *)

Write ==
  /\ pc \notin {"start", "refused"} /\ sampler = "runs" /\ (file # None => file.ts < now)
  /\ \E t \in Tables : file' = [ts |-> now, procs |-> t]
  /\ UNCHANGED <<now, sampler, ask, feeder, chan, ui>>

\* The job ends: its file is cleaned up, or left when it was killed.
JobEnds ==
  /\ pc \notin {"start", "refused"}
  /\ sampler = "runs" /\ sampler' = "gone" /\ file' \in {None, file}
  /\ UNCHANGED <<now, ask, feeder, chan, ui>>

age_secs(s) == Max({now - s.ts, 0})
is_stale(s) == age_secs(s) > StaleAfter

poll_cache ==
  {IF file # None /\ ~is_stale(file) THEN [snap |-> file, why |-> None]
   ELSE [snap |-> None, why |-> IF file = None THEN "no snapshot yet" ELSE "stale"]}

\* `snapshot --json` over ssh: a sample of the moment, or a failure.
poll_live ==
  {[snap |-> [ts |-> now, procs |-> t], why |-> None] : t \in Tables} \cup {[snap |-> None, why |-> "failed"]}

\* The thread polls, sends and sleeps; it stops once nobody listens.
Feed ==
  /\ feeder # None /\ feeder <= now /\ pc \notin {"start", "refused"}
  /\ IF pc = "quit" THEN feeder' = None /\ UNCHANGED chan
     ELSE /\ \E m \in (IF source.job # None THEN poll_cache ELSE poll_live) : chan' = Append(chan, m)
          /\ feeder' = now + Refresh
  /\ UNCHANGED <<now, file, sampler, ask, ui>>

\* The thread panics.
FeederDies ==
  /\ feeder # None /\ feeder' = None
  /\ UNCHANGED <<now, file, sampler, ask, chan, ui>>

----------------------------------------------------------------------------
(* What is drawn.                                                          *)

\* (mutant) A bar is lit when the load fills a cell.
div_floor(a, b) == a \div b
div_ceil(a, b) == (a + b - 1) \div b
bar(pct, width) == div_ceil(width * Min({pct, 100}), 100)
sparkline(pct) == (Min({pct, 100}) * 7) \div 100
bar_width(width) == Max({5, Min({width \div 4, 20})})

rows(a) == SelectSeq([i \in DOMAIN a.latest.procs |-> i],
                     LAMBDA i : ~a.gpu_only \/ a.latest.procs[i])

\* (mutant) The last line is replaced, and not counted.
TableUncounted(a) ==
  LET visible == height - 1
      start == Min({a.scroll, Max({Len(rows(a)) - visible, 0})})
      shown == SubSeq(rows(a), start + 1, Min({start + visible, Len(rows(a))}))
  IN  IF start + visible < Len(rows(a))
      THEN [start |-> start, shown |-> Front(shown), more |-> Len(rows(a)) - start - visible]
      ELSE [start |-> start, shown |-> shown, more |-> 0]

\* Below the heading, as many processes as there is room for; "… n more"
\* takes the last line, which is the heading when there is no other.
table_lines(a) ==
  LET visible == height - 1
      start == Min({a.scroll, Max({Len(rows(a)) - visible, 0})})
      shown == SubSeq(rows(a), start + 1, Min({start + visible, Len(rows(a))}))
  IN  IF start + visible < Len(rows(a))
      THEN [start |-> start, shown |-> IF shown = <<>> THEN shown ELSE Front(shown),
            more |-> Len(rows(a)) - start - visible + 1]
      ELSE [start |-> start, shown |-> shown, more |-> 0]

Drawn(a) ==
  IF a.latest = None THEN [ts |-> None, says |-> a.waiting]
  ELSE [ts |-> a.latest.ts, says |-> a.waiting, legend |-> a.gpu_only,
        age |-> age_secs(a.latest), late |-> is_stale(a.latest), table |-> table_lines(a)]

----------------------------------------------------------------------------
(* The screen: event_loop.                                                 *)

\* (mutant) A message of the thread leaves the screen as it is.
QuietReceive ==
  /\ pc = "drain" /\ chan # <<>>
  /\ app' = IF Head(chan).snap # None THEN [app EXCEPT !.latest = Head(chan).snap, !.waiting = None]
            ELSE [app EXCEPT !.waiting = Head(chan).why]
  /\ chan' = Tail(chan)
  /\ UNCHANGED <<now, file, sampler, ask, feeder, height, dirty, drawn, looped, pc, screen>>

Receive ==
  /\ pc = "drain" /\ chan # <<>>
  /\ app' = IF Head(chan).snap # None THEN [app EXCEPT !.latest = Head(chan).snap, !.waiting = None]
            ELSE [app EXCEPT !.waiting = Head(chan).why]
  /\ chan' = Tail(chan) /\ dirty' = TRUE
  /\ UNCHANGED <<now, file, sampler, ask, feeder, height, drawn, looped, pc, screen>>

\* What the screen knows once the channel is empty: a dead thread's is closed.
Known == [app EXCEPT !.waiting = IF feeder = None /\ @ = None THEN "sampler stopped" ELSE @]

\* (mutant) The screen is drawn when something came.
DrawWhenDirty ==
  /\ pc = "drain" /\ chan = <<>> /\ pc' = "poll" /\ looped' = TRUE /\ app' = Known
  /\ IF dirty \/ feeder = None THEN screen' = Drawn(Known) /\ drawn' = now /\ dirty' = FALSE
     ELSE UNCHANGED <<screen, drawn, dirty>>
  /\ UNCHANGED <<now, file, sampler, ask, feeder, chan, height>>

\* The channel is drained, and the screen drawn when something came, the
\* second has changed or the thread is dead.
Draw ==
  /\ pc = "drain" /\ chan = <<>> /\ pc' = "poll" /\ looped' = TRUE /\ app' = Known
  /\ IF dirty \/ feeder = None \/ now # drawn THEN screen' = Drawn(Known) /\ drawn' = now /\ dirty' = FALSE
     ELSE UNCHANGED <<screen, drawn, dirty>>
  /\ UNCHANGED <<now, file, sampler, ask, feeder, chan, height>>

Keys == {"g", "up", "down", "page up", "page down", "home"}
Scrolled(key) ==
  CASE key = "up" -> Max({app.scroll - 1, 0})
    [] key = "page up" -> Max({app.scroll - PageRows, 0})
    [] key = "down" -> app.scroll + 1
    [] key = "page down" -> app.scroll + PageRows
    [] OTHER -> 0

Key(key) ==
  /\ pc = "poll" /\ pc' = "drain" /\ dirty' = TRUE /\ Scrolled(key) <= MaxScroll
  /\ app' = [app EXCEPT !.scroll = Scrolled(key), !.gpu_only = IF key = "g" THEN ~@ ELSE @]
  /\ UNCHANGED <<now, file, sampler, ask, feeder, chan, height, drawn, looped, screen>>

Resize ==
  /\ pc = "poll" /\ pc' = "drain" /\ dirty' = TRUE /\ height' \in Heights \ {height}
  /\ UNCHANGED <<now, file, sampler, ask, feeder, chan, app, drawn, looped, screen>>

\* No event within 250 ms.
Timeout ==
  /\ pc = "poll" /\ pc' = "drain"
  /\ UNCHANGED <<now, file, sampler, ask, feeder, chan, app, height, dirty, drawn, looped, screen>>

Quit ==
  /\ pc = "poll" /\ pc' = "quit" /\ dirty' = TRUE
  /\ UNCHANGED <<now, file, sampler, ask, feeder, chan, app, height, drawn, looped, screen>>

\* The loop comes by several times a second, and a poll of the file takes no
\* time; ssh takes any.
Tick ==
  /\ now < MaxTime /\ looped /\ now' = now + 1 /\ looped' = FALSE
  /\ source.job # None /\ feeder # None => feeder > now
  /\ UNCHANGED <<file, sampler, ask, feeder, chan, app, height, dirty, drawn, pc, screen>>

Init ==
  /\ now = 0 /\ file = None /\ sampler = "runs" /\ asked = None /\ source = Cache(None)
  /\ feeder = None /\ chan = <<>> /\ height \in Heights /\ dirty = TRUE /\ drawn = 0
  /\ app = [latest |-> None, waiting |-> None, gpu_only |-> FALSE, scroll |-> 0]
  /\ looped = FALSE /\ pc = "start" /\ screen = [ts |-> None, says |-> None]

Next ==
  \/ Resolve \/ Open \/ Write \/ JobEnds \/ Feed \/ FeederDies
  \/ Receive \/ Draw \/ Resize \/ Timeout \/ Quit \/ Tick
  \/ \E key \in Keys : Key(key)

----------------------------------------------------------------------------
(* Properties.                                                             *)

\* What stands on the screen while it waits for a key is what it would draw
\* of what it knows: no message, key, resize or second is left undrawn.
ScreenIsCurrent == pc = "poll" /\ looped => screen = Drawn(app)

\* A snapshot that is old, and a source that is silent, are said to be so:
\* the age is right to the second, an old snapshot is marked, and a session's
\* is explained once the thread was due to look again, as is its death.
SilenceIsTold ==
  pc = "poll" /\ looped /\ screen.ts # None =>
    /\ screen.age = Max({now - screen.ts, 0}) /\ (screen.late <=> now - screen.ts > StaleAfter)
    /\ source.job # None /\ screen.age > StaleAfter + Refresh + 1 => screen.says # None

\* Every process is above the table, in it, or counted below it. (In a table
\* of one line the count takes the heading's place and is one too many.)
NobodyIsLeftOut ==
  pc = "poll" /\ looped /\ screen.ts # None /\ height > 1 =>
    LET t == screen.table
    IN  /\ t.start + Len(t.shown) + t.more = Len(rows(app))
        /\ \A i \in 1..Len(t.shown) : t.shown[i] = rows(app)[t.start + i]

\* Any load lights a cell and none does not, and no bar or glyph is outside
\* its range.
AnyLoadLights ==
  pc = "start" /\ asked = None =>
    \A pct \in 0..110, width \in 0..200 :
      LET b == bar(pct, bar_width(width))
      IN  b \in 0..bar_width(width) /\ (b = 0 <=> pct = 0) /\ sparkline(pct) \in 0..7

\* A number is the session with that id, or else the one at that place of the
\* list, unless a job of that number left a snapshot; a name that one session
\* has is that session, and on its node with --live.
SourceIsTheMeant ==
  pc = "start" /\ asked # None =>
    /\ asked.word \in {8, 9} /\ ~asked.live => source = Cache(asked.word)
    /\ asked.word = 1 /\ asked.up /\ ~asked.live /\ asked.rows # <<>> =>
         source = Cache(asked.rows[1].id)
    /\ asked.word = dev /\ IdsNamed(asked, dev) = {8} =>
         source = IF asked.live THEN Host(n8) ELSE Cache(8)
=============================================================================
