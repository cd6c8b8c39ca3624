--------------------------- MODULE AgentBriefing ---------------------------
(***************************************************************************)
(* What an agent in a session is told of its time: by the prompt hook      *)
(* (commands/hook.rs) from the state file while that is fresh, else from   *)
(* Slurm, and by the briefing (agent_context.rs) from Slurm. And the       *)
(* working directory in the line under its prompt (statusline.rs).         *)
(***************************************************************************)
EXTENDS Integers, Sequences, FiniteSetsExt, Functions

CONSTANTS
  EndTimes,    \* the ends that the job may be given
  WarnAt,      \* SINTERACTIVE_AGENT_WARN
  StateStale,  \* STALE_AFTER of state.rs
  EndMinGap,   \* END_MIN_GAP of job.rs
  LastSecond,  \* bound on the clock
  None

VARIABLES
  second,
  end,         \* the end of the job, or None once it is gone
  changed,     \* history: when the end was last changed, or -1
  known,       \* the end that the session's loop knows, and when it was confirmed
  state,       \* <jobid>.json: what remained, and when; history: by which confirmation
  hook,        \* the command at work: which, its now, where it is
  said         \* what it said: nothing, or what was left, and from where

vars == <<second, end, changed, known, state, hook, said>>

Silent == [text |-> "silent", left |-> None, from |-> None, at |-> None]
Idle == [what |-> None, at |-> 0, step |-> "idle"]

TypeOK ==
  /\ second \in 0..LastSecond /\ end \in EndTimes \cup {None} /\ changed \in -1..LastSecond
  /\ hook.step \in {"idle", "file", "slurm"} /\ said.text \in {"silent", "unknown", "plenty", "warning", "briefing"}

Init ==
  /\ second = 0 /\ end \in EndTimes /\ changed = -1 /\ known = None /\ state = None
  /\ hook = Idle /\ said = Silent

----------------------------------------------------------------------------
(* The session's loop, Slurm and the clock.                                *)

\* refresh_end_epoch, when Slurm answers.
RefreshEnd ==
  /\ end # None /\ known' = [end |-> end, at |-> second]
  /\ UNCHANGED <<second, end, changed, state, hook, said>>

\* (mutant) The file is written with whatever end is known.
EverConfirmed == known # None
\* A poke writes again without a query while the last one is this young.
Confirmed == known # None /\ second - known.at <= EndMinGap

WriteState ==
  /\ end # None /\ Confirmed
  /\ state' = [remaining |-> Max({known.end - second, 0}), updated |-> second, confirmed |-> known.at]
  /\ UNCHANGED <<second, end, changed, known, hook, said>>

ChangeLimit ==
  /\ end # None /\ end' \in EndTimes \ {end} /\ end' > second /\ changed' = second
  /\ UNCHANGED <<second, known, state, hook, said>>

JobIsGone ==
  /\ end # None /\ end <= second /\ end' = None
  /\ UNCHANGED <<second, changed, known, state, hook, said>>

Tick ==
  /\ second < LastSecond /\ second' = second + 1
  /\ UNCHANGED <<end, changed, known, state, hook, said>>

----------------------------------------------------------------------------
(* The commands.                                                           *)

\* Outside a session both say nothing.
Begin(what) ==
  /\ hook = Idle
  /\ hook' = [what |-> what, at |-> second, step |-> IF what = "prompt" THEN "file" ELSE "slurm"]
  /\ said' = Silent
  /\ UNCHANGED <<second, end, changed, known, state>>

\* (mutant) What remained is what remains.
RemainingAsWritten(s, now) == IF now - s.updated \in 0..StateStale THEN {s.remaining} ELSE {}
\* Aged by the second; unknown when it is stale, or of the future.
aged_remaining(s, now) ==
  IF now - s.updated \in 0..StateStale THEN {Max({s.remaining - (now - s.updated), 0})} ELSE {}

walltime_warning(left) == IF left <= WarnAt THEN "warning" ELSE "plenty"

Told(text, left, from) ==
  said' = [text |-> text, left |-> left, from |-> from, at |-> hook.at] /\ hook' = Idle

ReadFile ==
  /\ hook.step = "file"
  /\ LET aged == IF state = None THEN {} ELSE aged_remaining(state, hook.at)
     IN  IF aged # {} THEN \E left \in aged : Told(walltime_warning(left), left, state.confirmed)
         ELSE hook' = [hook EXCEPT !.step = "slurm"] /\ UNCHANGED said
  /\ UNCHANGED <<second, end, changed, known, state>>

\* SessionInfo::from_row: what is left of a job that has an end.
from_row(now) == Max({end - now, 0})

\* The job's row, if Slurm answers and knows it. The hook counts from its own
\* now, the briefing from the moment of the answer.
AskSlurm ==
  /\ hook.step = "slurm"
  /\ \E up \in BOOLEAN :
       IF ~up \/ end = None THEN Told("unknown", None, None)
       ELSE IF hook.what = "prompt"
            THEN LET left == from_row(hook.at) IN Told(walltime_warning(left), left, second)
            ELSE LET left == from_row(second)
                 IN  said' = [text |-> "briefing", left |-> left, from |-> second, at |-> second] /\ hook' = Idle
  /\ UNCHANGED <<second, end, changed, known, state>>

Next == \/ RefreshEnd \/ WriteState \/ ChangeLimit \/ JobIsGone \/ Tick \/ ReadFile \/ AskSlurm
        \/ \E what \in {"prompt", "briefing"} : Begin(what)

----------------------------------------------------------------------------
(* statusline.rs short_path. A directory is its length, and whether it     *)
(* begins with a dot.                                                      *)

SumOf(s) == FoldFunction(+, 0, s)
Initial(d) == IF d.dotted THEN Min({2, d.length}) ELSE Min({1, d.length})

LineWidth(initials, from, leaf) ==
  (IF from > 1 THEN 2 ELSE 0) + SumOf([i \in from..Len(initials) |-> initials[i] + 1]) + leaf

\* (mutant) The mark of what is left out is not counted.
MarkUncounted(leaf, budget) == leaf - budget
\* The characters of a last directory that have to go.
Skipped(leaf, budget) == leaf + 1 - budget

\* As it is; else every directory above the last by its initial, the leading
\* ones left out as need be; else the end of the last one.
short_path(dirs, leaf, budget) ==
  LET full == SumOf([i \in DOMAIN dirs |-> dirs[i].length + 1]) + leaf
      initials == [i \in DOMAIN dirs |-> Initial(dirs[i])]
      fits == {from \in 1..(Len(dirs) + 1) : LineWidth(initials, from, leaf) <= budget}
  IN  IF full <= budget THEN [width |-> full, leaf |-> leaf, dropped |-> 0]
      ELSE IF fits # {} THEN LET from == Min(fits)
                             IN  [width |-> LineWidth(initials, from, leaf), leaf |-> leaf, dropped |-> from - 1]
      ELSE [width |-> 1 + leaf - Skipped(leaf, budget), leaf |-> leaf - Skipped(leaf, budget), dropped |-> Len(dirs)]

----------------------------------------------------------------------------
(* Properties.                                                             *)

\* state.rs:14-17 and job.rs:856-861: what is said to be left is what is left by
\* the end that Slurm last confirmed, by the second it is said, and that end is
\* no older than the file may be and its writer's gap; silence means time. A
\* change of the limit since that confirmation is not in it.
BudgetsAreTrue ==
  said' # said /\ said'.left # None =>
    /\ said'.text = "plenty" => said'.left > WarnAt
    /\ said'.at - said'.from <= StateStale + EndMinGap
    /\ changed < said'.from /\ end # None => said'.left = Max({end - said'.at, 0})

\* The path fits, keeps its last directory when that fits beside the mark, and
\* leaves no more of the others out than it must.
PathFits ==
  second = 0 /\ hook = Idle /\ said = Silent =>
    \A dirs \in UNION {[1..n -> [length : {0, 1, 3}, dotted : BOOLEAN]] : n \in 0..3}, leaf \in 1..9, budget \in 4..9 :
      LET line == short_path(dirs, leaf, budget)
      IN  /\ line.width <= budget /\ line.leaf \in 0..leaf
          /\ line.leaf < leaf => leaf >= budget
=============================================================================
