----------------------------- MODULE JobCgroup -----------------------------
(***************************************************************************)
(* A job's cgroup (metrics/cgroup.rs): where it is found, in the unified   *)
(* hierarchy or in those of the controllers, and what is read there while  *)
(* its steps and processes come and go.                                    *)
(***************************************************************************)
EXTENDS Integers, Sequences, FiniteSetsExt, Functions

CONSTANTS
  JobPids,     \* processes that the job may have
  Steps,       \* the steps that it may have
  ByteWidth,   \* the width of a number of bytes, in bits
  None

VARIABLES
  asked,       \* what of the job this behaviour is about
  unified,     \* whether there is the unified hierarchy
  at,          \* by controller: where there is a directory of the job's name
  found,       \* what find gave: None before, nothing, or which it is by controller
  in,          \* by process: its step, None when there is none
  open,        \* the steps that have a directory
  walk,        \* collect_pids at work: the steps it has still to read
  pids,        \* what it has collected
  stayed,      \* history: the processes that were there all the time,
  seenIn,      \* and those that were there at some time
  memory,      \* usage and the inactive part of it, now
  used         \* what mem_used_mb read and gave

job == <<in, open>>
call == <<walk, pids>>
history == <<stayed, seenIn>>
place == <<asked, unified, at, found>>
vars == <<place, job, call, history, memory, used>>

Controllers == {"cpuset", "memory", "cpuacct"}
\* At one of the usual places, further down, or below MAX_DEPTH.
Places == {"usual", "second", "deep", "too deep"}

TypeOK ==
  /\ unified \in BOOLEAN /\ at \in [Controllers -> SUBSET Places] /\ open \subseteq Steps
  /\ \A p \in JobPids : in[p] \in Steps \cup {None} /\ (in[p] # None => in[p] \in open)
  /\ pids \subseteq seenIn /\ seenIn \subseteq JobPids
  /\ memory.usage \in 0..3 /\ memory.inactive \in 0..memory.usage

\* Where the directories are matters to find alone; what the job does, to the
\* others.
Init ==
  /\ asked \in {"find", "pids", "memory", "cpus"} /\ unified \in BOOLEAN /\ found = None
  /\ at \in [Controllers -> IF asked = "find" THEN SUBSET Places ELSE {{"usual"}}]
  /\ unified => \A c, d \in Controllers : at[c] = at[d]
  /\ in \in [JobPids -> IF asked = "pids" THEN Steps \cup {None} ELSE {None}]
  /\ open = {in[p] : p \in JobPids} \ {None}
  /\ walk = None /\ pids = {} /\ stayed = {} /\ seenIn = {}
  /\ memory = [usage |-> 2, inactive |-> 1] /\ used = [usage |-> None, gave |-> None]

Living == {p \in JobPids : in[p] # None}

----------------------------------------------------------------------------
(* The job.                                                                *)

StepStarts(s) ==
  /\ asked = "pids" /\ s \notin open /\ open' = open \cup {s}
  /\ UNCHANGED <<place, in, call, history, memory, used>>
StepEnds(s) ==
  /\ s \in open /\ (\A p \in JobPids : in[p] # s) /\ open' = open \ {s}
  /\ UNCHANGED <<place, in, call, history, memory, used>>
Starts(p, s) ==
  /\ in[p] = None /\ s \in open /\ in' = [in EXCEPT ![p] = s]
  /\ seenIn' = IF walk = None THEN seenIn ELSE seenIn \cup {p}
  /\ UNCHANGED <<place, open, call, stayed, memory, used>>
Exits(p) ==
  /\ in[p] # None /\ in' = [in EXCEPT ![p] = None] /\ stayed' = stayed \ {p}
  /\ UNCHANGED <<place, open, call, seenIn, memory, used>>
MemoryChanges ==
  /\ asked = "memory"
  /\ \E usage \in 0..3 : \E inactive \in 0..usage : memory' = [usage |-> usage, inactive |-> inactive]
  /\ UNCHANGED <<place, job, call, history, used>>

----------------------------------------------------------------------------
(* pids: the directory of the job is listed, then each below it is read.   *)

\* (mutant) The job's own directory is all there is to read.
OwnDirectory == {}
\* collect_pids goes below; in version 1 nothing is in the job's directory.
Below == open

Collect ==
  /\ asked = "pids" /\ walk = None
  /\ walk' = Below /\ pids' = {} /\ stayed' = Living /\ seenIn' = Living
  /\ UNCHANGED <<place, job, memory, used>>

\* A directory that has gone meanwhile holds nothing.
ReadStep(s) ==
  /\ walk # None /\ s \in walk /\ walk' = walk \ {s}
  /\ pids' = pids \cup {p \in JobPids : in[p] = s}
  /\ UNCHANGED <<place, job, history, memory, used>>

Collected ==
  /\ walk = {} /\ walk' = None /\ pids' = {} /\ stayed' = {} /\ seenIn' = {}
  /\ UNCHANGED <<place, job, memory, used>>

----------------------------------------------------------------------------
(* mem_used_mb: version 1 reads two files, one after the other.            *)

\* (mutant) Plain subtraction, which wraps.
Less(a, b) == (a - b + 2 ^ ByteWidth) % 2 ^ ByteWidth
saturating_sub(a, b) == Max({a - b, 0})

ReadUsage ==
  /\ asked = "memory" /\ used.usage = None
  /\ used' = [usage |-> memory.usage, gave |-> IF unified THEN memory.usage ELSE None]
  /\ UNCHANGED <<place, job, call, history, memory>>

\* memory.stat may not be there.
ReadInactive ==
  /\ used.usage # None /\ used.gave = None
  /\ \E inactive \in {0, memory.inactive} : used' = [used EXCEPT !.gave = saturating_sub(used.usage, inactive)]
  /\ UNCHANGED <<place, job, call, history, memory>>

UsedIsTold ==
  /\ used.gave # None /\ used' = [usage |-> None, gave |-> None]
  /\ UNCHANGED <<place, job, call, history, memory>>

----------------------------------------------------------------------------
(* JobCgroup::find, for each controller; one for all when unified.         *)

\* (mutant) The first search that comes to something counts.
AnyPlace(places) == places \cap {"deep"}
\* The usual places in their order, then a search of some depth.
PlaceOf(places) ==
  IF "usual" \in places THEN {"usual"}
  ELSE IF "second" \in places THEN {"second"} ELSE places \cap {"deep"}

find ==
  /\ asked = "find" /\ found = None
  /\ LET of == [c \in Controllers |-> PlaceOf(at[c])]
     IN  found' = IF \A c \in Controllers : of[c] = {} THEN {} ELSE {of}
  /\ UNCHANGED <<asked, unified, at, job, call, history, memory, used>>

Next ==
  \/ \E s \in Steps : StepStarts(s) \/ StepEnds(s) \/ ReadStep(s) \/ \E p \in JobPids : Starts(p, s)
  \/ \E p \in JobPids : Exits(p)
  \/ MemoryChanges \/ Collect \/ Collected \/ ReadUsage \/ ReadInactive \/ UsedIsTold \/ find

----------------------------------------------------------------------------
(* cpus_alloc: the quota, rounded up, or else the set of CPUs.             *)

\* (mutant) Rounded down.
cfs_down(quota, period) == IF quota <= 0 \/ period <= 0 THEN {} ELSE {Max({quota \div period, 1})}
cfs_cpus(quota, period) == IF quota <= 0 \/ period <= 0 THEN {} ELSE {Max({(quota + period - 1) \div period, 1})}

\* Ranges, none of them backwards.
parse_cpuset(ranges) ==
  IF ranges = <<>> \/ \E i \in DOMAIN ranges : ranges[i][2] < ranges[i][1] THEN {}
  ELSE {FoldFunction(+, 0, [i \in DOMAIN ranges |-> ranges[i][2] - ranges[i][1] + 1])}

cpus_alloc(quota, period, ranges) ==
  IF cfs_cpus(quota, period) # {} THEN cfs_cpus(quota, period) ELSE parse_cpuset(ranges)

----------------------------------------------------------------------------
(* Properties.                                                             *)

\* A process that was there all the time is collected, whatever starts and
\* ends meanwhile, and none that never was the job's.
StayersAreFound == walk = {} => stayed \subseteq pids /\ pids \subseteq seenIn

\* However the two files of version 1 fall apart, the memory said to be used
\* is no more than was.
UsedIsNoMore == used.gave # None => used.gave \in 0..used.usage

\* The job is found if a controller has it anywhere within the depth, and for
\* each controller at its usual place whenever it is there: a directory of the
\* same name further down is no reason to read another.
FoundWhereItIs ==
  found # None =>
    LET within(c) == at[c] \ {"too deep"}
    IN  /\ found = {} <=> \A c \in Controllers : within(c) = {}
        /\ \A of \in found : \A c \in Controllers :
             /\ of[c] = {} <=> within(c) = {}
             /\ "usual" \in at[c] => of[c] = {"usual"}

\* The CPUs are enough for the quota, by less than one; without a quota they
\* are those of the set.
CpusAreGranted ==
  asked = "cpus" =>
    \A quota \in -1..9, period \in {0, 2, 4}, ranges \in {<<>>, <<<<0, 3>>, <<8, 8>>>>, <<<<5, 4>>>>} :
      LET limited == quota > 0 /\ period > 0
      IN  \A n \in cpus_alloc(quota, period, ranges) :
            IF limited THEN n >= 1 /\ n * period >= quota /\ (n - 1) * period < quota ELSE n = 5
=============================================================================
