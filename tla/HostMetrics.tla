---------------------------- MODULE HostMetrics ----------------------------
(***************************************************************************)
(* The sampler of a host (crates/sint-core/src/metrics) and the loop that  *)
(* reads it (JobLoop::sample_local, check_gpu_idle): one GPU whose driver  *)
(* comes and goes, the CPU time of the job's cgroup or of the host, one    *)
(* pid that processes follow each other in. Times are kept as the seconds  *)
(* since; a reading may fail at any sample.                                *)
(***************************************************************************)
EXTENDS Integers

CONSTANTS
  None,
  SampleEvery, GpuIdleAfter, RetryAfter,
  MaxTicks     \* model bound: the CPU ticks a process has used

VARIABLES
  driver, gpu, proc, used,    \* the node: its driver, its GPU, a pid's ticks and those since the last sample
  sampled,                    \* seconds since the last sample
  nvml, failedFor,            \* GpuSampler: the handle, seconds since failed_at
  listed,                     \* the GPU was in the last snapshot
  idleFor, idleSent,          \* JobLoop: seconds since gpu_idle_since, and gpu_idle_sent
  cgroupFor, hostFor,         \* seconds since prev_cgroup and prev_host
  prev,                       \* prev_procs: the pid's ticks at the last sample
  cpu, charged,               \* of the last snapshot: the window of its CPU%, the ticks of the pid
  upFor, run, events  \* history: the driver's uptime, the run of idle samples and its events

vars == <<driver, gpu, proc, used, sampled, nvml, failedFor, listed, idleFor, idleSent,
          cgroupFor, hostFor, prev, cpu, charged, upFor, run, events>>

Lesser(a, b) == IF a < b THEN a ELSE b
NonNeg(n) == IF n > 0 THEN n ELSE 0
Older(age, bound) == IF age = None THEN None ELSE Lesser(age + 1, bound)
Long == GpuIdleAfter + SampleEvery

TypeOK ==
  /\ driver \in BOOLEAN /\ gpu \in {"busy", "idle", "free"} /\ proc \in (0..MaxTicks) \cup {None}
  /\ used \in 0..MaxTicks /\ sampled \in 0..SampleEvery /\ nvml \in BOOLEAN
  /\ failedFor \in 0..RetryAfter /\ listed \in BOOLEAN /\ idleSent \in BOOLEAN
  /\ {idleFor, run, cgroupFor, hostFor} \subseteq (0..Long) \cup {None}
  /\ prev \in (0..MaxTicks) \cup {None} /\ charged \in 0..MaxTicks

Init ==
  /\ driver \in BOOLEAN /\ gpu = "free" /\ proc = None /\ used = 0 /\ sampled = SampleEvery
  /\ nvml = FALSE /\ failedFor = RetryAfter /\ listed = FALSE /\ idleFor = None /\ idleSent = FALSE
  /\ cgroupFor = None /\ hostFor = None /\ prev = None /\ cpu = None /\ charged = 0
  /\ upFor = 0 /\ run = None /\ events = 0

----------------------------------------------------------------------------
(* Sampler::sample.                                                        *)

\* (mutant) An attempt that is put off counts as one that failed.
EnsureInitPutOff ==
  IF nvml \/ failedFor = RetryAfter
  THEN nvml' = driver /\ failedFor' = IF driver THEN RetryAfter ELSE 0
  ELSE failedFor' = 0 /\ UNCHANGED nvml

\* ensure_init and device_count: a handle whose driver went away is dropped,
\* and the library is not loaded again for RETRY_AFTER.
EnsureInit ==
  IF nvml \/ failedFor = RetryAfter
  THEN nvml' = driver /\ failedFor' = IF driver THEN RetryAfter ELSE 0
  ELSE UNCHANGED <<nvml, failedFor>>

\* (mutant) The host's baseline is kept while the cgroup answers.
CpuPctKeepingHost ==
  \/ cgroupFor' = 0 /\ cpu' = [of |-> "cgroup", secs |-> cgroupFor] /\ UNCHANGED hostFor
  \/ hostFor' = 0 /\ cpu' = [of |-> "host", secs |-> hostFor] /\ UNCHANGED cgroupFor

\* CPU%: the cgroup's, or the host's where the cgroup cannot answer. Its first
\* reading has no window and reports 0.
CpuPct ==
  \/ cgroupFor' = 0 /\ hostFor' = None /\ cpu' = [of |-> "cgroup", secs |-> cgroupFor]
  \/ hostFor' = 0 /\ cpu' = [of |-> "host", secs |-> hostFor] /\ UNCHANGED cgroupFor

\* (mutant) The difference of two readings, whichever is larger.
ProcCpuAbsolute(before, ticks) == IF ticks > before THEN ticks - before ELSE before - ticks
proc_cpu_pct(before, ticks) == NonNeg(ticks - before)

\* procs::sample: a pid seen for the first time has no reading to compare
\* with; one that is gone, or cannot be read, is forgotten.
Procs ==
  \E ticks \in {proc, None} :
    /\ prev' = ticks
    /\ charged' = IF ticks = None \/ prev = None THEN 0 ELSE proc_cpu_pct(prev, ticks)

Idle == listed' /\ gpu = "idle"

\* (mutant) What was idle once counts from then on.
CheckGpuIdleSince ==
  /\ idleFor' = IF Idle /\ idleFor = None THEN 0 ELSE idleFor
  /\ idleSent' = (IF Idle THEN idleSent \/ (idleFor' # None /\ idleFor' >= GpuIdleAfter) ELSE FALSE)
  /\ events' = (IF ~Idle THEN 0 ELSE IF idleSent' /\ ~idleSent THEN Lesser(events + 1, 2) ELSE events)

\* check_gpu_idle: hold and no load since the first such sample.
CheckGpuIdle ==
  /\ idleFor' = IF ~Idle THEN None ELSE IF idleFor = None THEN 0 ELSE idleFor
  /\ idleSent' = (Idle /\ (idleSent \/ idleFor' >= GpuIdleAfter))
  /\ events' = (IF ~Idle THEN 0 ELSE IF idleSent' /\ ~idleSent THEN Lesser(events + 1, 2) ELSE events)

Sample ==
  /\ sampled = SampleEvery /\ sampled' = 0
  /\ EnsureInit /\ listed' = nvml'
  /\ CpuPct /\ Procs /\ CheckGpuIdle
  /\ run' = IF ~Idle THEN None ELSE IF run = None THEN 0 ELSE run
  /\ used' = 0
  /\ UNCHANGED <<driver, gpu, proc, upFor>>

----------------------------------------------------------------------------
(* The node, and a second of it.                                           *)

Second ==
  /\ sampled < SampleEvery /\ sampled' = sampled + 1
  /\ failedFor' = Lesser(failedFor + 1, RetryAfter)
  /\ idleFor' = Older(idleFor, Long) /\ run' = Older(run, Long)
  /\ cgroupFor' = Older(cgroupFor, Long) /\ hostFor' = Older(hostFor, Long)
  /\ upFor' = IF driver THEN Lesser(upFor + 1, RetryAfter + SampleEvery) ELSE 0
  /\ UNCHANGED <<driver, gpu, proc, used, nvml, listed, idleSent, prev, cpu, charged, events>>

NodeChanges ==
  /\ \/ driver' = ~driver /\ upFor' = 0 /\ UNCHANGED <<gpu, proc, used>>
     \/ gpu' \in {"busy", "idle", "free"} \ {gpu} /\ UNCHANGED <<driver, upFor, proc, used>>
     \/ /\ proc # None /\ proc < MaxTicks /\ proc' = proc + 1 /\ used' = used + 1
        /\ UNCHANGED <<driver, upFor, gpu>>
     \/ proc' = (IF proc = None THEN 0 ELSE None) /\ used' = 0 /\ UNCHANGED <<driver, upFor, gpu>>
  /\ UNCHANGED <<sampled, nvml, failedFor, listed, idleFor, idleSent, cgroupFor, hostFor,
                 prev, cpu, charged, run, events>>

Next == Sample \/ Second \/ NodeChanges
Spec == Init /\ [][Next]_vars

----------------------------------------------------------------------------
\* gpu_idle is told once for a run of samples that saw the GPU held and idle,
\* and only of a run that has lasted GPU_IDLE_AFTER (job.rs:538-539); a driver
\* that goes away ends the run.
IdleIsIdle == events <= 1 /\ (idleSent => run # None /\ run >= GpuIdleAfter)

\* GPUs are listed again soon after their driver is back (gpu.rs:4-6): the
\* pause after a failed load does not outlast RETRY_AFTER.
GpusComeBack == sampled = 0 /\ upFor >= RetryAfter + SampleEvery => listed

\* mod.rs:332-334: the host's CPU% covers the time since the last sample, and
\* nothing of the time the cgroup was read instead.
HostWindowIsKnown == cpu # None /\ cpu.of = "host" => cpu.secs \in {None, SampleEvery}

\* A process is never charged for more CPU time than it has used since the last
\* sample, also where its pid was another process's before.
ChargesTheUse == Sample => charged' <= used
NobodyIsOvercharged == [][ChargesTheUse]_vars
=============================================================================
