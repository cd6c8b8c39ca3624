---------------------------- MODULE QueueMonitor ----------------------------
(***************************************************************************)
(* The part of a session's loop that follows the user's other jobs         *)
(* (crates/sint/src/commands/job.rs, refresh_queue, poll_remotes,          *)
(* reclassify, and the RemotePoller thread): `job_done` events, the        *)
(* summary of the jobs launched from this session, the panel entries of    *)
(* the monitored ones, and the <id>.metrics.json files written for them.   *)
(*                                                                         *)
(* Which jobs are ours is known in two steps: Slurm's record of the        *)
(* submitting shell, which goes blind when the shell exits, and the job's  *)
(* own environment, which arrives with a sample. Samples are taken by a    *)
(* thread and land while the classification changes.                       *)
(*                                                                         *)
(* Every job here was submitted on this node (the others are never         *)
(* candidates, launched_here); cadences are any tick, due or not.          *)
(***************************************************************************)
EXTENDS Naturals, Sequences, FiniteSets, SequencesExt

CONSTANTS
  Jobs,             \* the user's other jobs
  Foreign,          \* those launched from another session on this node
  Sessions,         \* those that are sinteractive sessions, by Comment
  MonitorSessions,  \* the monitor_sessions setting
  Suspendable       \* those that may be suspended, or requeued

ASSUME MonitorAssumption ==
  /\ Foreign \subseteq Jobs /\ Sessions \subseteq Jobs
  /\ Suspendable \subseteq Jobs /\ MonitorSessions \in BOOLEAN

\* One user's jobs, as many as one answer of squeue lists.
ASSUME FiniteAssumption == IsFiniteSet(Jobs)

VARIABLES
  job,         \* squeue's state of each job
  shell,       \* the foreign jobs whose submitting shell is still alive
  at,          \* the loop: between two of its calls
  rows,        \* the answer of other_jobs being worked on
  seen,        \* seen_jobs
  queue,       \* queue: the jobs of the last answer, running and pending
  sessions,    \* sessions
  candidates,  \* candidates
  origins,     \* origins: the jobs whose environment has been read
  remotes,     \* remotes: the jobs on the panel
  mine,        \* jobs: the jobs the summary counts
  settled,     \* settled, while samples are taken
  request,     \* the poller's one-entry request channel, {} when empty
  round,       \* the targets it is sampling
  results,     \* its samples, not yet taken
  files,       \* the <id>.metrics.json files this loop has written
  done         \* history: the jobs a job_done event was emitted for

cluster == <<job, shell>>
view == <<seen, queue, sessions, candidates, origins, remotes, mine>>
poller == <<request, round, results>>
vars == <<cluster, at, rows, view, settled, poller, files, done>>

Queue == [running : SUBSET Jobs, pending : SUBSET Jobs]
Sample == [job : Jobs, origin : BOOLEAN, fetched : BOOLEAN]

NoJobs == [running |-> {}, pending |-> {}]
Listed(q) == q.running \cup q.pending

TypeOK ==
  /\ job \in [Jobs -> {"none", "PENDING", "RUNNING", "SUSPENDED", "gone"}]
  /\ shell \subseteq Foreign
  /\ at \in {"idle", "classify", "kick", "take"}
  /\ rows \in Queue /\ queue \in Queue
  /\ {seen, sessions, candidates, origins, remotes, mine, request, round, files, done}
       \subseteq SUBSET Jobs
  /\ settled \in BOOLEAN /\ (settled => at = "take")
  /\ results \in Seq(Sample)
  /\ at # "classify" => rows = NoJobs /\ remotes \cup candidates \subseteq seen

Init ==
  /\ job = [j \in Jobs |-> "none"] /\ shell = Foreign
  /\ at = "idle" /\ rows = NoJobs /\ queue = NoJobs
  /\ seen = {} /\ sessions = {} /\ candidates = {} /\ origins = {}
  /\ remotes = {} /\ mine = {} /\ settled = FALSE
  /\ request = {} /\ round = {} /\ results = <<>>
  /\ files = {} /\ done = {}

----------------------------------------------------------------------------
(* The classification.                                                     *)

\* ours: Slurm's word, unless the job's own environment contradicts it.
Ours(cands, origs) == cands \ (origs \cap Foreign)
\* (mutant) Sessions are monitored like any job.
MonitoredAll(cands, origs, sess) == Ours(cands, origs)
\* monitored: ours, and not a session that the user did not ask for.
Monitored(cands, origs, sess) == Ours(cands, origs) \ sess

\* my_job_briefs and my_session_ids both ask for running and pending jobs.
Running == {j \in Jobs : job[j] = "RUNNING"}
Pending == {j \in Jobs : job[j] = "PENDING"}

\* (mutant) A new verdict drops the panel entry and leaves the summary.
PanelOnly(q, cands, origs, sess) ==
  /\ remotes' = remotes \cap Monitored(cands, origs, sess)
  /\ UNCHANGED mine

\* (mutant) A new verdict changes the summary and leaves the panel.
SummaryOnly(q, cands, origs, sess) ==
  /\ mine' = Listed(q) \cap Ours(cands, origs)
  /\ UNCHANGED remotes

\* reclassify: the summary, and the panel entries that go.
Reclassify(q, cands, origs, sess) ==
  /\ mine' = Listed(q) \cap Ours(cands, origs)
  /\ remotes' = remotes \cap Monitored(cands, origs, sess)

----------------------------------------------------------------------------
(* The loop: refresh_queue ...                                             *)

\* (mutant) The jobs that are new are taken for those that left.
QueryQueueForNew ==
  /\ at = "idle" /\ at' = "classify"
  /\ rows' = [running |-> Running, pending |-> Pending]
  /\ done' = done \cup (Listed(rows') \ seen)
  /\ seen' = Listed(rows')
  /\ UNCHANGED <<cluster, queue, sessions, candidates, origins, remotes, mine, settled, poller, files>>

\* (mutant) seen_jobs is replaced before the departed are looked for.
QueryQueueLate ==
  /\ at = "idle" /\ at' = "classify"
  /\ rows' = [running |-> Running, pending |-> Pending]
  /\ seen' = Listed(rows')
  /\ done' = done \cup (seen' \ Listed(rows'))
  /\ UNCHANGED <<cluster, queue, sessions, candidates, origins, remotes, mine, settled, poller, files>>

\* other_jobs answers: job_done for every job seen before and not listed now.
QueryQueue ==
  /\ at = "idle" /\ at' = "classify"
  /\ rows' = [running |-> Running, pending |-> Pending]
  /\ done' = done \cup (seen \ Listed(rows'))
  /\ seen' = Listed(rows')
  /\ UNCHANGED <<cluster, queue, sessions, candidates, origins, remotes, mine, settled, poller, files>>

\* It is not due, or squeue fails and the queue stays as it was.
SkipQueue ==
  /\ at = "idle" /\ at' = "kick"
  /\ UNCHANGED <<cluster, rows, view, settled, poller, files, done>>

\* session_ids: a second squeue, a moment later. (When it fails the answer is
\* empty and sessions count as jobs until the next; that is left out here.)
SessionIds == IF MonitorSessions THEN {} ELSE Sessions \cap (Running \cup Pending)

\* launched_here: a live submitter names its session, a dead one cannot be
\* asked and the node alone decides.
LaunchedHere == Listed(rows) \ shell

\* (mutant) Candidates are only added.
ClassifyAdds ==
  /\ at = "classify" /\ at' = "kick"
  /\ sessions' = SessionIds
  /\ candidates' = candidates \cup LaunchedHere
  /\ origins' = origins \cap seen
  /\ files' = files \ (remotes \ rows.running)
  /\ queue' = rows /\ rows' = NoJobs
  /\ LET kept == Monitored(candidates', origins', sessions')
     IN /\ remotes' = remotes \cap rows.running \cap kept
        /\ mine' = Listed(queue') \cap Ours(candidates', origins')
  /\ UNCHANGED <<cluster, seen, settled, poller, done>>

\* (mutant) Only the file of a job that is still monitored is removed.
ClassifyKeepsFiles ==
  /\ at = "classify" /\ at' = "kick"
  /\ sessions' = SessionIds
  /\ candidates' = LaunchedHere
  /\ origins' = origins \cap seen
  /\ queue' = rows /\ rows' = NoJobs
  /\ LET kept == Monitored(candidates', origins', sessions')
     IN /\ files' = files \ ((remotes \cap kept) \ queue'.running)
        /\ remotes' = remotes \cap queue'.running \cap kept
        /\ mine' = Listed(queue') \cap Ours(candidates', origins')
  /\ UNCHANGED <<cluster, seen, settled, poller, done>>

\* The rest of refresh_queue. Only a job that no longer runs has its file
\* removed; one that is merely not monitored keeps it.
Classify ==
  /\ at = "classify" /\ at' = "kick"
  /\ sessions' = SessionIds
  /\ candidates' = LaunchedHere
  /\ origins' = origins \cap seen
  /\ files' = files \ (remotes \ rows.running)
  /\ queue' = rows /\ rows' = NoJobs
  /\ LET kept == Monitored(candidates', origins', sessions')
     IN /\ remotes' = remotes \cap rows.running \cap kept
        /\ mine' = Listed(queue') \cap Ours(candidates', origins')
  /\ UNCHANGED <<cluster, seen, settled, poller, done>>

(* ... and poll_remotes.                                                   *)

Targets == queue.running \cap Monitored(candidates, origins, sessions)

\* try_send: a request that is still waiting makes this one a no-op.
Kick ==
  /\ at = "kick" /\ at' = "take"
  /\ request' \in {request, IF request = {} THEN Targets ELSE request}
  /\ UNCHANGED <<cluster, rows, view, settled, round, results, files, done>>

\* (mutant) The sample is judged by what was known before it.
TakeByOldVerdict ==
  /\ at = "take" /\ results # <<>> /\ results' = Tail(results)
  /\ LET r == Head(results)
     IN /\ origins' = IF r.origin THEN origins \cup {r.job} ELSE origins
        /\ settled' = (settled \/ origins' # origins)
        /\ IF r.job \in Monitored(candidates, origins, sessions)
           THEN /\ remotes' = remotes \cup {r.job}
                /\ files' = IF r.fetched THEN files \cup {r.job} ELSE files
           ELSE UNCHANGED <<remotes, files>>
  /\ UNCHANGED <<cluster, at, rows, seen, queue, sessions, candidates, mine, request, round, done>>

\* One sample: the job's environment is recorded first, and a job that is
\* not monitored is then dropped. (A verdict on a job no longer listed is
\* kept until the next answer of squeue.)
TakeSample ==
  /\ at = "take" /\ results # <<>> /\ results' = Tail(results)
  /\ LET r == Head(results)
     IN /\ origins' = IF r.origin THEN origins \cup {r.job} ELSE origins
        /\ settled' = (settled \/ origins' # origins)
        /\ IF r.job \in Monitored(candidates, origins', sessions)
           THEN /\ remotes' = remotes \cup {r.job}
                /\ files' = IF r.fetched THEN files \cup {r.job} ELSE files
           ELSE UNCHANGED <<remotes, files>>
  /\ UNCHANGED <<cluster, at, rows, seen, queue, sessions, candidates, mine, request, round, done>>

\* No sample is left: a verdict that is new changes what is shown.
EndTake ==
  /\ at = "take" /\ results = <<>> /\ at' = "idle"
  /\ settled' = FALSE
  /\ IF settled THEN Reclassify(queue, candidates, origins, sessions)
     ELSE UNCHANGED <<mine, remotes>>
  /\ UNCHANGED <<cluster, rows, seen, queue, sessions, candidates, origins, poller, files, done>>

----------------------------------------------------------------------------
(* The poller thread.                                                      *)

StartRound ==
  /\ request # {} /\ round = {}
  /\ round' = request /\ request' = {}
  /\ UNCHANGED <<cluster, at, rows, view, settled, results, files, done>>

\* A target that does not run any more, or fails, is absent; one with a fresh
\* file of its own is read from there; the environment is in a sample unless
\* none of the job's processes could be read. The samples of one round are of
\* distinct jobs, and their order does not matter.
EndRound ==
  /\ round # {} /\ round' = {}
  /\ \E S \in SUBSET (round \cap Running) :
       \E o, f \in [S -> BOOLEAN] :
         results' = results \o [i \in 1..Cardinality(S) |->
           LET j == SetToSeq(S)[i] IN [job |-> j, origin |-> o[j], fetched |-> f[j]]]
  /\ UNCHANGED <<cluster, at, rows, view, settled, request, files, done>>

----------------------------------------------------------------------------
(* Slurm and the shells.                                                   *)

JobMoves(j, from, to) ==
  /\ job[j] = from /\ job' = [job EXCEPT ![j] = to]
  /\ UNCHANGED <<shell, at, rows, view, settled, poller, files, done>>

Submit(j) == JobMoves(j, "none", "PENDING")
Allocate(j) == JobMoves(j, "PENDING", "RUNNING")
End(j) == job[j] # "none" /\ job[j] # "gone" /\ JobMoves(j, job[j], "gone")
Suspend(j) ==
  j \in Suspendable /\ (JobMoves(j, "RUNNING", "SUSPENDED") \/ JobMoves(j, "RUNNING", "PENDING"))
Resume(j) == JobMoves(j, "SUSPENDED", "RUNNING")

ShellExits(j) ==
  /\ j \in shell /\ job[j] # "none" /\ shell' = shell \ {j}
  /\ UNCHANGED <<job, at, rows, view, settled, poller, files, done>>

----------------------------------------------------------------------------
Loop == \/ QueryQueue \/ SkipQueue \/ Classify \/ Kick \/ TakeSample \/ EndTake
Poller == StartRound \/ EndRound
Cluster == \E j \in Jobs : Submit(j) \/ Allocate(j) \/ End(j) \/ Suspend(j) \/ Resume(j) \/ ShellExits(j)

Next == Loop \/ Poller \/ Cluster
Spec == Init /\ [][Next]_vars

\* The loop ticks, the queue is due again and again and squeue then answers;
\* a round ends at the latest with REMOTE_TIMEOUT.
FairSpec == Spec /\ WF_vars(Loop) /\ SF_vars(QueryQueue) /\ WF_vars(EndRound)

----------------------------------------------------------------------------
\* Between ticks the panel carries monitored jobs only, whenever the verdict
\* on a job came and whatever samples were in flight then.
PanelIsOurs == at = "idle" => remotes \subseteq Monitored(candidates, origins, sessions)

\* ... and the summary counts the jobs of the last squeue that are ours by
\* what is known now.
SummaryIsCurrent == at = "idle" => mine = Listed(queue) \cap Ours(candidates, origins)

\* job.rs:714-717: no file is written for a job known to be another
\* session's, in-flight samples included.
KnownForeignIsNotWritten ==
  [][\A j \in Foreign \cap origins' : j \in files' => j \in files]_vars

\* Every job that was seen in the queue and left it is reported.
DepartureIsReported == \A j \in Jobs : (j \in seen /\ job[j] = "gone") ~> j \in done

\* A job of ours that is over leaves nothing behind: no panel entry and no
\* file, though samples of it may still be in flight.
NothingLeftOfOurs ==
  \A j \in Jobs \ Foreign : job[j] = "gone" ~> [](j \notin remotes \cup files)

\* A job that leaves the queue is settled: reported, and gone from the panel
\* and the files.
DeparturesAreSettled == DepartureIsReported /\ NothingLeftOfOurs

\* core events.rs:23, "one of the user's other jobs left the queue": whoever
\* is reported by job_done has ended, unless it was suspended meanwhile.
DoneMeansGone == \A j \in done \ Suspendable : job[j] = "gone"

\* job.rs:714-717: this loop writes no file over the one of a session that
\* still runs, unless sessions are monitored: not even when the two squeue
\* calls see different queues.
SessionFilesAreTheirs ==
  MonitorSessions \/ \A j \in Sessions \cap files : job[j] = "gone"
=============================================================================
