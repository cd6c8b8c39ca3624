------------------------- MODULE QueueMonitorProofs -------------------------
(***************************************************************************)
(* What holds of QueueMonitor for any set of jobs. The classification and  *)
(* what is shown by it agree except while samples are being taken after a  *)
(* verdict that was new, which is what `settled` records: that is the      *)
(* inductive invariant ShownInv. And, in the stories told beside it, that  *)
(* what a user points at (a row, a name, a pane, a session to watch) is    *)
(* what is acted on, for any number of them.                               *)
(***************************************************************************)
EXTENDS MCQueueMonitor, FiniteSetTheorems, SequenceTheorems, TLAPS

\* The panel and the summary as the classification has them.
Shown ==
  /\ remotes \subseteq Monitored(candidates, origins, sessions)
  /\ mine = Listed(queue) \cap Ours(candidates, origins)

ShownInv ==
  /\ settled => at = "take"
  /\ settled \in BOOLEAN
  /\ ~settled => Shown

\* What the loop's steps and the rest of the system do to what is shown.
LEMMA ShownInit == Init => ShownInv
BY DEF Init, ShownInv, Shown, Listed, NoJobs, Ours

\* The loop's own steps.
LEMMA LoopKeepsShown == ShownInv /\ Loop => ShownInv'
<1> SUFFICES ASSUME ShownInv, Loop PROVE ShownInv'
  OBVIOUS
<1>1. CASE QueryQueue
  BY <1>1 DEF QueryQueue, ShownInv, Shown, cluster, poller, Monitored, Ours, Listed
<1>2. CASE SkipQueue
  BY <1>2 DEF SkipQueue, ShownInv, Shown, view, cluster, poller, Monitored, Ours, Listed
<1>3. CASE Classify
  <2>1. remotes' \subseteq Monitored(candidates, origins, sessions)'
    BY <1>3 DEF Classify, Monitored, Ours
  <2>2. mine' = (Listed(queue) \cap Ours(candidates, origins))'
    BY <1>3 DEF Classify, Listed, Ours
  <2>3. settled' = settled /\ ~settled
    BY <1>3 DEF Classify, ShownInv
  <2> QED BY <2>1, <2>2, <2>3 DEF ShownInv, Shown
<1>4. CASE Kick
  BY <1>4 DEF Kick, ShownInv, Shown, view, cluster, poller, Monitored, Ours, Listed
<1>5. CASE TakeSample
  <2> DEFINE r == Head(results)
  <2>1. /\ settled' = (settled \/ origins' # origins)
        /\ UNCHANGED <<at, queue, sessions, candidates, mine>>
        /\ at = "take"
    BY <1>5 DEF TakeSample
  <2>2. ASSUME ~settled' PROVE Shown'
    <3>1. ~settled /\ origins' = origins
      BY <2>1, <2>2
    <3>2. mine' = (Listed(queue) \cap Ours(candidates, origins))'
      BY <2>1, <3>1 DEF ShownInv, Shown, Listed, Ours
    <3>3. remotes' \subseteq remotes \cup Monitored(candidates, origins', sessions)
      <4>1. CASE r.job \in Monitored(candidates, origins', sessions)
        BY <1>5, <4>1 DEF TakeSample
      <4>2. CASE r.job \notin Monitored(candidates, origins', sessions)
        BY <1>5, <4>2 DEF TakeSample
      <4> QED BY <4>1, <4>2
    <3>4. remotes' \subseteq Monitored(candidates, origins, sessions)'
      BY <2>1, <3>1, <3>3 DEF ShownInv, Shown, Monitored, Ours
    <3> QED BY <3>2, <3>4 DEF Shown
  <2>3. settled' \in BOOLEAN
    BY <2>1
  <2> QED BY <2>1, <2>2, <2>3 DEF ShownInv
<1>6. CASE EndTake
  <2>1. settled' = FALSE /\ UNCHANGED <<queue, sessions, candidates, origins>>
    BY <1>6 DEF EndTake
  <2>2. CASE settled
    BY <1>6, <2>1, <2>2 DEF EndTake, Reclassify, ShownInv, Shown, Listed, Monitored, Ours
  <2>3. CASE ~settled
    BY <1>6, <2>1, <2>3 DEF EndTake, ShownInv, Shown, Listed, Monitored, Ours
  <2> QED BY <2>2, <2>3
<1> QED BY <1>1, <1>2, <1>3, <1>4, <1>5, <1>6 DEF Loop

\* The poller thread, Slurm and the shells touch nothing of it.
LEMMA OthersKeepShown == ShownInv /\ (Poller \/ Cluster \/ UNCHANGED vars) => ShownInv'
<1> SUFFICES ASSUME ShownInv, Poller \/ Cluster \/ UNCHANGED vars PROVE ShownInv'
  OBVIOUS
<1>1. UNCHANGED <<at, view, settled>>
  <2>1. CASE Poller
    BY <2>1 DEF Poller, StartRound, EndRound
  <2>2. CASE Cluster
    BY <2>2 DEF Cluster, JobMoves, Submit, Allocate, End, Suspend, Resume, ShellExits
  <2>3. CASE UNCHANGED vars
    BY <2>3 DEF vars
  <2> QED BY <2>1, <2>2, <2>3
<1> QED BY <1>1 DEF ShownInv, Shown, view, Listed, Monitored, Ours

\* Whatever jobs there are, and however samples and classification race, the
\* panel and the summary differ from the classification only under `settled`.
THEOREM ShownIsCurrent == Spec => []ShownInv
<1>1. ShownInv /\ [Next]_vars => ShownInv'
  BY LoopKeepsShown, OthersKeepShown DEF Next
<1> QED BY ShownInit, <1>1, PTL DEF Spec

\* Between ticks the panel carries monitored jobs only.
THEOREM Panel == Spec => []PanelIsOurs
<1>1. ShownInv => PanelIsOurs
  BY DEF ShownInv, Shown, PanelIsOurs
<1> QED BY ShownIsCurrent, <1>1, PTL

\* Between ticks the summary counts the listed jobs that are ours.
THEOREM Summary == Spec => []SummaryIsCurrent
<1>1. ShownInv => SummaryIsCurrent
  BY DEF ShownInv, Shown, SummaryIsCurrent
<1> QED BY ShownIsCurrent, <1>1, PTL

\* No step writes the file of a job whose environment names another session.
THEOREM ForeignFiles == Spec => KnownForeignIsNotWritten
<1> DEFINE Kept == \A j \in Foreign \cap origins' : j \in files' => j \in files
<1>1. ASSUME [Next]_vars PROVE Kept
  <2>1. CASE TakeSample
    <3>1. files' \subseteq files \cup Monitored(candidates, origins', sessions)
      <4>1. CASE Head(results).job \in Monitored(candidates, origins', sessions)
        BY <2>1, <4>1 DEF TakeSample
      <4>2. CASE Head(results).job \notin Monitored(candidates, origins', sessions)
        BY <2>1, <4>2 DEF TakeSample
      <4> QED BY <4>1, <4>2
    <3> QED BY <3>1 DEF Monitored, Ours
  <2>2. CASE Classify
    BY <2>2 DEF Classify
  <2>3. CASE QueryQueue \/ SkipQueue \/ Kick \/ EndTake
    BY <2>3 DEF QueryQueue, SkipQueue, Kick, EndTake
  <2>4. CASE Poller \/ Cluster
    BY <2>4 DEF Poller, StartRound, EndRound, Cluster, JobMoves, Submit, Allocate, End,
                Suspend, Resume, ShellExits
  <2>5. CASE UNCHANGED vars
    BY <2>5 DEF vars
  <2> QED BY <1>1, <2>1, <2>2, <2>3, <2>4, <2>5 DEF Next, Loop
<1> QED BY <1>1, PTL DEF Spec, KnownForeignIsNotWritten

----------------------------------------------------------------------------
\* What was seen in the queue is there still or has ended, where the job
\* can be neither suspended nor requeued.
DoneInv ==
  /\ \A j \in seen \ Suspendable : job[j] \in {"PENDING", "RUNNING", "gone"}
  /\ DoneMeansGone
  /\ seen \subseteq Jobs /\ done \subseteq Jobs
  /\ job = [j \in Jobs |-> job[j]]

\* The inductive invariant behind DoneMeansGone.
THEOREM Departures == Spec => []DoneInv
<1>1. Init => DoneInv
  BY DEF Init, DoneInv, DoneMeansGone
<1>2. ASSUME DoneInv, [Next]_vars PROVE DoneInv'
  <2>1. CASE QueryQueue
    <3>1. seen' = Running \cup Pending /\ done' = done \cup (seen \ seen') /\ job' = job
      BY <2>1 DEF QueryQueue, Listed, cluster
    <3>2. \A j \in (seen \ seen') \ Suspendable : job[j] = "gone"
      BY <1>2, <3>1 DEF DoneInv, Running, Pending
    <3> QED BY <1>2, <3>1, <3>2 DEF DoneInv, DoneMeansGone, Running, Pending
  <2>2. CASE SkipQueue \/ Classify \/ Kick \/ TakeSample \/ EndTake
    <3>1. UNCHANGED <<seen, done, job>>
      BY <2>2 DEF SkipQueue, Classify, Kick, TakeSample, EndTake, cluster, view
    <3> QED BY <1>2, <3>1 DEF DoneInv, DoneMeansGone
  <2>3. CASE Poller \/ UNCHANGED vars
    <3>1. UNCHANGED <<seen, done, job>>
      BY <2>3 DEF Poller, StartRound, EndRound, cluster, view, vars
    <3> QED BY <1>2, <3>1 DEF DoneInv, DoneMeansGone
  <2>4. CASE Cluster
    <3>1. UNCHANGED <<seen, done>>
      BY <2>4 DEF Cluster, JobMoves, Submit, Allocate, End, Suspend, Resume, ShellExits, view
    <3>2. CASE \E j \in Jobs : ShellExits(j)
      BY <1>2, <3>1, <3>2 DEF ShellExits, DoneInv, DoneMeansGone
    <3>3. CASE \E j \in Jobs : Submit(j) \/ Allocate(j) \/ End(j) \/ Resume(j)
      <4>1. PICK j \in Jobs : Submit(j) \/ Allocate(j) \/ End(j) \/ Resume(j)
        BY <3>3
      <4>2. PICK to \in {"PENDING", "RUNNING", "gone"} :
              /\ job' = [job EXCEPT ![j] = to]
              /\ job[j] # "gone"
        BY <4>1 DEF Submit, Allocate, End, Resume, JobMoves
      <4> QED BY <1>2, <3>1, <4>2 DEF DoneInv, DoneMeansGone
    <3>4. CASE \E j \in Jobs : Suspend(j)
      <4>1. PICK j \in Suspendable : Suspend(j)
        BY <3>4 DEF Suspend
      <4>2. \A k \in Jobs \ Suspendable : job'[k] = job[k]
        BY <1>2, <4>1 DEF Suspend, JobMoves, DoneInv
      <4>3. job' = [k \in Jobs |-> job'[k]]
        BY <1>2, <4>1 DEF Suspend, JobMoves, DoneInv
      <4> QED BY <1>2, <3>1, <4>2, <4>3 DEF DoneInv, DoneMeansGone
    <3> QED BY <2>4, <3>2, <3>3, <3>4 DEF Cluster
  <2> QED BY <1>2, <2>1, <2>2, <2>3, <2>4 DEF Next, Loop
<1> QED BY <1>1, <1>2, PTL DEF Spec

\* job_done is emitted for jobs that have left, those that may be suspended
\* or requeued aside.
THEOREM DoneJobsAreGone == Spec => []DoneMeansGone
<1>1. DoneInv => DoneMeansGone
  BY DEF DoneInv
<1> QED BY <1>1, Departures, PTL

----------------------------------------------------------------------------
(* The types, and what bounds the panel between the answers of squeue.     *)

\* While an answer is being worked on, it is what seen_jobs holds.
AnswerInv == TypeOK /\ (at = "classify" => seen = Listed(rows))

\* SetToSeq enumerates a finite set: every index stands for an element.
LEMMA EnumerationType ==
  ASSUME NEW those, IsFiniteSet(those)
  PROVE  Cardinality(those) \in Nat /\ SetToSeq(those) \in [1..Cardinality(those) -> those]
<1>1. Cardinality(those) \in Nat /\ ExistsBijection(1..Cardinality(those), those)
  BY FS_CardinalityType
<1>2. \E f \in [1..Cardinality(those) -> those] : IsInjective(f)
  BY <1>1 DEF ExistsBijection, Bijection, Injection
<1> QED BY <1>1, <1>2 DEF SetToSeq

\* The samples of a round are samples, of jobs.
LEMMA RoundType ==
  ASSUME TypeOK, EndRound
  PROVE  results' \in Seq(Sample)
<1>0. PICK those \in SUBSET (round \cap Running) : \E o, f \in [those -> BOOLEAN] :
        results' = results \o [i \in 1..Cardinality(those) |->
          LET j == SetToSeq(those)[i] IN [job |-> j, origin |-> o[j], fetched |-> f[j]]]
  BY DEF EndRound
<1>1. PICK o, f \in [those -> BOOLEAN] :
        results' = results \o [i \in 1..Cardinality(those) |->
          LET j == SetToSeq(those)[i] IN [job |-> j, origin |-> o[j], fetched |-> f[j]]]
  BY <1>0
<1>2. those \subseteq Jobs /\ IsFiniteSet(those)
  BY FiniteAssumption, FS_Subset DEF TypeOK, Running
<1>3. Cardinality(those) \in Nat /\ SetToSeq(those) \in [1..Cardinality(those) -> those]
  BY <1>2, EnumerationType
<1> DEFINE taken == [i \in 1..Cardinality(those) |->
             [job |-> SetToSeq(those)[i], origin |-> o[SetToSeq(those)[i]],
              fetched |-> f[SetToSeq(those)[i]]]]
<1>4. taken \in [1..Cardinality(those) -> Sample]
  BY <1>2, <1>3 DEF Sample
<1>5. taken \in Seq(Sample)
  <2> HIDE DEF taken
  <2> QED BY <1>3, <1>4
<1>6. results' = results \o taken
  BY <1>1
<1> HIDE DEF taken
<1> QED BY <1>5, <1>6 DEF TypeOK

\* The inductive invariant behind TypeOK.
THEOREM Answers == Spec => []AnswerInv
<1>1. Init => AnswerInv
  <2> SUFFICES ASSUME Init PROVE AnswerInv
    OBVIOUS
  <2>1. rows \in Queue /\ queue \in Queue /\ rows = NoJobs
    BY DEF Init, NoJobs, Queue
  <2>2. results \in Seq(Sample)
    BY DEF Init
  <2> QED
    BY <2>1, <2>2, MonitorAssumption DEF Init, AnswerInv, TypeOK
<1>2. ASSUME AnswerInv, [Next]_vars PROVE AnswerInv'
  <2> USE <1>2, MonitorAssumption
  <2> DEFINE Queues == NoJobs \in Queue /\ [running |-> Running, pending |-> Pending] \in Queue
  <2>0. Queues
    BY DEF NoJobs, Queue, Running, Pending
  <2>1. CASE QueryQueue
    <3>1. rows' \in Queue /\ Listed(rows') \subseteq Jobs /\ seen' = Listed(rows')
      BY <2>0, <2>1 DEF QueryQueue, Queue, Listed
    <3>2. done' \subseteq Jobs
      BY <2>1 DEF QueryQueue, AnswerInv, TypeOK
    <3> QED
      BY <2>1, <3>1, <3>2 DEF QueryQueue, AnswerInv, TypeOK, cluster, poller
  <2>2. CASE SkipQueue
    BY <2>2 DEF SkipQueue, AnswerInv, TypeOK, cluster, view, poller
  <2>3. CASE Classify
    <3>1. /\ rows.running \subseteq Jobs /\ rows.pending \subseteq Jobs
          /\ SessionIds \subseteq Jobs
      BY DEF AnswerInv, TypeOK, Queue, SessionIds
    <3>2. /\ at' = "kick" /\ rows' = NoJobs /\ queue' = rows /\ settled' = settled
          /\ seen' = seen /\ seen = Listed(rows)
          /\ sessions' = SessionIds /\ candidates' \subseteq Listed(rows)
          /\ origins' \subseteq origins /\ files' \subseteq files
          /\ remotes' \subseteq rows.running
          /\ mine' \subseteq Listed(rows)
          /\ UNCHANGED <<job, shell, request, round, results, done>>
      BY <2>3 DEF Classify, AnswerInv, LaunchedHere, cluster, poller
    <3>3. ~settled
      BY <2>3 DEF Classify, AnswerInv, TypeOK
    <3>4. remotes' \cup candidates' \subseteq seen'
      BY <3>2 DEF Listed
    <3>5. mine' \subseteq Jobs /\ candidates' \subseteq Jobs /\ remotes' \subseteq Jobs
      BY <3>1, <3>2 DEF Listed
    <3> QED
      BY <2>0, <3>1, <3>2, <3>3, <3>4, <3>5 DEF AnswerInv, TypeOK
  <2>4. CASE Kick
    <3>1. Targets \subseteq Jobs
      BY DEF Targets, AnswerInv, TypeOK, Queue
    <3>2. request' \subseteq Jobs
      BY <2>4, <3>1 DEF Kick, AnswerInv, TypeOK
    <3> QED BY <2>4, <3>2 DEF Kick, AnswerInv, TypeOK, cluster, view
  <2>5. CASE TakeSample
    <3> DEFINE r == Head(results)
    <3>1. /\ results # <<>> /\ results' = Tail(results)
          /\ origins' = IF r.origin THEN origins \cup {r.job} ELSE origins
          /\ settled' = (settled \/ origins' # origins)
          /\ IF r.job \in Monitored(candidates, origins', sessions)
               THEN /\ remotes' = remotes \cup {r.job}
                    /\ files' = IF r.fetched THEN files \cup {r.job} ELSE files
               ELSE UNCHANGED <<remotes, files>>
          /\ at = "take"
          /\ UNCHANGED <<cluster, at, rows, seen, queue, sessions, candidates, mine,
                         request, round, done>>
      BY <2>5 DEF TakeSample
    <3>2. r \in Sample /\ results' \in Seq(Sample)
      BY <3>1 DEF AnswerInv, TypeOK
    <3>3. r.job \in Jobs
      BY <3>2 DEF Sample
    <3> HIDE DEF r
    <3>4. r.job \in Monitored(candidates, origins', sessions) => r.job \in candidates
      BY DEF Monitored, Ours
    <3>5. remotes' \subseteq remotes \cup candidates
      BY <3>1, <3>4
    <3>6. origins' \subseteq Jobs /\ files' \subseteq Jobs /\ remotes' \subseteq Jobs
      BY <3>1, <3>3 DEF AnswerInv, TypeOK
    <3>7. settled' \in BOOLEAN
      BY <3>1
    <3> QED
      BY <3>1, <3>2, <3>5, <3>6, <3>7 DEF AnswerInv, TypeOK, cluster
  <2>6. CASE EndTake
    <3>1. remotes' \subseteq remotes /\ mine' \subseteq Jobs
      BY <2>6 DEF EndTake, Reclassify, Listed, Queue, AnswerInv, TypeOK
    <3>2. remotes' \cup candidates' \subseteq seen' /\ remotes' \subseteq Jobs
      BY <2>6, <3>1 DEF EndTake, AnswerInv, TypeOK
    <3>3. /\ at' = "idle" /\ settled' = FALSE
          /\ UNCHANGED <<job, shell, rows, seen, queue, sessions, candidates, origins,
                         request, round, results, files, done>>
      BY <2>6 DEF EndTake, cluster, poller
    <3>4. at = "take"
      BY <2>6 DEF EndTake
    <3>5. rows = NoJobs /\ seen \subseteq Jobs /\ candidates \subseteq Jobs
          /\ queue \in Queue /\ results \in Seq(Sample)
      BY <3>4 DEF AnswerInv, TypeOK
    <3>6. {seen, sessions, candidates, origins, remotes, mine, request, round, files, done}'
            \subseteq SUBSET Jobs
      BY <3>1, <3>2, <3>3 DEF AnswerInv, TypeOK
    <3> QED
      BY <3>2, <3>3, <3>5, <3>6 DEF AnswerInv, TypeOK
  <2>7. CASE StartRound
    BY <2>7 DEF StartRound, AnswerInv, TypeOK, cluster, view
  <2>8. CASE EndRound
    <3>1. results' \in Seq(Sample)
      BY <2>8, RoundType DEF AnswerInv
    <3>2. round' = {} /\ UNCHANGED <<cluster, at, rows, view, settled, request, files, done>>
      BY <2>8 DEF EndRound
    <3> QED BY <3>1, <3>2 DEF AnswerInv, TypeOK, cluster, view
  <2>9. CASE Cluster
    <3>1. UNCHANGED <<at, rows, view, settled, poller, files, done>>
      BY <2>9 DEF Cluster, JobMoves, Submit, Allocate, End, Suspend, Resume, ShellExits
    <3>2. job' \in [Jobs -> {"none", "PENDING", "RUNNING", "SUSPENDED", "gone"}]
          /\ shell' \subseteq shell
      BY <2>9 DEF Cluster, JobMoves, Submit, Allocate, End, Suspend, Resume, ShellExits,
                  AnswerInv, TypeOK
    <3> QED BY <3>1, <3>2 DEF AnswerInv, TypeOK, view, poller
  <2>10. CASE UNCHANGED vars
    BY <2>10 DEF vars, AnswerInv, TypeOK, cluster, view, poller
  <2> QED
    BY <2>1, <2>2, <2>3, <2>4, <2>5, <2>6, <2>7, <2>8, <2>9, <2>10 DEF Next, Loop, Poller
<1> QED BY <1>1, <1>2, PTL DEF Spec

\* Every variable keeps its type: samples are of jobs, the answer being
\* worked on is gone when the tick goes on, and between answers nobody is
\* followed or shown who was not in the last one.
THEOREM TypeCorrect == Spec => []TypeOK
<1>1. AnswerInv => TypeOK
  BY DEF AnswerInv
<1> QED BY <1>1, Answers, PTL

----------------------------------------------------------------------------
\* A condition on the cluster: no session is suspended or requeued. (Where one
\* is, its file is written over: TLC shows it without this condition.)
SessionsRunThrough == Sessions \cap Suspendable = {}

\* A session that has not ended is known for one, or is no candidate, and has
\* no file of this loop's.
SessionInv ==
  \A j \in Sessions : job[j] # "gone" =>
    j \notin Monitored(candidates, origins, sessions) \cup files

\* A session's own file is not written over, from whichever of its two answers
\* of squeue it is missing, where sessions are not monitored: its job stays in
\* the queue from the one to the other, or has ended.
THEOREM SessionFiles == SessionsRunThrough => (Spec => []SessionFilesAreTheirs)
<1>1. CASE MonitorSessions
  <2>1. SessionFilesAreTheirs
    BY <1>1 DEF SessionFilesAreTheirs
  <2> QED BY <2>1, PTL
<1>2. CASE ~MonitorSessions
  <2> SUFFICES ASSUME SessionsRunThrough PROVE Spec => []SessionFilesAreTheirs
    OBVIOUS
  <2>1. Init => SessionInv
    BY DEF Init, SessionInv, Monitored, Ours
  <2>2. ASSUME AnswerInv, DoneInv, SessionInv, [Next]_vars PROVE SessionInv'
    <3> USE <2>2
    <3>1. ASSUME \A j \in Sessions : job'[j] # "gone" => job[j] # "gone",
                 files' \subseteq files \cup Monitored(candidates, origins, sessions),
                 Monitored(candidates, origins, sessions)'
                   \subseteq Monitored(candidates, origins, sessions)
          PROVE  SessionInv'
      BY <3>1 DEF SessionInv
    <3>2. CASE Classify
      <4>1. /\ candidates' \subseteq seen /\ sessions' = SessionIds /\ job' = job
            /\ files' \subseteq files
        BY <3>2 DEF Classify, LaunchedHere, AnswerInv, cluster
      <4>2. ASSUME NEW j \in Sessions, job[j] # "gone"
            PROVE  j \notin Monitored(candidates, origins, sessions)'
        <5>1. j \in Jobs /\ j \notin Suspendable
          BY MonitorAssumption DEF SessionsRunThrough
        <5>2. j \in seen => j \in SessionIds
          BY <4>2, <5>1, <1>2 DEF DoneInv, SessionIds, Running, Pending
        <5> QED BY <4>1, <5>2 DEF Monitored, Ours
      <4> QED BY <4>1, <4>2 DEF SessionInv
    <3>3. CASE TakeSample
      <4>1. /\ origins \subseteq origins' /\ UNCHANGED <<job, candidates, sessions>>
        BY <3>3 DEF TakeSample, cluster
      <4>2. files' \subseteq files \cup Monitored(candidates, origins', sessions)
        <5>1. CASE Head(results).job \in Monitored(candidates, origins', sessions)
          BY <3>3, <5>1 DEF TakeSample
        <5>2. CASE Head(results).job \notin Monitored(candidates, origins', sessions)
          BY <3>3, <5>2 DEF TakeSample
        <5> QED BY <5>1, <5>2
      <4>3. Monitored(candidates, origins', sessions)
              \subseteq Monitored(candidates, origins, sessions)
        BY <4>1 DEF Monitored, Ours
      <4> QED BY <3>1, <4>1, <4>2, <4>3
    <3>4. CASE QueryQueue \/ SkipQueue \/ Kick \/ EndTake \/ Poller \/ UNCHANGED vars
      <4>1. UNCHANGED <<job, candidates, origins, sessions, files>>
        BY <3>4 DEF QueryQueue, SkipQueue, Kick, EndTake, Poller, StartRound, EndRound,
                    cluster, view, vars
      <4> QED BY <4>1 DEF SessionInv
    <3>5. CASE Cluster
      <4>1. UNCHANGED <<candidates, origins, sessions, files>>
        BY <3>5 DEF Cluster, JobMoves, Submit, Allocate, End, Suspend, Resume, ShellExits,
                    view
      <4>2. \A j \in Sessions : job'[j] # "gone" => job[j] # "gone"
        <5>1. Sessions \subseteq Jobs /\ job = [j \in Jobs |-> job[j]]
          BY MonitorAssumption DEF DoneInv
        <5> QED
          BY <3>5, <5>1
             DEF Cluster, JobMoves, Submit, Allocate, End, Suspend, Resume, ShellExits
      <4> QED BY <4>1, <4>2 DEF SessionInv
    <3> QED BY <2>2, <3>2, <3>3, <3>4, <3>5 DEF Next, Loop
  <2>3. SessionInv => SessionFilesAreTheirs
    BY DEF SessionInv, SessionFilesAreTheirs
  <2> QED BY <2>1, <2>2, <2>3, Answers, Departures, PTL DEF Spec
<1> QED BY <1>1, <1>2

----------------------------------------------------------------------------
(* The target of a command: a position, an id or a name.                   *)

\* A command is a record, and what is printed of an unchanged queue is what
\* the queue has.
TargetInv ==
  /\ T!TypeOK
  /\ s3 = [verb |-> s3.verb, target |-> s3.target, at |-> s3.at, job |-> s3.job]
  /\ ~s4 => s2 = T!Printed(T!running_sessions)
  /\ T!PositionsAreTheListed /\ T!TypedIsMeant

LEMMA SameCount == \A set : T!Cardinality(set) = Cardinality(set)
BY DEF T!Cardinality, Cardinality

LEMMA RowsOfAQueue ==
  ASSUME s1 \in Seq(T!Rows)
  PROVE  /\ \A set \in SUBSET DOMAIN s1 : IsFiniteSet(set) /\ set \subseteq Nat
         /\ \A i \in DOMAIN s1 : s1[i] \in T!Rows
         /\ T!sessions \subseteq DOMAIN s1 /\ T!running_sessions \subseteq DOMAIN s1
<1>1. DOMAIN s1 = 1..Len(s1) /\ Len(s1) \in Nat
  OBVIOUS
<1>2. IsFiniteSet(1..Len(s1))
  BY <1>1, FS_Interval
<1>3. \A set \in SUBSET (1..Len(s1)) : IsFiniteSet(set)
  BY <1>2, FS_Subset
<1>4. \A i \in DOMAIN s1 : s1[i] \in T!Rows
  BY <1>1, ElementOfSeq
<1> QED BY <1>1, <1>3, <1>4 DEF T!sessions, T!running_sessions

\* Two rows have different positions, from 1 to how many there are.
LEMMA PositionsDiffer ==
  ASSUME NEW set \in SUBSET Nat, IsFiniteSet(set), NEW i \in set
  PROVE  /\ T!Position(i, set) \in 1..Cardinality(set)
         /\ \A j \in set : T!Position(j, set) = T!Position(i, set) => j = i
<1> DEFINE upTo(j) == {k \in set : k <= j}
<1>1. \A j \in set : IsFiniteSet(upTo(j)) /\ Cardinality(upTo(j)) \in Nat /\ Cardinality(upTo(j)) <= Cardinality(set)
  <2> SUFFICES ASSUME NEW j \in set
               PROVE  IsFiniteSet(upTo(j)) /\ Cardinality(upTo(j)) \in Nat /\ Cardinality(upTo(j)) <= Cardinality(set)
    OBVIOUS
  <2>1. upTo(j) \in SUBSET set
    OBVIOUS
  <2> HIDE DEF upTo
  <2> QED BY <2>1, FS_Subset, FS_CardinalityType
<1>2. upTo(i) # {} /\ Cardinality(set) \in Nat
  BY FS_CardinalityType
<1>3. Cardinality(upTo(i)) # 0
  <2> HIDE DEF upTo
  <2> QED BY <1>1, <1>2, FS_EmptySet
<1>4. \A j, k \in set : j < k => Cardinality(upTo(j)) # Cardinality(upTo(k))
  <2> SUFFICES ASSUME NEW j \in set, NEW k \in set, j < k
               PROVE  Cardinality(upTo(j)) # Cardinality(upTo(k))
    OBVIOUS
  <2>0. set \subseteq Nat /\ j \in Nat /\ k \in Nat
    OBVIOUS
  <2>1. upTo(j) \in SUBSET upTo(k) /\ upTo(j) # upTo(k)
    <3>1. \A l \in Nat : l <= j => l <= k
      BY <2>0
    <3>2. k \in upTo(k) /\ k \notin upTo(j)
      BY <2>0
    <3> QED BY <2>0, <3>1, <3>2
  <2>2. IsFiniteSet(upTo(k))
    BY <1>1
  <2> HIDE DEF upTo
  <2> QED BY ONLY <2>1, <2>2, FS_Subset
<1>5. \A j \in set : Cardinality(upTo(j)) = Cardinality(upTo(i)) => j = i
  <2> SUFFICES ASSUME NEW j \in set, Cardinality(upTo(j)) = Cardinality(upTo(i)), j # i PROVE FALSE
    OBVIOUS
  <2>1. j < i \/ i < j
    OBVIOUS
  <2> HIDE DEF upTo
  <2> QED BY <2>1, <1>4
<1>6. \A j \in set : T!Position(j, set) = Cardinality(upTo(j))
  BY SameCount DEF T!Position
<1> HIDE DEF upTo
<1> QED BY <1>1, <1>2, <1>3, <1>5, <1>6

\* What a target resolves to is what it means.
LEMMA ResolvedIsMeant ==
  ASSUME TargetInv, NEW target, NEW verb, NEW id \in T!Resolved(verb, target)
  PROVE  T!Meant(target).by \in {"position", "id", "name"} => {id} = T!Meant(target).ids
<1> DEFINE t == target[1]
           runs == T!running_sessions
<1>1. CASE target = <<>>
  BY <1>1 DEF T!Meant
<1>2. CASE target # <<>> /\ t \notin Nat
  <2> DEFINE found == {i \in T!sessions : s1[i].comment = T!comment_for(t)}
  <2>1. id \in T!resolve_target(t)
    BY <1>2 DEF T!Resolved, T!IsNumber
  <2>2. T!Meant(target).ids = T!IdsOf(found)
    BY <1>2 DEF T!Meant, T!IsNumber
  <2>4. Cardinality(found) = 1 /\ id \in T!IdsOf(found)
    <3>1. T!resolve_target(t) = IF Cardinality(found) = 1 THEN T!IdsOf(found) ELSE {}
      BY SameCount DEF T!resolve_target
    <3> HIDE DEF found
    <3> QED BY <2>1, <3>1
  <2>5. IsFiniteSet(found)
    <3>1. found \in SUBSET DOMAIN s1
      BY DEF T!sessions
    <3> QED BY <3>1, RowsOfAQueue DEF TargetInv, T!TypeOK
  <2>6. \E i : found = {i}
    <3> HIDE DEF found
    <3> QED BY <2>4, <2>5, FS_Singleton
  <2> HIDE DEF found
  <2> QED BY <2>2, <2>4, <2>6 DEF T!IdsOf
<1>3. CASE target # <<>> /\ t \in Nat /\ t \in T!IdsOf(runs)
  <2>1. id \in T!resolve_index(t, runs)
    BY <1>3 DEF T!Resolved, T!IsNumber
  <2> QED BY <2>1, <1>3 DEF T!resolve_index, T!Meant, T!IsNumber
<1>4. CASE target # <<>> /\ t \in Nat /\ t \notin T!IdsOf(runs) /\ ~s4 /\ {p \in s2 : p[1] = t} # {}
  <2> DEFINE here == {p \in s2 : p[1] = t}
  <2>1. T!Meant(target).ids = {p[2] : p \in here}
    BY <1>4 DEF T!Meant, T!IsNumber
  <2>2. s2 = {<<T!Position(i, runs), s1[i].id>> : i \in runs}
    BY <1>4 DEF TargetInv, T!Printed
  <2>3. PICK i \in runs : T!Position(i, runs) = t
    BY <1>4, <2>2
  <2>4. IsFiniteSet(runs) /\ runs \in SUBSET Nat
    BY RowsOfAQueue DEF TargetInv, T!TypeOK
  <2>5. t \in 1..Cardinality(runs) /\ \A j \in runs : T!Position(j, runs) = t => j = i
    <3> HIDE DEF runs
    <3> QED BY <2>3, <2>4, PositionsDiffer
  <2>6. id \in T!IdsOf({j \in runs : T!Position(j, runs) = t})
    <3>1. id \in T!resolve_index(t, runs)
      BY <1>4 DEF T!Resolved, T!IsNumber
    <3> HIDE DEF t, runs
    <3> QED BY <1>4, <2>5, <3>1, SameCount DEF T!resolve_index
  <2>7. id = s1[i].id
    BY <2>5, <2>6 DEF T!IdsOf
  <2>8. here = {<<t, s1[i].id>>}
    BY <2>2, <2>3, <2>5
  <2>9. {p[2] : p \in {<<t, s1[i].id>>}} = {s1[i].id}
    OBVIOUS
  <2> QED BY <2>1, <2>7, <2>8, <2>9
<1>5. CASE target # <<>> /\ t \in Nat /\ t \notin T!IdsOf(runs) /\ ~(~s4 /\ {p \in s2 : p[1] = t} # {})
  BY <1>5 DEF T!Meant, T!IsNumber
<1> QED BY <1>1, <1>2, <1>3, <1>4, <1>5

LEMMA TargetsBegin == T!Init => TargetInv
BY DEF T!Init, T!Idle, TargetInv, T!TypeOK, T!PositionsAreTheListed, T!TypedIsMeant

\* Rows come and go.
LEMMA QueueStaysTyped ==
  ASSUME s1 \in Seq(T!Rows)
  PROVE  /\ \A i \in DOMAIN s1 : T!RemoveAt(s1, i) \in Seq(T!Rows)
         /\ \A i \in 1..(Len(s1) + 1), r \in T!Rows : T!InsertAt(s1, i, r) \in Seq(T!Rows)
         /\ \A i \in DOMAIN s1, r \in T!Rows : [s1 EXCEPT ![i] = r] \in Seq(T!Rows)
<1>1. \A m \in 1..(Len(s1) + 1), n \in 0..Len(s1) : SubSeq(s1, m, n) \in Seq(T!Rows)
  <2> SUFFICES ASSUME NEW m \in 1..(Len(s1) + 1), NEW n \in 0..Len(s1) PROVE SubSeq(s1, m, n) \in Seq(T!Rows)
    OBVIOUS
  <2>1. \A i \in m..n : s1[i] \in T!Rows
    BY ElementOfSeq
  <2> QED BY <2>1, SubSeqProperties
<1>2. \A front, more \in Seq(T!Rows) : front \o more \in Seq(T!Rows)
  BY ConcatProperties
<1>3. DOMAIN s1 = 1..Len(s1) /\ Len(s1) \in Nat
  OBVIOUS
<1>4. ASSUME NEW i \in 1..Len(s1) PROVE T!RemoveAt(s1, i) \in Seq(T!Rows)
  <2>1. i - 1 \in 0..Len(s1) /\ 1 \in 1..(Len(s1) + 1) /\ i + 1 \in 1..(Len(s1) + 1) /\ Len(s1) \in 0..Len(s1)
    BY <1>3
  <2> QED BY <2>1, <1>1, <1>2 DEF T!RemoveAt
<1>5. ASSUME NEW i \in 1..(Len(s1) + 1), NEW r \in T!Rows PROVE T!InsertAt(s1, i, r) \in Seq(T!Rows)
  <2>1. i - 1 \in 0..Len(s1) /\ 1 \in 1..(Len(s1) + 1) /\ Len(s1) \in 0..Len(s1)
    BY <1>3
  <2>2. <<r>> \in Seq(T!Rows)
    OBVIOUS
  <2> QED BY <2>1, <2>2, <1>1, <1>2 DEF T!InsertAt
<1>6. \A i \in 1..Len(s1), r \in T!Rows : [s1 EXCEPT ![i] = r] \in Seq(T!Rows)
  BY ExceptSeq
<1> QED BY <1>3, <1>4, <1>5, <1>6

\* A step of a command that looks at nothing but the record of it.
LEMMA CommandGoesOn ==
  ASSUME TargetInv, UNCHANGED <<s1, s2, s4>>, s5' = s5 \/ s5' = None,
         s3' = T!Idle \/ s3' = [s3 EXCEPT !.at = "act"]
  PROVE  TargetInv'
<1>1. /\ s3'.verb \in T!Verbs \cup {None} /\ s3'.at \in {"idle", "resolve", "check", "act"}
      /\ s3' = [verb |-> s3'.verb, target |-> s3'.target, at |-> s3'.at, job |-> s3'.job]
  BY DEF TargetInv, T!TypeOK, T!Idle
<1>2. T!Printed(T!running_sessions)' = T!Printed(T!running_sessions)
  BY DEF T!Printed, T!running_sessions, T!sessions, T!Position
<1> QED BY <1>1, <1>2 DEF TargetInv, T!TypeOK, T!PositionsAreTheListed, T!TypedIsMeant

\* A step that changes the queue.
LEMMA QueueMoves ==
  ASSUME TargetInv, UNCHANGED s2, s1' \in Seq(T!Rows), s4' = TRUE, s5' = s5 \/ s5' = None,
         UNCHANGED s3 \/ s3' = T!Idle
  PROVE  TargetInv'
<1>1. /\ s3'.verb \in T!Verbs \cup {None} /\ s3'.at \in {"idle", "resolve", "check", "act"}
      /\ s3' = [verb |-> s3'.verb, target |-> s3'.target, at |-> s3'.at, job |-> s3'.job]
  BY DEF TargetInv, T!TypeOK, T!Idle
<1> QED BY <1>1 DEF TargetInv, T!TypeOK, T!PositionsAreTheListed, T!TypedIsMeant

LEMMA TargetStep == TargetInv /\ (T!Next \/ UNCHANGED slots) => TargetInv'
<1> SUFFICES ASSUME TargetInv, T!Next \/ UNCHANGED slots PROVE TargetInv'
  OBVIOUS
<1> USE DEF TargetInv, T!TypeOK
<1>same. ASSUME UNCHANGED s1 PROVE T!Printed(T!running_sessions)' = T!Printed(T!running_sessions)
  BY <1>same DEF T!Printed, T!running_sessions, T!sessions, T!Position
<1>0. CASE UNCHANGED slots
  BY <1>0, <1>same DEF slots, T!PositionsAreTheListed, T!TypedIsMeant
<1>1. CASE T!List
  <2>1. s2' = T!Printed(T!running_sessions) /\ UNCHANGED <<s1, s3, s5>> /\ s4' = FALSE
    BY <1>1 DEF T!List
  <2>2. s2' \subseteq Nat \X JobIds
    <3>1. IsFiniteSet(T!running_sessions) /\ T!running_sessions \in SUBSET Nat /\ T!running_sessions \subseteq DOMAIN s1
      BY RowsOfAQueue
    <3>2. \A i \in T!running_sessions : T!Position(i, T!running_sessions) \in Nat
      <4>1. Cardinality(T!running_sessions) \in Nat
        BY <3>1, FS_CardinalityType
      <4> QED BY <4>1, <3>1, PositionsDiffer
    <3>3. \A i \in DOMAIN s1 : s1[i].id \in JobIds
      BY RowsOfAQueue DEF T!Rows
    <3> QED BY <2>1, <3>1, <3>2, <3>3 DEF T!Printed
  <2> QED BY <2>1, <2>2, <1>same DEF T!PositionsAreTheListed, T!TypedIsMeant
<1>2. CASE T!Type
  <2>1. /\ s3'.verb \in T!Verbs /\ s3'.at = "resolve"
        /\ s3' = [verb |-> s3'.verb, target |-> s3'.target, at |-> s3'.at, job |-> s3'.job]
        /\ UNCHANGED <<s1, s2, s4, s5>>
    BY <1>2 DEF T!Type
  <2> QED BY <2>1, <1>same DEF T!PositionsAreTheListed, T!TypedIsMeant
<1>3. CASE T!Resolve
  <2>1. CASE s3' = T!Idle /\ UNCHANGED s5
    BY <1>3, <2>1, CommandGoesOn DEF T!Resolve
  <2>2. ASSUME NEW id \in T!Resolved(s3.verb, s3.target), s3' = [s3 EXCEPT !.at = "check", !.job = id],
               s5' = [id |-> id, meant |-> T!Meant(s3.target)]
        PROVE  TargetInv'
    <3>1. T!Meant(s3.target).by \in {"position", "id", "name"} => {id} = T!Meant(s3.target).ids
      BY ResolvedIsMeant
    <3>2. s5'.id = id /\ s5'.meant = T!Meant(s3.target)
      BY <2>2
    <3>3. T!PositionsAreTheListed' /\ T!TypedIsMeant'
      BY <3>1, <3>2 DEF T!PositionsAreTheListed, T!TypedIsMeant
    <3>4. UNCHANGED <<s1, s2, s4>>
      BY <1>3 DEF T!Resolve
    <3>5. /\ s3'.verb \in T!Verbs \cup {None} /\ s3'.at \in {"idle", "resolve", "check", "act"}
          /\ s3' = [verb |-> s3'.verb, target |-> s3'.target, at |-> s3'.at, job |-> s3'.job]
      BY <2>2
    <3> QED BY <3>3, <3>4, <3>5, <1>same
  <2> QED BY <1>3, <2>1, <2>2 DEF T!Resolve
<1>4. CASE T!Check
  BY <1>4, CommandGoesOn DEF T!Check
<1>5. CASE T!Reattach
  BY <1>5, CommandGoesOn DEF T!Reattach
<1>6. CASE T!Act
  <2>1. CASE UNCHANGED <<s1, s4>>
    BY <1>6, <2>1, CommandGoesOn DEF T!Act
  <2>2. CASE s4' = TRUE /\ \E i \in T!Row(s3.job) : s1' = T!RemoveAt(s1, i)
    <3>1. s1' \in Seq(T!Rows)
      BY <2>2, QueueStaysTyped DEF T!Row
    <3> QED BY <1>6, <2>2, <3>1, QueueMoves DEF T!Act
  <2> QED BY <1>6, <2>1, <2>2 DEF T!Act
<1>7. CASE T!JobArrives
  <2>1. s1' \in Seq(T!Rows)
    BY <1>7, QueueStaysTyped DEF T!JobArrives
  <2> QED BY <1>7, <2>1, QueueMoves DEF T!JobArrives
<1>8. CASE T!JobChanges
  <2>1. ASSUME NEW i \in 1..Len(s1), s1' = [s1 EXCEPT ![i].state = "RUNNING"] PROVE s1' \in Seq(T!Rows)
    <3>1. s1[i] \in T!Rows
      BY RowsOfAQueue
    <3>2. [s1[i] EXCEPT !.state = "RUNNING"] \in T!Rows
      BY <3>1 DEF T!Rows
    <3> QED BY <2>1, <3>2, QueueStaysTyped
  <2>2. s1' \in Seq(T!Rows)
    BY <1>8, <2>1, QueueStaysTyped DEF T!JobChanges
  <2> QED BY <1>8, <2>2, QueueMoves DEF T!JobChanges
\* A session that is renamed stays a session, in its place.
<1>9. CASE T!rename
  <2>1. PICK i \in 1..Len(s1), name \in SessionNames :
          s1[i].state = "RUNNING" /\ s1[i].comment # None /\ s1' = [s1 EXCEPT ![i].comment = T!comment_for(name)]
    BY <1>9 DEF T!rename
  <2>2. s1[i] \in T!Rows /\ [s1[i] EXCEPT !.comment = T!comment_for(name)] \in T!Rows
    <3>1. s1[i] \in T!Rows
      BY RowsOfAQueue
    <3>2. T!comment_for(name) \in T!Comments
      BY DEF T!Comments
    <3> QED BY <3>1, <3>2 DEF T!Rows
  <2>3. s1' \in Seq(T!Rows)
    BY <2>1, <2>2, QueueStaysTyped
  <2>4. /\ DOMAIN s1' = DOMAIN s1
        /\ \A j \in DOMAIN s1 : /\ s1'[j].id = s1[j].id /\ s1'[j].state = s1[j].state
                                /\ s1'[j].comment = IF j = i THEN T!comment_for(name) ELSE s1[j].comment
    BY <2>1, <2>2 DEF T!Rows
  <2>5. T!running_sessions' = T!running_sessions
    <3>1. T!comment_for(name) # None
      BY TargetAssumption DEF T!comment_for
    <3> QED BY <2>1, <2>4, <3>1 DEF T!running_sessions, T!sessions
  <2>6. T!running_sessions \subseteq DOMAIN s1
    BY RowsOfAQueue
  <2>7. T!Printed(T!running_sessions)' = T!Printed(T!running_sessions)
    BY <2>4, <2>5, <2>6 DEF T!Printed, T!Position
  <2> QED BY <1>9, <2>3, <2>7 DEF T!rename, T!PositionsAreTheListed, T!TypedIsMeant
<1> QED BY <1>0, <1>1, <1>2, <1>3, <1>4, <1>5, <1>6, <1>7, <1>8, <1>9 DEF T!Next

----------------------------------------------------------------------------
(* send, to a pane that is named.                                          *)

\* Nothing is typed by send before it types; the pane resolved is what was
\* meant; until Enter is pressed the pane, if it is open, has the command,
\* alone unless the user met it.
Titled == [title : Titles, line : P!Lines]
PaneInv ==
  /\ P!TypeOK
  /\ s3 \in {"idle", "resolve", "type"} =>
       s8 = None /\ \A p \in P!Open : s1[p].line \in {<<>>, <<"user">>}
  /\ s3 \in {"type", "enter"} => s5 \in Terminals
  /\ s3 \in {"type", "enter", "done"} /\ s5 # None /\ s4 \in {"focused"} \cup Titles =>
       s5 \in s6 /\ (s4 # "focused" => s6 = {s5})
  /\ s3 = "enter" => \A p \in P!Open \ {s5} : s1[p].line \in {<<>>, <<"user">>}
  /\ s3 = "enter" /\ s5 \in P!Open /\ ~s7 => s1[s5].line = <<"sent">>
  /\ s3 = "enter" => s8 = None
  /\ s8 # None => s3 = "done" /\ s8[1] = s5 /\ s5 # None /\ (~s7 => s8[2] = <<"sent">>)
  /\ s3 \in {"idle", "resolve"} => s5 = None

\* A second keystroke makes a line of two.
LEMMA TwoKeys == ASSUME NEW a, NEW b PROVE Append(<<a>>, b) = <<a, b>>
<1> DEFINE Both == {a, b}  one == <<a>>  two == <<a, b>>
<1>1. one \in Seq(Both) /\ Len(one) = 1 /\ one[1] = a /\ b \in Both
  OBVIOUS
<1>2. two \in Seq(Both) /\ Len(two) = 2 /\ two[1] = a /\ two[2] = b
  OBVIOUS
<1> HIDE DEF one, two, Both
<1>3. /\ Append(one, b) \in Seq(Both) /\ Len(Append(one, b)) = 2
      /\ Append(one, b)[1] = a /\ Append(one, b)[2] = b
  <2>1. /\ Append(one, b) \in Seq(Both) /\ Len(Append(one, b)) = Len(one) + 1
        /\ \A i \in 1..Len(one) : Append(one, b)[i] = one[i]
        /\ Append(one, b)[Len(one) + 1] = b
    BY ONLY <1>1, AppendProperties
  <2> QED BY ONLY <2>1, <1>1
<1>4. \A i \in 1..Len(Append(one, b)) : Append(one, b)[i] = two[i]
  BY <1>2, <1>3
<1>5. Append(one, b) = two
  BY <1>2, <1>3, <1>4, SeqEqual
<1> QED BY <1>5 DEF two, one

LEMMA Keystrokes ==
  /\ Append(<<>>, "user") = <<"user">> /\ Append(<<>>, "sent") = <<"sent">>
  /\ Append(<<"sent">>, "user") = <<"sent", "user">> /\ Append(<<"user">>, "sent") = <<"user", "sent">>
  /\ \A l \in P!Lines : "user" \notin {l[i] : i \in 1..Len(l)} => l \in {<<>>, <<"sent">>}
<1>1. ASSUME NEW l \in P!Lines, \A i \in 1..Len(l) : l[i] # "user"
      PROVE  l \in {<<>>, <<"sent">>}
  <2>1. l # <<"user">>
    BY <1>1
  <2>2. l # <<"user", "sent">>
    BY <1>1
  <2>3. l # <<"sent", "user">>
    <3> SUFFICES ASSUME l = <<"sent", "user">> PROVE FALSE
      OBVIOUS
    <3>1. 2 \in 1..Len(l) /\ l[2] = "user"
      OBVIOUS
    <3> QED BY <3>1, <1>1
  <2> QED BY <2>1, <2>2, <2>3 DEF P!Lines
<1>2. \A l \in P!Lines : "user" \notin {l[i] : i \in 1..Len(l)} => l \in {<<>>, <<"sent">>}
  BY <1>1
<1>3. Append(<<>>, "user") = <<"user">> /\ Append(<<>>, "sent") = <<"sent">>
  OBVIOUS
<1>4. Append(<<"sent">>, "user") = <<"sent", "user">>
  BY TwoKeys
<1>5. Append(<<"user">>, "sent") = <<"user", "sent">>
  BY TwoKeys
<1> QED BY <1>2, <1>3, <1>4, <1>5

LEMMA ThePanes ==
  /\ P!shell \in Terminals /\ (CHOOSE t \in Titles : TRUE) \in Titles
  /\ None \notin Titled
  /\ \A t \in Titles \cup {"focused"} : t \notin Terminals /\ t # None
<1>1. P!Lines \subseteq Seq({"user", "sent"})
  <2> DEFINE Typing == Seq({"user", "sent"})
  <2>1. <<>> \in Typing
    OBVIOUS
  <2>2. \A l \in Typing : Append(l, "user") \in Typing /\ Append(l, "sent") \in Typing
    OBVIOUS
  <2> HIDE DEF Typing
  <2>3. <<"user">> \in Typing /\ <<"sent">> \in Typing
    BY <2>1, <2>2, Keystrokes, Zenon
  <2>4. <<"user", "sent">> \in Typing /\ <<"sent", "user">> \in Typing
    BY <2>2, <2>3, Keystrokes, Zenon
  <2> QED BY <2>1, <2>3, <2>4 DEF P!Lines, Typing
<1>2. P!shell \in Terminals
  BY TargetAssumption DEF P!shell
<1>3. (CHOOSE t \in Titles : TRUE) \in Titles
  BY TargetAssumption
<1>4. Titled \subseteq [title : Titles, line : Seq({"user", "sent"})]
  BY <1>1 DEF Titled
<1> QED BY <1>2, <1>3, <1>4, TargetAssumption

LEMMA PanesBegin == P!Init => PaneInv
<1> SUFFICES ASSUME P!Init PROVE PaneInv
  OBVIOUS
<1> DEFINE empty == [title |-> CHOOSE t \in Titles : TRUE, line |-> <<>>]
<1>1. empty \in Titled /\ empty.line = <<>>
  BY ThePanes DEF Titled, P!Lines
<1> HIDE DEF empty
<1>2. s1 = [p \in P!Ids |-> IF p \in {P!shell} \cup Plugins THEN empty ELSE None]
  BY DEF P!Init, empty
<1>3. P!shell \in P!Ids /\ s1[P!shell] = empty /\ empty # None
  BY <1>1, <1>2, ThePanes DEF P!Ids
<1>4. \A p \in P!Open : s1[p] = empty
  BY <1>2 DEF P!Open
<1>5. P!TypeOK
  BY <1>1, <1>2, <1>3 DEF P!Init, P!TypeOK, P!Open, Titled
<1> QED BY <1>1, <1>4, <1>5 DEF P!Init, PaneInv

\* What a title, `focused`, an id or nothing stands for.
LEMMA PaneIsTheMeant ==
  ASSUME PaneInv, P!Resolve, s3' = "type"
  PROVE  /\ s5' \in Terminals
         /\ s4 \in {"focused"} \cup Titles => s5' \in s6' /\ (s4 # "focused" => s6' = {s5'})
<1>1. s5' \in IF s4 = None THEN {P!shell} ELSE IF s4 \in Terminals THEN {s4} ELSE P!select_pane(s4)
  BY DEF P!Resolve
<1>2. s6' = {p \in P!Open \cap Terminals : (s4 = "focused" /\ p \in s2) \/ s1[p].title = s4}
  BY DEF P!Resolve
<1>3. CASE s4 = None \/ s4 \in Terminals
  BY <1>1, <1>3, ThePanes
<1>4. CASE s4 = "focused" /\ s4 # None /\ s4 \notin Terminals
  BY <1>1, <1>2, <1>4 DEF P!select_pane, P!list_panes
<1>5. CASE s4 # "focused" /\ s4 # None /\ s4 \notin Terminals
  <2> DEFINE named == {p \in P!list_panes : s1[p].title = s4}
  <2>1. s5' \in IF \E p \in named : named = {p} THEN named ELSE {}
    BY <1>1, <1>5 DEF P!select_pane
  <2>2. named = {s5'} /\ s5' \in P!list_panes
    BY <2>1
  <2>3. s6' = named
    BY <1>2, <1>5 DEF P!list_panes
  <2> QED BY <2>2, <2>3 DEF P!list_panes
<1> QED BY <1>3, <1>4, <1>5

\* The user's steps leave the call as it is, and write lines of their own.
LEMMA UserTypes ==
  ASSUME PaneInv, P!User
  PROVE  PaneInv'
<1> USE DEF PaneInv, P!TypeOK
<1>1. UNCHANGED <<s3, s4, s5, s6, s8>> /\ s3 # "done"
  BY DEF P!User, P!call
\* A pane is opened.
<1>2. ASSUME NEW p \in P!Ids, NEW t \in Titles, p \in Terminals \ P!Open, s3 = "idle",
             s1' = [s1 EXCEPT ![p] = [title |-> t, line |-> <<>>]],
             s2' \in {s2 \cup {p}, {p}}, UNCHANGED s7
      PROVE  PaneInv'
  <2> DEFINE new == [title |-> t, line |-> <<>>]
  <2>1. new \in Titled /\ new.line = <<>> /\ new # None
    BY ThePanes DEF Titled, P!Lines
  <2> HIDE DEF new
  <2>2. s1' = [s1 EXCEPT ![p] = new]
    BY <1>2 DEF new
  <2>3. P!Open' = P!Open \cup {p}
    BY <2>1, <2>2 DEF P!Open
  <2>4. s1' \in [P!Ids -> Titled \cup {None}]
    BY <2>1, <2>2 DEF Titled
  <2>5. \A q \in P!Open' : s1'[q].line \in {<<>>, <<"user">>}
    BY <1>2, <2>1, <2>2, <2>3 DEF P!Open
  <2> QED BY <1>1, <1>2, <2>3, <2>4, <2>5 DEF Titled
\* One is closed.
<1>3. ASSUME NEW p \in P!Open \cap Terminals, s1' = [s1 EXCEPT ![p] = None],
             s2' = s2 \ {p}, UNCHANGED s7
      PROVE  PaneInv'
  <2>1. P!Open' = P!Open \ {p} /\ \A q \in P!Open' : s1'[q] = s1[q]
    BY <1>3 DEF P!Open
  <2>2. s1' \in [P!Ids -> Titled \cup {None}]
    BY <1>3 DEF Titled
  <2> QED BY <1>1, <1>3, <2>1, <2>2 DEF Titled
\* One gets another title.
<1>4. ASSUME NEW p \in P!Open, NEW t \in Titles, s1' = [s1 EXCEPT ![p].title = t],
             UNCHANGED <<s2, s7>>
      PROVE  PaneInv'
  <2>1. s1[p] \in Titled /\ p \in P!Ids
    BY DEF P!Open, Titled
  <2>2. [s1[p] EXCEPT !.title = t] \in Titled /\ [s1[p] EXCEPT !.title = t].line = s1[p].line
    BY <2>1 DEF Titled
  <2>3. P!Open' = P!Open /\ \A q \in P!Open : s1'[q].line = s1[q].line
    BY <1>4, <2>1, <2>2, ThePanes DEF P!Open
  <2>4. s1' \in [P!Ids -> Titled \cup {None}]
    BY <1>4, <2>2 DEF Titled
  <2> QED BY <1>1, <1>4, <2>3, <2>4 DEF Titled
\* The focus moves.
<1>5. ASSUME NEW p \in P!Open, s2' \in {s2 \cup {p}, {p}}, UNCHANGED <<s1, s7>>
      PROVE  PaneInv'
  BY <1>1, <1>5 DEF P!Open
\* The user types.
<1>6. ASSUME NEW p \in P!Open \cap Terminals,
             "user" \notin {s1[p].line[i] : i \in 1..Len(s1[p].line)},
             s1' = [s1 EXCEPT ![p].line = Append(@, "user")],
             s7' = (s7 \/ (s3 = "enter" /\ p = s5)), UNCHANGED s2
      PROVE  PaneInv'
  <2>1. s1[p] \in Titled /\ p \in P!Ids
    BY DEF P!Open, Titled
  <2>2. s1[p].line \in {<<>>, <<"sent">>}
    <3>1. s1[p].line \in P!Lines
      BY <2>1 DEF Titled
    <3> QED BY <1>6, <3>1, Keystrokes
  <2>3. /\ [s1[p] EXCEPT !.line = Append(@, "user")] \in Titled
        /\ [s1[p] EXCEPT !.line = Append(@, "user")].line = Append(s1[p].line, "user")
    <3>1. Append(s1[p].line, "user") \in P!Lines
      BY <2>2, Keystrokes DEF P!Lines
    <3> QED BY <2>1, <3>1 DEF Titled
  <2>4. /\ P!Open' = P!Open /\ \A q \in P!Open \ {p} : s1'[q] = s1[q]
        /\ s1'[p].line = Append(s1[p].line, "user")
    BY <1>6, <2>1, <2>3, ThePanes DEF P!Open
  <2>5. s1' \in [P!Ids -> Titled \cup {None}]
    BY <1>6, <2>3 DEF Titled
  <2>6. s1[p].line = <<>> => s1'[p].line = <<"user">>
    BY <2>4, Keystrokes
  <2>7. s3 \in {"idle", "resolve", "type"} \/ p # s5 => s1[p].line = <<>>
    BY <1>1, <2>2
  <2>8. s7' \in BOOLEAN
    BY <1>6
  <2> QED BY <1>1, <1>6, <2>4, <2>5, <2>6, <2>7, <2>8 DEF Titled
<1> QED BY <1>2, <1>3, <1>4, <1>5, <1>6 DEF P!User

LEMMA PaneStep == PaneInv /\ (P!Next \/ UNCHANGED slots) => PaneInv'
<1> SUFFICES ASSUME PaneInv, P!Next \/ UNCHANGED slots PROVE PaneInv'
  OBVIOUS
<1> USE DEF PaneInv, P!TypeOK
<1>0. CASE UNCHANGED slots
  BY <1>0 DEF slots, P!Open
<1>1. CASE P!Send
  BY <1>1 DEF P!Send, P!session, P!Open
<1>2. CASE P!Resolve
  <2>1. UNCHANGED <<s1, s2, s4, s7, s8>> /\ s3 = "resolve" /\ s6' \subseteq Terminals
    BY <1>2 DEF P!Resolve, P!session
  <2>2. CASE s3' = "type"
    <3>1. /\ s5' \in Terminals
          /\ s4 \in {"focused"} \cup Titles => s5' \in s6' /\ (s4 # "focused" => s6' = {s5'})
      BY <1>2, <2>2, PaneIsTheMeant
    <3> QED BY <2>1, <2>2, <3>1 DEF P!Open
  <2>3. CASE s3' = "done" /\ UNCHANGED s5
    BY <2>1, <2>3 DEF P!Open
  <2> QED BY <1>2, <2>2, <2>3 DEF P!Resolve
<1>3. CASE P!WriteChars
  <2>1. UNCHANGED <<s2, s4, s5, s6, s8>> /\ s3 = "type"
    BY <1>3 DEF P!WriteChars
  <2>2. CASE s3' = "done" /\ UNCHANGED <<s1, s7>>
    BY <2>1, <2>2 DEF P!Open
  <2>3. CASE /\ s5 \in P!Open /\ s1' = [s1 EXCEPT ![s5].line = Append(@, "sent")]
             /\ s3' = "enter" /\ s7' = (s1[s5].line # <<>>)
    <3>1. s1[s5] \in Titled /\ s5 \in P!Ids /\ s1[s5].line \in {<<>>, <<"user">>}
      BY <2>1, <2>3 DEF P!Open, Titled
    <3>2. /\ [s1[s5] EXCEPT !.line = Append(@, "sent")] \in Titled
          /\ [s1[s5] EXCEPT !.line = Append(@, "sent")].line = Append(s1[s5].line, "sent")
      <4>1. Append(s1[s5].line, "sent") \in P!Lines
        BY <3>1, Keystrokes DEF P!Lines
      <4> QED BY <3>1, <4>1 DEF Titled
    <3>3. /\ P!Open' = P!Open /\ \A q \in P!Open \ {s5} : s1'[q] = s1[q]
          /\ s1'[s5].line = Append(s1[s5].line, "sent")
      BY <2>3, <3>1, <3>2, ThePanes DEF P!Open
    <3>4. s1' \in [P!Ids -> Titled \cup {None}]
      BY <2>3, <3>2 DEF Titled
    <3>5. ~s7' => s1'[s5].line = <<"sent">>
      BY <2>3, <3>3, Keystrokes
    <3>6. s7' \in BOOLEAN
      BY <2>3
    <3> QED BY <2>1, <2>3, <3>3, <3>4, <3>5, <3>6 DEF Titled
  <2> QED BY <1>3, <2>2, <2>3 DEF P!WriteChars
<1>4. CASE P!Enter
  <2>1. UNCHANGED <<s2, s4, s5, s6, s7>> /\ s3 = "enter" /\ s3' = "done" /\ s5 # None
    BY <1>4, TargetAssumption DEF P!Enter
  <2>2. CASE s5 \notin P!Open /\ UNCHANGED <<s1, s8>>
    BY <2>1, <2>2 DEF P!Open
  <2>3. CASE s5 \in P!Open /\ s8' = <<s5, s1[s5].line>> /\ s1' = [s1 EXCEPT ![s5].line = <<>>]
    <3>1. s1[s5] \in Titled /\ s5 \in P!Ids
      BY <2>3 DEF P!Open, Titled
    <3>2. [s1[s5] EXCEPT !.line = <<>>] \in Titled
      BY <3>1 DEF Titled, P!Lines
    <3>3. P!Open' = P!Open
      BY <2>3, <3>1, <3>2, ThePanes DEF P!Open
    <3>4. s1' \in [P!Ids -> Titled \cup {None}]
      BY <2>3, <3>2 DEF Titled
    <3>5. s8' \in P!Ids \X P!Lines /\ s8'[1] = s5 /\ s8'[2] = s1[s5].line
      BY <2>3, <3>1 DEF Titled
    <3> QED BY <2>1, <2>3, <3>3, <3>4, <3>5 DEF Titled
  <2> QED BY <1>4, <2>2, <2>3 DEF P!Enter
<1>5. CASE P!User
  BY <1>5, UserTypes
<1> QED BY <1>0, <1>1, <1>2, <1>3, <1>4, <1>5 DEF P!Next

----------------------------------------------------------------------------
(* The directory of a session's shell.                                     *)

\* As long as the shell lives, it is the bash that was started first, where it
\* is is among the places it was at, and it is on the list of pids or among the
\* candidates, in which no other is as old; then it is the one that is picked.
Process == [comm : {"bash", "other"}, starttime : 0..StartBound, at : Folders]
ShellInv ==
  /\ F!TypeOK /\ s1 \in [F!Pids -> Process \cup {None}] /\ s9 \in BOOLEAN
  /\ \A p \in F!Pids : s1[p] # None /\ s1[p].starttime = 0 => p = s2
  /\ \A c \in s6 : c = [pid |-> c.pid, comm |-> c.comm, starttime |-> c.starttime]
                   /\ (c.starttime = 0 => c.pid = s2)
  /\ s4 \in {"no", "pids", "cwd", "done", "failed"}
  /\ s9 => /\ F!Is(s2, "bash") /\ s1[s2].starttime = 0
           /\ s4 # "no" => s1[s2].at \in s10
           /\ s4 = "pids" => s2 \in s5 \/ [pid |-> s2, comm |-> "bash", starttime |-> 0] \in s6
           /\ s4 = "cwd" => s7 = s2
           /\ s4 = "done" => s8 \in s10 /\ s8 # None
  /\ s4 = "cwd" => s7 \in F!Pids

LEMMA ShellBegins == F!Init => ShellInv
<1> SUFFICES ASSUME F!Init PROVE ShellInv
  OBVIOUS
<1>1. PICK f \in Folders : s1 = [p \in F!Pids |-> IF p = s2 THEN F!Process("bash", 0, f) ELSE None]
  BY DEF F!Init
<1>2. F!Process("bash", 0, f) \in Process /\ 0 \in 0..StartBound
  BY TargetAssumption DEF F!Process, Process
<1>3. F!Process("bash", 0, f).comm = "bash" /\ F!Process("bash", 0, f).starttime = 0
  BY DEF F!Process
<1>4. None \notin Process
  BY TargetAssumption DEF Process
<1> QED BY <1>1, <1>2, <1>3, <1>4 DEF F!Init, F!TypeOK, F!Is, ShellInv

\* The list goes on, and nothing else.
LEMMA ShellStep == ShellInv /\ (F!Next \/ UNCHANGED slots) => ShellInv'
<1> SUFFICES ASSUME ShellInv, F!Next \/ UNCHANGED slots PROVE ShellInv'
  OBVIOUS
<1> USE DEF ShellInv, F!TypeOK
<1>n. StartBound \in Nat /\ None \notin Process /\ None \notin Folders
  BY TargetAssumption DEF Process
<1>p. /\ s2 \in F!Pids /\ \A p \in F!Pids : s1[p] # None => s1[p] \in Process
  OBVIOUS
<1>0. CASE UNCHANGED slots
  BY <1>0 DEF slots, F!Is
<1>1. ASSUME NEW f \in Folders, F!Cd(f) PROVE ShellInv'
  <2>1. s1[s2] \in Process /\ [s1[s2] EXCEPT !.at = f] \in Process
    BY <1>1, <1>n DEF F!Cd, F!Is, Process
  <2>2. s1' = [s1 EXCEPT ![s2] = [s1[s2] EXCEPT !.at = f]]
    BY <1>1 DEF F!Cd
  <2>3. /\ s1' \in [F!Pids -> Process \cup {None}] /\ s1'[s2] # None
        /\ s1'[s2].at = f /\ s1'[s2].comm = s1[s2].comm /\ s1'[s2].starttime = s1[s2].starttime
        /\ \A p \in F!Pids \ {s2} : s1'[p] = s1[p]
    BY <2>1, <2>2, <1>n DEF Process
  <2> QED BY <1>1, <2>3 DEF F!Cd, F!Is
<1>2. ASSUME NEW p \in F!Pids, NEW comm \in {"bash", "other"}, NEW f \in Folders, F!Fork(p, comm, f)
      PROVE  ShellInv'
  <2> DEFINE new == F!Process(comm, s3', f)
  <2>1. s3' \in 1..StartBound
    BY <1>2, <1>n DEF F!Fork
  <2>2. new \in Process /\ new.starttime # 0 /\ new # None
    BY <2>1, <1>n DEF Process, F!Process
  <2>3. s1' = [s1 EXCEPT ![p] = new] /\ s1[p] = None /\ UNCHANGED <<s2, s4, s5, s6, s7, s8, s9, s10>>
    BY <1>2 DEF F!Fork
  <2> HIDE DEF new
  <2>4. s9 => p # s2
    BY <2>3 DEF F!Is
  <2> QED BY <2>1, <2>2, <2>3, <2>4 DEF F!Is
<1>3. ASSUME NEW p \in F!Pids, F!Exit(p) PROVE ShellInv'
  BY <1>3 DEF F!Exit, F!Is
<1>4. ASSUME NEW p \in F!Pids, F!stat_candidates(p) PROVE ShellInv'
  <2> DEFINE new(q) == [pid |-> q, comm |-> s1[q].comm, starttime |-> s1[q].starttime]
  <2>1. /\ s5' = s5 \ {p} /\ s6' = s6 \cup {new(q) : q \in {q \in {p} : s1[q] # None}}
        /\ UNCHANGED <<s1, s2, s3, s4, s7, s8, s9, s10>> /\ s4 = "pids"
    BY <1>4 DEF F!stat_candidates
  <2>2. \A c \in s6' : c \in s6 \/ (c = new(p) /\ s1[p] # None)
    BY <2>1
  <2>3. \A c \in s6' : /\ c.pid \in F!Pids /\ c.starttime \in 0..StartBound
                       /\ c = [pid |-> c.pid, comm |-> c.comm, starttime |-> c.starttime]
                       /\ (c.starttime = 0 => c.pid = s2)
    BY <2>2, <1>p DEF Process
  <2>4. s9 /\ p = s2 => [pid |-> s2, comm |-> "bash", starttime |-> 0] \in s6'
    BY <2>1 DEF F!Is
  <2> QED BY <2>1, <2>3, <2>4 DEF F!Is
<1>5. CASE F!ListPids
  <2>1. /\ s4' = "pids" /\ s5' = {p \in F!Pids : s1[p] # None}
        /\ s10' = {s1[p].at : p \in {s2} \ {q \in F!Pids : s1[q] = None}}
        /\ UNCHANGED <<s1, s2, s3, s6, s7, s8, s9>>
    BY <1>5 DEF F!ListPids
  <2>2. s10' \subseteq Folders
    BY <2>1, <1>p DEF Process
  <2>3. s9 => s2 \in s5' /\ s1[s2].at \in s10'
    BY <2>1 DEF F!Is
  <2> QED BY <2>1, <2>2, <2>3 DEF F!Is
\* Of the shells found the pane's is the oldest, and the only one so old.
<1>6. CASE F!Pick
  <2>1. s4 = "pids" /\ s5 = {} /\ s6' = {} /\ UNCHANGED <<s1, s2, s3, s5, s8, s9, s10>>
    BY <1>6 DEF F!Pick
  <2> DEFINE picked == F!pick_pane_shell(s6)
             own_shell == [pid |-> s2, comm |-> "bash", starttime |-> 0]
  <2>2. s9 => own_shell \in picked /\ \A c \in picked : c.pid = s2
    <3> SUFFICES ASSUME s9 PROVE own_shell \in picked /\ \A c \in picked : c.pid = s2
      OBVIOUS
    <3>1. own_shell \in s6 /\ own_shell.comm = "bash" /\ own_shell.starttime = 0
      BY <2>1
    <3>2. \A c \in s6 : c.starttime \in 0..StartBound /\ 0 <= c.starttime
      BY <1>n
    <3>3. \A c \in picked : c \in s6 /\ c.starttime <= own_shell.starttime
      BY <3>1 DEF F!pick_pane_shell
    <3> QED BY <3>1, <3>2, <3>3, <1>n DEF F!pick_pane_shell
  <2>3. CASE picked = {} /\ s4' = "done" /\ UNCHANGED s7
    BY <2>1, <2>2, <2>3 DEF F!Is
  <2>4. ASSUME NEW c \in picked, s7' = c.pid, s4' = "cwd" PROVE ShellInv'
    <3>1. c \in s6
      BY DEF F!pick_pane_shell
    <3> QED BY <2>1, <2>2, <2>4, <3>1 DEF F!Is
  <2> QED BY <1>6, <2>3, <2>4 DEF F!Pick
<1>7. CASE F!ReadCwd
  <2>1. /\ s4 = "cwd" /\ s4' = "done" /\ s8' = IF s1[s7] = None THEN None ELSE s1[s7].at
        /\ UNCHANGED <<s1, s2, s3, s5, s6, s7, s9, s10>>
    BY <1>7 DEF F!ReadCwd
  <2>2. s8' \in Folders \cup {None}
    BY <2>1, <1>p DEF Process
  <2>3. s9 => s8' \in s10 /\ s8' # None
    BY <2>1, <1>n DEF F!Is
  <2> QED BY <2>1, <2>2, <2>3 DEF F!Is
<1>8. CASE F!SshFails
  BY <1>8 DEF F!SshFails, F!Is
<1> QED BY <1>0, <1>1, <1>2, <1>3, <1>4, <1>5, <1>6, <1>7, <1>8 DEF F!Next

----------------------------------------------------------------------------
(* The source of the monitor.                                              *)

\* The screen's part of the state is a record.
SourceInv ==
  /\ O!TypeOK /\ O!SourceIsTheMeant
  /\ s8 = [latest |-> s8.latest, waiting |-> s8.waiting, gpu_only |-> s8.gpu_only, scroll |-> s8.scroll]

LEMMA Greatest ==
  ASSUME NEW n \in Int, NEW m \in Int
  PROVE  O!Max({n, m}) = (IF n < m THEN m ELSE n) /\ O!Min({n, m}) = (IF n < m THEN n ELSE m)
<1> DEFINE top == IF n < m THEN m ELSE n
           low == IF n < m THEN n ELSE m
<1>1. \A x \in {n, m} : (\A y \in {n, m} : x >= y) <=> x = top
  OBVIOUS
<1>2. \A x \in {n, m} : (\A y \in {n, m} : x <= y) <=> x = low
  OBVIOUS
<1>3. top \in {n, m} /\ low \in {n, m}
  OBVIOUS
<1> HIDE DEF top, low
<1>4. (CHOOSE x \in {n, m} : \A y \in {n, m} : x >= y) = top
  BY <1>1, <1>3
<1>5. (CHOOSE x \in {n, m} : \A y \in {n, m} : x <= y) = low
  BY <1>2, <1>3
<1> QED BY <1>4, <1>5 DEF O!Max, O!Min, top, low

LEMMA AtLeastNone == ASSUME NEW n \in Int PROVE O!Max({n, 0}) \in Nat
<1>1. 0 \in Int
  OBVIOUS
<1>2. O!Max({n, 0}) = (IF n < 0 THEN 0 ELSE n)
  BY ONLY <1>1, n \in Int, Greatest
<1> QED BY <1>2

\* What is asked for is found where the rows, the snapshots and Slurm say.
LEMMA SourceOfAQuestion ==
  ASSUME NEW q \in O!Questions, NEW found \in O!SourceOf(q), NEW where \in O!Located(q, found)
  PROVE  /\ q.word \in {8, 9} /\ ~q.live => where = O!Cache(q.word)
         /\ q.word = 1 /\ q.up /\ ~q.live /\ q.rows # <<>> => where = O!Cache(q.rows[1].id)
         /\ q.word = O!dev /\ O!IdsNamed(q, O!dev) = {8} =>
              where = IF q.live THEN O!Host(O!n8) ELSE O!Cache(8)
<1> DEFINE row8 == [id |-> 8, name |-> O!dev, node |-> O!n8]
           row9(name) == [id |-> 9, name |-> name, node |-> O!n9]
<1>1. /\ q.rows = <<>> \/ q.rows = <<row8>> \/ \E name \in {None, O!dev} : q.rows = <<row9(name), row8>>
      /\ q.files \subseteq {8, 9} /\ q.word \in O!Typed /\ q.up \in BOOLEAN /\ q.live \in BOOLEAN
  BY DEF O!Questions, O!Listings
<1> DEFINE Known(listed) ==
             /\ DOMAIN listed \subseteq {1, 2}
             /\ \A r \in O!Range(listed) : r.id \in {8, 9} /\ (r.id = 8 => r.node = O!n8)
             /\ listed # <<>> => 1 \in DOMAIN listed
<1>2. Known(q.rows)
  <2>1. Known(<<>>) /\ Known(<<row8>>)
    BY DEF O!Range
  <2>2. \A name : Known(<<row9(name), row8>>)
    BY DEF O!Range
  <2> HIDE DEF Known
  <2> QED BY <1>1, <2>1, <2>2
<1>3. None \notin {1, 8, 9, O!dev}
  BY StoryAssumption DEF O!dev
<1>4. CASE q.word \in {8, 9} /\ ~q.live
  <2>1. O!AtPosition(q, q.word) = q.word
    BY <1>2, <1>4 DEF O!AtPosition
  <2>2. found = O!Cache(q.word)
    BY <2>1, <1>3, <1>4 DEF O!SourceOf
  <2> QED BY <2>2, <1>4 DEF O!Located, O!dev
<1>5. CASE q.word = 1 /\ q.up /\ ~q.live /\ q.rows # <<>>
  <2>1. O!AtPosition(q, 1) = q.rows[1].id
    BY <1>2, <1>5 DEF O!AtPosition
  <2>2. found = O!Cache(q.rows[1].id)
    BY <2>1, <1>1, <1>3, <1>5 DEF O!SourceOf
  <2> QED BY <2>2, <1>5 DEF O!Located, O!dev
<1>6. CASE q.word = O!dev /\ O!IdsNamed(q, O!dev) = {8}
  <2>1. O!Max({8}) = 8 /\ O!Min({8}) = 8
    BY Greatest
  <2>2. q.up /\ found = O!Cache(8)
    BY <2>1, <1>3, <1>6 DEF O!SourceOf, O!dev
  <2>3. \A n \in O!NodeOf(q, 8) : n = O!n8
    BY <1>2 DEF O!NodeOf
  <2> QED BY <2>2, <2>3, <1>3, <1>6 DEF O!Located, O!Cache, O!dev
<1> QED BY <1>4, <1>5, <1>6 DEF O!dev

LEMMA SourceBegins == O!Init => SourceInv
BY StoryAssumption, TargetAssumption
   DEF O!Init, SourceInv, O!TypeOK, O!SourceIsTheMeant, O!Msgs

LEMMA SourceStep == SourceInv /\ (O!Next \/ UNCHANGED slots) => SourceInv'
<1> SUFFICES ASSUME SourceInv, O!Next \/ UNCHANGED slots PROVE SourceInv'
  OBVIOUS
<1> USE DEF SourceInv, O!TypeOK
<1>n. {MaxTime, Refresh, PageRows, MaxScroll} \subseteq Nat /\ None \notin Nat
  BY StoryAssumption, TargetAssumption
<1>0. CASE UNCHANGED slots
  BY <1>0 DEF slots, O!SourceIsTheMeant
<1>1. CASE O!Resolve
  <2>1. UNCHANGED <<s1, s2, s3, s6, s7, s8, s9>>
    BY <1>1 DEF O!Resolve
  <2>2. CASE s13' = "refused"
    BY <2>1, <2>2 DEF O!SourceIsTheMeant
  <2>3. ASSUME NEW q \in O!Questions, NEW s \in UNION {O!Located(q, found) : found \in O!SourceOf(q)},
               s5' = s, s4' = q, UNCHANGED s13
        PROVE  SourceInv'
    <3>1. PICK found \in O!SourceOf(q) : s \in O!Located(q, found)
      OBVIOUS
    <3>2. O!SourceIsTheMeant'
      BY <2>3, <3>1, SourceOfAQuestion DEF O!SourceIsTheMeant, O!IdsNamed, O!Cache, O!Host
    <3> QED BY <2>1, <2>3, <3>2
  <2> QED BY <1>1, <2>2, <2>3 DEF O!Resolve
<1>2. CASE O!Open
  BY <1>2, <1>n DEF O!Open, O!SourceIsTheMeant
<1>3. CASE O!Write
  BY <1>3 DEF O!Write, O!ask, O!ui, O!SourceIsTheMeant, O!Snapshots
<1>4. CASE O!JobEnds
  BY <1>4 DEF O!JobEnds, O!ask, O!ui, O!SourceIsTheMeant
<1>5. CASE O!Feed
  <2>1. UNCHANGED <<s1, s2, s3, s4, s5, s8, s9, s13>> /\ s13 # "start"
    BY <1>5 DEF O!Feed, O!ask, O!ui
  <2>2. s6' \in 0..(MaxTime + Refresh) \cup {None}
    BY <1>5, <1>n DEF O!Feed
  <2>3. O!poll_cache \subseteq O!Msgs /\ O!poll_live \subseteq O!Msgs
    <3>1. \A snap \in O!Snapshots : [snap |-> snap, why |-> None] \in O!Msgs
      BY DEF O!Msgs
    <3>2. \A why \in {"stale", "no snapshot yet", "failed"} : [snap |-> None, why |-> why] \in O!Msgs
      BY DEF O!Msgs
    <3>3. \A t \in MCTables : [ts |-> s1, procs |-> t] \in O!Snapshots
      BY DEF O!Snapshots
    <3>4. s2 \in O!Snapshots \cup {None}
      OBVIOUS
    <3>5. O!poll_cache \subseteq O!Msgs
      <4> HIDE DEF O!TypeOK, SourceInv
      <4> QED BY <3>1, <3>2, <3>4 DEF O!poll_cache
    <3>6. O!poll_live \subseteq O!Msgs
      <4> HIDE DEF O!TypeOK, SourceInv
      <4> QED BY <3>1, <3>2, <3>3 DEF O!poll_live
    <3> QED BY <3>5, <3>6
  <2>4. s7' \in Seq(O!Msgs)
    BY <1>5, <2>3, AppendProperties DEF O!Feed
  <2> QED BY <2>1, <2>2, <2>4 DEF O!SourceIsTheMeant
<1>6. CASE O!FeederDies
  BY <1>6 DEF O!FeederDies, O!ask, O!ui, O!SourceIsTheMeant
<1>7. CASE O!Receive
  <2>1. UNCHANGED <<s1, s2, s3, s4, s5, s6, s9, s13>> /\ s13 = "drain" /\ s7 # <<>>
    BY <1>7 DEF O!Receive, O!ask
  <2>2. s7' \in Seq(O!Msgs) /\ Head(s7) \in O!Msgs
    BY <1>7, <2>1, HeadTailProperties DEF O!Receive
  <2>3. Head(s7).snap \in O!Snapshots \cup {None}
    BY <2>2 DEF O!Msgs
  <2>4. /\ s8'.latest \in O!Snapshots \cup {None} /\ s8'.scroll \in 0..MaxScroll
        /\ s8' = [latest |-> s8'.latest, waiting |-> s8'.waiting, gpu_only |-> s8'.gpu_only, scroll |-> s8'.scroll]
    BY <1>7, <2>3 DEF O!Receive
  <2> QED BY <2>1, <2>2, <2>4 DEF O!SourceIsTheMeant
<1>8. CASE O!Draw
  <2>1. UNCHANGED <<s1, s2, s3, s4, s5, s6, s7, s9>> /\ s13' = "poll" /\ s8' = O!Known
    BY <1>8 DEF O!Draw, O!ask
  <2>2. /\ s8'.latest = s8.latest /\ s8'.scroll = s8.scroll
        /\ s8' = [latest |-> s8'.latest, waiting |-> s8'.waiting, gpu_only |-> s8'.gpu_only, scroll |-> s8'.scroll]
    BY <2>1 DEF O!Known
  <2> QED BY <2>1, <2>2 DEF O!SourceIsTheMeant
<1>9. ASSUME NEW key \in O!Keys, O!Key(key) PROVE SourceInv'
  <2>1. /\ UNCHANGED <<s1, s2, s3, s4, s5, s6, s7, s9>> /\ s13' = "drain"
        /\ O!Scrolled(key) <= MaxScroll
        /\ s8' = [s8 EXCEPT !.scroll = O!Scrolled(key), !.gpu_only = IF key = "g" THEN ~@ ELSE @]
    BY <1>9 DEF O!Key, O!ask
  <2>n. s8.scroll \in Nat /\ PageRows \in Nat
    BY <1>n
  <2>2. \A n \in Int : O!Max({n, 0}) \in Nat
    BY AtLeastNone
  <2>3. O!Scrolled(key) \in Nat
    <3>1. O!Max({s8.scroll - 1, 0}) \in Nat /\ O!Max({s8.scroll - PageRows, 0}) \in Nat
      BY ONLY <2>n, <2>2
    <3>2. s8.scroll + 1 \in Nat /\ s8.scroll + PageRows \in Nat
      BY ONLY <2>n
    <3> QED BY ONLY <3>1, <3>2, key \in O!Keys DEF O!Scrolled, O!Keys
  <2>4. O!Scrolled(key) \in 0..MaxScroll
    BY <2>1, <2>3, <1>n
  <2>5. /\ s8'.latest = s8.latest /\ s8'.scroll = O!Scrolled(key)
        /\ s8' = [latest |-> s8'.latest, waiting |-> s8'.waiting, gpu_only |-> s8'.gpu_only, scroll |-> s8'.scroll]
    BY <2>1
  <2> QED BY <2>1, <2>4, <2>5 DEF O!SourceIsTheMeant
<1>10. CASE O!Resize \/ O!Timeout \/ O!Quit
  BY <1>10 DEF O!Resize, O!Timeout, O!Quit, O!SourceIsTheMeant
<1>11. CASE O!Tick
  BY <1>11, <1>n DEF O!Tick, O!ask, O!SourceIsTheMeant
<1> QED BY <1>0, <1>1, <1>2, <1>3, <1>4, <1>5, <1>6, <1>7, <1>8, <1>9, <1>10, <1>11 DEF O!Next

----------------------------------------------------------------------------
(* What a user points at is what is meant.                                 *)

LEMMA TargetSteps ==
  ASSUME [StoryNext]_storyVars
  PROVE  /\ story' = story
         /\ story = "targets" => T!Next \/ UNCHANGED slots
         /\ story = "panes" => P!Next \/ UNCHANGED slots
         /\ story = "cwd" => F!Next \/ UNCHANGED slots
         /\ story = "monitor" => O!Next \/ UNCHANGED slots
BY DEF StoryNext, storyVars, Tells

MeantInv ==
  /\ story = "targets" => TargetInv
  /\ story = "panes" => PaneInv
  /\ story = "cwd" => ShellInv
  /\ story = "monitor" => SourceInv

\* For every number of sessions, panes, processes and snapshots: a command goes
\* to the session that was listed at the position it gives, or has the id or the
\* name; what send types goes into the pane meant, and Enter runs that; the
\* directory shown was one of the session's shell; and the monitor shows what it
\* was asked to.
THEOREM TargetsAreTheMeant == StorySpec => []TargetsAreMeant
<1>1. StoryInit => MeantInv
  <2> SUFFICES ASSUME StoryInit PROVE MeantInv
    OBVIOUS
  <2>1. /\ story = "targets" => T!Init
        /\ story = "panes" => P!Init
        /\ story = "cwd" => F!Init
        /\ story = "monitor" => O!Init
    BY DEF StoryInit
  <2> QED BY <2>1, TargetsBegin, PanesBegin, ShellBegins, SourceBegins DEF MeantInv
<1>2. MeantInv /\ [StoryNext]_storyVars => MeantInv'
  <2> SUFFICES ASSUME MeantInv, [StoryNext]_storyVars PROVE MeantInv'
    OBVIOUS
  <2> QED BY TargetSteps, TargetStep, PaneStep, ShellStep, SourceStep DEF MeantInv
<1>3. MeantInv => TargetsAreMeant
  <2> SUFFICES ASSUME MeantInv PROVE TargetsAreMeant
    OBVIOUS
  <2>1. TargetInv => T!TypeOK /\ T!PositionsAreTheListed /\ T!TypedIsMeant
    BY DEF TargetInv
  <2>2. PaneInv => P!TypeOK /\ P!TypedWhereMeant /\ P!RunsWhatWasSent
    BY DEF PaneInv, P!TypedWhereMeant, P!RunsWhatWasSent
  <2>3. ShellInv => F!TypeOK /\ F!CwdIsTheShells /\ F!PaneIsFound
    BY DEF ShellInv, F!CwdIsTheShells, F!PaneIsFound, F!Is
  <2>4. SourceInv => O!TypeOK /\ O!SourceIsTheMeant
    BY DEF SourceInv
  <2> QED BY <2>1, <2>2, <2>3, <2>4 DEF MeantInv, TargetsAreMeant
<1> QED BY <1>1, <1>2, <1>3, PTL DEF StorySpec

----------------------------------------------------------------------------
(* The figures of a host.                                                  *)

\* gpu_idle counts from where the run began, and is sent at the one event of
\* it; the driver has not been up for longer than the load has to wait since it
\* failed; the host's baseline is of the last sample.
SampleInv ==
  /\ M!TypeOK /\ M!GpusComeBack /\ M!HostWindowIsKnown
  /\ s3 = None => s4 = 0
  /\ s3 # None => s4 <= s3
  /\ s9 = s17 /\ (s10 => s17 # None /\ s17 >= GpuIdleAfter)
  /\ s18 = IF s10 THEN 1 ELSE 0
  /\ s16 \in Nat /\ (~s1 => s16 = 0)
  /\ ~s6 /\ s7 < RetryAfter => s16 <= s7
  /\ s12 # None => s12 = s5

LEMMA Rates ==
  /\ SampleEvery \in Nat \ {0} /\ {GpuIdleAfter, RetryAfter, MaxTicks} \subseteq Nat
  /\ None \notin Nat /\ M!Long = GpuIdleAfter + SampleEvery
BY FigureAssumption, StoryAssumption DEF M!Long

LEMMA SampleBegins == M!Init => SampleInv
<1> SUFFICES ASSUME M!Init PROVE SampleInv
  OBVIOUS
<1>1. /\ s1 \in BOOLEAN /\ s2 = "free" /\ s3 = None /\ s4 = 0 /\ s5 = SampleEvery /\ s6 = FALSE
      /\ s7 = RetryAfter /\ s8 = FALSE /\ s9 = None /\ s10 = FALSE /\ s11 = None /\ s12 = None
      /\ s13 = None /\ s14 = None /\ s15 = 0 /\ s16 = 0 /\ s17 = None /\ s18 = 0
  BY DEF M!Init
<1>2. M!TypeOK
  <2>1. 0 \in 0..MaxTicks /\ SampleEvery \in 0..SampleEvery /\ RetryAfter \in 0..RetryAfter
    BY Rates
  <2> QED BY <1>1, <2>1 DEF M!TypeOK
<1>3. M!GpusComeBack
  BY <1>1, Rates DEF M!GpusComeBack
<1>4. M!HostWindowIsKnown
  BY <1>1 DEF M!HostWindowIsKnown
<1> QED BY <1>1, <1>2, <1>3, <1>4, Rates DEF SampleInv

LEMMA SampleTaken == SampleInv /\ M!Sample => SampleInv'
<1> SUFFICES ASSUME SampleInv, M!Sample PROVE SampleInv'
  OBVIOUS
<1> USE Rates
<1>1. /\ s5 = SampleEvery /\ s5' = 0 /\ s8' = s6' /\ s4' = 0 /\ UNCHANGED <<s1, s2, s3, s16>>
      /\ s17' = IF ~M!Idle THEN None ELSE IF s17 = None THEN 0 ELSE s17
  BY DEF M!Sample
<1>2. /\ s6' \in BOOLEAN /\ s7' \in 0..RetryAfter
      /\ s6 \/ s7 = RetryAfter => s6' = s1
      /\ ~s6' /\ s7' < RetryAfter => s16 <= s7'
  <2>1. CASE s6 \/ s7 = RetryAfter
    BY <2>1 DEF M!Sample, M!EnsureInit, SampleInv, M!TypeOK
  <2>2. CASE ~(s6 \/ s7 = RetryAfter)
    BY <2>2 DEF M!Sample, M!EnsureInit, SampleInv, M!TypeOK
  <2> QED BY <2>1, <2>2
<1>3. s16 >= RetryAfter + SampleEvery => s6'
  <2>1. ASSUME s16 >= RetryAfter + SampleEvery PROVE s1 = TRUE /\ (s6 \/ s7 = RetryAfter)
    BY <2>1 DEF SampleInv, M!TypeOK
  <2>2. s6 \/ s7 = RetryAfter => s6' = s1
    BY <1>2
  <2> QED BY <2>1, <2>2
<1>4. /\ {s11', s12'} \subseteq 0..M!Long \cup {None} /\ (s12' # None => s12' = 0)
      /\ s14'.of = "host" => s14'.secs = s12
  BY DEF M!Sample, M!CpuPct, SampleInv, M!TypeOK
<1>5. s13' \in 0..MaxTicks \cup {None} /\ s15' \in 0..MaxTicks
  BY DEF M!Sample, M!Procs, M!proc_cpu_pct, M!NonNeg, SampleInv, M!TypeOK
<1>6. /\ s9' = IF ~M!Idle THEN None ELSE IF s9 = None THEN 0 ELSE s9
      /\ s10' = (M!Idle /\ (s10 \/ s9' >= GpuIdleAfter))
      /\ s18' = IF ~M!Idle THEN 0 ELSE IF s10' /\ ~s10 THEN M!Lesser(s18 + 1, 2) ELSE s18
  BY DEF M!Sample, M!CheckGpuIdle
<1>7. M!Idle \in BOOLEAN
  BY DEF M!Idle
<1>8. s9' = s17' /\ s17' \in 0..M!Long \cup {None}
  BY <1>1, <1>6 DEF SampleInv, M!TypeOK
<1>9. s10' \in BOOLEAN /\ (s10' => s17' # None /\ s17' >= GpuIdleAfter) /\ s18' = IF s10' THEN 1 ELSE 0
  <2>1. CASE ~M!Idle
    BY <2>1, <1>6
  <2>2. CASE M!Idle
    BY <2>2, <1>1, <1>6, <1>8 DEF SampleInv, M!TypeOK, M!Lesser
  <2> QED BY <2>1, <2>2
<1>10. M!TypeOK'
  BY <1>1, <1>2, <1>4, <1>5, <1>8, <1>9 DEF SampleInv, M!TypeOK
<1>11. M!GpusComeBack'
  BY <1>1, <1>3 DEF M!GpusComeBack
<1>12. M!HostWindowIsKnown'
  BY <1>1, <1>4 DEF SampleInv, M!HostWindowIsKnown
<1>13. (s3' = None => s4' = 0) /\ (s3' # None => s4' <= s3')
  BY <1>1 DEF SampleInv, M!TypeOK
<1>14. s16' \in Nat /\ (~s1' => s16' = 0) /\ (~s6' /\ s7' < RetryAfter => s16' <= s7')
  BY <1>1, <1>2 DEF SampleInv
<1>15. s12' # None => s12' = s5'
  BY <1>1, <1>4
<1> QED BY <1>8, <1>9, <1>10, <1>11, <1>12, <1>13, <1>14, <1>15 DEF SampleInv

LEMMA SecondPasses == SampleInv /\ M!Second => SampleInv'
<1> SUFFICES ASSUME SampleInv, M!Second PROVE SampleInv'
  OBVIOUS
<1> USE Rates
<1>1. /\ s5 < SampleEvery /\ s5' = s5 + 1 /\ s7' = M!Lesser(s7 + 1, RetryAfter)
      /\ s9' = M!Older(s9, M!Long) /\ s17' = M!Older(s17, M!Long)
      /\ s11' = M!Older(s11, M!Long) /\ s12' = M!Older(s12, M!Long)
      /\ s16' = IF s1 THEN M!Lesser(s16 + 1, RetryAfter + SampleEvery) ELSE 0
      /\ UNCHANGED <<s1, s2, s3, s4, s6, s8, s10, s13, s14, s15, s18>>
  BY DEF M!Second
<1>2. \A age \in 0..M!Long \cup {None} :
        /\ M!Older(age, M!Long) \in 0..M!Long \cup {None}
        /\ age # None => M!Older(age, M!Long) # None
        /\ age # None /\ age >= GpuIdleAfter => M!Older(age, M!Long) >= GpuIdleAfter
        /\ age # None /\ age < SampleEvery => M!Older(age, M!Long) = age + 1
        /\ age = None => M!Older(age, M!Long) = None
  BY DEF M!Older, M!Lesser
<1>3. M!TypeOK'
  <2>1. {s9', s17', s11', s12'} \subseteq 0..M!Long \cup {None}
    <3>1. {s9, s17, s11, s12} \subseteq 0..M!Long \cup {None}
      BY DEF SampleInv, M!TypeOK
    <3>2. \A age \in {s9, s17, s11, s12} : M!Older(age, M!Long) \in 0..M!Long \cup {None}
      BY <1>2, <3>1
    <3> QED BY <1>1, <3>2
  <2>2. s5' \in 0..SampleEvery /\ s7' \in 0..RetryAfter
    BY <1>1 DEF SampleInv, M!TypeOK, M!Lesser
  <2> QED BY <1>1, <2>1, <2>2 DEF SampleInv, M!TypeOK
<1>4. /\ s9' = s17' /\ (s10' => s17' # None /\ s17' >= GpuIdleAfter) /\ (s12' # None => s12' = s5')
  BY <1>1, <1>2 DEF SampleInv, M!TypeOK
<1>5. s16' \in Nat /\ (~s1' => s16' = 0) /\ (~s6' /\ s7' < RetryAfter => s16' <= s7')
  BY <1>1 DEF SampleInv, M!TypeOK, M!Lesser
<1>6. M!GpusComeBack' /\ M!HostWindowIsKnown'
  BY <1>1 DEF SampleInv, M!TypeOK, M!GpusComeBack, M!HostWindowIsKnown
<1> QED BY <1>1, <1>3, <1>4, <1>5, <1>6 DEF SampleInv

LEMMA NodeMoves == SampleInv /\ M!NodeChanges => SampleInv'
<1> SUFFICES ASSUME SampleInv, M!NodeChanges PROVE SampleInv'
  OBVIOUS
<1> USE Rates
<1>1. UNCHANGED <<s5, s6, s7, s8, s9, s10, s11, s12, s13, s14, s15, s17, s18>>
  BY DEF M!NodeChanges
<1>2. \/ s1' = ~s1 /\ s16' = 0 /\ UNCHANGED <<s2, s3, s4>>
      \/ s2' \in {"busy", "idle", "free"} /\ UNCHANGED <<s1, s16, s3, s4>>
      \/ s3 # None /\ s3 < MaxTicks /\ s3' = s3 + 1 /\ s4' = s4 + 1 /\ UNCHANGED <<s1, s16, s2>>
      \/ s3' \in {0, None} /\ s4' = 0 /\ UNCHANGED <<s1, s16, s2>>
  BY DEF M!NodeChanges
<1>3. /\ s1' \in BOOLEAN /\ s2' \in {"busy", "idle", "free"} /\ s16' \in Nat /\ s16' <= s16
      /\ (~s1' => s16' = 0) /\ (s16' = s16 \/ s16' = 0)
  <2>1. s1 \in BOOLEAN /\ s2 \in {"busy", "idle", "free"} /\ s16 \in Nat /\ (~s1 => s16 = 0)
    BY DEF SampleInv, M!TypeOK
  <2>2. CASE s1' = ~s1 /\ s16' = 0 /\ UNCHANGED <<s2, s3, s4>>
    <3>1. s1' \in BOOLEAN
      BY <2>2
    <3> QED BY <2>1, <2>2, <3>1
  <2>3. CASE UNCHANGED <<s1, s16>> /\ s2' \in {"busy", "idle", "free"}
    BY <2>1, <2>3
  <2> QED BY <1>2, <2>1, <2>2, <2>3
<1>4. /\ s3' \in 0..MaxTicks \cup {None} /\ s4' \in 0..MaxTicks
      /\ (s3' = None => s4' = 0) /\ (s3' # None => s4' <= s3')
  <2>1. CASE UNCHANGED <<s3, s4>>
    BY <2>1 DEF SampleInv, M!TypeOK
  <2>2. CASE s3 # None /\ s3 < MaxTicks /\ s3' = s3 + 1 /\ s4' = s4 + 1
    BY <2>2 DEF SampleInv, M!TypeOK
  <2>3. CASE s3' \in {0, None} /\ s4' = 0
    BY <2>3
  <2> QED BY <1>2, <2>1, <2>2, <2>3
<1>5. M!TypeOK'
  BY <1>1, <1>3, <1>4 DEF SampleInv, M!TypeOK
<1>6. M!GpusComeBack' /\ M!HostWindowIsKnown'
  BY <1>1, <1>3 DEF SampleInv, M!TypeOK, M!GpusComeBack, M!HostWindowIsKnown
<1>7. ~s6' /\ s7' < RetryAfter => s16' <= s7'
  BY <1>1, <1>3 DEF SampleInv, M!TypeOK
<1> QED BY <1>1, <1>3, <1>4, <1>5, <1>6, <1>7 DEF SampleInv

LEMMA SampleStep == SampleInv /\ (M!Next \/ UNCHANGED slots) => SampleInv'
<1>1. SampleInv /\ UNCHANGED slots => SampleInv'
  BY DEF slots, SampleInv, M!TypeOK, M!GpusComeBack, M!HostWindowIsKnown
<1> QED BY <1>1, SampleTaken, SecondPasses, NodeMoves DEF M!Next

----------------------------------------------------------------------------
(* The cgroup of a job.                                                    *)

\* Whoever stayed through a collection has been collected, or is in a step that
\* is still to be read; whoever lives during it has been seen.
CgroupInv ==
  /\ N!TypeOK /\ N!FoundWhereItIs /\ N!UsedIsNoMore
  /\ s5 \in [JobPids -> Steps \cup {None}] /\ s7 \in (SUBSET Steps) \cup {None}
  /\ \A p \in s9 : p \in JobPids /\ s5[p] # None
  /\ s7 # None => N!Living \subseteq s10 /\ \A p \in s9 : p \in s8 \/ s5[p] \in s7
  /\ s12 = [usage |-> s12.usage, gave |-> s12.gave] /\ s12.usage \in 0..3 \cup {None}
  /\ s12.usage = None => s12.gave = None

LEMMA NotAStep == None \notin Steps /\ None # {} /\ None \notin Nat /\ \A set \in SUBSET Steps : None # set
BY FigureAssumption, StoryAssumption

LEMMA MoreOrNone == ASSUME NEW n \in Int PROVE N!Max({n, 0}) = IF n < 0 THEN 0 ELSE n
<1> DEFINE top == IF n < 0 THEN 0 ELSE n
<1>1. \A x \in {n, 0} : (\A y \in {n, 0} : x >= y) <=> x = top
  OBVIOUS
<1>2. top \in {n, 0}
  OBVIOUS
<1> HIDE DEF top
<1>3. (CHOOSE x \in {n, 0} : \A y \in {n, 0} : x >= y) = top
  BY <1>1, <1>2
<1> QED BY <1>3 DEF N!Max, top

LEMMA CgroupBegins == N!Init => CgroupInv
<1> SUFFICES ASSUME N!Init PROVE CgroupInv
  OBVIOUS
<1> USE NotAStep
<1>1. s3 \in [N!Controllers -> SUBSET N!Places]
  BY DEF N!Init, N!Places
<1>2. s5 \in [JobPids -> Steps \cup {None}]
  BY DEF N!Init
<1>3. s6 \subseteq Steps /\ \A p \in JobPids : s5[p] # None => s5[p] \in s6
  BY <1>2 DEF N!Init
<1>4. N!TypeOK
  BY <1>1, <1>2, <1>3 DEF N!Init, N!TypeOK
<1> QED BY <1>2, <1>4 DEF N!Init, CgroupInv, N!FoundWhereItIs, N!UsedIsNoMore

LEMMA FoundStays == CgroupInv /\ UNCHANGED <<s3, s4>> => N!FoundWhereItIs'
BY DEF CgroupInv, N!FoundWhereItIs

LEMMA CgroupStep == CgroupInv /\ (N!Next \/ UNCHANGED slots) => CgroupInv'
<1> SUFFICES ASSUME CgroupInv, N!Next \/ UNCHANGED slots PROVE CgroupInv'
  OBVIOUS
<1> USE NotAStep
<1> USE DEF N!place, N!job, N!call, N!history
<1>0. CASE UNCHANGED slots
  BY <1>0 DEF slots, CgroupInv, N!TypeOK, N!FoundWhereItIs, N!UsedIsNoMore, N!Living
<1>1. ASSUME NEW s \in Steps, N!StepStarts(s) \/ N!StepEnds(s) PROVE CgroupInv'
  <2>1. /\ UNCHANGED <<s1, s2, s3, s4, s5, s7, s8, s9, s10, s11, s12>>
        /\ s6' \subseteq Steps /\ \A p \in JobPids : s5[p] # None => s5[p] \in s6'
    BY <1>1 DEF N!StepStarts, N!StepEnds, CgroupInv, N!TypeOK
  <2> QED BY <2>1, FoundStays DEF CgroupInv, N!TypeOK, N!UsedIsNoMore, N!Living
<1>2. ASSUME NEW s \in Steps, N!ReadStep(s) PROVE CgroupInv'
  <2>1. /\ UNCHANGED <<s1, s2, s3, s4, s5, s6, s9, s10, s11, s12>>
        /\ s7 # None /\ s \in s7 /\ s7' = s7 \ {s} /\ s8' = s8 \cup {p \in JobPids : s5[p] = s}
    BY <1>2 DEF N!ReadStep
  <2>2. s8' \subseteq s10 /\ \A p \in s9 : p \in s8' \/ s5[p] \in s7'
    BY <2>1 DEF CgroupInv, N!TypeOK, N!Living
  <2>3. s7' \subseteq Steps
    BY <2>1 DEF CgroupInv
  <2> QED BY <2>1, <2>2, <2>3, FoundStays DEF CgroupInv, N!TypeOK, N!UsedIsNoMore, N!Living
<1>3. ASSUME NEW p \in JobPids, NEW s \in Steps, N!Starts(p, s) PROVE CgroupInv'
  <2>1. /\ UNCHANGED <<s1, s2, s3, s4, s6, s7, s8, s9, s11, s12>>
        /\ s5[p] = None /\ s \in s6 /\ s5' = [s5 EXCEPT ![p] = s]
        /\ s10' = IF s7 = None THEN s10 ELSE s10 \cup {p}
    BY <1>3 DEF N!Starts
  <2>2. \A q \in JobPids : s5'[q] = IF q = p THEN s ELSE s5[q]
    BY <2>1 DEF CgroupInv
  <2>3. s5' \in [JobPids -> Steps \cup {None}] /\ p \notin s9
    BY <2>1 DEF CgroupInv
  <2>4. N!TypeOK'
    BY <2>1, <2>2, <2>3 DEF CgroupInv, N!TypeOK
  <2>5. s7' # None => N!Living' \subseteq s10' /\ \A q \in s9' : q \in s8' \/ s5'[q] \in s7'
    BY <2>1, <2>2, <2>3 DEF CgroupInv, N!Living
  <2>6. \A q \in s9' : q \in JobPids /\ s5'[q] # None
    BY <2>1, <2>2, <2>3 DEF CgroupInv
  <2> QED BY <2>1, <2>3, <2>4, <2>5, <2>6, FoundStays DEF CgroupInv, N!UsedIsNoMore
<1>4. ASSUME NEW p \in JobPids, N!Exits(p) PROVE CgroupInv'
  <2>1. /\ UNCHANGED <<s1, s2, s3, s4, s6, s7, s8, s10, s11, s12>>
        /\ s5' = [s5 EXCEPT ![p] = None] /\ s9' = s9 \ {p}
    BY <1>4 DEF N!Exits
  <2>2. \A q \in JobPids : s5'[q] = IF q = p THEN None ELSE s5[q]
    BY <2>1 DEF CgroupInv
  <2>3. s5' \in [JobPids -> Steps \cup {None}]
    BY <2>1 DEF CgroupInv
  <2>4. N!TypeOK'
    BY <2>1, <2>2, <2>3 DEF CgroupInv, N!TypeOK
  <2>5. s7' # None => N!Living' \subseteq s10' /\ \A q \in s9' : q \in s8' \/ s5'[q] \in s7'
    BY <2>1, <2>2, <2>3 DEF CgroupInv, N!Living
  <2>6. \A q \in s9' : q \in JobPids /\ s5'[q] # None
    BY <2>1, <2>2, <2>3 DEF CgroupInv
  <2> QED BY <2>1, <2>3, <2>4, <2>5, <2>6, FoundStays DEF CgroupInv, N!UsedIsNoMore
<1>5. CASE N!MemoryChanges
  <2>1. /\ UNCHANGED <<s1, s2, s3, s4, s5, s6, s7, s8, s9, s10, s12>>
        /\ s11'.usage \in 0..3 /\ s11'.inactive \in 0..s11'.usage
    BY <1>5 DEF N!MemoryChanges
  <2> QED BY <2>1, FoundStays DEF CgroupInv, N!TypeOK, N!UsedIsNoMore, N!Living
<1>6. CASE N!Collect
  <2>1. /\ UNCHANGED <<s1, s2, s3, s4, s5, s6, s11, s12>>
        /\ s7' = s6 /\ s8' = {} /\ s9' = N!Living /\ s10' = N!Living
    BY <1>6 DEF N!Collect, N!Below
  <2>2. s7' \subseteq Steps /\ \A p \in N!Living : p \in JobPids /\ s5[p] # None /\ s5[p] \in s7'
    BY <2>1 DEF CgroupInv, N!TypeOK, N!Living
  <2>3. N!Living' = N!Living
    BY <2>1 DEF N!Living
  <2> QED BY <2>1, <2>2, <2>3, FoundStays DEF CgroupInv, N!TypeOK, N!UsedIsNoMore
<1>7. CASE N!Collected
  BY <1>7, FoundStays DEF N!Collected, CgroupInv, N!TypeOK, N!UsedIsNoMore
<1>8. CASE N!ReadUsage
  <2>1. /\ UNCHANGED <<s1, s2, s3, s4, s5, s6, s7, s8, s9, s10, s11>>
        /\ s12' = [usage |-> s11.usage, gave |-> IF s2 THEN s11.usage ELSE None]
    BY <1>8 DEF N!ReadUsage
  <2>2. s11.usage \in 0..3
    BY DEF CgroupInv, N!TypeOK
  <2>3. /\ s12'.usage \in 0..3 /\ s12'.gave \in {s12'.usage, None}
        /\ s12' = [usage |-> s12'.usage, gave |-> s12'.gave]
    BY <2>1, <2>2
  <2>4. N!UsedIsNoMore'
    BY <2>3 DEF N!UsedIsNoMore
  <2> QED BY <2>1, <2>3, <2>4, FoundStays DEF CgroupInv, N!TypeOK, N!Living
<1>9. CASE N!ReadInactive
  <2>1. UNCHANGED <<s1, s2, s3, s4, s5, s6, s7, s8, s9, s10, s11>> /\ s12.usage \in 0..3
    BY <1>9 DEF N!ReadInactive, CgroupInv
  <2>2. PICK inactive \in {0, s11.inactive} : s12' = [s12 EXCEPT !.gave = N!saturating_sub(s12.usage, inactive)]
    BY <1>9 DEF N!ReadInactive
  <2>3. inactive \in Nat
    BY DEF CgroupInv, N!TypeOK
  <2>4. N!saturating_sub(s12.usage, inactive) \in 0..s12.usage
    <3> DEFINE n == s12.usage - inactive
    <3>1. n \in Int /\ n <= s12.usage /\ s12.usage \in Nat
      BY <2>1, <2>3
    <3>2. N!saturating_sub(s12.usage, inactive) = N!Max({n, 0})
      BY DEF N!saturating_sub
    <3> HIDE DEF n
    <3>3. N!Max({n, 0}) = IF n < 0 THEN 0 ELSE n
      BY <3>1, MoreOrNone
    <3> QED BY <3>1, <3>2, <3>3
  <2>5. /\ s12'.usage = s12.usage /\ s12'.gave \in 0..s12'.usage
        /\ s12' = [usage |-> s12'.usage, gave |-> s12'.gave]
    BY <2>2, <2>4 DEF CgroupInv
  <2>6. N!UsedIsNoMore'
    BY <2>5 DEF N!UsedIsNoMore
  <2> QED BY <2>1, <2>5, <2>6, FoundStays DEF CgroupInv, N!TypeOK, N!Living
<1>10. CASE N!UsedIsTold
  <2>1. /\ UNCHANGED <<s1, s2, s3, s4, s5, s6, s7, s8, s9, s10, s11>>
        /\ s12' = [usage |-> None, gave |-> None]
    BY <1>10 DEF N!UsedIsTold
  <2> QED BY <2>1, FoundStays DEF CgroupInv, N!TypeOK, N!Living, N!UsedIsNoMore
<1>11. CASE N!find
  <2> DEFINE of == [c \in N!Controllers |-> N!PlaceOf(s3[c])]
  <2>1. /\ UNCHANGED <<s1, s2, s3, s5, s6, s7, s8, s9, s10, s11, s12>>
        /\ s4' = IF \A c \in N!Controllers : of[c] = {} THEN {} ELSE {of}
    BY <1>11 DEF N!find
  <2>2. \A c \in N!Controllers : /\ of[c] = {} <=> s3[c] \ {"too deep"} = {}
                                 /\ "usual" \in s3[c] => of[c] = {"usual"}
    <3>1. \A places \in SUBSET N!Places : /\ N!PlaceOf(places) = {} <=> places \ {"too deep"} = {}
                                          /\ "usual" \in places => N!PlaceOf(places) = {"usual"}
      BY DEF N!PlaceOf, N!Places
    <3>2. \A c \in N!Controllers : s3[c] \in SUBSET N!Places
      BY DEF CgroupInv, N!TypeOK
    <3> QED BY <3>1, <3>2
  <2> HIDE DEF of
  <2>3. N!FoundWhereItIs'
    BY <2>1, <2>2 DEF N!FoundWhereItIs
  <2> QED BY <2>1, <2>3 DEF CgroupInv, N!TypeOK, N!Living, N!UsedIsNoMore
<1> QED BY <1>0, <1>1, <1>2, <1>3, <1>4, <1>5, <1>6, <1>7, <1>8, <1>9, <1>10, <1>11 DEF N!Next

----------------------------------------------------------------------------
(* The screen of the monitor.                                              *)

\* What was told of a source that is looked at again by then: a reason, or a
\* snapshot that was no older than it may be when it was last looked at.
Explained(snap, why, by) == why # None \/ snap = None \/ snap.ts + StaleAfter + Refresh >= by

\* Between its draws the screen is right for the second it was drawn in, unless
\* it is dirty; the thread is never late for a file, and the last that it said,
\* on its way or shown, explains the silence until it looks again.
ScreenInv ==
  /\ SourceInv
  /\ s10 \in BOOLEAN /\ s12 \in BOOLEAN /\ s11 \in Nat /\ s11 <= s1
  /\ s13 = "start" => s10 = TRUE /\ s6 = None /\ s7 = <<>> /\ s8.latest = None
  /\ s13 = "poll" => s10 = FALSE /\ (s12 = TRUE => s11 = s1)
  /\ s13 \in {"drain", "poll"} /\ s10 = FALSE /\ s11 = s1 => s14 = O!Drawn(s8)
  /\ s5.job # None /\ s6 # None =>
       /\ s6 >= s1
       /\ s7 = <<>> => Explained(s8.latest, s8.waiting, s6)
       /\ s7 # <<>> => Explained(s7[Len(s7)].snap, s7[Len(s7)].why, s6)
  /\ s13 = "poll" /\ s12 = TRUE /\ s5.job # None => Explained(s8.latest, s8.waiting, s1)

LEMMA ScreenTimes == {MaxTime, Refresh, StaleAfter} \subseteq Nat /\ None \notin Nat
BY StoryAssumption, TargetAssumption, FigureAssumption

LEMMA SnapshotsAreThere == None \notin O!Snapshots
<1>1. O!Snapshots \subseteq [ts : Nat, procs : MCTables]
  BY ScreenTimes DEF O!Snapshots
<1> QED BY <1>1, FigureAssumption

\* Without a snapshot there is a reason, and one alone.
LEMMA MessagesSay ==
  ASSUME NEW m \in O!Msgs
  PROVE  /\ m.snap = None => m.why # None
         /\ m.snap # None => m.why = None
<1>1. CASE m \in [snap : O!Snapshots, why : {None}]
  BY <1>1, SnapshotsAreThere
<1>2. CASE m \in [snap : {None}, why : {"stale", "no snapshot yet", "failed"}]
  <2>1. m.snap = None /\ m.why \in {"stale", "no snapshot yet", "failed"}
    BY <1>2
  <2>2. None \notin {"stale", "no snapshot yet", "failed"}
    BY StoryAssumption, FigureAssumption
  <2> QED BY <2>1, <2>2
<1> QED BY <1>1, <1>2 DEF O!Msgs

\* A file is sent while it is fresh, and otherwise why it is not.
LEMMA FilesAreFresh ==
  ASSUME NEW m \in O!poll_cache
  PROVE  m.why # None \/ (m.snap = s2 /\ s2 # None /\ ~(O!age_secs(s2) > StaleAfter))
<1>1. CASE s2 # None /\ ~(O!age_secs(s2) > StaleAfter)
  BY <1>1 DEF O!poll_cache, O!is_stale
<1>2. CASE ~(s2 # None /\ ~(O!age_secs(s2) > StaleAfter))
  <2> DEFINE missing == "no snapshot yet"
             old == "stale"
  <2>1. O!poll_cache = {IF s2 # None /\ ~(O!age_secs(s2) > StaleAfter) THEN [snap |-> s2, why |-> None]
                        ELSE [snap |-> None, why |-> IF s2 = None THEN missing ELSE old]}
    BY DEF O!poll_cache, O!is_stale
  <2>2. missing # None /\ old # None
    BY StoryAssumption, FigureAssumption
  <2> HIDE DEF missing, old
  <2> QED BY <2>1, <2>2, <1>2
<1> QED BY <1>1, <1>2

LEMMA DeathIsKnown ==
  ASSUME SourceInv
  PROVE  /\ O!Known.latest = s8.latest
         /\ s6 # None => O!Known = s8
         /\ s6 = None => O!Known.waiting # None
<1> DEFINE stopped == "sampler stopped"
<1>1. O!Known = [s8 EXCEPT !.waiting = IF s6 = None /\ s8.waiting = None THEN stopped ELSE s8.waiting]
  BY DEF O!Known
<1>2. None # stopped
  BY FigureAssumption
<1> HIDE DEF stopped
<1> QED BY <1>1, <1>2 DEF SourceInv

LEMMA DrawnOf == UNCHANGED <<s1, s9>> => O!Drawn(s8)' = O!Drawn(s8')
<1> SUFFICES ASSUME UNCHANGED <<s1, s9>> PROVE O!Drawn(s8)' = O!Drawn(s8')
  OBVIOUS
<1>1. O!rows(s8)' = O!rows(s8')
  OBVIOUS
<1>2. O!table_lines(s8)' = O!table_lines(s8')
  BY <1>1 DEF O!table_lines
<1> QED BY <1>2 DEF O!Drawn, O!age_secs, O!is_stale

LEMMA LastOfTail ==
  ASSUME NEW set, NEW seq \in Seq(set), seq # <<>>
  PROVE  /\ Tail(seq) # <<>> => Tail(seq)[Len(Tail(seq))] = seq[Len(seq)]
         /\ Tail(seq) = <<>> => Head(seq) = seq[Len(seq)]
<1>1. /\ Tail(seq) \in Seq(set) /\ Len(Tail(seq)) = Len(seq) - 1 /\ Len(seq) \in Nat \ {0}
      /\ \A i \in 1..Len(Tail(seq)) : Tail(seq)[i] = seq[i + 1]
      /\ Head(seq) = seq[1]
  BY HeadTailProperties, LenProperties, EmptySeq
<1>2. CASE Tail(seq) = <<>>
  BY <1>1, <1>2
<1>3. CASE Tail(seq) # <<>>
  <2>1. Len(Tail(seq)) \in 1..Len(Tail(seq))
    BY <1>1, <1>3, EmptySeq
  <2> QED BY <1>1, <1>3, <2>1
<1> QED BY <1>2, <1>3

LEMMA ScreenBegins == O!Init => ScreenInv
<1> SUFFICES ASSUME O!Init PROVE ScreenInv
  OBVIOUS
<1>1. /\ s1 = 0 /\ s5 = O!Cache(None) /\ s6 = None /\ s7 = <<>> /\ s10 = TRUE /\ s11 = 0
      /\ s8 = [latest |-> None, waiting |-> None, gpu_only |-> FALSE, scroll |-> 0]
      /\ s12 = FALSE /\ s13 = "start"
  BY DEF O!Init
<1>2. SourceInv
  BY SourceBegins
<1>3. s5.job = None /\ s8.latest = None
  BY <1>1 DEF O!Cache
<1>4. s10 \in BOOLEAN /\ s12 \in BOOLEAN
  BY <1>1
<1> QED BY <1>1, <1>2, <1>3, <1>4 DEF ScreenInv

\* What is drawn of a snapshot.
LEMMA AgeIsTold ==
  ASSUME SourceInv, s8.latest # None
  PROVE  LET age == IF s1 - s8.latest.ts < 0 THEN 0 ELSE s1 - s8.latest.ts
         IN  /\ s8.latest.ts \in Nat /\ s1 \in Nat
             /\ O!Max({s1 - s8.latest.ts, 0}) = age
             /\ O!Drawn(s8).ts = s8.latest.ts /\ O!Drawn(s8).says = s8.waiting
             /\ O!Drawn(s8).age = age /\ (O!Drawn(s8).late <=> age > StaleAfter)
<1> DEFINE n == s1 - s8.latest.ts
<1>1. s8.latest.ts \in Nat /\ s1 \in Nat
  BY ScreenTimes DEF SourceInv, O!TypeOK, O!Snapshots
<1>2. n \in Int
  BY <1>1
<1>3. O!age_secs(s8.latest) = O!Max({n, 0})
  BY DEF O!age_secs
<1>4. /\ O!Drawn(s8).ts = s8.latest.ts /\ O!Drawn(s8).says = s8.waiting
      /\ O!Drawn(s8).age = O!age_secs(s8.latest)
      /\ O!Drawn(s8).late <=> O!age_secs(s8.latest) > StaleAfter
  BY DEF O!Drawn, O!is_stale
<1> HIDE DEF n
<1>5. O!Max({n, 0}) = IF n < 0 THEN 0 ELSE n
  BY <1>2, Greatest
<1> QED BY <1>1, <1>3, <1>4, <1>5 DEF n

LEMMA ScreenIsRight == ScreenInv => O!ScreenIsCurrent /\ O!SilenceIsTold
<1> SUFFICES ASSUME ScreenInv PROVE O!ScreenIsCurrent /\ O!SilenceIsTold
  OBVIOUS
<1>1. O!ScreenIsCurrent
  BY DEF ScreenInv, O!ScreenIsCurrent
<1>2. ASSUME s13 = "poll", s12, s14.ts # None
      PROVE  /\ s14.age = O!Max({s1 - s14.ts, 0}) /\ (s14.late <=> s1 - s14.ts > StaleAfter)
             /\ s5.job # None /\ s14.age > StaleAfter + Refresh + 1 => s14.says # None
  <2>1. s14 = O!Drawn(s8)
    BY <1>1, <1>2 DEF O!ScreenIsCurrent
  <2>2. s8.latest # None
    BY <1>2, <2>1 DEF O!Drawn
  <2>3. SourceInv /\ (s5.job # None => Explained(s8.latest, s8.waiting, s1))
    BY <1>2 DEF ScreenInv
  <2> DEFINE age == IF s1 - s8.latest.ts < 0 THEN 0 ELSE s1 - s8.latest.ts
  <2>4. /\ s8.latest.ts \in Nat /\ s1 \in Nat /\ O!Max({s1 - s8.latest.ts, 0}) = age
        /\ s14.ts = s8.latest.ts /\ s14.says = s8.waiting /\ s14.age = age
    BY <2>1, <2>2, <2>3, AgeIsTold
  <2>5. s14.late <=> age > StaleAfter
    BY <2>1, <2>2, <2>3, AgeIsTold
  <2>6. age > StaleAfter <=> s1 - s8.latest.ts > StaleAfter
    BY <2>4, ScreenTimes
  <2>7. s5.job # None /\ age > StaleAfter + Refresh + 1 => s8.waiting # None
    BY <2>2, <2>3, <2>4, ScreenTimes DEF Explained
  <2> HIDE DEF age
  <2> QED BY <2>4, <2>5, <2>6, <2>7
<1> QED BY <1>1, <1>2 DEF O!SilenceIsTold

LEMMA ScreenStep == ScreenInv /\ (O!Next \/ UNCHANGED slots) => ScreenInv'
<1> SUFFICES ASSUME ScreenInv, O!Next \/ UNCHANGED slots PROVE ScreenInv'
  OBVIOUS
<1> USE ScreenTimes
<1> USE DEF O!ask, O!ui
<1>s. SourceInv'
  BY SourceStep DEF ScreenInv
<1>t. s1 \in Nat /\ s1' \in Nat
  <2>1. s1 \in 0..MaxTime /\ s1' \in 0..MaxTime
    BY <1>s DEF ScreenInv, SourceInv, O!TypeOK
  <2> QED BY <2>1
<1>0. CASE UNCHANGED <<s1, s5, s6, s7, s8, s9, s10, s11, s12, s13, s14>>
  BY <1>0, <1>s, DrawnOf DEF ScreenInv, Explained
<1>1. CASE O!Resolve
  <2>1. /\ UNCHANGED <<s1, s6, s7, s8, s9, s10, s11, s12, s14>>
        /\ s13 = "start" /\ s13' \in {"start", "refused"}
    BY <1>1 DEF O!Resolve
  <2> QED BY <2>1, <1>s DEF ScreenInv
<1>2. CASE O!Open
  <2>1. /\ UNCHANGED <<s1, s7, s8, s9, s10, s11, s12, s14>>
        /\ s13 = "start" /\ s13' = "drain" /\ s6' = s1
    BY <1>2 DEF O!Open
  <2> QED BY <2>1, <1>s, <1>t DEF ScreenInv, Explained
<1>3. CASE O!Write \/ O!JobEnds
  <2>1. UNCHANGED <<s1, s5, s6, s7, s8, s9, s10, s11, s12, s13, s14>>
    BY <1>3 DEF O!Write, O!JobEnds
  <2> QED BY <2>1, <1>0
<1>4. CASE O!Feed
  <2>1. UNCHANGED <<s1, s2, s3, s4, s5, s8, s9, s10, s11, s12, s13, s14>> /\ s6 # None /\ s13 \notin {"start", "refused"}
    BY <1>4 DEF O!Feed
  <2>2. CASE s13 = "quit"
    <3>1. s6' = None
      BY <1>4, <2>2 DEF O!Feed
    <3> QED BY <2>1, <2>2, <3>1, <1>s DEF ScreenInv
  <2>3. CASE s13 # "quit"
    <3>1. s6' = s1 + Refresh
      BY <1>4, <2>3 DEF O!Feed
    <3>2. PICK m \in (IF s5.job # None THEN O!poll_cache ELSE O!poll_live) : s7' = Append(s7, m)
      BY <1>4, <2>3 DEF O!Feed
    <3>3. s7 \in Seq(O!Msgs)
      BY DEF ScreenInv, SourceInv, O!TypeOK
    <3>4. s7' # <<>> /\ s7'[Len(s7')] = m
      BY <3>2, <3>3
    <3>5. s5.job # None => Explained(m.snap, m.why, s1 + Refresh)
      <4>1. SUFFICES ASSUME s5.job # None, m.why = None PROVE s2.ts + StaleAfter >= s1 /\ m.snap = s2 /\ s2.ts \in Nat
        BY <1>t, ScreenTimes DEF Explained
      <4>2. m \in O!poll_cache
        BY <3>2, <4>1
      <4>3. m.snap = s2 /\ s2 # None /\ ~(O!age_secs(s2) > StaleAfter)
        BY <4>1, <4>2, FilesAreFresh
      <4>4. s2 \in O!Snapshots
        BY <4>3 DEF ScreenInv, SourceInv, O!TypeOK
      <4>5. s2.ts \in Nat
        BY <4>4 DEF O!Snapshots
      <4> DEFINE n == s1 - s2.ts
      <4>6. n \in Int /\ 0 \in Int
        BY <4>5, <1>t
      <4>7. ~(O!Max({n, 0}) > StaleAfter)
        BY <4>3 DEF O!age_secs
      <4> HIDE DEF n
      <4>8. O!Max({n, 0}) = IF n < 0 THEN 0 ELSE n
        BY ONLY <4>6, Greatest
      <4>9. n <= StaleAfter
        BY <4>6, <4>7, <4>8
      <4> QED BY <4>3, <4>5, <4>9, <1>t DEF n
    <3>6. s5'.job # None /\ s6' # None => s6' >= s1' /\ Explained(m.snap, m.why, s6')
      BY <2>1, <3>1, <3>5, <1>t
    <3> QED BY <2>1, <3>4, <3>6, <1>s, DrawnOf DEF ScreenInv, Explained
  <2> QED BY <2>2, <2>3
<1>5. CASE O!FeederDies
  <2>1. UNCHANGED <<s1, s5, s7, s8, s9, s10, s11, s12, s13, s14>> /\ s6' = None
    BY <1>5 DEF O!FeederDies
  <2> QED BY <2>1, <1>s, DrawnOf DEF ScreenInv, Explained
<1>6. CASE O!Receive
  <2>1. /\ UNCHANGED <<s1, s5, s6, s9, s11, s12, s13, s14>> /\ s13 = "drain" /\ s10' = TRUE
        /\ s7 # <<>> /\ s7' = Tail(s7)
    BY <1>6 DEF O!Receive
  <2>2. s7 \in Seq(O!Msgs)
    BY DEF ScreenInv, SourceInv, O!TypeOK
  <2>3. /\ s7' # <<>> => s7'[Len(s7')] = s7[Len(s7)]
        /\ s7' = <<>> => Head(s7) = s7[Len(s7)]
    BY <2>1, <2>2, LastOfTail
  <2>4. /\ s8'.latest = IF Head(s7).snap # None THEN Head(s7).snap ELSE s8.latest
        /\ s8'.waiting = IF Head(s7).snap # None THEN None ELSE Head(s7).why
    BY <1>6 DEF O!Receive, ScreenInv, SourceInv
  <2>5. Head(s7) \in O!Msgs
    BY <2>1, <2>2
  <2>6. Head(s7).snap # None => Head(s7).why = None
    BY <2>5, MessagesSay
  <2>7. Head(s7).snap = None => Head(s7).why # None
    BY <2>5, MessagesSay
  <2>8. s5.job # None /\ s6 # None /\ s7' = <<>> => Explained(s8'.latest, s8'.waiting, s6)
    BY <2>1, <2>3, <2>4, <2>6, <2>7 DEF ScreenInv, Explained
  <2>9. s5.job # None /\ s6 # None /\ s7' # <<>> => Explained(s7'[Len(s7')].snap, s7'[Len(s7')].why, s6)
    BY <2>1, <2>3 DEF ScreenInv, Explained
  <2> QED BY <2>1, <2>8, <2>9, <1>s DEF ScreenInv, Explained
<1>7. CASE O!Draw
  <2>1. /\ UNCHANGED <<s1, s5, s6, s7, s9>> /\ s13 = "drain" /\ s13' = "poll" /\ s12' = TRUE
        /\ s7 = <<>> /\ s8' = O!Known
    BY <1>7 DEF O!Draw
  <2>2. /\ s8'.latest = s8.latest
        /\ s6 = None => s8'.waiting # None
    BY <2>1, DeathIsKnown DEF ScreenInv
  <2>3. s6 # None => s8' = s8
    BY <2>1, DeathIsKnown DEF ScreenInv
  <2>4. s10' = FALSE /\ s11' = s1 /\ s14' = O!Drawn(s8')
    <3>1. CASE s10 \/ s6 = None \/ s1 # s11
      BY <1>7, <2>1, <3>1 DEF O!Draw
    <3>2. CASE ~(s10 \/ s6 = None \/ s1 # s11)
      <4>1. UNCHANGED <<s14, s11, s10>>
        BY <1>7, <3>2 DEF O!Draw
      <4> QED BY <2>1, <2>3, <3>2, <4>1 DEF ScreenInv
    <3> QED BY <3>1, <3>2
  <2>5. s5.job # None => Explained(s8'.latest, s8'.waiting, s1)
    <3>1. CASE s6 = None
      BY <2>2, <3>1 DEF Explained
    <3>2. CASE s6 # None
      <4>1. s6 \in Nat /\ (s8.latest # None => s8.latest.ts \in Nat)
        BY <3>2 DEF ScreenInv, SourceInv, O!TypeOK, O!Snapshots
      <4> QED BY <2>1, <2>3, <3>2, <4>1, <1>t DEF ScreenInv, Explained
    <3> QED BY <3>1, <3>2
  <2>6. s14' = O!Drawn(s8)'
    BY <2>1, <2>4, DrawnOf
  <2>7. s5.job # None /\ s6 # None => s6 >= s1 /\ Explained(s8'.latest, s8'.waiting, s6)
    BY <2>1, <2>3 DEF ScreenInv, Explained
  <2>8. /\ s12' \in BOOLEAN /\ s10' \in BOOLEAN /\ s11' \in Nat /\ s11' <= s1'
        /\ s13' = "poll" => s10' = FALSE /\ (s12' = TRUE => s11' = s1')
    <3>1. s12' \in BOOLEAN /\ s10' \in BOOLEAN
      BY <2>1, <2>4
    <3>2. s11' \in Nat /\ s11' <= s1' /\ s11' = s1' /\ s10' = FALSE
      BY <2>1, <2>4, <1>t
    <3> QED BY <3>1, <3>2
  <2>9. s13' # "start" /\ s7' = <<>>
    BY <2>1
  <2>10. s5'.job # None => Explained(s8'.latest, s8'.waiting, s1')
    BY <2>1, <2>5 DEF Explained
  <2>11. s5'.job # None /\ s6' # None => s6' >= s1' /\ Explained(s8'.latest, s8'.waiting, s6')
    BY <2>1, <2>7 DEF Explained
  <2> QED BY <2>6, <2>8, <2>9, <2>10, <2>11, <1>s DEF ScreenInv, Explained
<1>8. ASSUME \/ \E key \in O!Keys : O!Key(key)
             \/ O!Resize \/ O!Quit
      PROVE  ScreenInv'
  <2>1. /\ UNCHANGED <<s1, s5, s6, s7, s11, s12, s14>> /\ s13 = "poll" /\ s13' \in {"drain", "quit"} /\ s10' = TRUE
        /\ s8'.latest = s8.latest /\ s8'.waiting = s8.waiting
    <3>1. CASE O!Resize \/ O!Quit
      BY <3>1 DEF O!Resize, O!Quit
    <3>2. ASSUME NEW key \in O!Keys, O!Key(key)
          PROVE  /\ UNCHANGED <<s1, s5, s6, s7, s11, s12, s14>> /\ s13 = "poll" /\ s13' \in {"drain", "quit"} /\ s10' = TRUE
                 /\ s8'.latest = s8.latest /\ s8'.waiting = s8.waiting
      BY <3>2 DEF O!Key, ScreenInv, SourceInv
    <3> QED BY <1>8, <3>1, <3>2
  <2> QED BY <2>1, <1>s DEF ScreenInv, Explained
<1>9. CASE O!Timeout
  <2>1. UNCHANGED <<s1, s5, s6, s7, s8, s9, s10, s11, s12, s14>> /\ s13 = "poll" /\ s13' = "drain"
    BY <1>9 DEF O!Timeout
  <2> QED BY <2>1, <1>s, DrawnOf DEF ScreenInv, Explained
<1>10. CASE O!Tick
  <2>1. /\ UNCHANGED <<s5, s6, s7, s8, s9, s10, s11, s13, s14>> /\ s1' = s1 + 1 /\ s12' = FALSE
        /\ (s5.job # None /\ s6 # None => s6 > s1)
    BY <1>10 DEF O!Tick
  <2>2. s6 \in Nat \cup {None}
    BY DEF ScreenInv, SourceInv, O!TypeOK
  <2>3. s11' <= s1' /\ s11' # s1' /\ s11' \in Nat
    BY <2>1, <1>t DEF ScreenInv
  <2>4. s5.job # None /\ s6 # None => s6 >= s1'
    BY <2>1, <2>2, <1>t
  <2>5. s13' = "poll" => s10' = FALSE
    BY <2>1 DEF ScreenInv
  <2> QED BY <2>1, <2>3, <2>4, <2>5, <1>s DEF ScreenInv, Explained
<1> QED BY <1>0, <1>1, <1>2, <1>3, <1>4, <1>5, <1>6, <1>7, <1>8, <1>9, <1>10 DEF O!Next, slots

\* A bar of any width, of any load.
LEMMA LoadLights == O!AnyLoadLights
<1> SUFFICES ASSUME NEW pct \in 0..110, NEW width \in 0..200
             PROVE  /\ O!bar(pct, O!bar_width(width)) \in 0..O!bar_width(width)
                    /\ O!bar(pct, O!bar_width(width)) = 0 <=> pct = 0
                    /\ O!sparkline(pct) \in 0..7
  BY DEF O!AnyLoadLights
<1> DEFINE quarter == width \div 4
           most == IF quarter < 20 THEN quarter ELSE 20
           cells == O!bar_width(width)
           load == IF pct < 100 THEN pct ELSE 100
<1>1. quarter \in Int /\ 20 \in Int /\ 5 \in Int /\ most \in Int
  OBVIOUS
<1>2. O!Min({quarter, 20}) = most
  <2> HIDE DEF quarter
  <2> QED BY <1>1, Greatest
<1>3. O!Max({5, most}) = IF 5 < most THEN most ELSE 5
  <2> HIDE DEF most
  <2> QED BY <1>1, Greatest
<1>4. cells \in 5..20
  <2>1. cells = O!Max({5, most})
    BY <1>2 DEF O!bar_width
  <2>2. most <= 20
    BY <1>1
  <2> HIDE DEF most, cells
  <2> QED BY <1>1, <1>3, <2>1, <2>2
<1>5. O!Min({pct, 100}) = load
  BY Greatest
<1>6. load \in 0..100 /\ (load = 0 <=> pct = 0)
  OBVIOUS
<1>7. O!bar(pct, cells) = (cells * load + 99) \div 100
  <2> HIDE DEF cells, load
  <2> QED BY <1>4, <1>5, <1>6 DEF O!bar, O!div_ceil
<1>8. O!sparkline(pct) = (load * 7) \div 100
  BY <1>5 DEF O!sparkline
<1> HIDE DEF cells, load
<1>9. cells * load \in Nat /\ cells * load <= 100 * cells /\ (cells * load = 0 <=> load = 0)
  BY <1>4, <1>6
<1>10. (cells * load + 99) \div 100 \in 0..cells /\ ((cells * load + 99) \div 100 = 0 <=> load = 0)
  <2> DEFINE product == cells * load
  <2> HIDE DEF product
  <2>1. product \in Nat /\ product <= 100 * cells /\ (product = 0 <=> load = 0)
    BY <1>9 DEF product
  <2>2. (product + 99) \div 100 \in 0..cells /\ ((product + 99) \div 100 = 0 <=> product = 0)
    BY <1>4, <2>1
  <2> QED BY <2>1, <2>2 DEF product
<1>11. (load * 7) \div 100 \in 0..7
  BY <1>6
<1> QED BY <1>6, <1>7, <1>8, <1>10, <1>11 DEF cells

----------------------------------------------------------------------------
(* The queue's view.                                                       *)

Keys == {"q", "r", "x"}

\* Whoever was there when the gathering began is in a list once squeue has
\* answered, or has ended by then and is sacct's to tell of.
ListsInv ==
  /\ V!TypeOK
  /\ s8 = [running |-> s8.running, pending |-> s8.pending, recent |-> s8.recent]
  /\ \A j \in s12 : j \in QueueJobs /\ s1[j] # "none"
  /\ s7 \in {"names", "sacct"} =>
       s12 \subseteq s8.running \cup s8.pending \cup s13 \cup {j \in QueueJobs : s1[j] \in V!Ended}
  /\ s7 \in {"partitions", "draw", "waiting"} => s12 \subseteq V!Shown \cup s13
  /\ s9 \in Int /\ (s7 = "waiting" => s10 = s9 + WatchEvery /\ s3 <= s10)
  /\ s11 \in Seq(Keys) /\ s14 \in BOOLEAN
  /\ s14 = TRUE => s7 = "ended" \/ \E i \in DOMAIN s11 : s11[i] = "q"
  /\ s7 = "ended" => s6 = FALSE

LEMMA ViewTimes == {WatchEvery, KeyBound, LastMoment} \subseteq Nat
BY FigureAssumption

LEMMA ListsAreRight == ListsInv => V!EachJobIsShown /\ V!RedrawsOnTime /\ V!QuitIsHeard
BY DEF ListsInv, V!EachJobIsShown, V!RedrawsOnTime, V!QuitIsHeard, V!Range

LEMMA ListsBegin == V!Init => ListsInv
<1> SUFFICES ASSUME V!Init PROVE ListsInv
  OBVIOUS
<1>1. /\ s1 \in [QueueJobs -> {"none", "RUNNING"}] /\ s2 = {} /\ s3 = 0 /\ s6 \in BOOLEAN /\ s7 = "squeue"
      /\ s9 = 0 /\ s11 = <<>> /\ s12 = {j \in QueueJobs : s1[j] # "none"} /\ s14 = FALSE
  BY DEF V!Init
<1>2. s8 = [running |-> {}, pending |-> {}, recent |-> {}]
  BY DEF V!Init, V!Empty
<1>3. s1 \in [QueueJobs -> V!Listed \cup V!Ended \cup {"none", "SUSPENDED"}]
  BY <1>1 DEF V!Listed
<1>4. V!TypeOK
  BY <1>1, <1>2, <1>3, ViewTimes, EmptySeq DEF V!TypeOK
<1>5. s14 \in BOOLEAN /\ s11 \in Seq(Keys)
  BY <1>1, EmptySeq
<1> QED BY <1>1, <1>2, <1>4, <1>5 DEF ListsInv

\* A job goes on to a state that is not the first, and from its end to none.
LEMMA JobsGoOn ==
  ASSUME NEW old \in DOMAIN V!Follows, NEW new \in V!Follows[old]
  PROVE  /\ new \in V!Listed \cup V!Ended \cup {"none", "SUSPENDED"} /\ new # "none"
         /\ old \notin V!Ended
BY DEF V!Follows, V!Listed, V!Ended

\* What another list, another wait or another key leaves alone.
LEMMA ListsStay ==
  ListsInv /\ UNCHANGED <<s1, s8, s12, s13>> =>
    /\ s8' = [running |-> s8'.running, pending |-> s8'.pending, recent |-> s8'.recent]
    /\ \A j \in s12' : j \in QueueJobs /\ s1'[j] # "none"
    /\ V!Shown' = V!Shown
BY DEF ListsInv, V!Shown

LEMMA GathersAnew == ListsInv /\ V!Redraw /\ UNCHANGED s1 =>
  /\ s7' = "squeue" /\ s8' = [running |-> s8'.running, pending |-> s8'.pending, recent |-> s8'.recent]
  /\ \A list \in DOMAIN s8' : s8'[list] \subseteq QueueJobs
  /\ \A j \in s12' : j \in QueueJobs /\ s1'[j] # "none"
<1> SUFFICES ASSUME ListsInv, V!Redraw, UNCHANGED s1
             PROVE  /\ s7' = "squeue" /\ s8' = [running |-> s8'.running, pending |-> s8'.pending, recent |-> s8'.recent]
                    /\ \A list \in DOMAIN s8' : s8'[list] \subseteq QueueJobs
                    /\ \A j \in s12' : j \in QueueJobs /\ s1'[j] # "none"
  OBVIOUS
<1>1. s7' = "squeue" /\ s12' = {j \in QueueJobs : s1[j] # "none"}
  BY DEF V!Redraw, V!After
<1>2. s8' = [running |-> {}, pending |-> {}, recent |-> {}]
  BY DEF V!Redraw, V!Empty
<1> QED BY <1>1, <1>2

LEMMA ListsStep == ListsInv /\ (V!Next \/ UNCHANGED slots) => ListsInv'
<1> SUFFICES ASSUME ListsInv, V!Next \/ UNCHANGED slots PROVE ListsInv'
  OBVIOUS
<1> USE ViewTimes
<1>0. CASE UNCHANGED slots
  BY <1>0 DEF slots, ListsInv, V!TypeOK, V!Shown
<1>1. ASSUME NEW j \in QueueJobs, V!Move(j) PROVE ListsInv'
  <2>1. PICK s \in V!Follows[s1[j]] : s1' = [s1 EXCEPT ![j] = s]
    BY <1>1 DEF V!Move
  <2>2. /\ s1[j] \in DOMAIN V!Follows
        /\ UNCHANGED <<s2, s3, s4, s5, s6, s7, s8, s9, s10, s11, s12, s13, s14>>
    BY <1>1 DEF V!Move
  <2>3. s \in V!Listed \cup V!Ended \cup {"none", "SUSPENDED"} /\ s # "none" /\ s1[j] \notin V!Ended
    BY <2>1, <2>2, JobsGoOn
  <2>4. s1 \in [QueueJobs -> V!Listed \cup V!Ended \cup {"none", "SUSPENDED"}]
    BY DEF ListsInv, V!TypeOK
  <2>5. /\ s1' \in [QueueJobs -> V!Listed \cup V!Ended \cup {"none", "SUSPENDED"}]
        /\ \A k \in QueueJobs : /\ s1[k] # "none" => s1'[k] # "none"
                                /\ s1[k] \in V!Ended => s1'[k] \in V!Ended
    BY <2>1, <2>3, <2>4
  <2>6. V!TypeOK'
    BY <2>2, <2>5 DEF ListsInv, V!TypeOK
  <2>7. \A k \in s12' : k \in QueueJobs /\ s1'[k] # "none"
    BY <2>2, <2>5 DEF ListsInv
  <2>8. s7' \in {"names", "sacct"} =>
          s12' \subseteq s8'.running \cup s8'.pending \cup s13' \cup {k \in QueueJobs : s1'[k] \in V!Ended}
    BY <2>2, <2>5 DEF ListsInv
  <2>9. V!Shown' = V!Shown
    BY <2>2 DEF V!Shown
  <2> QED BY <2>2, <2>6, <2>7, <2>8, <2>9 DEF ListsInv
<1>2. ASSUME NEW j \in QueueJobs, V!Account(j) PROVE ListsInv'
  <2>1. /\ s2' \subseteq QueueJobs
        /\ UNCHANGED <<s1, s3, s4, s5, s6, s7, s8, s9, s10, s11, s12, s13, s14>>
    BY <1>2 DEF V!Account, ListsInv, V!TypeOK
  <2> QED BY <2>1, ListsStay DEF ListsInv, V!TypeOK
<1>3. ASSUME NEW key \in Keys, V!Type(key) PROVE ListsInv'
  <2>1. /\ UNCHANGED <<s1, s2, s3, s4, s5, s6, s7, s8, s9, s10, s12, s13>>
        /\ s6 /\ Len(s11) < KeyBound /\ s11' = Append(s11, key) /\ s14' = (s14 \/ key = "q")
    BY <1>3 DEF V!Type
  <2>2. s11 \in Seq(Keys)
    BY DEF ListsInv
  <2>3. /\ s11' \in Seq(Keys) /\ Len(s11') = Len(s11) + 1 /\ Len(s11) \in Nat
        /\ s11'[Len(s11) + 1] = key /\ \A i \in DOMAIN s11 : i \in DOMAIN s11' /\ s11'[i] = s11[i]
        /\ Len(s11) + 1 \in DOMAIN s11'
    BY <2>1, <2>2, AppendProperties, LenProperties
  <2>4. s14' \in BOOLEAN
    BY <2>1
  <2>5. s14' = TRUE => s7' = "ended" \/ \E i \in DOMAIN s11' : s11'[i] = "q"
    <3>1. CASE key = "q"
      BY <2>3, <3>1
    <3>2. CASE key # "q"
      <4>1. s14' = TRUE => s14 = TRUE
        BY <2>1, <3>2 DEF ListsInv
      <4> QED BY <2>1, <2>3, <4>1 DEF ListsInv
    <3> QED BY <3>1, <3>2
  <2>6. V!TypeOK'
    BY <2>1, <2>3 DEF ListsInv, V!TypeOK
  <2> QED BY <2>1, <2>3, <2>4, <2>5, <2>6, ListsStay DEF ListsInv
<1>4. CASE V!Tick
  <2>1. /\ UNCHANGED <<s1, s2, s4, s5, s6, s7, s8, s9, s10, s11, s12, s13, s14>>
        /\ s3 < LastMoment /\ s3' = s3 + 1 /\ (s7 = "waiting" => s3 < s10)
    BY <1>4 DEF V!Tick
  <2>2. s3 \in Nat /\ s3' \in 0..LastMoment
    BY <2>1 DEF ListsInv, V!TypeOK
  <2>3. V!TypeOK'
    BY <2>1, <2>2 DEF ListsInv, V!TypeOK
  <2>4. s7' = "waiting" => s10' = s9' + WatchEvery /\ s3' <= s10'
    BY <2>1, <2>2 DEF ListsInv
  <2> QED BY <2>1, <2>3, <2>4, ListsStay DEF ListsInv
<1>5. CASE V!Squeue
  <2>1. /\ UNCHANGED <<s1, s2, s3, s4, s5, s9, s10, s11, s12, s14>>
        /\ s7 = "squeue" /\ s13' = s13 \cup {j \in QueueJobs : s1[j] = "SUSPENDED"}
    BY <1>5 DEF V!Squeue
  <2>2. CASE V!Leave /\ UNCHANGED s8
    <3>1. s7' = "ended" /\ s6' = FALSE
      BY <2>2 DEF V!Leave
    <3> QED BY <2>1, <2>2, <3>1 DEF ListsInv, V!TypeOK
  <2>3. CASE /\ s8' = [s8 EXCEPT !.running = {j \in QueueJobs : s1[j] \in V!Listed \ {"PENDING"}},
                                 !.pending = {j \in QueueJobs : s1[j] = "PENDING"}]
             /\ s7' = V!After("squeue") /\ UNCHANGED s6
    <3> DEFINE up == {j \in QueueJobs : s1[j] \in V!Listed \ {"PENDING"}}
               queued == {j \in QueueJobs : s1[j] = "PENDING"}
    <3>1. s7' = "names"
      BY <2>3 DEF V!After
    <3>2. s8' = [running |-> up, pending |-> queued, recent |-> s8.recent]
      BY <2>3 DEF ListsInv
    <3>3. s8.recent \subseteq QueueJobs
      BY DEF ListsInv, V!TypeOK
    <3>4. \A list \in DOMAIN s8' : s8'[list] \subseteq QueueJobs
      <4>1. up \subseteq QueueJobs /\ queued \subseteq QueueJobs
        OBVIOUS
      <4> HIDE DEF up, queued
      <4> QED BY <3>2, <3>3, <4>1
    <3>5. s12' \subseteq s8'.running \cup s8'.pending \cup s13' \cup {j \in QueueJobs : s1'[j] \in V!Ended}
      <4>1. SUFFICES ASSUME NEW j \in s12
                     PROVE  \/ j \in up \cup queued \cup s13'
                            \/ j \in QueueJobs /\ s1[j] \in V!Ended
        BY <2>1, <3>2
      <4>2. j \in QueueJobs /\ s1[j] # "none" /\ s1[j] \in V!Listed \cup V!Ended \cup {"none", "SUSPENDED"}
        BY DEF ListsInv, V!TypeOK
      <4> QED BY <2>1, <4>2 DEF V!Listed
    <3>6. V!TypeOK'
      BY <2>1, <2>3, <3>1, <3>4 DEF ListsInv, V!TypeOK
    <3>7. s8' = [running |-> s8'.running, pending |-> s8'.pending, recent |-> s8'.recent]
      BY <3>2
    <3> QED BY <2>1, <2>3, <3>1, <3>5, <3>6, <3>7 DEF ListsInv
  <2> QED BY <1>5, <2>2, <2>3 DEF V!Squeue
<1>6. CASE V!Names
  <2>1. /\ UNCHANGED <<s1, s2, s3, s4, s5, s6, s8, s9, s10, s11, s12, s13, s14>>
        /\ s7 = "names" /\ s7' = "sacct"
    BY <1>6 DEF V!Names, V!After
  <2> QED BY <2>1, ListsStay DEF ListsInv, V!TypeOK
<1>7. CASE V!Sacct
  <2>1. /\ UNCHANGED <<s1, s2, s3, s4, s5, s6, s9, s10, s11, s12, s14>>
        /\ s7 = "sacct" /\ s7' \in {"partitions", "draw"}
    BY <1>7 DEF V!Sacct, V!After
  <2>2. PICK up \in BOOLEAN :
          /\ s8' = [s8 EXCEPT !.recent = {j \in s2 : up /\ V!is_finished(j)}]
          /\ s13' = s13 \cup {j \in QueueJobs : s1[j] \in V!Ended /\ (~up \/ j \notin s2 \/ ~V!is_finished(j))}
    BY <1>7 DEF V!Sacct
  <2> DEFINE known == {j \in s2 : up /\ V!is_finished(j)}
  <2>3. s8' = [running |-> s8.running, pending |-> s8.pending, recent |-> known]
    BY <2>2 DEF ListsInv
  <2>4. known \subseteq QueueJobs /\ s8.running \subseteq QueueJobs /\ s8.pending \subseteq QueueJobs
    BY DEF ListsInv, V!TypeOK
  <2>5. \A list \in DOMAIN s8' : s8'[list] \subseteq QueueJobs
    <3> HIDE DEF known
    <3> QED BY <2>3, <2>4
  <2>6. s12 \subseteq s8.running \cup s8.pending \cup known \cup s13'
    <3>1. SUFFICES ASSUME NEW j \in s12 PROVE j \in s8.running \cup s8.pending \cup known \cup s13'
      OBVIOUS
    <3>2. j \in s8.running \cup s8.pending \cup s13 \/ (j \in QueueJobs /\ s1[j] \in V!Ended)
      BY <2>1 DEF ListsInv
    <3> QED BY <2>2, <3>2
  <2>7. V!TypeOK'
    BY <2>1, <2>5 DEF ListsInv, V!TypeOK
  <2>8. /\ s8' = [running |-> s8'.running, pending |-> s8'.pending, recent |-> s8'.recent]
        /\ V!Shown' = s8.running \cup s8.pending \cup known
    BY <2>3 DEF V!Shown
  <2> HIDE DEF known
  <2>9. \A j \in s12' : j \in QueueJobs /\ s1'[j] # "none"
    BY <2>1 DEF ListsInv
  <2> QED BY <2>1, <2>6, <2>7, <2>8, <2>9 DEF ListsInv
<1>8. CASE V!Partitions
  <2>1. /\ UNCHANGED <<s1, s2, s3, s4, s5, s8, s9, s10, s11, s12, s13, s14>> /\ s7 = "partitions"
        /\ (s7' = "ended" /\ s6' = FALSE) \/ (s7' = "draw" /\ UNCHANGED s6)
    BY <1>8 DEF V!Partitions, V!Leave, V!After
  <2>2. V!TypeOK'
    BY <2>1 DEF ListsInv, V!TypeOK
  <2> QED BY <2>1, <2>2, ListsStay DEF ListsInv
<1>9. CASE V!Draw
  <2>1. /\ UNCHANGED <<s1, s2, s3, s4, s5, s6, s8, s11, s12, s13, s14>>
        /\ s7 = "draw" /\ s7' = "waiting" /\ s9' = s3 /\ s10' = s3 + WatchEvery
    BY <1>9 DEF V!Draw
  <2>2. s3 \in Nat
    BY DEF ListsInv, V!TypeOK
  <2>3. V!TypeOK'
    BY <2>1 DEF ListsInv, V!TypeOK
  <2>4. s9' \in Int /\ s10' = s9' + WatchEvery /\ s3' <= s10'
    BY <2>1, <2>2
  <2> QED BY <2>1, <2>3, <2>4, ListsStay DEF ListsInv
<1>10. CASE V!WaitEnds
  <2>1. /\ UNCHANGED <<s1, s2, s3, s4, s5, s6, s9, s10, s11, s14>> /\ s7 = "waiting" /\ V!Redraw
    BY <1>10 DEF V!WaitEnds
  <2>2. V!TypeOK'
    BY <2>1, GathersAnew DEF ListsInv, V!TypeOK
  <2> QED BY <2>1, <2>2, GathersAnew DEF ListsInv
<1>11. CASE V!ReadKey
  <2>1. /\ UNCHANGED <<s1, s2, s3, s4, s5, s14>> /\ s7 = "waiting" /\ s11 # <<>> /\ s11' = Tail(s11)
    BY <1>11 DEF V!ReadKey, V!Rest
  <2>2. s11 \in Seq(Keys)
    BY DEF ListsInv
  <2>3. /\ s11' \in Seq(Keys) /\ Len(s11') = Len(s11) - 1 /\ Len(s11) \in Nat \ {0} /\ Head(s11) = s11[1]
        /\ DOMAIN s11 = 1..Len(s11) /\ DOMAIN s11' = 1..Len(s11')
        /\ \A i \in 1..Len(s11') : s11'[i] = s11[i + 1]
    BY <2>1, <2>2, HeadTailProperties, LenProperties, EmptySeq
  <2>4. ASSUME Head(s11) # "q", s14 = TRUE PROVE \E i \in DOMAIN s11' : s11'[i] = "q"
    <3>1. PICK i \in DOMAIN s11 : s11[i] = "q"
      BY <2>1, <2>4 DEF ListsInv
    <3>2. i # 1
      BY <3>1, <2>3, <2>4
    <3>3. i - 1 \in DOMAIN s11' /\ s11'[i - 1] = s11[i]
      BY <3>1, <3>2, <2>3
    <3> QED BY <3>1, <3>3
  <2>5. Len(s11') <= KeyBound
    BY <2>3 DEF ListsInv, V!TypeOK
  <2>6. CASE Head(s11) = "q" /\ V!Leave /\ UNCHANGED <<s8, s9, s10, s12, s13>>
    <3>1. s7' = "ended" /\ s6' = FALSE
      BY <2>6 DEF V!Leave
    <3>2. V!TypeOK'
      BY <2>1, <2>5, <2>6, <3>1 DEF ListsInv, V!TypeOK
    <3> QED BY <2>1, <2>3, <2>6, <3>1, <3>2, ListsStay DEF ListsInv
  <2>7. CASE Head(s11) = "r" /\ V!Redraw /\ UNCHANGED <<s6, s9, s10>>
    <3>1. V!TypeOK'
      BY <2>1, <2>5, <2>7, GathersAnew DEF ListsInv, V!TypeOK
    <3> QED BY <2>1, <2>3, <2>4, <2>7, <3>1, GathersAnew DEF ListsInv
  <2>8. CASE Head(s11) = "x" /\ V!Ignore
    <3>1. UNCHANGED <<s6, s7, s8, s9, s10, s12, s13>>
      BY <2>8 DEF V!Ignore
    <3>2. V!TypeOK'
      BY <2>1, <2>5, <3>1 DEF ListsInv, V!TypeOK
    <3> QED BY <2>1, <2>3, <2>4, <2>8, <3>1, <3>2, ListsStay DEF ListsInv
  <2> QED BY <1>11, <2>6, <2>7, <2>8 DEF V!ReadKey
<1> QED BY <1>0, <1>1, <1>2, <1>3, <1>4, <1>5, <1>6, <1>7, <1>8, <1>9, <1>10, <1>11 DEF V!Next, Keys

LEMMA LargerOf ==
  ASSUME NEW n \in Int, NEW m \in Int
  PROVE  V!Max({n, m}) = IF n < m THEN m ELSE n
BY Greatest DEF V!Max, O!Max

\* The lines of a frame, in any pane that is as wide as they are.
LEMMA RowsOfAFrame ==
  ASSUME NEW lines, NEW n \in Nat, NEW cols, DOMAIN lines = 1..n, \A i \in 1..n : lines[i] <= cols
  PROVE  V!Cardinality(V!OnScreen(lines, cols)) \in 0..n
<1> DEFINE f == [i \in 1..n |-> <<i, 1>>]
           cells == V!OnScreen(lines, cols)
<1>1. \A i \in 1..n : V!RowsOf(lines[i], cols) = 1
  BY DEF V!RowsOf
<1>2. cells = UNION {{i} \X (1..1) : i \in 1..n}
  BY <1>1 DEF V!OnScreen
<1>3. cells = {<<i, 1>> : i \in 1..n}
  BY <1>2
<1>4. f \in Surjection(1..n, cells)
  BY <1>3 DEF Surjection
<1>5. IsFiniteSet(1..n) /\ Cardinality(1..n) = n
  BY FS_Interval
<1>6. Cardinality(cells) \in 0..n
  BY <1>4, <1>5, FS_Surjection, FS_CardinalityType
<1> QED BY <1>6 DEF V!Cardinality, Cardinality

\* Of any lists: the lines that are drawn and those that are counted.
LEMMA FrameFitsPane ==
  ASSUME NEW body \in Seq(Nat), NEW cols, NEW height \in Nat, height >= 2,
         NEW frame, frame = V!watch_frame(body, cols, height)
  PROVE  /\ DOMAIN frame.lines = 1..Len(frame.lines) /\ Len(frame.lines) \in Nat
         /\ Len(frame.lines) <= height
         /\ height > 3 => frame.body + frame.hidden = Len(body)
<1> DEFINE n == height - 3
           room == IF n < 0 THEN 0 ELSE n
           lines == Len(body)
           none == [body |-> lines, hidden |-> 0, note |-> 0]
           cut == IF lines > room THEN V!Clip(lines, room) ELSE none
           top == <<V!Title(cols), V!Widths(V!watch_legend(cols))>>
           notes == [i \in 1..cut.note |-> V!NoteWidth]
<1>1. n \in Int /\ 0 \in Int /\ lines \in Nat
  OBVIOUS
<1>2. V!Max({n, 0}) = room
  <2> HIDE DEF n
  <2> QED BY <1>1, LargerOf
<1>3. room \in Nat /\ (room = 0 <=> height <= 3) /\ (room # 0 => height = room + 3)
  OBVIOUS
<1> DEFINE made == IF room = 0 THEN [lines |-> top, body |-> 0, hidden |-> 0]
                   ELSE [lines |-> top \o <<0>> \o SubSeq(body, 1, cut.body) \o notes,
                         body |-> cut.body, hidden |-> cut.hidden]
<1>f. V!watch_frame(body, cols, height) = made
  BY <1>2 DEF V!watch_frame
<1>4. frame = made
  <2> HIDE DEF made
  <2> QED BY <1>f
<1>5. room # 0 => /\ cut.body \in 0..lines /\ cut.note \in 0..1 /\ cut.hidden \in Nat
                  /\ cut.body + cut.hidden = lines /\ cut.body + cut.note <= room
  BY <1>1, <1>3 DEF V!Clip
<1> HIDE DEF room, cut, lines, top
<1>6. CASE room = 0
  <2>1. frame.lines = top /\ frame.body = 0 /\ frame.hidden = 0
    BY <1>4, <1>6
  <2>2. Len(top) = 2 /\ DOMAIN top = 1..2
    BY DEF top
  <2> QED BY <1>3, <1>6, <2>1, <2>2
<1>7. CASE room # 0
  <2> DEFINE some == SubSeq(body, 1, cut.body)
  <2>1. some \in Seq(Nat) /\ Len(some) = cut.body
    BY <1>5, <1>7 DEF lines
  <2>2. notes \in Seq({V!NoteWidth}) /\ Len(notes) = cut.note
    BY <1>5, <1>7
  <2> HIDE DEF some, notes
  <2> DEFINE drawn == top \o <<0>> \o some \o notes
  <2>3. DOMAIN drawn = 1..(3 + cut.body + cut.note) /\ Len(drawn) = 3 + cut.body + cut.note
    <3>1. Len(top \o <<0>>) = 3 /\ top \o <<0>> \in Seq({top[1], top[2], 0})
      BY DEF top
    <3> QED BY <2>1, <2>2, <3>1, <1>5, <1>7
  <2>4. frame.lines = drawn /\ frame.body = cut.body /\ frame.hidden = cut.hidden
    <3>1. frame = [lines |-> drawn, body |-> cut.body, hidden |-> cut.hidden]
      BY <1>4, <1>7 DEF some, notes
    <3> HIDE DEF drawn
    <3> QED BY <3>1
  <2> HIDE DEF drawn
  <2> QED BY <1>3, <1>5, <1>7, <2>3, <2>4 DEF lines
<1> QED BY <1>6, <1>7

LEMMA FrameAlwaysFits == V!FrameFits
<1> SUFFICES ASSUME NEW body \in V!Bodies, NEW cols \in {22, 80, 100}, NEW height \in {2, 3, 4, 12, 20}
             PROVE  LET frame == V!watch_frame(body, cols, height)
                    IN  /\ Len(frame.lines) <= height
                        /\ (\A i \in DOMAIN frame.lines : frame.lines[i] <= cols) =>
                             V!Cardinality(V!OnScreen(frame.lines, cols)) <= height
                        /\ height > 3 => frame.body + frame.hidden = Len(body)
  BY DEF V!FrameFits
<1> DEFINE frame == V!watch_frame(body, cols, height)
<1>1. body \in Seq(Nat)
  <2>1. PICK n \in {0, 1, 9, 10, 16}, wide \in {0, 1, 16} : body = [i \in 1..n |-> IF i <= wide THEN 100 ELSE 24]
    BY DEF V!Bodies
  <2>2. body \in [1..n -> Nat] /\ n \in Nat
    BY <2>1
  <2> QED BY <2>2
<1>2. /\ DOMAIN frame.lines = 1..Len(frame.lines) /\ Len(frame.lines) \in Nat
      /\ Len(frame.lines) <= height
      /\ height > 3 => frame.body + frame.hidden = Len(body)
  BY <1>1, FrameFitsPane
<1> HIDE DEF frame
<1>3. ASSUME \A i \in DOMAIN frame.lines : frame.lines[i] <= cols
      PROVE  V!Cardinality(V!OnScreen(frame.lines, cols)) <= height
  <2>1. V!Cardinality(V!OnScreen(frame.lines, cols)) \in 0..Len(frame.lines)
    BY <1>2, <1>3, RowsOfAFrame
  <2> QED BY <1>2, <2>1
<1> QED BY <1>2, <1>3 DEF frame

\* Of any use and any request.
LEMMA HintSuffices ==
  ASSUME NEW used \in Nat, NEW req \in Nat, NEW hint \in V!mem_hint(req, used)
  PROVE  2 * hint >= 3 * used /\ (req >= 4100 => hint <= req)
<1> DEFINE more == (used * 3 + 1) \div 2
           headroom == IF more < 1 THEN 1 ELSE more
<1>1. used * 2 < req /\ hint = V!suggest_mem(used)
  BY DEF V!mem_hint
<1>2. more \in Int /\ 1 \in Int /\ 2 * more >= 3 * used /\ 2 * more <= 3 * used + 1
  OBVIOUS
<1>3. V!div_ceil(used * 3, 2) = more
  BY DEF V!div_ceil
<1> HIDE DEF more
<1>4. V!Max({more, 1}) = headroom
  BY <1>2, LargerOf
<1>5. headroom \in Nat /\ 2 * headroom >= 3 * used /\ (headroom = 1 \/ 2 * headroom <= 3 * used + 1)
  BY <1>2
<1>6. hint = IF headroom < 1024 THEN ((headroom + 255) \div 256) * 256 ELSE ((headroom + 1023) \div 1024) * 1024
  BY <1>1, <1>3, <1>4, <1>5 DEF V!suggest_mem, V!div_ceil
<1> HIDE DEF headroom
<1>7. CASE headroom < 1024
  <2>1. /\ ((headroom + 255) \div 256) * 256 >= headroom
        /\ ((headroom + 255) \div 256) * 256 <= 1024
    BY <1>5, <1>7
  <2> QED BY <1>5, <1>6, <1>7, <2>1
<1>8. CASE headroom >= 1024
  <2>1. /\ ((headroom + 1023) \div 1024) * 1024 >= headroom
        /\ ((headroom + 1023) \div 1024) * 1024 <= headroom + 1023
    BY <1>5, <1>8
  <2> QED BY <1>1, <1>5, <1>6, <1>8, <2>1
<1> QED BY <1>5, <1>7, <1>8

LEMMA HintAlwaysSuffices == V!HintIsEnough
BY HintSuffices DEF V!HintIsEnough

----------------------------------------------------------------------------
(* What is measured and what is shown.                                     *)

LEMMA FigureSteps ==
  ASSUME [StoryNext]_storyVars
  PROVE  /\ story' = story
         /\ story = "metrics" => M!Next \/ UNCHANGED slots
         /\ story = "cgroup" => N!Next \/ UNCHANGED slots
         /\ story = "monitor" => O!Next \/ UNCHANGED slots
         /\ story = "queue view" => V!Next \/ UNCHANGED slots
BY DEF StoryNext, storyVars, Tells

FigureInv ==
  /\ story = "metrics" => SampleInv
  /\ story = "cgroup" => CgroupInv

\* For any intervals of sampling and of retry, and any processes and steps:
\* gpu_idle is told once, of a GPU that was held and idle that long; GPUs are
\* listed soon after their driver is back; the host's CPU% is of the last
\* interval; a process that stayed is collected, and one that never was the
\* job's is not; the memory said to be used was; and the cgroup is found.
THEOREM FiguresAreReal == StorySpec => []FiguresAreTrue
<1>1. StoryInit => FigureInv
  <2> SUFFICES ASSUME StoryInit PROVE FigureInv
    OBVIOUS
  <2>1. /\ story = "metrics" => M!Init
        /\ story = "cgroup" => N!Init
    BY DEF StoryInit
  <2> QED BY <2>1, SampleBegins, CgroupBegins DEF FigureInv
<1>2. FigureInv /\ [StoryNext]_storyVars => FigureInv'
  <2> SUFFICES ASSUME FigureInv, [StoryNext]_storyVars PROVE FigureInv'
    OBVIOUS
  <2> QED BY FigureSteps, SampleStep, CgroupStep DEF FigureInv
<1>3. FigureInv => FiguresAreTrue
  <2> SUFFICES ASSUME FigureInv PROVE FiguresAreTrue
    OBVIOUS
  <2>1. SampleInv => M!TypeOK /\ M!IdleIsIdle /\ M!GpusComeBack /\ M!HostWindowIsKnown
    <3> SUFFICES ASSUME SampleInv PROVE M!IdleIsIdle
      BY DEF SampleInv
    <3>1. s18 \in {0, 1} /\ (s10 => s17 # None /\ s17 >= GpuIdleAfter)
      BY DEF SampleInv
    <3> QED BY <3>1 DEF M!IdleIsIdle
  <2>2. CgroupInv => N!TypeOK /\ N!StayersAreFound /\ N!UsedIsNoMore /\ N!FoundWhereItIs
    <3> SUFFICES ASSUME CgroupInv PROVE N!StayersAreFound
      BY DEF CgroupInv
    <3>1. s7 = {} => \A p \in s9 : p \in s8
      BY NotAStep DEF CgroupInv
    <3> QED BY <3>1 DEF CgroupInv, N!TypeOK, N!StayersAreFound
  <2> QED BY <2>1, <2>2 DEF FigureInv, FiguresAreTrue
<1> QED BY <1>1, <1>2, <1>3, PTL DEF StorySpec

ViewInv ==
  /\ story = "monitor" => ScreenInv
  /\ story = "queue view" => ListsInv

\* For any heights of the screen, any snapshots, keys, jobs and intervals: the
\* monitor shows what it knows, as old as it is, and says why when its source is
\* silent; a job that was there when the queue was asked is in its lists; the
\* lists are gathered anew in time; the keys that leave do, and the terminal is
\* given back; frames fit, and hints would have been enough.
THEOREM ScreensAreReal == StorySpec => []ScreensAreTrue
<1>1. StoryInit => ViewInv
  <2> SUFFICES ASSUME StoryInit PROVE ViewInv
    OBVIOUS
  <2>1. /\ story = "monitor" => O!Init
        /\ story = "queue view" => V!Init
    BY DEF StoryInit
  <2> QED BY <2>1, ScreenBegins, ListsBegin DEF ViewInv
<1>2. ViewInv /\ [StoryNext]_storyVars => ViewInv'
  <2> SUFFICES ASSUME ViewInv, [StoryNext]_storyVars PROVE ViewInv'
    OBVIOUS
  <2> QED BY FigureSteps, ScreenStep, ListsStep DEF ViewInv
<1>3. ViewInv => ScreensAreTrue
  <2> SUFFICES ASSUME ViewInv PROVE ScreensAreTrue
    OBVIOUS
  <2>1. ListsInv => V!TypeOK
    BY DEF ListsInv
  <2> QED BY <2>1, ScreenIsRight, LoadLights, ListsAreRight, FrameAlwaysFits, HintAlwaysSuffices
          DEF ViewInv, ScreensAreTrue
<1> QED BY <1>1, <1>2, <1>3, PTL DEF StorySpec
=============================================================================
