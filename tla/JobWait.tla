------------------------------ MODULE JobWait ------------------------------
(***************************************************************************)
(* `wait_for_jobs` (crates/sint/src/commands/jobwait.rs) against a Slurm   *)
(* whose squeue forgets jobs after they ended and sometimes fails, whose   *)
(* accounting lags behind or does not know a job, and which requeues jobs. *)
(***************************************************************************)
EXTENDS Naturals

CONSTANTS
  Jobs,
  Named,       \* those that have the name that may be asked for
  None,
  Timeout, PollEvery

VARIABLES
  queue,       \* job -> its state in squeue, or None where it is not listed
  acct,        \* job -> its state in accounting, or None
  at,          \* the next call of wait_for_jobs
  ids, pending, asked, left, timedOut,
  report,      \* the answer: job and state, once for each time it is reported
  ended        \* history: jobs that were seen ended at some time, or not listed

vars == <<queue, acct, at, ids, pending, asked, left, timedOut, report, ended>>
slurm == <<queue, acct, ended>>

Live == {"PENDING", "RUNNING"}
Terminal == {"COMPLETED", "NODE_FAIL"}
States == Live \cup Terminal
is_terminal(s) == s \in Terminal

TypeOK ==
  /\ queue \in [Jobs -> States \cup {None}] /\ acct \in [Jobs -> States \cup {None}]
  /\ at \in {"idle", "names", "named", "poll", "sleep", "sacct", "missing", "done", "error"}
  /\ ids \subseteq Jobs /\ pending \subseteq ids /\ asked \subseteq ids /\ ended \subseteq Jobs
  /\ left \in 0..Timeout /\ timedOut \in BOOLEAN
  /\ report \subseteq [job : Jobs, state : States \cup {"UNKNOWN"}, code : BOOLEAN]

Init ==
  /\ queue \in [Jobs -> {"RUNNING", "COMPLETED", None}]
  /\ acct \in [Jobs -> {None, "RUNNING"}]
  /\ \A j \in Jobs : queue[j] = "COMPLETED" => acct[j] = "RUNNING"
  /\ at = "idle" /\ ids = {} /\ pending = {} /\ asked = {} /\ left = Timeout
  /\ timedOut = FALSE /\ report = {}
  /\ ended = {j \in Jobs : queue[j] \notin Live}

----------------------------------------------------------------------------
(* wait_for_jobs, cut at each call to Slurm. A squeue that answers gives   *)
(* `queue`; it may fail instead.                                           *)

Begin ==
  /\ at = "idle"
  /\ \E given \in SUBSET Jobs, byName \in BOOLEAN :
       /\ ids' = given
       /\ at' = IF byName THEN "names" ELSE IF given = {} THEN "error" ELSE "poll"
       /\ pending' = IF byName THEN {} ELSE given
  /\ asked' = {} /\ UNCHANGED <<slurm, left, timedOut, report>>

\* my_job_names, which is empty when squeue fails.
Names ==
  /\ at = "names"
  /\ \E found \in {{j \in Named : queue[j] # None}, {}} :
       /\ ids' = ids \cup found /\ pending' = ids'
       /\ at' = IF ids' = {} THEN "named" ELSE "poll"
  /\ UNCHANGED <<slurm, asked, left, timedOut, report>>

Outcome(j, s) == [job |-> j, state |-> s, code |-> s \in Terminal]

\* outcomes_named, over the last day: an error where there is none.
OutcomesNamed ==
  /\ at = "named"
  /\ LET found == {Outcome(j, acct[j]) : j \in {i \in Named : acct[i] # None}}
     IN  \/ found # {} /\ report' = found /\ at' = "done"
         \/ at' = "error" /\ UNCHANGED report
  /\ UNCHANGED <<slurm, ids, pending, asked, left, timedOut>>

\* (mutant) A failed squeue is the end of the job.
StillLiveIfListed(j, answer) == answer.ok /\ answer.state \in Live
still_live(j, answer) == ~answer.ok \/ (answer.state # None /\ ~is_terminal(answer.state))

\* One still_live of pending.retain: squeue of one job.
Ask(j) ==
  /\ at = "poll" /\ j \in pending \ asked /\ asked' = asked \cup {j}
  /\ \E ok \in BOOLEAN :
       pending' = IF still_live(j, [ok |-> ok, state |-> queue[j]])
                  THEN pending ELSE pending \ {j}
  /\ UNCHANGED <<slurm, at, ids, left, timedOut, report>>

\* The round is over.
Round ==
  /\ at = "poll" /\ pending \subseteq asked
  /\ timedOut' = (left = 0 /\ pending # {})
  /\ at' = IF pending = {} \/ left = 0 THEN "sacct" ELSE "sleep"
  /\ UNCHANGED <<slurm, ids, pending, asked, left, report>>

\* (mutant) The time is counted from the last round.
SleepFromNow ==
  /\ at = "sleep" /\ at' = "poll" /\ asked' = {} /\ left' = Timeout
  /\ UNCHANGED <<slurm, ids, pending, timedOut, report>>

Sleep ==
  /\ at = "sleep" /\ at' = "poll" /\ asked' = {}
  /\ left' = left - (IF PollEvery < left THEN PollEvery ELSE left)
  /\ UNCHANGED <<slurm, ids, pending, timedOut, report>>

\* outcomes_of: one sacct for all.
Sacct ==
  /\ at = "sacct"
  /\ \/ /\ report' = {Outcome(j, acct[j]) : j \in {i \in ids : acct[i] # None}}
        /\ at' = "missing"
     \/ at' = "error" /\ UNCHANGED report
  /\ UNCHANGED <<slurm, ids, pending, asked, left, timedOut>>

Reported == {r.job : r \in report}

\* (mutant) Only what accounting knows is reported.
MissingDropped ==
  /\ at = "missing" /\ at' = "done"
  /\ UNCHANGED <<slurm, ids, pending, asked, left, timedOut, report>>

\* ... and squeue for each job that accounting does not know.
Missing ==
  /\ at = "missing"
  /\ IF ids \subseteq Reported THEN at' = "done" /\ UNCHANGED report
     ELSE /\ UNCHANGED at
          /\ \E j \in ids \ Reported :
               \E s \in {IF queue[j] = None THEN "UNKNOWN" ELSE queue[j], "UNKNOWN"} :
                 report' = report \cup {[job |-> j, state |-> s, code |-> FALSE]}
  /\ UNCHANGED <<slurm, ids, pending, asked, left, timedOut>>

----------------------------------------------------------------------------
(* Slurm. A job is listed for a while after it ended; one that lost its    *)
(* node may be requeued.                                                   *)

JobMoves(j) ==
  /\ \/ queue[j] = "PENDING" /\ queue' = [queue EXCEPT ![j] = "RUNNING"]
     \/ queue[j] = "RUNNING" /\ \E s \in Terminal : queue' = [queue EXCEPT ![j] = s]
     \/ queue[j] = "NODE_FAIL" /\ queue' = [queue EXCEPT ![j] = "PENDING"]
     \/ queue[j] \in Terminal /\ queue' = [queue EXCEPT ![j] = None]
  /\ ended' = IF queue'[j] \in Live THEN ended ELSE ended \cup {j}
  /\ UNCHANGED <<acct, at, ids, pending, asked, left, timedOut, report>>

AccountingLearns(j) ==
  /\ queue[j] # None /\ acct' = [acct EXCEPT ![j] = queue[j]]
  /\ UNCHANGED <<queue, ended, at, ids, pending, asked, left, timedOut, report>>

\* Time also passes in the calls of a round.
CallsTakeTime == at = "poll" /\ left > 0 /\ left' = left - 1
                 /\ UNCHANGED <<slurm, at, ids, pending, asked, timedOut, report>>

Waiter == \/ Begin \/ Names \/ OutcomesNamed \/ (\E j \in Jobs : Ask(j))
          \/ Round \/ Sleep \/ Sacct \/ Missing
\* What becomes of the jobs after the answer is of no interest.
Cluster(j) == at \notin {"done", "error"} /\ (JobMoves(j) \/ AccountingLearns(j))
Next == Waiter \/ CallsTakeTime \/ \E j \in Jobs : Cluster(j)
\* A squeue or sacct is waited for, and neither has a timeout.
InCall ==
  \/ at \in {"names", "named", "sacct"}
  \/ at = "poll" /\ ~(pending \subseteq asked)
  \/ at = "missing" /\ ~(ids \subseteq Reported)

\* The process goes on where it waits for no child.
Goes == ~InCall /\ Waiter
Fairness == WF_vars(Goes)
Spec == Init /\ [][Next]_vars /\ Fairness

----------------------------------------------------------------------------
\* jobwait.rs:86-89: an answer that did not time out is given when each job
\* waited for has ended or left the queue, whatever squeue did meanwhile. (A
\* job that is requeued afterwards is not asked about again.)
FinishedHaveEnded == at = "done" /\ ~timedOut => ids \subseteq ended

\* An answer says how each job stands, once, also where accounting has never
\* heard of one or squeue has forgotten it (jobwait.rs:145-146).
EachIsReportedOnce ==
  at = "done" => /\ ids \subseteq Reported
                 /\ \A r, q \in report : r.job = q.job => r = q

\* The wait ends, however jobs, squeue and accounting behave (deadline,
\* jobwait.rs:123), if no call hangs for ever: the deadline is looked at between
\* calls only.
Waiting == at = "poll"
Answered == at \in {"done", "error"}
WaitEnds == []<>~InCall => (Waiting ~> Answered)
=============================================================================
