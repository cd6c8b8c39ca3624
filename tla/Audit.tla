-------------------------------- MODULE Audit --------------------------------
(***************************************************************************)
(* `sinteractive worktree audit --resubmit` (crates/sint/src/commands/     *)
(* worktree.rs): every audit, a batch job or one the user starts, queues   *)
(* the next one with --begin in the future unless it finds another audit   *)
(* pending or running. `--every` is longer than an audit's time limit of   *)
(* 30 minutes, so an audit is over when the one it queued begins.          *)
(***************************************************************************)
EXTENDS Naturals, FiniteSets

CONSTANTS
  Jobs,       \* job ids; an id of a job that is over is used again
  Users,      \* shells the user starts an audit in, once each
  Flaky       \* whether squeue and sbatch may fail and audits may be killed

Audits == Jobs \cup Users

VARIABLES
  at,         \* where an audit is
  heir,       \* the job it queued, itself without one
  met,        \* history: a queued audit found another one and left it at that
  raced,      \* history: one looked while another was about to submit
  failed      \* history: squeue or sbatch failed, or an audit was killed

vars == <<at, heir, met, raced, failed>>

Places == {"none", "pending", "report", "look", "submit", "ending"}

\* What squeue lists by the name worktree-audit: jobs, and no shells.
Queued == {j \in Jobs : at[j] # "none"}

TypeOK ==
  /\ at \in [Audits -> Places] /\ heir \in [Audits -> Audits]
  /\ \A u \in Users : at[u] # "pending"
  /\ met \in BOOLEAN /\ raced \in BOOLEAN /\ failed \in BOOLEAN

Init ==
  /\ at = [a \in Audits |-> IF a \in Users THEN "report" ELSE "none"]
  /\ heir = [a \in Audits |-> a]
  /\ met = FALSE /\ raced = FALSE /\ failed = FALSE

Move(a, place) == at' = [at EXCEPT ![a] = place]

\* The audits whose turn it is to keep the chain going.
Chains == {a \in Audits : at[a] \in {"pending", "report", "look", "submit"}} \ Users

----------------------------------------------------------------------------
Begin(j) ==
  /\ at[j] = "pending"
  /\ \A a \in Audits : heir[a] = j => a = j \/ at[a] = "none"
  /\ Move(j, "report")
  /\ UNCHANGED <<heir, met, raced, failed>>

\* write_report, whose failure ends the audit before it queues another.
Report(a) ==
  /\ at[a] = "report"
  /\ \/ Move(a, "look") /\ UNCHANGED failed
     \/ Flaky /\ Move(a, "ending") /\ failed' = TRUE
  /\ UNCHANGED <<heir, met, raced>>

\* (mutant) The audit finds itself in the queue.
LookAtAll(a) ==
  /\ at[a] = "look"
  /\ LET other == Queued # {} IN
       /\ Move(a, IF other THEN "ending" ELSE "submit")
       /\ met' = (met \/ (a \in Jobs /\ Queued \ {a} # {}))
  /\ raced' = (raced \/ \E b \in Audits \ {a} : at[b] = "submit")
  /\ UNCHANGED <<heir, failed>>

\* (mutant) Only pending audits are asked for.
LookAtPending(a) ==
  /\ at[a] = "look"
  /\ LET other == \E j \in Queued \ {a} : at[j] = "pending" IN
       /\ Move(a, IF other THEN "ending" ELSE "submit")
       /\ met' = (met \/ (other /\ a \in Jobs))
  /\ raced' = (raced \/ \E b \in Audits \ {a} : at[b] = "submit")
  /\ UNCHANGED <<heir, failed>>

\* my_job_names: an audit other than this one, or nothing when squeue fails.
Look(a) ==
  /\ at[a] = "look"
  /\ \/ LET other == Queued \ {a} # {} IN
          /\ Move(a, IF other THEN "ending" ELSE "submit")
          /\ met' = (met \/ (other /\ a \in Jobs))
          /\ UNCHANGED failed
     \/ Flaky /\ Move(a, "submit") /\ failed' = TRUE /\ UNCHANGED met
  /\ raced' = (raced \/ \E b \in Audits \ {a} : at[b] = "submit")
  /\ UNCHANGED heir

\* sbatch --begin=now+every; a failure is a warning.
Submit(a) ==
  /\ at[a] = "submit"
  /\ \/ \E j \in Jobs : /\ at[j] = "none"
                        /\ at' = [at EXCEPT ![a] = "ending", ![j] = "pending"]
                        /\ heir' = [heir EXCEPT ![a] = j, ![j] = j]
                        /\ UNCHANGED failed
     \/ Flaky /\ Move(a, "ending") /\ failed' = TRUE /\ UNCHANGED heir
  /\ UNCHANGED <<met, raced>>

Exit(a) ==
  /\ at[a] = "ending" /\ Move(a, "none")
  /\ UNCHANGED <<heir, met, raced, failed>>

\* scancel, a time limit or a failing node.
Kill(j) ==
  /\ Flaky /\ at[j] # "none" /\ Move(j, "none") /\ failed' = TRUE
  /\ UNCHANGED <<heir, met, raced>>

Step(a) == Report(a) \/ Look(a) \/ Submit(a) \/ Exit(a)
Next == (\E a \in Audits : Step(a)) \/ (\E j \in Jobs : Begin(j) \/ Kill(j))
Spec == Init /\ [][Next]_vars

----------------------------------------------------------------------------
\* "One chain at a time" (cli.rs:597) is broken by nothing but two audits
\* that look before either has submitted, or by a squeue that fails.
OneChainUnlessRaced == ~raced /\ ~failed => Cardinality(Chains) <= 1

\* A chain that has begun ends for nothing but a failure, a kill, or two
\* audits that each leave it to the other.
ChainGoesOnUnlessMet ==
  ~met /\ ~failed => (Chains # {} \/ \E u \in Users : at[u] # "none"
                        \/ \E j \in Jobs : at[j] = "ending" /\ heir[j] # j)
=============================================================================
