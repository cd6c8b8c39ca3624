---------------------------- MODULE LaunchProofs ----------------------------
(***************************************************************************)
(* What holds of Launch for any number of launchers, names and interrupts. *)
(* The guard against duplicate names rests on RacedInv: two launchers of a *)
(* name that are both committed to a session, past their check and not yet *)
(* failed, were in each other's way when one of them looked.               *)
(***************************************************************************)
EXTENDS Launch, TLAPS

\* A step of the system, with the moves of a job put together.
Cases(l) ==
  \/ EnsureCheck(l) \/ Describe(l) \/ Check(l) \/ Submit(l) \/ Arm(l)
  \/ SetComment(l) \/ LoopTop(l) \/ Poll(l) \/ BatchHost(l) \/ Probe(l)
  \/ Disarm(l) \/ CancelByUser(l) \/ Abort(l) \/ Interrupt(l) \/ InterruptUnarmed(l) \/ ComesUp(l)
  \/ \E from \in States \ {"none", "gone"}, to \in States \ {"none"} : JobMoves(l, from, to)

\* Every step of Next is one of those.
LEMMA NextCases ==
  ASSUME Next, job \in [Launchers -> States]
  PROVE  \E l \in Launchers : Cases(l)
<1>1. PICK l \in Launchers : Step(l) \/ User(l) \/ Cluster(l)
  BY DEF Next
<1>2. CASE Step(l) \/ User(l) \/ ComesUp(l)
  BY <1>2 DEF Step, User, Cases
<1>3. CASE Allocate(l) \/ NodeBooted(l) \/ Suspend(l) \/ Resume(l)
  BY <1>3 DEF Allocate, NodeBooted, Suspend, Resume, States, Cases
<1>4. CASE JobEnds(l)
  BY <1>4 DEF JobEnds, Live, States, Cases
<1> QED BY <1>1, <1>2, <1>3, <1>4 DEF Cluster

----------------------------------------------------------------------------
\* TypeOK in three parts: the functions, the ends, and the interrupted calls.
Functions ==
  /\ pc \in [Launchers -> Places] /\ exit \in [Launchers -> Exits]
  /\ flag \in [Launchers -> BOOLEAN] /\ hit \in [Launchers -> BOOLEAN]
  /\ found \in [Launchers -> SUBSET Launchers]
  /\ job \in [Launchers -> States]
  /\ comment \in [Launchers -> BOOLEAN] /\ up \in [Launchers -> BOOLEAN]
  /\ presses \in [Launchers -> 0..MaxPresses] /\ late \in [Launchers -> BOOLEAN]
  /\ unseen \in [Launchers -> SUBSET Launchers]

Linked ==
  \A l \in Launchers : /\ pc[l] = "done" <=> exit[l] # "none"
                       /\ pc[l] \in Armed \cup {"submitted"} => job[l] # "none"
                       /\ hit[l] => pc[l] \in Calls /\ flag[l]

\* The two parts are TypeOK.
LEMMA TypeParts == TypeOK <=> Functions /\ Linked
BY DEF TypeOK, Functions, Linked

\* Each step keeps the functions in their types.
LEMMA KeepsFunctions ==
  ASSUME TypeOK, NEW l \in Launchers, Cases(l)
  PROVE  Functions'
<1> USE DEF TypeOK, Functions, slurm, history, Goto, Finish, Places, Exits, Armed, Calls, Looked
<1>1. CASE EnsureCheck(l)
  <2>1. found' \in [Launchers -> SUBSET Launchers]
    BY <1>1 DEF EnsureCheck, SameName
  <2>2. pc' \in [Launchers -> Places] /\ exit' \in [Launchers -> Exits] /\ hit' \in [Launchers -> BOOLEAN]
    <3>1. CASE CallFails(l)
      BY <3>1 DEF CallFails
    <3>2. CASE Goto(l, "check") \/ Goto(l, "describe")
      BY <3>2
    <3> QED BY <1>1, <3>1, <3>2 DEF EnsureCheck
  <2> QED BY <1>1, <2>1, <2>2 DEF EnsureCheck
<1>2. CASE Describe(l)
  BY <1>2 DEF Describe, CallFails
<1>3. CASE Check(l)
  <2>1. unseen' \in [Launchers -> SUBSET Launchers]
    BY <1>3 DEF Check
  <2>2. CASE CallFails(l)
    BY <1>3, <2>1, <2>2 DEF Check, CallFails
  <2>3. CASE Finish(l, "refused") \/ Goto(l, "submit")
    BY <1>3, <2>1, <2>3 DEF Check
  <2> QED BY <1>3, <2>2, <2>3 DEF Check
<1>4. CASE Submit(l)
  BY <1>4 DEF Submit, States
<1>5. CASE Arm(l)
  BY <1>5 DEF Arm
<1>6. CASE SetComment(l)
  <2>1. comment' \in [Launchers -> BOOLEAN]
    BY <1>6 DEF SetComment
  <2>2. pc' \in [Launchers -> Places] /\ exit' \in [Launchers -> Exits] /\ hit' \in [Launchers -> BOOLEAN]
    BY <1>6 DEF SetComment, CallFails
  <2> QED BY <1>6, <2>1, <2>2 DEF SetComment
<1>7. CASE LoopTop(l)
  BY <1>7 DEF LoopTop
<1>8. CASE Poll(l)
  BY <1>8 DEF Poll, CallFails
<1>9. CASE BatchHost(l)
  BY <1>9 DEF BatchHost, CallFails
<1>10. CASE Probe(l) \/ Disarm(l)
  <2>1. CASE Probe(l)
    <3>1. Goto(l, "cancel") \/ Goto(l, "connected") \/ Goto(l, "gaveup")
      BY <2>1 DEF Probe, WaitUntilReady
    <3> QED BY <2>1, <3>1 DEF Probe
  <2>2. CASE Disarm(l)
    BY <2>2 DEF Disarm
  <2> QED BY <1>10, <2>1, <2>2
<1>11. CASE CancelByUser(l) \/ Abort(l)
  BY <1>11 DEF CancelByUser, Abort, Scancel, States
<1>12. CASE Interrupt(l)
  BY <1>12, LaunchAssumption DEF Interrupt
<1>13. CASE InterruptUnarmed(l)
  BY <1>13, LaunchAssumption DEF InterruptUnarmed, States
<1>14. CASE ComesUp(l)
  BY <1>14 DEF ComesUp
<1>15. CASE \E from \in States \ {"none", "gone"}, to \in States \ {"none"} : JobMoves(l, from, to)
  BY <1>15 DEF JobMoves
<1> QED BY <1>1, <1>2, <1>3, <1>4, <1>5, <1>6, <1>7, <1>8, <1>9, <1>10, <1>11, <1>12, <1>13,
           <1>14, <1>15 DEF Cases

\* Each step keeps a launcher's place in step with its end, its job and its
\* interrupted call.
LEMMA KeepsLinked ==
  ASSUME TypeOK, NEW l \in Launchers, Cases(l)
  PROVE  Linked'
<1> USE DEF TypeOK, Linked, slurm, history, Goto, Finish, Armed, Calls, Looked
<1>1. CASE EnsureCheck(l)
  <2>1. UNCHANGED <<flag, job>> /\ (CallFails(l) \/ Goto(l, "check") \/ Goto(l, "describe"))
    BY <1>1 DEF EnsureCheck
  <2> QED BY <1>1, <2>1 DEF EnsureCheck, CallFails
<1>2. CASE Describe(l)
  BY <1>2 DEF Describe, CallFails
<1>3. CASE Check(l)
  <2>1. CASE Finish(l, "error") \/ Finish(l, "refused")
    BY <1>3, <2>1 DEF Check
  <2>2. CASE Goto(l, "submit")
    BY <1>3, <2>2 DEF Check
  <2> QED BY <1>3, <2>1, <2>2 DEF Check, CallFails
<1>4. CASE Submit(l)
  BY <1>4 DEF Submit
<1>5. CASE Arm(l)
  BY <1>5 DEF Arm
<1>6. CASE SetComment(l)
  BY <1>6 DEF SetComment, CallFails
<1>7. CASE LoopTop(l)
  BY <1>7 DEF LoopTop
<1>8. CASE Poll(l)
  BY <1>8 DEF Poll, CallFails
<1>9. CASE BatchHost(l)
  BY <1>9 DEF BatchHost, CallFails
<1>10. CASE Probe(l) \/ Disarm(l)
  BY <1>10 DEF Probe, WaitUntilReady, Disarm
<1>11. CASE CancelByUser(l) \/ Abort(l)
  BY <1>11 DEF CancelByUser, Abort, Scancel
<1>12. CASE Interrupt(l)
  BY <1>12 DEF Interrupt
<1>13. CASE InterruptUnarmed(l)
  BY <1>13 DEF InterruptUnarmed
<1>14. CASE ComesUp(l)
  BY <1>14 DEF ComesUp
<1>15. CASE \E from \in States \ {"none", "gone"}, to \in States \ {"none"} : JobMoves(l, from, to)
  BY <1>15 DEF JobMoves
<1> QED BY <1>1, <1>2, <1>3, <1>4, <1>5, <1>6, <1>7, <1>8, <1>9, <1>10, <1>11, <1>12, <1>13,
           <1>14, <1>15 DEF Cases

\* Every variable keeps its type, and a launcher's place agrees with its end,
\* its job and its interrupted call.
THEOREM TypeCorrect == Spec => []TypeOK
<1>1. Init => TypeOK
  BY LaunchAssumption DEF Init, TypeOK, Places, Exits, States, Armed, Calls, Looked
<1>2. TypeOK /\ Next => TypeOK'
  <2> SUFFICES ASSUME TypeOK, Next PROVE TypeOK'
    OBVIOUS
  <2>1. PICK l \in Launchers : Cases(l)
    BY NextCases DEF TypeOK
  <2>2. Functions' /\ Linked'
    BY <2>1, KeepsFunctions, KeepsLinked
  <2> QED BY <2>2 DEF TypeOK, Functions, Linked
<1>3. TypeOK /\ UNCHANGED vars => TypeOK'
  BY DEF TypeOK, vars, slurm, history
<1> QED BY <1>1, <1>2, <1>3, PTL DEF Spec
----------------------------------------------------------------------------
\* Past its last look at the flag, and once it ended ready or still starting, a
\* launch has no caught interrupt left over but one that came after that look.
ReadyInv ==
  \A l \in Launchers :
    /\ exit[l] \in {"ready", "notup"} => pc[l] = "done"
    /\ pc[l] \in Looked \/ exit[l] \in {"ready", "notup"} => (flag[l] => late[l])

\* A caught interrupt never ends in a session reported as ready, unless it
\* came in the moment between the last look at the flag and the disarm.
THEOREM CaughtIsHeeded == Spec => []CaughtIsNotIgnored
<1>1. Init => ReadyInv
  BY DEF Init, ReadyInv
<1>2. ASSUME TypeOK, ReadyInv, [Next]_vars PROVE ReadyInv'
  <2> USE <1>2 DEF TypeOK, ReadyInv, slurm, history, Goto, Finish
  <2>1. CASE UNCHANGED vars
    BY <2>1 DEF vars
  <2>2. CASE Next
    <3>1. PICK l \in Launchers : Cases(l)
      BY <2>2, NextCases
    <3> DEFINE Others == /\ UNCHANGED <<flag, late>>
                         /\ pc'[l] \notin Looked /\ exit'[l] \notin {"ready", "notup"}
                         /\ \A x \in Launchers \ {l} : pc'[x] = pc[x] /\ exit'[x] = exit[x]
    <3>2. CASE EnsureCheck(l) \/ Describe(l) \/ Check(l) \/ Submit(l) \/ SetComment(l) \/ LoopTop(l)
      <4>1. exit[l] = "none"
        BY <3>2 DEF EnsureCheck, Describe, Check, Submit, SetComment, LoopTop
      <4>2. CASE EnsureCheck(l)
        <5>1. UNCHANGED <<flag, late>> /\ (CallFails(l) \/ Goto(l, "check") \/ Goto(l, "describe"))
          BY <4>2 DEF EnsureCheck
        <5>2. Others
          BY <4>1, <5>1 DEF CallFails, Looked
        <5> QED BY <5>2
      <4>3. CASE Describe(l)
        <5>1. Others
          BY <4>1, <4>3 DEF Describe, CallFails, Looked
        <5> QED BY <5>1
      <4>4. CASE Check(l)
        <5>1. UNCHANGED <<flag, late>> /\ (Finish(l, "error") \/ Finish(l, "refused") \/ Goto(l, "submit"))
          BY <4>4 DEF Check, CallFails
        <5>2. Others
          BY <4>1, <5>1 DEF Looked
        <5> QED BY <5>2
      <4>5. CASE Submit(l) \/ SetComment(l) \/ LoopTop(l)
        <5>1. Others
          BY <4>1, <4>5 DEF Submit, SetComment, LoopTop, CallFails, Looked
        <5> QED BY <5>1
      <4> QED BY <3>2, <4>2, <4>3, <4>4, <4>5
    <3>3. CASE Poll(l) \/ BatchHost(l) \/ CancelByUser(l) \/ Abort(l) \/ InterruptUnarmed(l)
      <4>1. exit[l] = "none"
        BY <3>3 DEF Poll, BatchHost, CancelByUser, Abort, InterruptUnarmed
      <4>2. CASE Poll(l) \/ BatchHost(l)
        <5>1. Others
          BY <4>1, <4>2 DEF Poll, BatchHost, CallFails, Looked
        <5> QED BY <5>1
      <4>3. CASE CancelByUser(l) \/ Abort(l) \/ InterruptUnarmed(l)
        <5>1. Others
          BY <4>1, <4>3 DEF CancelByUser, Abort, InterruptUnarmed, Looked
        <5> QED BY <5>1
      <4> QED BY <3>3, <4>2, <4>3
    <3>4. CASE Arm(l)
      BY <3>4 DEF Arm, Looked
    <3>5. CASE Probe(l) \/ Disarm(l)
      BY <3>5 DEF Probe, WaitUntilReady, Disarm, Looked
    <3>6. CASE Interrupt(l)
      BY <3>6 DEF Interrupt, Armed, Calls, Looked
    <3>7. CASE ComesUp(l) \/ \E from \in States \ {"none", "gone"}, to \in States \ {"none"} :
                               JobMoves(l, from, to)
      BY <3>7 DEF ComesUp, JobMoves
    <3> QED BY <3>1, <3>2, <3>3, <3>4, <3>5, <3>6, <3>7 DEF Cases
  <2> QED BY <2>1, <2>2
<1>3. ReadyInv => CaughtIsNotIgnored
  BY DEF ReadyInv, CaughtIsNotIgnored
<1> QED BY <1>1, <1>2, <1>3, TypeCorrect, PTL DEF Spec

----------------------------------------------------------------------------
\* A launch that gave its job up is over, and so is the job.
GivenUpInv ==
  \A l \in Launchers : exit[l] \in {"cancelled", "aborted"} => pc[l] = "done" /\ job[l] = "gone"

\* With a scancel that works, exit 130 and "Aborting" leave no job behind.
THEOREM GivenUp ==
  ASSUME Flaky = FALSE
  PROVE  Spec => []GivenUpIsGone
<1>1. Init => GivenUpInv
  BY DEF Init, GivenUpInv
<1>2. ASSUME TypeOK, GivenUpInv, [Next]_vars PROVE GivenUpInv'
  <2> USE <1>2 DEF TypeOK, GivenUpInv, slurm, history, Goto, Finish
  <2>1. CASE UNCHANGED vars
    BY <2>1 DEF vars
  <2>2. CASE Next
    <3>1. PICK l \in Launchers : Cases(l)
      BY <2>2, NextCases
    <3>2. CASE EnsureCheck(l) \/ Describe(l) \/ Check(l) \/ Arm(l) \/ SetComment(l) \/ LoopTop(l)
      <4>1. exit[l] = "none" /\ UNCHANGED job
        BY <3>2 DEF EnsureCheck, Describe, Check, Arm, SetComment, LoopTop
      <4>2. /\ exit'[l] \notin {"cancelled", "aborted"}
            /\ \A x \in Launchers \ {l} : pc'[x] = pc[x] /\ exit'[x] = exit[x]
        <5>1. CASE EnsureCheck(l)
          <6>1. CallFails(l) \/ Goto(l, "check") \/ Goto(l, "describe")
            BY <5>1 DEF EnsureCheck
          <6> QED BY <4>1, <6>1 DEF CallFails
        <5>2. CASE Check(l)
          <6>1. Finish(l, "error") \/ Finish(l, "refused") \/ Goto(l, "submit")
            BY <5>2 DEF Check, CallFails
          <6> QED BY <4>1, <6>1
        <5>3. CASE Describe(l)
          BY <4>1, <5>3 DEF Describe, CallFails
        <5>4. CASE Arm(l) \/ SetComment(l) \/ LoopTop(l)
          BY <4>1, <5>4 DEF Arm, SetComment, LoopTop, CallFails
        <5> QED BY <3>2, <5>1, <5>2, <5>3, <5>4
      <4> QED BY <4>1, <4>2
    <3>3. CASE Poll(l) \/ BatchHost(l) \/ Probe(l) \/ Disarm(l) \/ Interrupt(l)
      <4>1. exit[l] = "none" /\ UNCHANGED job
        <5>1. pc[l] # "done" /\ UNCHANGED job
          BY <3>3 DEF Poll, BatchHost, Probe, WaitUntilReady, Disarm, Interrupt, Armed, Calls, Looked
        <5> QED BY <5>1
      <4>2. /\ exit'[l] \notin {"cancelled", "aborted"}
            /\ \A x \in Launchers \ {l} : pc'[x] = pc[x] /\ exit'[x] = exit[x]
        <5>1. CASE Poll(l) \/ BatchHost(l)
          BY <4>1, <5>1 DEF Poll, BatchHost, CallFails
        <5>2. CASE Probe(l) \/ Disarm(l) \/ Interrupt(l)
          BY <4>1, <5>2 DEF Probe, WaitUntilReady, Disarm, Interrupt, Looked
        <5> QED BY <3>3, <5>1, <5>2
      <4> QED BY <4>1, <4>2
    <3>4. CASE Submit(l)
      BY <3>4 DEF Submit
    <3>5. CASE InterruptUnarmed(l)
      BY <3>5 DEF InterruptUnarmed
    <3>6. CASE CancelByUser(l) \/ Abort(l)
      BY <3>6 DEF CancelByUser, Abort, Scancel
    <3>7. CASE ComesUp(l)
      BY <3>7 DEF ComesUp
    <3>8. CASE \E from \in States \ {"none", "gone"}, to \in States \ {"none"} : JobMoves(l, from, to)
      BY <3>8 DEF JobMoves
    <3> QED BY <3>1, <3>2, <3>3, <3>4, <3>5, <3>6, <3>7, <3>8 DEF Cases
  <2> QED BY <2>1, <2>2
<1>3. GivenUpInv => GivenUpIsGone
  BY DEF GivenUpInv, GivenUpIsGone, Live
<1> QED BY <1>1, <1>2, <1>3, TypeCorrect, PTL DEF Spec
----------------------------------------------------------------------------
\* A launcher that has passed its check and has, or may still get, a live
\* session that carries its Comment.
Committed(l) == pc[l] \in Making \/ (Live(l) /\ comment[l])

Early == {"ensure", "describe", "check", "submit"}

Raced(a, b) == a \in unseen[b] \/ b \in unseen[a]
SameNamed(a, b) == a # b /\ NameOf[a] # NoName /\ NameOf[a] = NameOf[b]

\* Nothing is submitted early, and committed launchers of a name raced.
RacedInv ==
  /\ \A l \in Launchers : pc[l] \in Early => job[l] = "none"
  /\ \A a, b \in Launchers : (SameNamed(a, b) /\ Committed(a) /\ Committed(b)) => Raced(a, b)

\* What is committed after a step other than a check was so before it.
LEMMA OnlyCheckCommits ==
  ASSUME TypeOK, RacedInv, NEW l \in Launchers, Cases(l), ~Check(l)
  PROVE  /\ UNCHANGED unseen
         /\ \A x \in Launchers : Committed(x)' => Committed(x)
         /\ \A x \in Launchers : pc'[x] \in Early => job'[x] = "none"
<1> USE DEF TypeOK, RacedInv, Committed, Live, Making, Early, slurm, history, Goto, Finish
<1>1. CASE EnsureCheck(l)
  <2>1. /\ UNCHANGED <<job, comment, unseen>> /\ pc[l] = "ensure"
        /\ \E place \in {"done", "check", "describe"} : pc' = [pc EXCEPT ![l] = place]
    BY <1>1 DEF EnsureCheck, CallFails
  <2> QED BY <2>1
<1>2. CASE Describe(l)
  BY <1>2 DEF Describe, CallFails
<1>3. CASE Submit(l)
  BY <1>3 DEF Submit
<1>4. CASE Arm(l)
  BY <1>4 DEF Arm
<1>5. CASE SetComment(l)
  <2>1. /\ UNCHANGED <<job, unseen>> /\ pc[l] = "comment"
        /\ \E place \in {"done", "wait"} : pc' = [pc EXCEPT ![l] = place]
        /\ \A x \in Launchers \ {l} : comment'[x] = comment[x]
    BY <1>5 DEF SetComment, CallFails
  <2> QED BY <2>1
<1>6. CASE LoopTop(l)
  BY <1>6 DEF LoopTop
<1>7. CASE Poll(l)
  BY <1>7 DEF Poll, CallFails
<1>8. CASE BatchHost(l)
  BY <1>8 DEF BatchHost, CallFails
<1>9. CASE Probe(l) \/ Disarm(l)
  BY <1>9 DEF Probe, WaitUntilReady, Disarm, Looked
<1>10. CASE CancelByUser(l) \/ Abort(l)
  <2>1. /\ UNCHANGED <<comment, unseen>> /\ pc' = [pc EXCEPT ![l] = "done"]
        /\ job' = job \/ job' = [job EXCEPT ![l] = "gone"]
    BY <1>10 DEF CancelByUser, Abort, Scancel
  <2> QED BY <2>1
<1>11. CASE Interrupt(l)
  BY <1>11 DEF Interrupt
<1>12. CASE InterruptUnarmed(l)
  <2>1. /\ UNCHANGED <<comment, unseen>> /\ pc' = [pc EXCEPT ![l] = "done"]
        /\ \/ job' = job
           \/ pc[l] = "submit" /\ job' = [job EXCEPT ![l] = "PENDING"]
           \/ job' = [job EXCEPT ![l] = "gone"]
    BY <1>12 DEF InterruptUnarmed
  <2> QED BY <2>1
<1>13. CASE ComesUp(l)
  BY <1>13 DEF ComesUp
<1>14. CASE \E from \in States \ {"none", "gone"}, to \in States \ {"none"} : JobMoves(l, from, to)
  BY <1>14 DEF JobMoves
<1> QED BY <1>1, <1>2, <1>3, <1>4, <1>5, <1>6, <1>7, <1>8, <1>9, <1>10, <1>11, <1>12, <1>13,
           <1>14 DEF Cases

\* A check commits its launcher only when every committed one of the name
\* was out of its sight.
LEMMA CheckKeepsRaced ==
  ASSUME TypeOK, RacedInv, NEW l \in Launchers, Check(l)
  PROVE  RacedInv'
<1> USE DEF TypeOK
<1> DEFINE Blind == {o \in Launchers : pc[o] \in Making \/ job[o] = "SUSPENDED"}
<1>1. /\ UNCHANGED <<job, comment>> /\ pc[l] = "check"
      /\ \/ pc' = [pc EXCEPT ![l] = "done"]
         \/ pc' = [pc EXCEPT ![l] = "submit"] /\ SameName(l) = {}
      /\ unseen' = [unseen EXCEPT ![l] = Blind]
  BY DEF Check, CallFails, Finish, Goto, slurm
<1>2. job[l] = "none"
  BY <1>1 DEF RacedInv, Early
<1>3. \A x \in Launchers : pc'[x] \in Early => job'[x] = "none"
  BY <1>1, <1>2 DEF RacedInv, Early
<1>4. \A x \in Launchers \ {l} : (Committed(x)' <=> Committed(x)) /\ unseen'[x] = unseen[x]
  BY <1>1 DEF Committed, Live
<1>5. ASSUME NEW x \in Launchers, SameNamed(x, l), Committed(x), Committed(l)'
      PROVE  x \in unseen'[l]
  <2>1. SameName(l) = {}
    BY <1>1, <1>2, <1>5 DEF Committed, Live, Making
  <2>2. CASE pc[x] \in Making
    BY <1>1, <2>2
  <2>3. CASE Live(x) /\ comment[x]
    <3>1. x \notin SameName(l)
      BY <2>1
    <3>2. job[x] = "SUSPENDED"
      BY <1>5, <2>3, <3>1 DEF SameName, SameNamed, Live, States
    <3> QED BY <1>1, <3>2
  <2> QED BY <1>5, <2>2, <2>3 DEF Committed
<1>6. ASSUME NEW a \in Launchers, NEW b \in Launchers, SameNamed(a, b), Committed(a)', Committed(b)'
      PROVE  Raced(a, b)'
  <2>1. CASE a # l /\ b # l
    BY <1>4, <1>6, <2>1 DEF RacedInv, Raced
  <2>2. CASE b = l
    BY <1>4, <1>5, <1>6, <2>2 DEF Raced, SameNamed
  <2>3. CASE a = l
    BY <1>4, <1>5, <1>6, <2>3 DEF Raced, SameNamed
  <2> QED BY <2>1, <2>2, <2>3
<1> QED BY <1>3, <1>6 DEF RacedInv, SameNamed

\* Two live sessions of one name need a race of their launches, however many
\* launches there are and whatever else happens.
THEOREM DuplicatesRaced == Spec => []DuplicatesNeedARace
<1>1. Init => RacedInv
  <2> SUFFICES ASSUME Init PROVE RacedInv
    OBVIOUS
  <2>1. \A l \in Launchers : job[l] = "none" /\ (pc[l] \in Making => NameOf[l] = NoName)
    BY LaunchAssumption DEF Init, Making
  <2> QED BY <2>1 DEF RacedInv, Committed, Live, SameNamed, Early
<1>2. ASSUME TypeOK, RacedInv, [Next]_vars PROVE RacedInv'
  <2>1. CASE UNCHANGED vars
    BY <1>2, <2>1 DEF vars, slurm, history, RacedInv, Committed, Live, Raced
  <2>2. CASE Next
    <3>1. PICK l \in Launchers : Cases(l)
      BY <1>2, <2>2, NextCases DEF TypeOK
    <3>2. CASE Check(l)
      BY <1>2, <3>2, CheckKeepsRaced
    <3>3. CASE ~Check(l)
      <4>1. /\ UNCHANGED unseen
            /\ \A x \in Launchers : Committed(x)' => Committed(x)
            /\ \A x \in Launchers : pc'[x] \in Early => job'[x] = "none"
        BY <1>2, <3>1, <3>3, OnlyCheckCommits
      <4> QED BY <1>2, <4>1 DEF RacedInv, Raced, SameNamed
    <3> QED BY <3>2, <3>3
  <2> QED BY <1>2, <2>1, <2>2
<1>3. RacedInv => DuplicatesNeedARace
  BY DEF RacedInv, DuplicatesNeedARace, Committed, SameNamed, Raced
<1> QED BY <1>1, <1>2, <1>3, TypeCorrect, PTL DEF Spec
=============================================================================
