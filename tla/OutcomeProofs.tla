--------------------------- MODULE OutcomeProofs ---------------------------
(***************************************************************************)
(* What is reported of jobs and commands that were waited for is how they  *)
(* ended (OutcomesAreTrue), and news reach those who wait for them         *)
(* (NewsArrives), for any jobs, exit codes, timeouts and orders of the     *)
(* calls. Each machine has an inductive invariant of its own.              *)
(***************************************************************************)
EXTENDS MCQueueMonitor, TLAPS, FiniteSetTheorems

LEMMA StorySteps ==
  ASSUME [StoryNext]_storyVars
  PROVE  /\ story' = story
         /\ story = "job wait" => J!Next \/ UNCHANGED slots
         /\ story = "exec" => E!Next \/ UNCHANGED slots
         /\ story = "reports" => R!Next \/ UNCHANGED slots
         /\ story = "wait event" => W!Next \/ UNCHANGED slots
         /\ story = "mcp" => Y!Next \/ UNCHANGED slots
BY DEF StoryNext, storyVars, Tells

----------------------------------------------------------------------------
(* wait_for_jobs.                                                          *)

\* Each job waited for is still pending or was once seen ended, and the wait
\* goes on to accounting with none pending, unless its time is over. No job is
\* in the report twice, and a report that is done has them all.
WaitInv ==
  /\ J!TypeOK
  /\ \A j \in WaitedFor : s1[j] \notin J!Live => j \in s10
  /\ s3 \in {"poll", "sleep", "sacct", "missing"} => s4 \ s5 \subseteq s10
  /\ s3 \in {"sacct", "missing"} /\ ~s8 => s5 = {}
  /\ s3 = "named" => s4 = {}
  /\ s3 = "done" => s4 \subseteq J!Reported /\ (~s8 => s4 \subseteq s10)
  /\ \A r, q \in s9 : r.job = q.job => r = q
  /\ s3 \in {"idle", "names", "named", "poll", "sleep"} => s9 = {}

Reports == [job : WaitedFor, state : J!States \cup {"UNKNOWN"}, code : BOOLEAN]

LEMMA OutcomeFacts ==
  ASSUME NEW those \in SUBSET WaitedFor, s2 \in [WaitedFor -> J!States \cup {None}],
         s9' = {J!Outcome(j, s2[j]) : j \in {i \in those : s2[i] # None}}
  PROVE  s9' \subseteq Reports /\ \A r, q \in s9' : r.job = q.job => r = q
<1>1. \A j \in WaitedFor : s2[j] \in J!States =>
         J!Outcome(j, s2[j]) \in Reports /\ J!Outcome(j, s2[j]).job = j
  <2> SUFFICES ASSUME NEW j \in WaitedFor, s2[j] \in J!States
               PROVE  J!Outcome(j, s2[j]) \in Reports /\ J!Outcome(j, s2[j]).job = j
    OBVIOUS
  <2>1. (s2[j] \in J!Terminal) \in BOOLEAN
    OBVIOUS
  <2> QED BY <2>1 DEF J!Outcome, Reports
<1> QED BY <1>1

LEMMA WaitBegins == J!Init => WaitInv
<1> SUFFICES ASSUME J!Init PROVE WaitInv
  OBVIOUS
<1>1. /\ s1 \in [WaitedFor -> J!States \cup {None}] /\ s2 \in [WaitedFor -> J!States \cup {None}]
  BY DEF J!Init, J!States, J!Live, J!Terminal
<1>2. WaitFor \in 0..WaitFor
  BY StoryAssumption
<1>3. J!TypeOK
  BY <1>1, <1>2 DEF J!Init, J!TypeOK
<1>4. \A j \in WaitedFor : s1[j] \notin J!Live => j \in s10
  BY DEF J!Init
<1> QED BY <1>3, <1>4 DEF J!Init, WaitInv

LEMMA WaitStep == WaitInv /\ (J!Next \/ UNCHANGED slots) => WaitInv'
<1> SUFFICES ASSUME WaitInv, J!Next \/ UNCHANGED slots PROVE WaitInv'
  OBVIOUS
<1> USE DEF J!States, J!Live, J!Terminal, J!slurm
<1>0. CASE UNCHANGED slots
  BY <1>0 DEF slots, WaitInv, J!TypeOK, J!Reported
<1>1. CASE J!Begin
  BY <1>1 DEF J!Begin, WaitInv, J!TypeOK
<1>2. CASE J!Names
  <2>1. /\ s3 = "names" /\ s4' \subseteq WaitedFor /\ s4 \subseteq s4' /\ s5' = s4'
        /\ s3' = IF s4' = {} THEN "named" ELSE "poll"
        /\ UNCHANGED <<s1, s2, s6, s7, s8, s9, s10>>
    BY <1>2, StoryAssumption DEF J!Names, WaitInv, J!TypeOK
  <2> QED BY <2>1 DEF WaitInv, J!TypeOK
<1>3. CASE J!OutcomesNamed
  <2>1. CASE s3' = "error" /\ UNCHANGED s9
    BY <1>3, <2>1 DEF J!OutcomesNamed, WaitInv, J!TypeOK
  <2>2. CASE s3' = "done" /\ s9' = {J!Outcome(j, s2[j]) : j \in {i \in Named : s2[i] # None}}
    <3>1. s9' \subseteq Reports /\ \A r, q \in s9' : r.job = q.job => r = q
      BY <2>2, StoryAssumption, OutcomeFacts DEF WaitInv, J!TypeOK
    <3> QED BY <1>3, <2>2, <3>1 DEF J!OutcomesNamed, WaitInv, J!TypeOK, Reports
  <2> QED BY <1>3, <2>1, <2>2 DEF J!OutcomesNamed
\* What squeue answers of a job that is dropped is that it ended or is gone.
<1>4. ASSUME NEW j \in WaitedFor, J!Ask(j) PROVE WaitInv'
  <2>1. s5' = s5 \/ (s5' = s5 \ {j} /\ s1[j] \notin J!Live)
    <3>1. PICK ok \in BOOLEAN : s5' = IF J!still_live(j, [ok |-> ok, state |-> s1[j]])
                                    THEN s5 ELSE s5 \ {j}
      BY <1>4 DEF J!Ask
    <3>2. ~J!still_live(j, [ok |-> ok, state |-> s1[j]]) => s1[j] \notin J!Live
      BY StoryAssumption DEF J!still_live, J!is_terminal, WaitInv, J!TypeOK
    <3> QED BY <3>1, <3>2
  <2>2. s3 = "poll" /\ s6' = s6 \cup {j} /\ j \in s5 /\ UNCHANGED <<s1, s2, s3, s4, s7, s8, s9, s10>>
    BY <1>4 DEF J!Ask
  <2>3. s4 \ s5' \subseteq s10
    BY <2>1, <2>2 DEF WaitInv, J!TypeOK
  <2> QED BY <2>1, <2>2, <2>3 DEF WaitInv, J!TypeOK
<1>5. CASE J!Round
  BY <1>5 DEF J!Round, WaitInv, J!TypeOK
<1>6. CASE J!Sleep
  <2>1. s7' \in 0..WaitFor
    <3>1. s7 \in 0..WaitFor
      BY DEF WaitInv, J!TypeOK
    <3> QED BY ONLY <1>6, <3>1, StoryAssumption DEF J!Sleep
  <2>2. s3 = "sleep" /\ s3' = "poll" /\ s6' = {} /\ UNCHANGED <<s1, s2, s4, s5, s8, s9, s10>>
    BY <1>6 DEF J!Sleep
  <2> QED BY <2>1, <2>2 DEF WaitInv, J!TypeOK
<1>7. CASE J!Sacct
  <2>1. CASE s3' = "error" /\ UNCHANGED s9
    BY <1>7, <2>1 DEF J!Sacct, WaitInv, J!TypeOK
  <2>2. CASE s3' = "missing" /\ s9' = {J!Outcome(j, s2[j]) : j \in {i \in s4 : s2[i] # None}}
    <3>1. s9' \subseteq Reports /\ \A r, q \in s9' : r.job = q.job => r = q
      BY <2>2, OutcomeFacts DEF WaitInv, J!TypeOK
    <3> QED BY <1>7, <2>2, <3>1 DEF J!Sacct, WaitInv, J!TypeOK, Reports
  <2> QED BY <1>7, <2>1, <2>2 DEF J!Sacct
<1>8. CASE J!Missing
  <2>1. CASE s4 \subseteq J!Reported
    BY <1>8, <2>1 DEF J!Missing, WaitInv, J!TypeOK, J!Reported
  <2>2. CASE ~(s4 \subseteq J!Reported)
    <3>1. PICK j \in s4 \ J!Reported, s \in J!States \cup {"UNKNOWN"} :
            s9' = s9 \cup {[job |-> j, state |-> s, code |-> FALSE]}
      BY <1>8, <2>2 DEF J!Missing, WaitInv, J!TypeOK
    <3>4. [job |-> j, state |-> s, code |-> FALSE] \in Reports
      BY DEF WaitInv, J!TypeOK, Reports
    <3>2. s3 = "missing" /\ UNCHANGED <<s1, s2, s3, s4, s5, s6, s7, s8, s10>>
      BY <1>8, <2>2 DEF J!Missing
    <3>3. \A r, q \in s9' : r.job = q.job => r = q
      <4>1. \A r \in s9 : r.job # j
        BY DEF J!Reported
      <4>2. [job |-> j, state |-> s, code |-> FALSE].job = j
        OBVIOUS
      <4> QED BY <3>1, <4>1, <4>2 DEF WaitInv
    <3>5. s9' \subseteq Reports
      BY <3>1, <3>4 DEF WaitInv, J!TypeOK, Reports
    <3> QED BY <3>2, <3>3, <3>5 DEF WaitInv, J!TypeOK, Reports
  <2> QED BY <2>1, <2>2
<1>9. ASSUME NEW j \in WaitedFor, J!Cluster(j) PROVE WaitInv'
  <2>1. /\ UNCHANGED <<s3, s4, s5, s6, s7, s8, s9>> /\ s3 \notin {"done", "error"}
        /\ s1' \in [WaitedFor -> J!States \cup {None}]
        /\ s2' \in [WaitedFor -> J!States \cup {None}]
        /\ s10 \subseteq s10' /\ s10' \subseteq WaitedFor
        /\ \A i \in WaitedFor : s1'[i] \notin J!Live => i \in s10'
    BY <1>9, StoryAssumption DEF J!Cluster, J!JobMoves, J!AccountingLearns, WaitInv, J!TypeOK
  <2> QED BY <2>1 DEF WaitInv, J!TypeOK
<1>10. CASE J!CallsTakeTime
  BY <1>10, StoryAssumption DEF J!CallsTakeTime, WaitInv, J!TypeOK
<1> QED
  BY <1>0, <1>1, <1>2, <1>3, <1>4, <1>5, <1>6, <1>7, <1>8, <1>9, <1>10 DEF J!Next, J!Waiter

----------------------------------------------------------------------------
(* exec.                                                                   *)

\* While its script goes on, the file that it waits for is absent or has the
\* exit code of its own command: the files of an earlier call went before the
\* pane was opened, and the wrapper renames only what it has written. The pane
\* and its command are gone when the script cleans up, unless they are kept.
ExecInv ==
  /\ E!TypeOK /\ s9 \in Codes \cup {None, "empty"} /\ s10 \in Codes \cup {None, "old"}
  /\ s2 \in {"rm", "run"} => s4 = "none"
  /\ s2 \in {"poll", "header", "close", "clean"} => s4 # "none"
  /\ s2 = "run" => s8 = None
  /\ s4 = "none" <=> s6 = "none"
  /\ s6 = "none" => s7 = None /\ s9 = None
  /\ s6 = "command" => s7 = None
  /\ s6 \in {"write", "written", "rename", "exit"} => s7 \in Codes
  /\ s6 = "rename" => s9 \in {None, s7}
  /\ s2 \notin {"rm", "lost"} => s10 = None \/ (s10 = s7 /\ s7 \in Codes)
  /\ s2 = "close" => ~s1
  /\ s2 = "clean" /\ ~s1 => s6 = "dead"
  /\ E!CodeIsTheCommands /\ E!NothingRunsOn

LEMMA ExecBegins == E!Init => ExecInv
<1> SUFFICES ASSUME E!Init PROVE ExecInv
  OBVIOUS
<1>1. E!TypeOK
  BY StoryAssumption DEF E!Init, E!TypeOK, E!NoReply
<1> QED BY <1>1 DEF E!Init, ExecInv, E!CodeIsTheCommands, E!NothingRunsOn

LEMMA ExecStep == ExecInv /\ (E!Next \/ UNCHANGED slots) => ExecInv'
<1> SUFFICES ASSUME ExecInv, E!Next \/ UNCHANGED slots PROVE ExecInv'
  OBVIOUS
<1> USE DEF ExecInv, E!TypeOK, E!CodeIsTheCommands, E!NothingRunsOn, E!files, E!inPane, E!call,
            E!Empty
<1>0. CASE UNCHANGED slots
  BY <1>0 DEF slots
<1>1. CASE E!Rm
  BY <1>1 DEF E!Rm
<1>2. CASE E!Run
  BY <1>2 DEF E!Run
<1>3. CASE E!PollRc
  BY <1>3, StoryAssumption DEF E!PollRc
<1>4. CASE E!Header
  <2>1. /\ s2 = "header" /\ s2' = (IF s1 THEN "clean" ELSE "close")
        /\ s5' = [timedOut |-> s10 = None,
                  exitCode |-> IF s10 \in {None, "empty"} THEN None ELSE s10]
        /\ UNCHANGED <<s1, s3, s4, s6, s7, s8, s9, s10, s11>>
    BY <1>4 DEF E!Header
  <2>2. s10 = None \/ (s10 = s7 /\ s7 \in Codes)
    BY <2>1
  <2>3. (s10 = None) \in BOOLEAN
    OBVIOUS
  <2>4. /\ s5'.timedOut = (s10 = None) /\ s5'.exitCode = s10
        /\ s5' \in [timedOut : BOOLEAN, exitCode : Codes \cup {None, "old"}]
    BY <2>1, <2>2, <2>3, StoryAssumption
  <2>5. E!CodeIsTheCommands'
    BY <2>1, <2>2, <2>4, StoryAssumption
  <2> QED BY <2>1, <2>4, <2>5
<1>5. CASE E!ClosePane
  BY <1>5 DEF E!ClosePane
<1>6. CASE E!Clean
  BY <1>6 DEF E!Clean
<1>7. CASE E!Cut
  BY <1>7 DEF E!Cut
<1>8. CASE E!Command
  BY <1>8, StoryAssumption DEF E!Command
<1>9. CASE E!WriteRc
  BY <1>9 DEF E!WriteRc
<1>10. CASE E!MvRc
  BY <1>10 DEF E!MvRc
<1>11. CASE E!UserCloses
  BY <1>11 DEF E!UserCloses
<1> QED
  BY <1>0, <1>1, <1>2, <1>3, <1>4, <1>5, <1>6, <1>7, <1>8, <1>9, <1>10, <1>11 DEF E!Next

\* What is reported of a job or a command that was waited for is how it ended:
\* an answer in time waited for every job and reports each once, and an exit
\* code is the one of the call's own command, which does not outlive it.
THEOREM OutcomesAreReal == StorySpec => []OutcomesAreTrue
<1> DEFINE Inv == /\ story = "job wait" => WaitInv
                  /\ story = "exec" => ExecInv
<1>1. StoryInit => Inv
  BY WaitBegins, ExecBegins DEF StoryInit
<1>2. Inv /\ [StoryNext]_storyVars => Inv'
  BY StorySteps, WaitStep, ExecStep
<1>3. Inv => OutcomesAreTrue
  BY DEF WaitInv, ExecInv, OutcomesAreTrue, J!FinishedHaveEnded, J!EachIsReportedOnce
<1> QED BY <1>1, <1>2, <1>3, PTL DEF StorySpec

----------------------------------------------------------------------------
(* The notices file and the status messages.                               *)

\* The seconds until a plugin that answers is told, at most: a message that
\* falls into the pause counts as sent, so that a gap follows the pause.
Until == IF s9 > 0 THEN s9 + SendOk ELSE SendOk - s8

ReportsInv ==
  /\ R!TypeOK /\ R!FileSaysIt
  /\ ~s12 => (s6 = {} /\ s5 = None) \/ s6 = s5
  /\ ~s1 => s13 = 0
  /\ s2 = "sleep" => s8 < SendOk
  /\ s14 + Until <= R!Patience \/ s13 + Until <= R!Patience

LEMMA Cadences == SendOk \in Nat \ {0} /\ PipeWait \in Nat /\ MaxPause \in Nat
BY StoryAssumption

LEMMA Pauses == \A n \in Nat : R!PipeBackoff(n) \in 0..MaxPause
<1> SUFFICES ASSUME NEW n \in Nat PROVE R!PipeBackoff(n) \in 0..MaxPause
  OBVIOUS
<1> DEFINE k == IF n < 1 THEN 1 ELSE R!Lesser(n, 4)
<1>1. k = 1 \/ k = 2 \/ k = 3 \/ k = 4
  BY DEF R!Lesser
<1>2. 2^1 \in Nat /\ 2^2 \in Nat /\ 2^3 \in Nat /\ 2^4 \in Nat
  OBVIOUS
<1> HIDE DEF k
<1>3. 2^k \in Nat
  BY <1>1, <1>2
<1>4. R!PipeBackoff(n) = R!Lesser(2 * 2^k, MaxPause)
  BY DEF R!PipeBackoff, k
<1> QED BY <1>3, <1>4, Cadences DEF R!Lesser

LEMMA ReportsBegin == R!Init => ReportsInv
<1> SUFFICES ASSUME R!Init PROVE ReportsInv
  OBVIOUS
<1>1. R!TypeOK
  <2>1. /\ s8 \in 0..SendOk /\ s9 \in 0..MaxPause /\ s10 \in 0..4
        /\ s13 \in 0..(R!Patience + 1) /\ s14 \in 0..(R!Patience + 1)
    BY Cadences DEF R!Init, R!Patience
  <2> QED BY <2>1 DEF R!Init, R!TypeOK
<1>2. s13 + Until <= R!Patience
  BY Cadences DEF R!Init, R!Patience, Until
<1> QED BY <1>1, <1>2 DEF R!Init, ReportsInv, R!FileSaysIt

LEMMA ReportsStep == ReportsInv /\ (R!Next \/ UNCHANGED slots) => ReportsInv'
<1> SUFFICES ASSUME ReportsInv, R!Next \/ UNCHANGED slots PROVE ReportsInv'
  OBVIOUS
<1>0. CASE UNCHANGED slots
  BY <1>0 DEF slots, ReportsInv, R!TypeOK, R!FileSaysIt, R!Notices, R!Patience, Until
<1>1. CASE R!Look
  <2> DEFINE current == R!Notices(s3', s4')
  <2>1. /\ s2 = "look" /\ s2' = "send" /\ s3' \in BOOLEAN /\ s4' \in BOOLEAN
        /\ UNCHANGED <<s1, s7, s8, s9, s10, s11, s13, s14>>
        /\ IF s5 = current THEN UNCHANGED <<s5, s6, s12>>
           ELSE R!WriteNotices(current) /\ s5' = current
    BY <1>1 DEF R!Look, R!pipe, R!clocks
  <2>2. current \in SUBSET {"quota", "hint"} /\ current # None
    BY StoryAssumption DEF R!Notices
  <2> HIDE DEF current
  <2>3. /\ s5' = current /\ s6' \in SUBSET {"quota", "hint"} /\ s12' \in BOOLEAN
        /\ ~s12' => s6' = current
    <3>1. CASE s5 = current /\ UNCHANGED <<s5, s6, s12>>
      BY <2>2, <3>1 DEF ReportsInv, R!TypeOK
    <3>2. CASE R!WriteNotices(current) /\ s5' = current
      BY <2>2, <3>2 DEF R!WriteNotices, ReportsInv, R!TypeOK
    <3> QED BY <2>1, <3>1, <3>2
  <2>4. R!FileSaysIt' /\ (~s12' => s6' = s5')
    BY <2>3 DEF R!FileSaysIt, current
  <2>5. R!TypeOK'
    BY <2>1, <2>2, <2>3 DEF ReportsInv, R!TypeOK, R!Patience
  <2> QED BY <2>1, <2>4, <2>5 DEF ReportsInv, R!Patience, Until
<1>2. CASE R!Send
  <2>1. /\ s2 = "send" /\ s2' = "sleep" /\ UNCHANGED <<s1, s3, s4, s5, s6, s7, s12, s13>>
        /\ R!Every \in 1..SendOk
    BY <1>2, Cadences DEF R!Send, R!Every, R!clocks
  <2>2. CASE s8 < R!Every /\ UNCHANGED <<s8, s9, s10, s11, s14>>
    <3>1. R!TypeOK'
      BY <2>1, <2>2 DEF ReportsInv, R!TypeOK, R!Patience
    <3>2. s8' < SendOk /\ Until' = Until
      BY <2>1, <2>2, Cadences DEF ReportsInv, R!TypeOK, Until
    <3> QED BY <2>1, <2>2, <3>1, <3>2 DEF ReportsInv, R!FileSaysIt, R!Patience, R!Notices
  <2>3. CASE s8' = 0 /\ s9 > 0 /\ UNCHANGED <<s9, s10, s11, s14>>
    <3>1. R!TypeOK' /\ 0 < SendOk
      BY <2>1, <2>3, Cadences DEF ReportsInv, R!TypeOK, R!Patience
    <3> QED BY <2>1, <2>3, <3>1 DEF ReportsInv, R!FileSaysIt, R!Patience, R!Notices, Until
  <2>4. CASE s8' = 0 /\ s10' = 0 /\ s9' = 0 /\ s14' = 0
    <3>1. R!TypeOK' /\ 0 < SendOk /\ R!Patience \in Nat /\ SendOk <= R!Patience
      BY <2>1, <2>4, Cadences DEF ReportsInv, R!TypeOK, R!Patience
    <3> QED BY <2>1, <2>4, <3>1, Cadences
            DEF ReportsInv, R!FileSaysIt, R!Patience, R!Notices, Until
  <2>5. CASE /\ s8' = 0 /\ ~s1 /\ s10' = R!Lesser(s10 + 1, 4) /\ s9' = R!PipeBackoff(s10 + 1)
             /\ s14' = R!Lesser(s14 + PipeWait, R!Patience + 1) /\ UNCHANGED s11
    <3>1. s9' \in 0..MaxPause
      BY <2>5, Pauses DEF ReportsInv, R!TypeOK
    <3>2. R!TypeOK' /\ 0 < SendOk
      BY <2>1, <2>5, <3>1, Cadences DEF ReportsInv, R!TypeOK, R!Patience, R!Lesser
    <3>3. s13' = 0
      BY <2>1, <2>5 DEF ReportsInv
    <3>4. s13' + Until' <= R!Patience
      BY <2>5, <3>1, <3>3, Cadences DEF R!Patience, Until
    <3> QED BY <2>1, <2>5, <3>2, <3>4 DEF ReportsInv, R!FileSaysIt, R!Notices, R!Patience
  <2> QED BY <1>2, <2>1, <2>2, <2>3, <2>4, <2>5 DEF R!Send, R!pipe, R!clocks, ReportsInv, R!TypeOK
<1>3. CASE R!Sleep
  <2>1. /\ s2 = "sleep" /\ s2' = "look" /\ s8' = R!Lesser(s8 + 1, SendOk) /\ s9' = R!Ago(s9, 1)
        /\ s7' \in {"ok", "red"} /\ s13' = IF s1 THEN R!Lesser(s13 + 1, R!Patience + 1) ELSE 0
        /\ s14' = R!Lesser(s14 + 1, R!Patience + 1)
        /\ UNCHANGED <<s1, s3, s4, s5, s6, s10, s11, s12>>
    BY <1>3 DEF R!Sleep
  <2>2. R!TypeOK'
    BY <2>1, Cadences DEF ReportsInv, R!TypeOK, R!Patience, R!Lesser, R!Ago
  <2>3. s8 \in 0..SendOk /\ s8 < SendOk /\ s9 \in 0..MaxPause
    BY <2>1 DEF ReportsInv, R!TypeOK
  <2>4. PICK u \in Nat, v \in Nat : u = Until /\ v = Until' /\ v <= u - 1
    <3>1. s8' = s8 + 1 /\ s9' = IF s9 > 1 THEN s9 - 1 ELSE 0
      BY <2>1, <2>3, Cadences DEF R!Lesser, R!Ago
    <3>2. Until \in Nat /\ Until' \in Nat /\ Until' <= Until - 1
      BY <2>3, <3>1, Cadences DEF Until
    <3> QED BY <3>2
  <2>5. PICK p \in Nat : p = R!Patience
    BY Cadences DEF R!Patience
  <2>6. s14' + v <= p \/ s13' + v <= p
    <3>1. PICK a \in Nat, b \in Nat, c \in Nat, d \in Nat :
            /\ a = s13 /\ b = s14 /\ c = s13' /\ d = s14' /\ c <= a + 1 /\ d <= b + 1
      BY <2>1, <2>5 DEF ReportsInv, R!TypeOK, R!Lesser
    <3>2. b + u <= p \/ a + u <= p
      BY <2>4, <2>5, <3>1 DEF ReportsInv
    <3>3. c <= a + 1 /\ d <= b + 1 /\ v <= u - 1
      BY <2>4, <3>1
    <3>4. d + v <= p \/ c + v <= p
      BY <3>2, <3>3
    <3> QED BY <3>1, <3>4
  <2>7. R!Patience' = R!Patience
    BY DEF R!Patience
  <2> QED BY <2>1, <2>2, <2>4, <2>5, <2>6, <2>7 DEF ReportsInv, R!FileSaysIt
<1>4. CASE R!PluginChanges
  <2>1. s1' = ~s1 /\ s13' = 0 /\ UNCHANGED <<s2, s3, s4, s5, s6, s7, s8, s9, s10, s11, s12, s14>>
    BY <1>4 DEF R!PluginChanges, R!pipe
  <2>2. R!TypeOK' /\ s8 \in 0..SendOk /\ s9 \in 0..MaxPause
    BY <2>1, Cadences DEF ReportsInv, R!TypeOK, R!Patience
  <2>3. s13' + Until' <= R!Patience
    BY <2>1, <2>2, Cadences DEF Until, R!Patience
  <2> QED BY <2>1, <2>2, <2>3 DEF ReportsInv, R!FileSaysIt, R!Notices, R!Patience
<1> QED BY <1>0, <1>1, <1>2, <1>3, <1>4 DEF R!Next

LEMMA ReportsTell == ReportsInv => R!TypeOK /\ R!PluginIsTold /\ R!FileSaysIt
<1> SUFFICES ASSUME ReportsInv PROVE R!PluginIsTold
  BY DEF ReportsInv
<1>1. Until \in Nat /\ R!Patience \in Nat /\ s13 \in Nat /\ s14 \in Nat
  BY Cadences DEF ReportsInv, R!TypeOK, Until, R!Patience
<1> QED BY <1>1 DEF ReportsInv, R!PluginIsTold

----------------------------------------------------------------------------
(* The MCP server.                                                         *)

\* The blocking pool has a thread for every request under way; else a quick
\* call waits for one (mcp.rs blocking).
PoolSuffices == IsFiniteSet(Calls) /\ Cardinality(Calls) <= Pool

CallPlaces == {"idle", "sent", "resolve", "check", "act", "wait", "launch", "answered"}
Outs == {None, "error", "ok", "stale", "current", "timed_out", "event"}
CallRecords ==
  [tool : Y!Tools \cup {None}, named : BOOLEAN, blank : BOOLEAN, at : CallPlaces,
   job : 0..2, age : Nat, left : Nat, out : Outs]

\* A call that does not wait is no second old; one that waits has left what
\* is missing to the cap.
CallOK(r) ==
  /\ r \in CallRecords
  /\ r.at \in {"sent", "resolve", "check", "act"} => r.age = 0 /\ r.out = None
  /\ r.at = "wait" => r.tool \in Y!Waiting /\ r.age + r.left <= WaitMax

SessionStates == [job : 0..2, state : {"none", "PENDING", "RUNNING"}]
McpInv == s1 \in SessionStates /\ DOMAIN s3 = Calls /\ \A c \in Calls : CallOK(s3[c])

LEMMA Waits == Pool \in Nat /\ WaitMax \in Nat /\ WaitsAsked \subseteq Nat
BY StoryAssumption

\* What a request is after it was answered.
LEMMA Answered ==
  ASSUME NEW q \in CallRecords, NEW tool \in Y!Tools \cup {None}, NEW out \in Outs
  PROVE  /\ [q EXCEPT !.tool = tool, !.at = "answered", !.out = out] \in CallRecords
         /\ [q EXCEPT !.tool = tool, !.at = "answered", !.out = out].at = "answered"
BY DEF CallRecords, CallPlaces

LEMMA IdleIs == Y!Idle \in CallRecords /\ Y!Idle.age = 0 /\ Y!Idle.out = None /\ Y!Idle.at = "idle"
BY DEF Y!Idle, CallRecords, CallPlaces, Outs

LEMMA McpBegins == Y!Init => McpInv
<1> SUFFICES ASSUME Y!Init PROVE McpInv
  OBVIOUS
<1>1. Y!Idle \in CallRecords
  BY DEF Y!Idle, CallRecords, CallPlaces, Outs
<1>2. CallOK(Y!Idle)
  BY <1>1 DEF CallOK, Y!Idle
<1>3. s1 \in SessionStates
  BY DEF Y!Init, SessionStates
<1> QED BY <1>2, <1>3 DEF Y!Init, McpInv

LEMMA OneCall ==
  ASSUME McpInv, NEW c \in Calls, NEW r, CallOK(r), s3' = [s3 EXCEPT ![c] = r],
         s1' \in SessionStates
  PROVE  McpInv'
BY DEF McpInv, CallOK

LEMMA AnswerStep ==
  ASSUME McpInv, NEW c \in Calls, NEW out \in Outs, Y!Answer(c, out), s1' \in SessionStates
  PROVE  McpInv'
<1> DEFINE r == [Y!Idle EXCEPT !.tool = s3[c].tool, !.at = "answered", !.out = out]
<1>1. s3[c].tool \in Y!Tools \cup {None}
  BY DEF McpInv, CallOK, CallRecords
<1>2. r \in CallRecords /\ r.at = "answered"
  BY <1>1, IdleIs, Answered
<1>3. CallOK(r)
  BY <1>2 DEF CallOK
<1>4. s3' = [s3 EXCEPT ![c] = r]
  BY DEF Y!Answer
<1> HIDE DEF r
<1> QED BY <1>3, <1>4, OneCall

LEMMA PlaceStep ==
  ASSUME McpInv, NEW c \in Calls, s3[c].at \in {"sent", "resolve", "check", "act"},
         NEW place \in {"resolve", "check", "act"}, NEW n \in 0..2, UNCHANGED s1,
         s3' \in {[s3 EXCEPT ![c].at = place], [s3 EXCEPT ![c].at = place, ![c].job = n]}
  PROVE  McpInv'
<1> DEFINE r == [s3[c] EXCEPT !.at = place]
           q == [s3[c] EXCEPT !.at = place, !.job = n]
<1>1. s3[c] \in CallRecords /\ s3[c].age = 0 /\ s3[c].out = None
  BY DEF McpInv, CallOK
<1>2. CallOK(r) /\ CallOK(q)
  BY <1>1 DEF CallOK, CallRecords, CallPlaces
<1>3. s3' = [s3 EXCEPT ![c] = r] \/ s3' = [s3 EXCEPT ![c] = q]
  BY DEF McpInv
<1>4. s1' \in SessionStates
  BY DEF McpInv
<1> HIDE DEF r, q
<1> QED BY <1>2, <1>3, <1>4, OneCall

LEMMA MaxOfOne == \A n \in Nat : Y!Max({n}) = n
BY DEF Y!Max

LEMMA TimeoutFacts == \A wait \in Nat : Y!Timeout(wait) \in Nat /\ Y!Timeout(wait) <= WaitMax
<1> SUFFICES ASSUME NEW wait \in Nat PROVE Y!Timeout(wait) \in Nat /\ Y!Timeout(wait) <= WaitMax
  OBVIOUS
<1>1. \E x \in {wait, WaitMax} : \A y \in {wait, WaitMax} : x <= y
  BY Waits
<1>2. /\ Y!Timeout(wait) \in {wait, WaitMax}
      /\ \A y \in {wait, WaitMax} : Y!Timeout(wait) <= y
  BY <1>1 DEF Y!Timeout, Y!Min
<1> QED BY <1>2, Waits

LEMMA McpStep == PoolSuffices /\ McpInv /\ (Y!Next \/ UNCHANGED slots) => McpInv'
<1> SUFFICES ASSUME PoolSuffices, McpInv, Y!Next \/ UNCHANGED slots PROVE McpInv'
  OBVIOUS
<1>0. CASE UNCHANGED slots
  BY <1>0 DEF slots, McpInv
<1>1. ASSUME NEW c \in Calls, NEW tool \in Y!Tools, Y!Ask(c, tool) PROVE McpInv'
  <2>1. PICK named \in BOOLEAN, blank \in BOOLEAN, wait \in WaitsAsked \cup {0} :
          s3' = [s3 EXCEPT ![c] = [Y!Idle EXCEPT !.tool = tool, !.named = named, !.blank = blank,
                                                 !.left = wait, !.at = "sent"]]
    BY <1>1 DEF Y!Ask
  <2> DEFINE r == [Y!Idle EXCEPT !.tool = tool, !.named = named, !.blank = blank,
                                 !.left = wait, !.at = "sent"]
  <2>2. wait \in Nat
    BY Waits
  <2>3. r \in CallRecords /\ r.age = 0 /\ r.out = None /\ r.at = "sent"
    BY <2>2, IdleIs DEF CallRecords, CallPlaces
  <2>4. CallOK(r)
    BY <2>3 DEF CallOK
  <2>5. s3' = [s3 EXCEPT ![c] = r] /\ s1' \in SessionStates
    BY <1>1, <2>1 DEF Y!Ask, McpInv
  <2> HIDE DEF r
  <2> QED BY <2>4, <2>5, OneCall
<1>2. ASSUME NEW c \in Calls, Y!TakeAnswer(c) PROVE McpInv'
  <2>1. s3' = [s3 EXCEPT ![c] = Y!Idle] /\ s1' \in SessionStates
    BY <1>2 DEF Y!TakeAnswer, McpInv
  <2>2. CallOK(Y!Idle)
    BY DEF CallOK, CallRecords, Y!Idle, CallPlaces, Outs
  <2> QED BY <2>1, <2>2, OneCall
<1>3. ASSUME NEW c \in Calls, Y!Accept(c) PROVE McpInv'
  <2>1. s3[c].at = "sent" /\ s1' = s1 /\ s1' \in SessionStates /\ "error" \in Outs
    BY <1>3 DEF Y!Accept, McpInv, Outs
  <2>2. Y!Answer(c, "error") \/ \E place \in {"act", "resolve"} : s3' = [s3 EXCEPT ![c].at = place]
    BY <1>3 DEF Y!Accept, Y!Step
  <2>3. 0 \in 0..2
    OBVIOUS
  <2> QED BY <2>1, <2>2, <2>3, AnswerStep, PlaceStep
<1>4. ASSUME NEW c \in Calls, Y!Resolve(c) PROVE McpInv'
  <2>1. s3[c].at = "resolve" /\ s1' = s1 /\ s1' \in SessionStates /\ s1.job \in 0..2 /\ "error" \in Outs
    BY <1>4 DEF Y!Resolve, McpInv, SessionStates, Outs
  <2>2. Y!Answer(c, "error") \/ \E n \in {1, s1.job}, place \in {"check", "act"} :
          s3' = [s3 EXCEPT ![c].at = place, ![c].job = Y!Max({n})]
    BY <1>4 DEF Y!Resolve
  <2>3. \A n \in {1, s1.job} : Y!Max({n}) \in 0..2
    BY <2>1, MaxOfOne
  <2>4. ASSUME NEW n \in {1, s1.job}, NEW place \in {"check", "act"},
               s3' = [s3 EXCEPT ![c].at = place, ![c].job = Y!Max({n})]
        PROVE  McpInv'
    BY <2>1, <2>3, <2>4, PlaceStep
  <2> QED BY <2>1, <2>2, <2>4, AnswerStep
<1>5. ASSUME NEW c \in Calls, Y!Check(c) PROVE McpInv'
  <2>1. s3[c].at = "check" /\ s1' = s1 /\ s1' \in SessionStates /\ "error" \in Outs /\ 0 \in 0..2
    BY <1>5 DEF Y!Check, McpInv, Outs
  <2>2. Y!Answer(c, "error") \/ s3' = [s3 EXCEPT ![c].at = "act"]
    BY <1>5 DEF Y!Check, Y!Step
  <2> QED BY <2>1, <2>2, AnswerStep, PlaceStep
<1>6. ASSUME NEW c \in Calls, Y!Act(c) PROVE McpInv'
  <2>1. s3[c].at = "act" /\ s3[c].tool \in Y!Tools \cup {None} /\ s3[c] \in CallRecords
        /\ s3[c].age = 0 /\ s1 \in SessionStates
    BY <1>6 DEF Y!Act, McpInv, CallOK, CallRecords
  <2>2. s1' \in SessionStates
    BY <1>6, <2>1 DEF Y!Act, SessionStates
  <2>3. \/ \E out \in Outs : Y!Answer(c, out)
        \/ s3' = [s3 EXCEPT ![c].at = "launch", ![c].job = s1.job + 1] /\ s1.job + 1 \in 0..2
        \/ /\ s3[c].tool \in Y!Waiting
           /\ s3' = [s3 EXCEPT ![c].at = "wait", ![c].left = Y!Timeout(@)]
    BY <2>1, <1>6 DEF Y!Act, Outs, SessionStates
  <2>4. CASE /\ s3[c].tool \in Y!Waiting
             /\ s3' = [s3 EXCEPT ![c].at = "wait", ![c].left = Y!Timeout(@)]
    <3> DEFINE r == [s3[c] EXCEPT !.at = "wait", !.left = Y!Timeout(s3[c].left)]
    <3>1. Y!Timeout(s3[c].left) \in Nat /\ Y!Timeout(s3[c].left) <= WaitMax
      BY <2>1, TimeoutFacts DEF CallRecords
    <3>2. CallOK(r)
      <4> DEFINE bound == Y!Timeout(s3[c].left)
      <4> HIDE DEF bound
      <4>1. [s3[c] EXCEPT !.at = "wait", !.left = bound] \in CallRecords
        BY <2>1, <3>1 DEF CallRecords, CallPlaces, bound
      <4>2. /\ r \in CallRecords /\ r.at = "wait" /\ r.tool \in Y!Waiting
            /\ r.age = 0 /\ r.left = bound /\ bound \in Nat /\ bound <= WaitMax
        BY <2>1, <2>4, <3>1, <4>1 DEF CallRecords, bound
      <4> HIDE DEF r
      <4> QED BY <4>2, Waits DEF CallOK
    <3>3. s3' = [s3 EXCEPT ![c] = r]
      BY <2>4 DEF McpInv
    <3> HIDE DEF r
    <3> QED BY <2>2, <3>2, <3>3, OneCall
  <2>5. CASE s3' = [s3 EXCEPT ![c].at = "launch", ![c].job = s1.job + 1] /\ s1.job + 1 \in 0..2
    <3> DEFINE n == s1.job + 1
               r == [s3[c] EXCEPT !.at = "launch", !.job = n]
    <3>1. n \in 0..2
      BY <2>5
    <3> HIDE DEF n
    <3>2. CallOK(r)
      BY <2>1, <3>1 DEF CallOK, CallRecords, CallPlaces
    <3>3. s3' = [s3 EXCEPT ![c] = r]
      BY <2>5 DEF McpInv, n
    <3> HIDE DEF r
    <3> QED BY <2>2, <3>2, <3>3, OneCall
  <2> QED BY <2>2, <2>3, <2>4, <2>5, AnswerStep
<1>7. ASSUME NEW c \in Calls, Y!Read(c) \/ Y!Waited(c) \/ Y!Launched(c) \/ Y!Panic(c) PROVE McpInv'
  <2>1. \E out \in {"timed_out", "event", "error", "ok"} : Y!Answer(c, out)
    BY <1>7 DEF Y!Read, Y!Waited, Y!Launched, Y!Panic
  <2>2. s1' \in SessionStates /\ \A out \in {"timed_out", "event", "error", "ok"} : out \in Outs
    BY <1>7 DEF Y!Read, Y!Waited, Y!Launched, Y!Panic, McpInv, Outs
  <2> QED BY <2>1, <2>2, AnswerStep
<1>8. CASE Y!SessionChanges
  BY <1>8 DEF Y!SessionChanges, McpInv, SessionStates
<1>9. CASE Y!Upgrade \/ Y!Uninstall
  BY <1>9 DEF Y!Upgrade, Y!Uninstall, McpInv
\* No call is sent and without a thread: those under way are fewer.
<1>10. CASE Y!Tick
  <2>1. ASSUME NEW c \in Calls, s3[c].at = "sent" PROVE FALSE
    <3>1. Y!Under \subseteq Calls \ {c}
      BY <2>1 DEF Y!Under
    <3>2. /\ IsFiniteSet(Calls \ {c}) /\ Cardinality(Calls \ {c}) = Cardinality(Calls) - 1
          /\ Cardinality(Calls) \in Nat
      BY FS_RemoveElement, FS_CardinalityType DEF PoolSuffices
    <3>3. PICK n \in Nat, m \in Nat : n = Cardinality(Y!Under) /\ m = Cardinality(Calls) /\ n <= m - 1 /\ m <= Pool
      BY <3>1, <3>2, FS_Subset, FS_CardinalityType DEF PoolSuffices
    <3>4. n < Pool
      BY <3>3, Waits
    <3>5. Y!Room
      BY <3>3, <3>4 DEF Y!Room, Y!Cardinality, Cardinality
    <3> QED BY <1>10, <2>1, <3>5 DEF Y!Tick, Y!Busy
  <2>2. ASSUME NEW c \in Calls PROVE CallOK(s3'[c])
    <3>1. s3[c].at \in {"idle", "answered", "launch", "wait"} /\ CallOK(s3[c]) /\ s3[c] \in CallRecords
      BY <1>10, <2>1 DEF Y!Tick, Y!Busy, McpInv, CallOK, CallRecords, CallPlaces
    <3>2. CASE s3[c].at # "wait"
      BY <1>10, <3>1, <3>2 DEF Y!Tick
    <3>3. CASE s3[c].at = "wait"
      <4>1. s3[c].left > 0 /\ s3'[c] = [s3[c] EXCEPT !.age = @ + 1, !.left = @ - 1]
        BY <1>10, <3>3 DEF Y!Tick, Y!Waits
      <4>2. s3[c].age \in Nat /\ s3[c].left \in Nat /\ s3[c].left - 1 \in Nat
            /\ s3[c].tool \in Y!Waiting /\ s3[c].age + s3[c].left <= WaitMax
        BY <3>1, <3>3, <4>1 DEF CallOK, CallRecords
      <4>3. /\ s3'[c] \in CallRecords /\ s3'[c].at = "wait" /\ s3'[c].tool = s3[c].tool
            /\ s3'[c].age = s3[c].age + 1 /\ s3'[c].left = s3[c].left - 1
        <5>1. PICK b \in Nat, d \in Nat : b = s3[c].age + 1 /\ d = s3[c].left - 1
          BY <4>2
        <5>2. s3'[c] = [s3[c] EXCEPT !.age = b, !.left = d]
          BY <4>1, <5>1, <3>1 DEF CallRecords
        <5>3. [s3[c] EXCEPT !.age = b, !.left = d] \in CallRecords
          BY <3>1, <5>1 DEF CallRecords
        <5> QED BY <3>1, <3>3, <4>2, <5>1, <5>2, <5>3 DEF CallRecords
      <4> QED BY <4>2, <4>3, Waits DEF CallOK
    <3> QED BY <3>2, <3>3
  <2>3. DOMAIN s3' = Calls /\ s1' = s1
    BY <1>10 DEF Y!Tick
  <2> QED BY <2>2, <2>3 DEF McpInv
<1> QED BY <1>0, <1>1, <1>2, <1>3, <1>4, <1>5, <1>6, <1>7, <1>8, <1>9, <1>10 DEF Y!Next

LEMMA McpTells == McpInv => Y!TypeOK /\ Y!AnswersInTime
<1> SUFFICES ASSUME McpInv PROVE Y!TypeOK /\ Y!AnswersInTime
  OBVIOUS
<1>1. s1.job \in 0..2 /\ s1.state \in {"none", "PENDING", "RUNNING"}
  BY DEF McpInv, SessionStates
<1>2. \A c \in Calls : s3[c] \in CallRecords
  BY DEF McpInv, CallOK
<1>3. Y!TypeOK
  BY <1>1, <1>2 DEF Y!TypeOK, CallRecords
<1>4. ASSUME NEW c \in Calls, s3[c].at \notin {"idle", "answered", "launch"}
      PROVE  s3[c].age <= IF s3[c].tool \in Y!Waiting THEN WaitMax ELSE 0
  <2>1. s3[c].age \in Nat /\ s3[c].left \in Nat /\ s3[c].at \in CallPlaces
    BY <1>2 DEF CallRecords
  <2>2. CASE s3[c].at = "wait"
    BY <2>1, <2>2, Waits DEF McpInv, CallOK
  <2>3. CASE s3[c].at # "wait"
    BY <1>4, <2>1, <2>3, Waits DEF McpInv, CallOK, CallPlaces
  <2> QED BY <2>2, <2>3
<1> QED BY <1>3, <1>4 DEF Y!AnswersInTime

----------------------------------------------------------------------------
(* The call that waits for an event.                                       *)

\* What the call has read of the log, up to some half, and what it did not
\* want of it.
Unwanted(upTo) ==
  s2 # None => \A i \in (2 * s12 + 1)..upTo : i % 2 = 0 => s2[i] \notin s6

Results == [kind : W!Kinds \cup {"", "walltime_warn", "walltime_red", "timed_out"}, line : Nat]

\* The session: its log only grows, and is removed last.
LogInv ==
  /\ s1 = "gone" => s2 = None /\ ~s3
  /\ s1 = "ending" => s2 # None
  /\ s1 = "running" /\ s2 = None => s7 = 0 /\ s12 = 0 /\ s15.lines = 0
  /\ s2 # None => s7 <= Len(s2) /\ s15.lines <= Len(s2)

\* The call: where it stands in the log. It reads whole lines, and after the
\* one that it returns it reads no more.
ReadInv ==
  /\ s10 \in Results /\ s12 \in Nat /\ s15 \in [lines : Nat, gone : BOOLEAN]
  /\ s5 = "done" <=> s10 # W!Nothing
  /\ s10.kind = "" \/ s10.kind = "timed_out" => s10.line = 0
  /\ s5 = "idle" => s7 = 0 /\ s12 = 0 /\ s15 = W!Asleep
  /\ s7 % 2 = 0
  /\ s10.line = 0 => 2 * s12 <= s7 /\ Unwanted(s7)
  /\ s10.line > 0 => s7 = 2 * s10.line /\ s10.line > s12 /\ Unwanted(s7 - 1)
  /\ s5 \in {"exists", "observe", "check", "asleep"} \/ s10.kind = "timed_out" =>
       (s2 # None => s15.lines <= s7 + 1)

\* What it has seen of the state file.
SeenInv ==
  /\ s15.gone => s1 = "gone"
  /\ s5 \in {"idle", "watch"} => ~s13 /\ s8 = None
  /\ s5 # "done" /\ s13 /\ "ended" \in s6 => s9
  /\ s5 \in {"check", "asleep"} \/ s10.kind = "timed_out" =>
       (s13 /\ "ended" \in s6 => ~s15.gone)
  /\ s8 # None => s8 \in s14
  /\ s10.kind = "walltime_warn" => (\E w \in s14 : w > Warn) /\ s8 > Red
  /\ s10.kind = "walltime_red" => (\E w \in s14 : w > Red) /\ s8 <= Red

EventInv == W!TypeOK /\ LogInv /\ ReadInv /\ SeenInv
\* None is neither a log nor a walltime.
LEMMA NoneIsNone == None \notin Nat /\ None \notin Seq(W!Kinds) /\ Warn \in Nat /\ Red \in Nat
BY StoryAssumption DEF W!Kinds

LEMMA Halving ==
  \A n \in Nat : /\ (2 * n + 1)..(2 * n) = {} /\ 2 * n \in Nat /\ 2 * n <= 2 * n
                 /\ n \div 2 \in Nat /\ 2 * (n \div 2) <= n /\ n <= 2 * (n \div 2) + 1
                 /\ (2 * (n \div 2)) % 2 = 0
OBVIOUS

\* From one line's end to the next one's are two halves.
LEMMA Lines ==
  /\ 0 % 2 = 0 /\ ~(0 > 0)
  /\ \A i, j \in Nat : i % 2 = 0 /\ j % 2 = 0 /\ i < j => i + 2 <= j
OBVIOUS

\* Where the last whole line ends, of those that begin from some half on.
LEMMA LastEnd ==
  ASSUME NEW from \in Nat, from % 2 = 0, NEW l \in Nat, from <= l, NEW Found,
         \A i : i \in Found <=> i = from \/ (i \in Nat /\ i > from /\ i <= l /\ i % 2 = 0)
  PROVE  /\ W!Max(Found) \in Nat /\ W!Max(Found) % 2 = 0
         /\ from <= W!Max(Found) /\ W!Max(Found) <= l /\ l <= W!Max(Found) + 1
<1>1. PICK n \in Nat : n = 2 * (l \div 2) /\ n <= l /\ l <= n + 1 /\ n % 2 = 0
  BY Halving
<1>2. \A i \in Found : i \in Nat /\ i >= from /\ i <= l
  OBVIOUS
<1>3. n \in Found
  <2>1. CASE n > from
    BY <1>1, <2>1
  <2>2. CASE n <= from
    BY <1>1, <2>2, Lines
  <2> QED BY <1>1, <2>1, <2>2
<1>4. \A i \in Found : n >= i
  <2>1. ASSUME NEW i \in Found, n < i PROVE FALSE
    <3>1. i \in Nat /\ i % 2 = 0 /\ i <= l
      BY <1>2
    <3> QED BY <1>1, <2>1, <3>1, Lines
  <2> QED BY <1>1, <1>2, <2>1
<1>5. W!Max(Found) \in Found /\ \A i \in Found : W!Max(Found) >= i
  BY <1>3, <1>4 DEF W!Max
<1>6. W!Max(Found) = n
  BY <1>1, <1>2, <1>3, <1>4, <1>5
<1> QED BY <1>1, <1>2, <1>3, <1>6

LEMMA EventBegins == W!Init => EventInv
<1> SUFFICES ASSUME W!Init PROVE EventInv
  OBVIOUS
<1>1. W!TypeOK /\ LogInv
  BY NoneIsNone DEF W!Init, W!TypeOK, LogInv, W!Asleep
<1>2. W!Nothing \in Results /\ W!Nothing.kind = "" /\ W!Nothing.line = 0
      /\ W!Asleep \in [lines : Nat, gone : BOOLEAN]
  BY DEF Results, W!Nothing, W!Asleep, W!Kinds
<1>3. ReadInv
  <2>1. s5 = "idle" /\ s7 = 0 /\ s12 = 0 /\ s10 = W!Nothing /\ s15 = W!Asleep /\ s2 = None
    BY DEF W!Init
  <2>2. s10 \in Results /\ s10.kind = "" /\ s10.line = 0 /\ s15.lines = 0
    BY <1>2, <2>1 DEF W!Asleep
  <2>3. s5 = "done" <=> s10 # W!Nothing
    BY <2>1
  <2>4. 0 % 2 = 0 /\ 2 * 0 <= 0
    OBVIOUS
  <2>5. s12 \in Nat /\ ~(0 > 0)
    BY <2>1
  <2>7. s15 \in [lines : Nat, gone : BOOLEAN]
    BY <1>2, <2>1, Zenon
  <2>6. Unwanted(s7) /\ s5 \notin {"exists", "observe", "check", "asleep"}
        /\ s10.kind # "timed_out"
    BY <2>1, <2>2 DEF Unwanted
  <2> QED BY <2>1, <2>2, <2>3, <2>4, <2>5, <2>6, <2>7 DEF ReadInv
<1>4. SeenInv
  BY <1>2, NoneIsNone DEF W!Init, SeenInv, W!Asleep
<1> QED BY <1>1, <1>3, <1>4 DEF EventInv

\* A line that is written changes nothing of what was read.
LEMMA LogGrows ==
  ASSUME EventInv, NEW k \in W!Kinds, s2' = Append(W!Halves(s2), k), s1 # "gone",
         s1' \in {"running", "ending"},
         UNCHANGED <<s3, s4, s5, s6, s7, s8, s9, s10, s11, s12, s13, s14, s15>>
  PROVE  EventInv'
<1>1. W!Halves(s2) \in Seq(W!Kinds) /\ (s2 # None => W!Halves(s2) = s2) /\ (s2 = None => W!Halves(s2) = << >>)
  BY DEF EventInv, W!TypeOK, W!Halves
<1>2. PICK l \in Seq(W!Kinds) : l = W!Halves(s2)
  BY <1>1
<1>3. /\ s2' \in Seq(W!Kinds) /\ Len(s2') = Len(l) + 1 /\ Len(l) \in Nat
      /\ \A i \in 1..Len(l) : s2'[i] = l[i]
  BY <1>2
<1>4. s2' # None
  BY <1>3, NoneIsNone
<1>5. s2 = None => s7 = 0 /\ s12 = 0 /\ s15.lines = 0
  BY DEF EventInv, LogInv, W!TypeOK
<1>6. s2 # None => s7 <= Len(l) /\ s15.lines <= Len(l)
  BY <1>1, <1>2 DEF EventInv, LogInv
<1>7. s7 \in Nat /\ s12 \in Nat /\ s15.lines \in Nat
  BY DEF EventInv, W!TypeOK, ReadInv
<1>8. W!TypeOK'
  BY <1>3 DEF EventInv, W!TypeOK
<1>9. LogInv'
  <2>1. s7 <= Len(l) + 1 /\ s15.lines <= Len(l) + 1
    BY <1>3, <1>5, <1>6, <1>7
  <2> QED BY <1>3, <1>4, <2>1 DEF LogInv
<1>10. ASSUME NEW upTo \in Int, upTo <= s7, Unwanted(upTo) PROVE Unwanted(upTo)'
  <2>1. SUFFICES ASSUME NEW i \in (2 * s12 + 1)..upTo, i % 2 = 0 PROVE s2'[i] \notin s6
    BY DEF Unwanted
  <2>2. s2 # None
    BY <1>5, <1>7, <1>10, <2>1
  <2>3. i \in 1..Len(l)
    BY <1>3, <1>6, <1>7, <1>10, <2>1, <2>2
  <2> QED BY <1>1, <1>2, <1>3, <1>10, <2>1, <2>2, <2>3 DEF Unwanted
<1>11. ReadInv'
  <2>1. PICK n \in Nat : n = s7 /\ n = s7' /\ n - 1 = s7 - 1 /\ n - 1 = s7' - 1
    BY <1>7
  <2>2. s10.line = 0 => Unwanted(n)'
    BY <2>1, <1>10 DEF EventInv, ReadInv
  <2>3. s10.line > 0 => Unwanted(n - 1)'
    <3>1. n - 1 \in Int /\ n - 1 <= s7
      BY <2>1
    <3>2. s10.line > 0 => Unwanted(n - 1)
      BY <2>1 DEF EventInv, ReadInv
    <3> QED BY <3>1, <3>2, <1>10
  <2>4. (s10.line = 0 => Unwanted(s7))' /\ (s10.line > 0 => Unwanted(s7 - 1))'
    BY <2>1, <2>2, <2>3 DEF Unwanted
  <2>5. s5 \in {"exists", "observe", "check", "asleep"} \/ s10.kind = "timed_out" =>
          s15.lines <= s7 + 1
    <3>1. s2 # None \/ s15.lines = 0
      BY <1>5
    <3>2. s5 \in {"exists", "observe", "check", "asleep"} \/ s10.kind = "timed_out" =>
            (s2 # None => s15.lines <= s7 + 1)
      BY DEF EventInv, ReadInv
    <3> QED BY <1>7, <3>1, <3>2
  <2> QED BY <2>4, <2>5 DEF EventInv, ReadInv
<1>12. SeenInv'
  BY DEF EventInv, LogInv, SeenInv
<1> QED BY <1>8, <1>9, <1>11, <1>12 DEF EventInv

\* What the session does.
LEMMA SessionStep == EventInv /\ W!Session => EventInv'
<1> SUFFICES ASSUME EventInv, W!Session PROVE EventInv'
  OBVIOUS
<1>1. CASE W!AppendLine
  <2>1. /\ s1 = "running" /\ s1' \in {"running", "ending"} /\ s1 # "gone"
        /\ UNCHANGED <<s3, s4, s5, s6, s7, s8, s9, s10, s11, s12, s13, s14, s15>>
    BY <1>1 DEF W!AppendLine, W!call, W!history
  <2>2. \E k \in W!Kinds : s2' = Append(W!Halves(s2), k)
    <3>1. CASE W!Whole
      BY <1>1, <3>1 DEF W!AppendLine, W!Write, W!Kinds
    <3>2. CASE ~W!Whole
      <4>0. Len(<< >>) % 2 = 0
        OBVIOUS
      <4>1. s2 # None /\ Len(s2) % 2 # 0
        BY <3>2, <4>0 DEF W!Whole, W!Halves
      <4>2. s2 \in Seq(W!Kinds) /\ Len(s2) \in Nat /\ Len(s2) # 0
        BY <4>1 DEF EventInv, W!TypeOK
      <4>3. s2[Len(s2)] \in W!Kinds
        BY <4>2
      <4> QED BY <1>1, <3>2, <4>3 DEF W!AppendLine, W!Write
    <3> QED BY <3>1, <3>2
  <2> QED BY <2>1, <2>2, LogGrows
<1>2. CASE W!AppendEnded
  <2>1. /\ s1' \in {"running", "ending"} /\ s1 # "gone" /\ s2' = Append(W!Halves(s2), "ended")
        /\ UNCHANGED <<s3, s4, s5, s6, s7, s8, s9, s10, s11, s12, s13, s14, s15>>
    BY <1>2 DEF W!AppendEnded, W!call, W!history, W!Write
  <2>2. "ended" \in W!Kinds
    BY DEF W!Kinds
  <2> QED BY <2>1, <2>2, LogGrows
<1>3. CASE W!WriteState \/ W!Stales \/ W!RemoveState
  <2>1. /\ s1' = s1 /\ s2' = s2
        /\ UNCHANGED <<s5, s6, s7, s8, s9, s10, s11, s12, s13, s14, s15>>
        /\ s3' \in BOOLEAN /\ s4' \in W!Bands \cup {None} /\ (s1 = "gone" => ~s3')
    BY <1>3 DEF W!WriteState, W!Stales, W!RemoveState, W!call, W!history, EventInv, W!TypeOK, LogInv
  <2>2. W!TypeOK'
    BY <2>1 DEF EventInv, W!TypeOK
  <2>3. LogInv' /\ SeenInv'
    BY <2>1 DEF EventInv, LogInv, SeenInv
  <2>4. ReadInv'
    BY <2>1 DEF EventInv, ReadInv, Unwanted
  <2> QED BY <2>2, <2>3, <2>4 DEF EventInv
<1>4. CASE W!RemoveLog
  <2>1. /\ s1' = "gone" /\ s2' = None /\ ~s3
        /\ UNCHANGED <<s3, s4, s5, s6, s7, s8, s9, s10, s11, s12, s13, s14, s15>>
    BY <1>4 DEF W!RemoveLog, W!call, W!history
  <2>2. W!TypeOK'
    BY <2>1 DEF EventInv, W!TypeOK
  <2>3. LogInv' /\ SeenInv'
    BY <2>1 DEF EventInv, LogInv, SeenInv
  <2>4. ReadInv'
    BY <2>1 DEF EventInv, ReadInv, Unwanted
  <2> QED BY <2>2, <2>3, <2>4 DEF EventInv
<1> QED BY <1>1, <1>2, <1>3, <1>4 DEF W!Session

\* The log is read on from where the last look ended: what is found first is
\* the first that is wanted, and what is passed over is not.
LEMMA ReadStep == EventInv /\ W!ReadLog => EventInv'
<1> SUFFICES ASSUME EventInv, W!ReadLog PROVE EventInv'
  OBVIOUS
<1>1. /\ s5 = "read" /\ UNCHANGED <<s1, s2, s3, s4, s6, s8, s9, s11, s12, s13, s14, s15>>
  BY DEF W!ReadLog, W!session, W!history
<1>2. /\ s10 = W!Nothing /\ W!Nothing.line = 0 /\ W!Nothing.kind = "" /\ s7 \in Nat /\ s12 \in Nat
      /\ s15.lines \in Nat /\ 2 * s12 <= s7 /\ s7 % 2 = 0 /\ Unwanted(s7)
  <2>1. s10 = W!Nothing
    BY <1>1 DEF EventInv, ReadInv
  <2>2. W!Nothing.line = 0 /\ W!Nothing.kind = ""
    BY DEF W!Nothing
  <2> QED BY <2>1, <2>2 DEF EventInv, ReadInv, W!TypeOK
<1>3. CASE s2 = None
  <2>1. W!Halves(s2) = << >> /\ Len(W!Halves(s2)) = 0
    BY <1>3 DEF W!Halves
  <2>2. \A from \in Nat : W!Found(from) = {}
    BY <2>1 DEF W!Found, W!Ends
  <2>3. s7' = s7 /\ s5' = "exists" /\ s10' = s10
    BY <1>2, <1>3, <2>1, <2>2 DEF W!ReadLog
  <2>4. W!TypeOK' /\ LogInv'
    BY <1>1, <1>3, <2>3 DEF EventInv, W!TypeOK, LogInv
  <2>5. ReadInv'
    BY <1>1, <1>2, <1>3, <2>3 DEF EventInv, ReadInv, Unwanted
  <2>6. SeenInv'
    BY <1>1, <1>2, <2>3 DEF EventInv, SeenInv
  <2> QED BY <2>4, <2>5, <2>6 DEF EventInv
<1>4. CASE s2 # None
  <2>1. PICK l \in Nat, from \in Nat, b \in Nat, w \in Nat :
          /\ l = Len(s2) /\ from = s7 /\ b = s12 /\ w = s15.lines
          /\ from <= l /\ w <= l /\ 2 * b <= from /\ from % 2 = 0
    <3>1. Len(s2) \in Nat /\ s7 <= Len(s2) /\ s15.lines <= Len(s2)
      BY <1>4 DEF EventInv, W!TypeOK, LogInv
    <3> QED BY <1>2, <3>1
  <2>2. s2 \in Seq(W!Kinds) /\ W!Halves(s2) = s2 /\ l = Len(s2)
    BY <1>4, <2>1 DEF EventInv, W!TypeOK, W!Halves
  <2> DEFINE ends == W!Ends(from)
             found == W!Found(from)
  <2>3. \A i : i \in ends <=> i \in Nat /\ i > from /\ i <= l /\ i % 2 = 0
    <3>1. ends = {i \in (from + 1)..l : i % 2 = 0}
      BY <2>2 DEF W!Ends
    <3> HIDE DEF ends
    <3> QED BY <2>1, <3>1
  <2>4. \A i : i \in found <=> i \in ends /\ s2[i] \in s6
    <3>1. found = {i \in ends : i >= from + 2 /\ s2[i] \in s6}
      BY <2>2 DEF W!Found
    <3>2. \A i \in ends : i >= from + 2
      <4> HIDE DEF ends
      <4>1. SUFFICES ASSUME NEW i \in ends PROVE i >= from + 2
        OBVIOUS
      <4>2. i \in Nat /\ i % 2 = 0 /\ from < i
        BY <2>1, <2>3
      <4> QED BY <2>1, <4>2, Lines
    <3> HIDE DEF ends, found
    <3> QED BY <3>1, <3>2
  <2>5. \/ \E i \in found :
             /\ \A j \in found : i <= j
             /\ s7' = i /\ W!Return(s2[i], i \div 2)
        \/ /\ found = {} /\ s5' = "exists" /\ s10' = s10
           /\ s7' = W!Max(ends \cup {from})
    <3>1. ~(Len(s2) < s7)
      BY <2>1
    <3> QED BY <1>4, <2>1, <2>2, <3>1 DEF W!ReadLog
  <2> HIDE DEF ends, found
  <2>6. ASSUME NEW o \in Nat, o <= l, \A j \in found : o < j
        PROVE  \A j \in (2 * s12 + 1)..o : j % 2 = 0 => s2[j] \notin s6
    <3>1. SUFFICES ASSUME NEW j \in (2 * b + 1)..o, j % 2 = 0, s2[j] \in s6 PROVE FALSE
      BY <2>1
    <3>2. j \in Nat /\ j <= o /\ j <= l
      BY <2>1, <2>6
    <3>3. j <= from => j \in (2 * b + 1)..from
      BY <2>1, <3>2
    <3>4. j > from
      <4>1. \A i \in (2 * b + 1)..from : i % 2 = 0 => s2[i] \notin s6
        BY <1>2, <1>4, <2>1 DEF Unwanted
      <4>2. ~(j <= from)
        BY <3>1, <3>3, <4>1
      <4> QED BY <2>1, <3>2, <4>2
    <3>5. j \in found
      BY <2>3, <2>4, <3>1, <3>2, <3>4
    <3>6. o < j
      BY <2>6, <3>5
    <3> QED BY <3>2, <3>6
  <2>7. ASSUME NEW i \in found, \A j \in found : i <= j, s7' = i, W!Return(s2[i], i \div 2)
        PROVE  EventInv'
    <3>1. /\ i \in Nat /\ i <= l /\ i % 2 = 0 /\ i > from /\ i > 0
      BY <2>1, <2>3, <2>4
    <3>2. s2[i] \in W!Kinds
      BY <2>1, <2>2, <3>1
    <3>3. PICK n \in Nat : n = i \div 2 /\ i = 2 * n
      BY <3>1
    <3>4. n > 0 /\ n > b
      BY <2>1, <3>1, <3>3
    <3>5. s5' = "done" /\ s10' = [kind |-> s2[i], line |-> n]
      BY <2>7, <3>3 DEF W!Return
    <3>6. /\ s10'.line = n /\ s10'.kind = s2[i] /\ s10'.kind \in {"job_done", "ended"}
      BY <3>2, <3>5 DEF W!Kinds
    <3>7. s10' # W!Nothing /\ s10' \in Results
      <4>1. [kind |-> s2[i], line |-> n] \in Results
        BY <3>2 DEF Results
      <4> QED BY <1>2, <3>4, <3>5, <3>6, <4>1
    <3>8. W!TypeOK' /\ LogInv'
      BY <1>1, <1>4, <2>1, <2>7, <3>1, <3>5 DEF EventInv, W!TypeOK, LogInv
    <3>9. PICK o \in Nat : o = i - 1
      BY <3>1
    <3>10. \A j \in found : o < j
      <4>1. \A j \in found : j \in Nat
        BY <2>3, <2>4
      <4> QED BY <2>7, <3>1, <3>9, <4>1
    <3>11. \A j \in (2 * s12 + 1)..o : j % 2 = 0 => s2[j] \notin s6
      BY <2>6, <3>1, <3>9, <3>10
    <3>12. (Unwanted(s7 - 1))'
      BY <1>1, <2>7, <3>9, <3>11 DEF Unwanted
    <3>13. /\ s10'.line > 0 /\ s10'.line # 0 /\ s7' = 2 * s10'.line /\ s10'.line > s12' /\ s7' % 2 = 0
      BY <1>1, <2>1, <2>7, <3>1, <3>3, <3>4, <3>6
    <3>14. s12' \in Nat /\ s15' \in [lines : Nat, gone : BOOLEAN] /\ s10'.kind # "timed_out" /\ s10'.kind # ""
      BY <1>1, <3>6 DEF EventInv, ReadInv
    <3>15. ReadInv'
      BY <3>5, <3>7, <3>12, <3>13, <3>14 DEF ReadInv
    <3>16. SeenInv'
      BY <1>1, <3>5, <3>6 DEF EventInv, SeenInv
    <3> QED BY <3>8, <3>15, <3>16 DEF EventInv
  <2>8. ASSUME found = {}, s5' = "exists", s10' = s10, s7' = W!Max(ends \cup {from})
        PROVE  EventInv'
    <3>1. \A i : i \in ends \cup {from} <=> i = from \/ (i \in Nat /\ i > from /\ i <= l /\ i % 2 = 0)
      BY <2>3
    <3>2. PICK o \in Nat : o = s7' /\ o % 2 = 0 /\ from <= o /\ o <= l /\ l <= o + 1
      BY <2>1, <2>8, <3>1, LastEnd
    <3>3. W!TypeOK' /\ LogInv'
      BY <1>1, <1>4, <2>1, <2>8, <3>2 DEF EventInv, W!TypeOK, LogInv
    <3>4. \A j \in (2 * s12 + 1)..o : j % 2 = 0 => s2[j] \notin s6
      BY <2>6, <2>8, <3>2
    <3>5. (Unwanted(s7))'
      BY <1>1, <3>2, <3>4 DEF Unwanted
    <3>6. 2 * b <= o /\ w <= o + 1
      BY <2>1, <3>2
    <3>7. 2 * s12' <= s7' /\ s7' % 2 = 0 /\ s15'.lines <= s7' + 1
      BY <1>1, <2>1, <3>2, <3>6
    <3>8. ReadInv'
      <4>1. s10' \in Results /\ s12' \in Nat /\ s15' \in [lines : Nat, gone : BOOLEAN]
        <5>1. s10 \in Results /\ s12 \in Nat /\ s15 \in [lines : Nat, gone : BOOLEAN]
          BY DEF EventInv, ReadInv
        <5> QED BY <1>1, <2>8, <5>1, Zenon
      <4>2. s10' = W!Nothing /\ s10'.line = 0 /\ ~(0 > 0)
        <5>1. s10' = W!Nothing
          BY <1>2, <2>8
        <5>2. ~(0 > 0)
          OBVIOUS
        <5> QED BY <1>2, <5>1, <5>2
      <4>3. ~(s10'.line > 0) /\ s5' # "done" /\ s5' # "idle"
        BY <2>8, <4>2
      <4> QED BY <3>5, <3>7, <4>1, <4>2, <4>3, Zenon DEF ReadInv
    <3>9. SeenInv'
      BY <1>1, <1>2, <2>8 DEF EventInv, SeenInv
    <3> QED BY <3>3, <3>8, <3>9 DEF EventInv
  <2> QED BY <2>5, <2>7, <2>8
<1> QED BY <1>3, <1>4

\* What the call does besides. Steps that leave the log and where it was read
\* alone keep ReadInv when they do not go on to where a wake-up counts.
LEMMA ReadStays ==
  ASSUME EventInv, UNCHANGED <<s2, s6, s7, s12>>,
         s5' # "idle", s5 # "done", s10' \in Results,
         s15' \in [lines : Nat, gone : BOOLEAN],
         s5' # "done" => s10' = W!Nothing,
         s5' = "done" => s10'.kind # "" /\ s10'.line = 0,
         s5' \in {"exists", "observe", "check", "asleep"} \/ s10'.kind = "timed_out" =>
           s5 \in {"exists", "observe", "check", "asleep"} /\ s15' = s15
  PROVE  ReadInv'
<1>1. s10 = W!Nothing /\ W!Nothing.line = 0 /\ W!Nothing.kind = "" /\ ~(0 > 0)
  <2>1. W!Nothing.line = 0 /\ W!Nothing.kind = ""
    BY DEF W!Nothing
  <2> QED BY <2>1, Lines DEF EventInv, ReadInv
<1>2. s10'.line = 0 /\ (s5' = "done" <=> s10' # W!Nothing) /\ ~(s10'.line > 0)
  BY <1>1
<1>3. s12' \in Nat /\ s7' % 2 = 0 /\ 2 * s12' <= s7'
  BY <1>1 DEF EventInv, ReadInv
<1>4. (Unwanted(s7))'
  BY <1>1 DEF EventInv, ReadInv, Unwanted
<1>5. s5' \in {"exists", "observe", "check", "asleep"} \/ s10'.kind = "timed_out" =>
        (s2' # None => s15'.lines <= s7' + 1)
  BY DEF EventInv, ReadInv
<1> QED BY <1>2, <1>3, <1>4, <1>5, Zenon DEF ReadInv

LEMMA CallStep ==
  ASSUME Red <= Warn, EventInv,
         W!Begin \/ W!Watch \/ W!Exists \/ W!Observe \/ W!Check \/ W!Wake \/ W!Deadline
  PROVE  EventInv'
<1>0. /\ s5 # "done" => s10 = W!Nothing
      /\ W!Nothing \in Results /\ W!Nothing.kind = "" /\ s10 \in Results
      /\ s15 \in [lines : Nat, gone : BOOLEAN]
  BY DEF EventInv, ReadInv, W!Nothing, Results
<1>1. CASE W!Begin
  <2>1. /\ s5 = "idle" /\ s5' = "watch" /\ s7' = W!StartOfUnfinishedLine(s2)
        /\ s6' \subseteq W!Kinds \cup {"walltime_warn", "walltime_red"}
        /\ s12' = Len(W!Halves(s2)) \div 2
        /\ UNCHANGED <<s1, s2, s3, s4, s8, s9, s10, s11, s13, s14, s15>>
    BY <1>1 DEF W!Begin, W!session, W!Kinds
  <2>2. PICK l \in Nat : l = Len(W!Halves(s2)) /\ (s2 = None => l = 0) /\ (s2 # None => l = Len(s2))
    BY DEF W!Halves, EventInv, W!TypeOK
  <2>3. PICK n \in Nat : n = l \div 2 /\ 2 * n <= l /\ (2 * n) % 2 = 0 /\ (l = 0 => n = 0)
    BY <2>2, Halving
  <2>4. n = s12' /\ s7' = 2 * n /\ 2 * n \in Nat /\ (s2 = None => n = 0)
    BY <2>1, <2>2, <2>3 DEF W!StartOfUnfinishedLine
  <2>5. s15.lines = 0 /\ s15 = W!Asleep /\ s10 = W!Nothing
    <3>1. s15 = W!Asleep
      BY <2>1 DEF EventInv, ReadInv
    <3>2. W!Asleep.lines = 0
      BY DEF W!Asleep
    <3> QED BY <1>0, <2>1, <3>1, <3>2
  <2>6. W!TypeOK'
    BY <2>1, <2>4 DEF EventInv, W!TypeOK
  <2>7. LogInv'
    BY <2>1, <2>2, <2>3, <2>4, <2>5 DEF EventInv, LogInv
  <2>8. (Unwanted(s7))'
    <3>1. (2 * n + 1)..(2 * n) = {}
      BY Halving
    <3> QED BY <2>4, <3>1 DEF Unwanted
  <2>9. ReadInv'
    <3>1. s10' = W!Nothing /\ s10'.line = 0 /\ s10'.kind = "" /\ ~(s10'.line > 0)
      <4>1. W!Nothing.line = 0 /\ W!Nothing.kind = ""
        BY DEF W!Nothing
      <4> QED BY <2>1, <2>5, <4>1, Lines, Zenon
    <3>2. s7' % 2 = 0 /\ 2 * s12' <= s7' /\ s12' \in Nat
      BY <2>3, <2>4, Halving, Zenon
    <3>3. s10' \in Results /\ s15' \in [lines : Nat, gone : BOOLEAN]
      BY <1>0, <2>1, Zenon
    <3> QED BY <2>1, <2>8, <3>1, <3>2, <3>3, Zenon DEF ReadInv
  <2>10. SeenInv'
    BY <2>1, <2>5, <1>0 DEF EventInv, SeenInv
  <2> QED BY <2>6, <2>7, <2>9, <2>10 DEF EventInv
<1>2. CASE W!Watch
  <2>1. /\ s5 = "watch" /\ s5' = "read" /\ s9' = s3 /\ s8' = s4 /\ s13' = s3 /\ s14' = {s4} \ {None}
        /\ UNCHANGED <<s1, s2, s3, s4, s6, s7, s10, s11, s12, s15>>
    BY <1>2 DEF W!Watch, W!session
  <2>2. W!TypeOK' /\ LogInv'
    BY <2>1 DEF EventInv, W!TypeOK, LogInv
  <2>3. SeenInv'
    BY <1>0, <2>1 DEF EventInv, SeenInv
  <2>4. ReadInv'
    BY <1>0, <2>1, ReadStays
  <2> QED BY <2>2, <2>3, <2>4 DEF EventInv
<1>3. CASE W!Exists
  <2>1. /\ s5 = "exists" /\ s5' = (IF s2 = None THEN "observe" ELSE "check")
        /\ UNCHANGED <<s1, s2, s3, s4, s6, s7, s8, s9, s10, s11, s12, s13, s14, s15>>
    BY <1>3 DEF W!Exists, W!session, W!call, W!history
  <2>2. W!TypeOK' /\ LogInv'
    BY <2>1 DEF EventInv, W!TypeOK, LogInv
  <2>3. SeenInv'
    BY <1>0, <2>1 DEF EventInv, SeenInv, LogInv
  <2>4. ReadInv'
    BY <1>0, <2>1, ReadStays
  <2> QED BY <2>2, <2>3, <2>4 DEF EventInv
<1>4. CASE W!Observe
  <2> DEFINE kind == IF ~s3 THEN IF s9 THEN "ended" ELSE ""
                     ELSE IF s4 = None THEN "" ELSE W!Crossed
  <2>1. /\ s5 = "observe" /\ s9' = s3 /\ s8' = (IF s3 /\ s4 # None THEN s4 ELSE s8)
        /\ s13' = (s13 \/ s3) /\ s14' = (s14 \cup {s4}) \ {None}
        /\ UNCHANGED <<s1, s2, s3, s4, s6, s7, s11, s12, s15>>
        /\ IF kind \in s6 THEN W!Return(kind, 0) ELSE s5' = "check" /\ s10' = s10
    BY <1>4 DEF W!Observe, W!session
  <2>2. \/ kind = ""
        \/ kind = "ended" /\ ~s3 /\ s9
        \/ kind = W!Crossed /\ s3 /\ s4 # None
    OBVIOUS
  <2>3. W!Crossed \in {"walltime_red", "walltime_warn", ""}
    BY DEF W!Crossed
  <2>4. kind = "walltime_red" => s3 /\ s4 # None /\ s8 # None /\ s8 > Red /\ s4 <= Red
    BY <2>2 DEF W!Crossed
  <2>5. kind = "walltime_warn" => s3 /\ s4 # None /\ s8 # None /\ s8 > Warn /\ ~(s8 > Red /\ s4 <= Red)
    BY <2>2 DEF W!Crossed
  <2>6. s3 = FALSE /\ s9 => kind = "ended"
    OBVIOUS
  <2>7. kind \in {"ended", "", "walltime_red", "walltime_warn"}
    BY <2>2, <2>3
  <2> HIDE DEF kind
  <2>8. "" \notin s6
    BY DEF EventInv, W!TypeOK, W!Kinds
  <2>9. W!TypeOK' /\ LogInv'
    <3>1. s5' \in {"done", "check"} /\ s8' \in W!Bands \cup {None} /\ s14' \subseteq W!Bands
      BY <2>1 DEF EventInv, W!TypeOK, W!Return
    <3> QED BY <2>1, <3>1 DEF EventInv, W!TypeOK, LogInv
  <2>10. s8 # None => s8 \in s14' /\ s8 \in Nat
    BY <2>1 DEF EventInv, SeenInv, W!TypeOK, W!Bands
  <2>11. s3 /\ s4 # None => s8' = s4 /\ s4 \in s14' /\ s4 \in Nat
    BY <2>1 DEF EventInv, W!TypeOK, W!Bands
  <2>12. CASE kind \in s6
    <3>1. s5' = "done" /\ s10' = [kind |-> kind, line |-> 0]
      BY <2>1, <2>12 DEF W!Return
    <3>2. s10'.kind = kind /\ s10'.line = 0 /\ kind # "" /\ kind # "timed_out"
      BY <2>7, <2>8, <2>12, <3>1
    <3>3. s10' \in Results
      BY <2>7, <3>1 DEF Results, W!Kinds
    <3>4. ReadInv'
      BY <1>0, <2>1, <3>1, <3>2, <3>3, ReadStays
    <3>5. kind = "walltime_warn" => (\E x \in s14' : x > Warn) /\ s8' > Red
      BY <2>5, <2>10, <2>11, NoneIsNone
    <3>6. kind = "walltime_red" => (\E x \in s14' : x > Red) /\ s8' <= Red
      BY <2>4, <2>10, <2>11
    <3>7. SeenInv'
      BY <2>1, <2>10, <2>11, <3>1, <3>2, <3>5, <3>6 DEF EventInv, SeenInv
    <3> QED BY <2>9, <3>4, <3>7 DEF EventInv
  <2>13. CASE kind \notin s6
    <3>1. s5' = "check" /\ s10' = s10 /\ s10 = W!Nothing
      BY <1>0, <2>1, <2>13
    <3>2. ReadInv'
      BY <1>0, <2>1, <3>1, ReadStays
    <3>3. s13' /\ "ended" \in s6 => s3
      BY <2>1, <2>6, <2>13 DEF EventInv, SeenInv, W!TypeOK
    <3>4. s3 => s1 # "gone"
      BY DEF EventInv, LogInv
    <3>5. SeenInv'
      BY <1>0, <2>1, <2>10, <2>11, <3>1, <3>3, <3>4 DEF EventInv, SeenInv
    <3> QED BY <2>9, <3>2, <3>5 DEF EventInv
  <2> QED BY <2>12, <2>13
<1>5. CASE W!Check
  <2>1. /\ s5 = "check" /\ UNCHANGED <<s1, s2, s3, s4, s6, s7, s8, s9, s11, s12, s13, s14, s15>>
        /\ \/ s10' = [kind |-> "timed_out", line |-> 0] /\ s5' = "done"
           \/ s10' = s10 /\ s5' = "asleep"
    BY <1>5 DEF W!Check, W!session, W!call, W!history, W!Return
  <2>2. s5' = "done" => s10'.kind = "timed_out" /\ s10'.line = 0 /\ s10' \in Results
    <3>1. LET r == [kind |-> "timed_out", line |-> 0]
          IN  r.kind = "timed_out" /\ r.line = 0 /\ r \in Results
      BY DEF Results
    <3> QED BY <2>1, <3>1
  <2>3. W!TypeOK' /\ LogInv'
    BY <2>1 DEF EventInv, W!TypeOK, LogInv
  <2>4. SeenInv'
    BY <1>0, <2>1, <2>2 DEF EventInv, SeenInv
  <2>5. ReadInv'
    BY <1>0, <2>1, <2>2, ReadStays
  <2> QED BY <2>3, <2>4, <2>5 DEF EventInv
<1>6. CASE W!Wake
  <2>1. /\ s5 = "asleep" /\ s5' = "read"
        /\ s15' = [lines |-> Len(W!Halves(s2)), gone |-> s1 = "gone"]
        /\ UNCHANGED <<s1, s2, s3, s4, s6, s7, s8, s9, s10, s11, s12, s13, s14>>
    BY <1>6 DEF W!Wake, W!session, W!call
  <2>2. PICK l \in Nat : l = Len(W!Halves(s2)) /\ (s2 = None => l = 0) /\ (s2 # None => l = Len(s2))
    BY DEF W!Halves, EventInv, W!TypeOK
  <2>3. s15'.lines = l /\ (s15'.gone <=> s1 = "gone") /\ s15' \in [lines : Nat, gone : BOOLEAN]
    BY <2>1, <2>2
  <2>4. W!TypeOK' /\ LogInv'
    BY <2>1, <2>2, <2>3 DEF EventInv, W!TypeOK, LogInv
  <2>5. SeenInv'
    BY <1>0, <2>1, <2>3 DEF EventInv, SeenInv
  <2>6. ReadInv'
    BY <1>0, <2>1, <2>3, ReadStays
  <2> QED BY <2>4, <2>5, <2>6 DEF EventInv
<1>7. CASE W!Deadline
  <2>1. s11' = TRUE /\ UNCHANGED <<s1, s2, s3, s4, s5, s6, s7, s8, s9, s10, s12, s13, s14, s15>>
    BY <1>7 DEF W!Deadline, W!session, W!call, W!history
  <2>2. W!TypeOK' /\ LogInv' /\ SeenInv'
    BY <2>1 DEF EventInv, W!TypeOK, LogInv, SeenInv
  <2>3. ReadInv'
    BY <2>1 DEF EventInv, ReadInv, Unwanted
  <2> QED BY <2>2, <2>3 DEF EventInv
<1> QED BY <1>1, <1>2, <1>3, <1>4, <1>5, <1>6, <1>7

LEMMA EventStep == Red <= Warn /\ EventInv /\ (W!Next \/ UNCHANGED slots) => EventInv'
<1> SUFFICES ASSUME Red <= Warn, EventInv, W!Next \/ UNCHANGED slots PROVE EventInv'
  OBVIOUS
<1>1. CASE UNCHANGED slots
  <2>1. W!TypeOK' /\ LogInv' /\ SeenInv'
    BY <1>1 DEF slots, EventInv, W!TypeOK, LogInv, SeenInv
  <2>2. ReadInv'
    BY <1>1 DEF slots, EventInv, ReadInv, Unwanted
  <2> QED BY <2>1, <2>2 DEF EventInv
<1> QED BY <1>1, SessionStep, ReadStep, CallStep DEF W!Next

LEMMA EventTells ==
  EventInv => W!TypeOK /\ W!FirstIsReturned /\ W!NothingIsSleptThrough /\ W!EndIsTold /\ W!CrossingIsReal
<1> SUFFICES ASSUME EventInv PROVE W!FirstIsReturned /\ W!NothingIsSleptThrough /\ W!EndIsTold /\ W!CrossingIsReal
  BY DEF EventInv
<1>1. s10.line \in Nat /\ s12 \in Nat /\ s7 \in Nat /\ s15.lines \in Nat
  BY DEF EventInv, ReadInv, W!TypeOK, Results
<1>2. W!FirstIsReturned
  <2> SUFFICES ASSUME s10.line > 0, s2 # None, NEW i \in (s12 + 1)..(s10.line - 1)
               PROVE  s10.line > s12 /\ s2[2 * i] \notin s6
    BY <1>1 DEF W!FirstIsReturned, EventInv, ReadInv
  <2>1. s7 = 2 * s10.line /\ s10.line > s12 /\ Unwanted(s7 - 1)
    BY DEF EventInv, ReadInv
  <2>2. i \in Nat /\ 2 * i \in (2 * s12 + 1)..(s7 - 1) /\ (2 * i) % 2 = 0
    BY <1>1, <2>1
  <2> QED BY <2>1, <2>2 DEF Unwanted
<1>3. W!NothingIsSleptThrough
  <2> SUFFICES ASSUME s10.kind = "timed_out", s2 # None, NEW i \in (2 * s12 + 1)..s15.lines, i % 2 = 0
               PROVE  s2[i] \notin s6
    BY DEF W!NothingIsSleptThrough
  <2>1. s10.line = 0 /\ Unwanted(s7) /\ s15.lines <= s7 + 1 /\ s7 % 2 = 0
    BY DEF EventInv, ReadInv
  <2>2. i \in Nat /\ i <= s7
    <3>1. PICK a \in Nat, b \in Nat : a = s7 /\ b = i /\ b <= a + 1 /\ a % 2 = 0 /\ b % 2 = 0
      BY <1>1, <2>1
    <3>2. ~(a < b)
      BY <3>1, Lines
    <3> QED BY <3>1, <3>2
  <2> QED BY <1>1, <2>1, <2>2 DEF Unwanted
<1>4. W!EndIsTold /\ W!CrossingIsReal
  BY DEF EventInv, SeenInv, W!EndIsTold, W!CrossingIsReal
<1> QED BY <1>2, <1>3, <1>4

----------------------------------------------------------------------------
(* News reach whoever waits for them. A plugin that answers is told in     *)
(* time; the notices file says what the session last had to say; a call    *)
(* that waits returns the first event it wanted and misses neither the end *)
(* nor a crossing of a threshold; a request is answered in its time. The   *)
(* pool must have a thread for each request, as waits keep theirs, and the *)
(* red threshold must not be above the other.                              *)

NewsInv ==
  /\ story = "reports" => ReportsInv
  /\ story = "wait event" => EventInv
  /\ story = "mcp" => McpInv

\* News arrive, for every number of lines, plugins, requests and seconds.
THEOREM NewsAlwaysArrive ==
  ASSUME PoolSuffices, Red <= Warn
  PROVE  StorySpec => []NewsArrives
<1>1. StoryInit => NewsInv
  <2> SUFFICES ASSUME StoryInit PROVE NewsInv
    OBVIOUS
  <2>1. /\ story = "reports" => R!Init
        /\ story = "wait event" => W!Init
        /\ story = "mcp" => Y!Init
    BY DEF StoryInit
  <2> QED BY <2>1, ReportsBegin, EventBegins, McpBegins DEF NewsInv
<1>2. NewsInv /\ [StoryNext]_storyVars => NewsInv'
  <2> SUFFICES ASSUME NewsInv, [StoryNext]_storyVars PROVE NewsInv'
    OBVIOUS
  <2> QED BY StorySteps, ReportsStep, EventStep, McpStep DEF NewsInv
<1>3. NewsInv => NewsArrives
  BY ReportsTell, EventTells, McpTells DEF NewsInv, NewsArrives
<1> QED BY <1>1, <1>2, <1>3, PTL DEF StorySpec
=============================================================================
