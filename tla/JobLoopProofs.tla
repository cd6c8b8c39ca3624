--------------------------- MODULE JobLoopProofs ---------------------------
(* What holds of the supervisor loop for every value of its constants: the  *)
(* types, the honesty of the state file, the conditions under which the red *)
(* alarm is raised, and what the session is ended for.                      *)
EXTENDS JobLoop, TLAPS

USE NoneAssumption, TimeAssumption, ThresholdAssumption, EpochAssumption

\* The clamp is a natural number, and no smaller than what it clamps.
LEMMA NonNegFacts ==
  \A n \in Int : NonNeg(n) \in Nat /\ n <= NonNeg(n) /\ (n > 0 => NonNeg(n) = n)
  BY DEF NonNeg

\* The steps of the loop that touch the deadline, one disjunct per action.
LEMMA NextSplit ==
  ASSUME [Next]_vars, NEW P,
         UNCHANGED vars => P,
         Advance => P, ChangeLimit => P, SessionLost => P, Poke => P, Signal => P,
         BeginTick => P, CheckAlive => P, Refresh => P, NoDeadline => P,
         Calm => P, Red => P, EnterRed => P, NearEnd => P,
         EndSession => P, LeaveLoop => P, Teardown => P
  PROVE  P
  BY DEF Next, Environment, Tick, Leave

\* Every variable keeps its type; the stamps never run ahead of the clock.
THEOREM TypeCorrect == Spec => []TypeOK
<1>1. Init => TypeOK
  <2>. SUFFICES ASSUME Init PROVE TypeOK
    OBVIOUS
  <2>1. StampType
    BY DEF Init, StampType, Later
  <2>2. EndType
    BY DEF Init, EndType
  <2>3. FlagType
    BY DEF Init, FlagType, Labels, Looping, Severities
  <2>. QED BY <2>1, <2>2, <2>3 DEF TypeOK
<1>2. ASSUME TypeOK, [Next]_vars PROVE TypeOK'
  <2>. USE <1>2 DEF TypeOK
  <2>1. CASE UNCHANGED vars
    BY <2>1 DEF vars, env, loop, deadline, alive, warnings, status, outside,
                StampType, EndType, FlagType
  <2>2. CASE Advance
    <3>1. StampType'
      BY <2>2 DEF StampType, Later, OverdueAt,
           Advance, loop, deadline, alive, warnings, status, outside
    <3>2. EndType'
      BY <2>2 DEF EndType, StampType,
           Advance, loop, deadline, alive, warnings, status, outside
    <3>3. FlagType'
      BY <2>2 DEF FlagType, Labels, Looping, Severities,
           Advance, loop, deadline, alive, warnings, status, outside
    <3>. QED BY <3>1, <3>2, <3>3
  <2>3. CASE ChangeLimit
    <3>1. StampType'
      BY <2>3 DEF StampType, Later,
           ChangeLimit, loop, deadline, alive, warnings, status, outside
    <3>2. EndType'
      BY <2>3 DEF EndType, StampType,
           ChangeLimit, loop, deadline, alive, warnings, status, outside
    <3>3. FlagType'
      BY <2>3 DEF FlagType, Labels, Looping, Severities,
           ChangeLimit, loop, deadline, alive, warnings, status, outside
    <3>. QED BY <3>1, <3>2, <3>3
  <2>4. CASE SessionLost \/ Poke \/ Signal
    <3>1. StampType'
      BY <2>4 DEF StampType, SessionLost, Poke, Signal, loop, deadline, alive,
                  status, outside
    <3>2. EndType'
      BY <2>4 DEF EndType, StampType, SessionLost, Poke, Signal, loop, deadline
    <3>3. FlagType'
      <4>1. SessionLost => FlagType'
        BY DEF SessionLost, FlagType, loop, warnings, status, outside
      <4>2. Poke => FlagType'
        BY DEF Poke, FlagType, loop, warnings, status, outside
      <4>3. Signal => FlagType'
        BY DEF Signal, FlagType, loop, warnings, status, outside
      <4>. QED BY <2>4, <4>1, <4>2, <4>3
    <3>. QED BY <3>1, <3>2, <3>3
  <2>5. CASE BeginTick
    <3>1. StampType'
      BY <2>5 DEF StampType, Later,
           BeginTick, env, deadline, alive, warnings, status, outside
    <3>2. EndType'
      BY <2>5 DEF EndType, StampType,
           BeginTick, env, deadline, alive, warnings, status, outside
    <3>3. FlagType'
      BY <2>5 DEF FlagType, Labels, Looping, Severities,
           BeginTick, env, deadline, alive, warnings, status, outside
    <3>. QED BY <3>1, <3>2, <3>3
  <2>6. CASE CheckAlive
    <3>1. StampType'
      BY <2>6 DEF StampType, Later,
           CheckAlive, env, deadline, alive, warnings, status, outside
    <3>2. EndType'
      BY <2>6 DEF EndType, StampType,
           CheckAlive, env, deadline, alive, warnings, status, outside
    <3>3. FlagType'
      BY <2>6 DEF FlagType, Labels, Looping, Severities,
           CheckAlive, env, deadline, alive, warnings, status, outside
    <3>. QED BY <3>1, <3>2, <3>3
  <2>7. CASE Refresh
    <3>1. StampType'
      BY <2>7 DEF StampType, Later,
           Refresh, RefreshEndEpoch, Answers, deadline, alive, warnings,
           status, outside
    <3>2. EndType'
      BY <2>7 DEF EndType, StampType,
           Refresh, RefreshEndEpoch, Answers, deadline, alive, warnings,
           status, outside
    <3>3. FlagType'
      BY <2>7 DEF FlagType, Labels, Looping, Severities,
           Refresh, RefreshEndEpoch, Answers, deadline, alive, warnings,
           status, outside
    <3>. QED BY <3>1, <3>2, <3>3
  <2>8. CASE NoDeadline
    <3>1. StampType'
      BY <2>8 DEF StampType, Later,
           NoDeadline, Send, SendStatus, Sleep, env, deadline, alive, warnings
    <3>2. EndType'
      BY <2>8 DEF EndType, StampType,
           NoDeadline, Send, SendStatus, Sleep, env, deadline, alive, warnings
    <3>3. FlagType'
      BY <2>8 DEF FlagType, Labels, Looping, Severities,
           NoDeadline, Send, SendStatus, Sleep, env, deadline, alive, warnings
    <3>. QED BY <3>1, <3>2, <3>3
  <2>9. CASE Calm
    <3>1. StampType'
      BY <2>9 DEF StampType, Later,
           Calm, CheckWalltimeEvents, WriteState, StateFile, Send, SendStatus, Sleep,
           env, deadline, alive, warnings, status
    <3>2. EndType'
      BY <2>9, NonNegFacts DEF EndType, StampType,
           Calm, CheckWalltimeEvents, WriteState, StateFile, Send, SendStatus, Sleep,
           env, deadline, alive, warnings, status
    <3>3. FlagType'
      <4>1. shown' \in Severities
        BY <2>9 DEF FlagType, Severities, Calm, Send, SendStatus
      <4>2. warned' \in BOOLEAN /\ redWarned' \in BOOLEAN /\ inRed' \in BOOLEAN
        <5>1. PICK r \in Int : CheckWalltimeEvents(r) /\ inRed' = FALSE
          BY <2>9, NonNegFacts DEF Calm, StampType, EndType
        <5>2. (r <= WalltimeWarn) \in BOOLEAN /\ (r <= WalltimeRed) \in BOOLEAN
          OBVIOUS
        <5>. QED BY <5>1, <5>2, Zenon DEF CheckWalltimeEvents
      <4>. QED
        BY <2>9, <4>1, <4>2 DEF FlagType, Labels, Looping, Calm, Sleep, env
    <3>. QED BY <3>1, <3>2, <3>3
  <2>10. CASE Red
    <3>1. StampType'
      BY <2>10 DEF StampType, Later,
           Red, RedOrEnd, CheckWalltimeEvents, WriteState, StateFile, Send,
           SendStatus, Sleep, env, deadline, alive, status
    <3>2. EndType'
      BY <2>10, NonNegFacts DEF EndType, StampType,
           Red, RedOrEnd, CheckWalltimeEvents, WriteState, StateFile, Send,
           SendStatus, Sleep, env, deadline, alive, status
    <3>3. FlagType'
      BY <2>10 DEF FlagType, Labels, Looping, Severities,
           Red, RedOrEnd, CheckWalltimeEvents, WriteState, StateFile, Send,
           SendStatus, Sleep, env, deadline, alive, status
    <3>. QED BY <3>1, <3>2, <3>3
  <2>11. CASE EnterRed
    <3>1. StampType'
      BY <2>11 DEF StampType, Later,
           EnterRed, RedOrEnd, RefreshEndEpoch, Answers, Send, SendStatus, Sleep, env,
           deadline, alive, warnings, status
    <3>2. EndType'
      BY <2>11 DEF EndType, StampType,
           EnterRed, RedOrEnd, RefreshEndEpoch, Answers, Send, SendStatus, Sleep, env,
           deadline, alive, warnings, status
    <3>3. FlagType'
      BY <2>11 DEF FlagType, Labels, Looping, Severities,
           EnterRed, RedOrEnd, RefreshEndEpoch, Answers, Send, SendStatus, Sleep, env,
           deadline, alive, warnings, status
    <3>. QED BY <3>1, <3>2, <3>3
  <2>12. CASE NearEnd
    <3>1. StampType'
      BY <2>12 DEF StampType, Later,
           NearEnd, RefreshEndEpoch, Answers, Send, SendStatus, Sleep, env, deadline,
           alive, warnings, status
    <3>2. EndType'
      BY <2>12 DEF EndType, StampType,
           NearEnd, RefreshEndEpoch, Answers, Send, SendStatus, Sleep, env, deadline,
           alive, warnings, status
    <3>3. FlagType'
      BY <2>12 DEF FlagType, Labels, Looping, Severities,
           NearEnd, RefreshEndEpoch, Answers, Send, SendStatus, Sleep, env, deadline,
           alive, warnings, status
    <3>. QED BY <3>1, <3>2, <3>3
  <2>13. CASE EndSession \/ LeaveLoop \/ Teardown
    <3>1. StampType'
      BY <2>13 DEF StampType, Later,
           EndSession, LeaveLoop, Teardown, KillSession, deadline,
           alive, warnings, status, outside
    <3>2. EndType'
      BY <2>13 DEF EndType, StampType,
           EndSession, LeaveLoop, Teardown, KillSession, deadline,
           alive, warnings, status, outside
    <3>3. FlagType'
      BY <2>13 DEF FlagType, Labels, Looping, Severities,
           EndSession, LeaveLoop, Teardown, KillSession, deadline,
           alive, warnings, status, outside
    <3>. QED BY <3>1, <3>2, <3>3
  <2>. QED
    BY <2>1, <2>2, <2>3, <2>4, <2>5, <2>6, <2>7, <2>8, <2>9, <2>10, <2>11,
       <2>12, <2>13, NextSplit
<1>. QED BY <1>1, <1>2, PTL DEF Spec

----------------------------------------------------------------------------
(* The honesty of the state file.                                          *)

\* Slurm's end is true now; the loop's was true when it was last confirmed;
\* the file's was true when the file says, and its countdown agrees with it.
HonestInv ==
  /\ lastTrue[slurmEnd] = clock
  /\ endEpoch # None => lastTrue[endEpoch] >= endChecked
  /\ FileHonest
  /\ file # None => file.remaining = NonNeg(file.end - file.updated)

\* The history of an end time is a second up to the present one.
LEMMA LastTrueType ==
  ASSUME TypeOK
  PROVE  /\ clock \in Nat /\ now \in Nat /\ now <= clock
         /\ endChecked \in Nat
         /\ \A e \in Ends : e \in Nat /\ lastTrue[e] \in Nat /\ lastTrue[e] <= clock
<1>1. clock \in Nat /\ now \in Nat /\ now <= clock /\ endChecked \in Nat
  BY DEF TypeOK, StampType
<1>2. ASSUME NEW e \in Ends PROVE lastTrue[e] \in 0..clock
  BY DEF TypeOK, EndType
<1>. QED BY <1>1, <1>2

\* Any query leaves the loop with an end that was true when it was asked.
LEMMA QueryHonest ==
  ASSUME TypeOK, HonestInv, NEW a \in Answers, RefreshEndEpoch(a),
         UNCHANGED <<clock, slurmEnd, lastTrue, file>>
  PROVE  HonestInv'
  BY DEF TypeOK, StampType, EndType, HonestInv, FileHonest, Answers,
         RefreshEndEpoch

\* A write publishes an end that is still fresh enough.
LEMMA WriteHonest ==
  ASSUME TypeOK, HonestInv, endEpoch # None, WriteState,
         UNCHANGED <<clock, slurmEnd, lastTrue, deadline>>
  PROVE  HonestInv'
<1>1. CASE WriteDue
  <2>1. file' = StateFile(endEpoch, now)
    BY <1>1 DEF WriteState
  <2>2. lastTrue[endEpoch] >= now - EndMinGap
    BY <1>1, LastTrueType DEF WriteDue, HonestInv, TypeOK, EndType
  <2>. QED
    BY <2>1, <2>2 DEF HonestInv, FileHonest, StateFile, deadline
<1>2. CASE ~WriteDue
  BY <1>2 DEF WriteState, HonestInv, FileHonest, deadline
<1>. QED BY <1>1, <1>2

\* What neither the environment's truth nor the loop's knowledge touches.
LEMMA IdleHonest ==
  ASSUME HonestInv, UNCHANGED <<clock, slurmEnd, lastTrue, deadline, file>>
  PROVE  HonestInv'
  BY DEF HonestInv, FileHonest, deadline

\* The inductive invariant behind FileHonest and ReaderContract.
THEOREM Honesty == Spec => []HonestInv
<1>1. Init => HonestInv
  BY DEF Init, HonestInv, FileHonest
<1>2. ASSUME TypeOK, HonestInv, [Next]_vars PROVE HonestInv'
  <2>. USE <1>2
  <2>1. CASE UNCHANGED vars
    BY <2>1, IdleHonest DEF vars, env, loop, deadline
  <2>2. CASE Advance
    <3>1. \A e \in Ends : lastTrue'[e] >= lastTrue[e]
      BY <2>2, LastTrueType DEF Advance, TypeOK, EndType
    <3>2. lastTrue'[slurmEnd'] = clock'
      BY <2>2 DEF Advance, TypeOK, EndType
    <3>. QED
      BY <2>2, <3>1, <3>2
         DEF Advance, loop, deadline, HonestInv, FileHonest, TypeOK, StampType,
             EndType
  <2>3. CASE ChangeLimit
    <3>1. PICK n \in Ends : slurmEnd' = n /\ lastTrue' = [lastTrue EXCEPT ![n] = clock]
      BY <2>3 DEF ChangeLimit
    <3>2. \A e \in Ends : lastTrue'[e] >= lastTrue[e]
      BY <3>1, LastTrueType DEF TypeOK, EndType
    <3>3. lastTrue'[slurmEnd'] = clock
      BY <3>1 DEF TypeOK, EndType
    <3>. QED
      BY <2>3, <3>2, <3>3, LastTrueType
         DEF ChangeLimit, loop, deadline, HonestInv, FileHonest, TypeOK,
             StampType, EndType
  <2>4. CASE SessionLost \/ Poke \/ Signal
    BY <2>4, IdleHonest DEF SessionLost, Poke, Signal, loop, deadline
  <2>5. CASE BeginTick \/ CheckAlive \/ NoDeadline
    BY <2>5, IdleHonest DEF BeginTick, CheckAlive, NoDeadline, env, deadline
  <2>6. CASE Refresh
    BY <2>6, IdleHonest, QueryHonest DEF Refresh
  <2>7. CASE Calm
    BY <2>7, WriteHonest DEF Calm, env
  <2>8. CASE Red
    BY <2>8, WriteHonest DEF Red, env
  <2>9. CASE EnterRed
    BY <2>9, QueryHonest DEF EnterRed, env
  <2>10. CASE NearEnd
    BY <2>10, QueryHonest DEF NearEnd, env
  <2>11. CASE EndSession \/ LeaveLoop
    BY <2>11, IdleHonest DEF EndSession, LeaveLoop, deadline
  <2>12. CASE Teardown
    BY <2>12 DEF Teardown, HonestInv, FileHonest, deadline
  <2>. QED
    BY <2>1, <2>2, <2>3, <2>4, <2>5, <2>6, <2>7, <2>8, <2>9, <2>10, <2>11,
       <2>12, NextSplit
<1>. QED BY <1>1, <1>2, TypeCorrect, PTL DEF Spec

\* How old the knowledge in the state file is: its end was Slurm's at
\* updated_epoch, or at most END_MIN_GAP before it. A limit cut since then is
\* not in it.
THEOREM FileIsHonest == Spec => []FileHonest
<1>1. HonestInv => FileHonest
  BY DEF HonestInv
<1>. QED BY <1>1, Honesty, PTL

\* How old the knowledge a reader is given may be: it gets the exact time to an
\* end that was Slurm's at most STALE_AFTER + END_MIN_GAP ago, or no answer.
THEOREM ReadersAreServed == Spec => []ReaderContract
<1>1. TypeOK /\ HonestInv => ReaderContract
  <2>. SUFFICES ASSUME TypeOK, HonestInv, file # None,
                       AgedRemaining(file, clock) # None
                PROVE  /\ AgedRemaining(file, clock) = NonNeg(file.end - clock)
                       /\ lastTrue[file.end] >= clock - StaleAfter - EndMinGap
    BY DEF ReaderContract
  <2>1. /\ file.end \in Int /\ file.updated \in 0..now /\ clock \in Nat /\ now \in 0..clock
        /\ lastTrue[file.end] \in Int
    <3>1. file \in [end : Ends, remaining : Nat, updated : 0..now]
      BY DEF TypeOK, EndType
    <3>. QED BY <3>1, LastTrueType
  <2>2. /\ clock - file.updated \in 0..StaleAfter
        /\ AgedRemaining(file, clock)
             = NonNeg(NonNeg(file.end - file.updated) - (clock - file.updated))
    BY DEF AgedRemaining, HonestInv
  <2>3. AgedRemaining(file, clock) = NonNeg(file.end - clock)
    BY <2>1, <2>2 DEF NonNeg
  <2>4. lastTrue[file.end] >= clock - StaleAfter - EndMinGap
    BY <2>1, <2>2 DEF HonestInv, FileHonest
  <2>. QED BY <2>3, <2>4
<1>. QED BY <1>1, TypeCorrect, Honesty, PTL

----------------------------------------------------------------------------
(* The red alarm and the end of the session.                               *)

\* Between the red entry and the end: the deadline is known, and inside the
\* line whose query it has just been through.
AlarmInv ==
  /\ pc \in {"enterRed", "nearEnd"} => endEpoch # None
  /\ pc = "enterRed" => /\ endEpoch - now <= WarnRed
                        /\ remaining = NonNeg(endEpoch - now)
  /\ pc = "nearEnd" => endEpoch - now <= Later(WarnRed, Grace)
  /\ EndingIsNear

\* The inductive invariant behind EndingIsNear and RedIsConfirmed.
THEOREM Alarm == Spec => []AlarmInv
<1>1. Init => AlarmInv
  BY DEF Init, AlarmInv, EndingIsNear
<1>2. ASSUME TypeOK, AlarmInv, [Next]_vars PROVE AlarmInv'
  <2>. USE <1>2
  <2>1. CASE UNCHANGED <<pc, now, endEpoch, remaining>>
    BY <2>1 DEF AlarmInv, EndingIsNear
  <2>2. CASE pc' \notin {"enterRed", "nearEnd", "ending"}
    BY <2>2 DEF AlarmInv, EndingIsNear
  <2>3. CASE Red
    <3>1. endEpoch \in Int /\ now \in Int /\ endEpoch' = endEpoch /\ now' = now
      BY <2>3, LastTrueType DEF Red, deadline, TypeOK, EndType
    <3>2. NonNeg(endEpoch - now) <= WarnRed
      BY <2>3 DEF Red
    <3>3. endEpoch - now <= WarnRed
      BY <3>1, <3>2 DEF NonNeg
    <3>4. /\ endEpoch # None /\ pc' \in {"enterRed", "nearEnd", "top"}
          /\ pc' # "top" => remaining' = NonNeg(endEpoch - now)
      BY <2>3 DEF Red, RedOrEnd, Sleep
    <3>. QED BY <3>1, <3>3, <3>4 DEF AlarmInv, EndingIsNear, Later
  <2>4. CASE EnterRed
    <3>1. PICK a \in Answers :
            /\ RefreshEndEpoch(a)
            /\ Extended(a, WarnRed) \/ RedOrEnd(remaining)
            /\ Extended(a, WarnRed) => pc' = "top"
      BY <2>4 DEF EnterRed, Sleep
    <3>2. CASE Extended(a, WarnRed)
      BY <3>1, <3>2, <2>2
    <3>3. CASE ~Extended(a, WarnRed)
      <4>1. /\ endEpoch' # None /\ endEpoch' \in Int /\ now' = now /\ now \in Int
            /\ endEpoch' - now <= WarnRed
        BY <3>1, <3>3, <2>4, LastTrueType
           DEF EnterRed, Extended, RefreshEndEpoch, Answers, AlarmInv, TypeOK,
               EndType
      <4>2. pc' \in {"nearEnd", "top"}
        BY <3>1, <3>3 DEF RedOrEnd, Sleep
      <4>. QED BY <4>1, <4>2 DEF AlarmInv, EndingIsNear, Later
    <3>. QED BY <3>2, <3>3
  <2>5. CASE NearEnd
    <3>1. PICK a \in Answers :
            /\ RefreshEndEpoch(a)
            /\ pc' = IF Extended(a, Grace) THEN "top" ELSE "ending"
      BY <2>5 DEF NearEnd, Sleep
    <3>2. CASE Extended(a, Grace)
      BY <3>1, <3>2, <2>2
    <3>3. CASE ~Extended(a, Grace)
      <4>1. /\ endEpoch' \in Int /\ now' = now /\ now \in Int
            /\ endEpoch' - now <= Later(WarnRed, Grace)
        BY <3>1, <3>3, <2>5, LastTrueType
           DEF NearEnd, Extended, RefreshEndEpoch, Answers, AlarmInv, TypeOK,
               EndType, Later
      <4>. QED BY <4>1, <3>1, <3>3 DEF AlarmInv, EndingIsNear
    <3>. QED BY <3>2, <3>3
  <2>6. CASE UNCHANGED vars \/ Environment
    <3>1. UNCHANGED <<pc, now, endEpoch, remaining>>
      BY <2>6 DEF Environment, Advance, ChangeLimit, SessionLost, Poke, Signal,
                  vars, loop, deadline
    <3>. QED BY <3>1, <2>1
  <2>7. CASE \/ BeginTick \/ CheckAlive \/ Refresh \/ NoDeadline \/ Calm
             \/ EndSession \/ LeaveLoop \/ Teardown
    <3>1. pc' \notin {"enterRed", "nearEnd", "ending"}
      BY <2>7 DEF BeginTick, CheckAlive, Refresh, NoDeadline, Calm, EndSession,
                  LeaveLoop, Teardown, Sleep
    <3>. QED BY <3>1, <2>2
  <2>. QED
    BY <2>3, <2>4, <2>5, <2>6, <2>7 DEF Next, Tick, Leave
<1>. QED BY <1>1, <1>2, TypeCorrect, PTL DEF Spec

\* The session is never ended on a deadline last confirmed beyond the red
\* phase (and the grace).
THEOREM EndingNeedsTheRedPhase == Spec => []EndingIsNear
<1>1. AlarmInv => EndingIsNear
  BY DEF AlarmInv
<1>. QED BY <1>1, Alarm, PTL

\* No red message arrives on a deadline last confirmed outside warn_red.
THEOREM RedNeedsConfirmation == Spec => RedIsConfirmed
<1>1. ASSUME TypeOK, AlarmInv, [Next]_vars, Arrives, shown' = "red"
      PROVE  endEpoch' - now <= WarnRed
  <2>. USE <1>1 DEF Arrives
  <2>1. Red \/ EnterRed
    <3>1. ~(UNCHANGED status)
      BY DEF status
    <3>2. ~(UNCHANGED vars \/ Environment \/ Leave)
      BY <3>1 DEF vars, loop, Environment, Advance, ChangeLimit, SessionLost,
                  Poke, Signal, Leave, EndSession, LeaveLoop, Teardown
    <3>3. ~(BeginTick \/ CheckAlive \/ Refresh)
      BY <3>1 DEF BeginTick, CheckAlive, Refresh
    <3>4. ASSUME NEW severity, NEW last, Send(severity, last), last = None \/ last = lastSent
          PROVE  severity = "red"
      <4>1. SendStatus(severity)
        BY <3>4 DEF Send
      <4>2. clock \in Nat /\ \A p \in Pauses : clock + p # 0
        BY DEF TypeOK, StampType, Later
      <4>3. pipeResume \in Nat
        BY DEF TypeOK, StampType
      <4>4. ~(clock < pipeResume)
        BY <4>2, <4>3
      <4>. QED BY <4>1, <4>2, <4>4 DEF SendStatus
    <3>5. ~(NoDeadline \/ NearEnd)
      BY <3>1, <3>4 DEF NoDeadline, NearEnd
    <3>6. ~Calm
      <4>1. SUFFICES ASSUME Calm PROVE FALSE
        OBVIOUS
      <4>2. PICK severity \in {"ok", "yellow"} : Send(severity, lastSent)
        BY <4>1 DEF Calm
      <4>. QED BY <3>4, <4>2
    <3>. QED BY <3>2, <3>3, <3>5, <3>6 DEF Next, Tick
  <2>2. CASE Red
    <3>1. endEpoch \in Int /\ now \in Int /\ endEpoch' = endEpoch
      <4>1. endEpoch # None /\ endEpoch' = endEpoch
        BY <2>2 DEF Red, deadline
      <4>2. endEpoch \in Ends \cup {None}
        BY DEF TypeOK, EndType
      <4>. QED BY <4>1, <4>2, LastTrueType
    <3>2. NonNeg(endEpoch - now) <= WarnRed
      BY <2>2 DEF Red
    <3>. QED BY <3>1, <3>2 DEF NonNeg
  <2>3. CASE EnterRed
    <3>1. PICK a \in Answers :
            /\ RefreshEndEpoch(a)
            /\ Extended(a, WarnRed) => UNCHANGED status
      BY <2>3 DEF EnterRed
    <3>2. ~Extended(a, WarnRed)
      BY <3>1 DEF status
    <3>. QED
      BY <3>1, <3>2, <2>3, LastTrueType
         DEF EnterRed, Extended, RefreshEndEpoch, Answers, AlarmInv, TypeOK,
             EndType
  <2>. QED BY <2>1, <2>2, <2>3
<1>. QED BY <1>1, TypeCorrect, Alarm, PTL DEF Spec, RedIsConfirmed

----------------------------------------------------------------------------
(* In time: the teardown starts before the deadline the loop knows.        *)

\* The loop's deadline was outside the grace when it was last confirmed.
Known == endEpoch # None /\ endEpoch - endChecked > Grace

\* How far the clock runs ahead of a loop that is not overdue, and how much of
\* a known deadline is left between ticks and inside one, if the loop was not
\* overdue in the grace before it.
PaceInv ==
  /\ pc \in Looping =>
       \/ clock <= now + MaxLag + (IF pc = "top" THEN 1 ELSE 0)
       \/ lateAt = clock
  /\ pc = "enterRed" => endEpoch # None /\ remaining = NonNeg(endEpoch - now)
  /\ Known /\ lateAt + Grace < endEpoch =>
       /\ pc = "top" => endEpoch > now + 1 + 2 * MaxLag
       /\ pc \in Looping \ {"top"} => endEpoch > now + MaxLag

\* The numbers PaceInv speaks of.
LEMMA PaceType ==
  ASSUME TypeOK
  PROVE  /\ clock \in Nat /\ now \in Nat /\ lateAt \in Nat /\ endChecked \in Nat
         /\ now <= clock
         /\ endEpoch # None => endEpoch \in Nat
         /\ \A a \in Answers : a # None => a \in Nat
<1>1. clock \in Nat /\ now \in Nat /\ lateAt \in Nat /\ endChecked \in Nat /\ now <= clock
  BY DEF TypeOK, StampType
<1>2. (endEpoch # None => endEpoch \in Nat) /\ \A a \in Answers : a # None => a \in Nat
  BY DEF TypeOK, EndType, Answers
<1>. QED BY <1>1, <1>2

\* A tick that ends with a sleep and a deadline still far enough keeps pace.
LEMMA SleepsInTime ==
  ASSUME TypeOK, PaceInv, Timely, pc' = "top", pc \in Looping \ {"top"},
         clock' = clock, now' = now, lateAt' = lateAt,
         Known' => endEpoch' \in Nat /\ endEpoch' > now + 1 + 2 * MaxLag
  PROVE  PaceInv'
  BY PaceType DEF PaceInv, Looping

\* A call inside a tick that does not end it keeps pace.
LEMMA StaysInTick ==
  ASSUME TypeOK, PaceInv, Timely,
         clock' = clock, now' = now, lateAt' = lateAt,
         pc \in Looping \ {"top"}, pc' \in Looping \ {"top"},
         pc' = "enterRed" => endEpoch' # None /\ remaining' = NonNeg(endEpoch' - now),
         \/ UNCHANGED deadline
         \/ \E a \in Answers : RefreshEndEpoch(a)
  PROVE  PaceInv'
<1>1. Known' /\ lateAt + Grace < endEpoch' => endEpoch' > now + MaxLag
  <2>1. CASE UNCHANGED deadline
    BY <2>1 DEF PaceInv, Known, deadline
  <2>2. CASE \E a \in Answers : RefreshEndEpoch(a)
    <3>1. PICK a \in Answers : RefreshEndEpoch(a)
      BY <2>2
    <3>2. CASE a = None
      BY <3>1, <3>2 DEF RefreshEndEpoch, PaceInv, Known
    <3>3. CASE a # None
      BY <3>1, <3>3, PaceType DEF RefreshEndEpoch, Known, Timely
    <3>. QED BY <3>2, <3>3
  <2>. QED BY <2>1, <2>2
<1>. QED BY <1>1 DEF PaceInv

\* The inductive invariant behind EndsBeforeDeadline.
THEOREM Pace == ASSUME Timely PROVE Spec => []PaceInv
<1>1. Init => PaceInv
  BY DEF Init, PaceInv, Known, Looping
<1>2. ASSUME TypeOK, PaceInv, [Next]_vars PROVE PaceInv'
  <2>. USE <1>2, PaceType
  <2>1. CASE UNCHANGED <<clock, lateAt, now, pc, endEpoch, endChecked, remaining>>
    BY <2>1 DEF PaceInv, Known
  <2>2. CASE Advance
    <3>1. /\ clock' = clock + 1
          /\ lateAt' = IF OverdueAt(clock + 1) THEN clock + 1 ELSE lateAt
          /\ UNCHANGED <<now, pc, endEpoch, endChecked, remaining>>
      BY <2>2 DEF Advance, loop, deadline
    <3>2. lateAt' >= lateAt
      BY <3>1 DEF TypeOK, StampType
    <3>3. Known' /\ lateAt' + Grace < endEpoch' => Known /\ lateAt + Grace < endEpoch
      BY <3>1, <3>2 DEF Known
    <3>4. pc \in Looping =>
            \/ clock' <= now + MaxLag + (IF pc = "top" THEN 1 ELSE 0)
            \/ lateAt' = clock'
      BY <3>1 DEF OverdueAt
    <3>. QED BY <3>1, <3>3, <3>4 DEF PaceInv
  <2>3. CASE pc' \notin Looping
    BY <2>3 DEF PaceInv, Looping
  <2>4. CASE BeginTick
    <3>1. /\ pc = "top" /\ pc' = "alive" /\ now' = clock
          /\ UNCHANGED <<clock, lateAt, endEpoch, endChecked>>
      BY <2>4 DEF BeginTick, env, deadline
    <3>2. Known /\ lateAt + Grace < endEpoch => endEpoch > clock + MaxLag
      BY <3>1 DEF PaceInv, Known, Timely, Looping
    <3>. QED BY <3>1, <3>2 DEF PaceInv, Known, Looping
  <2>5. CASE CheckAlive
    <3>1. /\ pc = "alive" /\ pc' \in {"refresh", "gone"}
          /\ UNCHANGED <<clock, lateAt, now, deadline>>
      BY <2>5 DEF CheckAlive, env
    <3>. QED BY <3>1, <2>3, StaysInTick DEF Looping
  <2>6. CASE Refresh
    <3>1. /\ pc = "refresh" /\ pc' = "decide" /\ UNCHANGED <<clock, lateAt, now>>
          /\ UNCHANGED deadline \/ \E a \in Answers : RefreshEndEpoch(a)
      BY <2>6 DEF Refresh
    <3>. QED BY <3>1, StaysInTick DEF Looping
  <2>7. CASE NoDeadline
    <3>1. /\ pc = "decide" /\ pc' = "top" /\ endEpoch' = None
          /\ UNCHANGED <<clock, lateAt, now>>
      BY <2>7 DEF NoDeadline, Sleep, env, deadline
    <3>. QED BY <3>1, SleepsInTime DEF Known, Looping
  <2>8. CASE Calm
    <3>1. /\ pc = "decide" /\ endEpoch # None /\ pc' = "top"
          /\ UNCHANGED <<clock, lateAt, now, endEpoch>>
          /\ \/ NonNeg(endEpoch - now) > WarnYellow
             \/ NonNeg(endEpoch - now) > WarnRed
      BY <2>8 DEF Calm, Sleep, env, deadline
    <3>2. endEpoch > now + 1 + 2 * MaxLag
      BY <3>1 DEF NonNeg, Timely
    <3>. QED BY <3>1, <3>2, SleepsInTime DEF Looping
  <2>9. CASE Red
    <3>1. /\ pc = "decide" /\ endEpoch # None
          /\ UNCHANGED <<clock, lateAt, now, deadline>>
          /\ \/ pc' = "enterRed" /\ remaining' = NonNeg(endEpoch - now)
             \/ RedOrEnd(NonNeg(endEpoch - now))
      BY <2>9 DEF Red, env
    <3>2. CASE pc' # "top"
      <4>1. pc' \in {"enterRed", "nearEnd"}
        BY <3>1, <3>2 DEF RedOrEnd, Sleep
      <4>2. pc' = "enterRed" => remaining' = NonNeg(endEpoch - now)
        BY <3>1, <3>2 DEF RedOrEnd, Sleep
      <4>. QED BY <3>1, <4>1, <4>2, StaysInTick DEF Looping, deadline
    <3>3. CASE pc' = "top"
      <4>1. ~(NonNeg(endEpoch - now) <= Grace)
        BY <3>1, <3>3 DEF RedOrEnd
      <4>2. endEpoch > now + 1 + 2 * MaxLag
        BY <4>1, <3>1 DEF NonNeg, Timely
      <4>. QED BY <3>1, <3>3, <4>2, SleepsInTime DEF Looping, deadline
    <3>. QED BY <3>2, <3>3
  <2>10. CASE EnterRed
    <3>1. PICK a \in Answers :
            /\ RefreshEndEpoch(a)
            /\ \/ Extended(a, WarnRed) /\ pc' = "top"
               \/ RedOrEnd(remaining)
      BY <2>10 DEF EnterRed, Sleep
    <3>2. pc = "enterRed" /\ UNCHANGED <<clock, lateAt, now>>
      BY <2>10 DEF EnterRed, env
    <3>3. CASE pc' = "nearEnd"
      BY <3>1, <3>2, <3>3, StaysInTick DEF Looping
    <3>4. CASE Extended(a, WarnRed) /\ pc' = "top"
      <4>1. endEpoch' = a /\ a \in Nat /\ a > now + 1 + 2 * MaxLag
        BY <3>1, <3>4 DEF Extended, RefreshEndEpoch, Timely
      <4>. QED BY <3>2, <3>4, <4>1, SleepsInTime DEF Looping
    <3>5. CASE remaining > Grace /\ pc' = "top"
      <4>1. endEpoch \in Nat /\ remaining = NonNeg(endEpoch - now)
        BY <3>2 DEF PaceInv
      <4>2. endEpoch > now + 1 + 2 * MaxLag
        BY <3>5, <4>1 DEF NonNeg, Timely
      <4>3. Known' => endEpoch' \in Nat /\ endEpoch' > now + 1 + 2 * MaxLag
        BY <3>1, <4>1, <4>2 DEF RefreshEndEpoch, Known, Timely
      <4>. QED BY <3>2, <3>5, <4>3, SleepsInTime DEF Looping
    <3>6. remaining \in Nat
      BY <3>2, NonNegFacts DEF PaceInv
    <3>. QED BY <3>1, <3>3, <3>4, <3>5, <3>6 DEF RedOrEnd, Sleep
  <2>11. CASE NearEnd
    <3>1. PICK a \in Answers :
            /\ RefreshEndEpoch(a)
            /\ \/ Extended(a, Grace) /\ pc' = "top"
               \/ pc' = "ending"
      BY <2>11 DEF NearEnd, Sleep
    <3>2. pc = "nearEnd" /\ UNCHANGED <<clock, lateAt, now>>
      BY <2>11 DEF NearEnd, env
    <3>3. CASE Extended(a, Grace) /\ pc' = "top"
      <4>1. endEpoch' = a /\ a \in Nat /\ a > now + 1 + 2 * MaxLag
        BY <3>1, <3>3 DEF Extended, RefreshEndEpoch, Timely
      <4>. QED BY <3>2, <3>3, <4>1, SleepsInTime DEF Looping
    <3>. QED BY <3>1, <3>3, <2>3 DEF Looping
  <2>12. CASE UNCHANGED vars \/ ChangeLimit \/ SessionLost \/ Poke \/ Signal
    <3>1. UNCHANGED <<clock, lateAt, now, pc, endEpoch, endChecked, remaining>>
      BY <2>12 DEF ChangeLimit, SessionLost, Poke, Signal, vars, env, loop, deadline
    <3>. QED BY <3>1, <2>1
  <2>13. CASE Leave
    <3>1. pc' \notin Looping
      BY <2>13 DEF Leave, EndSession, LeaveLoop, Teardown, Looping
    <3>. QED BY <3>1, <2>3
  <2>. QED
    BY <2>2, <2>4, <2>5, <2>6, <2>7, <2>8, <2>9, <2>10, <2>11, <2>12, <2>13
       DEF Next, Environment, Tick
<1>. QED BY <1>1, <1>2, TypeCorrect, PTL DEF Spec

\* A loop that knew its deadline with the grace to come, and was not overdue in
\* the grace, leaves before it; the thresholds must be above 2 * MaxLag.
THEOREM EndsInTime == Spec => []EndsBeforeDeadline
<1>1. CASE Timely
  <2>1. TypeOK /\ PaceInv => EndsBeforeDeadline
    <3>. SUFFICES ASSUME TypeOK, PaceInv, pc \in Looping, Known,
                       lateAt < endEpoch - Grace
                PROVE  clock < endEpoch
      BY DEF EndsBeforeDeadline, Known
    <3>. QED BY PaceType, <1>1 DEF PaceInv, Known, Timely, Looping
  <2>. QED BY <1>1, <2>1, TypeCorrect, Pace, PTL
<1>2. CASE ~Timely
  <2>1. EndsBeforeDeadline
    BY <1>2 DEF EndsBeforeDeadline
  <2>. QED BY <2>1, PTL
<1>. QED BY <1>1, <1>2

----------------------------------------------------------------------------
(* The reasons a session is ended for.                                     *)

\* The second the session's silence is counted from: its last answer, or one
\* cadence before the loop started.
SilentFrom == IF lastUp = None THEN Start - AliveEvery ELSE lastUp

\* Every miss stands for a cadence of silence up to the last check.
SilenceInv ==
  /\ aliveChecked = None => misses = 0 /\ lastUp = None
  /\ aliveChecked # None => aliveChecked - SilentFrom >= misses * AliveEvery
  /\ pc = "gone" => aliveChecked = now /\ misses >= AliveMisses

\* What the tick of an alarm knows of the deadline has been announced.
Announced(r) == /\ r <= WalltimeRed => redWarned
                /\ r <= WalltimeWarn => warned
AnnouncedInv ==
  /\ pc \in {"enterRed", "nearEnd"} => remaining \in Nat /\ Announced(remaining)
  /\ pc = "nearEnd" => remaining <= Grace
  /\ EndingIsAnnounced

\* Counting misses in cadences.
LEMMA CadenceFacts ==
  /\ \A m \in Nat : (m + 1) * AliveEvery = m * AliveEvery + AliveEvery
                    /\ m * AliveEvery \in Nat
  /\ \A m, n \in Nat : m >= n => m * AliveEvery >= n * AliveEvery
<1>1. ASSUME NEW m \in Nat
      PROVE  (m + 1) * AliveEvery = m * AliveEvery + AliveEvery /\ m * AliveEvery \in Nat
  OBVIOUS
<1>2. ASSUME NEW m \in Nat, NEW n \in Nat, m >= n
      PROVE  m * AliveEvery >= n * AliveEvery
  <2>1. PICK d \in Nat : m = n + d
    <3>1. m - n \in Nat /\ m = n + (m - n)
      BY <1>2
    <3>. QED BY <3>1
  <2>2. (n + d) * AliveEvery = n * AliveEvery + d * AliveEvery /\ d * AliveEvery \in Nat
        /\ n * AliveEvery \in Nat
    OBVIOUS
  <2>. QED BY <2>1, <2>2
<1>. QED BY <1>1, <1>2

\* The inductive invariant behind GoneOnlyAfterSilence.
THEOREM Silence == Spec => []SilenceInv
<1>1. Init => SilenceInv
  BY DEF Init, SilenceInv
<1>2. ASSUME TypeOK, SilenceInv, [Next]_vars PROVE SilenceInv'
  <2>. USE <1>2
  <2>1. /\ now \in Nat /\ now >= Start /\ misses \in Nat
        /\ aliveChecked # None => aliveChecked \in Nat
        /\ lastUp # None => lastUp \in Nat
        /\ clock \in Nat /\ clock >= now
    BY DEF TypeOK, StampType
  <2>2. CASE UNCHANGED alive /\ pc' # "gone"
    BY <2>2 DEF alive, SilenceInv, SilentFrom
  <2>3. CASE UNCHANGED <<alive, pc, now>>
    BY <2>3 DEF alive, SilenceInv, SilentFrom
  <2>4. CASE CheckAlive
    <3>1. CASE ~AliveDue
      <4>1. UNCHANGED alive /\ pc' = "refresh"
        BY <2>4, <3>1 DEF CheckAlive
      <4>. QED BY <4>1, <2>2
    <3>2. CASE AliveDue
      <4>1. PICK up \in {FALSE, sessionUp} :
              /\ aliveChecked' = now
              /\ misses' = IF up THEN 0 ELSE misses + 1
              /\ lastUp' = IF up THEN now ELSE lastUp
              /\ pc' = IF misses' >= AliveMisses THEN "gone" ELSE "refresh"
        BY <2>4, <3>2 DEF CheckAlive
      <4>2. now' = now /\ now # None
        BY <2>1, <2>4 DEF CheckAlive
      <4>3. now - SilentFrom' >= misses' * AliveEvery
        <5>1. CASE up
          BY <2>1, <4>1, <4>2, <5>1 DEF SilentFrom
        <5>2. CASE ~up
          <6>1. misses' = misses + 1 /\ SilentFrom' = SilentFrom /\ SilentFrom \in Int
            BY <2>1, <4>1, <5>2 DEF SilentFrom
          <6>2. misses' * AliveEvery = misses * AliveEvery + AliveEvery
                /\ misses * AliveEvery \in Nat
            BY <2>1, <6>1, CadenceFacts
          <6>3. CASE aliveChecked = None
            <7>1. misses * AliveEvery = 0 /\ SilentFrom = Start - AliveEvery
              BY <6>3 DEF SilenceInv, SilentFrom
            <7>. QED BY <2>1, <6>1, <6>2, <7>1
          <6>4. CASE aliveChecked # None
            <7>1. aliveChecked - SilentFrom >= misses * AliveEvery
              BY <6>4 DEF SilenceInv
            <7>2. now - aliveChecked >= AliveEvery
              BY <3>2, <6>4 DEF AliveDue
            <7>. QED BY <2>1, <6>1, <6>2, <6>4, <7>1, <7>2
          <6>. QED BY <6>3, <6>4
        <5>. QED BY <5>1, <5>2
      <4>. QED BY <4>1, <4>2, <4>3 DEF SilenceInv
    <3>. QED BY <3>1, <3>2
  <2>5. CASE UNCHANGED vars \/ Environment
    <3>1. UNCHANGED <<alive, pc, now>>
      BY <2>5 DEF Environment, Advance, ChangeLimit, SessionLost, Poke, Signal,
                  vars, loop
    <3>. QED BY <3>1, <2>3
  <2>6. CASE \/ BeginTick \/ Refresh \/ NoDeadline \/ Calm \/ Red \/ EnterRed
             \/ NearEnd \/ EndSession \/ LeaveLoop \/ Teardown
    <3>1. UNCHANGED alive
      BY <2>6 DEF BeginTick, Refresh, NoDeadline, Calm, Red, EnterRed, NearEnd,
                  EndSession, LeaveLoop, Teardown
    <3>2. pc' # "gone"
      <4>1. CASE \/ BeginTick \/ Refresh \/ NoDeadline \/ Calm \/ Red
                 \/ EndSession \/ LeaveLoop \/ Teardown
        BY <4>1 DEF BeginTick, Refresh, NoDeadline, Calm, Red, RedOrEnd, Sleep,
                    EndSession, LeaveLoop, Teardown
      <4>2. CASE EnterRed \/ NearEnd
        BY <4>2 DEF EnterRed, NearEnd, RedOrEnd, Sleep
      <4>. QED BY <2>6, <4>1, <4>2
    <3>. QED BY <3>1, <3>2, <2>2
  <2>. QED BY <2>4, <2>5, <2>6 DEF Next, Tick, Leave
<1>. QED BY <1>1, <1>2, TypeCorrect, PTL DEF Spec

\* The inductive invariant behind EndingIsAnnounced.
THEOREM Announcement == Spec => []AnnouncedInv
<1>1. Init => AnnouncedInv
  BY DEF Init, AnnouncedInv, EndingIsAnnounced
<1>2. ASSUME TypeOK, AnnouncedInv, [Next]_vars PROVE AnnouncedInv'
  <2>. USE <1>2
  <2>1. CASE /\ UNCHANGED <<pc, remaining, now, shown, pipeResume, warnings>>
             /\ sessionUp' => sessionUp
    BY <2>1 DEF AnnouncedInv, EndingIsAnnounced, Announced, warnings
  <2>2. CASE pc' \notin {"enterRed", "nearEnd", "ending"}
    BY <2>2 DEF AnnouncedInv, EndingIsAnnounced
  <2>3. CASE Red
    <3>1. PICK r \in Nat : /\ CheckWalltimeEvents(r)
                           /\ \/ pc' = "enterRed" /\ remaining' = r
                              \/ RedOrEnd(r)
      <4>1. endEpoch - now \in Int
        BY <2>3, LastTrueType DEF Red, TypeOK, EndType
      <4>2. NonNeg(endEpoch - now) \in Nat
        BY <4>1, NonNegFacts
      <4>. QED BY <2>3, <4>2 DEF Red
    <3>2. Announced(r)'
      BY <3>1 DEF CheckWalltimeEvents, Announced
    <3>3. \/ pc' = "enterRed" /\ remaining' = r
          \/ pc' = "nearEnd" /\ remaining' = r /\ r <= Grace
          \/ pc' = "top"
      BY <3>1 DEF RedOrEnd, Sleep
    <3>. QED BY <3>2, <3>3 DEF AnnouncedInv, EndingIsAnnounced, Announced
  <2>4. CASE EnterRed
    <3>1. \/ pc' = "nearEnd" /\ remaining' = remaining /\ remaining <= Grace
          \/ pc' = "top"
      BY <2>4 DEF EnterRed, RedOrEnd, Sleep
    <3>2. pc = "enterRed" /\ UNCHANGED warnings
      BY <2>4 DEF EnterRed
    <3>. QED BY <3>1, <3>2 DEF AnnouncedInv, EndingIsAnnounced, Announced, warnings
  <2>5. CASE NearEnd
    <3>1. pc' = "top" \/ (pc' = "ending" /\ SendStatus("ending"))
      BY <2>5 DEF NearEnd, Send, Sleep
    <3>2. pc = "nearEnd" /\ UNCHANGED warnings
      BY <2>5 DEF NearEnd
    <3>3. /\ Grace <= WalltimeRed => redWarned
          /\ Grace <= WalltimeWarn => warned
      BY <3>2 DEF AnnouncedInv, Announced
    <3>4. pc' = "ending" =>
            shown' = "ending" \/ now' < pipeResume' \/ ~sessionUp'
      <4>1. /\ now' = now /\ sessionUp' = sessionUp
            /\ now \in Nat /\ clock \in Nat /\ now <= clock /\ pipeResume \in Nat
        BY <2>5 DEF NearEnd, env, TypeOK, StampType
      <4>. QED BY <3>1, <4>1 DEF SendStatus
    <3>. QED BY <3>1, <3>2, <3>3, <3>4 DEF AnnouncedInv, EndingIsAnnounced, warnings
  <2>6. CASE UNCHANGED vars \/ Environment
    <3>1. /\ UNCHANGED <<pc, remaining, now, shown, pipeResume, warnings>>
          /\ sessionUp' => sessionUp
      BY <2>6 DEF Environment, Advance, ChangeLimit, SessionLost, Poke, Signal,
                  vars, env, loop, status
    <3>. QED BY <3>1, <2>1
  <2>7. CASE \/ BeginTick \/ CheckAlive \/ Refresh \/ NoDeadline \/ Calm
             \/ EndSession \/ LeaveLoop \/ Teardown
    <3>1. pc' \notin {"enterRed", "nearEnd", "ending"}
      BY <2>7 DEF BeginTick, CheckAlive, Refresh, NoDeadline, Calm, EndSession,
                  LeaveLoop, Teardown, Sleep
    <3>. QED BY <3>1, <2>2
  <2>. QED BY <2>3, <2>4, <2>5, <2>6, <2>7 DEF Next, Tick, Leave
<1>. QED BY <1>1, <1>2, TypeCorrect, PTL DEF Spec

\* A session is ended for the silence of a whole run of checks, or at a
\* deadline that both walltime events have announced, and the bar unless the
\* plugin was left alone or the session gone.
THEOREM EndingsAreFounded == Spec => []EndingIsFounded
<1>1. TypeOK /\ SilenceInv => GoneOnlyAfterSilence
  <2>. SUFFICES ASSUME TypeOK, SilenceInv, pc = "gone"
                PROVE  now - SilentFrom >= AliveMisses * AliveEvery
    BY DEF GoneOnlyAfterSilence, SilentFrom
  <2>1. now \in Nat /\ misses \in Nat /\ (lastUp # None => lastUp \in Nat)
    BY DEF TypeOK, StampType
  <2>2. now - SilentFrom >= misses * AliveEvery /\ misses >= AliveMisses
    BY <2>1 DEF SilenceInv
  <2>3. /\ misses * AliveEvery >= AliveMisses * AliveEvery
        /\ misses * AliveEvery \in Nat /\ AliveMisses * AliveEvery \in Nat
    BY <2>1, <2>2, CadenceFacts
  <2>4. SilentFrom \in Int
    BY <2>1 DEF SilentFrom
  <2>. QED BY <2>1, <2>2, <2>3, <2>4
<1>2. AnnouncedInv => EndingIsAnnounced
  BY DEF AnnouncedInv
<1>. QED BY <1>1, <1>2, TypeCorrect, Silence, Announcement, PTL DEF EndingIsFounded
=============================================================================
