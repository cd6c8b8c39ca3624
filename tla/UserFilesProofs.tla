--------------------------- MODULE UserFilesProofs ---------------------------
(***************************************************************************)
(* What holds of the files and directories that sessions of a user share,  *)
(* for any number of events, sessions, starts and writers' versions. Each  *)
(* part of MCUserFiles has an inductive invariant of its own: whichever    *)
(* the story is, a step of the whole is a step of that part or leaves its  *)
(* variables alone (StorySteps).                                           *)
(***************************************************************************)
EXTENDS MCUserFiles, SequenceTheorems, FiniteSetTheorems, TLAPS

LEMMA StorySteps ==
  ASSUME [UserNext]_UserVars
  PROVE  /\ [Next]_vars /\ [L!Next]_logVars /\ [Q!Next]_quotaVars
         /\ [S!Next]_startVars /\ [W!Next]_treeVars /\ [A!Next]_auditVars
BY DEF UserNext, UserVars

----------------------------------------------------------------------------
(* The event log and its follower.                                         *)

\* Until the log is removed it holds what was appended, and the follower has
\* printed as much of it as it counts. `ended` comes last, and a state file
\* that was seen stays until then.
FollowerInv ==
  /\ L!TypeOK
  /\ phase # "over" => log = appended /\ printed = Len(out)
  /\ phase = "cleaning" => ~stateFile
  /\ phase = "running" =>
       /\ Len(appended) <= MaxEvents
       /\ \A i \in 1..Len(appended) : appended[i].kind = "tick"
       /\ seen => stateFile
  /\ PrintsAPrefix /\ StopsOnlyAtTheEnd

LEMMA FollowerStarts == L!Init => FollowerInv
<1> SUFFICES ASSUME L!Init PROVE FollowerInv
  OBVIOUS
<1>1. log = <<>> /\ appended = <<>> /\ out = <<>> /\ printed = 0 /\ Len(<<>>) = 0
  BY EmptySeq DEF L!Init
<1>2. L!TypeOK
  <2>1. <<>> \in Seq(L!Event)
    BY EmptySeq
  <2>2. 0 \in 0..0
    OBVIOUS
  <2> QED
    BY <1>1, <2>1, <2>2 DEF L!Init, L!TypeOK
<1>3. SubSeq(<<>>, 1, 0) = <<>>
  BY SubSeqEmpty
<1> QED
  BY <1>1, <1>2, <1>3, UserAssumption DEF L!Init, FollowerInv, PrintsAPrefix, L!PrintsAPrefix,
     StopsOnlyAtTheEnd, L!StopsOnlyAtTheEnd

\* An event is appended behind all that is printed.
LEMMA EmitKeepsThePrefix ==
  ASSUME FollowerInv, phase = "running", NEW kind \in {"tick", "ended"}, L!Emit(kind)
  PROVE  /\ log' \in Seq(L!Event) /\ appended' = log'
         /\ Len(appended') = Len(appended) + 1
         /\ \A i \in 1..Len(appended) : appended'[i] = appended[i]
         /\ appended'[Len(appended) + 1].kind = kind
         /\ SubSeq(appended', 1, Len(out)) = SubSeq(appended, 1, Len(out))
<1> DEFINE e == [id |-> Len(appended) + 1, kind |-> kind]
<1>1. appended \in Seq(L!Event) /\ Len(appended) \in 0..MaxEvents /\ Len(out) \in Nat
  BY LenProperties, UserAssumption DEF FollowerInv, L!TypeOK
<1>2. e \in L!Event
  BY <1>1, UserAssumption DEF L!Event
<1>3. log' = Append(appended, e) /\ appended' = Append(appended, e)
  BY DEF FollowerInv, L!Emit
<1>4. Append(appended, e) = appended \o <<e>>
  BY <1>1, <1>2, AppendIsConcat
<1>5. SubSeq(appended', 1, Len(out)) = SubSeq(appended, 1, Len(out))
  <2>1. CASE Len(out) = 0
    BY <2>1, SubSeqEmpty
  <2>2. CASE Len(out) > 0
    <3>1. 1 \in 1..Len(appended) /\ Len(out) \in 1..Len(appended)
      BY <1>1, <2>2 DEF FollowerInv, PrintsAPrefix, L!PrintsAPrefix
    <3>2. <<e>> \in Seq(L!Event)
      BY <1>2
    <3> HIDE DEF e
    <3> QED BY <1>1, <1>3, <1>4, <3>1, <3>2, SubSeqOfConcat1
  <2> QED BY <1>1, <2>1, <2>2
<1>6. e.kind = kind
  OBVIOUS
<1> HIDE DEF e
<1>7. /\ Append(appended, e) \in Seq(L!Event) /\ Len(Append(appended, e)) = Len(appended) + 1
      /\ \A i \in 1..Len(appended) : Append(appended, e)[i] = appended[i]
      /\ Append(appended, e)[Len(appended) + 1] = e
  BY <1>1, <1>2, AppendProperties
<1> QED BY <1>3, <1>5, <1>6, <1>7

\* What is read is exactly what was not printed yet; only a session that has
\* ended has an `ended` among it.
LEMMA ReadPrintsTheRest ==
  ASSUME FollowerInv, L!Read
  PROVE  /\ out' \in Seq(L!Event) /\ Len(out') <= Len(appended)
         /\ out' = SubSeq(appended, 1, Len(out'))
         /\ phase # "over" => out' = appended
         /\ logAt' \in {"check", "stopped"} /\ (logAt' = "stopped" => phase # "running")
<1> DEFINE new == SubSeq(log, printed + 1, Len(log))
<1>1. /\ log \in Seq(L!Event) /\ appended \in Seq(L!Event) /\ out \in Seq(L!Event)
      /\ Len(log) \in Nat /\ Len(appended) \in Nat /\ Len(out) \in Nat /\ printed \in Nat
      /\ Len(out) <= Len(appended) /\ out = SubSeq(appended, 1, Len(out))
  <2>1. /\ log \in Seq(L!Event) /\ appended \in Seq(L!Event) /\ out \in Seq(L!Event)
        /\ printed \in 0..Len(appended)
        /\ Len(out) <= Len(appended) /\ out = SubSeq(appended, 1, Len(out))
    BY DEF FollowerInv, L!TypeOK, PrintsAPrefix, L!PrintsAPrefix
  <2>2. Len(log) \in Nat /\ Len(appended) \in Nat /\ Len(out) \in Nat
    BY <2>1, LenProperties
  <2> QED BY <2>1, <2>2
<1>2. /\ out' = out \o new
      /\ logAt' = IF \E i \in 1..Len(new) : new[i].kind = "ended" THEN "stopped" ELSE "check"
  BY DEF L!Read
<1>3. CASE phase = "over"
  <2>1. Len(log) = 0
    BY <1>3, EmptySeq DEF FollowerInv, L!TypeOK
  <2>2. new = <<>> /\ Len(new) = 0
    BY <1>1, <2>1, SubSeqEmpty, EmptySeq
  <2>3. out' = out /\ logAt' = "check"
    BY <1>1, <1>2, <2>2, ConcatEmptySeq
  <2> QED BY <1>1, <1>3, <2>3
<1>4. CASE phase # "over"
  <2>1. log = appended /\ printed = Len(out)
    BY <1>4 DEF FollowerInv
  <2>2. out \o new = SubSeq(appended, 1, Len(appended))
    BY <1>1, <2>1, ConcatAdjacentSubSeq
  <2>3. out' = appended
    BY <1>1, <1>2, <2>2, SubSeqFull
  <2>4. SubSeq(appended, 1, Len(appended)) = appended
    BY <1>1, SubSeqFull
  <2>5. ASSUME NEW i \in 1..Len(new), new[i].kind = "ended" PROVE phase # "running"
    <3>1. \A j \in (printed + 1)..Len(log) : log[j] \in L!Event
      BY <1>1, ElementOfSeq
    <3>2. /\ Len(new) = IF printed + 1 <= Len(log) THEN Len(log) - printed ELSE 0
          /\ \A j \in 1..(Len(log) - printed) : new[j] = log[printed + j]
      <4>1. printed + 1 \in Int /\ Len(log) \in Int
        BY <1>1
      <4> HIDE DEF new
      <4> QED BY <1>1, <3>1, <4>1, SubSeqProperties DEF new
    <3>3. new[i] = log[printed + i] /\ printed + i \in 1..Len(appended)
      BY <1>1, <2>1, <2>5, <3>2
    <3> QED BY <2>1, <2>5, <3>3 DEF FollowerInv
  <2>6. logAt' = "stopped" => phase # "running"
    BY <1>2, <2>5
  <2>7. logAt' \in {"check", "stopped"}
    BY <1>2
  <2> HIDE DEF new
  <2> QED BY <1>1, <2>3, <2>4, <2>6, <2>7
<1> QED BY <1>3, <1>4

LEMMA FollowerStep ==
  ASSUME FollowerInv, [L!Next]_logVars
  PROVE  FollowerInv'
<1> USE DEF FollowerInv, PrintsAPrefix, L!PrintsAPrefix, StopsOnlyAtTheEnd,
            L!StopsOnlyAtTheEnd, L!session, L!follower
<1>0. /\ Len(log) \in Nat /\ Len(appended) \in Nat /\ Len(out) \in Nat
      /\ L!TypeOK /\ MaxEvents \in Nat
  BY LenProperties, UserAssumption DEF L!TypeOK
<1>1. CASE UNCHANGED logVars
  BY <1>1 DEF logVars, L!TypeOK
<1>2. ASSUME NEW kind \in {"tick", "ended"}, L!Emit(kind), phase = "running",
             UNCHANGED <<stateFile, L!follower>>,
             \/ kind = "tick" /\ phase' = phase /\ Len(appended) < MaxEvents
             \/ kind = "ended" /\ phase' = "ended"
      PROVE  FollowerInv'
  <2>1. /\ log' \in Seq(L!Event) /\ appended' = log'
        /\ Len(appended') = Len(appended) + 1
        /\ \A i \in 1..Len(appended) : appended'[i] = appended[i]
        /\ appended'[Len(appended) + 1].kind = kind
        /\ SubSeq(appended', 1, Len(out)) = SubSeq(appended, 1, Len(out))
    BY <1>2, EmitKeepsThePrefix
  <2>2. L!TypeOK'
    BY <1>0, <1>2, <2>1 DEF L!TypeOK
  <2>3. phase' = "running" => \A i \in 1..Len(appended') : appended'[i].kind = "tick"
    BY <1>0, <1>2, <2>1
  <2>4. PrintsAPrefix' /\ StopsOnlyAtTheEnd'
    BY <1>0, <1>2, <2>1
  <2> QED BY <1>0, <1>2, <2>1, <2>2, <2>3, <2>4
<1>3. CASE L!EmitEvent
  BY <1>2, <1>3 DEF L!EmitEvent
<1>4. CASE L!EmitEnded
  BY <1>2, <1>4 DEF L!EmitEnded
<1>5. CASE L!WriteStateFile
  BY <1>0, <1>5 DEF L!WriteStateFile, L!TypeOK
<1>6. CASE L!RemoveStateFile
  BY <1>0, <1>6 DEF L!RemoveStateFile, L!TypeOK
<1>7. CASE L!RemoveLog
  <2>1. <<>> \in Seq(L!Event)
    BY EmptySeq
  <2> QED BY <1>0, <1>7, <2>1 DEF L!RemoveLog, L!TypeOK
<1>8. CASE L!Killed
  BY <1>0, <1>8 DEF L!Killed, L!TypeOK
<1>9. CASE L!Start
  BY <1>0, <1>9 DEF L!Start, L!TypeOK
<1>10. CASE L!Read
  <2>1. /\ out' \in Seq(L!Event) /\ Len(out') <= Len(appended)
        /\ out' = SubSeq(appended, 1, Len(out'))
        /\ phase # "over" => out' = appended
        /\ logAt' \in {"check", "stopped"} /\ (logAt' = "stopped" => phase # "running")
    BY <1>10, ReadPrintsTheRest
  <2>2. printed' = Len(log) /\ UNCHANGED <<phase, stateFile, log, appended, seen>>
    BY <1>10 DEF L!Read
  <2>3. printed' \in 0..Len(appended)
    <3>1. CASE phase = "over"
      BY <1>0, <2>2, <3>1, EmptySeq DEF L!TypeOK
    <3> QED BY <1>0, <2>2, <3>1
  <2> QED BY <1>0, <2>1, <2>2, <2>3 DEF L!TypeOK
<1>11. CASE L!Check
  BY <1>0, <1>11 DEF L!Check, L!TypeOK
<1> QED BY <1>1, <1>3, <1>4, <1>5, <1>6, <1>7, <1>8, <1>9, <1>10, <1>11
        DEF L!Next, L!Session, L!Follower

\* The follower prints what was appended, in order, once each and without a
\* gap, and stops for nothing but the session's end, wherever its polls fall
\* (events.rs, and events::append and cleanup beside it).
THEOREM FollowersAreExact == UserSpec => []FollowerIsExact
<1>1. UserInit => FollowerInv
  BY FollowerStarts DEF UserInit
<1>2. FollowerInv /\ [UserNext]_UserVars => FollowerInv'
  BY StorySteps, FollowerStep
<1>3. FollowerInv => FollowerIsExact
  BY DEF FollowerInv, FollowerIsExact
<1> QED BY <1>1, <1>2, <1>3, PTL DEF UserSpec

----------------------------------------------------------------------------
(* The first starts, the bundle and the permissions.                       *)

\* Only a whole extraction is renamed into place. Unless two starts crossed,
\* one at a time is changing permissions.kdl, and what it read, wrote and is
\* about to rename is what the file holds, with its own bundle added.
StartsInv ==
  /\ S!TypeOK /\ BundlesAreWhole
  /\ \A s \in Starts : stage[s] = "install" => temp[s] = S!Parts
  /\ \A b \in {mouse, noMouse} : dir[b] \in {None, S!Parts}
  /\ ~crossed =>
       /\ \A s, t \in Starts :
            stage[s] \in {"write", "rename"} /\ stage[t] \in {"write", "rename"} => s = t
       /\ \A s \in Starts :
            /\ stage[s] \notin {"failed", "prompt"}
            /\ stage[s] = "write" => existing[s] = granted
            /\ stage[s] = "rename" => grantTmp # None /\ grantTmp = granted \cup {MCBundleOf[s]}
            /\ stage[s] = "load" => MCBundleOf[s] \in granted

LEMMA BundleOfType == MCBundleOf \in [Starts -> {mouse, noMouse}]
BY DEF MCBundleOf

LEMMA StartsBegin == S!Init => StartsInv
BY BundleOfType, UserAssumption
   DEF S!Init, StartsInv, S!TypeOK, BundlesAreWhole, S!BundlesAreWhole, S!Stages

LEMMA StartsStep ==
  ASSUME StartsInv, [S!Next]_startVars
  PROVE  StartsInv'
<1> USE BundleOfType DEF StartsInv, S!TypeOK, BundlesAreWhole, S!BundlesAreWhole, S!Stages
<1>1. CASE UNCHANGED startVars
  BY <1>1 DEF startVars
<1>2. ASSUME NEW s \in Starts, S!Start(s) \/ S!Kill(s)
      PROVE  StartsInv'
  <2> USE DEF S!At, S!Go, S!files, S!permissions, S!Complete
  <2>1. CASE S!Ensure(s)
    BY <2>1 DEF S!Ensure, S!Parts
  <2>2. CASE S!Extract(s)
    <3>1. PICK p \in S!Parts \ temp[s] : temp' = [temp EXCEPT ![s] = @ \cup {p}]
      BY <2>2 DEF S!Extract
    <3>2. stage' = IF temp'[s] = S!Parts THEN [stage EXCEPT ![s] = "install"] ELSE stage
      BY <2>2 DEF S!Extract
    <3>3. UNCHANGED <<dir, granted, grantTmp, existing, crossed>> /\ stage[s] = "extract"
      BY <2>2 DEF S!Extract
    <3>4. S!TypeOK'
      BY <3>1, <3>2, <3>3
    <3> QED BY <3>1, <3>2, <3>3, <3>4
  <2>3. CASE S!Install(s)
    BY <2>3 DEF S!Install, S!Parts
  <2>4. CASE S!ReadGrants(s)
    BY <2>4 DEF S!ReadGrants
  <2>5. CASE S!WriteGrant(s)
    BY <2>5, UserAssumption DEF S!WriteGrant
  <2>6. CASE S!RenameGrant(s)
    BY <2>6, UserAssumption DEF S!RenameGrant
  <2>7. CASE S!Load(s)
    BY <2>7 DEF S!Load
  <2>8. CASE S!Kill(s)
    BY <2>8 DEF S!Kill
  <2> QED BY <1>2, <2>1, <2>2, <2>3, <2>4, <2>5, <2>6, <2>7, <2>8 DEF S!Start
<1> QED BY <1>1, <1>2 DEF S!Next

\* A bundle in use is complete, whichever start installed it and whoever was
\* killed on the way, and a start fails or prompts only when two starts were
\* changing permissions.kdl at once (bundle::ensure, grant_plugin_permissions).
THEOREM StartsGetBundles == UserSpec => []StartsAreWhole
<1>1. UserInit => StartsInv
  BY StartsBegin DEF UserInit
<1>2. StartsInv /\ [UserNext]_UserVars => StartsInv'
  BY StorySteps, StartsStep
<1>3. StartsInv => StartsAreWhole
  BY DEF StartsInv, StartsAreWhole, StartsUnlessCrossed, S!StartsUnlessCrossed
<1> QED BY <1>1, <1>2, <1>3, PTL DEF UserSpec

----------------------------------------------------------------------------
(* The quota cache and the notices of the sessions.                        *)

\* The answer of the check that is poking, or of the last one.
CheckAnswer == IF quotaAt[Checker] = "poke" THEN held[Checker] ELSE news

\* An answer in a hand is as old as the probe, a cache that is believed as old
\* as it says and a probe, and a notice as old as such a cache at the tick.
AgesInv ==
  /\ \A s \in Sessions :
       /\ quotaAt[s] \in {"sleep", "ask", "store"}
       /\ quotaAt[s] # "sleep" => idle[s] <= ProbeTime
       /\ quotaAt[s] = "store" => held[s] <= idle[s]
  /\ quotaAt[Checker] \in {"sleep", "store", "poke"}
  /\ quotaAt[Checker] = "store" => held[Checker] <= ProbeTime
  /\ age < QuotaPoll => cache # None /\ cache <= age + ProbeTime
  /\ ~missed => \A s \in Sessions : view[s] # None =>
       view[s] <= idle[s] + ProbeTime + (IF quotaAt[s] = "sleep" THEN QuotaPoll
                                                                  ELSE 2 * QuotaPoll) - 1

\* A check's answer is in the cache from its write on, and with a session that
\* has taken its poke, unless a probe was under way at the write.
AnswerInv ==
  /\ quotaAt[Checker] = "poke" => held[Checker] # None /\ news = None
  /\ quotaAt[Checker] = "store" => news = None
  /\ quotaAt[Checker] # "poke" => toPoke = {}
  /\ CheckAnswer # None /\ ~quotaRaced =>
       /\ cache # None /\ cache <= CheckAnswer
       /\ \A s \in Sessions :
            /\ quotaAt[s] = "store" => held[s] <= CheckAnswer
            /\ s \notin poke \cup toPoke \cup skipped /\ quotaAt[s] = "ask" =>
                 held[s] # None /\ held[s] <= CheckAnswer
            /\ s \notin poke \cup toPoke \cup skipped /\ quotaAt[s] = "sleep" =>
                 view[s] # None /\ view[s] <= CheckAnswer

NoticesInv == Q!TypeOK /\ AgesInv /\ AnswerInv

LEMMA QuotaConstants ==
  /\ QuotaPoll \in Nat \ {0} /\ ProbeTime \in Nat /\ ProbeTime <= QuotaPoll
  /\ Checker \notin Sessions /\ None \notin Nat
  /\ Q!Oldest \in Nat /\ Q!Oldest = 2 * QuotaPoll + 2 * ProbeTime
BY UserAssumption DEF Q!Oldest

LEMMA NoticesStart == Q!Init => NoticesInv
<1> SUFFICES ASSUME Q!Init PROVE NoticesInv
  OBVIOUS
<1> USE QuotaConstants DEF Q!Init, Q!Probers
<1>1. Q!TypeOK
  <2>1. QuotaPoll \in 0..QuotaPoll
    OBVIOUS
  <2> QED BY <2>1 DEF Q!TypeOK
<1>2. AgesInv
  BY DEF AgesInv
<1>3. AnswerInv
  BY DEF AnswerInv, CheckAnswer
<1> QED BY <1>1, <1>2, <1>3 DEF NoticesInv

\* A snapshot ages by one at most, and an older one stays the older one.
LEMMA Ageing ==
  /\ \A q \in Q!Snapshots \cup {None} :
       /\ Q!Aged(q) \in Q!Snapshots \cup {None} /\ (Q!Aged(q) = None <=> q = None)
       /\ q # None => Q!Aged(q) <= q + 1
  /\ \A q, r \in Q!Snapshots : q <= r => Q!Aged(q) <= Q!Aged(r)
BY QuotaConstants DEF Q!Aged, Q!Older, Q!Snapshots

\* Time, with every session in its cadence and every probe in its time.
LEMMA NoticesAge ==
  ASSUME NoticesInv, Q!Advance
  PROVE  NoticesInv'
<1> USE QuotaConstants, Ageing DEF Q!Probers
<1>1. /\ cache' = Q!Aged(cache) /\ age' = Q!Older(age, QuotaPoll) /\ news' = Q!Aged(news)
      /\ held' = [p \in Q!Probers |-> Q!Aged(held[p])]
      /\ view' = [s \in Sessions |-> Q!Aged(view[s])]
      /\ idle' = [s \in Sessions |-> idle[s] + 1]
      /\ UNCHANGED <<up, quotaAt, poke, toPoke, quotaRaced, missed, skipped>>
  BY DEF Q!Advance
<1>2. \A s \in Sessions : idle[s] < IF quotaAt[s] = "sleep" THEN QuotaPoll ELSE ProbeTime
  BY DEF Q!Advance, Q!InTime
<1>3. quotaAt[Checker] = "store" => held[Checker] < ProbeTime
  BY DEF Q!Advance, Q!InTime
<1>4. Q!TypeOK
  BY DEF NoticesInv
<1>5. /\ cache \in Q!Snapshots \cup {None} /\ news \in Q!Snapshots \cup {None}
      /\ held \in [Q!Probers -> Q!Snapshots \cup {None}]
      /\ view \in [Sessions -> Q!Snapshots \cup {None}]
      /\ idle \in [Sessions -> 0..QuotaPoll] /\ age \in 0..QuotaPoll
  BY <1>4 DEF Q!TypeOK
<1>6. age' \in 0..QuotaPoll /\ age' <= age + 1 /\ age <= age'
  BY <1>1, <1>5 DEF Q!Older
<1>7. Q!TypeOK'
  <2>1. cache' \in Q!Snapshots \cup {None} /\ news' \in Q!Snapshots \cup {None}
    BY <1>1, <1>5
  <2>2. /\ held' \in [Q!Probers -> Q!Snapshots \cup {None}]
        /\ \A p \in Q!Probers : quotaAt[p] = "store" => held'[p] # None
    BY <1>1, <1>4, <1>5 DEF Q!TypeOK
  <2>3. view' \in [Sessions -> Q!Snapshots \cup {None}]
    BY <1>1, <1>5
  <2>4. idle' \in [Sessions -> 0..QuotaPoll]
    BY <1>1, <1>2, <1>5
  <2> QED BY <1>1, <1>4, <1>6, <2>1, <2>2, <2>3, <2>4 DEF Q!TypeOK
<1>8. \A q \in Q!Snapshots : q \in Nat
  BY DEF Q!Snapshots
<1>9. AgesInv'
  <2>1. AgesInv
    BY DEF NoticesInv
  <2>2. ASSUME NEW s \in Sessions
        PROVE  /\ idle'[s] = idle[s] + 1 /\ idle[s] \in Nat
               /\ quotaAt[s] = "store" => held'[s] <= idle'[s]
               /\ quotaAt[s] # "sleep" => idle'[s] <= ProbeTime
    <3>1. idle'[s] = idle[s] + 1 /\ idle[s] \in Nat
      BY <1>1, <1>5
    <3>2. ASSUME quotaAt[s] = "store" PROVE held'[s] <= idle'[s]
      BY <1>1, <1>4, <1>5, <1>8, <2>1, <3>1, <3>2 DEF AgesInv, Q!TypeOK
    <3> QED BY <1>2, <3>1, <3>2
  <2>3. age' < QuotaPoll => cache' # None /\ cache' <= age' + ProbeTime
    <3>1. ASSUME age' < QuotaPoll PROVE age' = age + 1 /\ age < QuotaPoll
      BY <1>1, <1>5, <3>1 DEF Q!Older
    <3> QED BY <1>1, <1>5, <1>8, <2>1, <3>1 DEF AgesInv
  <2>4. quotaAt[Checker] = "store" => held'[Checker] <= ProbeTime
    BY <1>1, <1>3, <1>4, <1>5, <1>8 DEF Q!TypeOK
  <2>5. ASSUME ~missed, NEW s \in Sessions, view'[s] # None
        PROVE  view'[s] <= idle'[s] + ProbeTime
                 + (IF quotaAt[s] = "sleep" THEN QuotaPoll ELSE 2 * QuotaPoll) - 1
    <3>1. view[s] # None /\ view[s] \in Nat /\ view'[s] \in Nat /\ view'[s] <= view[s] + 1
      BY <1>1, <1>5, <1>8, <2>5
    <3> QED BY <2>1, <2>2, <2>5, <3>1 DEF AgesInv
  <2> QED BY <1>1, <2>1, <2>2, <2>3, <2>4, <2>5 DEF AgesInv
<1>10. AnswerInv'
  <2>1. AnswerInv
    BY DEF NoticesInv
  <2>2. /\ CheckAnswer \in Q!Snapshots \cup {None} /\ CheckAnswer' = Q!Aged(CheckAnswer)
        /\ CheckAnswer' # None <=> CheckAnswer # None
    BY <1>1, <1>5 DEF CheckAnswer
  <2>3. ASSUME CheckAnswer # None, ~quotaRaced
        PROVE  cache' # None /\ cache' <= CheckAnswer'
    BY <1>1, <1>5, <2>1, <2>2, <2>3 DEF AnswerInv
  <2>4. ASSUME CheckAnswer # None, ~quotaRaced, NEW s \in Sessions
        PROVE  /\ quotaAt[s] = "store" => held'[s] <= CheckAnswer'
               /\ s \notin poke \cup toPoke \cup skipped /\ quotaAt[s] = "ask" =>
                    held'[s] # None /\ held'[s] <= CheckAnswer'
               /\ s \notin poke \cup toPoke \cup skipped /\ quotaAt[s] = "sleep" =>
                    view'[s] # None /\ view'[s] <= CheckAnswer'
    <3>1. /\ held[s] \in Q!Snapshots \cup {None} /\ held'[s] = Q!Aged(held[s])
          /\ view[s] \in Q!Snapshots \cup {None} /\ view'[s] = Q!Aged(view[s])
      BY <1>1, <1>5
    <3>2. quotaAt[s] = "store" => held[s] # None
      BY <1>4 DEF Q!TypeOK
    <3> QED BY <2>1, <2>2, <2>4, <3>1, <3>2 DEF AnswerInv
  <2>5. (quotaAt[Checker] = "poke" => held'[Checker] # None /\ news' = None)
        /\ (quotaAt[Checker] = "store" => news' = None)
        /\ (quotaAt[Checker] # "poke" => toPoke = {})
    BY <1>1, <1>5, <2>1 DEF AnswerInv
  <2> HIDE DEF CheckAnswer
  <2> QED BY <1>1, <2>2, <2>3, <2>4, <2>5 DEF AnswerInv
<1> QED BY <1>7, <1>9, <1>10 DEF NoticesInv

\* A session's tick, its probe and what it makes of the answer.
LEMMA SessionKeepsNotices ==
  ASSUME NoticesInv, NEW s \in Sessions, Q!Session(s)
  PROVE  NoticesInv'
<1> USE QuotaConstants DEF Q!Probers, Q!history
<1>1. /\ Q!TypeOK /\ AgesInv /\ AnswerInv
      /\ s \in Q!Probers /\ s # Checker
  BY DEF NoticesInv
<1>2. \A q \in Q!Snapshots : q \in Nat
  BY DEF Q!Snapshots
<1>3. 0 \in Q!Snapshots
  BY DEF Q!Snapshots
<1>4. CASE Q!Tick(s)
  <2>1. /\ quotaAt[s] = "sleep" /\ poke' = poke \ {s} /\ idle' = [idle EXCEPT ![s] = 0]
        /\ UNCHANGED <<up, cache, age, toPoke, news, quotaRaced, missed, skipped>>
    BY <1>4 DEF Q!Tick, Q!ReadQuota
  <2>2. \/ /\ quotaAt' = [quotaAt EXCEPT ![s] = "ask"] /\ held' = [held EXCEPT ![s] = cache]
           /\ UNCHANGED view
        \/ /\ cache # None /\ age # QuotaPoll
           /\ view' = [view EXCEPT ![s] = cache] /\ UNCHANGED <<quotaAt, held>>
    BY <1>4 DEF Q!Tick, Q!ReadQuota
  <2>3. Q!TypeOK'
    BY <1>1, <2>1, <2>2 DEF Q!TypeOK
  <2>4. AgesInv'
    BY <1>1, <1>2, <2>1, <2>2 DEF AgesInv, Q!TypeOK
  <2>5. AnswerInv'
    BY <1>1, <1>2, <2>1, <2>2 DEF AnswerInv, CheckAnswer, Q!TypeOK
  <2> QED BY <2>3, <2>4, <2>5 DEF NoticesInv
<1>5. CASE Q!Ask(s)
  <2>1. /\ quotaAt[s] = "ask" /\ UNCHANGED <<up, cache, age, idle, poke, toPoke, news, quotaRaced, skipped>>
    BY <1>5 DEF Q!Ask
  <2>2. \/ /\ quotaAt' = [quotaAt EXCEPT ![s] = "store"] /\ held' = [held EXCEPT ![s] = 0]
           /\ UNCHANGED <<view, missed>>
        \/ /\ quotaAt' = [quotaAt EXCEPT ![s] = "sleep"] /\ held' = [held EXCEPT ![s] = None]
           /\ view' = [view EXCEPT ![s] = held[s]] /\ missed' = TRUE
    <3>1. PICK q \in Q!Answers :
            /\ quotaAt' = [quotaAt EXCEPT ![s] = IF q = None THEN "sleep" ELSE "store"]
            /\ held' = [held EXCEPT ![s] = q]
            /\ view' = IF q = None THEN [view EXCEPT ![s] = held[s]] ELSE view
            /\ missed' = (missed \/ q = None)
      BY <1>5 DEF Q!Ask
    <3>2. CASE q = None
      BY <3>1, <3>2
    <3>3. CASE q # None
      <4>1. q = 0
        BY <3>3 DEF Q!Answers
      <4>2. missed' = missed
        BY <1>1, <3>1, <3>3 DEF Q!TypeOK
      <4> QED BY <3>1, <3>3, <4>1, <4>2
    <3> QED BY <3>2, <3>3
  <2>3. Q!TypeOK'
    <3>1. 0 # None /\ held \in [Q!Probers -> Q!Snapshots \cup {None}] /\ held[s] \in Q!Snapshots \cup {None}
      BY <1>1 DEF Q!TypeOK
    <3>2. held' \in [Q!Probers -> Q!Snapshots \cup {None}]
      BY <1>3, <2>2, <3>1
    <3>3. \A p \in Q!Probers : quotaAt'[p] = "store" => held'[p] # None
      BY <1>1, <2>2, <3>1 DEF Q!TypeOK
    <3>4. view' \in [Sessions -> Q!Snapshots \cup {None}] /\ missed' \in BOOLEAN
      BY <1>1, <2>2, <3>1 DEF Q!TypeOK
    <3>5. quotaAt' \in [Q!Probers -> {"sleep", "ask", "store", "poke"}]
      BY <1>1, <2>2 DEF Q!TypeOK
    <3> QED BY <1>1, <2>1, <3>2, <3>3, <3>4, <3>5 DEF Q!TypeOK
  <2>4. AgesInv'
    BY <1>1, <1>2, <2>1, <2>2 DEF AgesInv, Q!TypeOK
  <2>5. AnswerInv'
    BY <1>1, <1>2, <2>1, <2>2 DEF AnswerInv, CheckAnswer, Q!TypeOK
  <2> QED BY <2>3, <2>4, <2>5 DEF NoticesInv
<1>6. CASE Q!Store(s)
  <2>1. /\ quotaAt[s] = "store" /\ quotaAt' = [quotaAt EXCEPT ![s] = "sleep"]
        /\ cache' = held[s] /\ age' = 0 /\ view' = [view EXCEPT ![s] = held[s]]
        /\ held' = [held EXCEPT ![s] = None]
        /\ UNCHANGED <<up, idle, poke, toPoke, news, quotaRaced, missed, skipped>>
    BY <1>6 DEF Q!Store
  <2>2. held[s] \in Q!Snapshots /\ held[s] # None
    BY <1>1, <2>1 DEF Q!TypeOK
  <2>3. Q!TypeOK'
    BY <1>1, <2>1, <2>2 DEF Q!TypeOK
  <2>4. AgesInv'
    <3>1. held[s] <= idle[s] /\ idle[s] <= ProbeTime /\ idle[s] \in Nat /\ held[s] \in Nat
      BY <1>1, <1>2, <2>1, <2>2 DEF AgesInv, Q!TypeOK
    <3>2. /\ view'[s] = held[s] /\ quotaAt'[s] = "sleep" /\ cache' = held[s] /\ idle' = idle
          /\ \A p \in Q!Probers \ {s} :
               quotaAt'[p] = quotaAt[p] /\ held'[p] = held[p]
          /\ \A p \in Sessions \ {s} : view'[p] = view[p]
      BY <1>1, <2>1 DEF Q!TypeOK
    <3>3. ~missed' => \A p \in Sessions : view'[p] # None =>
            view'[p] <= idle'[p] + ProbeTime + (IF quotaAt'[p] = "sleep" THEN QuotaPoll
                                                                       ELSE 2 * QuotaPoll) - 1
      BY <1>1, <2>1, <3>1, <3>2 DEF AgesInv
    <3>4. age' < QuotaPoll => cache' # None /\ cache' <= age' + ProbeTime
      BY <2>1, <2>2, <3>1
    <3> QED BY <1>1, <3>1, <3>2, <3>3, <3>4 DEF AgesInv
  <2>5. AnswerInv'
    BY <1>1, <1>2, <2>1, <2>2 DEF AnswerInv, CheckAnswer, Q!TypeOK
  <2> QED BY <2>3, <2>4, <2>5 DEF NoticesInv
<1> QED BY <1>4, <1>5, <1>6 DEF Q!Session

\* A check's probe, its write of the cache and its pokes.
LEMMA CheckKeepsNotices ==
  ASSUME NoticesInv, Q!CheckAsk \/ Q!CheckGoesOn
  PROVE  NoticesInv'
<1> USE QuotaConstants DEF Q!Probers, Q!history
<1>1. Q!TypeOK /\ AgesInv /\ AnswerInv /\ Checker \in Q!Probers
  BY DEF NoticesInv
<1>2. \A q \in Q!Snapshots : q \in Nat
  BY DEF Q!Snapshots
<1>3. 0 \in Q!Snapshots
  BY DEF Q!Snapshots
<1>4. CASE Q!CheckAsk
  <2>1. /\ quotaAt[Checker] = "sleep" /\ held' = [held EXCEPT ![Checker] = 0]
        /\ quotaAt' = [quotaAt EXCEPT ![Checker] = "store"] /\ news' = None /\ quotaRaced' = FALSE
        /\ skipped' = {}
        /\ UNCHANGED <<up, cache, age, idle, poke, view, toPoke, missed>>
    BY <1>4 DEF Q!CheckAsk, Q!Answers
  <2>2. Q!TypeOK'
    <3>1. 0 # None /\ held \in [Q!Probers -> Q!Snapshots \cup {None}]
      BY <1>1 DEF Q!TypeOK
    <3>2. /\ held' \in [Q!Probers -> Q!Snapshots \cup {None}]
          /\ \A p \in Q!Probers : quotaAt'[p] = "store" => held'[p] # None
      BY <1>1, <1>3, <2>1, <3>1 DEF Q!TypeOK
    <3>3. quotaAt' \in [Q!Probers -> {"sleep", "ask", "store", "poke"}]
      BY <1>1, <2>1 DEF Q!TypeOK
    <3> QED BY <1>1, <2>1, <3>2, <3>3 DEF Q!TypeOK
  <2>3. AgesInv'
    BY <1>1, <1>2, <2>1 DEF AgesInv, Q!TypeOK
  <2>4. AnswerInv'
    BY <1>1, <2>1 DEF AnswerInv, CheckAnswer, Q!TypeOK
  <2> QED BY <2>2, <2>3, <2>4 DEF NoticesInv
<1>5. CASE Q!CheckStore
  <2>1. /\ quotaAt[Checker] = "store" /\ cache' = held[Checker] /\ age' = 0
        /\ quotaRaced' = (\E s \in Sessions : quotaAt[s] = "store")
        /\ UNCHANGED <<up, idle, poke, view, missed>>
    BY <1>5 DEF Q!CheckStore
  <2>2. PICK listed \in SUBSET Sessions : skipped' = Sessions \ listed /\ Q!PokesLeft(listed)
    BY <1>5 DEF Q!CheckStore, Q!PokeListed
  <2>3. /\ toPoke' = listed
        /\ \/ /\ listed = {} /\ quotaAt' = [quotaAt EXCEPT ![Checker] = "sleep"]
              /\ news' = held[Checker] /\ held' = [held EXCEPT ![Checker] = None]
           \/ /\ quotaAt' = [quotaAt EXCEPT ![Checker] = "poke"] /\ UNCHANGED <<news, held>>
    BY <2>2 DEF Q!PokesLeft
  <2>4. held[Checker] \in Q!Snapshots /\ held[Checker] # None
    BY <1>1, <2>1 DEF Q!TypeOK
  <2>5. Q!TypeOK'
    BY <1>1, <2>1, <2>2, <2>3, <2>4 DEF Q!TypeOK
  <2>6. /\ quotaAt'[Checker] \in {"sleep", "poke"}
        /\ \A s \in Sessions : quotaAt'[s] = quotaAt[s] /\ held'[s] = held[s]
    BY <1>1, <2>3 DEF Q!TypeOK
  <2>7. AgesInv'
    <3>1. held[Checker] \in Nat /\ held[Checker] <= ProbeTime
      BY <1>1, <1>2, <2>1, <2>4 DEF AgesInv
    <3> QED BY <1>1, <2>1, <2>4, <2>6, <3>1 DEF AgesInv
  <2>8. AnswerInv'
    <3>1. CheckAnswer' = held[Checker]
      BY <1>1, <2>1, <2>3 DEF CheckAnswer, Q!TypeOK, AnswerInv
    <3>2. /\ quotaAt'[Checker] = "poke" => held'[Checker] # None /\ news' = None
          /\ quotaAt'[Checker] = "store" => news' = None
          /\ quotaAt'[Checker] # "poke" => toPoke' = {}
      BY <1>1, <2>1, <2>3, <2>4, <2>6 DEF Q!TypeOK, AnswerInv
    <3>3. \A s \in Sessions : s \in toPoke' \cup skipped'
      BY <2>2, <2>3
    <3>4. cache' # None /\ cache' <= CheckAnswer'
      BY <1>2, <2>1, <2>4, <3>1
    <3> HIDE DEF CheckAnswer
    <3> QED BY <2>1, <2>6, <3>2, <3>3, <3>4 DEF AnswerInv
  <2> QED BY <2>5, <2>7, <2>8 DEF NoticesInv
<1>6. CASE Q!PokeOne \/ Q!PokeFails
  <2>1. PICK rest \in SUBSET toPoke :
          /\ poke \cup toPoke \cup skipped = poke' \cup rest \cup skipped'
          /\ poke' \in SUBSET Sessions /\ skipped' \in SUBSET Sessions
          /\ Q!PokesLeft(rest)
    <3>1. CASE Q!PokeOne
      <4>1. PICK s \in toPoke : poke' = poke \cup {s} /\ Q!PokesLeft(toPoke \ {s})
        BY <3>1 DEF Q!PokeOne
      <4>2. skipped' = skipped
        BY <3>1 DEF Q!PokeOne
      <4> QED BY <1>1, <4>1, <4>2 DEF Q!TypeOK
    <3>2. CASE Q!PokeFails
      BY <1>1, <3>2 DEF Q!PokeFails, Q!TypeOK
    <3> QED BY <1>6, <3>1, <3>2
  <2>2. /\ quotaAt[Checker] = "poke" /\ toPoke' = rest
        /\ IF toPoke' = {}
           THEN /\ quotaAt' = [quotaAt EXCEPT ![Checker] = "sleep"]
                /\ news' = held[Checker] /\ held' = [held EXCEPT ![Checker] = None]
           ELSE quotaAt' = [quotaAt EXCEPT ![Checker] = "poke"] /\ UNCHANGED <<news, held>>
        /\ UNCHANGED <<up, cache, age, idle, view, quotaRaced, missed>>
    BY <1>6, <2>1 DEF Q!PokeOne, Q!PokeFails, Q!PokesLeft
  <2>3. Q!TypeOK'
    BY <1>1, <2>1, <2>2 DEF Q!TypeOK
  <2>4. AgesInv'
    BY <1>1, <2>1, <2>2 DEF AgesInv, Q!TypeOK
  <2>5. AnswerInv'
    <3>1. CheckAnswer' = CheckAnswer /\ poke' \cup toPoke' \cup skipped' = poke \cup toPoke \cup skipped
      BY <1>1, <2>1, <2>2 DEF CheckAnswer, Q!TypeOK
    <3>2. \A p \in Sessions : quotaAt'[p] = quotaAt[p] /\ held'[p] = held[p]
      BY <1>1, <2>2 DEF Q!TypeOK
    <3> QED BY <1>1, <2>2, <3>1, <3>2 DEF AnswerInv, Q!TypeOK
  <2> QED BY <2>3, <2>4, <2>5 DEF NoticesInv
<1> QED BY <1>4, <1>5, <1>6 DEF Q!CheckGoesOn

LEMMA NoticesStep ==
  ASSUME NoticesInv, [Q!Next]_quotaVars
  PROVE  NoticesInv'
<1>1. CASE UNCHANGED quotaVars
  BY <1>1 DEF quotaVars, NoticesInv, Q!TypeOK, AgesInv, AnswerInv, CheckAnswer
<1>2. CASE Q!DaemonsChange
  BY <1>2 DEF Q!DaemonsChange, Q!history, NoticesInv, Q!TypeOK, AgesInv, AnswerInv, CheckAnswer
<1> QED BY <1>1, <1>2, NoticesAge, SessionKeepsNotices, CheckKeepsNotices DEF Q!Next

\* While no probe failed a session's notice is under two cadences and two
\* probes old, and after a check every session that poke_all got to and that
\* took its poke shows the check's answer or a later one, unless a probe was
\* under way as the check wrote the cache (NodeDeps::read_quota, quota_data):
\* for any sessions, any cadence and any probe time within it, whichever of
\* the sessions have a state file and wherever the pokes fail.
THEOREM NoticesHoldRecentAnswers == UserSpec => []NoticesAreRecent
<1>1. UserInit => NoticesInv
  BY NoticesStart DEF UserInit
<1>2. NoticesInv /\ [UserNext]_UserVars => NoticesInv'
  BY StorySteps, NoticesStep
<1>3. NoticesInv => NoticesAreRecent
  <2> SUFFICES ASSUME NoticesInv PROVE NoticesAreRecent
    OBVIOUS
  <2> USE QuotaConstants
  <2>1. Q!TypeOK /\ AgesInv /\ AnswerInv
    BY DEF NoticesInv
  <2>2. NoticeIsRecent
    <3> SUFFICES ASSUME ~missed, NEW s \in Sessions, view[s] # None
                 PROVE  view[s] < Q!Oldest
      BY DEF NoticeIsRecent, Q!NoticeIsRecent
    <3>1. view[s] \in Nat /\ idle[s] \in 0..QuotaPoll
      BY <2>1 DEF Q!TypeOK, Q!Snapshots
    <3> QED BY <2>1, <3>1 DEF AgesInv
  <2>3. CheckReachesNotices
    <3> SUFFICES ASSUME news # None, ~quotaRaced, NEW s \in Sessions \ skipped,
                        quotaAt[s] = "sleep", s \notin poke
                 PROVE  view[s] # None /\ view[s] <= news
      BY DEF CheckReachesNotices, Q!CheckReachesNotices
    <3>1. quotaAt[Checker] # "poke" /\ toPoke = {} /\ CheckAnswer = news
      BY <2>1 DEF AnswerInv, CheckAnswer
    <3> QED BY <2>1, <3>1 DEF AnswerInv
  <2> QED BY <2>1, <2>2, <2>3 DEF NoticesAreRecent
<1> QED BY <1>1, <1>2, <1>3, PTL DEF UserSpec

----------------------------------------------------------------------------
(* A worktree and its prune.                                               *)

Covered(n) == \A c \in 1..n : W!Landed(c) \/ c <= pushed

\* What was true of HEAD when a command said so stays true: what has landed
\* stays landed, and what the remote branch holds lands before it is deleted.
\* With nobody interfering the facts are those of the worktree.
TreeInv ==
  /\ W!TypeOK /\ OnlyLaterWorkIsLost /\ MergedIsFound
  /\ pruneAt # "removed" => lost = {}
  /\ fact.ancestor => sha <= landed /\ decided <= landed
  /\ fact.merged => sha \in prs
  /\ pruneAt \in {"status", "tip", "ancestor", "upstream", "pr"} => ~fact.merged
  /\ pruneAt \in {"pr", "unpushed"} => ~fact.ancestor
  /\ pruneAt = "classify" /\ ~fact.ancestor /\ fact.merged /\ ~fact.unpushed => Covered(decided)
  /\ pruneAt \in {"remove", "branch"} => Covered(decided)
  /\ pruneAt \in {"remove", "branch", "removed"} => sha <= landed \/ sha \in prs
  /\ ~stirred /\ pruneAt # "head" =>
       /\ sha = head
       /\ pruneAt # "status" => fact.dirty = dirty /\ fact.locked = locked
       /\ pruneAt \notin {"status", "tip"} => (fact.tip <=> sha = landed /\ ~ahead /\ head = 0)
       /\ pruneAt \notin {"status", "tip", "ancestor"} => (fact.ancestor <=> head <= landed)

LEMMA TreeStarts == W!Init => TreeInv
<1> SUFFICES ASSUME W!Init PROVE TreeInv
  OBVIOUS
<1> USE UserAssumption DEF W!Init
<1>1. W!NoFacts \in W!Facts
  BY DEF W!NoFacts, W!Facts
<1>2. ~W!NoFacts.ancestor /\ ~W!NoFacts.merged
  BY DEF W!NoFacts
<1>3. W!TypeOK
  <2>1. 0 \in 0..MaxCommits /\ 0 \in 0..0 /\ {} \subseteq 1..0
    OBVIOUS
  <2> QED BY <1>1, <2>1 DEF W!TypeOK, W!Commits, W!Reads
<1> QED BY <1>2, <1>3 DEF TreeInv, OnlyLaterWorkIsLost, W!OnlyLaterWorkIsLost, MergedIsFound, W!MergedIsFound

\* The user and the remote: whatever they do, what has landed stays so, and
\* nothing that was covered is uncovered.
LEMMA UserKeepsTree ==
  ASSUME TreeInv, W!User
  PROVE  TreeInv'
<1> USE UserAssumption
<1>0. /\ head \in Nat /\ head <= MaxCommits /\ landed \in 0..head /\ pushed \in 0..head
      /\ prs \subseteq 1..head /\ sha \in 0..head /\ decided \in 0..head
      /\ ahead \in BOOLEAN /\ dirty \in BOOLEAN /\ locked \in BOOLEAN
  BY DEF TreeInv, W!TypeOK, W!Commits
<1>1. /\ W!TypeOK /\ stirred' = TRUE /\ UNCHANGED <<pruneAt, sha, fact, removable, decided, lost>>
  BY DEF TreeInv, W!User, W!Edit, W!Commit, W!Push, W!Merge, W!SquashMerge, W!RemoteDeletes,
         W!OthersLand, W!Lock, W!Stir
<1>2. /\ head' \in 0..MaxCommits /\ head' >= head /\ landed' \in 0..head' /\ landed' >= landed
      /\ prs \subseteq prs' /\ prs' \subseteq 1..head'
      /\ pushed' \in 0..head' /\ ahead' \in BOOLEAN /\ dirty' \in BOOLEAN /\ locked' \in BOOLEAN
  <2>1. CASE W!Commit
    <3>1. /\ head < MaxCommits /\ head' = head + 1 /\ dirty' = FALSE
          /\ UNCHANGED <<landed, ahead, pushed, prs, locked>>
      BY <2>1 DEF W!Commit
    <3>2. MaxCommits \in Nat /\ 1..head \subseteq 1..head'
      BY <1>0, <3>1
    <3>3. head' \in 0..MaxCommits /\ landed \in 0..head' /\ pushed \in 0..head'
      BY <1>0, <3>1, <3>2
    <3>4. prs' \subseteq 1..head' /\ head' >= head /\ landed >= landed
      BY <1>0, <3>1, <3>2
    <3>5. dirty' \in BOOLEAN
      BY <3>1
    <3> QED BY <1>0, <3>1, <3>3, <3>4, <3>5
  <2>2. CASE W!Push
    BY <1>0, <2>2 DEF W!Push
  <2>3. CASE W!Merge
    <3>1. /\ pushed > landed /\ landed' = pushed /\ ahead' \in {ahead, TRUE}
          /\ UNCHANGED <<head, pushed, prs, dirty, locked>>
      BY <2>3 DEF W!Merge
    <3>2. ahead' \in BOOLEAN
      BY <1>0, <3>1
    <3> QED BY <1>0, <3>1, <3>2
  <2>4. CASE W!SquashMerge
    BY <1>0, <2>4 DEF W!SquashMerge
  <2>5. CASE W!RemoteDeletes
    BY <1>0, <2>5 DEF W!RemoteDeletes
  <2>6. CASE W!Edit
    BY <1>0, <2>6 DEF W!Edit
  <2>7. CASE W!OthersLand
    BY <1>0, <2>7 DEF W!OthersLand
  <2>8. CASE W!Lock
    BY <1>0, <2>8 DEF W!Lock
  <2> QED BY <2>1, <2>2, <2>3, <2>4, <2>5, <2>6, <2>7, <2>8 DEF W!User
<1>3. \/ pushed' >= pushed
      \/ pushed' = 0 /\ W!Landed(pushed)
  <2>1. CASE W!Push
    BY <1>0, <2>1 DEF W!Push
  <2>2. CASE W!RemoteDeletes
    BY <2>2 DEF W!RemoteDeletes
  <2>3. CASE UNCHANGED pushed
    BY <1>0, <2>3
  <2> QED BY <2>1, <2>2, <2>3 DEF W!User, W!Edit, W!Commit, W!Merge, W!SquashMerge, W!OthersLand, W!Lock
<1>4. ASSUME NEW c \in Nat, W!Landed(c) PROVE W!Landed(c)'
  BY <1>0, <1>2, <1>4 DEF W!Landed
<1>5. Covered(decided) => Covered(decided)'
  <2> SUFFICES ASSUME Covered(decided), NEW c \in 1..decided
               PROVE  W!Landed(c)' \/ c <= pushed'
    BY <1>1 DEF Covered
  <2>1. W!Landed(c) \/ c <= pushed
    BY DEF Covered
  <2>2. c \in Nat
    BY <1>0
  <2>3. ASSUME c <= pushed, W!Landed(pushed) PROVE W!Landed(c)
    BY <1>0, <2>2, <2>3 DEF W!Landed
  <2> QED BY <1>0, <1>2, <1>3, <1>4, <2>1, <2>2, <2>3
<1>6. W!TypeOK'
  <2>1. lost \subseteq 1..head'
    BY <1>0, <1>1, <1>2 DEF W!TypeOK
  <2> QED BY <1>0, <1>1, <1>2, <2>1 DEF W!TypeOK, W!Commits
<1>7. OnlyLaterWorkIsLost' /\ MergedIsFound'
  BY <1>1 DEF TreeInv, OnlyLaterWorkIsLost, W!OnlyLaterWorkIsLost, MergedIsFound, W!MergedIsFound
<1> QED
  <2>1. /\ fact.ancestor => sha <= landed' /\ decided <= landed'
        /\ sha <= landed \/ sha \in prs => sha <= landed' \/ sha \in prs'
    BY <1>0, <1>2 DEF TreeInv
  <2> QED BY <1>1, <1>2, <1>5, <1>6, <1>7, <2>1 DEF TreeInv

\* inspect: each command adds what it sees to the facts.
LEMMA InspectKeepsTree ==
  ASSUME TreeInv, \/ W!ReadHead \/ W!ReadStatus \/ W!ReadTip \/ W!ReadAncestor
                  \/ W!ReadUpstream \/ W!ReadPr \/ W!ReadUnpushed
  PROVE  TreeInv'
<1> USE DEF W!Read, W!git
<1>0. /\ head \in Nat /\ landed \in 0..head /\ pushed \in 0..head /\ prs \subseteq 1..head
      /\ sha \in 0..head /\ decided \in 0..head /\ fact \in W!Facts /\ W!TypeOK
  BY UserAssumption DEF TreeInv, W!TypeOK, W!Commits
<1>1. /\ UNCHANGED <<head, landed, ahead, pushed, prs, dirty, locked, removable, lost>>
      /\ lost = {} /\ pruneAt' \in W!Reads \ {"head"}
  BY DEF TreeInv, W!ReadHead, W!ReadStatus, W!ReadTip, W!ReadAncestor, W!ReadUpstream, W!ReadPr,
         W!ReadUnpushed, W!Reads
<1>2. (OnlyLaterWorkIsLost /\ MergedIsFound)'
  BY <1>1 DEF OnlyLaterWorkIsLost, W!OnlyLaterWorkIsLost, MergedIsFound, W!MergedIsFound, W!Reads
<1>3. W!TypeOK' <=> sha' \in 0..head /\ decided' \in 0..head /\ fact' \in W!Facts /\ stirred' \in BOOLEAN
  BY <1>0, <1>1 DEF W!TypeOK, W!Reads
<1>4. CASE W!ReadHead
  <2>1. fact' \in W!Facts /\ ~fact'.ancestor /\ ~fact'.merged
    BY <1>4 DEF W!ReadHead, W!NoFacts, W!Facts
  <2>2. pruneAt' = "status" /\ sha' = head /\ decided' = 0 /\ stirred' = FALSE
    BY <1>4 DEF W!ReadHead
  <2>3. W!TypeOK'
    <3>1. head \in 0..head /\ 0 \in 0..head /\ FALSE \in BOOLEAN
      BY <1>0
    <3> QED BY <1>3, <2>1, <2>2, <3>1
  <2> QED BY <1>0, <1>1, <1>2, <2>1, <2>2, <2>3 DEF TreeInv
<1>5. CASE W!ReadStatus
  <2>1. fact' = [fact EXCEPT !.dirty = dirty, !.locked = locked]
    BY <1>5 DEF W!ReadStatus
  <2>2. /\ fact' \in W!Facts /\ fact'.dirty = dirty /\ fact'.locked = locked
        /\ fact'.ancestor = fact.ancestor /\ fact'.merged = fact.merged
    BY <1>0, <2>1 DEF W!Facts, W!TypeOK
  <2>3. pruneAt = "status" /\ pruneAt' = "tip" /\ UNCHANGED <<sha, decided, stirred>>
    BY <1>5 DEF W!ReadStatus
  <2>4. W!TypeOK'
    BY <1>0, <1>3, <2>2, <2>3 DEF W!TypeOK
  <2> QED BY <1>0, <1>1, <1>2, <2>2, <2>3, <2>4 DEF TreeInv
<1>6. CASE W!ReadTip
  <2>1. PICK b \in BOOLEAN :
          (b <=> sha = landed /\ ~ahead /\ head = 0) /\ fact' = [fact EXCEPT !.tip = b]
    BY <1>6 DEF W!ReadTip
  <2>2. /\ fact' \in W!Facts /\ fact'.tip = b
        /\ fact'.ancestor = fact.ancestor /\ fact'.merged = fact.merged
        /\ fact'.dirty = fact.dirty /\ fact'.locked = fact.locked
    BY <1>0, <2>1 DEF W!Facts
  <2>3. pruneAt = "tip" /\ pruneAt' = "ancestor" /\ UNCHANGED <<sha, decided, stirred>>
    BY <1>6 DEF W!ReadTip
  <2>4. W!TypeOK'
    BY <1>0, <1>3, <2>2, <2>3 DEF W!TypeOK
  <2> QED BY <1>0, <1>1, <1>2, <2>1, <2>2, <2>3, <2>4 DEF TreeInv
<1>7. CASE W!ReadAncestor
  <2>1. PICK b \in BOOLEAN : (b <=> head <= landed) /\ fact' = [fact EXCEPT !.ancestor = b]
    <3>1. fact' = [fact EXCEPT !.ancestor = (head <= landed)] /\ (head <= landed) \in BOOLEAN
      BY <1>0, <1>7 DEF W!ReadAncestor
    <3> QED BY <3>1, Zenon
  <2>2. /\ fact' \in W!Facts /\ fact'.ancestor = b
        /\ fact'.merged = fact.merged /\ fact'.tip = fact.tip
        /\ fact'.dirty = fact.dirty /\ fact'.locked = fact.locked
    BY <1>0, <2>1 DEF W!Facts
  <2>3. pruneAt = "ancestor" /\ pruneAt' = "upstream" /\ UNCHANGED <<sha, stirred>> /\ decided' = head
    BY <1>7 DEF W!ReadAncestor
  <2>4. W!TypeOK'
    BY <1>0, <1>3, <2>2, <2>3 DEF W!TypeOK
  <2>5. fact'.ancestor => sha <= landed /\ decided' <= landed
    BY <1>0, <2>1, <2>2, <2>3
  <2> QED BY <1>0, <1>1, <1>2, <2>1, <2>2, <2>3, <2>4, <2>5 DEF TreeInv
<1>8. CASE W!ReadUpstream
  <2>1. PICK b \in BOOLEAN : fact' = [fact EXCEPT !.published = b]
    <3>1. fact' = [fact EXCEPT !.published = (pushed > 0)] /\ (pushed > 0) \in BOOLEAN
      BY <1>0, <1>8 DEF W!ReadUpstream
    <3> QED BY <3>1, Zenon
  <2>2. /\ fact' \in W!Facts /\ fact'.ancestor = fact.ancestor
        /\ fact'.merged = fact.merged /\ fact'.tip = fact.tip
        /\ fact'.dirty = fact.dirty /\ fact'.locked = fact.locked
    BY <1>0, <2>1 DEF W!Facts
  <2>3. /\ pruneAt = "upstream" /\ UNCHANGED <<sha, decided, stirred>>
        /\ pruneAt' = IF fact.ancestor \/ fact.tip THEN "classify" ELSE "pr"
    BY <1>8 DEF W!ReadUpstream
  <2>4. W!TypeOK'
    BY <1>0, <1>3, <2>2, <2>3 DEF W!TypeOK
  <2> QED BY <1>0, <1>1, <1>2, <2>2, <2>3, <2>4 DEF TreeInv
<1>9. CASE W!ReadPr
  <2>1. PICK ok \in BOOLEAN : fact' = [fact EXCEPT !.merged = (ok /\ sha \in prs)]
    BY <1>9 DEF W!ReadPr, W!pr_head_matches
  <2>2. /\ fact' \in W!Facts /\ fact'.ancestor = fact.ancestor
        /\ (fact'.merged => sha \in prs) /\ fact'.tip = fact.tip
        /\ fact'.dirty = fact.dirty /\ fact'.locked = fact.locked
    BY <1>0, <2>1 DEF W!Facts
  <2>3. pruneAt = "pr" /\ pruneAt' = "unpushed" /\ UNCHANGED <<sha, decided, stirred>>
    BY <1>9 DEF W!ReadPr, W!pr_head_matches
  <2>4. W!TypeOK'
    BY <1>0, <1>3, <2>2, <2>3 DEF W!TypeOK
  <2> QED BY <1>0, <1>1, <1>2, <2>2, <2>3, <2>4 DEF TreeInv
<1>10. CASE W!ReadUnpushed
  <2>1. PICK b \in BOOLEAN : (b <=> head > pushed /\ head > landed) /\ fact' = [fact EXCEPT !.unpushed = b]
    BY <1>10 DEF W!ReadUnpushed
  <2>2. /\ fact' \in W!Facts /\ fact'.ancestor = fact.ancestor
        /\ fact'.merged = fact.merged /\ fact'.tip = fact.tip
        /\ fact'.dirty = fact.dirty /\ fact'.locked = fact.locked
        /\ fact'.unpushed = b
    BY <1>0, <2>1 DEF W!Facts
  <2>3. pruneAt = "unpushed" /\ pruneAt' = "classify" /\ UNCHANGED <<sha, stirred>> /\ decided' = head
    BY <1>10 DEF W!ReadUnpushed
  <2>4. W!TypeOK'
    BY <1>0, <1>3, <2>2, <2>3 DEF W!TypeOK
  <2>5. ~fact'.unpushed => Covered(decided)'
    <3> SUFFICES ASSUME ~b, NEW c \in 1..head PROVE W!Landed(c) \/ c <= pushed
      BY <1>1, <2>2, <2>3 DEF Covered, W!Landed
    <3> QED BY <1>0, <2>1 DEF W!Landed
  <2>6. ~fact'.ancestor
    BY <2>2, <2>3 DEF TreeInv
  <2> QED BY <1>0, <1>1, <1>2, <2>2, <2>3, <2>4, <2>5, <2>6 DEF TreeInv
<1> QED BY <1>4, <1>5, <1>6, <1>7, <1>8, <1>9, <1>10

\* classify, git worktree remove, git branch -D and the next prune.
LEMMA PruneKeepsTree ==
  ASSUME TreeInv, W!Classify \/ W!Remove \/ W!DeleteBranch \/ W!Again
  PROVE  TreeInv'
<1> USE DEF W!git
<1>0. /\ head \in Nat /\ landed \in 0..head /\ pushed \in 0..head /\ prs \subseteq 1..head
      /\ sha \in 0..head /\ decided \in 0..head /\ fact \in W!Facts /\ W!TypeOK
  BY UserAssumption DEF TreeInv, W!TypeOK, W!Commits
<1>1. UNCHANGED <<head, landed, ahead, pushed, prs, dirty, locked, sha, fact, decided, stirred>>
  BY DEF W!Classify, W!Remove, W!DeleteBranch, W!Again
<1>2. Covered(decided)' <=> Covered(decided)
  BY <1>1 DEF Covered, W!Landed
<1>3. fact.ancestor => Covered(decided)
  BY <1>0 DEF TreeInv, Covered, W!Landed
<1>4. CASE W!Classify
  <2>1. /\ pruneAt = "classify" /\ removable' = W!Removable(fact) /\ lost' = lost
        /\ pruneAt' = IF removable' THEN "remove" ELSE "kept"
    BY <1>4 DEF W!Classify
  <2>2. removable' \in BOOLEAN
    BY <2>1 DEF W!Removable
  <2>3. W!TypeOK'
    BY <1>0, <1>1, <2>1, <2>2 DEF W!TypeOK
  <2>4. CASE removable'
    <3>1. \/ fact.ancestor
          \/ ~fact.ancestor /\ fact.merged /\ ~fact.unpushed
      BY <2>1, <2>4 DEF W!Removable, W!State
    <3>2. Covered(decided) /\ (sha <= landed \/ sha \in prs)
      BY <1>3, <2>1, <3>1 DEF TreeInv
    <3>3. (OnlyLaterWorkIsLost /\ MergedIsFound)'
      BY <1>1, <2>1, <2>4 DEF TreeInv, OnlyLaterWorkIsLost, W!OnlyLaterWorkIsLost, MergedIsFound, W!MergedIsFound
    <3> QED BY <1>1, <1>2, <2>1, <2>3, <2>4, <3>2, <3>3 DEF TreeInv
  <2>5. CASE ~removable'
    <3>1. (~stirred /\ head > 0 /\ landed = head) => dirty \/ locked
      <4> SUFFICES ASSUME ~stirred, head > 0, landed = head PROVE dirty \/ locked
        OBVIOUS
      <4>1. ~fact.tip /\ fact.ancestor /\ fact.dirty = dirty /\ fact.locked = locked
        <5>1. /\ fact.tip <=> sha = landed /\ ~ahead /\ head = 0
              /\ fact.ancestor <=> head <= landed
              /\ fact.dirty = dirty /\ fact.locked = locked
          BY <2>1 DEF TreeInv
        <5> QED BY <1>0, <5>1
      <4>2. W!State(fact) = "merged-ancestor"
        BY <4>1 DEF W!State
      <4> QED BY <2>1, <2>5, <4>1, <4>2 DEF W!Removable
    <3>2. (OnlyLaterWorkIsLost /\ MergedIsFound)'
      BY <1>1, <2>1, <3>1 DEF TreeInv, OnlyLaterWorkIsLost, W!OnlyLaterWorkIsLost, MergedIsFound, W!MergedIsFound
    <3> QED BY <1>1, <2>1, <2>3, <2>5, <3>2 DEF TreeInv
  <2> QED BY <2>4, <2>5
<1>5. CASE W!Remove
  <2>1. /\ pruneAt = "remove" /\ pruneAt' = (IF dirty \/ locked THEN "kept" ELSE "branch")
        /\ UNCHANGED <<removable, lost>>
    BY <1>5 DEF W!Remove
  <2>2. W!TypeOK'
    BY <1>0, <1>1, <2>1 DEF W!TypeOK
  <2>3. (OnlyLaterWorkIsLost /\ MergedIsFound)'
    BY <1>1, <2>1 DEF TreeInv, OnlyLaterWorkIsLost, W!OnlyLaterWorkIsLost, MergedIsFound, W!MergedIsFound
  <2> QED BY <1>1, <1>2, <2>1, <2>2, <2>3 DEF TreeInv
<1>6. CASE W!DeleteBranch
  <2>1. /\ pruneAt = "branch" /\ pruneAt' = "removed" /\ removable' = removable
        /\ lost' = {c \in 1..head : ~W!Landed(c) /\ c > pushed}
    BY <1>6 DEF W!DeleteBranch
  <2>2. \A c \in lost' : c > decided
    <3> SUFFICES ASSUME NEW c \in lost', c <= decided PROVE FALSE
      BY <1>0, <2>1
    <3>1. c \in 1..decided /\ ~W!Landed(c) /\ ~(c <= pushed)
      BY <1>0, <2>1
    <3> QED BY <2>1, <3>1 DEF TreeInv, Covered
  <2>3. W!TypeOK'
    BY <1>0, <1>1, <2>1 DEF W!TypeOK
  <2>4. (OnlyLaterWorkIsLost /\ MergedIsFound)'
    BY <1>1, <2>1, <2>2 DEF OnlyLaterWorkIsLost, W!OnlyLaterWorkIsLost, MergedIsFound, W!MergedIsFound
  <2> QED BY <1>1, <2>1, <2>3, <2>4 DEF TreeInv
<1>7. CASE W!Again
  <2>1. pruneAt = "kept" /\ pruneAt' = "head" /\ removable' = FALSE /\ lost' = lost
    BY <1>7 DEF W!Again
  <2>2. W!TypeOK'
    BY <1>0, <1>1, <2>1 DEF W!TypeOK, W!Reads
  <2>3. (OnlyLaterWorkIsLost /\ MergedIsFound)'
    BY <1>1, <2>1 DEF TreeInv, OnlyLaterWorkIsLost, W!OnlyLaterWorkIsLost, MergedIsFound, W!MergedIsFound
  <2> QED BY <1>1, <2>1, <2>2, <2>3 DEF TreeInv
<1> QED BY <1>4, <1>5, <1>6, <1>7

LEMMA TreeStep ==
  ASSUME TreeInv, [W!Next]_treeVars
  PROVE  TreeInv'
<1>1. CASE UNCHANGED treeVars
  BY <1>1 DEF treeVars, TreeInv, W!TypeOK, Covered, W!Landed, OnlyLaterWorkIsLost,
              W!OnlyLaterWorkIsLost, MergedIsFound, W!MergedIsFound
<1> QED BY <1>1, UserKeepsTree, InspectKeepsTree, PruneKeepsTree DEF W!Next, W!Prune

\* What inspect found at HEAD has landed by the time a worktree is removed,
\* what prune destroys was committed after its last look, and merged work is
\* found, whatever happens between two git commands (worktree.rs: inspect,
\* classify, prune) and however many commits there are.
THEOREM PruneIsSafe == UserSpec => []PruneLosesNothing
<1>1. UserInit => TreeInv
  BY TreeStarts DEF UserInit
<1>2. TreeInv /\ [UserNext]_UserVars => TreeInv'
  BY StorySteps, TreeStep
<1>3. TreeInv => PruneLosesNothing
  <2> SUFFICES ASSUME TreeInv PROVE OnlyLandedWorkIsRemoved
    BY DEF TreeInv, PruneLosesNothing
  <2> SUFFICES ASSUME pruneAt \in {"branch", "removed"}, NEW c \in 1..sha PROVE W!Landed(c)
    BY DEF OnlyLandedWorkIsRemoved, W!OnlyLandedWorkIsRemoved
  <2>1. sha \in Nat /\ landed \in Nat /\ (sha <= landed \/ sha \in prs)
    BY UserAssumption DEF TreeInv, W!TypeOK, W!Commits
  <2> QED BY <2>1 DEF W!Landed
<1> QED BY <1>1, <1>2, <1>3, PTL DEF UserSpec

----------------------------------------------------------------------------
(* The audits that queue each other.                                       *)

\* Without a race or a failure only one audit at a time is about to submit,
\* with no other in the queue. An audit that ends has left the job it queued
\* pending, which waits for it, or an audit that had found another one.
AuditsInv ==
  /\ A!TypeOK
  /\ ~auditRaced /\ ~failed =>
       /\ \A a, b \in A!Audits : auditAt[a] = "submit" /\ auditAt[b] = "submit" => a = b
       /\ \A a \in A!Audits : auditAt[a] = "submit" => A!Queued \ {a} = {}
       /\ \A i, j \in A!Chains : i = j
  /\ \A a \in A!Audits : auditAt[a] \in {"pending", "report", "look", "submit"} => heir[a] = a
  /\ ~failed => \A a \in A!Audits : auditAt[a] = "ending" /\ heir[a] # a =>
       heir[a] \in Jobs /\ auditAt[heir[a]] = "pending"
  /\ ~met /\ ~failed =>
       /\ \A j \in Jobs : auditAt[j] = "ending" => heir[j] # j
       /\ A!Chains # {} \/ \E u \in Users : auditAt[u] \in {"report", "look", "submit"}

LEMMA AuditsStart == A!Init => AuditsInv
<1> SUFFICES ASSUME A!Init PROVE AuditsInv
  OBVIOUS
<1> USE UserAssumption DEF A!Init, A!Audits
<1>1. A!TypeOK
  BY DEF A!TypeOK, A!Places
<1>2. A!Chains = {}
  BY DEF A!Chains
<1>3. \E u \in Users : auditAt[u] = "report"
  OBVIOUS
<1> QED BY <1>1, <1>2, <1>3 DEF AuditsInv

LEMMA AuditMoves ==
  ASSUME AuditsInv, NEW a \in A!Audits, A!Report(a) \/ A!Exit(a)
  PROVE  AuditsInv'
<1> USE UserAssumption DEF A!Move, A!Audits
<1>1. A!TypeOK
  BY DEF AuditsInv
<1>2. CASE A!Report(a) /\ failed'
  <2>1. /\ auditAt[a] = "report" /\ auditAt' \in {[auditAt EXCEPT ![a] = "look"], [auditAt EXCEPT ![a] = "ending"]}
        /\ UNCHANGED <<heir, met, auditRaced>>
    BY <1>2 DEF A!Report
  <2>2. failed' = TRUE
    BY <1>1, <1>2 DEF A!Report, A!TypeOK
  <2>3. A!TypeOK'
    BY <1>1, <2>1, <2>2 DEF A!TypeOK, A!Places
  <2> QED BY <1>1, <2>1, <2>2, <2>3 DEF AuditsInv, A!TypeOK
<1>3. CASE A!Report(a) /\ ~failed'
  <2>1. /\ auditAt[a] = "report" /\ auditAt' = [auditAt EXCEPT ![a] = "look"]
        /\ UNCHANGED <<heir, met, auditRaced, failed>>
    BY <1>3 DEF A!Report
  <2>2. A!TypeOK'
    BY <1>1, <2>1 DEF A!TypeOK, A!Places
  <2>3. A!Chains' = A!Chains /\ A!Queued' = A!Queued
    BY <1>1, <2>1 DEF A!Chains, A!Queued, A!TypeOK
  <2> QED BY <1>1, <2>1, <2>2, <2>3 DEF AuditsInv, A!TypeOK
<1>4. CASE A!Exit(a)
  <2>1. /\ auditAt[a] = "ending" /\ auditAt' = [auditAt EXCEPT ![a] = "none"]
        /\ UNCHANGED <<heir, met, auditRaced, failed>>
    BY <1>4 DEF A!Exit
  <2>2. A!TypeOK'
    BY <1>1, <2>1 DEF A!TypeOK, A!Places
  <2>3. A!Chains' = A!Chains /\ A!Queued' \subseteq A!Queued
    BY <1>1, <2>1 DEF A!Chains, A!Queued, A!TypeOK
  <2> QED BY <1>1, <2>1, <2>2, <2>3 DEF AuditsInv, A!TypeOK
<1> QED BY <1>2, <1>3, <1>4

\* A job begins, which only those that queued it and are over let it, or is
\* killed.
LEMMA JobMoves ==
  ASSUME AuditsInv, NEW j \in Jobs, A!Begin(j) \/ A!Kill(j)
  PROVE  AuditsInv'
<1> USE UserAssumption DEF A!Move, A!Audits
<1>1. A!TypeOK
  BY DEF AuditsInv
<1>2. CASE A!Begin(j)
  <2>1. /\ auditAt[j] = "pending" /\ auditAt' = [auditAt EXCEPT ![j] = "report"]
        /\ \A a \in A!Audits : heir[a] = j => a = j \/ auditAt[a] = "none"
        /\ UNCHANGED <<heir, met, auditRaced, failed>>
    BY <1>2 DEF A!Begin
  <2>2. A!TypeOK'
    BY <1>1, <2>1 DEF A!TypeOK, A!Places
  <2>3. A!Chains' = A!Chains /\ A!Queued' = A!Queued
    BY <1>1, <2>1 DEF A!Chains, A!Queued, A!TypeOK
  <2> QED BY <1>1, <2>1, <2>2, <2>3 DEF AuditsInv, A!TypeOK
<1>3. CASE A!Kill(j)
  <2>1. /\ auditAt' = [auditAt EXCEPT ![j] = "none"] /\ failed' = TRUE
        /\ UNCHANGED <<heir, met, auditRaced>>
    BY <1>3 DEF A!Kill
  <2>2. A!TypeOK'
    BY <1>1, <2>1 DEF A!TypeOK, A!Places
  <2> QED BY <1>1, <2>1, <2>2 DEF AuditsInv, A!TypeOK
<1> QED BY <1>2, <1>3

\* An audit looks for others. One that finds some leaves it to them: to one
\* that will queue the next, or to what one that ends has queued.
LEMMA AuditLooks ==
  ASSUME AuditsInv, NEW a \in A!Audits, A!Look(a)
  PROVE  AuditsInv'
<1> USE UserAssumption DEF A!Move, A!Audits
<1>1. A!TypeOK
  BY DEF AuditsInv
<1>2. /\ auditAt[a] = "look" /\ heir' = heir
      /\ auditRaced' = (auditRaced \/ \E b \in A!Audits \ {a} : auditAt[b] = "submit")
      /\ \/ /\ auditAt' = [auditAt EXCEPT ![a] = IF A!Queued \ {a} # {} THEN "ending" ELSE "submit"]
            /\ met' = (met \/ (A!Queued \ {a} # {} /\ a \in Jobs))
            /\ UNCHANGED failed
         \/ /\ auditAt' = [auditAt EXCEPT ![a] = "submit"]
            /\ failed' = TRUE /\ UNCHANGED met
  BY DEF A!Look
<1>3. A!TypeOK'
  BY <1>1, <1>2 DEF A!TypeOK, A!Places
<1>4. A!Queued' = A!Queued
  BY <1>1, <1>2 DEF A!Queued, A!TypeOK
<1>5. A!Chains' \subseteq A!Chains
  BY <1>1, <1>2 DEF A!Chains, A!TypeOK
<1>6. ASSUME ~auditRaced', ~failed'
      PROVE  /\ \A b, c \in A!Audits : auditAt'[b] = "submit" /\ auditAt'[c] = "submit" => b = c
             /\ \A b \in A!Audits : auditAt'[b] = "submit" => A!Queued' \ {b} = {}
             /\ \A i, k \in A!Chains' : i = k
  <2>1. /\ ~auditRaced /\ ~failed /\ \A b \in A!Audits \ {a} : auditAt[b] # "submit"
        /\ auditAt' = [auditAt EXCEPT ![a] = IF A!Queued \ {a} # {} THEN "ending" ELSE "submit"]
    BY <1>1, <1>2, <1>6 DEF A!TypeOK
  <2> QED BY <1>1, <1>4, <1>5, <2>1 DEF AuditsInv, A!TypeOK
<1>7. \A b \in A!Audits : auditAt'[b] \in {"pending", "report", "look", "submit"} => heir'[b] = b
  BY <1>1, <1>2 DEF AuditsInv, A!TypeOK
<1>8. ~failed' => \A b \in A!Audits : auditAt'[b] = "ending" /\ heir'[b] # b =>
        heir'[b] \in Jobs /\ auditAt'[heir'[b]] = "pending"
  BY <1>1, <1>2 DEF AuditsInv, A!TypeOK
<1>9. ASSUME ~met', ~failed'
      PROVE  /\ \A j \in Jobs : auditAt'[j] = "ending" => heir'[j] # j
             /\ A!Chains' # {} \/ \E u \in Users : auditAt'[u] \in {"report", "look", "submit"}
  <2>1. /\ ~met /\ ~failed
        /\ auditAt' = [auditAt EXCEPT ![a] = IF A!Queued \ {a} # {} THEN "ending" ELSE "submit"]
        /\ a \in Jobs => A!Queued \ {a} = {}
    BY <1>1, <1>2, <1>9 DEF A!TypeOK
  <2>2. \A j \in Jobs : auditAt'[j] = "ending" => heir'[j] # j
    BY <1>1, <1>2, <2>1 DEF AuditsInv, A!TypeOK
  <2>3. CASE A!Queued \ {a} = {}
    <3>1. auditAt'[a] = "submit"
      BY <1>1, <2>1, <2>3 DEF A!TypeOK
    <3>2. a \in Users \/ a \in A!Chains'
      BY <3>1 DEF A!Chains
    <3> QED BY <2>2, <3>1, <3>2
  <2>4. CASE A!Queued \ {a} # {}
    <3>1. PICK j \in Jobs : auditAt[j] # "none" /\ j # a
      BY <2>4 DEF A!Queued
    <3>2. a \in Users /\ auditAt'[j] = auditAt[j]
      BY <1>1, <2>1, <2>4, <3>1 DEF A!TypeOK
    <3>3. CASE auditAt[j] = "ending"
      <4>1. heir[j] \in Jobs /\ auditAt[heir[j]] = "pending"
        BY <2>1, <3>1, <3>3 DEF AuditsInv
      <4>2. auditAt'[heir[j]] = "pending"
        BY <1>1, <1>2, <2>1, <4>1 DEF A!TypeOK
      <4>3. heir[j] \in A!Chains'
        BY <4>1, <4>2 DEF A!Chains
      <4> QED BY <2>2, <4>3
    <3>4. CASE auditAt[j] # "ending"
      <4>1. auditAt'[j] \in {"pending", "report", "look", "submit"}
        BY <1>1, <3>1, <3>2, <3>4 DEF A!TypeOK, A!Places
      <4>2. j \in A!Chains'
        BY <4>1 DEF A!Chains
      <4> QED BY <2>2, <4>2
    <3> QED BY <3>3, <3>4
  <2> QED BY <2>3, <2>4
<1> QED BY <1>3, <1>6, <1>7, <1>8, <1>9 DEF AuditsInv

\* The next audit is queued, or sbatch fails.
LEMMA AuditSubmits ==
  ASSUME AuditsInv, NEW a \in A!Audits, A!Submit(a)
  PROVE  AuditsInv'
<1> USE UserAssumption DEF A!Move, A!Audits
<1>1. A!TypeOK /\ auditAt[a] = "submit" /\ UNCHANGED <<met, auditRaced>>
  BY DEF AuditsInv, A!Submit
<1>2. CASE failed'
  <2>0. /\ auditAt' \in [A!Audits -> A!Places] /\ heir' \in [A!Audits -> A!Audits]
        /\ failed' \in BOOLEAN
    <3>1. CASE \E j \in Jobs : /\ auditAt' = [auditAt EXCEPT ![a] = "ending", ![j] = "pending"]
                               /\ heir' = [heir EXCEPT ![a] = j, ![j] = j] /\ failed' = failed
      <4>1. PICK j \in Jobs : /\ auditAt' = [auditAt EXCEPT ![a] = "ending", ![j] = "pending"]
                              /\ heir' = [heir EXCEPT ![a] = j, ![j] = j] /\ failed' = failed
        BY <3>1
      <4> QED BY <1>1, <4>1 DEF A!TypeOK, A!Places
    <3>2. CASE auditAt' = [auditAt EXCEPT ![a] = "ending"] /\ failed' = TRUE /\ heir' = heir
      BY <1>1, <3>2 DEF A!TypeOK, A!Places
    <3> QED BY <3>1, <3>2 DEF A!Submit
  <2>1. A!TypeOK'
    <3>1. \A u \in Users : auditAt'[u] # "pending"
      BY <1>1 DEF A!TypeOK, A!Submit
    <3> QED BY <1>1, <2>0, <3>1 DEF A!TypeOK
  <2>2. \A b \in A!Audits : auditAt'[b] \in {"pending", "report", "look", "submit"} => heir'[b] = b
    BY <1>1 DEF AuditsInv, A!TypeOK, A!Submit
  <2> QED BY <1>2, <2>1, <2>2 DEF AuditsInv
<1>3. CASE ~failed'
  <2>1. PICK j \in Jobs : /\ auditAt[j] = "none"
                          /\ auditAt' = [auditAt EXCEPT ![a] = "ending", ![j] = "pending"]
                          /\ heir' = [heir EXCEPT ![a] = j, ![j] = j]
                          /\ UNCHANGED failed
    BY <1>3 DEF A!Submit
  <2>2. /\ a # j /\ auditAt'[a] = "ending" /\ auditAt'[j] = "pending"
        /\ heir'[a] = j /\ heir'[j] = j
        /\ \A b \in A!Audits \ {a, j} : auditAt'[b] = auditAt[b] /\ heir'[b] = heir[b]
    BY <1>1, <2>1 DEF A!TypeOK
  <2>3. A!TypeOK'
    BY <1>1, <2>1 DEF A!TypeOK, A!Places
  <2>4. j \in A!Chains'
    BY <2>2 DEF A!Chains
  <2>5. ASSUME ~auditRaced
        PROVE  /\ \A b \in A!Audits : auditAt'[b] # "submit"
               /\ A!Chains' = {j}
    <3>1. /\ \A b \in A!Audits : auditAt[b] = "submit" => a = b
          /\ \A i \in Jobs : auditAt[i] # "none" => i = a
      BY <1>1, <1>3, <2>1, <2>5 DEF AuditsInv, A!Queued
    <3>2. \A b \in A!Audits : auditAt'[b] # "submit"
      BY <2>2, <3>1
    <3>3. \A i \in A!Chains' : i = j
      BY <2>2, <3>1 DEF A!Chains
    <3> QED BY <2>4, <3>2, <3>3
  <2>6. \A b \in A!Audits : auditAt'[b] = "ending" /\ heir'[b] # b =>
          heir'[b] \in Jobs /\ auditAt'[heir'[b]] = "pending"
    <3> SUFFICES ASSUME NEW b \in A!Audits, auditAt'[b] = "ending", heir'[b] # b
                 PROVE  heir'[b] \in Jobs /\ auditAt'[heir'[b]] = "pending"
      OBVIOUS
    <3>1. CASE b = a
      BY <2>2, <3>1
    <3>2. CASE b # a
      <4>1. b # j /\ auditAt[b] = "ending" /\ heir[b] = heir'[b]
        BY <2>2, <3>2
      <4>2. heir[b] \in Jobs /\ auditAt[heir[b]] = "pending"
        BY <1>3, <2>1, <4>1 DEF AuditsInv
      <4> QED BY <1>1, <2>1, <2>2, <4>1, <4>2
    <3> QED BY <3>1, <3>2
  <2>7. \A b \in A!Audits : auditAt'[b] \in {"pending", "report", "look", "submit"} => heir'[b] = b
    BY <2>2 DEF AuditsInv
  <2>8. ~met => \A i \in Jobs : auditAt'[i] = "ending" => heir'[i] # i
    BY <1>3, <2>1, <2>2 DEF AuditsInv
  <2>9. ~auditRaced =>
          /\ \A b \in A!Audits : auditAt'[b] # "submit"
          /\ \A i, k \in A!Chains' : i = k
    BY <2>5
  <2> HIDE DEF A!Audits
  <2> QED BY <1>1, <2>3, <2>4, <2>6, <2>7, <2>8, <2>9 DEF AuditsInv
<1> QED BY <1>2, <1>3

\* The operators of a module that is instantiated are those of the library.
LEMMA AuditCardinality == \A X : A!Cardinality(X) = Cardinality(X)
BY DEF A!Cardinality, Cardinality

LEMMA AuditsStep ==
  ASSUME AuditsInv, [A!Next]_auditVars
  PROVE  AuditsInv'
<1>1. CASE UNCHANGED auditVars
  BY <1>1 DEF auditVars, AuditsInv, A!TypeOK, A!Chains, A!Queued
<1> QED BY <1>1, AuditMoves, JobMoves, AuditLooks, AuditSubmits DEF A!Next, A!Step

\* There is one chain of audits unless two looked before either submitted or
\* squeue failed, and it goes on unless a job, sbatch or squeue failed or two
\* audits each left it to the other (worktree audit --resubmit), for any
\* number of audits and users.
THEOREM AuditsChain == UserSpec => []ChainIsOne
<1>1. UserInit => AuditsInv
  BY AuditsStart DEF UserInit
<1>2. AuditsInv /\ [UserNext]_UserVars => AuditsInv'
  BY StorySteps, AuditsStep
<1>3. AuditsInv => ChainIsOne
  <2> SUFFICES ASSUME AuditsInv PROVE ChainIsOne
    OBVIOUS
  <2>1. OneChainUnlessRaced
    <3> SUFFICES ASSUME ~auditRaced, ~failed PROVE Cardinality(A!Chains) <= 1
      BY AuditCardinality DEF OneChainUnlessRaced, A!OneChainUnlessRaced
    <3>1. CASE A!Chains = {}
      BY <3>1, FS_EmptySet
    <3>2. CASE A!Chains # {}
      <4>1. PICK j \in A!Chains : \A i \in A!Chains : i = j
        BY <3>2 DEF AuditsInv
      <4>2. A!Chains = {j}
        BY <4>1
      <4> QED BY <4>2, FS_Singleton
    <3> QED BY <3>1, <3>2
  <2>2. ChainGoesOnUnlessMet
    BY DEF AuditsInv, ChainGoesOnUnlessMet, A!ChainGoesOnUnlessMet
  <2> QED BY <2>1, <2>2 DEF AuditsInv, ChainIsOne
<1> QED BY <1>1, <1>2, <1>3, PTL DEF UserSpec

----------------------------------------------------------------------------
(* A file that is written to its .tmp sibling and renamed.                 *)

Halves == (Versions \cup {None}) \X (Versions \cup {None})
WriterStates ==
  [at : {"idle", "first", "second", "rename", "failed"}, fd : Inodes \cup {None},
   version : Versions \cup {None}]
ReaderStates == [at : {"idle", "first", "second"}, fd : Inodes \cup {None}, got : Halves]

\* The one writer has the inode called .tmp in its hands, which no reader has
\* opened and no other name has. What has a name, or a reader, is whole.
FileInv ==
  /\ tmp \in Inodes \cup {None} /\ path \in Inodes \cup {None} /\ (tmp # None => tmp # path)
  /\ data \in [Inodes -> Halves]
  /\ writer \in [Writers -> WriterStates] /\ reader \in [Readers -> ReaderStates]
  /\ path # None => Whole(data[path])
  /\ \A w \in Writers :
       /\ writer[w].fd # None <=> writer[w].at \in {"first", "second"}
       /\ writer[w].fd # None => writer[w].fd = tmp
       /\ writer[w].at \in {"first", "second", "rename"} => tmp # None /\ writer[w].version \in Versions
       /\ writer[w].at \in {"second", "rename"} => data[tmp][1] = writer[w].version
       /\ writer[w].at = "rename" => data[tmp][2] = writer[w].version
  /\ \A r \in Readers :
       /\ reader[r].fd # None <=> reader[r].at \in {"first", "second"}
       /\ reader[r].fd # None => reader[r].fd # tmp /\ Whole(data[reader[r].fd])
       /\ reader[r].at = "second" => reader[r].got[1] = data[reader[r].fd][1]
       /\ reader[r].at = "idle" => reader[r].got = Empty \/ Whole(reader[r].got)

LEMMA HalfReplaced ==
  ASSUME NEW d \in Halves, NEW v \in Versions \cup {None}
  PROVE  /\ [d EXCEPT ![1] = v] = <<v, d[2]>> /\ [d EXCEPT ![2] = v] = <<d[1], v>>
         /\ d[1] \in Versions \cup {None} /\ d[2] \in Versions \cup {None}
BY DEF Halves

LEMMA FileBegins == Init => FileInv
<1> SUFFICES ASSUME Init PROVE FileInv
  OBVIOUS
<1>1. Empty \in Halves
  BY DEF Empty, Halves
<1>2. Idle \in WriterStates /\ Quiet \in ReaderStates
  BY <1>1 DEF Idle, Quiet, WriterStates, ReaderStates
<1> QED BY <1>1, <1>2 DEF Init, FileInv, Idle, Quiet

OneWriter == \A v, w \in Writers : v = w

\* Opening the sibling takes an inode that nobody reads and no name has, or the
\* one that was left behind.
LEMMA OpenKeepsFile ==
  ASSUME FileInv, OneWriter, NEW w \in Writers, OpenTmp(w)
  PROVE  FileInv' /\ Published' = Published
<1> USE UserAssumption
<1>1. PICK i \in (IF tmp = None THEN Inodes \ Used ELSE {tmp}), v \in Versions :
        /\ tmp' = i /\ data' = [data EXCEPT ![i] = Empty]
        /\ writer' = [writer EXCEPT ![w] = [at |-> "first", fd |-> i, version |-> v]]
  BY DEF OpenTmp
<1>2. UNCHANGED <<path, reader>> /\ writer[w].at = "idle"
  BY DEF OpenTmp
<1>3. i \in Inodes /\ i # path /\ i # None /\ v # None
  BY <1>1 DEF FileInv, Used
<1>4. \A r \in Readers : reader[r].fd # None => reader[r].fd # i
  BY <1>1 DEF FileInv, Used
<1>5. Empty \in Halves
  BY DEF Empty, Halves
<1>6. data' \in [Inodes -> Halves] /\ \A j \in Inodes \ {i} : data'[j] = data[j]
  BY <1>1, <1>3, <1>5 DEF FileInv
<1>7. [at |-> "first", fd |-> i, version |-> v] \in WriterStates
  BY <1>3 DEF WriterStates
<1>8. writer' \in [Writers -> WriterStates]
  BY <1>1, <1>7 DEF FileInv
<1>9. /\ writer'[w].at = "first" /\ writer'[w].fd = i /\ writer'[w].version = v
      /\ \A u \in Writers : u = w
  BY <1>1 DEF FileInv, OneWriter
<1>10. path # None => Whole(data'[path])
  BY <1>3, <1>6 DEF FileInv
<1>11. \A r \in Readers : reader[r].fd # None => data'[reader[r].fd] = data[reader[r].fd]
  BY <1>4, <1>6 DEF FileInv, ReaderStates
<1>12. Published' = Published
  BY <1>2, <1>3, <1>6 DEF FileInv, Published, Whole
<1>13. FileInv'
  BY <1>1, <1>2, <1>3, <1>4, <1>6, <1>8, <1>9, <1>10, <1>11 DEF FileInv, Whole
<1> QED BY <1>12, <1>13

\* Writing through the descriptor touches nothing that has a name or a reader.
LEMMA WriteKeepsFile ==
  ASSUME FileInv, OneWriter, NEW w \in Writers, WriteFirst(w) \/ WriteSecond(w)
  PROVE  FileInv' /\ Published' = Published
<1> USE UserAssumption
<1>1. /\ writer[w].at \in {"first", "second"} /\ UNCHANGED <<tmp, path, reader>>
      /\ writer[w] \in WriterStates
  BY DEF WriteFirst, WriteSecond, FileInv
<1>2. /\ writer[w].fd = tmp /\ tmp # None /\ tmp \in Inodes /\ tmp # path
      /\ writer[w].version \in Versions /\ data[tmp] \in Halves
      /\ \A u \in Writers : u = w
  BY <1>1 DEF FileInv, OneWriter
<1> DEFINE ver == writer[w].version
<1>3. \/ /\ writer[w].at = "first" /\ data' = [data EXCEPT ![tmp] = <<ver, data[tmp][2]>>]
         /\ writer' = [writer EXCEPT ![w] = [writer[w] EXCEPT !.at = "second"]]
      \/ /\ writer[w].at = "second" /\ data' = [data EXCEPT ![tmp] = <<data[tmp][1], ver>>]
         /\ writer' = [writer EXCEPT ![w] = [writer[w] EXCEPT !.at = "rename", !.fd = None]]
  <2>1. /\ [data[tmp] EXCEPT ![1] = ver] = <<ver, data[tmp][2]>>
        /\ [data[tmp] EXCEPT ![2] = ver] = <<data[tmp][1], ver>>
    BY <1>2, HalfReplaced
  <2>2. CASE WriteFirst(w)
    BY <1>2, <2>1, <2>2 DEF WriteFirst
  <2>3. CASE WriteSecond(w)
    <3>1. writer' = [writer EXCEPT ![w] = [writer[w] EXCEPT !.at = "rename", !.fd = None]]
      BY <2>3 DEF WriteSecond
    <3>2. writer[w].at = "second" /\ data' = [data EXCEPT ![tmp] = <<data[tmp][1], ver>>]
      BY <1>2, <2>1, <2>3 DEF WriteSecond
    <3> QED BY <3>1, <3>2
  <2> QED BY <2>2, <2>3
<1>4. /\ <<ver, data[tmp][2]>> \in Halves /\ <<data[tmp][1], ver>> \in Halves
  BY <1>2, HalfReplaced DEF Halves
<1>5. data' \in [Inodes -> Halves] /\ \A j \in Inodes \ {tmp} : data'[j] = data[j]
  BY <1>2, <1>3, <1>4 DEF FileInv
<1>6. /\ writer'[w] \in WriterStates /\ writer'[w].version = ver
      /\ \/ writer'[w].at = "second" /\ writer'[w].fd = tmp /\ data'[tmp][1] = ver
         \/ /\ writer'[w].at = "rename" /\ writer'[w].fd = None
            /\ data'[tmp][1] = ver /\ data'[tmp][2] = ver
  <2>1. CASE writer[w].at = "first"
    BY <1>1, <1>2, <1>3, <2>1 DEF FileInv, WriterStates
  <2>2. CASE writer[w].at = "second"
    <3>1. writer' = [writer EXCEPT ![w] = [writer[w] EXCEPT !.at = "rename", !.fd = None]]
      BY <1>3, <2>2
    <3>2. /\ [writer[w] EXCEPT !.at = "rename", !.fd = None] \in WriterStates
          /\ [writer[w] EXCEPT !.at = "rename", !.fd = None].at = "rename"
          /\ [writer[w] EXCEPT !.at = "rename", !.fd = None].fd = None
          /\ [writer[w] EXCEPT !.at = "rename", !.fd = None].version = ver
      BY <1>1 DEF WriterStates
    <3>3. data'[tmp] = <<data[tmp][1], ver>> /\ data[tmp][1] = ver
      BY <1>2, <1>3, <2>2 DEF FileInv
    <3> QED BY <3>1, <3>2, <3>3 DEF FileInv
  <2> QED BY <1>1, <2>1, <2>2
<1>7. writer' \in [Writers -> WriterStates]
  BY <1>2, <1>3, <1>6 DEF FileInv
<1>8. path # None => Whole(data'[path])
  BY <1>2, <1>5 DEF FileInv
<1>9. \A r \in Readers : reader[r].fd # None =>
        reader[r].fd # tmp /\ data'[reader[r].fd] = data[reader[r].fd]
  BY <1>5 DEF FileInv, ReaderStates
<1>10. Published' = Published
  BY <1>1, <1>2, <1>5 DEF FileInv, Published, Whole
<1>11. FileInv'
  BY <1>1, <1>2, <1>5, <1>6, <1>7, <1>8, <1>9 DEF FileInv, Whole
<1> QED BY <1>10, <1>11

\* A write that fails or a process that is killed leaves at most a .tmp.
LEMMA FailureKeepsFile ==
  ASSUME FileInv, OneWriter, NEW w \in Writers, WriteFails(w) \/ DropTmp(w) \/ Crash(w)
  PROVE  FileInv' /\ Published' = Published
<1> USE UserAssumption
<1>1. UNCHANGED <<path, data, reader>> /\ tmp' \in {tmp, None} /\ \A u \in Writers : u = w
  BY DEF WriteFails, DropTmp, Crash, OneWriter
<1>2. /\ writer' \in [Writers -> WriterStates] /\ writer'[w].fd = None
      /\ writer'[w].at \in {"idle", "failed"}
  <2>1. writer[w] \in WriterStates /\ writer \in [Writers -> WriterStates]
    BY DEF FileInv
  <2>2. CASE WriteFails(w)
    <3>1. writer' = [writer EXCEPT ![w] = [writer[w] EXCEPT !.at = "failed", !.fd = None]]
      BY <2>2 DEF WriteFails
    <3> QED BY <2>1, <3>1 DEF WriterStates
  <2>3. CASE DropTmp(w) \/ Crash(w)
    <3>1. writer' = [writer EXCEPT ![w] = Idle]
      BY <2>3 DEF DropTmp, Crash
    <3>2. Idle \in WriterStates /\ Idle.at = "idle" /\ Idle.fd = None
      BY DEF Idle, WriterStates
    <3> QED BY <2>1, <3>1, <3>2
  <2> QED BY <2>2, <2>3
<1>3. Published' = Published
  BY <1>1 DEF Published, Whole
<1>4. FileInv'
  BY <1>1, <1>2 DEF FileInv, Whole
<1> QED BY <1>3, <1>4

\* The rename publishes a whole version at once.
LEMMA RenamePublishes ==
  ASSUME FileInv, OneWriter, NEW w \in Writers, Rename(w)
  PROVE  FileInv' /\ Published' \in Versions
<1> USE UserAssumption
<1>1. /\ writer[w].at = "rename" /\ tmp # None /\ tmp \in Inodes /\ tmp # path
      /\ writer[w].version \in Versions
      /\ data[tmp][1] = writer[w].version /\ data[tmp][2] = writer[w].version
      /\ \A u \in Writers : u = w
  BY DEF Rename, FileInv, OneWriter
<1>2. path' = tmp /\ tmp' = None /\ writer' = [writer EXCEPT ![w] = Idle] /\ UNCHANGED <<data, reader>>
  BY <1>1 DEF Rename
<1>3. Whole(data[tmp])
  BY <1>1 DEF Whole
<1>4. Published' = writer[w].version
  BY <1>1, <1>2, <1>3 DEF Published, Whole
<1>5. /\ writer' \in [Writers -> WriterStates] /\ writer'[w].fd = None /\ writer'[w].at = "idle"
  <2>1. Idle \in WriterStates /\ Idle.at = "idle" /\ Idle.fd = None
    BY DEF Idle, WriterStates
  <2> QED BY <1>2, <2>1 DEF FileInv
<1>6. FileInv'
  BY <1>1, <1>2, <1>3, <1>5 DEF FileInv, Whole
<1> QED BY <1>1, <1>4, <1>6

\* A reader's state after it has read a half, field by field.
LEMMA ReaderAfterFirst ==
  ASSUME NEW f \in [Readers -> ReaderStates], NEW r \in Readers, NEW v
  PROVE  [f EXCEPT ![r].at = "second", ![r].got[1] = v]
         = [f EXCEPT ![r] = [at |-> "second", fd |-> f[r].fd, got |-> [f[r].got EXCEPT ![1] = v]]]
<1> DEFINE g == [f EXCEPT ![r].at = "second"]
<1>1. g = [f EXCEPT ![r] = [at |-> "second", fd |-> f[r].fd, got |-> f[r].got]]
  <2>1. [f[r] EXCEPT !.at = "second"] = [at |-> "second", fd |-> f[r].fd, got |-> f[r].got]
    BY DEF ReaderStates
  <2> QED BY <2>1
<1>2. g[r] = [at |-> "second", fd |-> f[r].fd, got |-> f[r].got]
  BY <1>1
<1> HIDE DEF g
<1> DEFINE h == [g EXCEPT ![r].got[1] = v]
<1>3. h = [g EXCEPT ![r] = [g[r] EXCEPT !.got = [g[r].got EXCEPT ![1] = v]]]
  OBVIOUS
<1>4. [g[r] EXCEPT !.got = [g[r].got EXCEPT ![1] = v]]
      = [at |-> "second", fd |-> f[r].fd, got |-> [f[r].got EXCEPT ![1] = v]]
  BY <1>2
<1>5. h = [f EXCEPT ![r] = [at |-> "second", fd |-> f[r].fd, got |-> [f[r].got EXCEPT ![1] = v]]]
  BY <1>1, <1>3, <1>4
<1> QED BY <1>5 DEF g

\* Readers go on with the inode they opened.
LEMMA ReaderKeepsFile ==
  ASSUME FileInv, NEW r \in Readers, OpenPath(r) \/ ReadFirst(r) \/ ReadSecond(r)
  PROVE  FileInv' /\ Published' = Published
<1> USE UserAssumption
<1>1. UNCHANGED <<tmp, path, data, writer>> /\ reader[r] \in ReaderStates
      /\ reader \in [Readers -> ReaderStates]
  BY DEF OpenPath, ReadFirst, ReadSecond, FileInv
<1>2. Published' = Published
  BY <1>1 DEF Published, Whole
<1> DEFINE it == reader'[r]
<1>3. ASSUME reader' \in [Readers -> ReaderStates],
             \A q \in Readers \ {r} : reader'[q] = reader[q],
             it.fd # None <=> it.at \in {"first", "second"},
             it.fd # None => it.fd # tmp /\ Whole(data[it.fd]),
             it.at = "second" => it.got[1] = data[it.fd][1],
             it.at = "idle" => it.got = Empty \/ Whole(it.got)
      PROVE  FileInv'
  BY <1>1, <1>3 DEF FileInv, Whole
<1>4. CASE OpenPath(r)
  <2>1. /\ reader' = [reader EXCEPT ![r] = [at |-> "first", fd |-> path, got |-> Empty]]
        /\ path # None
    BY <1>4 DEF OpenPath
  <2>2. [at |-> "first", fd |-> path, got |-> Empty] \in ReaderStates
    BY <2>1 DEF FileInv, ReaderStates, Empty, Halves
  <2>3. it = [at |-> "first", fd |-> path, got |-> Empty]
    BY <1>1, <2>1
  <2>4. path # tmp /\ Whole(data[path])
    BY <2>1 DEF FileInv
  <2>5. FileInv'
    BY <1>1, <1>3, <2>1, <2>2, <2>3, <2>4
  <2> QED BY <1>2, <2>5
<1>5. CASE ReadFirst(r) \/ ReadSecond(r)
  <2> DEFINE file == data[reader[r].fd]
  <2>1. /\ reader[r].at \in {"first", "second"} /\ reader[r].fd # None
        /\ file \in Halves /\ reader[r].got \in Halves
        /\ reader[r].fd # tmp /\ Whole(file)
    BY <1>1, <1>5 DEF ReadFirst, ReadSecond, FileInv, ReaderStates
  <2>2. /\ [reader[r].got EXCEPT ![1] = file[1]] = <<file[1], reader[r].got[2]>>
        /\ [reader[r].got EXCEPT ![2] = file[2]] = <<reader[r].got[1], file[2]>>
        /\ <<file[1], reader[r].got[2]>> \in Halves /\ <<reader[r].got[1], file[2]>> \in Halves
    <3>1. file[1] \in Versions \cup {None} /\ file[2] \in Versions \cup {None}
      BY <2>1, HalfReplaced
    <3> HIDE DEF file
    <3> QED BY <2>1, <3>1, HalfReplaced DEF Halves
  <2>3. CASE ReadFirst(r)
    <3>1. reader' = [reader EXCEPT ![r] = [at |-> "second", fd |-> reader[r].fd,
                                            got |-> <<file[1], reader[r].got[2]>>]]
      <4>1. reader' = [reader EXCEPT ![r].at = "second", ![r].got[1] = file[1]]
        BY <2>3 DEF ReadFirst
      <4> HIDE DEF file
      <4> DEFINE h == file[1]
      <4>2. [reader EXCEPT ![r].at = "second", ![r].got[1] = h]
            = [reader EXCEPT ![r] = [at |-> "second", fd |-> reader[r].fd,
                                      got |-> [reader[r].got EXCEPT ![1] = h]]]
        <5> HIDE DEF h
        <5> QED BY <1>1, ReaderAfterFirst, Zenon
      <4> QED BY <2>2, <4>1, <4>2
    <3>2. /\ it \in ReaderStates /\ it.at = "second" /\ it.fd = reader[r].fd /\ it.got[1] = file[1]
      BY <1>1, <2>2, <3>1 DEF ReaderStates
    <3>3. /\ reader' \in [Readers -> ReaderStates] /\ \A q \in Readers \ {r} : reader'[q] = reader[q]
      BY <1>1, <3>1, <3>2
    <3>4. FileInv'
      BY <1>3, <2>1, <3>2, <3>3
    <3> QED BY <1>2, <3>4
  <2>4. CASE ReadSecond(r)
    <3>1. reader' = [reader EXCEPT ![r] = [at |-> "idle", fd |-> None,
                                            got |-> <<reader[r].got[1], file[2]>>]]
      <4>1. reader' = [reader EXCEPT ![r].at = "idle", ![r].fd = None, ![r].got[2] = file[2]]
        BY <2>4 DEF ReadSecond
      <4> HIDE DEF file
      <4> DEFINE k == [reader EXCEPT ![r].at = "idle"]
                 g == [k EXCEPT ![r].fd = None]
      <4>2. k = [reader EXCEPT ![r] = [at |-> "idle", fd |-> reader[r].fd, got |-> reader[r].got]]
        <5>1. [reader[r] EXCEPT !.at = "idle"] = [at |-> "idle", fd |-> reader[r].fd, got |-> reader[r].got]
          BY <1>1 DEF ReaderStates
        <5> QED BY <5>1
      <4>3. k[r] = [at |-> "idle", fd |-> reader[r].fd, got |-> reader[r].got]
        BY <1>1, <4>2
      <4> HIDE DEF k
      <4>4. g = [reader EXCEPT ![r] = [at |-> "idle", fd |-> None, got |-> reader[r].got]]
        <5>1. [k[r] EXCEPT !.fd = None] = [at |-> "idle", fd |-> None, got |-> reader[r].got]
          BY <4>3
        <5>2. g = [k EXCEPT ![r] = [at |-> "idle", fd |-> None, got |-> reader[r].got]]
          BY <5>1
        <5> QED BY <4>2, <5>2
      <4>5. g[r] = [at |-> "idle", fd |-> None, got |-> reader[r].got]
        BY <1>1, <4>4
      <4>6. reader' = [g EXCEPT ![r].got[2] = file[2]]
        BY <4>1 DEF k
      <4> HIDE DEF g
      <4>7. reader' = [g EXCEPT ![r] = [at |-> "idle", fd |-> None, got |-> [reader[r].got EXCEPT ![2] = file[2]]]]
        <5>1. [g[r] EXCEPT !.got = [g[r].got EXCEPT ![2] = file[2]]]
              = [at |-> "idle", fd |-> None, got |-> [reader[r].got EXCEPT ![2] = file[2]]]
          BY <4>5
        <5> QED BY <4>6, <5>1
      <4> QED BY <2>2, <4>4, <4>7
    <3>2. /\ it \in ReaderStates /\ it.at = "idle" /\ it.fd = None
          /\ it.got = <<reader[r].got[1], file[2]>>
      BY <1>1, <2>2, <3>1 DEF ReaderStates
    <3>3. reader[r].got[1] = file[1]
      BY <2>1, <2>4 DEF ReadSecond, FileInv
    <3>4. Whole(it.got)
      BY <2>1, <3>2, <3>3 DEF Whole
    <3>5. /\ reader' \in [Readers -> ReaderStates] /\ \A q \in Readers \ {r} : reader'[q] = reader[q]
      BY <1>1, <3>1, <3>2
    <3>6. FileInv'
      BY <1>3, <2>1, <3>2, <3>4, <3>5
    <3> QED BY <1>2, <3>6
  <2> QED BY <1>5, <2>3, <2>4
<1> QED BY <1>4, <1>5

\* Each call of the writer and of a reader is one step of the atomic file or
\* none: only the rename and the removal are seen.
LEMMA FileStep ==
  ASSUME FileInv, OneWriter, [Next]_vars
  PROVE  FileInv' /\ [Register!Next]_Published
<1> USE DEF Register!Next, Register!Write, Register!Remove
<1>1. CASE UNCHANGED vars
  <2>1. FileInv' /\ Published' = Published
    BY <1>1 DEF vars, FileInv, Published, Whole
  <2> QED BY <2>1
<1>2. ASSUME NEW w \in Writers, OpenTmp(w) PROVE FileInv' /\ Published' = Published
  BY <1>2, OpenKeepsFile
<1>3. ASSUME NEW w \in Writers, WriteFirst(w) \/ WriteSecond(w)
      PROVE  FileInv' /\ Published' = Published
  BY <1>3, WriteKeepsFile
<1>4. ASSUME NEW w \in Writers, WriteFails(w) \/ DropTmp(w) \/ Crash(w)
      PROVE  FileInv' /\ Published' = Published
  BY <1>4, FailureKeepsFile
<1>5. ASSUME NEW w \in Writers, Rename(w) PROVE FileInv' /\ Register!Next
  BY <1>5, RenamePublishes
<1>6. ASSUME NEW w \in Writers, Cleanup(w) PROVE FileInv' /\ Register!Next
  <2>1. /\ path' = None /\ tmp' = None /\ UNCHANGED <<data, writer, reader>>
        /\ writer[w].at = "idle" /\ \A u \in Writers : u = w
    BY <1>6 DEF Cleanup, OneWriter
  <2>2. Published' = None
    BY <2>1 DEF Published
  <2>3. FileInv'
    BY <2>1 DEF FileInv, Whole
  <2> QED BY <2>2, <2>3
<1>7. ASSUME NEW r \in Readers, OpenPath(r) \/ ReadFirst(r) \/ ReadSecond(r)
      PROVE  FileInv' /\ Published' = Published
  BY <1>7, ReaderKeepsFile
<1> QED BY <1>1, <1>2, <1>3, <1>4, <1>5, <1>6, <1>7 DEF Next

\* With one writer, write-to-.tmp-then-rename implements one atomic file: what
\* is published is absent or one whole version at any moment, and a reader gets
\* nothing else, whatever fails or is killed (atomic_write in state.rs), for
\* any readers and versions. Two writers of one path are the violation that
\* atomic_write_shared shows.
THEOREM FilesAreAtomic == OneWriter => (UserSpec => FileIsAtomic)
<1> SUFFICES ASSUME OneWriter PROVE UserSpec => FileIsAtomic
  OBVIOUS
<1>1. UserInit => FileInv
  BY FileBegins DEF UserInit
<1>2. FileInv /\ [UserNext]_UserVars => FileInv' /\ [Register!Next]_Published
  BY StorySteps, FileStep
<1>3. UserInit => Register!Init
  BY DEF UserInit, Init, Register!Init, Published
<1>4. FileInv => TypeOK /\ ReadsAreAtomic
  BY DEF FileInv, TypeOK, ReadsAreAtomic, WriterStates, ReaderStates, Halves
<1> QED BY <1>1, <1>2, <1>3, <1>4, PTL DEF UserSpec, FileIsAtomic, ImplementsAtomicFile, Register!Spec
=============================================================================
