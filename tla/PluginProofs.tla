---------------------------- MODULE PluginProofs ----------------------------
(***************************************************************************)
(* What holds of the attach, the start of the zellij server, the plugin's  *)
(* status line and its panel, for any number of callers, clients, jobs,    *)
(* notices and key presses. Each machine has an inductive invariant of its *)
(* own: a step of MCLaunch is a step of the machine whose story it tells,  *)
(* or leaves that story alone (StorySteps).                                *)
(***************************************************************************)
EXTENDS MCLaunch, SequenceTheorems, FiniteSetTheorems, TLAPS

LEMMA StorySteps ==
  ASSUME [StoryNext]_storyVars
  PROVE  /\ story' = story
         /\ story = "attach" => A!Next \/ UNCHANGED slots
         /\ story = "server" => S!Next \/ UNCHANGED slots
         /\ story = "status line" => L!Next \/ UNCHANGED slots
         /\ story = "panel" => P!Next \/ UNCHANGED slots
BY DEF StoryNext, storyVars, Tells

----------------------------------------------------------------------------
(* Attaching.                                                              *)

\* Whose client is attached has attached; and the clients of others that were
\* there when it listed have gone by the time its own comes, or will be told
\* to go by the detach that is due.
AttachInv ==
  /\ A!TypeOK
  /\ ~s1 => A!Attached = {}
  /\ \A c \in Callers :
       /\ A!Mine(c) # {} => s3[c] = "attached"
       /\ s3[c] = "detach" =>
            \A i \in A!Attached \ s4[c] : s2[i] \in {c} \cup s6[c]
       /\ s3[c] \in {"client", "attached", "left"} =>
            \A i \in A!Attached : s2[i] \in {c} \cup s6[c]

LEMMA AttachBegins == A!Init => AttachInv
<1> SUFFICES ASSUME A!Init PROVE AttachInv
  OBVIOUS
<1>1. A!TypeOK
  BY DEF A!Init, A!TypeOK, A!Places
<1>2. \A c \in Callers : A!Mine(c) = {}
  BY StoryAssumption DEF A!Init, A!Mine
<1> QED BY <1>1, <1>2 DEF A!Init, AttachInv

\* Clients that are told to detach are gone, the others are as they were.
LEMMA GoneFacts ==
  ASSUME AttachInv, NEW ids, A!Gone(ids)
  PROVE  /\ s2' \in [ClientIds -> Callers \cup {"old", None}]
         /\ A!Attached' = A!Attached \ ids
         /\ \A i \in A!Attached' : s2'[i] = s2[i]
         /\ \A c \in Callers : A!Mine(c)' = A!Mine(c) \ ids
BY StoryAssumption DEF A!Gone, AttachInv, A!TypeOK, A!Attached, A!Mine

LEMMA AttachStep == AttachInv /\ (A!Next \/ UNCHANGED slots) => AttachInv'
<1> SUFFICES ASSUME AttachInv, A!Next \/ UNCHANGED slots PROVE AttachInv'
  OBVIOUS
<1>0. CASE UNCHANGED slots
  BY <1>0 DEF slots, AttachInv, A!TypeOK, A!Attached, A!Mine
<1>1. CASE A!SessionEnds
  <2>1. s1' = FALSE /\ A!Gone(ClientIds) /\ UNCHANGED <<s3, s4, s5, s6>>
    BY <1>1 DEF A!SessionEnds
  <2>2. A!Attached' = {} /\ \A c \in Callers : A!Mine(c)' = {}
    BY <2>1, GoneFacts DEF A!Attached, A!Mine
  <2> QED BY <2>1, <2>2, GoneFacts DEF AttachInv, A!TypeOK
<1>2. ASSUME NEW c \in Callers, A!Begin(c) \/ A!Alive(c) \/ A!Left(c) PROVE AttachInv'
  <2>1. /\ UNCHANGED <<s1, s2, s4, s6>> /\ s5' \in [Callers -> BOOLEAN]
        /\ \E there \in {"alive", "list", "done", "client"} :
             /\ s3' = [s3 EXCEPT ![c] = there] /\ s3[c] \in {"idle", "alive", "left"}
             /\ there = "client" => s3[c] = "left"
    BY <1>2 DEF A!Begin, A!Alive, A!Left, A!At, AttachInv, A!TypeOK
  <2>2. A!Attached' = A!Attached /\ \A d \in Callers : A!Mine(d)' = A!Mine(d)
    BY <2>1 DEF A!Attached, A!Mine
  <2>3. /\ s3' \in [Callers -> A!Places] /\ s3'[c] \in {"alive", "list", "done", "client"}
        /\ s3[c] # "attached" /\ (s3'[c] = "client" => s3[c] = "left")
        /\ \A d \in Callers \ {c} : s3'[d] = s3[d]
    BY <2>1 DEF AttachInv, A!TypeOK, A!Places
  <2> QED BY <2>1, <2>2, <2>3 DEF AttachInv, A!TypeOK
<1>3. ASSUME NEW c \in Callers, A!List(c) PROVE AttachInv'
  <2>1. PICK ids \in {A!Attached, {}} :
          /\ s4' = [s4 EXCEPT ![c] = ids]
          /\ A!At(c, "list", IF ids = {} THEN "client" ELSE "detach")
          /\ s6' = [s6 EXCEPT ![c] = {s2[i] : i \in A!Attached \ ids}]
    BY <1>3 DEF A!List
  <2>2. UNCHANGED <<s1, s2, s5>> /\ A!Attached \subseteq ClientIds
    BY <1>3 DEF A!List, A!Attached
  <2>3. A!Attached' = A!Attached /\ \A d \in Callers : A!Mine(d)' = A!Mine(d)
    BY <2>2 DEF A!Attached, A!Mine
  <2>4. \A i \in A!Attached : s2[i] \in Callers \cup {"old"}
    BY DEF AttachInv, A!TypeOK, A!Attached
  <2>5. s6'[c] \subseteq Callers \cup {"old"} /\ s6' \in [Callers -> SUBSET (Callers \cup {"old"})]
    BY <2>1, <2>4 DEF AttachInv, A!TypeOK
  <2>6. \A i \in A!Attached \ s4'[c] : s2[i] \in s6'[c]
    BY <2>1 DEF AttachInv, A!TypeOK
  <2>7. s4' \in [Callers -> SUBSET ClientIds] /\ s3' \in [Callers -> A!Places]
    BY <2>1, <2>2 DEF AttachInv, A!TypeOK, A!At, A!Places
  <2>8. s3'[c] = "client" => s4'[c] = {}
    BY <2>1 DEF AttachInv, A!TypeOK, A!At
  <2>9. \A d \in Callers \ {c} : s3'[d] = s3[d] /\ s4'[d] = s4[d] /\ s6'[d] = s6[d]
    BY <2>1 DEF AttachInv, A!TypeOK, A!At
  <2>10. s3[c] = "list" /\ s3'[c] \in {"client", "detach"}
    BY <2>1 DEF AttachInv, A!TypeOK, A!At
  <2> QED
    BY <2>2, <2>3, <2>5, <2>6, <2>7, <2>8, <2>9, <2>10 DEF AttachInv, A!TypeOK
<1>4. ASSUME NEW c \in Callers, A!Detach(c) PROVE AttachInv'
  <2>1. /\ s3[c] = "detach" /\ s3' = [s3 EXCEPT ![c] = "client"] /\ UNCHANGED <<s1, s4, s5, s6>>
        /\ IF s1 THEN A!Gone(s4[c]) ELSE UNCHANGED s2
    BY <1>4 DEF A!Detach, A!At
  <2>2. /\ s2' \in [ClientIds -> Callers \cup {"old", None}]
        /\ A!Attached' = A!Attached \ s4[c]
        /\ \A i \in A!Attached' : s2'[i] = s2[i]
        /\ \A d \in Callers : A!Mine(d)' \subseteq A!Mine(d)
    <3>1. CASE s1
      BY <2>1, <3>1, GoneFacts
    <3>2. CASE ~s1
      BY <2>1, <3>2 DEF AttachInv, A!TypeOK, A!Attached, A!Mine
    <3> QED BY <3>1, <3>2
  <2>3. ~s1' => A!Attached' = {}
    BY <2>1, <2>2 DEF AttachInv
  <2>4. /\ s3' \in [Callers -> A!Places] /\ s3'[c] = "client"
        /\ \A d \in Callers \ {c} : s3'[d] = s3[d]
    BY <2>1 DEF AttachInv, A!TypeOK, A!Places
  <2>5. A!Mine(c) = {}
    BY <2>1 DEF AttachInv
  <2> QED BY <2>1, <2>2, <2>3, <2>4, <2>5 DEF AttachInv, A!TypeOK
<1>5. ASSUME NEW c \in Callers, A!Client(c) PROVE AttachInv'
  <2>1. CASE s1 /\ A!Free # {}
    <3>1. /\ s3[c] = "client" /\ s3' = [s3 EXCEPT ![c] = "attached"]
          /\ s6' = [d \in Callers |-> IF d = c THEN s6[d] ELSE s6[d] \cup {c}]
          /\ UNCHANGED <<s1, s4, s5>>
      BY <1>5, <2>1 DEF A!Client, A!At
    <3>2. PICK i \in A!Free : s2' = [s2 EXCEPT ![i] = c]
      BY <1>5, <2>1 DEF A!Client
    <3>3. i \in ClientIds /\ i \notin A!Attached
      BY <3>2 DEF A!Free
    <3>4. /\ s2' \in [ClientIds -> Callers \cup {"old", None}]
          /\ A!Attached' = A!Attached \cup {i} /\ s2'[i] = c
          /\ \A j \in A!Attached : s2'[j] = s2[j]
          /\ \A d \in Callers \ {c} : A!Mine(d)' \subseteq A!Mine(d)
      BY <3>2, <3>3, StoryAssumption DEF AttachInv, A!TypeOK, A!Attached, A!Mine
    <3>5. /\ s6' \in [Callers -> SUBSET (Callers \cup {"old"})]
          /\ s6'[c] = s6[c] /\ \A d \in Callers \ {c} : s6'[d] = s6[d] \cup {c}
      BY <3>1 DEF AttachInv, A!TypeOK
    <3>6. /\ s3' \in [Callers -> A!Places] /\ s3'[c] = "attached"
          /\ \A d \in Callers \ {c} : s3'[d] = s3[d]
      BY <3>1 DEF AttachInv, A!TypeOK, A!Places
    <3> QED BY <2>1, <3>1, <3>4, <3>5, <3>6 DEF AttachInv, A!TypeOK
  <2>2. CASE ~(s1 /\ A!Free # {})
    <3>1. /\ s3[c] = "client" /\ s3' = [s3 EXCEPT ![c] = "left"]
          /\ UNCHANGED <<s1, s2, s4, s5, s6>>
      BY <1>5, <2>2 DEF A!Client, A!At
    <3>2. A!Attached' = A!Attached /\ \A d \in Callers : A!Mine(d)' = A!Mine(d)
      BY <3>1 DEF A!Attached, A!Mine
    <3> QED BY <3>1, <3>2 DEF AttachInv, A!TypeOK, A!Places
  <2> QED BY <2>1, <2>2
<1>6. ASSUME NEW c \in Callers, A!Exit(c) PROVE AttachInv'
  <2>1. /\ s3[c] = "attached" /\ A!Gone(A!Mine(c)) /\ UNCHANGED <<s1, s4, s5, s6>>
        /\ \E there \in {"done", "left"} : s3' = [s3 EXCEPT ![c] = there]
    BY <1>6 DEF A!Exit, A!At
  <2>2. /\ A!Attached' \subseteq A!Attached /\ \A d \in Callers : A!Mine(d)' \subseteq A!Mine(d)
        /\ A!Mine(c)' = {}
    BY <2>1, GoneFacts
  <2>3. /\ s3' \in [Callers -> A!Places] /\ s3'[c] \in {"done", "left"}
        /\ \A d \in Callers \ {c} : s3'[d] = s3[d]
    BY <2>1 DEF AttachInv, A!TypeOK, A!Places
  <2> QED BY <2>1, <2>2, <2>3, GoneFacts DEF AttachInv, A!TypeOK
<1> QED BY <1>0, <1>1, <1>2, <1>3, <1>4, <1>5, <1>6 DEF A!Next, A!Caller

----------------------------------------------------------------------------
(* The start of the zellij server.                                         *)

\* How far the client has come with the server, and what start_server has
\* seen of it when it goes on.
ServerInv ==
  /\ S!TypeOK
  /\ s5 \in {"none", "spawns"} => s6 = "none"
  /\ s5 = "configures" => s6 = "bare"
  /\ s5 = "done" => s6 \in {"session", "gone"}
  /\ s6 # "panicked"
  /\ s3 => s5 = "done"
  /\ s1 = "spawn" => s5 = "none"
  /\ s1 \in {"asking", "config", "ready", "loop"} => s5 = "done"
  /\ s1 \in {"ready", "loop"} => s7 # "absent"
  /\ s8 = "written" => s1 = "loop"
  /\ s9 # None => s1 = "loop"
  /\ s9 = "own" => s7 = "failed"

LEMMA ServerBegins == S!Init => ServerInv
<1> SUFFICES ASSUME S!Init PROVE ServerInv
  OBVIOUS
<1>1. 0 \in 0..LooksFor
  BY StoryAssumption
<1>2. S!TypeOK
  BY <1>1 DEF S!Init, S!TypeOK
<1> QED BY <1>2, StoryAssumption DEF S!Init, ServerInv

LEMMA ServerStep == ServerInv /\ (S!Next \/ UNCHANGED slots) => ServerInv'
<1> SUFFICES ASSUME ServerInv, S!Next \/ UNCHANGED slots PROVE ServerInv'
  OBVIOUS
<1> USE StoryAssumption DEF ServerInv, S!TypeOK
<1>1. CASE UNCHANGED slots
  BY <1>1 DEF slots
<1>2. CASE S!Spawn
  BY <1>2 DEF S!Spawn, S!Fails, S!markers
<1>3. CASE S!Look
  <2>1. s1 = "look" /\ UNCHANGED <<s4, s5, s7, s8, s9>> /\ s2' \in 0..LooksFor
    BY <1>3 DEF S!Look, S!markers
  <2>2. CASE ~s3
    <3>1. s3' = (s5 = "done") /\ s6' = s6 /\ s1' \in {"look", "failed"}
      BY <1>3, <2>2, <2>1 DEF S!Look, S!Fails
    <3> QED BY <2>1, <3>1
  <2>3. CASE s3
    <3>1. s3' = s3 /\ s6' = s6 /\ s1' = "asking"
      BY <1>3, <2>3, <2>1 DEF S!Look, S!Connect
    <3> QED BY <2>1, <2>3, <3>1
  <2> QED BY <2>2, <2>3
<1>4. CASE S!GiveUp
  BY <1>4 DEF S!GiveUp, S!Fails, S!markers
<1>5. CASE S!WriteConfig
  BY <1>5 DEF S!WriteConfig, S!zellij
<1>6. CASE S!WriteReady
  BY <1>6 DEF S!WriteReady, S!Fails, S!zellij
<1>7. CASE S!Signal
  BY <1>7 DEF S!Signal, S!zellij, S!markers
<1>8. CASE S!ClientSteps
  BY <1>8 DEF S!ClientSteps, S!markers
<1>9. CASE S!ServerGoes
  BY <1>9 DEF S!ServerGoes, S!markers
<1>10. CASE S!Attach
  BY <1>10 DEF S!Attach, S!zellij, S!markers
<1>11. CASE S!Answered
  BY <1>11 DEF S!Answered, S!Fails, S!Listed, S!zellij, S!markers
<1> QED
  BY <1>1, <1>2, <1>3, <1>4, <1>5, <1>6, <1>7, <1>8, <1>9, <1>10, <1>11 DEF S!Next, S!Start

\* Whoever has attached is alone, but for those that came after it listed;
\* start_server never connects to a server that its client has not finished
\* with, and the ready marker means a server that has listed the session.
THEOREM ClientsAreApart == StorySpec => []ClientsDoNotMeet
<1> DEFINE Inv == /\ story = "attach" => AttachInv
                  /\ story = "server" => ServerInv
<1>1. StoryInit => Inv
  BY AttachBegins, ServerBegins DEF StoryInit
<1>2. Inv /\ [StoryNext]_storyVars => Inv'
  BY StorySteps, AttachStep, ServerStep
<1>3. Inv => ClientsDoNotMeet
  <2>1. AttachInv => A!TypeOK /\ A!NewcomerIsAlone
    BY DEF AttachInv, A!NewcomerIsAlone
  <2>2. ServerInv => S!TypeOK /\ S!NoProbePanics /\ S!ReadyMeansAttachable
    BY DEF ServerInv, S!NoProbePanics, S!ReadyMeansAttachable
  <2> QED BY <2>1, <2>2 DEF ClientsDoNotMeet
<1> QED BY <1>1, <1>2, <1>3, PTL DEF StorySpec

----------------------------------------------------------------------------
(* The status line.                                                        *)

\* The plugin's list of hosts is a sequence, and counting starts at 0.
LEMMA ListFacts ==
  ASSUME NEW list \in L!Lists
  PROVE  /\ Len(list) \in Nat /\ DOMAIN list = 1..Len(list)
         /\ list # <<>> => Len(list) > 0
<1>1. PICK n \in 0..L!Cardinality(Hosts) : list \in [1..n -> Hosts]
  BY DEF L!Lists
<1>2. L!Cardinality(Hosts) \in Nat
  <2>1. L!Cardinality(Hosts) = Cardinality(Hosts)
    BY DEF L!Cardinality, Cardinality
  <2> QED BY <2>1, StoryAssumption, FS_CardinalityType
<1>3. n \in Nat
  BY <1>1, <1>2
<1>4. list \in Seq(Hosts) /\ Len(list) = n
  BY <1>1, <1>3
<1> QED BY <1>1, <1>3, <1>4, EmptySeq

LEMMA Remainder ==
  \A a \in Nat, b \in Nat \ {0} : a % b \in 0..(b - 1)
OBVIOUS

LineInv == L!TypeOK /\ L!ShownExists

LEMMA LineBegins == L!Init => LineInv
<1> SUFFICES ASSUME L!Init PROVE LineInv
  OBVIOUS
<1>1. <<>> \in L!Lists
  <2>1. L!Cardinality(Hosts) = Cardinality(Hosts)
    BY DEF L!Cardinality, Cardinality
  <2>2. 0 \in 0..L!Cardinality(Hosts)
    BY <2>1, StoryAssumption, FS_CardinalityType
  <2>3. <<>> \in [1..0 -> Hosts] /\ L!IsInjective(<<>>)
    BY DEF L!IsInjective
  <2> QED BY <2>2, <2>3 DEF L!Lists
<1>2. 0 \in 0..IdleTicks /\ 0 \in 0..(CycleTicks - 1) /\ 0 \in 0..MaxNotices
  BY StoryAssumption
<1> QED BY <1>1, <1>2 DEF L!Init, LineInv, L!TypeOK, L!ShownExists

\* The selector follows the job it is on, to a place there is.
LEMMA FollowFacts ==
  ASSUME LineInv, NEW list \in L!Lists
  PROVE  L!Follow(list) \in Nat /\ (L!Follow(list) > 0 => L!Follow(list) < Len(list))
<1> DEFINE at == {i \in DOMAIN list : list[i] \in L!Selected}
<1>1. CASE at # {}
  <2>1. (CHOOSE i \in at : TRUE) \in 1..Len(list)
    BY <1>1, ListFacts
  <2>2. L!Follow(list) = (CHOOSE i \in at : TRUE) - 1
    BY <1>1 DEF L!Follow
  <2> QED BY <2>1, <2>2, ListFacts
<1>2. CASE at = {}
  <2>1. L!Follow(list) = IF s7 < Len(list) THEN s7 ELSE 0
    BY <1>2 DEF L!Follow
  <2> QED BY <2>1, ListFacts DEF LineInv, L!TypeOK
<1> QED BY <1>1, <1>2

LEMMA LineMessages == LineInv /\ L!Message => LineInv'
<1> SUFFICES ASSUME LineInv, NEW list \in L!Lists, NEW n \in 0..MaxNotices,
                    NEW pref \in {"none", "dark", "light"}, L!ApplyMsg(list, n, pref)
             PROVE  LineInv'
  BY DEF L!Message
<1>1. s8' \in {"dark", "light"} /\ s9' \in BOOLEAN
  BY DEF L!ApplyMsg, LineInv, L!TypeOK
<1>2. /\ s7' = L!Follow(list) /\ s6' = list /\ s5' = n
      /\ \/ s1 = "notices" /\ s2 >= n /\ s1' = "status" /\ s2' = 0
         \/ ~(s1 = "notices" /\ s2 >= n) /\ UNCHANGED <<s1, s2>>
      /\ UNCHANGED <<s3, s4>>
  BY DEF L!ApplyMsg
<1>3. n \in Nat /\ s2 \in Nat
  BY StoryAssumption DEF LineInv, L!TypeOK
<1> QED BY <1>1, <1>2, <1>3, FollowFacts DEF LineInv, L!TypeOK, L!ShownExists

LEMMA LineKeys == LineInv /\ L!Key => LineInv'
<1> SUFFICES ASSUME LineInv,
                    NEW a \in {"notices", "help", "monitor", "host-prev", "host-next", "escape"},
                    L!Action(a)
             PROVE  LineInv'
  BY DEF L!Key
<1>1. s2 \in Nat /\ s5 \in Nat /\ Pages \in Nat /\ IdleTicks \in 0..IdleTicks
  BY StoryAssumption DEF LineInv, L!TypeOK
<1>2. /\ s1' \in {"status", "notices", "help"} /\ s2' \in Nat
      /\ s1' = "notices" => s2' < s5
      /\ s1' = "help" => s2' < Pages
  <2>1. CASE a = "notices"
    BY <1>1, <2>1 DEF L!Action, L!Page
  <2>2. CASE a = "help"
    BY <1>1, <2>2 DEF L!Action, L!Page
  <2>3. CASE a \notin {"notices", "help"}
    BY <1>1, <2>3 DEF L!Action, LineInv, L!TypeOK, L!ShownExists
  <2> QED BY <2>1, <2>2, <2>3
<1>3. s7' \in Nat /\ (s7' > 0 => s7' < Len(s6))
  <2>1. s7 \in Nat /\ s6 \in L!Lists /\ (s7 > 0 => s7 < Len(s6))
    BY DEF LineInv, L!TypeOK
  <2>2. CASE s6 = <<>> \/ a \notin {"host-prev", "host-next"}
    BY <2>1, <2>2 DEF L!Action
  <2>3. CASE s6 # <<>> /\ a \in {"host-prev", "host-next"}
    <3>1. Len(s6) \in Nat \ {0}
      BY <2>1, <2>3, ListFacts
    <3>2. s7' \in {(s7 + Len(s6) - 1) % Len(s6), (s7 + 1) % Len(s6)}
      BY <2>3 DEF L!Action
    <3>3. s7 + Len(s6) - 1 \in Nat /\ s7 + 1 \in Nat
      BY <2>1, <3>1
    <3>4. /\ (s7 + Len(s6) - 1) % Len(s6) \in 0..(Len(s6) - 1)
          /\ (s7 + 1) % Len(s6) \in 0..(Len(s6) - 1)
      BY <3>1, <3>3, Remainder
    <3> QED BY <3>1, <3>2, <3>4
  <2> QED BY <2>2, <2>3
<1> QED BY <1>1, <1>2, <1>3 DEF L!Action, LineInv, L!TypeOK, L!ShownExists

LEMMA LineTicks == LineInv /\ L!Tick => LineInv'
<1> SUFFICES ASSUME LineInv, L!Tick PROVE LineInv'
  OBVIOUS
<1>1. /\ s2 \in Nat /\ s5 \in Nat /\ s3 \in 0..IdleTicks /\ s4 \in Nat /\ IdleTicks \in Nat
      /\ CycleTicks \in Nat \ {0}
  BY StoryAssumption DEF LineInv, L!TypeOK
<1>2. s4' \in 0..(CycleTicks - 1)
  BY <1>1, Remainder DEF L!Tick
<1>3. s3' \in 0..IdleTicks
  BY <1>1 DEF L!Tick
<1>4. s5 > 1 => (s2 + 1) % s5 \in 0..(s5 - 1)
  BY <1>1, Remainder
<1>5. \/ s1' = "status" /\ s2' = 0
      \/ s1' = s1 /\ s2' = s2
      \/ s1' = s1 /\ s1 = "notices" /\ s5 > 1 /\ s2' = (s2 + 1) % s5
  BY DEF L!Tick
<1>6. UNCHANGED <<s5, s6, s7, s8, s9>>
  BY DEF L!Tick
<1> QED BY <1>1, <1>2, <1>3, <1>4, <1>5, <1>6 DEF LineInv, L!TypeOK, L!ShownExists

LEMMA LineStep == LineInv /\ (L!Next \/ UNCHANGED slots) => LineInv'
<1>1. LineInv /\ UNCHANGED slots => LineInv'
  BY DEF slots, LineInv, L!TypeOK, L!ShownExists
<1>2. ASSUME LineInv, NEW t \in {"dark", "light"}, L!ThemeChanged(t) PROVE LineInv'
  BY <1>2 DEF L!ThemeChanged, L!bar, LineInv, L!TypeOK, L!ShownExists
<1> QED BY <1>1, <1>2, LineMessages, LineKeys, LineTicks DEF L!Next

----------------------------------------------------------------------------
(* The panel.                                                              *)

Commands == {"swap", "title", "focus", "shell", "close"}
Events ==
  [event : {"panes"}, open : BOOLEAN, titled : BOOLEAN, focused : BOOLEAN]
    \cup [event : {"m", "granted", "esc", "x"}]

\* What is on its way: a command; manifests, the last of which is m; the answer
\* about the permission, which is the first event of all.
Has(q, c) == \E k \in 1..Len(q) : q[k] = c
NoPanes(q) == \A k \in 1..Len(q) : q[k].event # "panes"
Telling(q, m) == \E k \in 1..Len(q) :
  q[k] = m /\ \A j \in 1..Len(q) : j > k => q[j].event # "panes"
GrantDue(q) == Len(q) > 0 /\ q[1].event = "granted"

\* The last manifest on its way to an instance describes the panes there are.
InboxInv ==
  /\ s4 \in [P!Instances -> Seq(Events)] /\ s5 \in Seq(Commands)
  /\ \A i \in P!Instances : NoPanes(s4[i]) \/ Telling(s4[i], P!Manifest)

\* An instance that no manifest is on its way to is right, but for the panel
\* that the bar has asked for.
BeliefInv ==
  /\ NoPanes(s4["bar"]) =>
       /\ s1 = "up" /\ s2 => s6["bar"]
       /\ s6["bar"] => (s1 = "up" /\ s2) \/ Has(s5, "swap") \/ s1 = "loading"
       /\ s7["bar"] <=> s2 /\ s3 = "panel"
  /\ s1 = "up" /\ NoPanes(s4["panel"]) => (s7["panel"] <=> s3 = "panel")

\* The panel gets its permission before its first manifest, and asks for its
\* title until it has it.
TitleInv ==
  /\ s1 # "none" => s9 \/ GrantDue(s4["panel"])
  /\ s1 = "up" /\ ~s2 =>
       Has(s5, "title") \/ GrantDue(s4["panel"]) \/ ~NoPanes(s4["panel"])

\* While a swap is under way the bar expects its panel, or has read a manifest
\* of before.
SwapInv ==
  /\ s11 \in Int /\ P!NoSecondSwap
  /\ s11 > 0 /\ ~s12 => s6["bar"]

PanelInv ==
  /\ P!TypeOK /\ (s1 # "up" => ~s2)
  /\ InboxInv /\ BeliefInv /\ TitleInv /\ SwapInv

LEMMA NothingOnItsWay ==
  /\ \A q : q = <<>> => NoPanes(q) /\ ~GrantDue(q)
  /\ \A q, c : q = <<>> => ~Has(q, c)
BY EmptySeq DEF NoPanes, GrantDue, Has

\* Sending an event.
LEMMA Sending ==
  ASSUME NEW q \in Seq(Events), NEW e \in Events
  PROVE  /\ Append(q, e) \in Seq(Events)
         /\ GrantDue(q) => GrantDue(Append(q, e))
         /\ e.event = "panes" => Telling(Append(q, e), e) /\ ~NoPanes(Append(q, e))
         /\ e.event # "panes" =>
              /\ NoPanes(q) <=> NoPanes(Append(q, e))
              /\ \A m : Telling(q, m) => Telling(Append(q, e), m)
<1> DEFINE r == Append(q, e)
<1>1. /\ r \in Seq(Events) /\ Len(r) = Len(q) + 1 /\ Len(q) \in Nat
      /\ \A i \in 1..Len(q) : r[i] = q[i]
      /\ r[Len(q) + 1] = e
  BY AppendProperties, LenProperties
<1> HIDE DEF r
<1>2. GrantDue(q) => GrantDue(r)
  BY <1>1 DEF GrantDue
<1>3. ASSUME e.event = "panes" PROVE Telling(r, e) /\ ~NoPanes(r)
  BY <1>1, <1>3 DEF Telling, NoPanes
<1>4. ASSUME e.event # "panes"
      PROVE  NoPanes(q) <=> NoPanes(r)
  BY <1>1, <1>4 DEF NoPanes
<1>5. ASSUME e.event # "panes", NEW m, Telling(q, m)
      PROVE  Telling(r, m)
  <2>1. PICK k \in 1..Len(q) :
          q[k] = m /\ \A j \in 1..Len(q) : j > k => q[j].event # "panes"
    BY <1>5 DEF Telling
  <2>2. k \in 1..Len(r) /\ r[k] = m
    BY <1>1, <2>1
  <2>3. \A j \in 1..Len(r) : j > k => r[j].event # "panes"
    BY <1>1, <1>5, <2>1
  <2> QED BY <2>2, <2>3 DEF Telling
<1> QED BY <1>1, <1>2, <1>3, <1>4, <1>5 DEF r

\* Delivering one.
LEMMA Delivering ==
  ASSUME NEW q \in Seq(Events), q # <<>>
  PROVE  /\ Head(q) \in Events /\ Tail(q) \in Seq(Events)
         /\ GrantDue(q) <=> Head(q).event = "granted"
         /\ Head(q).event = "panes" => ~NoPanes(q)
         /\ Head(q).event # "panes" => (NoPanes(q) <=> NoPanes(Tail(q)))
         /\ \A m : Telling(q, m) =>
              Telling(Tail(q), m) \/ (Head(q) = m /\ NoPanes(Tail(q)))
<1> DEFINE r == Tail(q)
<1>1. /\ Head(q) \in Events /\ r \in Seq(Events) /\ Len(r) = Len(q) - 1
      /\ \A i \in 1..Len(r) : r[i] = q[i + 1]
      /\ Len(q) \in Nat /\ Len(q) > 0 /\ Head(q) = q[1]
  BY HeadTailProperties, LenProperties, EmptySeq
<1> HIDE DEF r
<1>2. GrantDue(q) <=> Head(q).event = "granted"
  BY <1>1 DEF GrantDue
<1>3. Head(q).event = "panes" => ~NoPanes(q)
  BY <1>1 DEF NoPanes
<1>4. ASSUME Head(q).event # "panes" PROVE NoPanes(q) <=> NoPanes(r)
  <2>1. ASSUME NoPanes(r), NEW i \in 1..Len(q) PROVE q[i].event # "panes"
    <3>1. CASE i = 1
      BY <1>1, <1>4, <3>1
    <3>2. CASE i > 1
      <4>1. i - 1 \in 1..Len(r) /\ q[i] = r[i - 1]
        BY <1>1, <3>2
      <4> QED BY <2>1, <4>1 DEF NoPanes
    <3> QED BY <3>1, <3>2
  <2>2. ASSUME NoPanes(q), NEW i \in 1..Len(r) PROVE r[i].event # "panes"
    BY <1>1, <2>2 DEF NoPanes
  <2> QED BY <2>1, <2>2 DEF NoPanes
<1>5. ASSUME NEW m, Telling(q, m)
      PROVE  Telling(r, m) \/ (Head(q) = m /\ NoPanes(r))
  <2>1. PICK k \in 1..Len(q) :
          q[k] = m /\ \A j \in 1..Len(q) : j > k => q[j].event # "panes"
    BY <1>5 DEF Telling
  <2>2. CASE k = 1
    BY <1>1, <2>1, <2>2 DEF NoPanes
  <2>3. CASE k > 1
    <3>1. k - 1 \in 1..Len(r) /\ r[k - 1] = m
      BY <1>1, <2>1, <2>3
    <3>2. \A j \in 1..Len(r) : j > k - 1 => r[j].event # "panes"
      BY <1>1, <2>1
    <3> QED BY <3>1, <3>2 DEF Telling
  <2> QED BY <2>2, <2>3
<1> QED BY <1>1, <1>2, <1>3, <1>4, <1>5 DEF r

\* Asking the screen for something, and the screen doing it.
LEMMA Asking ==
  ASSUME NEW q \in Seq(Commands), NEW r \in Seq(Commands)
  PROVE  /\ q \o r \in Seq(Commands)
         /\ \A c : Has(q, c) \/ Has(r, c) => Has(q \o r, c)
<1>1. /\ q \o r \in Seq(Commands) /\ Len(q \o r) = Len(q) + Len(r)
      /\ \A i \in 1..(Len(q) + Len(r)) :
           (q \o r)[i] = IF i <= Len(q) THEN q[i] ELSE r[i - Len(q)]
      /\ Len(q) \in Nat /\ Len(r) \in Nat
  BY ConcatProperties, LenProperties
<1>2. ASSUME NEW c, NEW k \in 1..Len(q), q[k] = c PROVE Has(q \o r, c)
  BY <1>1, <1>2 DEF Has
<1>3. ASSUME NEW c, NEW k \in 1..Len(r), r[k] = c PROVE Has(q \o r, c)
  <2>1. Len(q) + k \in 1..Len(q \o r) /\ (q \o r)[Len(q) + k] = c
    BY <1>1, <1>3
  <2> QED BY <2>1 DEF Has
<1> QED BY <1>1, <1>2, <1>3 DEF Has

LEMMA Obeying ==
  ASSUME NEW q \in Seq(Commands), q # <<>>
  PROVE  /\ Head(q) \in Commands /\ Tail(q) \in Seq(Commands)
         /\ \A c : Has(q, c) => Head(q) = c \/ Has(Tail(q), c)
<1>1. /\ Head(q) \in Commands /\ Tail(q) \in Seq(Commands) /\ Len(Tail(q)) = Len(q) - 1
      /\ \A i \in 1..Len(Tail(q)) : Tail(q)[i] = q[i + 1]
      /\ Len(q) \in Nat /\ Head(q) = q[1]
  BY HeadTailProperties, LenProperties
<1>2. ASSUME NEW c, NEW k \in 1..Len(q), q[k] = c PROVE Head(q) = c \/ Has(Tail(q), c)
  <2>1. CASE k = 1
    BY <1>1, <1>2, <2>1
  <2>2. CASE k > 1
    <3>1. k - 1 \in 1..Len(Tail(q)) /\ Tail(q)[k - 1] = c
      BY <1>1, <1>2, <2>2
    <3> QED BY <3>1 DEF Has
  <2> QED BY <2>1, <2>2
<1> QED BY <1>1, <1>2 DEF Has

LEMMA PanelBegins == P!Init => PanelInv
<1> SUFFICES ASSUME P!Init PROVE PanelInv
  OBVIOUS
<1>1. /\ s1 = "none" /\ s2 = FALSE /\ s3 = "shell" /\ s11 = 0 /\ s12 = FALSE
      /\ s4 = [i \in {"bar", "panel"} |-> <<>>] /\ s5 = <<>>
      /\ s6 = [i \in {"bar", "panel"} |-> FALSE] /\ s7 = [i \in {"bar", "panel"} |-> FALSE]
      /\ s8 = FALSE /\ s9 = FALSE
  BY DEF P!Init, P!Instances
<1>2. s5 \in Seq(Commands) /\ s5 \in Seq({"swap", "title", "focus", "shell", "close"})
  BY <1>1, EmptySeq
<1>3. s4 \in [P!Instances -> Seq(Events)] /\ \A i \in P!Instances : NoPanes(s4[i])
  BY <1>1, EmptySeq, NothingOnItsWay DEF P!Instances
<1>4. P!TypeOK
  BY <1>1, <1>2 DEF P!TypeOK, P!Instances
<1>5. InboxInv /\ BeliefInv /\ TitleInv
  BY <1>1, <1>2, <1>3 DEF InboxInv, BeliefInv, TitleInv
<1>6. SwapInv
  BY <1>1 DEF SwapInv, P!NoSecondSwap
<1> QED BY <1>1, <1>4, <1>5, <1>6 DEF PanelInv

LEMMA ManifestType ==
  ASSUME s2 \in BOOLEAN PROVE P!Manifest \in Events /\ P!Manifest.event = "panes"
BY DEF P!Manifest, Events

\* Whoever changes the panes tells both instances, and leaves the plugin as it
\* was: what they believe is then about to be put right.
LEMMA ToldAll ==
  ASSUME PanelInv, P!Tell, UNCHANGED <<s6, s7, s8, s9, s12>>,
         s1' \in {"none", "loading", "up"}, s2' \in BOOLEAN, s3' \in {"shell", "panel"},
         s1' # "up" => ~s2' /\ s3' = "shell", s1 = "none" => s1' = "none",
         s5' \in Seq(Commands), s11' \in {s11, s11 - 1}
  PROVE  PanelInv'
<1>1. P!Manifest' \in Events /\ P!Manifest'.event = "panes"
  BY ManifestType DEF P!Manifest, Events
<1>2. s4' = [i \in P!Instances |->
              IF i = "panel" /\ s1' = "none" THEN <<>> ELSE Append(s4[i], P!Manifest')]
  BY DEF P!Tell, P!Broadcast, P!Sent
<1>3. s4["bar"] \in Seq(Events) /\ s4["panel"] \in Seq(Events)
  BY DEF PanelInv, InboxInv, P!Instances
<1>4. s4'["bar"] \in Seq(Events) /\ Telling(s4'["bar"], P!Manifest') /\ ~NoPanes(s4'["bar"])
  BY <1>1, <1>2, <1>3, Sending DEF P!Instances
<1>5. CASE s1' = "none"
  <2>1. s4'["panel"] = <<>>
    BY <1>2, <1>5 DEF P!Instances
  <2>2. s4'["panel"] \in Seq(Events) /\ NoPanes(s4'["panel"])
    BY <2>1, EmptySeq, NothingOnItsWay
  <2>3. InboxInv'
    BY <1>2, <1>4, <2>2 DEF InboxInv, P!Instances
  <2>4. BeliefInv' /\ TitleInv'
    BY <1>4, <1>5 DEF BeliefInv, TitleInv
  <2>5. SwapInv'
    BY DEF PanelInv, SwapInv, P!NoSecondSwap
  <2>6. P!TypeOK'
    BY <1>2, <1>5, <2>1 DEF PanelInv, P!TypeOK, Commands, P!Instances
  <2> QED BY <2>3, <2>4, <2>5, <2>6 DEF PanelInv
<1>6. CASE s1' # "none"
  <2>1. s4'["panel"] = Append(s4["panel"], P!Manifest')
    BY <1>2, <1>6 DEF P!Instances
  <2>2. /\ s4'["panel"] \in Seq(Events) /\ Telling(s4'["panel"], P!Manifest')
        /\ ~NoPanes(s4'["panel"])
        /\ GrantDue(s4["panel"]) => GrantDue(s4'["panel"])
    BY <1>1, <1>3, <2>1, Sending
  <2>3. InboxInv'
    BY <1>2, <1>4, <2>2 DEF InboxInv, P!Instances
  <2>4. BeliefInv' /\ TitleInv'
    BY <1>4, <1>6, <2>2 DEF BeliefInv, TitleInv, PanelInv
  <2>5. SwapInv'
    BY DEF PanelInv, SwapInv, P!NoSecondSwap
  <2>6. P!TypeOK'
    BY <1>2, <1>6 DEF PanelInv, P!TypeOK, Commands, P!Instances
  <2> QED BY <2>3, <2>4, <2>5, <2>6 DEF PanelInv
<1> QED BY <1>5, <1>6

\* A key press reaches the instances there are, and changes nothing else.
LEMMA KeyPressed ==
  ASSUME PanelInv, UNCHANGED <<s1, s2, s3, s5, s6, s7, s8, s9, s11, s12>>,
         NEW e \in Events, e.event # "panes",
         s4' \in [P!Instances -> Seq(Events)],
         \A i \in P!Instances : s4'[i] \in {s4[i], Append(s4[i], e)},
         s1 = "none" => s4'["panel"] = <<>>
  PROVE  PanelInv'
<1>1. P!Manifest' = P!Manifest
  BY DEF P!Manifest
<1>2. \A i \in P!Instances : s4[i] \in Seq(Events)
  BY DEF PanelInv, InboxInv
<1>3. \A i \in P!Instances :
        /\ NoPanes(s4'[i]) <=> NoPanes(s4[i])
        /\ \A m : Telling(s4[i], m) => Telling(s4'[i], m)
        /\ GrantDue(s4[i]) => GrantDue(s4'[i])
  BY <1>2, Sending
<1>4. InboxInv'
  BY <1>1, <1>3 DEF PanelInv, InboxInv
<1>5. BeliefInv' /\ TitleInv'
  BY <1>3 DEF PanelInv, BeliefInv, TitleInv, P!Instances
<1>6. SwapInv' /\ P!TypeOK'
  BY DEF PanelInv, SwapInv, P!NoSecondSwap, P!TypeOK, P!Instances
<1> QED BY <1>4, <1>5, <1>6 DEF PanelInv

LEMMA UserKeepsPanel == PanelInv /\ P!User => PanelInv'
<1> SUFFICES ASSUME PanelInv, P!User PROVE PanelInv'
  OBVIOUS
<1>0. /\ s1 \in {"none", "loading", "up"} /\ s2 \in BOOLEAN /\ s3 \in {"shell", "panel"}
      /\ s1 # "up" => ~s2 /\ s3 = "shell"
      /\ s5 \in Seq(Commands)
      /\ s1 = "none" => s4["panel"] = <<>>
      /\ s4 \in [P!Instances -> Seq(Events)]
  BY DEF PanelInv, P!TypeOK, InboxInv
<1>1. CASE P!OtherPane
  BY <1>0, <1>1, ToldAll DEF P!OtherPane
<1>2. CASE P!CloseFocused
  <2>1. s3 = "panel" /\ s1 = "up"
    BY <1>0, <1>2 DEF P!CloseFocused
  <2> QED BY <1>0, <1>2, <2>1, ToldAll DEF P!CloseFocused
<1>3. CASE P!Press
  <2> DEFINE e == [event |-> "m"]
  <2>1. e \in Events /\ e.event # "panes"
    BY DEF Events
  <2>2. /\ s4' = [i \in P!Instances |->
                   IF i = "panel" /\ s1 = "none" THEN <<>> ELSE Append(s4[i], e)]
        /\ UNCHANGED <<s1, s2, s3, s5, s6, s7, s8, s9, s11, s12>>
    BY <1>3 DEF P!Press, P!Broadcast, P!Sent
  <2> HIDE DEF e
  <2>3. \A i \in P!Instances : Append(s4[i], e) \in Seq(Events)
    BY <1>0, <2>1, AppendProperties
  <2>4. s4' \in [P!Instances -> Seq(Events)]
    BY <2>2, <2>3, EmptySeq
  <2>5. /\ \A i \in P!Instances : s4'[i] \in {s4[i], Append(s4[i], e)}
        /\ s1 = "none" => s4'["panel"] = <<>>
    BY <1>0, <2>2 DEF P!Instances
  <2> QED BY <2>1, <2>2, <2>4, <2>5, KeyPressed
<1>4. ASSUME NEW k \in {"esc", "x"}, P!Bare(k) PROVE PanelInv'
  <2> DEFINE e == [event |-> k]
  <2>1. e \in Events /\ e.event # "panes"
    BY DEF Events
  <2>2. /\ s4' = [s4 EXCEPT !["panel"] = Append(s4["panel"], e)] /\ s3 = "panel"
        /\ UNCHANGED <<s1, s2, s3, s5, s6, s7, s8, s9, s11, s12>>
    BY <1>4 DEF P!Bare
  <2> HIDE DEF e
  <2>3. Append(s4["panel"], e) \in Seq(Events)
    BY <1>0, <2>1, AppendProperties DEF P!Instances
  <2>4. /\ s4' \in [P!Instances -> Seq(Events)]
        /\ \A i \in P!Instances : s4'[i] \in {s4[i], Append(s4[i], e)}
    BY <1>0, <2>2, <2>3 DEF P!Instances
  <2>5. s1 # "none"
    BY <1>0, <2>2
  <2> QED BY <2>1, <2>2, <2>4, <2>5, KeyPressed
<1> QED BY <1>1, <1>2, <1>3, <1>4 DEF P!User

LEMMA ScreenKeepsPanel == PanelInv /\ (P!Screen \/ P!Place) => PanelInv'
<1> SUFFICES ASSUME PanelInv, P!Screen \/ P!Place PROVE PanelInv'
  OBVIOUS
<1>0. /\ s1 \in {"none", "loading", "up"} /\ s2 \in BOOLEAN /\ s3 \in {"shell", "panel"}
      /\ s1 # "up" => ~s2 /\ s3 = "shell"
      /\ s5 \in Seq(Commands) /\ s11 \in Int
      /\ s1 = "none" => s4["panel"] = <<>>
      /\ s4 \in [P!Instances -> Seq(Events)]
  BY DEF PanelInv, P!TypeOK, InboxInv, SwapInv
<1>1. CASE P!Place
  BY <1>0, <1>1, ToldAll DEF P!Place
<1>2. CASE P!Screen
  <2>1. /\ s5 # <<>> /\ s5' = Tail(s5) /\ UNCHANGED <<s10, s12>>
        /\ Head(s5) = "swap" => P!Swap
    BY <1>2 DEF P!Screen
  <2>2. /\ s5' \in Seq(Commands) /\ Head(s5) \in Commands
        /\ \A c : Has(s5, c) => Head(s5) = c \/ Has(s5', c)
    BY <1>0, <2>1, Obeying
  <2>3. CASE Head(s5) = "swap" /\ s1 # "none"
    <3>1. /\ s3' = "shell" /\ s11' = s11 - 1 /\ UNCHANGED <<s1, s2>> /\ P!Tell
          /\ UNCHANGED <<s6, s7, s8, s9>>
      BY <2>1, <2>3 DEF P!Swap
    <3> QED BY <1>0, <2>1, <2>2, <3>1, ToldAll
  <2>4. CASE Head(s5) = "swap" /\ s1 = "none"
    <3>1. /\ s1' = "loading" /\ s2' = FALSE
          /\ s4' = [s4 EXCEPT !["panel"] = <<[event |-> "granted"]>>]
          /\ s8' = FALSE /\ s9' = FALSE
          /\ s6' = [s6 EXCEPT !["panel"] = TRUE]
          /\ s7' = [s7 EXCEPT !["panel"] = FALSE]
          /\ UNCHANGED <<s3, s11>>
      BY <2>1, <2>4 DEF P!Swap
    <3>2. /\ s6 \in [P!Instances -> BOOLEAN] /\ s7 \in [P!Instances -> BOOLEAN]
          /\ s6' \in [P!Instances -> BOOLEAN] /\ s7' \in [P!Instances -> BOOLEAN]
          /\ s6'["bar"] = s6["bar"] /\ s7'["bar"] = s7["bar"]
      BY <3>1 DEF PanelInv, P!TypeOK, P!Instances
    <3>3. P!Manifest' = P!Manifest
      BY <1>0, <2>4, <3>1 DEF P!Manifest
    <3> DEFINE g == <<[event |-> "granted"]>>
    <3>4. g \in Seq(Events) /\ Len(g) = 1 /\ g[1].event = "granted"
      BY DEF Events
    <3>5. s4'["panel"] = g /\ s4'["bar"] = s4["bar"] /\ s4' \in [P!Instances -> Seq(Events)]
      BY <1>0, <3>1, <3>4 DEF P!Instances
    <3> HIDE DEF g
    <3>6. GrantDue(s4'["panel"]) /\ NoPanes(s4'["panel"])
      <4>1. GrantDue(g)
        BY <3>4 DEF GrantDue
      <4>2. \A k \in 1..Len(g) : k = 1
        BY <3>4
      <4>3. NoPanes(g)
        BY <3>4, <4>2 DEF NoPanes
      <4> QED BY <3>5, <4>1, <4>3
    <3>7. InboxInv'
      BY <2>2, <3>3, <3>5, <3>6 DEF PanelInv, InboxInv, P!Instances
    <3>8. BeliefInv' /\ TitleInv'
      BY <1>0, <2>4, <3>1, <3>2, <3>5, <3>6 DEF PanelInv, BeliefInv, TitleInv
    <3>9. SwapInv'
      BY <2>1, <3>1, <3>2 DEF PanelInv, SwapInv, P!NoSecondSwap
    <3>10. P!TypeOK'
      BY <1>0, <2>1, <2>2, <2>4, <3>1, <3>2, <3>5
         DEF PanelInv, P!TypeOK, Commands, P!Instances
    <3> QED BY <3>1, <3>7, <3>8, <3>9, <3>10 DEF PanelInv
  <2>5. CASE Head(s5) # "swap"
    <3>1. /\ \/ Head(s5) = "title" /\ s2' = (s1 = "up") /\ UNCHANGED <<s1, s3>>
             \/ /\ Head(s5) = "focus" /\ s3' = IF s1 = "up" THEN "panel" ELSE s3
                /\ UNCHANGED <<s1, s2>>
             \/ Head(s5) = "shell" /\ s3' = "shell" /\ UNCHANGED <<s1, s2>>
             \/ Head(s5) = "close" /\ s1' = "none" /\ s2' = FALSE /\ s3' = "shell"
          /\ IF <<s1, s2, s3>>' = <<s1, s2, s3>> THEN UNCHANGED s4 ELSE P!Tell
          /\ UNCHANGED <<s6, s7, s8, s9, s11>>
      BY <1>2, <2>2, <2>5 DEF P!Screen, Commands
    <3>2. /\ s1' \in {"none", "loading", "up"} /\ s2' \in BOOLEAN /\ s3' \in {"shell", "panel"}
          /\ s1' # "up" => ~s2' /\ s3' = "shell"
          /\ s1 = "none" => s1' = "none"
      BY <1>0, <3>1
    <3>3. CASE <<s1, s2, s3>>' # <<s1, s2, s3>>
      BY <1>0, <2>1, <2>2, <3>1, <3>2, <3>3, ToldAll
    <3>4. CASE <<s1, s2, s3>>' = <<s1, s2, s3>>
      <4>1. UNCHANGED <<s1, s2, s3, s4>>
        BY <3>1, <3>4
      <4>2. P!Manifest' = P!Manifest
        BY <4>1 DEF P!Manifest
      <4>3. InboxInv'
        BY <2>2, <4>1, <4>2 DEF PanelInv, InboxInv
      <4>4. BeliefInv'
        BY <2>2, <2>5, <3>1, <4>1 DEF PanelInv, BeliefInv
      <4>5. s1 = "up" /\ ~s2 => (Has(s5, "title") => Has(s5', "title"))
        BY <2>2, <3>1, <4>1
      <4>6. TitleInv'
        BY <3>1, <4>1, <4>5 DEF PanelInv, TitleInv
      <4>7. SwapInv' /\ P!TypeOK'
        BY <2>1, <2>2, <3>1, <4>1
           DEF PanelInv, SwapInv, P!NoSecondSwap, P!TypeOK, P!Instances, Commands
      <4> QED BY <4>1, <4>3, <4>4, <4>6, <4>7 DEF PanelInv
    <3> QED BY <3>3, <3>4
  <2> QED BY <2>3, <2>4, <2>5
<1> QED BY <1>1, <1>2

\* An instance that takes an event is told no less than before by the others,
\* and asks for no less.
LEMMA UpdateKeepsPanel == ASSUME PanelInv, NEW i \in P!Instances, P!Update(i) PROVE PanelInv'
<1> DEFINE q == s4[i]
           e == Head(q)
<1>0. /\ s1 \in {"none", "loading", "up"} /\ s2 \in BOOLEAN /\ s3 \in {"shell", "panel"}
      /\ s1 # "up" => ~s2 /\ s3 = "shell"
      /\ s5 \in Seq(Commands) /\ s11 \in Int /\ s12 \in BOOLEAN
      /\ s8 \in BOOLEAN /\ s9 \in BOOLEAN
      /\ s6 \in [{"bar", "panel"} -> BOOLEAN] /\ s7 \in [{"bar", "panel"} -> BOOLEAN]
      /\ s1 = "none" => s4["panel"] = <<>>
      /\ s4 \in [{"bar", "panel"} -> Seq(Events)]
      /\ i \in {"bar", "panel"}
  BY DEF PanelInv, P!TypeOK, InboxInv, SwapInv, P!Instances
<1>1. /\ q # <<>> /\ (i = "panel" => s1 # "none") /\ s4' = [s4 EXCEPT ![i] = Tail(q)]
      /\ UNCHANGED <<s1, s2, s3, s10>>
  BY DEF P!Update
<1>2. /\ q \in Seq(Events) /\ e \in Events /\ Tail(q) \in Seq(Events)
      /\ GrantDue(q) <=> e.event = "granted"
      /\ e.event = "panes" => ~NoPanes(q)
      /\ e.event # "panes" => (NoPanes(q) <=> NoPanes(Tail(q)))
      /\ \A m : Telling(q, m) => Telling(Tail(q), m) \/ (e = m /\ NoPanes(Tail(q)))
  <2>1. q \in Seq(Events) /\ q # <<>>
    BY <1>0, <1>1
  <2> HIDE DEF q
  <2> QED BY <2>1, Delivering
<1>3. /\ s4'[i] = Tail(q) /\ s4' \in [{"bar", "panel"} -> Seq(Events)]
      /\ \A j \in {"bar", "panel"} : j # i => s4'[j] = s4[j]
  BY <1>0, <1>1, <1>2
<1>4. P!Manifest' = P!Manifest /\ P!Manifest.event = "panes"
      /\ P!Manifest = [event |-> "panes", open |-> s1 = "up", titled |-> s2,
                       focused |-> s3 = "panel"]
  BY <1>1 DEF P!Manifest
<1>5. InboxInv' <=> s5' \in Seq(Commands)
                    /\ \A j \in {"bar", "panel"} : NoPanes(s4'[j]) \/ Telling(s4'[j], P!Manifest)
  BY <1>3, <1>4 DEF InboxInv, P!Instances
<1>6. \A j \in {"bar", "panel"} : NoPanes(s4'[j]) \/ Telling(s4'[j], P!Manifest)
  <2>1. \A j \in {"bar", "panel"} : NoPanes(s4[j]) \/ Telling(s4[j], P!Manifest)
    BY DEF PanelInv, InboxInv, P!Instances
  <2>2. NoPanes(s4'[i]) \/ Telling(s4'[i], P!Manifest)
    BY <1>0, <1>2, <1>3, <2>1
  <2> QED BY <1>3, <2>1, <2>2
\* What the instance read last is what there is.
<1>7. e.event = "panes" /\ NoPanes(Tail(q)) => e = P!Manifest
  <2>1. NoPanes(q) \/ Telling(q, P!Manifest)
    BY DEF PanelInv, InboxInv
  <2>2. ASSUME NoPanes(Tail(q)) PROVE ~Telling(Tail(q), P!Manifest)
    BY <1>4, <2>2 DEF NoPanes, Telling
  <2> QED BY <1>2, <2>1, <2>2
<1>7a. e.event = "panes" /\ NoPanes(s4'[i]) =>
         e.open = (s1 = "up") /\ e.titled = s2 /\ e.focused = (s3 = "panel")
  <2>1. /\ P!Manifest.open = (s1 = "up") /\ P!Manifest.titled = s2
        /\ P!Manifest.focused = (s3 = "panel")
    BY DEF P!Manifest
  <2> QED BY <1>3, <1>7, <2>1
<1>8. P!TypeOK' <=>
        /\ s5' \in Seq(Commands) /\ s6' \in [{"bar", "panel"} -> BOOLEAN]
        /\ s7' \in [{"bar", "panel"} -> BOOLEAN] /\ s8' \in BOOLEAN /\ s9' \in BOOLEAN
        /\ s12' \in BOOLEAN
  <2>1. s1' = "none" => s4'["panel"] = <<>>
    BY <1>0, <1>1, <1>3
  <2> QED BY <1>0, <1>1, <1>3, <2>1 DEF P!TypeOK, P!Instances, Commands
<1> HIDE DEF q, e
<1>9. e.event \in {"panes", "m", "granted", "esc", "x"}
      /\ (e.event = "panes" => e.open \in BOOLEAN /\ e.titled \in BOOLEAN /\ e.focused \in BOOLEAN)
  BY <1>2 DEF Events
<1>10. CASE e.event = "panes"
  <2>1. P!OnPanes(i, e)
    BY <1>10 DEF P!Update, e, q
  <2> DEFINE open == e.open /\ (i = "panel" \/ e.titled)
             cmds == P!PanesCommands(i, e)
  <2>2. CASE i = "panel" /\ ~e.open
    <3>1. UNCHANGED <<s5, s6, s7, s8, s9, s11, s12>>
      BY <2>1, <2>2 DEF P!OnPanes
    <3>2. s1 = "up" => ~NoPanes(s4'["panel"])
      BY <1>9, <1>10, <1>7a, <2>2
    <3>3. s1 # "none" => s9
      BY <1>2, <1>10, <2>2 DEF PanelInv, TitleInv, q
    <3>4. BeliefInv' /\ TitleInv' /\ SwapInv'
      BY <1>1, <1>3, <2>2, <3>1, <3>2, <3>3
         DEF PanelInv, BeliefInv, TitleInv, SwapInv, P!NoSecondSwap
    <3> QED BY <1>0, <1>1, <1>5, <1>6, <1>8, <3>1, <3>4 DEF PanelInv
  <2>3. CASE ~(i = "panel" /\ ~e.open)
    <3>1. /\ s6' = [s6 EXCEPT ![i] = open] /\ s7' = [s7 EXCEPT ![i] = open /\ e.focused]
          /\ s5' = s5 \o cmds
          /\ s8' = (s8 /\ i # "panel")
          /\ s12' = (s12 \/ (i = "bar" /\ ~open))
          /\ UNCHANGED <<s9, s11>>
      BY <2>1, <2>3 DEF P!OnPanes
    <3>2. cmds \in Seq(Commands) /\ (i = "panel" /\ s9 /\ ~e.titled => Has(cmds, "title"))
      <4>1. <<>> \in Seq(Commands) /\ <<"title">> \in Seq(Commands) /\ <<"focus">> \in Seq(Commands)
        BY EmptySeq DEF Commands
      <4>2. Has(<<"title">>, "title")
        BY DEF Has
      <4> DEFINE a == IF i = "panel" /\ s9 /\ ~e.titled THEN <<"title">> ELSE <<>>
                 b == IF i = "panel" /\ P!Retry(e) THEN <<"focus">> ELSE <<>>
      <4>3. cmds = a \o b
        BY DEF P!PanesCommands
      <4>4. a \in Seq(Commands) /\ b \in Seq(Commands)
            /\ (i = "panel" /\ s9 /\ ~e.titled => Has(a, "title"))
        BY <4>1, <4>2
      <4> HIDE DEF a, b, cmds
      <4> QED BY <4>3, <4>4, Asking
    <3>3. open \in BOOLEAN /\ (open /\ e.focused) \in BOOLEAN
      BY <1>0, <1>9, <1>10
    <3>4. open <=> e.open /\ (i = "panel" \/ e.titled)
      OBVIOUS
    <3> HIDE DEF open, cmds
    <3>5. s5' \in Seq(Commands) /\ \A c : Has(s5, c) => Has(s5', c)
      BY <1>0, <3>1, <3>2, Asking
    <3>6. /\ s6' \in [{"bar", "panel"} -> BOOLEAN] /\ s7' \in [{"bar", "panel"} -> BOOLEAN]
          /\ s6'[i] = open /\ s7'[i] = (open /\ e.focused)
          /\ \A j \in {"bar", "panel"} : j # i => s6'[j] = s6[j] /\ s7'[j] = s7[j]
      BY <1>0, <3>1, <3>3
    <3>7. s8' \in BOOLEAN /\ s12' \in BOOLEAN
      BY <1>0, <3>1
    <3>8. CASE i = "bar"
      <4>1. open <=> e.open /\ e.titled
        BY <3>4, <3>8
      <4>2. NoPanes(s4'["bar"]) => (open <=> s1 = "up" /\ s2) /\ (e.focused <=> s3 = "panel")
        BY <1>10, <1>7a, <3>8, <4>1
      <4>3. s4'["panel"] = s4["panel"] /\ s7'["panel"] = s7["panel"]
        BY <1>3, <3>6, <3>8
      <4>4. NoPanes(s4'["bar"]) => (s7'["bar"] <=> s2 /\ s3 = "panel")
        BY <1>0, <3>6, <3>8, <4>2
      <4>5. NoPanes(s4'["bar"]) => (s6'["bar"] <=> s1 = "up" /\ s2)
        BY <3>6, <3>8, <4>2
      <4>6. BeliefInv'
        BY <1>1, <4>3, <4>4, <4>5 DEF PanelInv, BeliefInv
      <4>7. TitleInv'
        BY <1>1, <3>1, <3>5, <4>3 DEF PanelInv, TitleInv
      <4>8. SwapInv'
        BY <1>0, <3>1, <3>3, <3>6, <3>8 DEF PanelInv, SwapInv, P!NoSecondSwap
      <4> QED BY <1>0, <1>1, <1>5, <1>6, <1>8, <3>1, <3>5, <3>6, <3>7, <4>6, <4>7, <4>8 DEF PanelInv
    <3>9. CASE i = "panel"
      <4>1. e.open /\ open
        BY <1>9, <1>10, <2>3, <3>4, <3>9
      <4>2. s9
        BY <1>1, <1>2, <1>10, <3>9 DEF PanelInv, TitleInv, q
      <4>3. s4'["bar"] = s4["bar"] /\ s6'["bar"] = s6["bar"] /\ s7'["bar"] = s7["bar"]
        BY <1>3, <3>6, <3>9
      <4>4. NoPanes(s4'["panel"]) =>
              (s7'["panel"] <=> s3 = "panel") /\ (~s2 => Has(s5', "title"))
        <5>1. SUFFICES ASSUME NoPanes(s4'["panel"])
                       PROVE  (s7'["panel"] <=> s3 = "panel") /\ (~s2 => Has(s5', "title"))
          OBVIOUS
        <5>2. e.titled = s2 /\ (e.focused <=> s3 = "panel")
          BY <1>10, <1>7a, <3>9, <5>1
        <5>3. s7'["panel"] <=> e.focused
          BY <3>6, <3>9, <4>1
        <5>4. ~s2 => Has(cmds, "title")
          BY <3>2, <3>9, <4>2, <5>2
        <5> QED BY <1>0, <3>1, <3>2, <5>2, <5>3, <5>4, Asking
      <4>5. BeliefInv'
        BY <1>1, <3>5, <4>3, <4>4 DEF PanelInv, BeliefInv
      <4>6. TitleInv'
        BY <1>1, <3>1, <4>2, <4>4 DEF TitleInv
      <4>7. SwapInv'
        BY <1>0, <3>1, <3>9, <4>3 DEF PanelInv, SwapInv, P!NoSecondSwap
      <4> QED BY <1>0, <1>1, <1>5, <1>6, <1>8, <3>1, <3>5, <3>6, <3>7, <4>5, <4>6, <4>7 DEF PanelInv
    <3> QED BY <1>0, <3>8, <3>9
  <2> QED BY <2>2, <2>3
<1>11. CASE e.event = "m"
  <2>1. P!OnMonitor(i)
    BY <1>11 DEF P!Update, e, q
  <2>2. PICK c \in Commands :
          /\ i = "bar" => s5' = IF s6["bar"] THEN s5 \o <<>> ELSE s5 \o <<"swap">>
          /\ i = "panel" => s5' = s5 \o <<c>>
    BY <1>0, <2>1 DEF P!OnMonitor, Commands
  <2>3. /\ s6' = [s6 EXCEPT ![i] = TRUE]
        /\ IF i = "bar" /\ ~s6[i] THEN s11' = s11 + 1 /\ s12' = (s12 /\ s11 > 0)
                                  ELSE UNCHANGED <<s11, s12>>
        /\ UNCHANGED <<s7, s8, s9>>
    BY <2>1 DEF P!OnMonitor
  <2>4. /\ <<>> \in Seq(Commands) /\ <<"swap">> \in Seq(Commands) /\ <<c>> \in Seq(Commands)
        /\ Has(<<"swap">>, "swap")
    BY EmptySeq DEF Commands, Has
  <2>5. /\ s5' \in Seq(Commands) /\ \A d : Has(s5, d) => Has(s5', d)
        /\ i = "bar" /\ ~s6["bar"] => Has(s5', "swap")
    BY <1>0, <2>2, <2>4, Asking
  <2>6. /\ s6' \in [{"bar", "panel"} -> BOOLEAN] /\ s6'[i]
        /\ \A j \in {"bar", "panel"} : j # i => s6'[j] = s6[j]
    BY <1>0, <2>3
  <2>7. s12' \in BOOLEAN
    BY <1>0, <2>3
  <2>8. /\ \A j \in {"bar", "panel"} : NoPanes(s4'[j]) <=> NoPanes(s4[j])
        /\ s1 # "none" => s9 \/ GrantDue(s4'["panel"])
        /\ GrantDue(s4["panel"]) => GrantDue(s4'["panel"]) \/ i = "panel"
    BY <1>0, <1>2, <1>3, <1>11 DEF PanelInv, TitleInv, q
  <2>9. BeliefInv'
    BY <1>0, <1>1, <2>3, <2>5, <2>6, <2>8 DEF PanelInv, BeliefInv
  <2>10. TitleInv'
    <3>1. i = "panel" => ~GrantDue(s4["panel"])
      BY <1>2, <1>11 DEF q
    <3> QED BY <1>1, <2>3, <2>5, <2>8, <3>1 DEF PanelInv, TitleInv
  <2>11. SwapInv'
    BY <1>0, <2>3, <2>6 DEF PanelInv, SwapInv, P!NoSecondSwap
  <2> QED
    BY <1>0, <1>1, <1>5, <1>6, <1>8, <2>3, <2>5, <2>6, <2>7, <2>9, <2>10, <2>11 DEF PanelInv
<1>12. CASE e.event \in {"granted", "esc", "x"}
  <2>1. /\ UNCHANGED <<s6, s7, s11, s12>> /\ s8' \in BOOLEAN
        /\ s9' = (s9 \/ e.event = "granted")
        /\ s5' = CASE e.event = "granted" -> s5 \o <<"title", "focus">>
                   [] e.event = "esc" -> Append(s5, "shell")
                   [] e.event = "x" -> Append(s5, "close")
    <3>1. CASE e.event = "granted"
      BY <1>0, <3>1 DEF P!Update, P!ClaimPane, e, q
    <3>2. CASE e.event \in {"esc", "x"}
      BY <1>0, <3>2 DEF P!Update, e, q
    <3> QED BY <1>12, <3>1, <3>2
  <2>2. /\ <<"title", "focus">> \in Seq(Commands) /\ Has(<<"title", "focus">>, "title")
        /\ <<"shell">> \in Seq(Commands) /\ <<"close">> \in Seq(Commands)
        /\ "shell" \in Commands /\ "close" \in Commands
    BY DEF Commands, Has
  <2>3. Append(s5, "shell") = s5 \o <<"shell">> /\ Append(s5, "close") = s5 \o <<"close">>
    BY <1>0, <2>2, AppendIsConcat
  <2>4. /\ s5' \in Seq(Commands) /\ \A d : Has(s5, d) => Has(s5', d)
        /\ e.event = "granted" => Has(s5', "title")
    BY <1>0, <1>12, <2>1, <2>2, <2>3, Asking
  <2>5. \A j \in {"bar", "panel"} : NoPanes(s4'[j]) <=> NoPanes(s4[j])
    BY <1>0, <1>2, <1>3, <1>12 DEF q
  <2>6. BeliefInv'
    BY <1>1, <2>1, <2>4, <2>5 DEF PanelInv, BeliefInv
  <2>7. TitleInv'
    <3>1. GrantDue(s4["panel"]) => GrantDue(s4'["panel"]) \/ e.event = "granted"
      BY <1>0, <1>2, <1>3 DEF q
    <3>2. s1 # "none" => s9' \/ GrantDue(s4'["panel"])
      BY <2>1, <3>1 DEF PanelInv, TitleInv
    <3>3. s1 = "up" /\ ~s2 =>
            Has(s5', "title") \/ GrantDue(s4'["panel"]) \/ ~NoPanes(s4'["panel"])
      BY <2>4, <2>5, <3>1 DEF PanelInv, TitleInv
    <3> QED BY <1>1, <3>2, <3>3 DEF TitleInv
  <2>8. SwapInv'
    BY <2>1 DEF PanelInv, SwapInv, P!NoSecondSwap
  <2> QED
    BY <1>0, <1>1, <1>5, <1>6, <1>8, <2>1, <2>4, <2>6, <2>7, <2>8 DEF PanelInv
<1> QED BY <1>9, <1>10, <1>11, <1>12

LEMMA PanelStep == PanelInv /\ (P!Next \/ UNCHANGED slots) => PanelInv'
<1>1. ASSUME PanelInv, UNCHANGED slots PROVE PanelInv'
  <2>1. UNCHANGED <<s1, s2, s3, s4, s5, s6, s7, s8, s9, s10, s11, s12>>
    BY <1>1 DEF slots
  <2>2. P!Manifest' = P!Manifest
    BY <2>1 DEF P!Manifest
  <2>3. InboxInv' /\ BeliefInv' /\ TitleInv' /\ SwapInv' /\ P!TypeOK'
    BY <1>1, <2>1, <2>2
       DEF PanelInv, InboxInv, BeliefInv, TitleInv, SwapInv, P!NoSecondSwap, P!TypeOK
  <2> QED BY <1>1, <2>1, <2>3 DEF PanelInv
<1> QED
  BY <1>1, UserKeepsPanel, ScreenKeepsPanel, UpdateKeepsPanel DEF P!Next

\* When nothing is on its way any more, nobody is wrong.
LEMMA QuietIsRight == PanelInv => P!TypeOK /\ P!BeliefsAreTrue /\ P!NoSecondSwap
<1> SUFFICES ASSUME PanelInv PROVE P!TypeOK /\ P!BeliefsAreTrue /\ P!NoSecondSwap
  OBVIOUS
<1>1. P!TypeOK /\ P!NoSecondSwap
  BY DEF PanelInv, SwapInv
<1>2. ASSUME P!Quiet
      PROVE  /\ s6["bar"] = (s1 = "up") /\ s7["bar"] = (s3 = "panel")
             /\ s1 = "up" => s7["panel"] = (s3 = "panel")
  <2>1. s5 = <<>> /\ s1 # "loading" /\ s4["bar"] = <<>> /\ s4["panel"] = <<>>
    BY <1>2 DEF P!Quiet, P!Instances
  <2>2. /\ NoPanes(s4["bar"]) /\ NoPanes(s4["panel"]) /\ ~GrantDue(s4["panel"])
        /\ ~Has(s5, "swap") /\ ~Has(s5, "title")
    BY <2>1, NothingOnItsWay
  <2>3. s1 = "up" => s2
    BY <2>2 DEF PanelInv, TitleInv
  <2>4. s6["bar"] \in BOOLEAN /\ s7["bar"] \in BOOLEAN /\ s7["panel"] \in BOOLEAN
        /\ (s3 = "panel" => s1 = "up") /\ s2 \in BOOLEAN
    BY DEF PanelInv, P!TypeOK, P!Instances
  <2>5. /\ s6["bar"] <=> s1 = "up"
        /\ s7["bar"] <=> s3 = "panel"
        /\ s1 = "up" => (s7["panel"] <=> s3 = "panel")
    BY <2>1, <2>2, <2>3, <2>4 DEF PanelInv, BeliefInv
  <2> QED BY <2>4, <2>5
<1> QED BY <1>1, <1>2 DEF P!BeliefsAreTrue

\* The status line shows notices and pages there are, whatever messages drop
\* them; once nothing is on its way the bar and the panel know what zellij
\* shows; and the layout is swapped twice at a time only after a stale manifest.
THEOREM DisplaysAreTrue == StorySpec => []DisplayIsTrue
<1> DEFINE Inv == /\ story = "status line" => LineInv
                  /\ story = "panel" => PanelInv
<1>1. StoryInit => Inv
  BY LineBegins, PanelBegins DEF StoryInit
<1>2. Inv /\ [StoryNext]_storyVars => Inv'
  BY StorySteps, LineStep, PanelStep
<1>3. Inv => DisplayIsTrue
  BY QuietIsRight DEF LineInv, DisplayIsTrue
<1> QED BY <1>1, <1>2, <1>3, PTL DEF StorySpec
=============================================================================
