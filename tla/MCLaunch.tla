------------------------------ MODULE MCLaunch ------------------------------
(***************************************************************************)
(* Launch for TLC, a `launch` and an `ensure` of the same session name,    *)
(* and the machines a user waits for: `job wait`, `attach`, the start of   *)
(* the zellij server, the plugin's status line and its panel. They share   *)
(* nothing, so a behaviour tells the story of one of them: what is         *)
(* explored is the sum of their states and not the product. Each story     *)
(* keeps its variables in the same slots, as many as it needs.             *)
(***************************************************************************)
EXTENDS Launch

CONSTANTS
  None,
  Stories,                                 \* which of them
  dev, launch, ensure,                     \* Launch
  Jobs, Named, WaitFor, PollEvery,         \* JobWait
  Callers, ClientIds,                      \* Attach
  LooksFor,                                \* ServerStart
  Hosts, MaxNotices, Pages, CycleTicks, IdleTicks,  \* PluginState
  PanelPresses                             \* Panel

\* None, a client of before and the words for a config are nobody's; a user's
\* jobs are finitely many, and the ticks of the plugin are what they count.
ASSUME StoryAssumption ==
  /\ None \notin {"old", "job", "own"} /\ Callers \cap {None, "old"} = {}
  /\ LooksFor \in Nat /\ IsFiniteSet(Hosts)
  /\ {MaxNotices, Pages, IdleTicks} \subseteq Nat /\ CycleTicks \in Nat \ {0}

VARIABLES
  story,
  s1, s2, s3, s4, s5, s6, s7, s8, s9, s10, s11, s12

slots == <<s1, s2, s3, s4, s5, s6, s7, s8, s9, s10, s11, s12>>
slots6 == <<s1, s2, s3, s4, s5, s6>>
slots9 == <<s1, s2, s3, s4, s5, s6, s7, s8, s9>>
slots10 == <<s1, s2, s3, s4, s5, s6, s7, s8, s9, s10>>

MCNames == [l \in Launchers |-> dev]

W == INSTANCE JobWait WITH Timeout <- WaitFor, queue <- s1, acct <- s2,
    at <- s3, ids <- s4, pending <- s5, asked <- s6, left <- s7,
    timedOut <- s8, report <- s9, ended <- s10
A == INSTANCE Attach WITH alive <- s1, clients <- s2, at <- s3, listed <- s4,
    retried <- s5, since <- s6
S == INSTANCE ServerStart WITH Deadline <- LooksFor, at <- s1, round <- s2,
    clientDone <- s3, signalled <- s4, client <- s5, server <- s6,
    config <- s7, ready <- s8, told <- s9
L == INSTANCE PluginState WITH Jobs <- Hosts, mode <- s1, idx <- s2,
    ttl <- s3, frame <- s4, notices <- s5, hosts <- s6, host <- s7,
    theme <- s8, fromSession <- s9
P == INSTANCE Panel WITH MaxPresses <- PanelPresses, pane <- s1, titled <- s2,
    focus <- s3, inbox <- s4, asked <- s5, panelOpen <- s6, focused <- s7,
    pending <- s8, permitted <- s9, presses <- s10, swapping <- s11,
    stale <- s12

\* The story at hand; the other machines stay as they began.
Tells(s) == story = s /\ UNCHANGED <<story, vars>>

\* The slots that a story leaves unused, from some slot on.
rest11 == <<s11, s12>>
rest10 == <<s10, rest11>>
rest7 == <<s7, s8, s9, rest10>>
rest1 == <<s1, s2, s3, s4, s5, s6, rest7>>
Unused11 == s11 = None /\ s12 = None
Unused10 == s10 = None /\ Unused11
Unused7 == s7 = None /\ s8 = None /\ s9 = None /\ Unused10
Unused1 == s1 = None /\ s2 = None /\ s3 = None /\ s4 = None /\ s5 = None
    /\ s6 = None /\ Unused7

StoryInit ==
  /\ story \in Stories /\ Init
  /\ \/ story = "launch" /\ Unused1
     \/ story = "job wait" /\ W!Init /\ Unused11
     \/ story = "attach" /\ A!Init /\ Unused7
     \/ story = "server" /\ S!Init /\ Unused10
     \/ story = "status line" /\ L!Init /\ Unused10
     \/ story = "panel" /\ P!Init

StoryNext ==
  \/ story = "launch" /\ Next /\ UNCHANGED <<story, rest1>>
  \/ Tells("job wait") /\ W!Next /\ UNCHANGED rest11
  \/ Tells("attach") /\ A!Next /\ UNCHANGED rest7
  \/ Tells("server") /\ S!Next /\ UNCHANGED rest10
  \/ Tells("status line") /\ L!Next /\ UNCHANGED rest10
  \/ Tells("panel") /\ P!Next

storyVars == <<story, vars, slots>>
StorySpec == StoryInit /\ [][StoryNext]_storyVars
FairStorySpec ==
  /\ StorySpec
  /\ \A l \in Launchers : WF_vars(story = "launch" /\ Goes(l))
  \* the fairness of the other machines, each in its story
  /\ WF_slots10(story = "job wait" /\ W!Goes)
  /\ \A c \in Callers: WF_slots6(story = "attach" /\ A!CallerMoves(c))
  /\ WF_slots9(story = "server" /\ S!Goes)
  /\ WF_slots9(story = "status line" /\ L!Tick)
  /\ WF_slots(story = "panel" /\ P!Screen)
  /\ WF_slots(story = "panel" /\ P!Place)
  /\ WF_slots(story = "panel" /\ P!Update("bar"))
  /\ WF_slots(story = "panel" /\ P!Update("panel"))

(* The properties of the machines, each in its story.                       *)

\* A wait ends, whatever the jobs and Slurm do but hang.
WaitEnds ==
  []<>(story = "job wait" => ~W!InCall) =>
    ((story = "job wait" /\ W!Waiting) ~> (story = "job wait" => W!Answered))
\* No attach waits for a server that is gone, if no zellij command does.
NoAttachHangs ==
  \A c \in Callers :
    []<>(story = "attach" => ~A!InCall(c)) =>
      ((story = "attach" /\ ~A!Served) ~> (story = "attach" => A!Settled(c)))
\* The start of the server ends, if no list-sessions hangs.
StartEnds ==
  []<>(story = "server" => ~S!InCall) => <>(story = "server" => S!Ended)
\* The status line comes back.
StatusComesBack ==
  \/ []<>(story = "status line" => L!ShowsStatus)
  \/ []<><<story = "status line" /\ L!Key>>_slots9
\* An opened panel gets the focus.
PanelGetsTheFocus ==
  \A n \in 0..PanelPresses :
    (story = "panel" /\ P!Opening(n)) ~> (story = "panel" => P!FocusedOrLeft(n))

\* No client is in the way of another: an attach is alone, and a server is
\* told to be ready when its first client has left.
ClientsDoNotMeet ==
  \* An attach leaves no client of before it attached.
  /\ story = "attach" => A!TypeOK /\ A!NewcomerIsAlone
  \* The server is never probed before its client is done.
  \* The ready marker means a server that can be attached to.
  /\ story = "server" => S!TypeOK /\ S!NoProbePanics /\ S!ReadyMeansAttachable

\* What the plugin shows is there, and what it believes of its panel is so,
\* with one swap of the layout at a time.
DisplayIsTrue ==
  \* The bar shows only notices and pages there are.
  /\ story = "status line" => L!TypeOK /\ L!ShownExists
  \* What the plugin believes of the panel becomes true.
  \* The layout is not swapped while it is being swapped.
  /\ story = "panel" => P!TypeOK /\ P!BeliefsAreTrue /\ P!NoSecondSwap

\* Nobody waits for ever: a `job wait`, an attach, the start of a server and
\* a launch all come to an end, by themselves or once interrupted, if no call
\* that has no timeout hangs for ever.
WaitersAreServed ==
  /\ WaitEnds /\ NoAttachHangs /\ StartEnds
  /\ WaitInterruptCancels /\ LostJobEndsTheLaunch

\* The plugin comes to rest: its status line comes back, and a panel that was
\* opened has the focus, showing the job it showed.
PluginSettles ==
  /\ StatusComesBack /\ PanelGetsTheFocus
  /\ [][story = "status line" => L!KeepsItsJob]_slots
=============================================================================
