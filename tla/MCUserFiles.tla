---------------------------- MODULE MCUserFiles ----------------------------
(***************************************************************************)
(* The parts of the system that meet in files and directories of the user, *)
(* for TLC: one writer of a file, a session's event log, the quota cache,  *)
(* the first starts, a worktree and its prune, the audits. They share      *)
(* nothing with each other, so a behaviour is a behaviour of one of them,  *)
(* its story, while the others stay as they began: what is explored is the *)
(* sum of their states and not the product.                                *)
(***************************************************************************)
EXTENDS AtomicWrite, TLC

CONSTANTS
  Stories,                               \* which of them
  MaxEvents, MayBeKilled,                \* EventLog
  Sessions, Checker, QuotaPoll, ProbeTime, \* QuotaCache
  Starts, mouse, noMouse,                \* Startup
  MaxCommits,                            \* Worktree
  Jobs, Users, Flaky                     \* Audit

\* None is no version, no number and no set; a quota is not asked for more
\* often than a probe may take (config.rs has a floor of 30 s, and 5 s for a
\* daemon); audits that are jobs and shells differ, and somebody starts one.
ASSUME UserAssumption ==
  /\ None \notin Inodes \cup Versions \cup Nat /\ \A B \in SUBSET {mouse, noMouse} : B # None
  /\ MaxEvents \in Nat /\ MaxCommits \in Nat
  /\ QuotaPoll \in Nat \ {0} /\ ProbeTime \in 0..QuotaPoll /\ Checker \notin Sessions
  /\ Jobs \cap Users = {} /\ Users # {} /\ Flaky \in BOOLEAN

VARIABLES
  story,
  phase, stateFile, log, appended, logAt, seen, printed, out,
  up, cache, age, quotaAt, held, idle, poke, view, toPoke, news, quotaRaced, missed,
  skipped,
  stage, temp, dir, granted, grantTmp, existing, crossed,
  head, landed, ahead, pushed, prs, dirty, locked, pruneAt, sha, fact, removable,
  decided, stirred, lost,
  auditAt, heir, met, auditRaced, failed

logVars == <<phase, stateFile, log, appended, logAt, seen, printed, out>>
quotaVars == <<up, cache, age, quotaAt, held, idle, poke, view, toPoke, news, quotaRaced,
               missed, skipped>>
startVars == <<stage, temp, dir, granted, grantTmp, existing, crossed>>
treeVars == <<head, landed, ahead, pushed, prs, dirty, locked, pruneAt, sha, fact, removable,
              decided, stirred, lost>>
auditVars == <<auditAt, heir, met, auditRaced, failed>>

MCInodes == 1..(Cardinality(Writers \cup Readers) + 2)

\* One start turned the mouse off; the others use the same bundle.
MCBundleOf == [s \in Starts |-> IF s = CHOOSE t \in Starts : TRUE THEN noMouse ELSE mouse]

L == INSTANCE EventLog WITH at <- logAt
Q == INSTANCE QuotaCache WITH at <- quotaAt, raced <- quotaRaced
S == INSTANCE Startup WITH tmp <- grantTmp, Bundles <- {mouse, noMouse}, BundleOf <- MCBundleOf
W == INSTANCE Worktree WITH at <- pruneAt
A == INSTANCE Audit WITH at <- auditAt, raced <- auditRaced

UserInit ==
  /\ story \in Stories
  /\ Init /\ L!Init /\ Q!Init /\ S!Init /\ W!Init /\ A!Init

UserNext ==
  \/ story = "file" /\ Next /\ UNCHANGED <<story, logVars, quotaVars, startVars, treeVars, auditVars>>
  \/ story = "events" /\ L!Next /\ UNCHANGED <<story, vars, quotaVars, startVars, treeVars, auditVars>>
  \/ story = "quota" /\ Q!Next /\ UNCHANGED <<story, vars, logVars, startVars, treeVars, auditVars>>
  \/ story = "starts" /\ S!Next /\ UNCHANGED <<story, vars, logVars, quotaVars, treeVars, auditVars>>
  \/ story = "worktree" /\ W!Next /\ UNCHANGED <<story, vars, logVars, quotaVars, startVars, auditVars>>
  \/ story = "audits" /\ A!Next /\ UNCHANGED <<story, vars, logVars, quotaVars, startVars, treeVars>>

UserVars == <<story, vars, logVars, quotaVars, startVars, treeVars, auditVars>>
UserSpec ==
  /\ UserInit /\ [][UserNext]_UserVars
  \* L!Fairness and Q!Fairness, each in its story
  /\ WF_logVars(story = "events" /\ L!Follower)
  /\ WF_logVars(story = "events" /\ L!RemoveStateFile)
  /\ WF_logVars(story = "events" /\ L!RemoveLog)
  /\ WF_quotaVars(story = "quota" /\ Q!Advance)
  /\ \A s \in Sessions : WF_quotaVars(story = "quota" /\ Q!Session(s))
  /\ WF_quotaVars(story = "quota" /\ Q!CheckGoesOn)

(* The properties of the parts, under their own names.                     *)

\* A follower prints the events once and in order.
PrintsAPrefix == L!PrintsAPrefix
\* A follower stops when the session is over and not before.
StopsOnlyAtTheEnd == L!StopsOnlyAtTheEnd
\* A follower that has seen the state file stops once it is removed.
StopsAfterTeardown == L!StopsAfterTeardown
\* What a follower that has stopped did not print was never appended.
EverythingPrinted == L!EverythingPrinted
\* While probes succeed, a session's quota notice is recent.
NoticeIsRecent == Q!NoticeIsRecent
\* A check's answer reaches the notices of the sessions it poked, unless an
\* older probe overwrote it.
CheckReachesNotices == Q!CheckReachesNotices
\* Notices become recent again after an outage of the daemons.
NoticesRecover == story = "quota" => Q!NoticesRecover
\* A check's answer reaches the notices of every session that it poked.
FreshAnswerReaches == Q!FreshAnswerReaches
\* A bundle in use is complete.
BundlesAreWhole == S!BundlesAreWhole
\* A start fails or prompts for nothing but another start at the same time.
StartsUnlessCrossed == S!StartsUnlessCrossed
\* A start never waits on the permission prompt.
NeverPrompts == S!NeverPrompts
\* What prune found in a worktree it removes has landed.
OnlyLandedWorkIsRemoved == W!OnlyLandedWorkIsRemoved
\* What prune destroys was committed after its last look.
OnlyLaterWorkIsLost == W!OnlyLaterWorkIsLost
\* A worktree whose work has landed is found removable.
MergedIsFound == W!MergedIsFound
\* A second chain of audits takes a race or a failure.
OneChainUnlessRaced == A!OneChainUnlessRaced
\* A chain of audits ends by a race or a failure only.
ChainGoesOnUnlessMet == A!ChainGoesOnUnlessMet

(* What the run checks: of each part its type and its properties together.   *)

\* A state file behaves as one atomic file: the protocol of temporary files
\* and renames implements it, and no reader gets a mixed or partial text.
FileIsAtomic == ImplementsAtomicFile /\ [](TypeOK /\ ReadsAreAtomic)
\* A follower prints the events once and in order, up to the session's end.
FollowerIsExact == L!TypeOK /\ PrintsAPrefix /\ StopsOnlyAtTheEnd
\* A session's quota notice is recent, and a check's answer reaches those that
\* the check has poked.
NoticesAreRecent == Q!TypeOK /\ NoticeIsRecent /\ CheckReachesNotices
\* Bundles in use are complete, and only a start at the same time is in the way.
StartsAreWhole == S!TypeOK /\ BundlesAreWhole /\ StartsUnlessCrossed
\* Prune loses no work it could have seen, and finds what has landed.
PruneLosesNothing ==
  W!TypeOK /\ OnlyLandedWorkIsRemoved /\ OnlyLaterWorkIsLost /\ MergedIsFound
\* The chain of audits is one chain, and goes on, but for races and failures.
ChainIsOne == A!TypeOK /\ OneChainUnlessRaced /\ ChainGoesOnUnlessMet
\* Followers stop after the teardown, notices recover after an outage.
FilesSettle == StopsAfterTeardown /\ NoticesRecover
=============================================================================
