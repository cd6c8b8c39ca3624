------------------------------ MODULE Worktree ------------------------------
(***************************************************************************)
(* `sinteractive worktree prune --yes` on one linked git worktree          *)
(* (crates/sint-core/src/worktree.rs): inspect reads its facts with one    *)
(* git or gh command each, classify decides on them, and prune acts on the *)
(* decision later, while the user goes on working and the branch is        *)
(* pushed, merged and deleted on the remote.                               *)
(*                                                                         *)
(* The branch's own commits are numbered 1, 2, ...; what is remembered of  *)
(* a ref is how many of them it reaches. A prune of several worktrees is   *)
(* this one, several times: one failure does not stop the others. Without  *)
(* --no-pr, with a default branch, and not called from the worktree.       *)
(***************************************************************************)
EXTENDS Naturals

CONSTANT MaxCommits   \* model bound: commits made on the branch

VARIABLES
  head,      \* the branch: its own commits are 1..head
  landed,    \* those the default branch reaches
  ahead,     \* the default branch has commits beyond them
  pushed,    \* those the remote branch reaches, 0 without one
  prs,       \* the head commits of the merged pull requests
  dirty, locked,
  at,        \* prune: the next command
  sha,       \* inspect: `rev-parse HEAD`
  fact,      \* Facts, as far as they are read
  removable, \* Entry::removable
  decided,   \* history: head at the last read that can make it removable
  stirred,   \* history: something changed since inspect began
  lost       \* history: commits destroyed that no remote ref or merge holds

git == <<head, landed, ahead, pushed, prs, dirty, locked>>
vars == <<git, at, sha, fact, removable, decided, stirred, lost>>

Commits == 0..MaxCommits
Reads == {"head", "status", "tip", "ancestor", "upstream", "pr", "unpushed", "classify"}
Facts == [dirty : BOOLEAN, locked : BOOLEAN, tip : BOOLEAN, ancestor : BOOLEAN,
          published : BOOLEAN, merged : BOOLEAN, unpushed : BOOLEAN]
NoFacts == [f \in {"dirty", "locked", "tip", "ancestor", "published", "merged", "unpushed"} |-> FALSE]

TypeOK ==
  /\ head \in Commits /\ landed \in 0..head /\ pushed \in 0..head /\ prs \subseteq 1..head
  /\ ahead \in BOOLEAN /\ dirty \in BOOLEAN /\ locked \in BOOLEAN
  /\ at \in Reads \cup {"remove", "branch", "removed", "kept"}
  /\ sha \in 0..head /\ decided \in 0..head /\ fact \in Facts
  /\ removable \in BOOLEAN /\ stirred \in BOOLEAN /\ lost \subseteq 1..head

Init ==
  /\ head = 0 /\ landed = 0 /\ ahead = FALSE /\ pushed = 0 /\ prs = {}
  /\ dirty = FALSE /\ locked = FALSE
  /\ at = "head" /\ sha = 0 /\ fact = NoFacts
  /\ removable = FALSE /\ decided = 0 /\ stirred = FALSE /\ lost = {}

\* What a merged pull request or the default branch holds.
Landed(c) == c <= landed \/ \E p \in prs : c <= p

----------------------------------------------------------------------------
(* The user and the remote.                                                *)

There == at # "removed" /\ at # "branch"   \* the directory exists
Stir == stirred' = TRUE /\ UNCHANGED <<at, sha, fact, removable, decided, lost>>

Edit ==
  /\ There /\ ~dirty /\ dirty' = TRUE /\ Stir
  /\ UNCHANGED <<head, landed, ahead, pushed, prs, locked>>

Commit ==
  /\ There /\ dirty /\ head < MaxCommits
  /\ head' = head + 1 /\ dirty' = FALSE /\ Stir
  /\ UNCHANGED <<landed, ahead, pushed, prs, locked>>

Push ==
  /\ pushed < head /\ pushed' = head /\ Stir
  /\ UNCHANGED <<head, landed, ahead, prs, dirty, locked>>

\* A merge of what was pushed, with a merge commit on top or by fast-forward.
Merge ==
  /\ pushed > landed /\ landed' = pushed /\ ahead' \in {ahead, TRUE} /\ Stir
  /\ UNCHANGED <<head, pushed, prs, dirty, locked>>

\* A squash or rebase merge: other commits land.
SquashMerge ==
  /\ pushed > landed /\ pushed \notin prs
  /\ prs' = prs \cup {pushed} /\ ahead' = TRUE /\ Stir
  /\ UNCHANGED <<head, landed, pushed, dirty, locked>>

\* The remote branch of a merged pull request is deleted, and a fetch prunes.
RemoteDeletes ==
  /\ pushed > 0 /\ Landed(pushed) /\ pushed' = 0 /\ Stir
  /\ UNCHANGED <<head, landed, ahead, prs, dirty, locked>>

OthersLand ==
  /\ ~ahead /\ ahead' = TRUE /\ Stir
  /\ UNCHANGED <<head, landed, pushed, prs, dirty, locked>>

Lock ==
  /\ There /\ locked' = ~locked /\ Stir
  /\ UNCHANGED <<head, landed, ahead, pushed, prs, dirty>>

----------------------------------------------------------------------------
(* inspect.                                                                *)

Read(what, next) == at = what /\ at' = next /\ UNCHANGED <<git, removable, lost>>

ReadHead ==
  /\ Read("head", "status")
  /\ sha' = head /\ decided' = 0 /\ stirred' = FALSE /\ fact' = NoFacts

ReadStatus ==
  /\ Read("status", "tip")
  /\ fact' = [fact EXCEPT !.dirty = dirty, !.locked = locked]
  /\ UNCHANGED <<sha, decided, stirred>>

\* (mutant) A fast-forward merge leaves HEAD at the tip as well.
ReadTipOnly ==
  /\ Read("tip", "ancestor")
  /\ fact' = [fact EXCEPT !.tip = (sha = landed /\ ~ahead)]
  /\ UNCHANGED <<sha, decided, stirred>>

\* The default branch's tip is the HEAD read first, and the reflog holds
\* nothing but the branch's creation.
ReadTip ==
  /\ Read("tip", "ancestor")
  /\ fact' = [fact EXCEPT !.tip = (sha = landed /\ ~ahead /\ head = 0)]
  /\ UNCHANGED <<sha, decided, stirred>>

ReadAncestor ==
  /\ Read("ancestor", "upstream")
  /\ fact' = [fact EXCEPT !.ancestor = (head <= landed)]
  /\ decided' = head
  /\ UNCHANGED <<sha, stirred>>

\* Only a branch that is not merged otherwise is looked up with gh.
ReadUpstream ==
  /\ Read("upstream", IF fact.ancestor \/ fact.tip THEN "classify" ELSE "pr")
  /\ fact' = [fact EXCEPT !.published = (pushed > 0)]
  /\ UNCHANGED <<sha, decided, stirred>>

\* (mutant) Any merged pull request of the branch will do.
ReadPrByName ==
  /\ Read("pr", "unpushed")
  /\ fact' = [fact EXCEPT !.merged = (prs # {})]
  /\ UNCHANGED <<sha, decided, stirred>>

\* A merged pull request had exactly this head commit.
pr_head_matches(listed) == sha \in listed

\* gh, which may fail.
ReadPr ==
  /\ Read("pr", "unpushed")
  /\ \E ok \in BOOLEAN : fact' = [fact EXCEPT !.merged = (ok /\ pr_head_matches(prs))]
  /\ UNCHANGED <<sha, decided, stirred>>

ReadUnpushed ==
  /\ Read("unpushed", "classify")
  /\ fact' = [fact EXCEPT !.unpushed = (head > pushed /\ head > landed)]
  /\ decided' = head
  /\ UNCHANGED <<sha, stirred>>

\* The state of a worktree on a branch.
State(f) ==
  CASE f.tip -> "fresh"
    [] ~f.tip /\ f.ancestor -> "merged-ancestor"
    [] ~f.tip /\ ~f.ancestor /\ f.merged -> "merged-pr"
    [] OTHER -> IF f.published THEN "open" ELSE "local"

\* (mutant) Commits made after the pull request was merged are not asked for.
RemovableUnasked(f) ==
  State(f) \in {"merged-ancestor", "merged-pr"} /\ ~f.dirty /\ ~f.locked

Removable(f) ==
  /\ State(f) \in {"merged-ancestor", "merged-pr"}
  /\ ~f.dirty /\ ~f.locked
  /\ State(f) = "merged-pr" => ~f.unpushed

Classify ==
  /\ at = "classify"
  /\ removable' = Removable(fact)
  /\ at' = IF removable' THEN "remove" ELSE "kept"
  /\ UNCHANGED <<git, sha, fact, decided, stirred, lost>>

----------------------------------------------------------------------------
(* prune.                                                                  *)

\* git worktree remove, which refuses a worktree that is not clean or locked.
Remove ==
  /\ at = "remove"
  /\ at' = IF dirty \/ locked THEN "kept" ELSE "branch"
  /\ UNCHANGED <<git, sha, fact, removable, decided, stirred, lost>>

\* git branch -D, whose failure is not looked at.
DeleteBranch ==
  /\ at = "branch" /\ at' = "removed"
  /\ lost' = {c \in 1..head : ~Landed(c) /\ c > pushed}
  /\ UNCHANGED <<git, sha, fact, removable, decided, stirred>>

\* The next prune.
Again ==
  /\ at = "kept" /\ at' = "head" /\ removable' = FALSE
  /\ UNCHANGED <<git, sha, fact, decided, stirred, lost>>

User == Edit \/ Commit \/ Push \/ Merge \/ SquashMerge \/ RemoteDeletes \/ OthersLand \/ Lock
Prune == \/ ReadHead \/ ReadStatus \/ ReadTip \/ ReadAncestor \/ ReadUpstream \/ ReadPr
         \/ ReadUnpushed \/ Classify \/ Remove \/ DeleteBranch \/ Again

Next == User \/ Prune
Spec == Init /\ [][Next]_vars

----------------------------------------------------------------------------
\* worktree.rs:3-5: what inspect found at HEAD when it began is on the
\* default branch or in a merged pull request by the time it is removed,
\* whatever was committed, merged and deleted between two of its commands.
OnlyLandedWorkIsRemoved ==
  at \in {"branch", "removed"} => \A c \in 1..sha : Landed(c)

\* The only commits a prune can destroy were made after the last command
\* that could have told it.
OnlyLaterWorkIsLost == \A c \in lost : c > decided

\* Merged work does not linger: with nobody interfering, a worktree whose
\* commits have all landed is found removable, fast-forwards included.
MergedIsFound ==
  (at = "kept" /\ ~stirred /\ head > 0 /\ landed = head) => dirty \/ locked
=============================================================================
