--------------------------- MODULE WorktreeHooks ---------------------------
(***************************************************************************)
(* The WorktreeCreate and WorktreeRemove hooks (commands/hook.rs): Claude  *)
(* Code asks for a worktree of a name, in the repository it runs in, and   *)
(* later for its removal. Several sessions do so at once, each git command *)
(* is a step, and a hook can be killed while git fills the directory.      *)
(***************************************************************************)
EXTENDS Naturals

CONSTANTS
  Repos,       \* the repositories that worktrees of one name are asked for in
  Askers,      \* the sessions that ask for one; one more removes it
  CommitBound, \* bound on the commits of a branch
  None

VARIABLES
  oneRoot,     \* the repositories have one name, and so one root
  dir,         \* by root: the worktree there, or None
  branch,      \* by repository: the commits on worktree-NAME, or None
  asker,       \* by session: where its hook is, and what that knows
  remover,     \* the removal under way
  met, killed, \* history: two hooks were at work on one root; one was killed
  reset        \* history: a branch was moved back by a hook

vars == <<oneRoot, dir, branch, asker, remover, met, killed, reset>>

Roots == Repos \cup {"shared"}
At == {"idle", "branch", "add", "adding", "given", "failed"}

TypeOK ==
  /\ \A r \in Roots : dir[r] = None \/ (dir[r].repo \in Repos /\ dir[r].whole \in BOOLEAN)
  /\ \A r \in Repos : branch[r] \in 0..CommitBound \cup {None}
  /\ \A a \in Askers : asker[a].at \in At /\ asker[a].repo \in Repos
  /\ remover.at \in {"idle", "remove", "branch"}

Init ==
  /\ oneRoot \in BOOLEAN /\ dir = [r \in Roots |-> None]
  /\ branch \in [Repos -> {0, None}]
  /\ asker \in [Askers -> [at : {"idle"}, repo : Repos, has : {FALSE}]]
  /\ remover = [at |-> "idle", root |-> None, repo |-> None]
  /\ met = FALSE /\ killed = FALSE /\ reset = FALSE

\* (mutant) The worktrees of all repositories are kept in one place.
RootForAll(repo) == "shared"
\* worktree_root: named for the last component of the repository's path.
Root(repo) == IF oneRoot THEN "shared" ELSE repo

Working(root) == \/ \E a \in Askers : asker[a].at \in {"branch", "add", "adding"} /\ Root(asker[a].repo) = root
                 \/ remover.at # "idle" /\ remover.root = root
Step(a, at) == asker' = [asker EXCEPT ![a].at = at]

----------------------------------------------------------------------------
(* worktree_create.                                                        *)

\* (mutant) A branch of that name is taken for its worktree.
LookAtBranch(a) ==
  /\ asker[a].at = "idle" /\ met' = (met \/ Working(Root(asker[a].repo)))
  /\ Step(a, IF branch[asker[a].repo] # None THEN "given" ELSE "branch")
  /\ UNCHANGED <<oneRoot, dir, branch, remover, killed, reset>>

\* What is there already is given as it is.
Look(a) ==
  /\ asker[a].at = "idle"
  /\ met' = (met \/ Working(Root(asker[a].repo)))
  /\ Step(a, IF dir[Root(asker[a].repo)] # None THEN "given" ELSE "branch")
  /\ UNCHANGED <<oneRoot, dir, branch, remover, killed, reset>>

\* (mutant) The branch is taken to be new, and made anew.
LookForNoBranch(a) ==
  /\ asker[a].at = "branch" /\ asker' = [asker EXCEPT ![a].at = "add"]
  /\ branch' = [branch EXCEPT ![asker[a].repo] = None]
  /\ reset' = (reset \/ branch[asker[a].repo] \notin {0, None})
  /\ UNCHANGED <<oneRoot, dir, remover, met, killed>>

LookForBranch(a) ==
  /\ asker[a].at = "branch"
  /\ asker' = [asker EXCEPT ![a].at = "add", ![a].has = branch[asker[a].repo] # None]
  /\ UNCHANGED <<oneRoot, dir, branch, remover, met, killed, reset>>

CheckedOut(repo) == \E r \in Roots : dir[r] # None /\ dir[r].repo = repo

GiveUp(a) == Step(a, "failed")

\* `git worktree add`, of the branch or with -b: git refuses a directory that
\* is there, a branch that is checked out, and a new one that exists.
Add(a) ==
  /\ asker[a].at = "add"
  /\ LET repo == asker[a].repo
         root == Root(repo)
     IN  IF dir[root] = None /\ (IF asker[a].has THEN branch[repo] # None /\ ~CheckedOut(repo) ELSE branch[repo] = None)
         THEN /\ dir' = [dir EXCEPT ![root] = [repo |-> repo, whole |-> FALSE]]
              /\ branch' = [branch EXCEPT ![repo] = IF @ = None THEN 0 ELSE @]
              /\ Step(a, "adding")
         ELSE GiveUp(a) /\ UNCHANGED <<dir, branch>>
  /\ UNCHANGED <<oneRoot, remover, met, killed, reset>>

Added(a) ==
  /\ asker[a].at = "adding"
  /\ LET root == Root(asker[a].repo)
     IN  IF dir[root] # None /\ dir[root].repo = asker[a].repo
         THEN Step(a, "given") /\ dir' = [dir EXCEPT ![root].whole = TRUE]
         ELSE GiveUp(a) /\ UNCHANGED dir
  /\ UNCHANGED <<oneRoot, branch, remover, met, killed, reset>>

\* Killed while it is filled: the directory stays, or git takes it away.
Kill(a) ==
  /\ asker[a].at = "adding" /\ Step(a, "failed") /\ killed' = TRUE
  /\ dir' \in {dir, [dir EXCEPT ![Root(asker[a].repo)] = None]}
  /\ UNCHANGED <<oneRoot, branch, remover, met, reset>>

Ask(a) ==
  /\ asker[a].at \in {"given", "failed"}
  /\ \E repo \in Repos : asker' = [asker EXCEPT ![a] = [at |-> "idle", repo |-> repo, has |-> FALSE]]
  /\ UNCHANGED <<oneRoot, dir, branch, remover, met, killed, reset>>

\* The session commits in the worktree it was given.
Commit(a) ==
  /\ asker[a].at = "given"
  /\ LET d == dir[Root(asker[a].repo)]
     IN  /\ d # None /\ branch[d.repo] # None /\ branch[d.repo] < CommitBound
         /\ branch' = [branch EXCEPT ![d.repo] = @ + 1]
  /\ UNCHANGED <<oneRoot, dir, asker, remover, met, killed, reset>>

----------------------------------------------------------------------------
(* worktree_remove: the repository and the branch are read, the worktree   *)
(* is removed by force, and then the branch, unless it is checked out.     *)

LookRemoved ==
  /\ remover.at = "idle"
  /\ \E root \in Roots :
       /\ dir[root] # None
       /\ remover' = [at |-> "remove", root |-> root, repo |-> dir[root].repo]
       /\ met' = (met \/ Working(root))
  /\ UNCHANGED <<oneRoot, dir, branch, asker, killed, reset>>

Remove ==
  /\ remover.at = "remove"
  /\ IF dir[remover.root] # None /\ dir[remover.root].repo = remover.repo
     THEN dir' = [dir EXCEPT ![remover.root] = None] /\ remover' = [remover EXCEPT !.at = "branch"]
     ELSE UNCHANGED dir /\ remover' = [remover EXCEPT !.at = "idle"]
  /\ UNCHANGED <<oneRoot, branch, asker, met, killed, reset>>

DeleteBranch ==
  /\ remover.at = "branch" /\ remover' = [remover EXCEPT !.at = "idle"]
  /\ branch' = [branch EXCEPT ![remover.repo] = IF CheckedOut(remover.repo) THEN @ ELSE None]
  /\ UNCHANGED <<oneRoot, dir, asker, met, killed, reset>>

Next ==
  \/ LookRemoved \/ Remove \/ DeleteBranch
  \/ \E a \in Askers : Look(a) \/ LookForBranch(a) \/ Add(a) \/ Added(a) \/ Kill(a) \/ Ask(a) \/ Commit(a)

----------------------------------------------------------------------------
(* Properties.                                                             *)

\* A session is given a worktree of its repository, unless another repository
\* of the same name keeps its worktrees in the same place.
GivenIsOfTheRepo ==
  \A a \in Askers : asker[a].at = "given" /\ ~oneRoot =>
    dir[Root(asker[a].repo)] = None \/ dir[Root(asker[a].repo)].repo = asker[a].repo

\* It is there and filled, unless two hooks met or one was killed; a removal
\* is asked for later.
GivingIsWhole ==
  \A a \in Askers : asker[a].at # "given" /\ asker'[a].at = "given" /\ ~met' /\ ~killed' =>
    dir'[Root(asker[a].repo)] # None /\ dir'[Root(asker[a].repo)].whole

\* A worktree has its branch, whoever removes one meanwhile, and no hook that
\* makes one moves a branch with commits back.
BranchesAreKept ==
  /\ \A r \in Roots : dir[r] # None => branch[dir[r].repo] # None
  /\ ~reset
=============================================================================
