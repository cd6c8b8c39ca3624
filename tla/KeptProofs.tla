----------------------------- MODULE KeptProofs -----------------------------
(***************************************************************************)
(* Nothing is lost of what is somebody's (FilesAreKept): the directories   *)
(* that `scratch clean` removes, the settings that `claude install`        *)
(* rewrites and the worktrees that hooks make and remove. And what a step  *)
(* tells or gives is so (StepsAreTrue). For any number of directories,     *)
(* repositories, processes at work, calls and seconds; each machine has an *)
(* inductive invariant of its own.                                         *)
(***************************************************************************)
EXTENDS MCQueueMonitor, TLAPS

\* What the proofs about scratch directories and worktrees need of constants.
LEMMA Numbers ==
  /\ MaxNow \in Nat /\ OlderThan \in Nat /\ KeepFor \in Nat /\ CommitBound \in Nat
  /\ None \notin Nat
  /\ 0..MaxNow \subseteq Nat /\ 0..(MaxNow + KeepFor) \subseteq Nat /\ 0..CommitBound \subseteq Nat
<1>1. MaxNow \in Nat /\ OlderThan \in Nat /\ KeepFor \in Nat /\ CommitBound \in Nat
  BY StoryAssumption
<1>2. None \notin Nat
  BY StoryAssumption
<1> QED BY <1>1, <1>2

LEMMA StorySteps ==
  ASSUME [StoryNext]_storyVars
  PROVE  /\ story' = story
         /\ story = "scratch" => S!Next \/ UNCHANGED slots
         /\ story = "install" => I!Next \/ UNCHANGED slots
         /\ story = "worktrees" => H!Next \/ UNCHANGED slots
         /\ story = "metrics" => M!Next \/ UNCHANGED slots
         /\ story = "mcp" => Y!Next \/ UNCHANGED slots
         /\ story = "briefing" => B!Next \/ UNCHANGED slots
BY DEF StoryNext, storyVars, Tells

----------------------------------------------------------------------------
(* Worktrees.                                                              *)

\* A worktree has its branch, and is at the root of its repository.
TreeOf(r, tree) ==
  tree \in [repo : Repos, whole : BOOLEAN] /\ H!Root(tree.repo) = r /\ s3[tree.repo] # None
TreesInv ==
  /\ s1 \in BOOLEAN /\ DOMAIN s2 = H!Roots /\ s3 \in [Repos -> 0..CommitBound \cup {None}]
  /\ s4 \in [Askers -> [at : H!At, repo : Repos, has : BOOLEAN]]
  /\ s5.at \in {"idle", "remove", "branch"}
  /\ s5.at # "idle" => s5.root \in H!Roots /\ s5.repo \in Repos
  /\ \A r \in H!Roots : s2[r] = None \/ TreeOf(r, s2[r])
  /\ ~s8

LEMMA TreesBegin == H!Init => TreesInv
<1> SUFFICES ASSUME H!Init PROVE TreesInv
  OBVIOUS
<1>1. 0 \in 0..CommitBound
  BY Numbers
<1> QED BY <1>1 DEF H!Init, TreesInv, H!Roots, H!At

LEMMA TreesAreKept == TreesInv => H!TypeOK /\ H!GivenIsOfTheRepo /\ H!BranchesAreKept
<1> SUFFICES ASSUME TreesInv PROVE H!TypeOK /\ H!GivenIsOfTheRepo /\ H!BranchesAreKept
  OBVIOUS
<1>1. \A r \in H!Roots : s2[r] = None \/ (s2[r] \in [repo : Repos, whole : BOOLEAN]
                                         /\ H!Root(s2[r].repo) = r /\ s3[s2[r].repo] # None)
  BY DEF TreesInv, TreeOf
<1>2. \A a \in Askers : s4[a].at \in H!At /\ s4[a].repo \in Repos
  BY DEF TreesInv
<1>3. H!TypeOK
  BY <1>1, <1>2 DEF TreesInv, H!TypeOK
<1>4. H!GivenIsOfTheRepo
  BY <1>1, <1>2 DEF H!GivenIsOfTheRepo, H!Root, H!Roots
<1> QED BY <1>1, <1>3, <1>4 DEF TreesInv, H!BranchesAreKept

\* A hook that goes on to another place keeps what it knows of its repository.
LEMMA StepFacts ==
  ASSUME TreesInv, NEW a \in Askers, NEW here \in H!At, H!Step(a, here)
  PROVE  s4' \in [Askers -> [at : H!At, repo : Repos, has : BOOLEAN]]
BY DEF H!Step, TreesInv

\* What a step changes in a worktree is whether it is there, and filled.
LEMMA DirFacts ==
  ASSUME TreesInv, UNCHANGED s1, NEW root \in H!Roots, NEW tree,
         s2' \in {s2, [s2 EXCEPT ![root] = tree]},
         tree = None \/ (s2[root] # None /\ tree = [s2[root] EXCEPT !.whole = TRUE])
           \/ (\E repo \in Repos : tree = [repo |-> repo, whole |-> FALSE] /\ H!Root(repo) = root
                                   /\ s3'[repo] # None),
         \A r \in Repos : s3[r] # None => s3'[r] # None
  PROVE  DOMAIN s2' = H!Roots /\ \A r \in H!Roots : s2'[r] = None \/ TreeOf(r, s2[r])'
<1>1. \A r \in H!Roots : s2[r] = None \/ (s2[r] \in [repo : Repos, whole : BOOLEAN]
                                         /\ H!Root(s2[r].repo) = r /\ s3[s2[r].repo] # None)
  BY DEF TreesInv, TreeOf
<1>2. \A r \in Repos : H!Root(r)' = H!Root(r)
  BY DEF H!Root
<1>3. tree = None \/ (tree \in [repo : Repos, whole : BOOLEAN] /\ H!Root(tree.repo) = root
                       /\ s3'[tree.repo] # None)
  <2>1. CASE s2[root] # None /\ tree = [s2[root] EXCEPT !.whole = TRUE]
    <3>1. tree.repo = s2[root].repo
      BY <2>1
    <3>2. tree \in [repo : Repos, whole : BOOLEAN]
      BY <1>1, <2>1
    <3> QED BY <1>1, <2>1, <3>1, <3>2
  <2>2. ASSUME NEW repo \in Repos, tree = [repo |-> repo, whole |-> FALSE],
               H!Root(repo) = root, s3'[repo] # None
        PROVE  tree \in [repo : Repos, whole : BOOLEAN] /\ H!Root(tree.repo) = root
               /\ s3'[tree.repo] # None
    BY <2>2
  <2> QED BY <2>1, <2>2
<1>4. DOMAIN s2' = H!Roots /\ \A r \in H!Roots : s2'[r] \in {s2[r], tree} /\ (r # root => s2'[r] = s2[r])
  BY DEF TreesInv
<1>5. ASSUME NEW r \in H!Roots, s2'[r] # None PROVE TreeOf(r, s2[r])'
  BY <1>1, <1>2, <1>3, <1>4, <1>5 DEF TreeOf
<1> QED BY <1>4, <1>5

LEMMA TreesStep == TreesInv /\ (H!Next \/ UNCHANGED slots) => TreesInv'
<1> SUFFICES ASSUME TreesInv, H!Next \/ UNCHANGED slots PROVE TreesInv'
  OBVIOUS
\* Steps that leave the directories and the branches alone.
<1>a. ASSUME UNCHANGED <<s1, s2, s3, s8>>,
             s4' \in [Askers -> [at : H!At, repo : Repos, has : BOOLEAN]],
             s5'.at \in {"idle", "remove", "branch"},
             s5'.at # "idle" => s5'.root \in H!Roots /\ s5'.repo \in Repos
      PROVE  TreesInv'
  BY <1>a DEF TreesInv, TreeOf, H!Root
\* Steps of a removal and of a hook, that may change both.
<1>b. ASSUME UNCHANGED <<s1, s8>>, s3' \in [Repos -> 0..CommitBound \cup {None}],
             s4' \in [Askers -> [at : H!At, repo : Repos, has : BOOLEAN]], UNCHANGED s5,
             DOMAIN s2' = H!Roots /\ \A r \in H!Roots : s2'[r] = None \/ TreeOf(r, s2[r])'
      PROVE  TreesInv'
  BY <1>b DEF TreesInv
<1>0. CASE UNCHANGED slots
  BY <1>0, <1>a DEF slots, TreesInv
<1>1. CASE H!LookRemoved
  <2>1. PICK root \in H!Roots :
          s2[root] # None /\ s5' = [at |-> "remove", root |-> root, repo |-> s2[root].repo]
    BY <1>1 DEF H!LookRemoved
  <2>2. s2[root].repo \in Repos
    BY <2>1 DEF TreesInv, TreeOf
  <2>3. UNCHANGED <<s1, s2, s3, s4, s8>>
    BY <1>1 DEF H!LookRemoved
  <2> QED BY <1>a, <2>1, <2>2, <2>3 DEF TreesInv
<1>2. CASE H!Remove
  <2>1. /\ s5.at = "remove" /\ s5.root \in H!Roots /\ UNCHANGED <<s1, s3, s4, s8>>
        /\ s2' \in {s2, [s2 EXCEPT ![s5.root] = None]}
        /\ \E there \in {"idle", "branch"} : s5' = [s5 EXCEPT !.at = there]
    BY <1>2 DEF H!Remove, TreesInv
  <2>2. s5'.at \in {"idle", "branch"} /\ s5'.root = s5.root /\ s5'.repo = s5.repo
    BY <2>1 DEF TreesInv
  <2>3. DOMAIN s2' = H!Roots /\ \A r \in H!Roots : s2'[r] = None \/ TreeOf(r, s2[r])'
    BY <2>1, DirFacts
  <2> QED BY <2>1, <2>2, <2>3 DEF TreesInv
\* A branch that is checked out stays.
<1>3. CASE H!DeleteBranch
  <2>1. /\ s5.at = "branch" /\ s5' = [s5 EXCEPT !.at = "idle"] /\ UNCHANGED <<s1, s2, s4, s8>>
        /\ s3' = [s3 EXCEPT ![s5.repo] = IF H!CheckedOut(s5.repo) THEN @ ELSE None]
    BY <1>3 DEF H!DeleteBranch
  <2>2. s5'.at = "idle"
    BY <2>1 DEF TreesInv
  <2>3. s3' \in [Repos -> 0..CommitBound \cup {None}]
        /\ \A r \in Repos : H!CheckedOut(r) => s3'[r] = s3[r]
    BY <2>1 DEF TreesInv
  <2>4. \A r \in H!Roots : s2'[r] = None \/ TreeOf(r, s2[r])'
    BY <2>1, <2>3 DEF TreesInv, TreeOf, H!CheckedOut, H!Root
  <2> QED BY <2>1, <2>2, <2>3, <2>4 DEF TreesInv
<1>4. ASSUME NEW a \in Askers, H!Look(a) PROVE TreesInv'
  <2>1. PICK here \in {"given", "branch"} :
          H!Step(a, here) /\ UNCHANGED <<s1, s2, s3, s5, s7, s8>>
    BY <1>4 DEF H!Look
  <2>2. here \in H!At
    BY DEF H!At
  <2>3. s4' \in [Askers -> [at : H!At, repo : Repos, has : BOOLEAN]]
    BY <2>1, <2>2, StepFacts
  <2> QED BY <1>a, <2>1, <2>3 DEF TreesInv
<1>5. ASSUME NEW a \in Askers, H!LookForBranch(a) PROVE TreesInv'
  <2>1. s4' \in [Askers -> [at : H!At, repo : Repos, has : BOOLEAN]]
    <3>1. (s3[s4[a].repo] # None) \in BOOLEAN /\ "add" \in H!At
      BY DEF H!At
    <3> QED BY <1>5, <3>1 DEF H!LookForBranch, TreesInv
  <2> QED BY <1>a, <1>5, <2>1 DEF H!LookForBranch, TreesInv
<1>6. ASSUME NEW a \in Askers, H!Add(a) PROVE TreesInv'
  <2> DEFINE repo == s4[a].repo
             root == H!Root(repo)
  <2>1. repo \in Repos /\ root \in H!Roots /\ H!At = H!At \cup {"adding", "failed"}
    BY DEF TreesInv, H!Root, H!Roots, H!At
  <2>2. /\ UNCHANGED <<s1, s5, s8>>
        /\ \/ /\ s2[root] = None /\ s2' = [s2 EXCEPT ![root] = [repo |-> repo, whole |-> FALSE]]
              /\ s3' = [s3 EXCEPT ![repo] = IF @ = None THEN 0 ELSE @] /\ H!Step(a, "adding")
           \/ H!Step(a, "failed") /\ UNCHANGED <<s2, s3>>
    BY <1>6 DEF H!Add, H!GiveUp
  <2>3. s4' \in [Askers -> [at : H!At, repo : Repos, has : BOOLEAN]]
    BY <2>1, <2>2, StepFacts
  <2> HIDE DEF repo, root
  <2>4. s3' \in [Repos -> 0..CommitBound \cup {None}]
        /\ \A r \in Repos : s3[r] # None => s3'[r] # None
    BY <2>1, <2>2, Numbers DEF TreesInv
  <2>5. CASE UNCHANGED <<s2, s3>>
    BY <1>a, <2>2, <2>3, <2>5 DEF TreesInv
  <2>6. CASE s2' = [s2 EXCEPT ![root] = [repo |-> repo, whole |-> FALSE]]
             /\ s3' = [s3 EXCEPT ![repo] = IF @ = None THEN 0 ELSE @]
    <3>1. s3'[repo] # None
      BY <2>1, <2>6, Numbers DEF TreesInv
    <3>2. H!Root(repo) = root
      BY DEF root
    <3>3. DOMAIN s2' = H!Roots /\ \A r \in H!Roots : s2'[r] = None \/ TreeOf(r, s2[r])'
      <4> DEFINE tree == [repo |-> repo, whole |-> FALSE]
      <4>1. s2' \in {s2, [s2 EXCEPT ![root] = tree]}
            /\ \E r \in Repos : tree = [repo |-> r, whole |-> FALSE] /\ H!Root(r) = root
                               /\ s3'[r] # None
        BY <2>1, <2>6, <3>1, <3>2
      <4> HIDE DEF tree
      <4> QED BY <2>1, <2>2, <2>4, <4>1, DirFacts
    <3> QED BY <1>b, <2>2, <2>3, <2>4, <3>3
  <2> QED BY <2>2, <2>5, <2>6
<1>7. ASSUME NEW a \in Askers, H!Added(a) PROVE TreesInv'
  <2> DEFINE root == H!Root(s4[a].repo)
  <2>1. root \in H!Roots /\ "given" \in H!At /\ "failed" \in H!At
    BY DEF TreesInv, H!Root, H!Roots, H!At
  <2>2. /\ UNCHANGED <<s1, s3, s5, s8>>
        /\ \/ /\ s2[root] # None /\ s2' = [s2 EXCEPT ![root].whole = TRUE] /\ H!Step(a, "given")
           \/ H!Step(a, "failed") /\ UNCHANGED s2
    BY <1>7 DEF H!Added, H!GiveUp
  <2>3. s4' \in [Askers -> [at : H!At, repo : Repos, has : BOOLEAN]]
    BY <2>1, <2>2, StepFacts
  <2> HIDE DEF root
  <2>4. s2' = s2 \/ (s2[root] # None /\ s2' = [s2 EXCEPT ![root] = [s2[root] EXCEPT !.whole = TRUE]])
    BY <2>2
  <2>5. DOMAIN s2' = H!Roots /\ \A r \in H!Roots : s2'[r] = None \/ TreeOf(r, s2[r])'
    <3>1. CASE s2' = s2
      BY <2>1, <2>2, <3>1, DirFacts
    <3>2. CASE s2[root] # None /\ s2' = [s2 EXCEPT ![root] = [s2[root] EXCEPT !.whole = TRUE]]
      <4> DEFINE tree == [s2[root] EXCEPT !.whole = TRUE]
      <4>1. s2' \in {s2, [s2 EXCEPT ![root] = tree]} /\ tree = [s2[root] EXCEPT !.whole = TRUE]
        BY <3>2 DEF tree
      <4>2. \A r \in Repos : s3[r] # None => s3'[r] # None
        BY <2>2
      <4> HIDE DEF tree
      <4>3. UNCHANGED s1 /\ s2[root] # None
        BY <2>2, <3>2
      <4>4. tree = None \/ (s2[root] # None /\ tree = [s2[root] EXCEPT !.whole = TRUE])
              \/ (\E repo \in Repos : tree = [repo |-> repo, whole |-> FALSE] /\ H!Root(repo) = root
                                      /\ s3'[repo] # None)
        BY <4>1, <4>3
      <4>5. s2' \in {s2, [s2 EXCEPT ![root] = tree]}
        BY <4>1
      <4> QED BY <2>1, <4>2, <4>3, <4>4, <4>5, DirFacts
    <3> QED BY <2>4, <3>1, <3>2
  <2> QED BY <1>b, <2>2, <2>3, <2>5 DEF TreesInv
<1>8. ASSUME NEW a \in Askers, H!Kill(a) PROVE TreesInv'
  <2> DEFINE root == H!Root(s4[a].repo)
  <2>1. root \in H!Roots /\ "failed" \in H!At
    BY DEF TreesInv, H!Root, H!Roots, H!At
  <2>2. /\ UNCHANGED <<s1, s3, s5, s8>> /\ H!Step(a, "failed")
        /\ s2' \in {s2, [s2 EXCEPT ![root] = None]}
    BY <1>8 DEF H!Kill
  <2>3. s4' \in [Askers -> [at : H!At, repo : Repos, has : BOOLEAN]]
    BY <2>1, <2>2, StepFacts
  <2> HIDE DEF root
  <2>4. DOMAIN s2' = H!Roots /\ \A r \in H!Roots : s2'[r] = None \/ TreeOf(r, s2[r])'
    BY <2>1, <2>2, DirFacts
  <2> QED BY <1>b, <2>2, <2>3, <2>4 DEF TreesInv
<1>9. ASSUME NEW a \in Askers, H!Ask(a) PROVE TreesInv'
  <2>1. s4' \in [Askers -> [at : H!At, repo : Repos, has : BOOLEAN]]
    BY <1>9 DEF H!Ask, TreesInv, H!At
  <2> QED BY <1>a, <1>9, <2>1 DEF H!Ask, TreesInv
<1>10. ASSUME NEW a \in Askers, H!Commit(a) PROVE TreesInv'
  <2> DEFINE d == s2[H!Root(s4[a].repo)]
  <2>1. /\ d # None /\ s3[d.repo] # None /\ s3[d.repo] < CommitBound
        /\ s3' = [s3 EXCEPT ![d.repo] = @ + 1] /\ UNCHANGED <<s1, s2, s4, s5, s8>>
    BY <1>10 DEF H!Commit
  <2>2. d.repo \in Repos
    BY <2>1 DEF TreesInv, TreeOf, H!Root, H!Roots
  <2> HIDE DEF d
  <2>3. s3' \in [Repos -> 0..CommitBound \cup {None}]
        /\ \A r \in Repos : s3[r] # None => s3'[r] # None
    <3>1. s3[d.repo] \in 0..CommitBound
      BY <2>1, <2>2 DEF TreesInv
    <3>2. s3[d.repo] + 1 \in 0..CommitBound /\ s3[d.repo] + 1 # None
      BY <2>1, <3>1, Numbers
    <3> QED BY <2>1, <2>2, <3>2 DEF TreesInv
  <2>4. \A r \in H!Roots : s2'[r] = None \/ TreeOf(r, s2[r])'
    BY <2>1, <2>3 DEF TreesInv, TreeOf, H!Root
  <2> QED BY <1>b, <2>1, <2>3, <2>4 DEF TreesInv
<1> QED
  BY <1>0, <1>1, <1>2, <1>3, <1>4, <1>5, <1>6, <1>7, <1>8, <1>9, <1>10 DEF H!Next

----------------------------------------------------------------------------
(* Scratch directories.                                                    *)

\* A maker at work has a manifest to write. Nobody makes what was made by
\* hand. What a clean found is as it found it unless somebody else changed it,
\* and a manifest does not get younger.
ScratchInv ==
  /\ S!TypeOK /\ S!OnlyExpiredIsCleaned /\ S!NewIsManaged
  /\ \A m \in Makers : s3[m].at # "idle" => s3[m].mine \in S!Manifests
  /\ s5 => S!Exists /\ ~S!Manifested /\ \A m \in Makers : ~S!Making(m)
  /\ \A c \in Cleaners : s4[c] = "clean" /\ c \notin s6 =>
       S!Manifested /\ ~s5 /\ S!Expired(s2.manifest, s1)

LEMMA ScratchBegins == S!Init => ScratchInv
<1> SUFFICES ASSUME S!Init PROVE ScratchInv
  OBVIOUS
<1>1. 0 \in 0..MaxNow
  BY Numbers
<1>2. S!TypeOK
  BY <1>1 DEF S!Init, S!TypeOK
<1> QED
  BY <1>2 DEF S!Init, ScratchInv, S!OnlyExpiredIsCleaned, S!NewIsManaged, S!Exists

\* What `scratch new` writes and what it finds are no words for nothing.
LEMMA NoneIsNoFile ==
  /\ None \notin S!Manifests /\ None \notin S!Dirs /\ S!EmptyDir \in S!Dirs /\ S!EmptyDir.manifest = None
  /\ S!EmptyDir.tmp = None /\ \A m \in S!Manifests : m.created \in Nat /\ m.keepUntil \in Nat
<1>1. 0..MaxNow \subseteq Nat /\ 0..(MaxNow + KeepFor) \subseteq Nat
  BY Numbers
<1>2. S!Manifests \subseteq [created : Nat, keepUntil : Nat]
  BY <1>1 DEF S!Manifests
<1>3. None \notin S!Manifests /\ None \notin S!Dirs
  <2> DEFINE M1 == [created : Nat, keepUntil : Nat]
             D1 == [manifest : M1 \cup {None}, tmp : M1 \cup {None}]
  <2>1. None \notin M1 /\ None \notin D1
    BY StoryAssumption
  <2>2. S!Manifests \subseteq M1
    BY <1>2
  <2> HIDE DEF M1
  <2>3. S!Dirs \subseteq D1
    BY <2>2 DEF S!Dirs
  <2> QED BY <2>1, <2>2, <2>3
<1> QED BY <1>1, <1>3 DEF S!Manifests, S!Dirs, S!EmptyDir

\* A process that makes a directory goes on, or ends.
LEMMA MakerFacts ==
  ASSUME ScratchInv, NEW m \in Makers, NEW here, S!At(m, here), here \in {"look", "mkdir", "write", "rename"},
         (\E there \in {"mkdir", "write", "rename"} : S!Go(m, there)) \/ S!Ends(m)
  PROVE  /\ s3' \in [Makers -> [at : {"idle", "look", "mkdir", "write", "rename"},
                                mine : S!Manifests \cup {None}]]
         /\ \A i \in Makers : s3'[i].at # "idle" => s3'[i].mine \in S!Manifests
         /\ \A i \in Makers \ {m} : s3'[i] = s3[i]
         /\ s3'[m].at \in {"idle", "mkdir", "write", "rename"}
         /\ S!Ends(m) => s3'[m].at = "idle"
         /\ \A there \in {"mkdir", "write", "rename"} : S!Go(m, there) => s3'[m].at = there
BY DEF ScratchInv, S!TypeOK, S!At, S!Go, S!Ends

\* Nothing that a clean or the user's hand relies on is touched by a maker
\* that leaves the directory, or what is found in it, alone.
LEMMA MakerKeeps ==
  ASSUME ScratchInv, NEW m \in Makers, NEW here, S!At(m, here), here \in {"look", "mkdir", "write", "rename"},
         (\E there \in {"mkdir", "write", "rename"} : S!Go(m, there)) \/ S!Ends(m),
         UNCHANGED <<s1, s4, s5, s7>>, s6 \subseteq s6', s6' \subseteq Cleaners, s8' \in BOOLEAN,
         s2' \in S!Dirs \cup {None},
         s6' # Cleaners => s2' = s2 \/ (s2 # None /\ s2' # None /\ s2'.manifest = s2.manifest),
         s5 => S!Exists' /\ ~S!Manifested' /\ here = "look" /\ S!Ends(m),
         S!NewIsManaged'
  PROVE  ScratchInv'
<1>1. S!TypeOK'
  BY MakerFacts DEF ScratchInv, S!TypeOK
<1>2. \A i \in Makers : s3'[i].at # "idle" => s3'[i].mine \in S!Manifests
  BY MakerFacts
<1>3. S!OnlyExpiredIsCleaned'
  BY DEF ScratchInv, S!OnlyExpiredIsCleaned, S!Expired
<1>4. s5' => S!Exists' /\ ~S!Manifested' /\ \A i \in Makers : ~S!Making(i)'
  BY MakerFacts DEF ScratchInv, S!Making
<1>5. ASSUME NEW c \in Cleaners, s4'[c] = "clean", c \notin s6'
      PROVE  S!Manifested' /\ ~s5' /\ S!Expired(s2.manifest, s1)'
  BY <1>5 DEF ScratchInv, S!Manifested, S!Exists, S!Expired
<1> QED BY <1>1, <1>2, <1>3, <1>4, <1>5 DEF ScratchInv

LEMMA NewStep == ASSUME ScratchInv, NEW m \in Makers, S!New(m) PROVE ScratchInv'
<1> USE DEF S!Exists, S!Manifested
<1>1. CASE S!Ask(m)
  <2>1. PICK until \in {0, s1 + KeepFor} :
          s3' = [s3 EXCEPT ![m] = [at |-> "look", mine |-> [created |-> s1, keepUntil |-> until]]]
    BY <1>1 DEF S!Ask
  <2>2. [created |-> s1, keepUntil |-> until] \in S!Manifests
    <3>1. s1 \in 0..MaxNow /\ until \in 0..(MaxNow + KeepFor)
      BY Numbers DEF ScratchInv, S!TypeOK
    <3> QED BY <3>1 DEF S!Manifests
  <2>3. s3[m].at = "idle" /\ UNCHANGED <<s1, s2, s4, s5, s6, s7, s8>>
    BY <1>1 DEF S!Ask, S!At
  <2>4. /\ s3' \in [Makers -> [at : {"idle", "look", "mkdir", "write", "rename"},
                               mine : S!Manifests \cup {None}]]
        /\ \A i \in Makers : s3'[i].at # "idle" => s3'[i].mine \in S!Manifests
        /\ \A i \in Makers : s3'[i].at \in {"mkdir", "write", "rename"} <=> S!Making(i)
    BY <2>1, <2>2, <2>3 DEF ScratchInv, S!TypeOK, S!Making
  <2> QED
    BY <2>3, <2>4 DEF ScratchInv, S!TypeOK, S!OnlyExpiredIsCleaned, S!NewIsManaged, S!Making, S!Expired
<1>2. CASE S!Look(m)
  <2>1. /\ S!At(m, "look") /\ IF S!Exists THEN S!Ends(m) ELSE S!Go(m, "mkdir")
        /\ UNCHANGED <<s1, s2, s4, s5, s6, s7, s8>>
    BY <1>2 DEF S!Look
  <2>2. S!NewIsManaged'
    BY <2>1, MakerFacts DEF ScratchInv, S!NewIsManaged, S!Making, S!At
  <2> QED BY <2>1, <2>2, MakerKeeps DEF ScratchInv, S!TypeOK
<1>3. CASE S!Mkdir(m)
  <2>1. /\ S!At(m, "mkdir") /\ S!Go(m, "write") /\ UNCHANGED <<s1, s4, s5, s7, s8>>
        /\ IF S!Exists THEN UNCHANGED <<s2, s6>> ELSE s2' = S!EmptyDir /\ s6' = Cleaners
    BY <1>3 DEF S!Mkdir
  <2>2. ~s5
    BY <2>1 DEF ScratchInv, S!Making, S!At
  <2>3. S!NewIsManaged'
    BY <2>1, MakerFacts DEF S!NewIsManaged, S!Making
  <2> QED BY <2>1, <2>2, <2>3, MakerKeeps, NoneIsNoFile DEF ScratchInv, S!TypeOK
<1>4. CASE S!WriteTmp(m)
  <2>1. S!At(m, "write") /\ UNCHANGED <<s1, s4, s5, s6, s7>>
    BY <1>4 DEF S!WriteTmp
  <2>2. ~s5
    BY <2>1 DEF ScratchInv, S!Making, S!At
  <2>3. CASE S!Exists /\ S!Go(m, "rename") /\ UNCHANGED s8 /\ s2' = [s2 EXCEPT !.tmp = s3[m].mine]
    <3>1. s3[m].mine \in S!Manifests
      BY <2>1 DEF ScratchInv, S!At
    <3>2. s2' \in S!Dirs /\ s2'.manifest = s2.manifest
      BY <2>3, <3>1 DEF ScratchInv, S!TypeOK, S!Dirs
    <3>3. S!NewIsManaged'
      BY <2>1, <2>3, MakerFacts DEF S!NewIsManaged, S!Making
    <3> QED BY <2>1, <2>2, <2>3, <3>2, <3>3, MakerKeeps, NoneIsNoFile DEF ScratchInv, S!TypeOK
  <2>4. CASE S!Fails(m) /\ s2' = IF S!Exists THEN [s2 EXCEPT !.tmp = None] ELSE None
    <3>1. S!Exists => s2' \in S!Dirs /\ s2'.manifest = s2.manifest
      BY <2>4 DEF ScratchInv, S!TypeOK, S!Dirs
    <3>2. S!NewIsManaged'
      BY <2>4 DEF S!NewIsManaged, S!Fails
    <3> QED BY <2>1, <2>2, <2>4, <3>1, <3>2, MakerKeeps, NoneIsNoFile DEF ScratchInv, S!TypeOK, S!Fails
  <2> QED BY <1>4, <2>3, <2>4 DEF S!WriteTmp
<1>5. CASE S!RenameTmp(m)
  <2>1. S!At(m, "rename") /\ UNCHANGED <<s1, s4, s5, s7>>
    BY <1>5 DEF S!RenameTmp
  <2>2. ~s5
    BY <2>1 DEF ScratchInv, S!Making, S!At
  <2>3. CASE /\ S!Exists /\ s2.tmp # None /\ s2' = [manifest |-> s2.tmp, tmp |-> None]
             /\ s6' = Cleaners /\ S!Ends(m) /\ UNCHANGED s8
    <3>1. s2' \in S!Dirs /\ s2'.manifest # None
      BY <2>3 DEF ScratchInv, S!TypeOK, S!Dirs
    <3>2. S!NewIsManaged'
      BY <3>1 DEF S!NewIsManaged
    <3> QED BY <2>1, <2>2, <2>3, <3>1, <3>2, MakerKeeps DEF ScratchInv, S!TypeOK
  <2>4. CASE S!Fails(m) /\ UNCHANGED <<s2, s6>>
    <3>1. S!NewIsManaged'
      BY <2>4 DEF S!NewIsManaged, S!Fails
    <3> QED BY <2>1, <2>2, <2>4, <3>1, MakerKeeps DEF ScratchInv, S!TypeOK, S!Fails
  <2> QED BY <1>5, <2>3, <2>4 DEF S!RenameTmp
<1>6. CASE S!Kill(m)
  <2>1. /\ s3[m].at \in {"mkdir", "write", "rename"} /\ S!Ends(m) /\ s8'
        /\ UNCHANGED <<s1, s2, s4, s5, s6, s7>>
    BY <1>6 DEF S!Kill, S!Making, S!Fails
  <2>2. S!At(m, s3[m].at) /\ ~s5 /\ s8' = TRUE
    BY <1>6 DEF ScratchInv, S!Kill, S!Making, S!At, S!Fails
  <2>3. S!NewIsManaged'
    BY <2>1 DEF S!NewIsManaged
  <2> QED BY <2>1, <2>2, <2>3, MakerKeeps DEF ScratchInv, S!TypeOK
<1> QED BY <1>1, <1>2, <1>3, <1>4, <1>5, <1>6 DEF S!New

LEMMA CleanStep == ASSUME ScratchInv, NEW c \in Cleaners, S!Clean(c) PROVE ScratchInv'
<1> USE DEF S!Exists, S!Manifested
<1>1. CASE S!Read(c)
  <2>1. /\ s4[c] = "idle" /\ S!Manifested /\ S!Expired(s2.manifest, s1) /\ s7' = None
        /\ s4' = [s4 EXCEPT ![c] = "clean"] /\ s6' = s6 \ {c} /\ UNCHANGED <<s1, s2, s3, s5, s8>>
    BY <1>1 DEF S!Read, S!Goes
  <2>2. ~s5
    BY <2>1 DEF ScratchInv
  <2>3. S!TypeOK' /\ S!OnlyExpiredIsCleaned'
    BY <2>1 DEF ScratchInv, S!TypeOK, S!OnlyExpiredIsCleaned
  <2>4. \A d \in Cleaners : s4'[d] = "clean" /\ d \notin s6' => S!Manifested /\ S!Expired(s2.manifest, s1)
    BY <2>1 DEF ScratchInv, S!TypeOK
  <2> QED BY <2>1, <2>2, <2>3, <2>4 DEF ScratchInv, S!NewIsManaged, S!Making, S!Expired
<1>2. CASE S!EmptyOut(c)
  <2>1. s4[c] = "clean" /\ UNCHANGED <<s1, s3, s5>>
    BY <1>2 DEF S!EmptyOut
  <2>2. CASE /\ S!Exists /\ s4' = [s4 EXCEPT ![c] = "rmdir"] /\ s2' = S!EmptyDir /\ UNCHANGED s8
             /\ s6' = s6 \cup (Cleaners \ {c})
             /\ s7' = [manifest |-> s2.manifest, when |-> s1, byHand |-> s5, renewed |-> c \in s6]
    <3>1. S!TypeOK'
      BY <2>1, <2>2, NoneIsNoFile DEF ScratchInv, S!TypeOK
    <3>2. c \notin s6 => S!Manifested /\ ~s5 /\ S!Expired(s2.manifest, s1)
      BY <2>1 DEF ScratchInv
    <3>3. /\ s7'.manifest = s2.manifest /\ s7'.when = s1 /\ s7'.byHand = s5
          /\ s7'.renewed <=> c \in s6
      BY <2>2
    <3>4. S!OnlyExpiredIsCleaned'
      BY <3>2, <3>3 DEF S!OnlyExpiredIsCleaned, S!Expired
    <3>5. s4'[c] = "rmdir" /\ \A d \in Cleaners : d \notin s6' => d = c
      BY <2>2 DEF ScratchInv, S!TypeOK
    <3> QED BY <2>1, <2>2, <3>1, <3>4, <3>5, NoneIsNoFile DEF ScratchInv, S!NewIsManaged, S!Making
  <2>3. CASE s4' = [s4 EXCEPT ![c] = "idle"] /\ s8' = TRUE /\ UNCHANGED <<s2, s6, s7>>
    <3>1. S!TypeOK' /\ \A d \in Cleaners : s4'[d] = "clean" => s4[d] = "clean"
      BY <2>1, <2>3 DEF ScratchInv, S!TypeOK
    <3> QED
      BY <2>1, <2>3, <3>1 DEF ScratchInv, S!OnlyExpiredIsCleaned, S!NewIsManaged, S!Making, S!Expired
  <2> QED BY <1>2, <2>2, <2>3 DEF S!EmptyOut, S!Goes
<1>3. CASE S!RemoveDir(c)
  <2>1. s4[c] = "rmdir" /\ s4' = [s4 EXCEPT ![c] = "idle"] /\ UNCHANGED <<s1, s3, s7>>
    BY <1>3 DEF S!RemoveDir, S!Goes
  <2>2. \A d \in Cleaners : s4'[d] = "clean" => s4[d] = "clean"
    BY <2>1 DEF ScratchInv, S!TypeOK
  <2>3. CASE s2' = None /\ s5' = FALSE /\ s6' = Cleaners /\ UNCHANGED s8
    <3>1. S!TypeOK'
      BY <2>1, <2>3 DEF ScratchInv, S!TypeOK
    <3> QED BY <2>1, <2>3, <3>1 DEF ScratchInv, S!OnlyExpiredIsCleaned, S!NewIsManaged, S!Expired
  <2>4. CASE s8' = TRUE /\ UNCHANGED <<s2, s5, s6>>
    <3>1. S!TypeOK'
      BY <2>1, <2>4 DEF ScratchInv, S!TypeOK
    <3> QED BY <2>1, <2>2, <2>4, <3>1
            DEF ScratchInv, S!OnlyExpiredIsCleaned, S!NewIsManaged, S!Making, S!Expired
  <2> QED BY <1>3, <2>3, <2>4 DEF S!RemoveDir
<1> QED BY <1>1, <1>2, <1>3 DEF S!Clean

LEMMA ScratchStep == ScratchInv /\ (S!Next \/ UNCHANGED slots) => ScratchInv'
<1> SUFFICES ASSUME ScratchInv, S!Next \/ UNCHANGED slots PROVE ScratchInv'
  OBVIOUS
<1> USE DEF S!Exists, S!Manifested
<1>0. CASE UNCHANGED slots
  BY <1>0 DEF slots, ScratchInv, S!TypeOK, S!OnlyExpiredIsCleaned, S!NewIsManaged, S!Making, S!Expired
<1>1. ASSUME NEW m \in Makers, S!New(m) PROVE ScratchInv'
  BY <1>1, NewStep
<1>2. ASSUME NEW c \in Cleaners, S!Clean(c) PROVE ScratchInv'
  BY <1>2, CleanStep
\* What is old enough stays so.
<1>3. CASE S!Tick
  <2>1. s1 \in Nat /\ s1' \in 0..MaxNow /\ s1' = s1 + 1 /\ UNCHANGED <<s2, s3, s4, s5, s6, s7, s8>>
    BY <1>3, Numbers DEF S!Tick, ScratchInv, S!TypeOK
  <2>2. S!TypeOK'
    BY <2>1 DEF ScratchInv, S!TypeOK
  <2>3. ASSUME NEW c \in Cleaners, s4[c] = "clean", c \notin s6 PROVE S!Expired(s2.manifest, s1)'
    <3>1. S!Expired(s2.manifest, s1) /\ S!Manifested
      BY <2>3 DEF ScratchInv
    <3>2. s2.manifest.created \in Nat /\ s2.manifest.keepUntil \in Nat
      BY <3>1, NoneIsNoFile DEF ScratchInv, S!TypeOK, S!Dirs
    <3> QED BY <2>1, <3>1, <3>2, Numbers DEF S!Expired
  <2> QED BY <2>1, <2>2, <2>3 DEF ScratchInv, S!OnlyExpiredIsCleaned, S!NewIsManaged, S!Making, S!Expired
<1>4. CASE S!MakeByHand
  <2>1. /\ s2' = S!EmptyDir /\ s6' = Cleaners /\ s5' = (\A m \in Makers : ~S!Making(m))
        /\ UNCHANGED <<s1, s3, s4, s7, s8>>
    BY <1>4 DEF S!MakeByHand
  <2>2. s5' <=> \A m \in Makers : ~S!Making(m)
    BY <2>1
  <2>3. s5' \in BOOLEAN
    BY <2>1
  <2>4. S!TypeOK'
    BY <2>1, <2>3, NoneIsNoFile DEF ScratchInv, S!TypeOK
  <2> QED
    BY <2>1, <2>2, <2>4, NoneIsNoFile
       DEF ScratchInv, S!OnlyExpiredIsCleaned, S!NewIsManaged, S!Making, S!Expired
<1>5. CASE S!RemoveByHand
  <2>1. s2' = None /\ s5' = FALSE /\ s6' = Cleaners /\ UNCHANGED <<s1, s3, s4, s7, s8>>
    BY <1>5 DEF S!RemoveByHand
  <2>2. S!TypeOK'
    BY <2>1 DEF ScratchInv, S!TypeOK
  <2> QED BY <2>1, <2>2 DEF ScratchInv, S!OnlyExpiredIsCleaned, S!NewIsManaged, S!Expired
<1> QED BY <1>0, <1>1, <1>2, <1>3, <1>4, <1>5 DEF S!Next

----------------------------------------------------------------------------
(* The settings.                                                           *)

\* A document says what was edited into it, whatever else it says.
IsDoc(d) == "edits" \in DOMAIN d /\ d.edits \subseteq Edits

\* What was edited into a file and is in a backup of it.
BackedUp(f) == UNION {s4[n].edits : n \in {m \in DOMAIN s4 : m[1] = f}}

\* Before an install replaces a file it has a copy of all that is in it, but
\* for what was edited since, or in a copy that another one replaced.
InstallInv ==
  /\ I!TypeOK /\ I!NothingIsLost
  /\ DOMAIN s2 = I!Files /\ DOMAIN s7 = Installs /\ DOMAIN s8 = Installs /\ DOMAIN s9 = I!Files
  /\ DOMAIN s6 = Installs
  /\ \A f \in I!Files : IsDoc(s2[f])
  /\ \A i \in Installs : IsDoc(s8[i])
  /\ \A n \in DOMAIN s4 : s4[n].edits \subseteq Edits
  /\ \A i \in Installs, f \in I!Files :
       s6[i] = I!Replace(f) => s9[f] \subseteq s10 \cup BackedUp(f)

LEMMA InstallBegins == I!Init => InstallInv
<1> SUFFICES ASSUME I!Init PROVE InstallInv
  OBVIOUS
<1>1. DOMAIN s4 = {} /\ s5 \subseteq {"old", "new"} /\ 0 \in 0..MaxSeconds
  BY StoryAssumption DEF I!Init
<1>2. I!TypeOK
  BY <1>1 DEF I!Init, I!TypeOK, I!Files, I!Programs
<1>3. \A f \in I!Files : IsDoc(s2[f]) /\ DOMAIN s2 = I!Files
  BY DEF I!Init, I!Files, I!Broken, IsDoc
<1> QED
  BY <1>1, <1>2, <1>3 DEF I!Init, InstallInv, I!NothingIsLost, IsDoc, I!Broken, I!Replace, I!Files

\* A merge leaves what was edited.
LEMMA MergeKeeps ==
  ASSUME NEW f \in I!Files, NEW d, IsDoc(d), NEW program
  PROVE  IsDoc(I!Merged(f, d, program))
<1>1. ASSUME NEW x, NEW y PROVE IsDoc([d EXCEPT !.hooks = x, !.line = y])
  BY <1>1 DEF IsDoc
<1>2. ASSUME NEW x PROVE IsDoc([d EXCEPT !.server = x])
  BY <1>2 DEF IsDoc
<1>3. \E x, y : I!MergedSettings(d, program) = [d EXCEPT !.hooks = x, !.line = y]
  <2> DEFINE x == [h \in Hooks |-> I!Added(I!Migrated(d.hooks[h], program), h, program)]
             y == IF d.line = None THEN I!Command("statusline", "grouped", program)
                  ELSE I!Renamed(d.line, program)
  <2>1. I!MergedSettings(d, program) = [d EXCEPT !.hooks = x, !.line = y]
    BY DEF I!MergedSettings
  <2> HIDE DEF x, y
  <2> QED BY <2>1
<1>4. \E x : I!MergedMcp(d, program) = [d EXCEPT !.server = x]
  BY DEF I!MergedMcp
<1>5. IsDoc(I!MergedSettings(d, program)) /\ IsDoc(I!MergedMcp(d, program))
  <2>1. PICK x, y : I!MergedSettings(d, program) = [d EXCEPT !.hooks = x, !.line = y]
    BY <1>3
  <2>2. PICK z : I!MergedMcp(d, program) = [d EXCEPT !.server = z]
    BY <1>4
  <2>3. IsDoc([d EXCEPT !.hooks = x, !.line = y]) /\ IsDoc([d EXCEPT !.server = z])
    BY <1>1, <1>2
  <2> QED BY <2>1, <2>2, <2>3
<1> QED BY <1>5 DEF I!Merged

\* The places of an install are apart.
LEMMA PlacesDiffer ==
  \A f, g \in I!Files :
    /\ I!Backup(f) # I!Replace(g) /\ I!After(f) # I!Replace(g)
    /\ (f = g \/ I!Replace(f) # I!Replace(g))
    /\ f # I!Replace(g)
    /\ {"idle", "skills", "stale", "settings", "mcp", "done"} \cap {I!Replace(g), I!Backup(g)} = {}
BY DEF I!Files, I!Backup, I!Replace, I!After

\* Steps that write neither a file nor a backup keep what is kept, if an
\* install gets to the place where it replaces a file by making a copy only.
LEMMA QuietInstall ==
  ASSUME InstallInv, UNCHANGED <<s2, s3, s4, s9, s10>>, s1' \in 0..MaxSeconds,
         s5' \subseteq {"old", "new"}, DOMAIN s6' = Installs, DOMAIN s7' = Installs,
         DOMAIN s8' = Installs,
         \A i \in Installs : s7'[i] \in I!Programs \cup {None} /\ IsDoc(s8'[i]),
         \A i \in Installs, f \in I!Files : s6'[i] = I!Replace(f) => s6[i] = I!Replace(f)
  PROVE  InstallInv'
<1>1. I!TypeOK'
  BY DEF InstallInv, I!TypeOK
<1>2. I!NothingIsLost' /\ \A f \in I!Files : BackedUp(f)' = BackedUp(f)
  BY DEF InstallInv, I!NothingIsLost, BackedUp
<1> QED BY <1>1, <1>2 DEF InstallInv

LEMMA CopyStep ==
  ASSUME InstallInv, NEW i \in Installs, NEW f \in I!Files, I!CopyFile(i, f)
  PROVE  InstallInv'
<1>1. CASE /\ I!Go(i, I!Backup(f), I!Replace(f))
           /\ s10' = s10 \cup (IF <<f, s1>> \in DOMAIN s4 THEN s4[<<f, s1>>].edits ELSE {})
           /\ s4' = [n \in DOMAIN s4 \cup {<<f, s1>>} |-> IF n = <<f, s1>> THEN s2[f] ELSE s4[n]]
           /\ UNCHANGED <<s1, s2, s3, s5, s7, s8, s9>>
  <2> DEFINE copy == <<f, s1>>
  <2>1. copy \in I!Files \X (0..MaxSeconds) /\ copy[1] = f
    BY DEF InstallInv, I!TypeOK
  <2>2. /\ DOMAIN s4' = DOMAIN s4 \cup {copy} /\ s4'[copy] = s2[f]
        /\ \A n \in DOMAIN s4 : n # copy => s4'[n] = s4[n]
        /\ s10' = s10 \cup (IF copy \in DOMAIN s4 THEN s4[copy].edits ELSE {})
    BY <1>1
  <2> HIDE DEF copy
  <2>3. s2[f].edits \subseteq Edits
    BY DEF InstallInv, IsDoc
  <2>4. s10 \subseteq s10' /\ s10' \subseteq Edits /\ \A n \in DOMAIN s4' : s4'[n].edits \subseteq Edits
    BY <2>2, <2>3 DEF InstallInv, I!TypeOK
  \* What a backup that is replaced held is unsaved.
  <2>5. ASSUME NEW g \in I!Files PROVE s10 \cup BackedUp(g) \subseteq s10' \cup BackedUp(g)'
    <3>1. ASSUME NEW e \in BackedUp(g) PROVE e \in s10' \cup BackedUp(g)'
      <4>1. PICK n \in DOMAIN s4 : n[1] = g /\ e \in s4[n].edits
        BY <3>1 DEF BackedUp
      <4>2. CASE n = copy
        BY <2>2, <4>1, <4>2
      <4>3. CASE n # copy
        BY <2>2, <4>1, <4>3 DEF BackedUp
      <4> QED BY <4>2, <4>3
    <3> QED BY <2>4, <3>1
  <2>6. s2[f].edits \subseteq BackedUp(f)'
    BY <2>1, <2>2 DEF BackedUp
  <2>7. s9[f] \subseteq s10' \cup BackedUp(f)'
    <3>1. s9[f] \subseteq s10 \cup s2[f].edits \cup BackedUp(f)
      BY DEF InstallInv, I!NothingIsLost, BackedUp
    <3> QED BY <2>5, <2>6, <3>1
  <2>8. DOMAIN s6' = Installs /\ s6'[i] = I!Replace(f)
        /\ \A j \in Installs \ {i} : s6'[j] = s6[j]
    BY <1>1 DEF I!Go, InstallInv
  <2>9. \A j \in Installs, g \in I!Files : s6'[j] = I!Replace(g) => s9[g] \subseteq s10' \cup BackedUp(g)'
    BY <2>5, <2>7, <2>8, PlacesDiffer DEF InstallInv
  <2>10. I!NothingIsLost'
    <3>1. ASSUME NEW g \in I!Files
          PROVE  s9'[g] \subseteq s10' \cup s2'[g].edits \cup BackedUp(g)'
      <4>1. s9[g] \subseteq s10 \cup s2[g].edits \cup BackedUp(g)
        BY DEF InstallInv, I!NothingIsLost, BackedUp
      <4> QED BY <1>1, <2>5, <4>1
    <3> QED BY <3>1 DEF I!NothingIsLost, BackedUp
  <2>11. I!TypeOK'
    BY <1>1, <2>1, <2>2, <2>4 DEF InstallInv, I!TypeOK
  <2> QED BY <1>1, <2>4, <2>8, <2>9, <2>10, <2>11 DEF InstallInv
<1>2. CASE /\ I!Go(i, I!Backup(f), I!After(f)) /\ s8' = [s8 EXCEPT ![i] = I!Broken]
           /\ UNCHANGED <<s1, s2, s3, s4, s5, s7, s9, s10>>
  <2>1. DOMAIN s6' = Installs /\ s6'[i] = I!After(f) /\ \A j \in Installs \ {i} : s6'[j] = s6[j]
    BY <1>2 DEF I!Go, InstallInv
  <2>2. DOMAIN s8' = Installs /\ \A j \in Installs : IsDoc(s8'[j])
    BY <1>2 DEF InstallInv, IsDoc, I!Broken
  <2> QED BY <1>2, <2>1, <2>2, QuietInstall, PlacesDiffer DEF InstallInv, I!TypeOK
<1> QED BY <1>1, <1>2 DEF I!CopyFile

\* A file is written by an install that has a copy of it, by `claude mcp add`,
\* which leaves what was edited, or by those who edit it.
LEMMA WriteStep ==
  ASSUME InstallInv, NEW f \in I!Files, NEW d, IsDoc(d), s2' \in {s2, [s2 EXCEPT ![f] = d]},
         \/ s9' = s9 /\ s10' = s10 /\ (s2[f].edits \subseteq d.edits \/ s9[f] \subseteq s10 \cup BackedUp(f))
         \/ \E e \in Edits :
              /\ s9' = [s9 EXCEPT ![f] = @ \cup {e}] /\ d.edits = s2[f].edits \cup {e}
              /\ s2' = [s2 EXCEPT ![f] = d]
              /\ s10' = IF \E i \in Installs : s6[i] = I!Replace(f) THEN s10 \cup {e} ELSE s10,
         UNCHANGED <<s1, s3, s4, s5, s7>>, DOMAIN s6' = Installs, DOMAIN s8' = Installs,
         \A i \in Installs : IsDoc(s8'[i]),
         \A i \in Installs, g \in I!Files : s6'[i] = I!Replace(g) => s6[i] = I!Replace(g)
  PROVE  InstallInv'
<1>1. /\ DOMAIN s2' = I!Files /\ \A g \in I!Files : IsDoc(s2'[g]) /\ (g # f => s2'[g] = s2[g])
      /\ s2'[f] \in {s2[f], d}
  BY DEF InstallInv
<1>2. \A g \in I!Files : BackedUp(g)' = BackedUp(g)
  BY DEF BackedUp
<1>3. \A g \in I!Files : s9[g] \subseteq s10 \cup s2[g].edits \cup BackedUp(g)
  BY DEF InstallInv, I!NothingIsLost, BackedUp
<1>4. CASE /\ s9' = s9 /\ s10' = s10
           /\ s2[f].edits \subseteq d.edits \/ s9[f] \subseteq s10 \cup BackedUp(f)
  <2>1. \A g \in I!Files : s9'[g] \subseteq s10' \cup s2'[g].edits \cup BackedUp(g)'
    BY <1>1, <1>2, <1>3, <1>4
  <2>2. I!NothingIsLost'
    BY <2>1 DEF I!NothingIsLost, BackedUp
  <2>3. I!TypeOK'
    BY <1>4 DEF InstallInv, I!TypeOK
  <2> QED BY <1>1, <1>2, <1>4, <2>2, <2>3 DEF InstallInv
<1>5. ASSUME NEW e \in Edits, s9' = [s9 EXCEPT ![f] = @ \cup {e}], d.edits = s2[f].edits \cup {e},
             s2' = [s2 EXCEPT ![f] = d],
             s10' = IF \E i \in Installs : s6[i] = I!Replace(f) THEN s10 \cup {e} ELSE s10
      PROVE  InstallInv'
  <2>1. /\ DOMAIN s9' = I!Files /\ s9'[f] = s9[f] \cup {e} /\ s2'[f] = d
        /\ \A g \in I!Files : g # f => s9'[g] = s9[g]
        /\ s10 \subseteq s10' /\ s10' \subseteq s10 \cup {e}
    BY <1>5 DEF InstallInv
  <2>2. \A g \in I!Files : s9'[g] \subseteq s10' \cup s2'[g].edits \cup BackedUp(g)'
    BY <1>1, <1>2, <1>3, <1>5, <2>1
  <2>3. I!NothingIsLost'
    BY <2>2 DEF I!NothingIsLost, BackedUp
  <2>4. \A i \in Installs, g \in I!Files :
          s6'[i] = I!Replace(g) => s9'[g] \subseteq s10' \cup BackedUp(g)'
    BY <1>2, <1>5, <2>1 DEF InstallInv
  <2>5. I!TypeOK'
    BY <2>1 DEF InstallInv, I!TypeOK
  <2> QED BY <1>1, <2>1, <2>3, <2>4, <2>5 DEF InstallInv
<1> QED BY <1>4, <1>5

LEMMA InstallStep == InstallInv /\ (I!Next \/ UNCHANGED slots) => InstallInv'
<1> SUFFICES ASSUME InstallInv, I!Next \/ UNCHANGED slots PROVE InstallInv'
  OBVIOUS
<1>0. CASE UNCHANGED slots
  BY <1>0 DEF slots, InstallInv, I!TypeOK, I!NothingIsLost, IsDoc, BackedUp
\* An install that goes on, to a place where it replaces no file.
<1>a. ASSUME NEW i \in Installs, NEW to, \A g \in I!Files : to # I!Replace(g),
             s6' = [s6 EXCEPT ![i] = to], UNCHANGED <<s1, s2, s3, s4, s9, s10>>,
             s5' \subseteq {"old", "new"},
             NEW program \in I!Programs \cup {None}, s7' \in {s7, [s7 EXCEPT ![i] = program]},
             NEW d, IsDoc(d), s8' \in {s8, [s8 EXCEPT ![i] = d]}
      PROVE  InstallInv'
  <2>1. /\ DOMAIN s6' = Installs /\ s6'[i] = to /\ \A j \in Installs \ {i} : s6'[j] = s6[j]
        /\ DOMAIN s7' = Installs /\ \A j \in Installs : s7'[j] \in {s7[j], program}
        /\ DOMAIN s8' = Installs /\ \A j \in Installs : s8'[j] \in {s8[j], d}
    BY <1>a DEF InstallInv
  <2>2. \A j \in Installs, g \in I!Files : s6'[j] = I!Replace(g) => s6[j] = I!Replace(g)
    BY <1>a, <2>1
  <2>3. \A j \in Installs : s7'[j] \in I!Programs \cup {None} /\ IsDoc(s8'[j])
    BY <1>a, <2>1 DEF InstallInv, I!TypeOK
  <2>4. s1' \in 0..MaxSeconds
    BY <1>a DEF InstallInv, I!TypeOK
  <2> QED BY <1>a, <2>1, <2>2, <2>3, <2>4, QuietInstall
<1>1. ASSUME NEW i \in Installs, I!Begin(i) PROVE InstallInv'
  <2> DEFINE program == IF i = LinkedBuild THEN "link" ELSE i
  <2>1. program \in I!Programs \cup {None} /\ \A g \in I!Files : "skills" # I!Replace(g)
    BY PlacesDiffer DEF I!Programs
  <2>2. s7' = [s7 EXCEPT ![i] = program] /\ s6' = [s6 EXCEPT ![i] = "skills"]
        /\ UNCHANGED <<s1, s2, s3, s4, s5, s8, s9, s10>>
    BY <1>1 DEF I!Begin, I!Go
  <2>3. IsDoc(I!Broken) /\ s5' \subseteq {"old", "new"}
    BY <2>2 DEF IsDoc, I!Broken, InstallInv, I!TypeOK
  <2> HIDE DEF program
  <2> QED BY <1>a, <2>1, <2>2, <2>3
<1>2. ASSUME NEW i \in Installs, I!CopySkills(i) \/ I!RemoveStale(i) \/ I!Killed(i)
      PROVE  InstallInv'
  <2>1. \E to \in {"stale", "settings", "done"} : s6' = [s6 EXCEPT ![i] = to]
    BY <1>2 DEF I!CopySkills, I!RemoveStale, I!Killed, I!Go
  <2>2. /\ UNCHANGED <<s1, s2, s3, s4, s7, s9, s10>> /\ s8' \in {s8, [s8 EXCEPT ![i] = I!Broken]}
        /\ s5' \subseteq s5 \cup {"old", "new"}
    BY <1>2 DEF I!CopySkills, I!RemoveStale, I!Killed, I!Assets
  <2>3. IsDoc(I!Broken) /\ None \in I!Programs \cup {None} /\ s5' \subseteq {"old", "new"}
    BY <2>2 DEF IsDoc, I!Broken, InstallInv, I!TypeOK
  <2>4. \A to \in {"stale", "settings", "done"} : \A g \in I!Files : to # I!Replace(g)
    BY PlacesDiffer
  <2> QED BY <1>a, <2>1, <2>2, <2>3, <2>4
<1>3. ASSUME NEW i \in Installs, NEW f \in I!Files, I!ReadAndMerge(i, f) PROVE InstallInv'
  <2>1. /\ UNCHANGED <<s1, s2, s3, s4, s5, s7, s9, s10>>
        /\ \/ s6' = [s6 EXCEPT ![i] = I!After(f)] /\ s8' = s8
           \/ /\ s6' = [s6 EXCEPT ![i] = I!Backup(f)]
              /\ s8' = [s8 EXCEPT ![i] = I!Merged(f, s2[f], s7[i])]
    BY <1>3 DEF I!ReadAndMerge
  <2>2. IsDoc(I!Broken) /\ None \in I!Programs \cup {None} /\ s5' \subseteq {"old", "new"} /\ IsDoc(s2[f])
    BY <2>1 DEF IsDoc, I!Broken, InstallInv, I!TypeOK
  <2>3. IsDoc(I!Merged(f, s2[f], s7[i]))
    BY <2>2, MergeKeeps
  <2>4. \A g \in I!Files : I!After(f) # I!Replace(g) /\ I!Backup(f) # I!Replace(g)
    BY PlacesDiffer
  <2>5. CASE s6' = [s6 EXCEPT ![i] = I!After(f)] /\ s8' = s8
    BY <1>a, <2>1, <2>2, <2>4, <2>5
  <2>6. CASE /\ s6' = [s6 EXCEPT ![i] = I!Backup(f)]
             /\ s8' = [s8 EXCEPT ![i] = I!Merged(f, s2[f], s7[i])]
    BY <1>a, <2>1, <2>2, <2>3, <2>4, <2>6
  <2> QED BY <2>1, <2>5, <2>6
<1>4. ASSUME NEW i \in Installs, NEW f \in I!Files, I!CopyFile(i, f) PROVE InstallInv'
  BY <1>4, CopyStep
\* An install that ends what it does with a file.
<1>b. ASSUME NEW i \in Installs, NEW to, \A g \in I!Files : to # I!Replace(g),
             s6' = [s6 EXCEPT ![i] = to], s8' \in {s8, [s8 EXCEPT ![i] = I!Broken]}
      PROVE  /\ DOMAIN s6' = Installs /\ DOMAIN s8' = Installs
             /\ \A j \in Installs : IsDoc(s8'[j])
             /\ \A j \in Installs, g \in I!Files : s6'[j] = I!Replace(g) => s6[j] = I!Replace(g)
  BY <1>b DEF InstallInv, IsDoc, I!Broken
<1>5. ASSUME NEW i \in Installs, I!AddViaCli(i) PROVE InstallInv'
  <2>1. s6' = [s6 EXCEPT ![i] = "done"] /\ UNCHANGED <<s1, s3, s4, s5, s7, s8, s9, s10>>
        /\ "mcp" \in I!Files /\ \A g \in I!Files : "done" # I!Replace(g)
    BY <1>5, PlacesDiffer DEF I!AddViaCli, I!Go, I!Files
  <2>2. CASE s2' = [s2 EXCEPT !["mcp"].server = I!Command("mcp", "grouped", s7[i])]
    <3> DEFINE d == [s2["mcp"] EXCEPT !.server = I!Command("mcp", "grouped", s7[i])]
    <3>1. s2' = [s2 EXCEPT !["mcp"] = d]
      BY <2>2
    <3>2. IsDoc(s2["mcp"]) /\ "edits" \in DOMAIN s2["mcp"]
      BY <2>1, <2>2 DEF InstallInv, IsDoc
    <3>3. d.edits = s2["mcp"].edits /\ IsDoc(d)
      BY <3>2, <2>2 DEF IsDoc
    <3>4. s2["mcp"].edits \subseteq d.edits
      BY <2>2, <3>3 DEF IsDoc
    <3> HIDE DEF d
    <3> QED BY <1>b, <2>1, <3>1, <3>3, <3>4, WriteStep
  <2>3. CASE s2' = s2
    BY <1>b, <2>1, <2>3, WriteStep DEF InstallInv
  <2> QED BY <1>5, <2>2, <2>3 DEF I!AddViaCli
<1>6. ASSUME NEW i \in Installs, NEW f \in I!Files, I!Rename(i, f) PROVE InstallInv'
  <2>1. /\ s6[i] = I!Replace(f) /\ s6' = [s6 EXCEPT ![i] = I!After(f)]
        /\ s2' \in {s2, [s2 EXCEPT ![f] = s8[i]]} /\ s8' = [s8 EXCEPT ![i] = I!Broken]
        /\ UNCHANGED <<s1, s3, s4, s5, s7, s9, s10>>
    BY <1>6 DEF I!Rename, I!Go
  <2>2. IsDoc(s8[i]) /\ s9[f] \subseteq s10 \cup BackedUp(f)
    BY <2>1 DEF InstallInv
  <2>3. \A g \in I!Files : I!After(f) # I!Replace(g)
    BY PlacesDiffer
  <2> QED BY <1>b, <2>1, <2>2, <2>3, WriteStep
<1>7. ASSUME NEW f \in I!Files, NEW e \in Edits, I!Edit(f, e) PROVE InstallInv'
  <2> DEFINE d == [s2[f] EXCEPT !.edits = @ \cup {e}]
  <2>1. /\ s2' = [s2 EXCEPT ![f] = d] /\ s9' = [s9 EXCEPT ![f] = @ \cup {e}]
        /\ s10' = IF \E i \in Installs : s6[i] = I!Replace(f) THEN s10 \cup {e} ELSE s10
        /\ UNCHANGED <<s1, s3, s4, s5, s6, s7, s8>>
    BY <1>7 DEF I!Edit
  <2>2. IsDoc(s2[f]) /\ "edits" \in DOMAIN s2[f] /\ s2[f].edits \subseteq Edits
    BY <2>1 DEF InstallInv, IsDoc
  <2>3. d.edits = s2[f].edits \cup {e} /\ IsDoc(d) /\ s2' \in {s2, [s2 EXCEPT ![f] = d]}
    BY <2>1, <2>2 DEF IsDoc
  <2>4. /\ DOMAIN s6' = Installs /\ DOMAIN s8' = Installs /\ \A i \in Installs : IsDoc(s8'[i])
        /\ \A i \in Installs, g \in I!Files : s6'[i] = I!Replace(g) => s6[i] = I!Replace(g)
    BY <2>1 DEF InstallInv
  <2> HIDE DEF d
  <2>5. \E x \in Edits :
          /\ s9' = [s9 EXCEPT ![f] = @ \cup {x}] /\ d.edits = s2[f].edits \cup {x}
          /\ s2' = [s2 EXCEPT ![f] = d]
          /\ s10' = IF \E i \in Installs : s6[i] = I!Replace(f) THEN s10 \cup {x} ELSE s10
    BY <2>1, <2>3
  <2>6. UNCHANGED <<s1, s3, s4, s5, s7>>
    BY <2>1
  <2> QED BY <2>3, <2>4, <2>5, <2>6, WriteStep
<1>8. CASE I!Tick
  <2>1. s1 < MaxSeconds /\ s1' = s1 + 1 /\ UNCHANGED <<s2, s3, s4, s5, s6, s7, s8, s9, s10>>
    BY <1>8 DEF I!Tick
  <2>2. s1' \in 0..MaxSeconds
    BY <2>1, StoryAssumption DEF InstallInv, I!TypeOK
  <2> QED BY <2>1, <2>2, QuietInstall DEF InstallInv, I!TypeOK
<1> QED BY <1>0, <1>1, <1>2, <1>3, <1>4, <1>5, <1>6, <1>7, <1>8 DEF I!Next

----------------------------------------------------------------------------
(* All of them.                                                            *)

KeptInv ==
  /\ story = "scratch" => ScratchInv
  /\ story = "install" => InstallInv
  /\ story = "worktrees" => TreesInv

LEMMA KeptBegins == StoryInit => KeptInv
<1> SUFFICES ASSUME StoryInit PROVE KeptInv
  OBVIOUS
<1>1. /\ story = "scratch" => S!Init
      /\ story = "install" => I!Init
      /\ story = "worktrees" => H!Init
  BY DEF StoryInit
<1> QED BY <1>1, ScratchBegins, InstallBegins, TreesBegin DEF KeptInv

LEMMA KeptStep == KeptInv /\ [StoryNext]_storyVars => KeptInv'
BY StorySteps, ScratchStep, InstallStep, TreesStep DEF KeptInv

LEMMA InvKeeps == KeptInv => FilesAreKept
<1> SUFFICES ASSUME KeptInv PROVE FilesAreKept
  OBVIOUS
<1>1. story = "scratch" => S!TypeOK /\ S!OnlyExpiredIsCleaned /\ S!NewIsManaged /\ S!HandMadeStaysSo
  BY DEF KeptInv, ScratchInv, S!HandMadeStaysSo
<1>2. story = "install" => I!TypeOK /\ I!NothingIsLost
  BY DEF KeptInv, InstallInv
<1>3. story = "worktrees" => H!TypeOK /\ H!GivenIsOfTheRepo /\ H!BranchesAreKept
  BY TreesAreKept DEF KeptInv
<1> QED BY <1>1, <1>2, <1>3 DEF FilesAreKept

\* `scratch clean` removes only directories that were managed, past their
\* time and held by nobody; after `claude install` all that anybody wrote is
\* in the file or in a backup of it; no worktree hook gives a session another
\* repository's worktree or leaves a worktree without its branch
\* (scratch.rs clean_one, install_claude.rs write_json, hook.rs worktree_create).
THEOREM FilesStay == StorySpec => []FilesAreKept
<1>1. StoryInit => KeptInv
  BY KeptBegins
<1>2. KeptInv /\ [StoryNext]_storyVars => KeptInv'
  BY KeptStep
<1>3. KeptInv => FilesAreKept
  BY InvKeeps
<1> QED BY <1>1, <1>2, <1>3, PTL DEF StorySpec

----------------------------------------------------------------------------
(* What steps tell: the use of a process.                                  *)

\* What a process is charged for is what it used since the last sample.
UseInv ==
  /\ s4 \in Nat /\ {s3, s13} \subseteq Nat \cup {None}
  /\ s3 # None /\ s13 # None => s3 - s13 <= s4

LEMMA UseBegins == M!Init => UseInv
BY DEF M!Init, UseInv

LEMMA UseStep ==
  UseInv /\ (M!Next \/ UNCHANGED slots) => UseInv' /\ (M!ChargesTheUse \/ UNCHANGED slots)
<1> SUFFICES ASSUME UseInv, M!Next \/ UNCHANGED slots
             PROVE  UseInv' /\ (M!ChargesTheUse \/ UNCHANGED slots)
  OBVIOUS
<1>1. CASE UNCHANGED slots
  BY <1>1 DEF slots, UseInv
<1>2. CASE M!Sample
  <2>1. /\ s13' \in {s3, None} /\ s3' = s3 /\ s4' = 0
        /\ s15' = IF s13' = None \/ s13 = None THEN 0 ELSE M!proc_cpu_pct(s13, s13')
    BY <1>2 DEF M!Sample, M!Procs
  <2>2. UseInv'
    BY <2>1, StoryAssumption DEF UseInv
  <2>3. s15' <= s4
    BY <2>1, StoryAssumption DEF UseInv, M!proc_cpu_pct, M!NonNeg
  <2> QED BY <2>2, <2>3 DEF M!ChargesTheUse
<1>3. CASE (M!Second \/ M!NodeChanges) /\ ~M!Sample
  <2>1. /\ s13' = s13
        /\ \/ UNCHANGED <<s3, s4>>
           \/ s3 # None /\ s3' = s3 + 1 /\ s4' = s4 + 1
           \/ s3' \in {0, None} /\ s4' = 0
    BY <1>3 DEF M!Second, M!NodeChanges
  <2>2. UseInv'
    <3>1. CASE UNCHANGED <<s3, s4>>
      BY <2>1, <3>1 DEF UseInv
    <3>2. CASE s3 # None /\ s3' = s3 + 1 /\ s4' = s4 + 1
      <4>1. PICK p \in Nat, u \in Nat : p = s3 + 1 /\ u = s4 + 1
        BY <3>2 DEF UseInv
      <4>2. s3' = p /\ s4' = u /\ s13' \in Nat \cup {None}
        BY <2>1, <3>2, <4>1 DEF UseInv
      <4>3. s13' # None => p - s13' <= u
        BY <2>1, <3>2, <4>1 DEF UseInv
      <4> QED BY <4>2, <4>3 DEF UseInv
    <3>3. CASE s3' \in {0, None} /\ s4' = 0
      BY <2>1, <3>3, StoryAssumption DEF UseInv
    <3> QED BY <2>1, <3>1, <3>2, <3>3
  <2> QED BY <1>3, <2>2 DEF M!ChargesTheUse
<1> QED BY <1>1, <1>2, <1>3 DEF M!Next

----------------------------------------------------------------------------
(* Skills that are replaced.                                               *)

\* Where old skills are to go, new ones have been copied.
SkillInv ==
  /\ DOMAIN s6 = Installs
  /\ \A i \in Installs : s6[i] = "stale" /\ "new" \in I!Assets(i) => "new" \in s5

LEMMA SkillBegins == I!Init => SkillInv
BY DEF I!Init, SkillInv

LEMMA SkillStep ==
  SkillInv /\ (I!Next \/ UNCHANGED slots) => SkillInv' /\ (I!SkillsStay \/ UNCHANGED slots)
<1> SUFFICES ASSUME SkillInv, I!Next \/ UNCHANGED slots
             PROVE  SkillInv' /\ (I!SkillsStay \/ UNCHANGED slots)
  OBVIOUS
<1>0. CASE UNCHANGED slots
  BY <1>0 DEF slots, SkillInv, I!Assets
\* An install goes on to a place that is not the removal of old skills.
<1>a. ASSUME NEW i \in Installs, NEW to, to # "stale", s6' = [s6 EXCEPT ![i] = to],
             s5 \ {"old"} \subseteq s5'
      PROVE  SkillInv'
  BY <1>a DEF SkillInv, I!Assets
<1>1. ASSUME NEW i \in Installs, I!CopySkills(i) PROVE SkillInv' /\ I!SkillsStay
  <2>1. s5' = s5 \cup I!Assets(i) /\ s6' = [s6 EXCEPT ![i] = "stale"]
    BY <1>1 DEF I!CopySkills, I!Go
  <2> QED BY <2>1 DEF SkillInv, I!SkillsStay, I!Assets
<1>2. ASSUME NEW i \in Installs, I!RemoveStale(i) PROVE SkillInv' /\ I!SkillsStay
  <2>1. /\ s6[i] = "stale" /\ s6' = [s6 EXCEPT ![i] = "settings"]
        /\ s5' = IF "new" \in I!Assets(i) THEN s5 \ {"old"} ELSE s5
    BY <1>2 DEF I!RemoveStale, I!Go
  <2>2. "new" \in I!Assets(i) => "new" \in s5
    BY <2>1 DEF SkillInv
  <2>3. I!SkillsStay
    BY <2>1, <2>2 DEF I!SkillsStay
  <2>4. "settings" # "stale" /\ s5 \ {"old"} \subseteq s5'
    BY <2>1
  <2> QED BY <1>a, <2>1, <2>3, <2>4
\* All other steps leave the skills as they are.
<1>3. ASSUME s5' = s5, \/ s6' = s6
                       \/ \E i \in Installs, to \in {"skills", "settings", "mcp", "done", "back settings up",
                            "back mcp up", "replace settings", "replace mcp"} : s6' = [s6 EXCEPT ![i] = to]
      PROVE  SkillInv' /\ I!SkillsStay
  <2>1. I!SkillsStay
    BY <1>3 DEF I!SkillsStay
  <2>2. SkillInv'
    <3>1. CASE s6' = s6
      BY <1>3, <3>1 DEF SkillInv, I!Assets
    <3> QED BY <1>a, <1>3, <3>1
  <2> QED BY <2>1, <2>2
<1>4. ASSUME NEW i \in Installs, I!Begin(i) \/ I!AddViaCli(i) \/ I!Killed(i)
      PROVE  SkillInv' /\ I!SkillsStay
  BY <1>3, <1>4 DEF I!Begin, I!AddViaCli, I!Killed, I!Go
<1>5. ASSUME NEW i \in Installs, NEW f \in I!Files,
             I!ReadAndMerge(i, f) \/ I!CopyFile(i, f) \/ I!Rename(i, f)
      PROVE  SkillInv' /\ I!SkillsStay
  BY <1>3, <1>5 DEF I!ReadAndMerge, I!CopyFile, I!Rename, I!Go, I!Backup, I!Replace, I!After
<1>6. ASSUME I!Tick \/ \E f \in I!Files, e \in Edits : I!Edit(f, e)
      PROVE  SkillInv' /\ I!SkillsStay
  BY <1>3, <1>6 DEF I!Tick, I!Edit
<1> QED BY <1>0, <1>1, <1>2, <1>4, <1>5, <1>6 DEF I!Next

----------------------------------------------------------------------------
(* What a server says of itself.                                           *)

\* A request under way has no answer yet.
QuietInv ==
  /\ DOMAIN s3 = Calls
  /\ \A c \in Calls : {"tool", "named", "at", "job", "out"} \subseteq DOMAIN s3[c]
  /\ \A c \in Calls : s3[c].at \in {"sent", "resolve", "check", "act"} => s3[c].out = None

LEMMA QuietBegins == Y!Init => QuietInv
BY DEF Y!Init, QuietInv, Y!Idle

\* A call that was answered.
LEMMA QuietAnswer ==
  ASSUME QuietInv, NEW c \in Calls, NEW out, Y!Answer(c, out)
  PROVE  QuietInv' /\ s3'[c].out = out /\ \A i \in Calls \ {c} : s3'[i] = s3[i]
<1> DEFINE r == [Y!Idle EXCEPT !.tool = s3[c].tool, !.at = "answered", !.out = out]
<1>1. r.at = "answered" /\ r.out = out /\ DOMAIN r = DOMAIN Y!Idle
  BY DEF Y!Idle
<1>2. {"tool", "named", "at", "job", "out"} \subseteq DOMAIN Y!Idle
  BY DEF Y!Idle
<1>3. s3' = [s3 EXCEPT ![c] = r]
  BY DEF Y!Answer
<1> HIDE DEF r
<1> QED BY <1>1, <1>2, <1>3 DEF QuietInv

\* A call that is asked for, goes on, or waits from now on.
LEMMA QuietGoes ==
  ASSUME QuietInv, NEW c \in Calls, NEW r, s3' = [s3 EXCEPT ![c] = r],
         {"tool", "named", "at", "job", "out"} \subseteq DOMAIN r, r.out = None
  PROVE  QuietInv' /\ s3'[c].out = None /\ \A i \in Calls \ {c} : s3'[i] = s3[i]
BY DEF QuietInv

\* Only an agent_context that acts says whether the server is stale.
LEMMA OthersAreQuiet ==
  ASSUME QuietInv, NEW c \in Calls, \A i \in Calls \ {c} : s3'[i] = s3[i],
         s3[c].at = "act" /\ s3[c].tool = "agent_context" => s3'[c].out \notin {"stale", "current"}
  PROVE  Y!StalenessIsTold
<1>1. ASSUME NEW i \in Calls, s3[i].at = "act", s3[i].tool = "agent_context",
             s3'[i].out \in {"stale", "current"}
      PROVE  FALSE
  <2>1. i = c \/ s3'[i].out = None
    BY <1>1 DEF QuietInv
  <2> QED BY <1>1, <2>1, StoryAssumption
<1> QED BY <1>1 DEF Y!StalenessIsTold

LEMMA QuietStep ==
  QuietInv /\ (Y!Next \/ UNCHANGED slots) => QuietInv' /\ (Y!StalenessIsTold \/ UNCHANGED slots)
<1> SUFFICES ASSUME QuietInv, Y!Next \/ UNCHANGED slots
             PROVE  QuietInv' /\ (Y!StalenessIsTold \/ UNCHANGED slots)
  OBVIOUS
<1>0. CASE UNCHANGED slots
  BY <1>0 DEF slots, QuietInv
<1>a. None \notin {"stale", "current"} /\ {"tool", "named", "at", "job", "out"} \subseteq DOMAIN Y!Idle
      /\ Y!Idle.out = None
  BY StoryAssumption DEF Y!Idle
<1>b. \A c \in Calls : {"tool", "named", "at", "job", "out"} \subseteq DOMAIN s3[c]
  BY DEF QuietInv
\* A call of another kind is answered.
<1>c. ASSUME NEW c \in Calls, NEW out, Y!Answer(c, out),
             out \notin {"stale", "current"} \/ s3[c].at # "act" \/ s3[c].tool # "agent_context"
      PROVE  QuietInv' /\ Y!StalenessIsTold
  BY <1>c, QuietAnswer, OthersAreQuiet
\* A call goes on.
<1>d. ASSUME NEW c \in Calls, s3[c].at \in {"sent", "resolve", "check", "act"}, NEW place,
             \/ s3' = [s3 EXCEPT ![c].at = place]
             \/ \E n : s3' = [s3 EXCEPT ![c].at = place, ![c].job = n]
             \/ \E n : s3' = [s3 EXCEPT ![c].at = place, ![c].left = n]
      PROVE  QuietInv' /\ Y!StalenessIsTold
  <2>1. s3[c].out = None
    BY <1>d DEF QuietInv
  <2>2. \E r : /\ s3' = [s3 EXCEPT ![c] = r] /\ r.out = None
               /\ {"tool", "named", "at", "job", "out"} \subseteq DOMAIN r
    <3>1. CASE s3' = [s3 EXCEPT ![c].at = place]
      <4> DEFINE r == [s3[c] EXCEPT !.at = place]
      <4>1. r.out = None /\ DOMAIN r = DOMAIN s3[c] /\ s3' = [s3 EXCEPT ![c] = r]
        BY <1>b, <2>1, <3>1
      <4> HIDE DEF r
      <4> QED BY <1>b, <4>1
    <3>2. ASSUME NEW n, s3' = [s3 EXCEPT ![c].at = place, ![c].job = n]
          PROVE  \E r : /\ s3' = [s3 EXCEPT ![c] = r] /\ r.out = None
                        /\ {"tool", "named", "at", "job", "out"} \subseteq DOMAIN r
      <4> DEFINE r == [s3[c] EXCEPT !.at = place, !.job = n]
      <4>1. r.out = None /\ DOMAIN r = DOMAIN s3[c]
        BY <1>b, <2>1
      <4>2. s3' = [s3 EXCEPT ![c] = r]
        BY <3>2 DEF QuietInv
      <4> HIDE DEF r
      <4> QED BY <1>b, <4>1, <4>2
    <3>3. ASSUME NEW n, s3' = [s3 EXCEPT ![c].at = place, ![c].left = n]
          PROVE  \E r : /\ s3' = [s3 EXCEPT ![c] = r] /\ r.out = None
                        /\ {"tool", "named", "at", "job", "out"} \subseteq DOMAIN r
      <4> DEFINE r == [s3[c] EXCEPT !.at = place, !.left = n]
      <4>1. r.out = None /\ DOMAIN r = DOMAIN s3[c]
        BY <1>b, <2>1
      <4>2. s3' = [s3 EXCEPT ![c] = r]
        BY <3>3 DEF QuietInv
      <4> HIDE DEF r
      <4> QED BY <1>b, <4>1, <4>2
    <3> QED BY <1>d, <3>1, <3>2, <3>3
  <2>3. QuietInv' /\ s3'[c].out = None /\ \A i \in Calls \ {c} : s3'[i] = s3[i]
    BY <2>2, QuietGoes
  <2> QED BY <1>a, <2>3, OthersAreQuiet
<1>1. ASSUME NEW c \in Calls, NEW tool \in Y!Tools, Y!Ask(c, tool)
      PROVE  QuietInv' /\ Y!StalenessIsTold
  <2>1. s3[c].at = "idle" /\ \E named \in BOOLEAN, blank \in BOOLEAN, wait \in WaitsAsked \cup {0} :
          s3' = [s3 EXCEPT ![c] = [Y!Idle EXCEPT !.tool = tool, !.named = named, !.blank = blank,
                                                 !.left = wait, !.at = "sent"]]
    BY <1>1 DEF Y!Ask
  <2>2. ASSUME NEW named, NEW blank, NEW wait
        PROVE  LET r == [Y!Idle EXCEPT !.tool = tool, !.named = named, !.blank = blank,
                                       !.left = wait, !.at = "sent"]
               IN  r.out = None /\ {"tool", "named", "at", "job", "out"} \subseteq DOMAIN r
    BY <1>a
  <2>3. \E r : /\ s3' = [s3 EXCEPT ![c] = r] /\ r.out = None
               /\ {"tool", "named", "at", "job", "out"} \subseteq DOMAIN r
    <3>1. PICK named \in BOOLEAN, blank \in BOOLEAN, wait \in WaitsAsked \cup {0} :
            s3' = [s3 EXCEPT ![c] = [Y!Idle EXCEPT !.tool = tool, !.named = named, !.blank = blank,
                                                   !.left = wait, !.at = "sent"]]
      BY <2>1
    <3> DEFINE r == [Y!Idle EXCEPT !.tool = tool, !.named = named, !.blank = blank,
                                   !.left = wait, !.at = "sent"]
    <3>2. r.out = None /\ {"tool", "named", "at", "job", "out"} \subseteq DOMAIN r
      BY <2>2
    <3>3. s3' = [s3 EXCEPT ![c] = r]
      BY <3>1
    <3> HIDE DEF r
    <3> QED BY <3>2, <3>3
  <2>4. QuietInv' /\ \A i \in Calls \ {c} : s3'[i] = s3[i]
    BY <2>3, QuietGoes
  <2> QED BY <2>1, <2>4, OthersAreQuiet
<1>2. ASSUME NEW c \in Calls, Y!TakeAnswer(c) PROVE QuietInv' /\ Y!StalenessIsTold
  <2>1. s3[c].at = "answered" /\ s3' = [s3 EXCEPT ![c] = Y!Idle]
    BY <1>2 DEF Y!TakeAnswer
  <2>2. QuietInv' /\ \A i \in Calls \ {c} : s3'[i] = s3[i]
    BY <1>a, <2>1, QuietGoes
  <2> QED BY <2>1, <2>2, OthersAreQuiet
<1>3. ASSUME NEW c \in Calls, Y!Accept(c) PROVE QuietInv' /\ Y!StalenessIsTold
  <2>1. s3[c].at = "sent" /\ (Y!Answer(c, "error") \/ \E place : s3' = [s3 EXCEPT ![c].at = place])
    BY <1>3 DEF Y!Accept, Y!Step
  <2> QED BY <1>c, <1>d, <2>1
<1>4. ASSUME NEW c \in Calls, Y!Resolve(c) PROVE QuietInv' /\ Y!StalenessIsTold
  <2>1. /\ s3[c].at = "resolve"
        /\ \/ Y!Answer(c, "error")
           \/ \E place : \E n : s3' = [s3 EXCEPT ![c].at = place, ![c].job = n]
    BY <1>4 DEF Y!Resolve
  <2> QED BY <1>c, <1>d, <2>1
<1>5. ASSUME NEW c \in Calls, Y!Check(c) PROVE QuietInv' /\ Y!StalenessIsTold
  <2>1. s3[c].at = "check" /\ (Y!Answer(c, "error") \/ s3' = [s3 EXCEPT ![c].at = "act"])
    BY <1>5 DEF Y!Check, Y!Step
  <2> QED BY <1>c, <1>d, <2>1
<1>6. ASSUME NEW c \in Calls, Y!Act(c) PROVE QuietInv' /\ Y!StalenessIsTold
  <2>1. CASE s3[c].tool = "agent_context"
    <3>1. Y!Answer(c, IF ~s2 THEN "error" ELSE IF Y!IsStale THEN "stale" ELSE "current")
      BY <1>6, <2>1 DEF Y!Act, Y!Waiting
    <3>2. /\ QuietInv' /\ \A i \in Calls \ {c} : s3'[i] = s3[i]
          /\ s3'[c].out = IF ~s2 THEN "error" ELSE IF Y!IsStale THEN "stale" ELSE "current"
      BY <3>1, QuietAnswer
    <3>3. ASSUME NEW i \in Calls, s3[i].at = "act", s3'[i].out \in {"stale", "current"}
          PROVE  s3'[i].out = "stale" <=> Y!IsStale
      <4>1. i = c
        BY <1>a, <3>2, <3>3 DEF QuietInv
      <4> QED BY <3>2, <3>3, <4>1
    <3> QED BY <3>2, <3>3 DEF Y!StalenessIsTold, Y!IsStale
  <2>2. CASE s3[c].tool # "agent_context"
    <3>1. /\ s3[c].at = "act"
          /\ \/ \E out : Y!Answer(c, out)
             \/ \E n : s3' = [s3 EXCEPT ![c].at = "launch", ![c].job = n]
             \/ \E n : s3' = [s3 EXCEPT ![c].at = "wait", ![c].left = n]
      BY <1>6, <2>2 DEF Y!Act
    <3> QED BY <1>c, <1>d, <2>2, <3>1
  <2> QED BY <2>1, <2>2
<1>7. ASSUME NEW c \in Calls, Y!Read(c) \/ Y!Waited(c) \/ Y!Launched(c) \/ Y!Panic(c)
      PROVE  QuietInv' /\ Y!StalenessIsTold
  <2>1. \E out \in {"timed_out", "event", "error", "ok"} : Y!Answer(c, out)
    BY <1>7 DEF Y!Read, Y!Waited, Y!Launched, Y!Panic
  <2> QED BY <1>c, <2>1
<1>8. CASE Y!SessionChanges \/ Y!Upgrade \/ Y!Uninstall
  <2>1. s3' = s3
    BY <1>8 DEF Y!SessionChanges, Y!Upgrade, Y!Uninstall
  <2>2. Y!StalenessIsTold
    BY <1>a, <2>1 DEF Y!StalenessIsTold, QuietInv
  <2> QED BY <2>1, <2>2 DEF QuietInv
<1>9. CASE Y!Tick
  <2>1. DOMAIN s3' = Calls /\ \A c \in Calls : s3[c].at # "act" /\
          s3'[c] = IF s3[c].at \in {"idle", "answered", "launch"} THEN s3[c]
                   ELSE [s3[c] EXCEPT !.age = @ + 1, !.left = IF c \in Y!Waits THEN @ - 1 ELSE @]
    BY <1>9 DEF Y!Tick, Y!Busy
  <2>2. \A c \in Calls : DOMAIN s3'[c] = DOMAIN s3[c] /\ s3'[c].at = s3[c].at /\ s3'[c].out = s3[c].out
    BY <1>b, <2>1
  <2> QED BY <2>1, <2>2 DEF QuietInv, Y!StalenessIsTold
<1> QED BY <1>0, <1>1, <1>2, <1>3, <1>4, <1>5, <1>6, <1>7, <1>8, <1>9 DEF Y!Next

----------------------------------------------------------------------------
(* The time an agent is told.                                              *)

\* What was written is what was left by the end of then.
BriefInv ==
  /\ s1 \in Nat /\ s2 \in EndTimes \cup {None} /\ s3 \in Int /\ s3 <= s1
  /\ s5 \in [what : {None, "prompt", "briefing"}, at : Nat, step : {"idle", "file", "slurm"}]
  /\ s5.at <= s1
  /\ s7 # None =>
       /\ s7.at \in Nat /\ s7.end \in EndTimes /\ s7.at <= s1
       /\ s3 < s7.at /\ s2 # None => s7.end = s2
  /\ s4 # None =>
       /\ s4.updated \in Nat /\ s4.remaining \in Int /\ s4.confirmed \in Nat
       /\ s4.confirmed <= s4.updated /\ s4.updated <= s1 /\ s4.updated - s4.confirmed <= EndMinGap
       /\ s3 < s4.confirmed /\ s2 # None => s4.remaining = B!Max({s2 - s4.updated, 0})

LEMMA BriefBegins == B!Init => BriefInv
<1> SUFFICES ASSUME B!Init PROVE BriefInv
  OBVIOUS
<1>1. s5 = [what |-> None, at |-> 0, step |-> "idle"]
  BY DEF B!Init, B!Idle
<1> QED BY <1>1 DEF B!Init, BriefInv

\* What is left is a number, and one that has aged is what was left less its age.
LEMMA LeftIsCounted == ASSUME NEW n \in Int PROVE B!Max({n, 0}) = IF n < 0 THEN 0 ELSE n
<1> DEFINE most == IF n < 0 THEN 0 ELSE n
<1>1. \A x \in {n, 0} : (\A y \in {n, 0} : x >= y) <=> x = most
  OBVIOUS
<1>2. most \in {n, 0}
  OBVIOUS
<1> HIDE DEF most
<1>3. B!Max({n, 0}) = most
  BY <1>1, <1>2 DEF B!Max
<1> QED BY <1>3 DEF most

LEMMA LeftAges ==
  ASSUME NEW n \in Int, NEW age \in Nat
  PROVE  B!Max({B!Max({n, 0}) - age, 0}) = B!Max({n - age, 0})
<1> DEFINE left == IF n < 0 THEN 0 ELSE n
<1>1. left \in Int /\ n - age \in Int /\ left - age \in Int
  OBVIOUS
<1>2. B!Max({n, 0}) = left
  BY LeftIsCounted
<1>3. B!Max({n - age, 0}) = IF n - age < 0 THEN 0 ELSE n - age
  BY <1>1, LeftIsCounted
<1>4. B!Max({left - age, 0}) = IF left - age < 0 THEN 0 ELSE left - age
  <2> HIDE DEF left
  <2> QED BY <1>1, LeftIsCounted
<1> QED BY <1>2, <1>3, <1>4

\* What is told to be left of n seconds.
LEMMA ToldIsTrue ==
  ASSUME NEW n \in Int, NEW when \in Int, NEW from \in Int,
         when - from <= StateStale + EndMinGap,
         s3 < from /\ s2 # None => B!Max({n, 0}) = B!Max({s2 - when, 0}), UNCHANGED <<s2, s3>>,
         NEW text, text = B!walltime_warning(B!Max({n, 0})) \/ text = "briefing",
         s6' = [text |-> text, left |-> B!Max({n, 0}), from |-> from, at |-> when]
  PROVE  B!BudgetsAreTrue
<1> DEFINE left == B!Max({n, 0})
<1>1. left \in Int
  BY LeftIsCounted
<1>2. s6'.text = text /\ s6'.left = left /\ s6'.from = from /\ s6'.at = when
  OBVIOUS
<1>3. s3 < from /\ s2 # None => left = B!Max({s2 - when, 0})
  OBVIOUS
<1>a. WarnAt \in Nat
  BY StoryAssumption
<1> HIDE DEF left
<1>4. text = "plenty" => left > WarnAt
  <2>1. text = B!walltime_warning(left) \/ text = "briefing"
    BY DEF left
  <2>2. CASE left <= WarnAt
    BY <2>1, <2>2 DEF B!walltime_warning
  <2> QED BY <1>1, <1>a, <2>2
<1> QED BY <1>2, <1>3, <1>4 DEF B!BudgetsAreTrue

LEMMA BriefStep ==
  ASSUME BriefInv, B!Next \/ UNCHANGED slots
  PROVE  BriefInv' /\ (B!BudgetsAreTrue \/ UNCHANGED slots)
<1>a. /\ WarnAt \in Nat /\ StateStale \in Nat /\ EndMinGap \in Nat /\ EndTimes \subseteq Nat /\ None \notin Nat
  BY StoryAssumption
<1>0. CASE UNCHANGED slots
  BY <1>0 DEF slots, BriefInv
<1>q. ASSUME UNCHANGED s6 PROVE B!BudgetsAreTrue
  BY <1>q DEF B!BudgetsAreTrue
<1>1. CASE B!WriteState
  <2> DEFINE n == s7.end - s1
             left == B!Max({n, 0})
  <2>1. /\ s7.end \in Nat /\ s7.at \in Nat /\ s7.at <= s1 /\ s1 - s7.at <= EndMinGap /\ s1 \in Nat
        /\ s4' = [remaining |-> left, updated |-> s1, confirmed |-> s7.at]
        /\ UNCHANGED <<s1, s2, s3, s5, s6, s7>>
    BY <1>a, <1>1 DEF B!WriteState, B!Confirmed, BriefInv
  <2>2. n \in Int
    BY <2>1
  <2>3. left \in Int
    <3> HIDE DEF n
    <3> QED BY <2>2, LeftIsCounted
  <2>4. s3 < s7.at /\ s2 # None => left = B!Max({s2 - s1, 0})
    BY <1>1 DEF B!WriteState, B!Confirmed, BriefInv
  <2> HIDE DEF left
  <2>5. s4'.remaining = left /\ s4'.updated = s1 /\ s4'.confirmed = s7.at
    BY <2>1
  <2>6. BriefInv'
    BY <2>1, <2>3, <2>4, <2>5 DEF BriefInv
  <2> QED BY <1>q, <2>1, <2>6
<1>8. CASE B!RefreshEnd
  <2>1. s2 \in EndTimes /\ s7' = [end |-> s2, at |-> s1] /\ UNCHANGED <<s1, s2, s3, s4, s5, s6>>
    BY <1>8 DEF B!RefreshEnd, BriefInv
  <2>2. s7'.end = s2 /\ s7'.at = s1
    BY <2>1
  <2>3. BriefInv'
    BY <2>1, <2>2 DEF BriefInv
  <2> QED BY <1>q, <2>1, <2>3
<1>2. CASE B!ChangeLimit
  <2>1. s2' \in EndTimes /\ s3' = s1 /\ UNCHANGED <<s1, s4, s5, s6, s7>>
    BY <1>2 DEF B!ChangeLimit
  <2>2. BriefInv'
    BY <2>1 DEF BriefInv
  <2> QED BY <1>q, <2>1, <2>2
<1>3. CASE B!JobIsGone
  <2>1. s2' = None /\ UNCHANGED <<s1, s3, s4, s5, s6, s7>>
    BY <1>3 DEF B!JobIsGone
  <2>2. BriefInv'
    BY <2>1 DEF BriefInv
  <2> QED BY <1>q, <2>1, <2>2
<1>4. CASE B!Tick
  <2>1. s1' = s1 + 1 /\ UNCHANGED <<s2, s3, s4, s5, s6, s7>>
    BY <1>4 DEF B!Tick
  <2>2. PICK n \in Nat : s1' = n /\ s1 <= n /\ s1 \in Nat
    BY <2>1 DEF BriefInv
  <2>3. s3 \in Int /\ s3 <= n /\ (s7 # None => s7.at \in Nat /\ s7.at <= n) /\ s5.at \in Nat /\ s5.at <= n
        /\ (s4 # None => s4.updated \in Nat /\ s4.updated <= n)
    BY <2>2 DEF BriefInv
  <2>4. BriefInv'
    BY <2>1, <2>2, <2>3 DEF BriefInv
  <2> QED BY <1>q, <2>1, <2>4
<1>5. CASE B!ReadFile
  <2>1. s5.step = "file" /\ UNCHANGED <<s1, s2, s3, s4, s7>>
    BY <1>5 DEF B!ReadFile
  <2>2. CASE s4 # None /\ s5.at - s4.updated \in 0..StateStale
    <3> DEFINE n == s4.remaining - (s5.at - s4.updated)
               left == B!Max({n, 0})
               age == s5.at - s4.updated
    <3>1. n \in Int /\ s5.at \in Int /\ s4.confirmed \in Int /\ s5.at - s4.confirmed <= StateStale + EndMinGap
      BY <1>a, <2>2 DEF BriefInv
    <3>2. B!aged_remaining(s4, s5.at) = {left}
      BY <2>2 DEF B!aged_remaining
    <3>3. B!Told(B!walltime_warning(left), left, s4.confirmed)
      <4> HIDE DEF left
      <4> QED BY <1>5, <2>2, <3>2 DEF B!ReadFile
    <3>4. s6' = [text |-> B!walltime_warning(left), left |-> left, from |-> s4.confirmed, at |-> s5.at]
          /\ s5' = B!Idle
      BY <3>3 DEF B!Told
    <3>5. s3 < s4.confirmed /\ s2 # None => left = B!Max({s2 - s5.at, 0})
      <4> SUFFICES ASSUME s3 < s4.confirmed, s2 # None PROVE left = B!Max({s2 - s5.at, 0})
        OBVIOUS
      <4>1. s2 \in Nat /\ s4.remaining = B!Max({s2 - s4.updated, 0}) /\ s4.updated \in Nat /\ s5.at \in Nat
        BY <1>a, <2>2 DEF BriefInv
      <4>2. age \in Nat /\ s2 - s4.updated \in Int /\ (s2 - s4.updated) - age = s2 - s5.at
        BY <1>a, <2>2, <4>1
      <4> HIDE DEF age
      <4>3. B!Max({B!Max({s2 - s4.updated, 0}) - age, 0}) = B!Max({(s2 - s4.updated) - age, 0})
        BY <4>2, LeftAges
      <4> QED BY <4>1, <4>2, <4>3 DEF age
    <3>6. B!BudgetsAreTrue
      <4> HIDE DEF n
      <4> QED BY <2>1, <3>1, <3>4, <3>5, ToldIsTrue
    <3>7. BriefInv'
      BY <2>1, <3>4 DEF BriefInv, B!Idle
    <3> QED BY <3>6, <3>7
  <2>3. CASE ~(s4 # None /\ s5.at - s4.updated \in 0..StateStale)
    <3>1. (IF s4 = None THEN {} ELSE B!aged_remaining(s4, s5.at)) = {}
      BY <2>3 DEF B!aged_remaining
    <3>2. s5' = [s5 EXCEPT !.step = "slurm"] /\ UNCHANGED s6
      BY <1>5, <3>1 DEF B!ReadFile
    <3>3. BriefInv'
      BY <2>1, <3>2 DEF BriefInv
    <3> QED BY <1>q, <3>2, <3>3
  <2> QED BY <2>2, <2>3
<1>6. CASE B!AskSlurm
  <2>1. UNCHANGED <<s1, s2, s3, s4, s7>>
    BY <1>6 DEF B!AskSlurm
  <2>2. s5' = B!Idle
    BY <1>6 DEF B!AskSlurm, B!from_row, B!Told
  <2>3. BriefInv'
    BY <2>1, <2>2 DEF BriefInv, B!Idle
  <2>4. CASE s6' = [text |-> "unknown", left |-> None, from |-> None, at |-> s5.at]
    <3>1. s6'.left = None
      BY <2>4
    <3> QED BY <2>3, <3>1 DEF B!BudgetsAreTrue
  <2>5. CASE s6' # [text |-> "unknown", left |-> None, from |-> None, at |-> s5.at]
    <3>1. s2 # None
      BY <1>6, <2>5 DEF B!AskSlurm, B!from_row, B!Told
    <3>2. s2 \in Nat /\ s1 \in Nat /\ s5.at \in Nat /\ s5.at - s1 <= StateStale + EndMinGap /\ s1 - s1 <= StateStale + EndMinGap
      <4>1. s2 \in Nat /\ s1 \in Nat /\ s5.at \in Nat /\ s5.at <= s1
        BY <1>a, <3>1 DEF BriefInv
      <4>2. s5.at - s1 <= 0 /\ s1 - s1 = 0 /\ StateStale \in Nat /\ EndMinGap \in Nat
        BY <1>a, <4>1
      <4> QED BY <4>1, <4>2
    <3>3. PICK when \in {s5.at, s1} : \E text \in {"briefing", B!walltime_warning(B!Max({s2 - when, 0}))} :
            s6' = [text |-> text, left |-> B!Max({s2 - when, 0}), from |-> s1, at |-> when]
      <4>1. CASE s5.what = "prompt"
        <5>1. s6' = [text |-> B!walltime_warning(B!Max({s2 - s5.at, 0})), left |-> B!Max({s2 - s5.at, 0}),
                     from |-> s1, at |-> s5.at]
          BY <1>6, <2>5, <4>1 DEF B!AskSlurm, B!from_row, B!Told
        <5> QED BY <5>1
      <4>2. CASE s5.what # "prompt"
        <5>1. s6' = [text |-> "briefing", left |-> B!Max({s2 - s1, 0}), from |-> s1, at |-> s1]
          BY <1>6, <2>5, <4>2 DEF B!AskSlurm, B!from_row, B!Told
        <5> QED BY <5>1
      <4> QED BY <4>1, <4>2
    <3> DEFINE n == s2 - when
    <3>4. n \in Int /\ when \in Int /\ s1 \in Int /\ when - s1 <= StateStale + EndMinGap /\ n = s2 - when
      BY <3>2, <3>3
    <3>5. PICK text :
          /\ text = B!walltime_warning(B!Max({n, 0})) \/ text = "briefing"
          /\ s6' = [text |-> text, left |-> B!Max({n, 0}), from |-> s1, at |-> when]
      BY <3>3
    <3>6. s3 < s1 /\ s2 # None => B!Max({n, 0}) = B!Max({s2 - when, 0})
      OBVIOUS
    <3> HIDE DEF n
    <3>7. B!BudgetsAreTrue
      BY <2>1, <3>4, <3>5, <3>6, ToldIsTrue
    <3> QED BY <2>3, <3>7
  <2> QED BY <2>3, <2>4, <2>5
<1>7. ASSUME NEW what \in {"prompt", "briefing"}, B!Begin(what) PROVE BriefInv' /\ B!BudgetsAreTrue
  <2>1. PICK step \in {"file", "slurm"} : s5' = [what |-> what, at |-> s1, step |-> step]
    BY <1>7 DEF B!Begin
  <2>2. UNCHANGED <<s1, s2, s3, s4, s7>> /\ s6'.left = None
    BY <1>7 DEF B!Begin, B!Silent
  <2>3. BriefInv'
    BY <2>1, <2>2 DEF BriefInv
  <2>4. B!BudgetsAreTrue
    BY <2>2 DEF B!BudgetsAreTrue
  <2> QED BY <2>3, <2>4
<1> QED BY <1>0, <1>1, <1>2, <1>3, <1>4, <1>5, <1>6, <1>7, <1>8 DEF B!Next

----------------------------------------------------------------------------
(* Worktrees that are given.                                               *)

\* While no two hooks have met, each root has one at work, and a worktree that
\* is not whole has the one that makes it.
AtWork(a, root) == s4[a].at \in {"branch", "add", "adding"} /\ H!Root(s4[a].repo) = root
WholeInv ==
  ~s6 =>
    /\ \A a, b \in Askers : \A r \in H!Roots : AtWork(a, r) /\ AtWork(b, r) => a = b
    /\ \A a \in Askers : s5.at # "idle" => ~AtWork(a, s5.root)
    /\ \A a \in Askers : s4[a].at = "adding" =>
         s2[H!Root(s4[a].repo)] # None /\ s2[H!Root(s4[a].repo)].repo = s4[a].repo
    /\ ~s7 => \A r \in H!Roots : s2[r] # None /\ ~s2[r].whole =>
         \E a \in Askers : s4[a].at = "adding" /\ H!Root(s4[a].repo) = r

LEMMA NoTreeIsNone ==
  /\ None \notin [repo : Repos, whole : BOOLEAN]
  /\ \A repo \in Repos : [repo |-> repo, whole |-> FALSE] \in [repo : Repos, whole : BOOLEAN]
<1>1. None \notin [repo : Repos, whole : BOOLEAN]
  BY StoryAssumption
<1> QED BY <1>1

LEMMA WholeBegins == H!Init => WholeInv
<1> SUFFICES ASSUME H!Init PROVE WholeInv
  OBVIOUS
<1>1. \A a \in Askers : s4[a].at = "idle"
  BY DEF H!Init
<1> QED BY <1>1 DEF H!Init, WholeInv, AtWork

LEMMA WholeStep ==
  ASSUME TreesInv, WholeInv, H!Next \/ UNCHANGED slots
  PROVE  WholeInv' /\ (H!GivingIsWhole \/ UNCHANGED slots)
<1>0. CASE UNCHANGED slots
  BY <1>0 DEF slots, WholeInv, AtWork, H!Root, H!Roots
<1>t. /\ \A a \in Askers : s4[a].repo \in Repos /\ H!Root(s4[a].repo) \in H!Roots
      /\ DOMAIN s2 = H!Roots
  BY DEF TreesInv, H!Root, H!Roots
<1>r. ASSUME UNCHANGED s1, NEW b, s4'[b].repo = s4[b].repo
      PROVE  H!Root(s4[b].repo)' = H!Root(s4[b].repo)
  BY <1>r DEF H!Root
\* Who was not at work and is not sent to work is not.
<1>w. ASSUME UNCHANGED <<s1, s5>>, NEW b, s4'[b].repo = s4[b].repo,
             s4'[b].at \in {"branch", "add", "adding"} => s4[b].at \in {"branch", "add", "adding"}
      PROVE  (\A r : AtWork(b, r)' => AtWork(b, r)) /\ (AtWork(b, s5.root)' => AtWork(b, s5.root))
  BY <1>w DEF AtWork, H!Root
\* A hook that goes from one place to another.
<1>s. ASSUME NEW a \in Askers, NEW here, H!Step(a, here)
      PROVE  /\ \A b \in Askers : s4'[b].repo = s4[b].repo
             /\ s4'[a].at = here
             /\ \A b \in Askers \ {a} : s4'[b] = s4[b]
  BY <1>s DEF H!Step, TreesInv
\* No step but two gives a worktree.
<1>g. ASSUME \A a \in Askers : s4'[a].at = "given" => s4[a].at = "given" PROVE H!GivingIsWhole
  BY <1>g DEF H!GivingIsWhole
<1>1. CASE H!LookRemoved
  <2>1. PICK root \in H!Roots : /\ s5' = [at |-> "remove", root |-> root, repo |-> s2[root].repo]
                               /\ s6' = (s6 \/ H!Working(root))
    BY <1>1 DEF H!LookRemoved
  <2>2. UNCHANGED <<s1, s2, s4, s7>>
    BY <1>1 DEF H!LookRemoved
  <2>3. ASSUME ~s6' PROVE ~s6 /\ \A a \in Askers : ~AtWork(a, root)
    BY <2>1, <2>3 DEF H!Working, AtWork
  <2>4. WholeInv'
    BY <2>1, <2>2, <2>3 DEF WholeInv, AtWork, H!Root, H!Roots
  <2> QED BY <1>g, <2>2, <2>4
<1>2. CASE H!Remove
  <2>1. /\ s5.at = "remove" /\ UNCHANGED <<s1, s4, s6, s7>> /\ s5.root \in H!Roots
        /\ s2' \in {s2, [s2 EXCEPT ![s5.root] = None]}
        /\ \E there \in {"idle", "branch"} : s5' = [s5 EXCEPT !.at = there]
    BY <1>2 DEF H!Remove, TreesInv
  <2>2. s5'.root = s5.root
    BY <2>1
  <2>3. \A r \in H!Roots : s2'[r] = None \/ s2'[r] = s2[r]
    BY <1>t, <2>1
  <2>4. \A r \in H!Roots \ {s5.root} : s2'[r] = s2[r]
    BY <1>t, <2>1
  <2>5. WholeInv'
    BY <1>t, <2>1, <2>2, <2>3, <2>4 DEF WholeInv, AtWork, H!Root, H!Roots
  <2> QED BY <1>g, <2>1, <2>5
<1>3. CASE H!DeleteBranch
  <2>1. UNCHANGED <<s1, s2, s4, s6, s7>> /\ s5' = [s5 EXCEPT !.at = "idle"] /\ s5.at = "branch"
    BY <1>3 DEF H!DeleteBranch
  <2>2. s5'.at = "idle"
    BY <2>1 DEF TreesInv
  <2>3. WholeInv'
    BY <2>1, <2>2 DEF WholeInv, AtWork, H!Root, H!Roots
  <2> QED BY <1>g, <2>1, <2>3
<1>4. ASSUME NEW a \in Askers, H!Look(a) PROVE WholeInv' /\ H!GivingIsWhole
  <2> DEFINE root == H!Root(s4[a].repo)
  <2>1. PICK here \in {"given", "branch"} :
          /\ H!Step(a, here) /\ (here = "given" => s2[root] # None)
          /\ UNCHANGED <<s1, s2, s5, s7>> /\ s6' = (s6 \/ H!Working(root))
    BY <1>4 DEF H!Look
  <2>2. /\ \A b \in Askers : s4'[b].repo = s4[b].repo
        /\ s4'[a].at = here
        /\ \A b \in Askers \ {a} : s4'[b] = s4[b]
    BY <1>s, <2>1
  <2>3. root \in H!Roots /\ H!Roots' = H!Roots /\ s4[a].at = "idle"
    BY <1>t, <1>4 DEF H!Look, H!Roots
  <2>a. \A b \in Askers : H!Root(s4[b].repo)' = H!Root(s4[b].repo)
    BY <1>r, <2>1, <2>2
  <2>4. /\ \A b \in Askers, r \in H!Roots : AtWork(b, r)' => AtWork(b, r) \/ (b = a /\ r = root)
        /\ \A b \in Askers : AtWork(b, s5.root)' => AtWork(b, s5.root) \/ (b = a /\ s5.root = root)
    BY <2>a, <2>1, <2>2 DEF AtWork
  <2>5. ASSUME ~s6'
        PROVE  /\ ~s6 /\ \A b \in Askers : ~AtWork(b, root)
               /\ s5.at # "idle" => s5.root # root
    BY <2>1, <2>5 DEF H!Working, AtWork
  <2>6. \A b \in Askers : s4'[b].at = "adding" <=> s4[b].at = "adding"
    BY <2>1, <2>2, <2>3
  <2>7. H!GivingIsWhole
    <3>1. ASSUME NEW b \in Askers, s4[b].at # "given", s4'[b].at = "given", ~s6', ~s7'
          PROVE  b = a /\ s2'[root] # None /\ s2'[root].whole
      <4>1. b = a /\ s2[root] # None
        BY <2>1, <2>2, <3>1
      <4>2. s2[root].whole
        BY <2>1, <2>3, <2>5, <3>1, <4>1 DEF WholeInv, AtWork
      <4> QED BY <2>1, <4>1, <4>2
    <3> QED BY <3>1 DEF H!GivingIsWhole
  <2> HIDE DEF root
  <2>8. ASSUME ~s6' PROVE /\ \A b, d \in Askers : \A r \in H!Roots : AtWork(b, r)' /\ AtWork(d, r)' => b = d
                          /\ \A b \in Askers : s5.at # "idle" => ~AtWork(b, s5.root)'
    <3>1. ~s6
      BY <2>5, <2>8
    <3>2. s5.at # "idle" => s5.root \in H!Roots
      BY DEF TreesInv
    <3>3. \A b, d \in Askers : \A r \in H!Roots : AtWork(b, r)' /\ AtWork(d, r)' => b = d
      BY <2>4, <2>5, <2>8, <3>1 DEF WholeInv
    <3>4. \A b \in Askers : s5.at # "idle" => ~AtWork(b, s5.root)'
      BY <2>4, <2>5, <2>8, <3>1, <3>2 DEF WholeInv
    <3> QED BY <3>3, <3>4
  <2>9. WholeInv'
    BY <2>a, <2>1, <2>2, <2>3, <2>5, <2>6, <2>8 DEF WholeInv
  <2> QED BY <2>7, <2>9
\* Steps of a hook that is at work.
<1>5. ASSUME NEW a \in Askers, H!LookForBranch(a) PROVE WholeInv' /\ H!GivingIsWhole
  <2>1. /\ s4[a].at = "branch" /\ UNCHANGED <<s1, s2, s5, s6, s7>>
        /\ s4' = [s4 EXCEPT ![a].at = "add", ![a].has = s3[s4[a].repo] # None]
    BY <1>5 DEF H!LookForBranch
  <2>2. /\ \A b \in Askers : s4'[b].repo = s4[b].repo
        /\ s4'[a].at = "add" /\ \A b \in Askers \ {a} : s4'[b] = s4[b]
    BY <2>1 DEF TreesInv
  <2>3. \A b \in Askers : H!Root(s4[b].repo)' = H!Root(s4[b].repo)
    BY <1>r, <2>1, <2>2
  <2>4. /\ \A b \in Askers, r \in H!Roots : AtWork(b, r)' => AtWork(b, r)
        /\ \A b \in Askers : AtWork(b, s5.root)' => AtWork(b, s5.root)
    BY <1>w, <2>1, <2>2
  <2>5. \A b \in Askers : s4'[b].at = "adding" <=> s4[b].at = "adding"
    BY <2>1, <2>2
  <2>6. H!Roots' = H!Roots
    BY DEF H!Roots
  <2>7. WholeInv'
    <3>1. ASSUME ~s6' PROVE
          /\ \A b, d \in Askers : \A r \in H!Roots : AtWork(b, r)' /\ AtWork(d, r)' => b = d
          /\ \A b \in Askers : s5'.at # "idle" => ~AtWork(b, s5.root)'
      BY <2>1, <2>4, <3>1 DEF WholeInv
    <3>2. ASSUME ~s6', NEW b \in Askers, s4'[b].at = "adding"
          PROVE  s2'[H!Root(s4[b].repo)'] # None /\ s2'[H!Root(s4[b].repo)'].repo = s4'[b].repo
      BY <2>1, <2>2, <2>3, <2>5, <3>2 DEF WholeInv
    <3>3. ASSUME ~s6', ~s7', NEW r \in H!Roots, s2'[r] # None, ~s2'[r].whole
          PROVE  \E b \in Askers : s4'[b].at = "adding" /\ H!Root(s4[b].repo)' = r
      BY <2>1, <2>3, <2>5, <3>3 DEF WholeInv
    <3> QED BY <2>6, <3>1, <3>2, <3>3 DEF WholeInv
  <2> QED BY <1>g, <2>2, <2>7
<1>6. ASSUME NEW a \in Askers, H!Add(a) PROVE WholeInv' /\ H!GivingIsWhole
  <2> DEFINE repo == s4[a].repo
             root == H!Root(repo)
  <2>1. /\ s4[a].at = "add" /\ UNCHANGED <<s1, s5, s6, s7>>
        /\ \/ /\ s2[root] = None /\ s2' = [s2 EXCEPT ![root] = [repo |-> repo, whole |-> FALSE]]
              /\ H!Step(a, "adding")
           \/ H!Step(a, "failed") /\ UNCHANGED s2
    BY <1>6 DEF H!Add, H!GiveUp
  <2>2. PICK here \in {"adding", "failed"} :
          /\ \A b \in Askers : s4'[b].repo = s4[b].repo
          /\ s4'[a].at = here /\ \A b \in Askers \ {a} : s4'[b] = s4[b]
          /\ \/ here = "adding" /\ s2[root] = None /\ s2' = [s2 EXCEPT ![root] = [repo |-> repo, whole |-> FALSE]]
             \/ here = "failed" /\ UNCHANGED s2
    <3>1. CASE H!Step(a, "adding") /\ s2[root] = None /\ s2' = [s2 EXCEPT ![root] = [repo |-> repo, whole |-> FALSE]]
      BY <1>s, <3>1
    <3>2. CASE H!Step(a, "failed") /\ UNCHANGED s2
      BY <1>s, <3>2
    <3> QED BY <2>1, <3>1, <3>2
  <2>3. root \in H!Roots /\ H!Roots' = H!Roots /\ repo = s4[a].repo /\ root = H!Root(repo)
    BY <1>t DEF H!Roots
  <2>a. \A b \in Askers : H!Root(s4[b].repo)' = H!Root(s4[b].repo)
    BY <1>r, <2>1, <2>2
  <2>4. /\ \A b \in Askers, r \in H!Roots : AtWork(b, r)' => AtWork(b, r)
        /\ \A b \in Askers : AtWork(b, s5.root)' => AtWork(b, s5.root)
    BY <1>w, <2>1, <2>2
  <2>5. AtWork(a, root)
    BY <2>1 DEF AtWork
  <2> HIDE DEF root, repo
  <2>6. here = "adding" => s2'[root] # None /\ s2'[root].repo = repo
    <3> DEFINE tree == [repo |-> repo, whole |-> FALSE]
    <3>1. tree # None /\ tree.repo = repo
      BY <1>t, <2>3, NoTreeIsNone
    <3>2. here = "adding" => s2' = [s2 EXCEPT ![root] = tree]
      BY <2>2
    <3> HIDE DEF tree
    <3> QED BY <1>t, <2>3, <3>1, <3>2
  <2>7. \A r \in H!Roots \ {root} : s2'[r] = s2[r]
    BY <1>t, <2>2
  <2>8. ASSUME ~s6' PROVE
        /\ \A b, d \in Askers : \A r \in H!Roots : AtWork(b, r)' /\ AtWork(d, r)' => b = d
        /\ \A b \in Askers : s5'.at # "idle" => ~AtWork(b, s5.root)'
    <3>1. s5.at # "idle" => s5.root \in H!Roots
      BY DEF TreesInv
    <3> QED BY <2>1, <2>4, <2>8, <3>1 DEF WholeInv
  <2>9. ASSUME ~s6', NEW b \in Askers, s4'[b].at = "adding"
        PROVE  s2'[H!Root(s4[b].repo)'] # None /\ s2'[H!Root(s4[b].repo)'].repo = s4'[b].repo
    <3>1. CASE b = a
      BY <2>a, <2>1, <2>2, <2>3, <2>6, <2>9, <3>1
    <3>2. CASE b # a
      <4>1. s4[b].at = "adding" /\ AtWork(b, H!Root(s4[b].repo)) /\ H!Root(s4[b].repo) \in H!Roots
        BY <1>t, <2>2, <2>9, <3>2 DEF AtWork
      <4>2. H!Root(s4[b].repo) # root
        BY <2>1, <2>3, <2>5, <2>9, <3>2, <4>1 DEF WholeInv
      <4>3. s2[H!Root(s4[b].repo)] # None /\ s2[H!Root(s4[b].repo)].repo = s4[b].repo
        BY <2>1, <2>9, <4>1 DEF WholeInv
      <4> QED BY <2>a, <2>1, <2>2, <2>7, <4>1, <4>2, <4>3
    <3> QED BY <3>1, <3>2
  <2>10. ASSUME ~s6', ~s7', NEW r \in H!Roots, s2'[r] # None, ~s2'[r].whole
         PROVE  \E b \in Askers : s4'[b].at = "adding" /\ H!Root(s4[b].repo)' = r
    <3>1. CASE r = root /\ here = "adding"
      BY <2>a, <2>1, <2>2, <2>3, <3>1
    <3>2. CASE ~(r = root /\ here = "adding")
      <4>1. s2'[r] = s2[r]
        BY <2>2, <2>7, <3>2
      <4>2. PICK b \in Askers : s4[b].at = "adding" /\ H!Root(s4[b].repo) = r
        BY <2>1, <2>10, <4>1 DEF WholeInv
      <4>3. b # a
        BY <2>1, <4>2
      <4> QED BY <2>a, <2>1, <2>2, <4>2, <4>3
    <3> QED BY <3>1, <3>2
  <2>11. WholeInv'
    BY <2>3, <2>8, <2>9, <2>10 DEF WholeInv
  <2>12. H!GivingIsWhole
    BY <1>g, <2>2
  <2> QED BY <2>11, <2>12
<1>7. ASSUME NEW a \in Askers, H!Added(a) \/ H!Kill(a) PROVE WholeInv' /\ H!GivingIsWhole
  <2> DEFINE root == H!Root(s4[a].repo)
  <2>1. /\ s4[a].at = "adding" /\ UNCHANGED <<s1, s5, s6>>
        /\ \/ /\ s2[root] # None /\ s2[root].repo = s4[a].repo /\ s7' = s7
              /\ s2' = [s2 EXCEPT ![root].whole = TRUE] /\ H!Step(a, "given")
           \/ /\ ~(s2[root] # None /\ s2[root].repo = s4[a].repo) /\ s7' = s7
              /\ H!Step(a, "failed") /\ UNCHANGED s2
           \/ /\ s7' /\ H!Step(a, "failed") /\ s2' \in {s2, [s2 EXCEPT ![root] = None]}
    BY <1>7 DEF H!Added, H!Kill, H!GiveUp
  <2>2. PICK here \in {"given", "failed"} : H!Step(a, here)
    BY <2>1
  <2>3. /\ \A b \in Askers : s4'[b].repo = s4[b].repo
        /\ s4'[a].at = here /\ \A b \in Askers \ {a} : s4'[b] = s4[b]
    BY <1>s, <2>2
  <2>4. root \in H!Roots /\ H!Roots' = H!Roots /\ AtWork(a, root) /\ root = H!Root(s4[a].repo)
    BY <1>t, <2>1 DEF H!Roots, AtWork
  <2> HIDE DEF root
  <2>5. \A r \in H!Roots \ {root} : s2'[r] = s2[r]
    BY <1>t, <2>1
  <2>a. \A b \in Askers : H!Root(s4[b].repo)' = H!Root(s4[b].repo)
    BY <1>r, <2>1, <2>3
  <2>6. /\ \A b \in Askers, r \in H!Roots : AtWork(b, r)' => AtWork(b, r)
        /\ \A b \in Askers : AtWork(b, s5.root)' => AtWork(b, s5.root)
    BY <1>w, <2>1, <2>3
  <2>7. ASSUME ~s6', ~s7' PROVE s2'[root] # None /\ s2'[root].whole
    <3>1. s2[root] # None /\ s2[root].repo = s4[a].repo
      BY <2>1, <2>4, <2>7 DEF WholeInv
    <3>2. s2' = [s2 EXCEPT ![root] = [s2[root] EXCEPT !.whole = TRUE]]
      BY <2>1, <2>7, <3>1
    <3>3. s2[root] \in [repo : Repos, whole : BOOLEAN]
      BY <2>4, <3>1 DEF TreesInv, TreeOf
    <3>4. [s2[root] EXCEPT !.whole = TRUE].whole /\ [s2[root] EXCEPT !.whole = TRUE] \in [repo : Repos, whole : BOOLEAN]
      BY <3>3
    <3>5. [s2[root] EXCEPT !.whole = TRUE] # None
      BY <3>4, NoTreeIsNone
    <3> DEFINE tree == [s2[root] EXCEPT !.whole = TRUE]
    <3>6. s2' = [s2 EXCEPT ![root] = tree] /\ tree # None /\ tree.whole
      BY <3>2, <3>4, <3>5
    <3> HIDE DEF tree
    <3> QED BY <1>t, <2>4, <3>6
  <2>8. ASSUME ~s6' PROVE
        /\ \A b, d \in Askers : \A r \in H!Roots : AtWork(b, r)' /\ AtWork(d, r)' => b = d
        /\ \A b \in Askers : s5'.at # "idle" => ~AtWork(b, s5.root)'
    <3>1. s5.at # "idle" => s5.root \in H!Roots
      BY DEF TreesInv
    <3> QED BY <2>1, <2>6, <2>8, <3>1 DEF WholeInv
  <2>9. ASSUME ~s6', NEW b \in Askers, s4'[b].at = "adding"
        PROVE  s2'[H!Root(s4[b].repo)'] # None /\ s2'[H!Root(s4[b].repo)'].repo = s4'[b].repo
    <3>1. b # a /\ s4[b].at = "adding"
      BY <2>3, <2>9
    <3>2. AtWork(b, H!Root(s4[b].repo)) /\ H!Root(s4[b].repo) \in H!Roots
      BY <1>t, <3>1 DEF AtWork
    <3>3. H!Root(s4[b].repo) # root
      BY <2>1, <2>4, <2>9, <3>1, <3>2 DEF WholeInv
    <3>4. s2[H!Root(s4[b].repo)] # None /\ s2[H!Root(s4[b].repo)].repo = s4[b].repo
      BY <2>1, <2>9, <3>1 DEF WholeInv
    <3> QED BY <2>a, <2>1, <2>3, <2>5, <3>1, <3>2, <3>3, <3>4
  <2>10. ASSUME ~s6', ~s7', NEW r \in H!Roots, s2'[r] # None, ~s2'[r].whole
         PROVE  \E b \in Askers : s4'[b].at = "adding" /\ H!Root(s4[b].repo)' = r
    <3>1. r # root
      BY <2>7, <2>10
    <3>2. s2'[r] = s2[r] /\ ~s6 /\ ~s7
      BY <2>1, <2>5, <2>10, <3>1
    <3>3. PICK b \in Askers : s4[b].at = "adding" /\ H!Root(s4[b].repo) = r
      BY <2>10, <3>2 DEF WholeInv
    <3>4. b # a
      BY <2>4, <3>1, <3>3
    <3> QED BY <2>a, <2>1, <2>3, <3>3, <3>4
  <2>11. WholeInv'
    BY <2>4, <2>8, <2>9, <2>10 DEF WholeInv
  <2>12. H!GivingIsWhole
    BY <2>3, <2>4, <2>7 DEF H!GivingIsWhole
  <2> QED BY <2>11, <2>12
<1>8. ASSUME NEW a \in Askers, H!Ask(a) PROVE WholeInv' /\ H!GivingIsWhole
  <2>1. PICK repo \in Repos : s4' = [s4 EXCEPT ![a] = [at |-> "idle", repo |-> repo, has |-> FALSE]]
    BY <1>8 DEF H!Ask
  <2>2. UNCHANGED <<s1, s2, s5, s6, s7>> /\ s4[a].at \in {"given", "failed"}
    BY <1>8 DEF H!Ask
  <2>3. s4'[a].at = "idle" /\ \A b \in Askers \ {a} : s4'[b] = s4[b]
    BY <2>1 DEF TreesInv
  <2>4. WholeInv'
    BY <1>r, <2>2, <2>3 DEF WholeInv, AtWork, H!Roots
  <2> QED BY <1>g, <2>3, <2>4
<1>9. ASSUME NEW a \in Askers, H!Commit(a) PROVE WholeInv' /\ H!GivingIsWhole
  <2>1. UNCHANGED <<s1, s2, s4, s5, s6, s7>>
    BY <1>9 DEF H!Commit
  <2>2. WholeInv'
    BY <2>1 DEF WholeInv, AtWork, H!Root, H!Roots
  <2> QED BY <1>g, <2>1, <2>2
<1> QED BY <1>0, <1>1, <1>2, <1>3, <1>4, <1>5, <1>6, <1>7, <1>8, <1>9 DEF H!Next
----------------------------------------------------------------------------
(* All of them.                                                            *)

StepInv ==
  /\ story = "metrics" => UseInv
  /\ story = "install" => SkillInv
  /\ story = "mcp" => QuietInv
  /\ story = "briefing" => BriefInv
  /\ story = "worktrees" => TreesInv /\ WholeInv
LEMMA StepsBegin == StoryInit => StepInv
<1> SUFFICES ASSUME StoryInit PROVE StepInv
  OBVIOUS
<1>1. /\ story = "metrics" => M!Init
      /\ story = "install" => I!Init
      /\ story = "mcp" => Y!Init
      /\ story = "briefing" => B!Init
      /\ story = "worktrees" => H!Init
  BY DEF StoryInit
<1> QED
  BY <1>1, UseBegins, SkillBegins, QuietBegins, BriefBegins, TreesBegin, WholeBegins DEF StepInv

\* One step of whichever machine runs.
TrueStep ==
  /\ story = "metrics" => M!ChargesTheUse
  /\ story = "install" => I!SkillsStay
  /\ story = "mcp" => Y!StalenessIsTold
  /\ story = "briefing" => B!BudgetsAreTrue
  /\ story = "worktrees" => H!GivingIsWhole

LEMMA StepIsTrue == StepInv /\ [StoryNext]_storyVars => StepInv' /\ [TrueStep]_slots
<1> SUFFICES ASSUME StepInv, [StoryNext]_storyVars PROVE StepInv' /\ (TrueStep \/ UNCHANGED slots)
  OBVIOUS
<1>1. /\ story' = story
      /\ story = "metrics" => M!Next \/ UNCHANGED slots
      /\ story = "install" => I!Next \/ UNCHANGED slots
      /\ story = "mcp" => Y!Next \/ UNCHANGED slots
      /\ story = "briefing" => B!Next \/ UNCHANGED slots
      /\ story = "worktrees" => H!Next \/ UNCHANGED slots
  BY StorySteps
<1>2. story = "metrics" => UseInv' /\ (M!ChargesTheUse \/ UNCHANGED slots)
  BY <1>1, UseStep DEF StepInv
<1>3. story = "install" => SkillInv' /\ (I!SkillsStay \/ UNCHANGED slots)
  BY <1>1, SkillStep DEF StepInv
<1>4. story = "mcp" => QuietInv' /\ (Y!StalenessIsTold \/ UNCHANGED slots)
  BY <1>1, QuietStep DEF StepInv
<1>5. story = "briefing" => BriefInv' /\ (B!BudgetsAreTrue \/ UNCHANGED slots)
  BY <1>1, BriefStep DEF StepInv
<1>6. story = "worktrees" => TreesInv' /\ WholeInv' /\ (H!GivingIsWhole \/ UNCHANGED slots)
  BY <1>1, TreesStep, WholeStep DEF StepInv
<1> QED BY <1>1, <1>2, <1>3, <1>4, <1>5, <1>6 DEF StepInv, TrueStep

\* What a step tells or gives is so: no process is charged for more than it
\* used (procs.rs refresh), no skill is gone before its successor is there
\* (install_claude.rs), a server that an upgrade left behind says so (mcp.rs
\* agent_context), an agent is told what is left by the end in force when it
\* was read (hook.rs, agent_context.rs), and a worktree is filled when it is
\* given, unless two hooks met or one was killed (hook.rs worktree_create).
THEOREM StepsHold == StorySpec => StepsAreTrue
<1>1. StoryInit => StepInv
  BY StepsBegin
<1>2. StepInv /\ [StoryNext]_storyVars => StepInv' /\ [TrueStep]_slots
  BY StepIsTrue
<1>3. StorySpec => [][TrueStep]_slots
  BY <1>1, <1>2, PTL DEF StorySpec
<1> QED BY <1>3 DEF StepsAreTrue, TrueStep
=============================================================================
