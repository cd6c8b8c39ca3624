---------------------------- MODULE ScratchGuard ----------------------------
(***************************************************************************)
(* The scratch-guard hook (scratch_guard.rs): which writes it denies. Its  *)
(* commands are the ones ShellSplit's split gives, with every word a path: *)
(* its components, the first of them "/" or "~" for one that is not        *)
(* relative, and a flag or a command a word of one component.              *)
(***************************************************************************)
EXTENDS Naturals, Sequences, SequencesExt

CONSTANTS
  Commands,   \* the sequences of simple commands judged
  Caches,     \* the names that exist in ~/.cache
  Home, Start \* the home and the directory the command starts in

VARIABLES
  cmds,       \* what the agent is about to run
  left,       \* the commands bash_verdict has still to look at
  cwd,
  denied      \* Pass, or why

vars == <<cmds, left, cwd, denied>>

Pass == ""
Bulk == {"data.bam", "x.pod5"}
IsBulk(word) == word # <<>> /\ word[Len(word)] \in Bulk
Table(word) == word[Len(word)] = "t.csv"

Simple(words, redirects) == [words |-> words, redirects |-> redirects]

TypeOK ==
  /\ IsSuffix(left, cmds)
  /\ cwd \in Seq(STRING) /\ cwd[1] = "/"
  /\ denied \in {Pass, "bulk", "cache", "large"}

Init == cmds \in Commands /\ left = cmds /\ cwd = Start /\ denied = Pass

----------------------------------------------------------------------------
(* Paths.                                                                  *)

Joined(word, dir) ==
  CASE word[1] = "~" -> Home \o Tail(word)
    [] word[1] = "/" -> word
    [] OTHER -> dir \o word

\* (mutant) `..` is kept like any name.
ExpandAsIs(word, dir) == SelectSeq(Joined(word, dir), LAMBDA c : c # ".")

\* expand: `.` and `..` are folded without looking at the disk; the root
\* has no parent.
Expand(word, dir) ==
  FoldLeft(LAMBDA out, c : IF c = "." THEN out
                           ELSE IF c = ".." THEN IF Len(out) > 1 THEN Front(out) ELSE out
                           ELSE Append(out, c), <<>>, Joined(word, dir))

InWorktree(path) ==
  \/ \E i \in 1..(Len(path) - 1) : path[i] = ".claude" /\ path[i + 1] = "worktrees"
  \/ IsPrefix(<<"/", "scratch", "alpine">>, path) /\ "worktrees" \in ToSet(path)

NewCacheEntry(path) ==
  LET cache == Append(Home, ".cache")
  IN IsStrictPrefix(cache, path) /\ path[Len(cache) + 1] \notin Caches

\* A word that writes `word` as it is named, into `path`.
Judge(word, path) ==
  IF NewCacheEntry(path) THEN "cache"
  ELSE IF InWorktree(path) /\ IsBulk(word) THEN "bulk" ELSE Pass

\* file_verdict, of the Write tool's file and how long it is: a tool call is
\* a line of one command here, whose name is the tool's.
FileVerdict(file, len) ==
  LET path == Expand(file, cwd)
  IN IF Judge(path, path) # Pass THEN Judge(path, path)
     ELSE IF \/ InWorktree(path) /\ len = <<"1G">>
             \/ Table(path) /\ len \in {<<"1G">>, <<"100M">>} THEN "large" ELSE Pass

----------------------------------------------------------------------------
(* bash_verdict.                                                           *)

Wrappers == {"sudo", "env", "time", "FOO=1"}
Command(word) == word[Len(word)]

\* The command without the assignments and the wrappers that run it.
Unwrapped(words) ==
  LET named == {i \in DOMAIN words : Command(words[i]) \notin Wrappers}
  IN IF named = {} THEN <<>> ELSE SubSeq(words, Min(named), Len(words))

Flag(word) == Len(word) = 1 /\ word[1] \in {"-r", "-t", "--", "-x", "-C"}

Operands(args) ==
  LET done(i) == \E j \in 1..(i - 1) : args[j] = <<"--">>
      taken(i) == i > 1 /\ args[i - 1] = <<"-t">> /\ ~done(i - 1)
      kept == {i \in DOMAIN args : (done(i) \/ ~Flag(args[i])) /\ ~taken(i)}
  IN [k \in 1..Cardinality(kept) |->
        args[CHOOSE i \in kept : Cardinality({j \in kept : j <= i}) = k]]

After(args, flag) ==
  LET at == {i \in DOMAIN args : args[i] = <<flag>> /\ i < Len(args)}
  IN IF at = {} THEN <<>> ELSE args[Min(at) + 1]

\* cp, mv, rsync, install: the last operand is the target, or the one of -t.
Copy(args) ==
  LET ops == Operands(args)
      sources == IF After(args, "-t") # <<>> THEN ops ELSE Front(ops)
      named == IF After(args, "-t") # <<>> THEN After(args, "-t") ELSE ops[Len(ops)]
      dest == Expand(named, cwd)
  IN IF After(args, "-t") = <<>> /\ Len(ops) < 2 THEN Pass
     ELSE IF NewCacheEntry(dest) THEN "cache"
     ELSE IF InWorktree(dest) /\ \E w \in ToSet(sources) \cup {named} : IsBulk(w) THEN "bulk"
     ELSE Pass

Untar(args) ==
  LET dir == IF After(args, "-C") = <<>> THEN cwd ELSE Expand(After(args, "-C"), cwd)
  IN IF <<"-x">> \in ToSet(args) /\ InWorktree(dir) /\ \E a \in ToSet(args) : IsBulk(a)
     THEN "bulk" ELSE Pass

Creates(args) ==
  IF \E o \in ToSet(Operands(args)) : NewCacheEntry(Expand(o, cwd)) THEN "cache" ELSE Pass

\* The first redirect that is denied gives the reason.
Redirects(targets, dir) ==
  FoldLeft(LAMBDA r, t : IF r # Pass THEN r ELSE Judge(t, Expand(t, dir)), Pass, targets)

\* (mutant) The directory a command changes to is not followed.
CdNowhere(words) == cwd

\* Where `cd` leads, for the commands after it and the redirects of its own.
Cd(words) ==
  IF words # <<>> /\ Command(Head(words)) = "cd" /\ Operands(Tail(words)) # <<>>
  THEN Expand(Operands(Tail(words))[1], cwd) ELSE cwd

\* verdict: one turn of the loop over the simple commands, or a tool call.
Look ==
  LET words == Unwrapped(Head(left).words)
      cmd == IF words = <<>> THEN "" ELSE Command(Head(words))
      by == CASE cmd \in {"cp", "mv", "rsync", "install"} -> Copy(Tail(words))
              [] cmd = "tar" -> Untar(Tail(words))
              [] cmd \in {"mkdir", "touch", "tee"} -> Creates(Tail(words))
              [] cmd = "Write" -> FileVerdict(words[2], words[3])
              [] OTHER -> Pass
  IN /\ left # <<>> /\ denied = Pass
     /\ left' = Tail(left) /\ cwd' = Cd(words)
     /\ denied' = (IF by # Pass THEN by ELSE Redirects(Head(left).redirects, cwd'))
     /\ UNCHANGED cmds

Next == Look

Spec == Init /\ [][Next]_vars

----------------------------------------------------------------------------
(* What the commands do, when each of them succeeds.                       *)

\* Where a word leads whose dots come first, as they do in these commands.
Real(word, dir) ==
  LET from == CASE word[1] = "~" -> Home [] word[1] = "/" -> <<"/">> [] OTHER -> dir
      ups == Cardinality({i \in DOMAIN word : word[i] = ".."})
  IN SubSeq(from, 1, Len(from) - ups)
     \o SelectSeq(word, LAMBDA c : c \notin {".", "..", "~", "/"})

\* The directory that command j runs in.
Dir(j) ==
  FoldLeft(LAMBDA dir, c :
             LET w == Unwrapped(c.words)
             IN IF Len(w) = 2 /\ w[1] = <<"cd">> THEN Real(w[2], dir) ELSE dir,
           Start, SubSeq(cmds, 1, j - 1))

\* The data a copy or an archive brings, and where it goes: the words that
\* are not flags but for the target, which -t or the last place tells.
Brought(j) ==
  LET w == Unwrapped(cmds[j].words)
      n == Len(w)
      plain == {i \in 2..n : ~Flag(w[i])}
      at == {i \in 3..n : w[i - 1] \in {<<"-t">>, <<"-C">>}}
      target == IF at # {} THEN Max(at) ELSE n
  IN IF n = 0 THEN {}
     ELSE IF Command(w[1]) = "cp"
     THEN {[word |-> w[i], into |-> Real(w[target], Dir(j))] : i \in plain \ {target}}
     ELSE IF Command(w[1]) = "tar"
     THEN {[word |-> w[i], into |-> IF at = {} THEN Dir(j) ELSE Real(w[target], Dir(j))]
             : i \in plain \ at}
     ELSE IF Command(w[1]) = "Write" THEN {[word |-> w[2], into |-> Real(w[2], Dir(j))]}
     ELSE {}

Lands == {b \in UNION {Brought(j) : j \in DOMAIN cmds} : IsBulk(b.word) /\ InWorktree(b.into)}
         \cup {r \in UNION {{[word |-> t, into |-> Real(t, Dir(j + 1))]
                             : t \in ToSet(cmds[j].redirects)} : j \in DOMAIN cmds} :
                IsBulk(r.word) /\ InWorktree(r.into)}

\* When nothing is denied, no command of the line puts bulk data into a
\* worktree, however it gets there: by the directory the line has changed
\* to, by -t, by ~ or by `..`.
BulkIsKeptOut == left = <<>> /\ denied = Pass => Lands = {}

\* A copy is denied only for bulk data that would land in a worktree: one
\* out of a worktree is none of the hook's business.
NoFalseAlarm == denied = "bulk" => Lands # {}
=============================================================================
