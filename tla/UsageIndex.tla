----------------------------- MODULE UsageIndex -----------------------------
(***************************************************************************)
(* `quota reindex` and `quota top` (usage.rs, commands/quota.rs): a batch  *)
(* job walks the home directory while files come, go and move, and writes  *)
(* the index that a report is later made of.                               *)
(***************************************************************************)
EXTENDS Integers, Sequences, SequencesExt, FiniteSetsExt

CONSTANTS
  HomeFiles,   \* the files; two of them may be one file with two links
  MinDir,      \* MIN_DIR_BYTES
  ChangeBound, \* bound on the changes of the files
  LastHour,    \* bound on the clock
  None

VARIABLES
  hour,
  file,        \* by name: where it is, or None, and what it is
  changes, changed, \* history: how often the files changed, and when last
  walk,        \* the directories that the walk is in, the innermost last
  found,       \* what it has: the directories, the big files, the links seen
  began,       \* when it began
  copies,      \* the big files that are fingerprinted
  index        \* usage.json.gz

vars == <<hour, file, changes, changed, walk, found, began, copies, index>>

Dirs == {"root", "p", "q"}
Parent == [root |-> "none", p |-> "root", q |-> "p"]
Under(d) == CASE d = "root" -> Dirs [] d = "p" -> {"p", "q"} [] OTHER -> {"q"}
Nothing == [dirs |-> {}, big |-> {}, links |-> {}]

TypeOK ==
  /\ hour \in 0..LastHour /\ changes \in 0..ChangeBound
  /\ \A n \in HomeFiles : file[n].dir \in Dirs \cup {None}
  /\ \A i \in DOMAIN walk : walk[i].dir \in Dirs /\ walk[i].left \subseteq Dirs \cup HomeFiles

Kinds == {k \in [dir : Dirs, ino : HomeFiles, bytes : {1, 4}, big : BOOLEAN, text : {"x", "y"}] :
            k.big = (k.bytes = 4) /\ (k.text = "y" => k.big)}
Init ==
  /\ hour = 0 /\ changes = 0 /\ changed = -1 /\ walk = <<>> /\ found = Nothing /\ began = None /\ copies = None
  /\ file \in [HomeFiles -> Kinds]
  /\ \A n, m \in HomeFiles : file[n].ino = file[m].ino \/ (file[n].ino = n /\ file[m].ino = m)
  /\ \A n, m \in HomeFiles : file[n].ino = file[m].ino => [file[n] EXCEPT !.dir = "root"] = [file[m] EXCEPT !.dir = "root"]
  /\ index = None

There(n) == file[n].dir # None
Linked(n) == \E m \in HomeFiles \ {n} : There(m) /\ file[m].ino = file[n].ino

----------------------------------------------------------------------------
(* The files and the clock.                                                *)

Change(n) ==
  /\ changes < ChangeBound /\ There(n) /\ changes' = changes + 1 /\ changed' = hour
  /\ \/ \E d \in Dirs \cup {None} : file' = [file EXCEPT ![n].dir = d]
     \/ ~Linked(n) /\ \E b \in {1, 4} : file' = [file EXCEPT ![n].bytes = b]
  /\ UNCHANGED <<hour, walk, found, began, copies, index>>

Tick ==
  /\ hour < LastHour /\ hour' = hour + 1
  /\ UNCHANGED <<file, changes, changed, walk, found, began, copies, index>>

----------------------------------------------------------------------------
(* The job: Walk::dir, depth first, the entries in any order.              *)

Entered(d) == [dir |-> d, left |-> {c \in Dirs : Parent[c] = d} \cup {n \in HomeFiles : file[n].dir = d}, bytes |-> 0]
Top == Last(walk)
Deeper(frame) == walk' = Append(Front(walk), frame)

Reindex ==
  /\ walk = <<>> /\ copies = None /\ began = None /\ began' = hour
  /\ walk' = <<Entered("root")>> /\ found' = Nothing
  /\ UNCHANGED <<hour, file, changes, changed, copies, index>>

Descend(d) ==
  /\ walk # <<>> /\ d \in Top.left
  /\ walk' = Append(Front(walk), [Top EXCEPT !.left = @ \ {d}]) \o <<Entered(d)>>
  /\ UNCHANGED <<hour, file, changes, changed, found, began, copies, index>>

\* (mutant) Each link is counted.
CountedEach(n) == FALSE
\* A file of several links is counted at the first.
Counted(n) == Linked(n) /\ file[n].ino \in found.links

\* An entry that has gone meanwhile is passed over.
CountFile(n) ==
  /\ walk # <<>> /\ n \in Top.left
  /\ IF file[n].dir # Top.dir \/ Counted(n)
     THEN Deeper([Top EXCEPT !.left = @ \ {n}]) /\ UNCHANGED found
     ELSE /\ Deeper([Top EXCEPT !.left = @ \ {n}, !.bytes = @ + file[n].bytes])
          /\ found' = [found EXCEPT !.links = IF Linked(n) THEN @ \cup {file[n].ino} ELSE @,
                                    !.big = IF file[n].big THEN @ \cup {[name |-> n, dir |-> Top.dir]} ELSE @]
  /\ UNCHANGED <<hour, file, changes, changed, began, copies, index>>

\* (mutant) A directory has what is directly in it.
AboveAsItWas(frame) == frame
\* The one above has what is below.
Above(frame) == [frame EXCEPT !.bytes = @ + Top.bytes]

Return ==
  /\ walk # <<>> /\ Top.left = {}
  /\ found' = IF Top.bytes >= MinDir THEN [found EXCEPT !.dirs = @ \cup {[dir |-> Top.dir, bytes |-> Top.bytes]}] ELSE found
  /\ IF Len(walk) = 1
     THEN walk' = <<>> /\ copies' = [left |-> found.big, said |-> {}]
     ELSE /\ walk' = [Front(walk) EXCEPT ![Len(walk) - 1] = Above(@)] /\ UNCHANGED copies
  /\ UNCHANGED <<hour, file, changes, changed, began, index>>

\* One that cannot be read is no copy of anything. The length is the one seen
\* by the walk, and here that of every big file.
Fingerprint ==
  /\ copies # None /\ copies.left # {}
  /\ \E b \in copies.left :
       copies' = [left |-> copies.left \ {b},
                  said |-> IF file[b.name].dir = b.dir
                           THEN copies.said \cup {[name |-> b.name, dir |-> b.dir, text |-> file[b.name].text]} ELSE copies.said]
  /\ UNCHANGED <<hour, file, changes, changed, walk, found, began, index>>

Groups(said) ==
  {g \in {{[name |-> s.name, dir |-> s.dir] : s \in {t \in said : t.text = text}} : text \in {"x", "y"}} : Cardinality(g) > 1}

\* (mutant) The index is dated when it is written.
GeneratedNow == hour
\* The walk's beginning.
Generated == began

Write ==
  /\ copies # None /\ copies.left = {}
  /\ index' = [generated |-> Generated, dirs |-> found.dirs, groups |-> Groups(copies.said)]
  /\ copies' = None /\ began' = None /\ found' = Nothing
  /\ UNCHANGED <<hour, file, changes, changed, walk>>

\* The batch job's limit, or scancel: the index stays as it was.
JobIsKilled ==
  /\ began # None /\ began' = None /\ walk' = <<>> /\ copies' = None /\ found' = Nothing
  /\ UNCHANGED <<hour, file, changes, changed, index>>

----------------------------------------------------------------------------
(* The report, in tenths.                                                  *)

Dominated(dirs, d) == \E c \in dirs : Parent[c.dir] = d.dir /\ 10 * c.bytes >= 8 * d.bytes

\* The largest first, by name those of one size; here the upper ones.
Before(a, b) == a.bytes > b.bytes \/ (a.bytes = b.bytes /\ b.dir \in Under(a.dir))
Sorted(dirs) == SetToSortSeq(dirs, Before)
FirstOf(s, n) == SubSeq(s, 1, Min({n, Len(s)}))

\* (mutant) The first n are taken, and of them the dominated left out.
TopOfFirst(dirs, n) == SelectSeq(FirstOf(Sorted(dirs), n), LAMBDA d : ~Dominated(dirs, d))
TopOf(dirs, n) ==
  LET top == FirstOf(SelectSeq(Sorted(dirs), LAMBDA d : ~Dominated(dirs, d)), n)
  IN  IF top = <<>> THEN FirstOf(Sorted(dirs), n) ELSE top

Next ==
  \/ \E n \in HomeFiles : Change(n) \/ CountFile(n)
  \/ \E d \in Dirs : Descend(d)
  \/ Tick \/ Reindex \/ Return \/ Fingerprint \/ Write \/ JobIsKilled

----------------------------------------------------------------------------
(* Properties.                                                             *)

\* Each file once, in whichever of its places.
BytesOf(names) ==
  MapThenSumSet(LAMBDA i : file[CHOOSE n \in names : file[n].ino = i].bytes, {file[n].ino : n \in names})
Held(d) == {n \in HomeFiles : file[n].dir \in Under(d)}

\* An index that nothing has changed since has every byte under the root once,
\* and no directory has more than it holds.
IndexIsExact ==
  index # None /\ changed < index.generated =>
    /\ {d.bytes : d \in {e \in index.dirs : e.dir = "root"}} = {BytesOf(Held("root"))} \cap MinDir..100
    /\ \A d \in index.dirs : d.bytes <= BytesOf(Held(d.dir))

\* Whatever moves meanwhile, a directory has at least what is in those below,
\* so none is left out that holds an indexed one.
IndexAddsUp ==
  index # None => \A c \in index.dirs : Parent[c.dir] # "none" =>
    \E d \in index.dirs : d.dir = Parent[c.dir] /\ d.bytes >= c.bytes

\* Of as many as were asked for, the largest that are not mostly one child,
\* and where a larger one is left out its bytes are named.
TopSaysWhere ==
  index # None => \A n \in 1..2 :
    LET top == TopOf(index.dirs, n)
        listed == Range(top)
    IN  /\ Len(top) = Min({n, Cardinality({d \in index.dirs : ~Dominated(index.dirs, d)})})
        /\ \A d \in index.dirs \ listed, l \in listed : d.bytes > l.bytes =>
             \E c \in index.dirs : c.dir \in Under(d.dir) \ {d.dir} /\ 10 * c.bytes >= 8 * d.bytes

\* What is called a copy is another file, and was there, unless it was moved
\* away and back under the walk.
CopiesAreCopies ==
  index # None /\ changes <= 1 => \A g \in index.groups : Cardinality({file[c.name].ino : c \in g}) > 1
=============================================================================
