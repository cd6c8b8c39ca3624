------------------------------ MODULE Scratch ------------------------------
(***************************************************************************)
(* One scratch topic (crates/sint-core/src/scratch.rs): `scratch new`      *)
(* makes <root>/<topic>/ and its manifest, `scratch clean --yes` removes   *)
(* it when it has a manifest, is old enough and is not held, while the     *)
(* user makes and removes the directory by hand. create and clean are cut  *)
(* at every call to the file system; the topics of one clean are this one  *)
(* several times, up to its first error.                                   *)
(***************************************************************************)
EXTENDS Naturals

CONSTANTS
  Makers, Cleaners, None,
  MaxNow,      \* model bound: the last second of the clock
  OlderThan,   \* --older-than
  KeepFor      \* --keep-for, where it is given

VARIABLES
  now,
  dir,         \* the directory, or None
  maker,       \* maker -> the next call of create and the manifest it writes
  cleaner,     \* cleaner -> the next call of clean
  byHand,      \* history: the directory was made by hand, with no `new` at work
  renewed,     \* history: cleaners since whose look others changed the directory
  cleaned,     \* history: what a clean removed last
  upset        \* history: a call failed or somebody was killed

vars == <<now, dir, maker, cleaner, byHand, renewed, cleaned, upset>>

Manifests == [created : 0..MaxNow, keepUntil : 0..(MaxNow + KeepFor)]
Dirs == [manifest : Manifests \cup {None}, tmp : Manifests \cup {None}]
EmptyDir == [manifest |-> None, tmp |-> None]

TypeOK ==
  /\ now \in 0..MaxNow /\ dir \in Dirs \cup {None}
  /\ maker \in [Makers -> [at : {"idle", "look", "mkdir", "write", "rename"},
                           mine : Manifests \cup {None}]]
  /\ cleaner \in [Cleaners -> {"idle", "clean", "rmdir"}]
  /\ byHand \in BOOLEAN /\ upset \in BOOLEAN /\ renewed \subseteq Cleaners

Init ==
  /\ now = 0 /\ dir = None
  /\ maker = [m \in Makers |-> [at |-> "idle", mine |-> None]]
  /\ cleaner = [c \in Cleaners |-> "idle"]
  /\ byHand = FALSE /\ renewed = {} /\ cleaned = None /\ upset = FALSE

Exists == dir # None
Manifested == Exists /\ dir.manifest # None
Goes(c, there) == cleaner' = [cleaner EXCEPT ![c] = there]
Making(m) == maker[m].at \in {"mkdir", "write", "rename"}
At(m, here) == maker[m].at = here
Go(m, there) == maker' = [maker EXCEPT ![m].at = there]
Ends(m) == maker' = [maker EXCEPT ![m] = [at |-> "idle", mine |-> None]]
Fails(m) == Ends(m) /\ upset' = TRUE

----------------------------------------------------------------------------
(* scratch new.                                                            *)

\* keepUntil is 0 without --keep-for: nothing is held until then.
Ask(m) ==
  /\ At(m, "idle")
  /\ \E until \in {0, now + KeepFor} :
       maker' = [maker EXCEPT ![m] = [at |-> "look", mine |-> [created |-> now, keepUntil |-> until]]]
  /\ UNCHANGED <<now, dir, cleaner, byHand, renewed, cleaned, upset>>

\* (mutant) A directory without a manifest is adopted.
LookForManifest(m) ==
  /\ At(m, "look") /\ IF Manifested THEN Ends(m) ELSE Go(m, "mkdir")
  /\ UNCHANGED <<now, dir, cleaner, byHand, renewed, cleaned, upset>>

\* Found with its manifest it is returned, without one it is refused.
Look(m) ==
  /\ At(m, "look") /\ IF Exists THEN Ends(m) ELSE Go(m, "mkdir")
  /\ UNCHANGED <<now, dir, cleaner, byHand, renewed, cleaned, upset>>

\* create_dir_all is content with a directory that is there.
Mkdir(m) ==
  /\ At(m, "mkdir") /\ Go(m, "write")
  /\ IF Exists THEN UNCHANGED <<dir, renewed>>
               ELSE dir' = EmptyDir /\ renewed' = Cleaners
  /\ UNCHANGED <<now, cleaner, byHand, cleaned, upset>>

\* atomic_write of the manifest: the .tmp, on a disk that may be full.
WriteTmp(m) ==
  /\ At(m, "write")
  /\ \/ /\ Exists /\ Go(m, "rename") /\ UNCHANGED upset
        /\ dir' = [dir EXCEPT !.tmp = maker[m].mine]
     \/ Fails(m) /\ dir' = IF Exists THEN [dir EXCEPT !.tmp = None] ELSE None
  /\ UNCHANGED <<now, cleaner, byHand, renewed, cleaned>>

\* (mutant) The error of the rename is dropped.
RenameUnchecked(m) ==
  /\ At(m, "rename") /\ Ends(m)
  /\ IF Exists /\ dir.tmp # None
     THEN dir' = [manifest |-> dir.tmp, tmp |-> None] /\ renewed' = Cleaners
     ELSE UNCHANGED <<dir, renewed>>
  /\ UNCHANGED <<now, cleaner, byHand, cleaned, upset>>

RenameTmp(m) ==
  /\ At(m, "rename")
  /\ IF Exists /\ dir.tmp # None
     THEN /\ dir' = [manifest |-> dir.tmp, tmp |-> None] /\ renewed' = Cleaners
          /\ Ends(m) /\ UNCHANGED upset
     ELSE Fails(m) /\ UNCHANGED <<dir, renewed>>
  /\ UNCHANGED <<now, cleaner, byHand, cleaned>>

Kill(m) ==
  /\ Making(m) /\ Fails(m)
  /\ UNCHANGED <<now, dir, cleaner, byHand, renewed, cleaned>>

----------------------------------------------------------------------------
(* scratch clean --yes.                                                    *)

Expired(m, time) == time - m.created >= OlderThan /\ m.keepUntil <= time

\* (mutant) A directory without a manifest goes as well.
ReadAnyDirectory(c) ==
  /\ cleaner[c] = "idle" /\ Exists /\ (Manifested => Expired(dir.manifest, now))
  /\ Goes(c, "clean")
  /\ renewed' = renewed \ {c} /\ cleaned' = None
  /\ UNCHANGED <<now, dir, maker, byHand, upset>>

\* manifested, and the age and the hold of what it finds.
Read(c) ==
  /\ cleaner[c] = "idle" /\ Manifested /\ Expired(dir.manifest, now)
  /\ Goes(c, "clean")
  /\ renewed' = renewed \ {c} /\ cleaned' = None
  /\ UNCHANGED <<now, dir, maker, byHand, upset>>

\* remove_dir_all: what is in the directory goes first, the manifest with it.
EmptyOut(c) ==
  /\ cleaner[c] = "clean"
  /\ \/ /\ Exists /\ Goes(c, "rmdir") /\ dir' = EmptyDir /\ UNCHANGED upset
        /\ renewed' = renewed \cup (Cleaners \ {c})
        /\ cleaned' = [manifest |-> dir.manifest, when |-> now, byHand |-> byHand,
                       renewed |-> c \in renewed]
     \/ Goes(c, "idle") /\ upset' = TRUE /\ UNCHANGED <<dir, renewed, cleaned>>
  /\ UNCHANGED <<now, maker, byHand>>

RemoveDir(c) ==
  /\ cleaner[c] = "rmdir" /\ Goes(c, "idle")
  /\ IF dir = EmptyDir
     THEN dir' = None /\ byHand' = FALSE /\ renewed' = Cleaners /\ UNCHANGED upset
     ELSE upset' = TRUE /\ UNCHANGED <<dir, byHand, renewed>>
  /\ UNCHANGED <<now, maker, cleaned>>

----------------------------------------------------------------------------
(* Time and the user.                                                      *)

Tick == now < MaxNow /\ now' = now + 1
        /\ UNCHANGED <<dir, maker, cleaner, byHand, renewed, cleaned, upset>>

MakeByHand ==
  /\ ~Exists /\ dir' = EmptyDir /\ renewed' = Cleaners
  /\ byHand' = (\A m \in Makers : ~Making(m))
  /\ UNCHANGED <<now, maker, cleaner, cleaned, upset>>

RemoveByHand ==
  /\ Exists /\ dir' = None /\ byHand' = FALSE /\ renewed' = Cleaners
  /\ UNCHANGED <<now, maker, cleaner, cleaned, upset>>

New(m) == Ask(m) \/ Look(m) \/ Mkdir(m) \/ WriteTmp(m) \/ RenameTmp(m) \/ Kill(m)
Clean(c) == Read(c) \/ EmptyOut(c) \/ RemoveDir(c)
Next == \/ \E m \in Makers : New(m)
        \/ \E c \in Cleaners : Clean(c)
        \/ Tick \/ MakeByHand \/ RemoveByHand
Spec == Init /\ [][Next]_vars

----------------------------------------------------------------------------
\* scratch.rs:5-7: what clean removes has a manifest, was not made by hand,
\* is old enough and is not held when it goes, unless it is another
\* directory than the one that clean read.
OnlyExpiredIsCleaned ==
  cleaned # None /\ ~cleaned.renewed =>
    ~cleaned.byHand /\ cleaned.manifest # None /\ Expired(cleaned.manifest, cleaned.when)

\* What `scratch new` made has a manifest once nobody works on it, so that
\* clean finds it and `new` returns it: a directory is left without one by a
\* failed call or a killed process only, however many work on it at once.
NewIsManaged ==
  ~upset /\ ~byHand /\ Exists /\ ~Manifested =>
    (\E m \in Makers : Making(m)) \/ \E c \in Cleaners : cleaner[c] = "rmdir"

\* What was made by hand stays unmanaged: no `new` puts a manifest into it.
HandMadeStaysSo == byHand => ~Manifested
=============================================================================
