--------------------------- MODULE ClaudeInstall ---------------------------
(***************************************************************************)
(* `sinteractive claude install` (crates/sint/src/commands/                *)
(* install_claude.rs): skills are copied, old ones and the 0.x hook        *)
(* scripts removed, the hooks and the statusline merged into settings.json *)
(* and the MCP server into .claude.json, while the user, Claude Code and   *)
(* another install write the same files.                                   *)
(*                                                                         *)
(* A command is the hook it is, the form it is spelled in and the program: *)
(* "sh" is a 0.x script, "flat" the ungrouped verb, "grouped" today's, and *)
(* "edited" one of ours that the user rewrote. A document that does not    *)
(* parse, is no object or is a dangling link is Broken: nothing is read.   *)
(***************************************************************************)
EXTENDS Naturals, Sequences, SequencesExt

CONSTANTS
  Installs,    \* the runs of `claude install`, each of its own build
  LinkedBuild, \* the build that the stable link leads to
  OldBuilds,   \* the builds from before the skills were renamed
  Hooks,       \* the hooks of the snippet
  Edits,       \* what others add to a file, each once
  None,
  MaxSeconds   \* model bound: the seconds that pass

VARIABLES
  now,
  doc,         \* file -> its document
  elsewhere,   \* the commands of settings.local.json
  backups,     \* the backups: file and second -> what was copied
  skills,      \* the skills that are installed
  at, exe, plan,  \* install -> its next step, the program it registers, what it will write
  edited,      \* history: file -> the edits made
  unsaved      \* history: edits made after a copy was taken, or in a backup that
               \* another of the same second replaced

vars == <<now, doc, elsewhere, backups, skills, at, exe, plan, edited, unsaved>>

Files == {"settings", "mcp"}
\* The program of an earlier install, of none by name, or the stable link.
Programs == Installs \cup {"bare", "link"}

Broken == [edits |-> {}]

Command(hook, form, program) == [hook |-> hook, form |-> form, program |-> program]
Users == Command(None, "user", None)

\* The entries that earlier installs and users may have left for a hook.
Left(h) == {
  <<>>, <<<<Command(h, "sh", None)>>>>, <<<<Command(h, "flat", "bare")>>>>,
  <<<<Command(h, "grouped", "link")>>, <<Command(h, "grouped", "bare")>>>>,
  <<<<Command(h, "sh", None), Users>>>>, <<<<Users>>, <<Users>>, <<Command(h, "edited", "bare")>>>>}

\* What there is is varied in one place at a time.
Init ==
  /\ now = 0
  /\ elsewhere \in {{}} \cup {{Command(h, f, "bare")} : h \in Hooks, f \in {"sh", "grouped"}}
  /\ skills = IF elsewhere = {} THEN {} ELSE {"old"}
  /\ \E one \in Hooks :
       \E left \in Left(one), line \in {None, Command("statusline", "flat", "bare"), Users},
          server \in {None, Users} :
         \/ /\ IF elsewhere = {} THEN left = <<>> \/ line = None ELSE line = None
            /\ doc = [settings |-> [hooks |-> [h \in Hooks |-> IF h = one THEN left ELSE <<>>],
                                    line |-> line, edits |-> {}],
                      mcp |-> [server |-> Command("mcp", "flat", "bare"), edits |-> {}]]
         \/ elsewhere = {} /\ doc = [settings |-> Broken, mcp |-> [server |-> server, edits |-> {}]]
  /\ backups = <<>>
  /\ at = [i \in Installs |-> "idle"] /\ exe = [i \in Installs |-> None]
  /\ plan = [i \in Installs |-> Broken]
  /\ edited = [f \in Files |-> {}] /\ unsaved = {}

----------------------------------------------------------------------------
(* The merge.                                                              *)

\* renamed_command.
Renamed(c, program) ==
  IF c.form \in {"flat", "grouped"} THEN Command(c.hook, "grouped", program) ELSE c
Migrated(entries, program) ==
  [k \in DOMAIN entries |-> [n \in DOMAIN entries[k] |-> Renamed(entries[k][n], program)]]

\* hook_identity, of the commands of a list.
Known(entries) == {c.hook : c \in UNION {ToSet(e) : e \in ToSet(entries)}} \ {None}

\* strip_legacy_hooks: entries of 0.x scripts only.
Stripped(entries) == SelectSeq(entries, LAMBDA e : \E c \in ToSet(e) : c.form # "sh")

\* dedupe_our_hooks: entries of ours that repeat an earlier one.
Deduped(entries) ==
  FoldLeft(LAMBDA out, e : IF e \in ToSet(out) /\ \A c \in ToSet(e) : c.hook # None
                           THEN out ELSE Append(out, e), <<>>, entries)

\* (mutant) What is registered is looked up before 0.x entries are dropped.
AddedToOld(old, h, program) ==
  LET kept == Deduped(Stripped(old))
  IN IF h \in Known(old) \cup {c.hook : c \in elsewhere} THEN kept
     ELSE Append(kept, <<Command(h, "grouped", program)>>)

\* merge_hooks, for one hook.
Added(old, h, program) ==
  LET kept == Deduped(Stripped(old))
  IN IF h \in Known(kept) \cup {c.hook : c \in elsewhere} THEN kept
     ELSE Append(kept, <<Command(h, "grouped", program)>>)

MergedSettings(d, program) ==
  [d EXCEPT !.hooks = [h \in Hooks |-> Added(Migrated(@[h], program), h, program)],
            !.line = IF @ = None THEN Command("statusline", "grouped", program)
                     ELSE Renamed(@, program)]

\* merge_mcp: an entry configured any other way is the user's.
MergedMcp(d, program) ==
  [d EXCEPT !.server = IF @ = None THEN Command("mcp", "grouped", program) ELSE Renamed(@, program)]

Merged(f, d, program) ==
  IF f = "settings" THEN MergedSettings(d, program) ELSE MergedMcp(d, program)

----------------------------------------------------------------------------
(* The steps of run.                                                       *)

Go(i, from, to) == at[i] = from /\ at' = [at EXCEPT ![i] = to]

\* stable_exe: the link, when it leads to this build.
Begin(i) ==
  /\ Go(i, "idle", "skills")
  /\ exe' = [exe EXCEPT ![i] = IF i = LinkedBuild THEN "link" ELSE i]
  /\ UNCHANGED <<now, doc, elsewhere, backups, skills, plan, edited, unsaved>>

Assets(i) == IF i \in OldBuilds THEN {"old"} ELSE {"new"}
\* install_skills; assets from before the rename bring the old name.
CopySkills(i) ==
  /\ Go(i, "skills", "stale")
  /\ skills' = skills \cup Assets(i)
  /\ UNCHANGED <<now, doc, elsewhere, backups, exe, plan, edited, unsaved>>

\* (mutant) The old skills go, whatever was installed.
RemoveOld(i) ==
  /\ Go(i, "stale", "settings") /\ skills' = skills \ {"old"}
  /\ UNCHANGED <<now, doc, elsewhere, backups, exe, plan, edited, unsaved>>

\* remove_stale_skills, and remove_legacy_hook_scripts.
RemoveStale(i) ==
  /\ Go(i, "stale", "settings")
  /\ skills' = IF "new" \in Assets(i) THEN skills \ {"old"} ELSE skills
  /\ UNCHANGED <<now, doc, elsewhere, backups, exe, plan, edited, unsaved>>

Backup(f) == IF f = "settings" THEN "back settings up" ELSE "back mcp up"
Replace(f) == IF f = "settings" THEN "replace settings" ELSE "replace mcp"
After(f) == IF f = "settings" THEN "mcp" ELSE "done"

\* register_settings and register_mcp: a broken file is left alone, and so is
\* one that a merge does not change.
ReadAndMerge(i, f) ==
  /\ at[i] = f
  /\ IF doc[f] = Broken \/ Merged(f, doc[f], exe[i]) = doc[f]
     THEN at' = [at EXCEPT ![i] = After(f)] /\ UNCHANGED plan
     ELSE /\ at' = [at EXCEPT ![i] = Backup(f)]
          /\ plan' = [plan EXCEPT ![i] = Merged(f, doc[f], exe[i])]
  /\ UNCHANGED <<now, doc, elsewhere, backups, skills, exe, edited, unsaved>>

\* `claude mcp add` does the work when there is a `claude` and no entry yet,
\* and may fail.
AddViaCli(i) ==
  /\ Go(i, "mcp", "done")
  /\ \/ /\ doc["mcp"] # Broken /\ doc["mcp"].server = None
        /\ doc' = [doc EXCEPT !["mcp"].server = Command("mcp", "grouped", exe[i])]
     \/ UNCHANGED doc
  /\ UNCHANGED <<now, elsewhere, backups, skills, exe, plan, edited, unsaved>>

\* (mutant) The backup holds what was read and merged.
CopyPlan(i, f) ==
  /\ Go(i, Backup(f), Replace(f))
  /\ backups' = [n \in DOMAIN backups \cup {<<f, now>>} |->
                   IF n = <<f, now>> THEN plan[i] ELSE backups[n]]
  /\ UNCHANGED <<now, doc, elsewhere, skills, exe, plan, edited, unsaved>>

\* write_json copies the file as it is now, under the second of now; when the
\* copy fails nothing is written.
CopyFile(i, f) ==
  \/ /\ Go(i, Backup(f), Replace(f))
     /\ unsaved' = unsaved \cup (IF <<f, now>> \in DOMAIN backups THEN backups[<<f, now>>].edits ELSE {})
     /\ backups' = [n \in DOMAIN backups \cup {<<f, now>>} |->
                      IF n = <<f, now>> THEN doc[f] ELSE backups[n]]
     /\ UNCHANGED <<now, doc, elsewhere, skills, exe, plan, edited>>
  \/ /\ Go(i, Backup(f), After(f)) /\ plan' = [plan EXCEPT ![i] = Broken]
     /\ UNCHANGED <<now, doc, elsewhere, backups, skills, exe, edited, unsaved>>

\* ... and puts the merged document in its place, or fails.
Rename(i, f) ==
  /\ Go(i, Replace(f), After(f)) /\ doc' \in {[doc EXCEPT ![f] = plan[i]], doc}
  /\ plan' = [plan EXCEPT ![i] = Broken]
  /\ UNCHANGED <<now, elsewhere, backups, skills, exe, edited, unsaved>>

Killed(i) ==
  /\ at[i] \notin {"idle", "done"} /\ at' = [at EXCEPT ![i] = "done"]
  /\ plan' = [plan EXCEPT ![i] = Broken]
  /\ UNCHANGED <<now, doc, elsewhere, backups, skills, exe, edited, unsaved>>

----------------------------------------------------------------------------
(* The others.                                                             *)

\* The user edits settings.json; Claude Code writes .claude.json all the time.
Edit(f, e) ==
  /\ doc[f] # Broken /\ e \notin edited["settings"] \cup edited["mcp"]
  /\ doc' = [doc EXCEPT ![f].edits = @ \cup {e}]
  /\ edited' = [edited EXCEPT ![f] = @ \cup {e}]
  /\ unsaved' = IF \E i \in Installs : at[i] = Replace(f) THEN unsaved \cup {e} ELSE unsaved
  /\ UNCHANGED <<now, elsewhere, backups, skills, at, exe, plan>>

\* The second matters to a backup after the first.
Tick ==
  /\ backups # <<>> /\ now < MaxSeconds /\ now' = now + 1
  /\ UNCHANGED <<doc, elsewhere, backups, skills, at, exe, plan, edited, unsaved>>

Next ==
  \/ \E i \in Installs : Begin(i) \/ CopySkills(i) \/ RemoveStale(i) \/ AddViaCli(i) \/ Killed(i)
                         \/ \E f \in Files : ReadAndMerge(i, f) \/ CopyFile(i, f) \/ Rename(i, f)
  \/ \E f \in Files, e \in Edits : Edit(f, e)
  \/ Tick
Spec == Init /\ [][Next]_vars

----------------------------------------------------------------------------
TypeOK ==
  /\ now \in 0..MaxSeconds /\ skills \subseteq {"old", "new"} /\ DOMAIN backups \subseteq Files \X (0..MaxSeconds)
  /\ \A i \in Installs : exe[i] \in Programs \cup {None}
  /\ \A f \in Files : edited[f] \subseteq Edits
  /\ unsaved \subseteq Edits

\* What anybody wrote into either file is still there or in a backup, but for
\* what was written after the copy was taken, and for the backup that a second
\* one of the same second replaces.
NothingIsLost ==
  \A f \in Files :
    edited[f] \subseteq unsaved \cup doc[f].edits \cup
                        UNION {backups[n].edits : n \in {m \in DOMAIN backups : m[1] = f}}

\* A second install of the same binary finds nothing to do, and no hook is
\* there twice: whatever earlier installs left, under whichever names
\* (install_claude.rs:6-7).
InstallIsIdempotent ==
  \A i \in Installs : at[i] = "settings" /\ doc["settings"] # Broken =>
      LET d == MergedSettings(doc["settings"], exe[i])
      IN /\ MergedSettings(d, exe[i]) = d
         /\ \A h \in Hooks : \A j, k \in DOMAIN d.hooks[h] :
              d.hooks[h][j] = d.hooks[h][k] /\ d.hooks[h][j][1].hook # None => j = k

\* Every hook an install leaves registered is one that runs: its 0.x scripts
\* are gone, so one of those is no hook, except where the user keeps one in an
\* entry of his own or in settings.local.json, which the install does not touch.
HooksRun ==
  \A i \in Installs : at[i] = Backup("settings") =>
    \A h \in Hooks :
      LET all == elsewhere \cup UNION {ToSet(e) : e \in ToSet(plan[i].hooks[h])}
      IN \/ \E c \in all : c.hook = h /\ c.form # "sh"
         \/ Command(h, "sh", "bare") \in elsewhere
         \/ \E e \in ToSet(plan[i].hooks[h]) : Command(h, "sh", None) \in ToSet(e) /\ Len(e) > 1

\* A skill is never without its old or its new form once it was there.
SkillsStay == skills # {} => skills' # {}
SkillIsKept == [][SkillsStay]_vars
=============================================================================
