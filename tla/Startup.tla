------------------------------- MODULE Startup -------------------------------
(***************************************************************************)
(* What the first starts of a user's sessions do to the files they share,  *)
(* on any nodes at once (`run` of job.rs): bundle::ensure extracts the     *)
(* plugin, the config and the layouts, grant_plugin_permissions adds the   *)
(* plugin to zellij's permission cache, then the zellij server loads it.   *)
(*                                                                         *)
(* A bundle is known by its id, which depends on the version, the path of  *)
(* the binary and the mouse setting. permissions.kdl is the set of the     *)
(* bundles it grants; the torn files of two writers are AtomicWrite's.     *)
(***************************************************************************)
EXTENDS FiniteSets

CONSTANTS
  Starts, Bundles,
  BundleOf,   \* start -> the bundle it uses
  None

VARIABLES
  stage,      \* start -> the next call
  temp,       \* start -> the parts in its extraction directory
  dir,        \* bundle -> the parts in place, None without a directory
  granted,    \* permissions.kdl
  tmp,        \* permissions.kdl.tmp, or None
  existing,   \* start -> what it read of permissions.kdl
  crossed     \* history: two starts were changing permissions.kdl at once

vars == <<stage, temp, dir, granted, tmp, existing, crossed>>

Parts == {"wasm", "config", "layouts", "complete"}
Stages == {"ensure", "extract", "install", "grant", "write", "rename", "load",
           "running", "prompt", "failed", "killed"}

TypeOK ==
  /\ stage \in [Starts -> Stages] /\ temp \in [Starts -> SUBSET Parts]
  /\ dir \in [Bundles -> (SUBSET Parts) \cup {None}]
  /\ granted \subseteq Bundles /\ tmp \in (SUBSET Bundles) \cup {None}
  /\ existing \in [Starts -> SUBSET Bundles] /\ crossed \in BOOLEAN

Init ==
  /\ stage = [s \in Starts |-> "ensure"] /\ temp = [s \in Starts |-> {}]
  /\ dir = [b \in Bundles |-> None]
  /\ granted = {} /\ tmp = None
  /\ existing = [s \in Starts |-> {}] /\ crossed = FALSE

files == <<temp, dir>>
permissions == <<granted, tmp, existing, crossed>>

At(s, here) == stage[s] = here
Go(s, there) == stage' = [stage EXCEPT ![s] = there]
Complete(b) == dir[b] # None /\ "complete" \in dir[b]

----------------------------------------------------------------------------
(* bundle::ensure.                                                         *)

Ensure(s) ==
  /\ At(s, "ensure") /\ Go(s, IF Complete(BundleOf[s]) THEN "grant" ELSE "extract")
  /\ UNCHANGED <<files, permissions>>

Extract(s) ==
  /\ At(s, "extract")
  /\ \E p \in Parts \ temp[s] :
       /\ p = "complete" => temp[s] = Parts \ {p}
       /\ temp' = [temp EXCEPT ![s] = @ \cup {p}]
  /\ IF temp'[s] = Parts THEN Go(s, "install") ELSE UNCHANGED stage
  /\ UNCHANGED <<dir, permissions>>

\* (mutant) What is in the way is removed before the rename is tried again.
InstallOver(s) ==
  /\ At(s, "install")
  /\ LET b == BundleOf[s] IN
       IF dir[b] = None
       THEN dir' = [dir EXCEPT ![b] = temp[s]] /\ Go(s, "grant")
       ELSE dir' = [dir EXCEPT ![b] = None] /\ UNCHANGED stage
  /\ UNCHANGED <<temp, permissions>>

\* The rename fails on a directory that is there; the winner's will do.
Install(s) ==
  /\ At(s, "install")
  /\ LET b == BundleOf[s] IN
       IF dir[b] = None
       THEN dir' = [dir EXCEPT ![b] = temp[s]] /\ Go(s, "grant")
       ELSE Go(s, IF Complete(b) THEN "grant" ELSE "failed") /\ UNCHANGED dir
  /\ UNCHANGED <<temp, permissions>>

----------------------------------------------------------------------------
(* grant_plugin_permissions and its atomic_write.                          *)

ReadGrants(s) ==
  /\ At(s, "grant") /\ existing' = [existing EXCEPT ![s] = granted]
  /\ Go(s, IF BundleOf[s] \in granted THEN "load" ELSE "write")
  /\ crossed' = (crossed \/ \E t \in Starts : stage[t] \in {"write", "rename"})
  /\ UNCHANGED <<files, granted, tmp>>

\* (mutant) The file is written anew.
WriteGrantOnly(s) ==
  /\ At(s, "write") /\ tmp' = {BundleOf[s]} /\ Go(s, "rename")
  /\ UNCHANGED <<files, granted, existing, crossed>>

WriteGrant(s) ==
  /\ At(s, "write") /\ tmp' = existing[s] \cup {BundleOf[s]} /\ Go(s, "rename")
  /\ UNCHANGED <<files, granted, existing, crossed>>

\* Without the .tmp, which another start has renamed, the start fails.
RenameGrant(s) ==
  /\ At(s, "rename") /\ tmp' = None
  /\ IF tmp = None THEN Go(s, "failed") /\ UNCHANGED granted
                   ELSE Go(s, "load") /\ granted' = tmp
  /\ UNCHANGED <<files, existing, crossed>>

----------------------------------------------------------------------------
\* zellij asks the user for what the cache does not grant.
Load(s) ==
  /\ At(s, "load") /\ Go(s, IF BundleOf[s] \in granted THEN "running" ELSE "prompt")
  /\ UNCHANGED <<files, permissions>>

Kill(s) ==
  /\ stage[s] \notin {"running", "prompt", "failed", "killed"} /\ Go(s, "killed")
  /\ UNCHANGED <<files, permissions>>

Start(s) ==
  \/ Ensure(s) \/ Extract(s) \/ Install(s)
  \/ ReadGrants(s) \/ WriteGrant(s) \/ RenameGrant(s) \/ Load(s)

Next == \E s \in Starts : Start(s) \/ Kill(s)
Spec == Init /\ [][Next]_vars

----------------------------------------------------------------------------
\* bundle.rs:18-19: from its installation on, a bundle is used whole,
\* whichever start put it there and whoever was killed on the way.
BundlesAreWhole ==
  \A s \in Starts : stage[s] \in {"grant", "write", "rename", "load", "running", "prompt"}
    => dir[BundleOf[s]] = Parts

\* A start is refused a bundle or a grant by nothing but another start that
\* was changing permissions.kdl at the same time.
StartsUnlessCrossed ==
  ~crossed => \A s \in Starts : stage[s] \notin {"failed", "prompt"}

\* zellij_cmd.rs:177-178, "Pre-grant the status plugin's permissions in
\* zellij's cache so a headless session never waits on the interactive prompt".
NeverPrompts == \A s \in Starts : stage[s] # "prompt"
=============================================================================
