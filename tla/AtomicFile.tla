----------------------------- MODULE AtomicFile -----------------------------
(***************************************************************************)
(* What the header of crates/sint-core/src/state.rs promises of every file *)
(* under the cache directory: "Every write is write-to-.tmp-then-rename so *)
(* reads are atomic". A file is absent or one whole version, and changes   *)
(* from one to the other in one step.                                      *)
(***************************************************************************)
CONSTANTS Versions, None
VARIABLE value

Init == value = None
Write == \E v \in Versions : value' = v
Remove == value' = None
Next == Write \/ Remove
Spec == Init /\ [][Next]_value
=============================================================================
