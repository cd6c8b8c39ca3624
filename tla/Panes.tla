------------------------------- MODULE Panes -------------------------------
(***************************************************************************)
(* One `send` (or `peek`) on a pane of a session: `--pane` is resolved     *)
(* against a listing of the panes (commands/pane.rs), then the command is  *)
(* typed and Enter is pressed, two actions of zellij (send.rs), while the  *)
(* user opens, closes, renames, focuses and types.                         *)
(***************************************************************************)
EXTENDS Naturals, Sequences

CONSTANTS Terminals, Plugins, Titles, None

VARIABLES
  panes,       \* pane -> its title and what is typed at its prompt, or None
  focus,       \* the panes of the tabs that have the focus
  at,          \* the next call of send
  spec,        \* --pane
  target,      \* the pane it was resolved to
  meant,       \* history: the panes it meant when they were listed
  met,         \* history: somebody else typed into the target in between
  ran          \* history: the line that Enter ran, with its pane

vars == <<panes, focus, at, spec, target, meant, met, ran>>
session == <<panes, focus>>
call == <<at, spec, target, meant>>

shell == CHOOSE p \in Terminals : TRUE       \* DEFAULT_PANE, terminal_0
Ids == Terminals \cup Plugins
Open == {p \in Ids : panes[p] # None}
Lines == {<<>>, <<"user">>, <<"sent">>, <<"user", "sent">>, <<"sent", "user">>}

TypeOK ==
  /\ panes \in [Ids -> [title : Titles, line : Lines] \cup {None}] /\ focus \subseteq Open
  /\ at \in {"idle", "resolve", "type", "enter", "done"} /\ target \in Terminals \cup {None}
  /\ meant \subseteq Terminals /\ met \in BOOLEAN /\ ran \in {None} \cup (Ids \X Lines)

Init ==
  /\ panes = [p \in Ids |-> IF p \in {shell} \cup Plugins
                            THEN [title |-> CHOOSE t \in Titles : TRUE, line |-> <<>>] ELSE None]
  /\ focus = {shell} /\ at = "idle" /\ spec = None /\ target = None
  /\ meant = {} /\ met = FALSE /\ ran = None

----------------------------------------------------------------------------
(* send.                                                                   *)

Send ==
  /\ at = "idle" /\ at' = "resolve"
  /\ spec' \in {None, "focused"} \cup Titles \cup Terminals
  /\ UNCHANGED <<session, target, meant, met, ran>>

\* parse_panes leaves out the plugins.
list_panes == Open \cap Terminals

\* (mutant) The first pane of a title is taken.
SelectFirst(s) ==
  IF s = "focused" THEN list_panes \cap focus ELSE {p \in list_panes : panes[p].title = s}

\* `focused` is a pane that has the focus (of several tabs, the first listed),
\* anything else a title that exactly one pane has.
select_pane(s) ==
  IF s = "focused" THEN list_panes \cap focus
  ELSE LET named == {p \in list_panes : panes[p].title = s}
       IN  IF \E p \in named : named = {p} THEN named ELSE {}

\* resolve_pane: the shell, an id as it is, or one listing.
Resolve ==
  /\ at = "resolve"
  /\ LET found == IF spec = None THEN {shell} ELSE IF spec \in Terminals THEN {spec} ELSE select_pane(spec)
     IN  \/ \E p \in found : target' = p /\ at' = "type"
         \/ found = {} /\ at' = "done" /\ UNCHANGED target
  /\ meant' = {p \in Open \cap Terminals : (spec = "focused" /\ p \in focus) \/ panes[p].title = spec}
  /\ UNCHANGED <<session, spec, met, ran>>

\* (mutant) `;` for `&&`: Enter is pressed whatever became of the keys.
WriteThenEnter ==
  /\ at = "type" /\ at' = "enter"
  /\ \/ /\ target \in Open /\ panes' = [panes EXCEPT ![target].line = Append(@, "sent")]
        /\ met' = (panes[target].line # <<>>)
     \/ UNCHANGED <<panes, met>>
  /\ UNCHANGED <<focus, spec, target, meant, ran>>

\* write-chars; where it fails, as for a pane that is gone, Enter is left out.
WriteChars ==
  /\ at = "type"
  /\ \/ /\ target \in Open /\ panes' = [panes EXCEPT ![target].line = Append(@, "sent")]
        /\ at' = "enter" /\ met' = (panes[target].line # <<>>)
     \/ at' = "done" /\ UNCHANGED <<panes, met>>
  /\ UNCHANGED <<focus, spec, target, meant, ran>>

\* write 13.
Enter ==
  /\ at = "enter" /\ at' = "done"
  /\ IF target \in Open THEN /\ ran' = <<target, panes[target].line>>
                             /\ panes' = [panes EXCEPT ![target].line = <<>>]
                        ELSE UNCHANGED <<panes, ran>>
  /\ UNCHANGED <<focus, spec, target, meant, met>>

----------------------------------------------------------------------------
(* The user. A pane's number is not used again.                            *)

User ==
  /\ at # "done"
  /\ \/ \E p \in Ids, t \in Titles : p \in Terminals \ Open /\ at = "idle"
          /\ panes' = [panes EXCEPT ![p] = [title |-> t, line |-> <<>>]]
          /\ focus' \in {focus \cup {p}, {p}} /\ UNCHANGED met
     \/ \E p \in Open \cap Terminals : panes' = [panes EXCEPT ![p] = None]
          /\ focus' = focus \ {p} /\ UNCHANGED met
     \/ \E p \in Open, t \in Titles : panes' = [panes EXCEPT ![p].title = t] /\ UNCHANGED <<focus, met>>
     \/ \E p \in Open : focus' \in {focus \cup {p}, {p}} /\ UNCHANGED <<panes, met>>
     \/ \E p \in Open \cap Terminals : "user" \notin {panes[p].line[i] : i \in 1..Len(panes[p].line)}
          /\ panes' = [panes EXCEPT ![p].line = Append(@, "user")]
          /\ met' = (met \/ (at = "enter" /\ p = target)) /\ UNCHANGED focus
  /\ UNCHANGED <<call, ran>>

Next == Send \/ Resolve \/ WriteChars \/ Enter \/ User
Spec == Init /\ [][Next]_vars

----------------------------------------------------------------------------
\* pane.rs:97-98: a name or `focused` is a terminal that was the focused one,
\* or the only one of that title, when the panes were listed, and what send
\* types goes there although focus and titles change meanwhile.
TypedWhereMeant ==
  ran # None /\ spec \in {"focused"} \cup Titles =>
    /\ ran[1] \in meant
    /\ spec # "focused" => meant = {ran[1]}

\* What Enter runs is the command that was sent, unless the user was typing at
\* that prompt (send.rs:3: it is the user's live shell).
RunsWhatWasSent == ran # None /\ ~met => ran[2] = <<"sent">>
=============================================================================
