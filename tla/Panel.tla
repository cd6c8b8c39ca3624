------------------------------- MODULE Panel -------------------------------
(***************************************************************************)
(* The monitor panel: the two instances of the status plugin (the bar and  *)
(* the panel, sint-zellij/src/main.rs) and zellij's screen between them.   *)
(* Ctrl+b m reaches both instances. What they ask zellij for is carried    *)
(* out later, and what the other one is doing they learn from manifests of *)
(* the panes, which may be old when they arrive.                           *)
(***************************************************************************)
EXTENDS Naturals, Sequences, SequencesExt

CONSTANT MaxPresses    \* model bound: how often the user acts

VARIABLES
  pane,       \* the panel's pane: none, loading (its layout is not applied yet) or up
  titled,     \* it has its title
  focus,      \* shell or panel
  inbox,      \* the events on their way to each instance
  asked,      \* the commands on their way to the screen
  panelOpen, focused,      \* what each instance believes
  pending,    \* the panel's focus_pending
  permitted,  \* the panel has had the answer to request_permission
  presses,    \* how often the user has acted
  swapping,   \* history: layout swaps asked for and not yet applied
  stale       \* history: since the last one was asked for the bar has read a manifest
              \* without the panel

vars == <<pane, titled, focus, inbox, asked, panelOpen, focused, pending, permitted,
          presses, swapping, stale>>
history == <<presses, swapping, stale>>

Instances == {"bar", "panel"}
Manifests == [open : BOOLEAN, titled : BOOLEAN, focused : BOOLEAN]

TypeOK ==
  /\ pane \in {"none", "loading", "up"} /\ titled \in BOOLEAN /\ focus \in {"shell", "panel"}
  /\ DOMAIN inbox = Instances /\ (pane = "none" => inbox["panel"] = <<>>)
  /\ asked \in Seq({"swap", "title", "focus", "shell", "close"})
  /\ panelOpen \in [Instances -> BOOLEAN] /\ focused \in [Instances -> BOOLEAN]
  /\ pending \in BOOLEAN /\ permitted \in BOOLEAN /\ stale \in BOOLEAN
  /\ focus = "panel" => pane = "up"

Init ==
  /\ pane = "none" /\ titled = FALSE /\ focus = "shell"
  /\ inbox = [i \in Instances |-> <<>>] /\ asked = <<>>
  /\ panelOpen = [i \in Instances |-> FALSE] /\ focused = [i \in Instances |-> FALSE]
  /\ pending = FALSE /\ permitted = FALSE
  /\ presses = 0 /\ swapping = 0 /\ stale = FALSE

----------------------------------------------------------------------------
(* zellij.                                                                 *)

Manifest == [event |-> "panes", open |-> pane = "up", titled |-> titled,
             focused |-> focus = "panel"]

\* To the instances there are: the panel's once its plugin is loaded.
Sent(e) == [i \in Instances |->
              IF i = "panel" /\ pane' = "none" THEN <<>> ELSE Append(inbox[i], e)]

Broadcast(e) == inbox' = Sent(e)

Tell == Broadcast(Manifest')

\* Other panes come and go, and every one of them is told.
OtherPane ==
  /\ presses < MaxPresses /\ presses' = presses + 1
  /\ UNCHANGED <<pane, titled, focus>> /\ Tell
  /\ UNCHANGED <<asked, panelOpen, focused, pending, permitted, swapping, stale>>

\* Ctrl+b m, which zellij sends to every instance.
Press ==
  /\ presses < MaxPresses /\ presses' = presses + 1
  /\ UNCHANGED pane /\ Broadcast([event |-> "m"])
  /\ UNCHANGED <<titled, focus, asked, panelOpen, focused, pending, permitted, swapping, stale>>

\* A bare key: only the focused panel gets it.
Bare(key) ==
  /\ presses < MaxPresses /\ presses' = presses + 1
  /\ focus = "panel"
  /\ inbox' = [inbox EXCEPT !["panel"] = Append(@, [event |-> key])]
  /\ UNCHANGED <<pane, titled, focus, asked, panelOpen, focused, pending, permitted, swapping, stale>>

\* Ctrl+b x closes the focused pane without asking the plugin.
CloseFocused ==
  /\ presses < MaxPresses /\ presses' = presses + 1 /\ focus = "panel"
  /\ pane' = "none" /\ titled' = FALSE /\ focus' = "shell" /\ Tell
  /\ UNCHANGED <<asked, panelOpen, focused, pending, permitted, swapping, stale>>

\* A swap keeps a panel there is; else its plugin is loaded first.
Swap ==
  /\ IF pane = "none"
     THEN /\ pane' = "loading" /\ titled' = FALSE
          /\ inbox' = [inbox EXCEPT !["panel"] = <<[event |-> "granted"]>>]
          /\ pending' = FALSE /\ permitted' = FALSE
          /\ panelOpen' = [panelOpen EXCEPT !["panel"] = TRUE]
          /\ focused' = [focused EXCEPT !["panel"] = FALSE]
          /\ UNCHANGED <<focus, swapping>>
     ELSE /\ focus' = "shell" /\ swapping' = swapping - 1 /\ UNCHANGED <<pane, titled>> /\ Tell
          /\ UNCHANGED <<pending, permitted, panelOpen, focused>>

\* What the screen does with the next command: nothing for a pane that is
\* not there (yet).
Screen ==
  /\ asked # <<>> /\ asked' = Tail(asked)
  /\ CASE Head(asked) = "swap" -> Swap
       [] Head(asked) # "swap" ->
            /\ CASE Head(asked) = "title" -> titled' = (pane = "up") /\ UNCHANGED <<pane, focus>>
                 [] Head(asked) = "focus" ->
                      focus' = (IF pane = "up" THEN "panel" ELSE focus) /\ UNCHANGED <<pane, titled>>
                 [] Head(asked) = "shell" -> focus' = "shell" /\ UNCHANGED <<pane, titled>>
                 [] Head(asked) = "close" -> pane' = "none" /\ titled' = FALSE /\ focus' = "shell"
            /\ IF <<pane, titled, focus>>' = <<pane, titled, focus>> THEN UNCHANGED inbox ELSE Tell
            /\ UNCHANGED <<pending, permitted, panelOpen, focused, swapping>>
  /\ UNCHANGED <<presses, stale>>

\* The layout with the loaded panel is applied; it focuses the shell.
Place ==
  /\ pane = "loading" /\ pane' = "up" /\ focus' = "shell" /\ UNCHANGED titled /\ Tell
  /\ swapping' = swapping - 1
  /\ UNCHANGED <<asked, panelOpen, focused, pending, permitted, presses, stale>>

----------------------------------------------------------------------------
(* The plugin.                                                             *)

\* (mutant) A panel that lost the focus to its layout leaves it at that.
ClaimOnce(m) == FALSE

\* The focus is asked for again after the first manifest, if the shell has it.
Retry(m) == pending /\ ~m.focused

\* (mutant) The title is asked for once, when the pane is claimed.
PanesFocusOnly(i, m) == IF i = "panel" /\ Retry(m) THEN <<"focus">> ELSE <<>>

\* on_panes: the bar knows the panel by its title, the panel its own pane;
\* an instance whose own pane is in no tab has nothing to read.
PanesCommands(i, m) ==
  (IF i = "panel" /\ permitted /\ ~m.titled THEN <<"title">> ELSE <<>>)
  \o (IF i = "panel" /\ Retry(m) THEN <<"focus">> ELSE <<>>)

OnPanes(i, m) ==
  LET open == m.open /\ (i = "panel" \/ m.titled)
  IN IF i = "panel" /\ ~m.open THEN UNCHANGED <<asked, panelOpen, focused, pending, permitted, swapping, stale>>
     ELSE /\ panelOpen' = [panelOpen EXCEPT ![i] = open]
          /\ focused' = [focused EXCEPT ![i] = open /\ m.focused]
          /\ asked' = asked \o PanesCommands(i, m)
          /\ pending' = (pending /\ i # "panel")
          /\ stale' = (stale \/ (i = "bar" /\ ~open))
          /\ UNCHANGED <<permitted, swapping>>

\* (mutant) The bar waits for a manifest to tell it of the panel.
OnMonitorPlainly(i) ==
  /\ asked' = asked \o (CASE i = "bar" /\ ~panelOpen[i] -> <<"swap">>
                          [] i = "bar" /\ panelOpen[i] -> <<>>
                          [] i = "panel" /\ focused[i] -> <<"shell">>
                          [] i = "panel" /\ ~focused[i] -> <<"focus">>)
  /\ UNCHANGED panelOpen
  /\ IF i = "bar" /\ ~panelOpen[i] THEN swapping' = swapping + 1 /\ stale' = (stale /\ swapping > 0)
     ELSE UNCHANGED <<swapping, stale>>
  /\ UNCHANGED <<focused, pending, permitted>>

\* apply_action(Monitor), and run. The bar expects the panel it asks for.
OnMonitor(i) ==
  /\ asked' = asked \o (CASE i = "bar" /\ ~panelOpen[i] -> <<"swap">>
                          [] i = "bar" /\ panelOpen[i] -> <<>>
                          [] i = "panel" /\ focused[i] -> <<"shell">>
                          [] i = "panel" /\ ~focused[i] -> <<"focus">>)
  /\ panelOpen' = [panelOpen EXCEPT ![i] = TRUE]
  /\ IF i = "bar" /\ ~panelOpen[i] THEN swapping' = swapping + 1 /\ stale' = (stale /\ swapping > 0)
     ELSE UNCHANGED <<swapping, stale>>
  /\ UNCHANGED <<focused, pending, permitted>>

\* claim_pane, when permission has been granted.
ClaimPane == asked' = asked \o <<"title", "focus">> /\ pending' = TRUE

\* update and pipe, for the next event of an instance.
Update(i) ==
  LET e == Head(inbox[i])
  IN /\ inbox[i] # <<>> /\ (i = "panel" => pane # "none")
     /\ inbox' = [inbox EXCEPT ![i] = Tail(@)]
     /\ CASE e.event = "panes" -> OnPanes(i, e)
          [] e.event = "m" -> OnMonitor(i)
          [] e.event = "granted" ->
               permitted' = TRUE /\ ClaimPane
               /\ UNCHANGED <<panelOpen, focused, swapping, stale>>
          [] e.event \in {"esc", "x"} ->
               /\ asked' = Append(asked, IF e.event = "esc" THEN "shell" ELSE "close")
               /\ UNCHANGED <<panelOpen, focused, pending, permitted, swapping, stale>>
     /\ UNCHANGED <<pane, titled, focus, presses>>

User == OtherPane \/ Press \/ (\E k \in {"esc", "x"} : Bare(k)) \/ CloseFocused

Next == User \/ Screen \/ Place \/ \E i \in Instances : Update(i)

\* zellij carries out commands and delivers events.
Fairness ==
  /\ WF_vars(Screen) /\ WF_vars(Place)
  /\ WF_vars(Update("bar")) /\ WF_vars(Update("panel"))

Spec == Init /\ [][Next]_vars /\ Fairness

----------------------------------------------------------------------------
Quiet == asked = <<>> /\ pane # "loading" /\ \A i \in Instances : inbox[i] = <<>>

\* When everything sent has arrived the bar knows whether there is a panel,
\* and each instance whether the panel has the focus, however it was opened,
\* left or closed.
BeliefsAreTrue ==
  Quiet => /\ panelOpen["bar"] = (pane = "up")
           /\ focused["bar"] = (focus = "panel")
           /\ pane = "up" => focused["panel"] = (focus = "panel")

\* The layout is not swapped again while a swap is being carried out, unless
\* a manifest from before the panel came in between.
NoSecondSwap == swapping > 1 => stale

\* A panel that was opened gets the focus, though its layout gives it to the
\* shell, unless the user does something else meanwhile.
Opening(n) == pane = "loading" /\ presses = n
FocusedOrLeft(n) == focus = "panel" \/ presses > n
PanelGetsTheFocus == \A n \in 0..MaxPresses : Opening(n) ~> FocusedOrLeft(n)
=============================================================================
