---------------------------- MODULE StatusLine ----------------------------
(***************************************************************************)
(* What the plugin draws and where it can be clicked                       *)
(* (crates/sint-zellij/src/render.rs): the status line that drops segments *)
(* until it fits, the notice and the help page that give up their hints,   *)
(* the job strip that grows around the selected job, the panel's rows.     *)
(* A text is the number of columns it takes; words and colours are left    *)
(* out, but for the segment that is underlined under the pointer.          *)
(***************************************************************************)
EXTENDS Naturals, Sequences, SequencesExt

CONSTANTS
  Cols,        \* the columns of the pane that are tried
  Wide,        \* the width of a long text; the others are one column wide
  None

VARIABLES
  kind,        \* what is drawn
  cols,        \* the columns it is drawn for
  parts,       \* the texts it is made of
  with,        \* the other inputs: the legends, the selection
  kept,        \* the parts that are kept, as their places
  tail,        \* the hint after them is "full", "short" or "none"
  at           \* the loop goes on or is over

vars == <<kind, cols, parts, with, kept, tail, at>>

PAD == 1
Sep == 3
Less(a, b) == IF a > b THEN a - b ELSE 0
Least(a, b) == IF a < b THEN a ELSE b
Up(a, b) == (a + b - 1) \div b

\* The columns of parts joined by separators.
Joined(set) == FoldFunctionOnSet(LAMBDA i, w : i.width + w, 0, parts, set)
               + Sep * Less(Cardinality(set), 1)

\* The segments of the status line, in their order, with drop_prio and action.
Segments == <<
  [prio |-> 0, action |-> None], [prio |-> 1, action |-> None], [prio |-> 5, action |-> None],
  [prio |-> 2, action |-> None], [prio |-> 6, action |-> None], [prio |-> 7, action |-> None],
  [prio |-> 8, action |-> None], [prio |-> 4, action |-> "monitor"],
  [prio |-> 3, action |-> "notices"], [prio |-> 9, action |-> "help"]>>

Text(n) == [width |-> n]
Widths == {1, Wide}

\* The id and the help key are always there; the others come and go, and
\* one of them may be long.
StatusInputs ==
  \E there \in SUBSET (2..9), wide \in {1, 4, 8} :
    /\ LET places == SelectSeq([i \in DOMAIN Segments |-> i], LAMBDA i : i \in there \cup {1, 10})
       IN parts = [k \in DOMAIN places |->
                     [width |-> IF places[k] = wide THEN Wide ELSE 1,
                      prio |-> Segments[places[k]].prio, action |-> Segments[places[k]].action]]
    /\ with = None /\ kept = DOMAIN parts

HelpInputs ==
  \E n \in 0..3, w \in Widths, pages \in 1..2, page \in 1..2 :
    /\ page <= pages
    /\ parts = [i \in 1..(n + 1) |-> Text(IF i = 1 THEN 2 ELSE w)]
    /\ with = [counter |-> IF pages > 1 THEN 6 ELSE 0, nav |-> IF page < pages THEN 24 ELSE 12]
    /\ kept = DOMAIN parts

\* The head, the hint and the notice itself.
NoticeInputs ==
  \E more \in BOOLEAN, text \in {1, 8, 9, 30} :
    /\ parts = <<Text(7), Text(IF more THEN 24 ELSE 20), Text(text)>>
    /\ with = None /\ kept = {1, 3}

StripInputs ==
  \E n \in 1..4 : \E sel \in 1..n, w \in [1..n -> Widths], focused \in BOOLEAN :
    LET legend == IF focused THEN 35 ELSE 23
        room == Less(cols, legend + 3 + 6)
        \* A label wider than the whole strip is cut.
        Label(i) == IF w[i] > room /\ room > 1 THEN room ELSE w[i]
    IN /\ with = [sel |-> sel, legend |-> legend, room |-> room]
       /\ parts = [i \in 1..n |-> Text(Label(i))]
       /\ kept = {sel}

PanelInputs ==
  \E rows \in 1..9, gpus \in 0..6 :
    with = [rows |-> rows, gpus |-> gpus] /\ parts = <<>> /\ kept = {}

Init ==
  /\ cols \in Cols /\ tail = "full" /\ at = "work"
  /\ \/ kind = "status" /\ StatusInputs
     \/ kind = "help" /\ HelpInputs
     \/ kind = "notice" /\ NoticeInputs
     \/ kind = "strip" /\ StripInputs
     \/ kind = "panel" /\ PanelInputs

\* Every line of the bar is built for the columns after its inset.
Inner == Less(cols, PAD)

----------------------------------------------------------------------------
(* The status line.                                                        *)

\* The segment with the highest drop_prio goes, until the line fits.
DropSegment ==
  /\ kind = "status" /\ at = "work"
  /\ IF Joined(kept) <= Inner \/ Cardinality(kept) <= 1 THEN at' = "done" /\ UNCHANGED kept
     ELSE kept' = {i \in kept : \E j \in kept : parts[j].prio > parts[i].prio} /\ UNCHANGED at
  /\ UNCHANGED <<kind, cols, parts, with, tail>>

\* (mutant) The separators are not counted.
SpansOfTexts ==
  {[from |-> Joined({j \in kept : j < i}), to |-> Joined({j \in kept : j <= i}), part |-> i]
     : i \in {k \in kept : parts[k].action # None}}

Spans ==
  {LET before == {j \in kept : j < i}
       start == Joined(before) + (IF before = {} THEN 0 ELSE Sep)
   IN [from |-> start, to |-> start + parts[i].width, part |-> i]
     : i \in {k \in kept : parts[k].action # None}}

Under(col) == {s.part : s \in {t \in Spans : col >= PAD /\ col - PAD \in t.from..Less(t.to, 1)}}

\* click_action, in status mode: the action of the span at `col`, or none.
ClickAction(col) == {parts[i].action : i \in Under(col)}

----------------------------------------------------------------------------
(* Help and notices.                                                       *)

TailWidth(t) ==
  IF kind # "help" THEN 0
  ELSE IF t = "full" THEN 3 + with.counter + with.nav
  ELSE IF with.counter = 0 THEN 0 ELSE 3 + with.counter - 1

\* The way out goes first, then entries from the end.
TrimHelp ==
  /\ kind = "help" /\ at = "work"
  /\ IF Joined(kept) + TailWidth(tail) <= Inner THEN at' = "done" /\ UNCHANGED <<kept, tail>>
     ELSE IF tail = "full" THEN tail' = "short" /\ UNCHANGED <<at, kept>>
     ELSE IF Cardinality(kept) > 2 THEN kept' = kept \ {Cardinality(kept)} /\ UNCHANGED <<at, tail>>
     ELSE at' = "done" /\ UNCHANGED <<kept, tail>>
  /\ UNCHANGED <<kind, cols, parts, with>>

\* The hint needs room for itself and some of the notice, which is cut to
\* what is left.
FitNotice ==
  /\ kind = "notice" /\ at = "work" /\ at' = "done"
  /\ LET head == parts[1].width
         withHint == head + 3 + parts[2].width
         room == Less(Inner, IF withHint + 8 <= Inner THEN withHint ELSE head)
     IN /\ tail' = IF withHint + 8 <= Inner THEN "full" ELSE "none"
        /\ parts' = [parts EXCEPT ![3].width = IF @ > room THEN Less(room, 1) + 1 ELSE @]
  /\ UNCHANGED <<kind, cols, with, kept>>

----------------------------------------------------------------------------
(* The panel.                                                              *)

\* (mutant) Both ends grow by the room that was left before.
GrowBothEnds ==
  /\ kind = "strip" /\ at = "work"
  /\ LET n == Len(parts)
         ends == {i \in 1..n : (i + 1 \in kept \/ i - 1 \in kept) /\ i \notin kept
                               /\ Joined(kept) + Sep + parts[i].width <= with.room}
     IN kept' = kept \cup ends /\ at' = IF ends = {} THEN "done" ELSE "work"
  /\ UNCHANGED <<kind, cols, parts, with, tail>>

\* One turn of the loop: a job more on the right, then one on the left.
GrowStrip ==
  /\ kind = "strip" /\ at = "work"
  /\ LET Fits(set, i) == i \in DOMAIN parts /\ Joined(set \cup {i}) <= with.room
         last == CHOOSE i \in kept : i + 1 \notin kept
         first == CHOOSE i \in kept : i - 1 \notin kept
         right == IF Fits(kept, last + 1) THEN kept \cup {last + 1} ELSE kept
     IN /\ kept' = IF Fits(right, first - 1) THEN right \cup {first - 1} ELSE right
        /\ at' = IF kept' = kept THEN "done" ELSE "work"
  /\ UNCHANGED <<kind, cols, parts, with, tail>>

\* The strip with its marks and its count; the legend is spread to the far
\* edge when there is room for both.
StripLeft ==
  Joined(kept) + (IF 1 \in kept THEN 0 ELSE 2) + (IF Len(parts) \in kept THEN 0 ELSE 2) + 2 + 3
StripWidth == IF StripLeft + with.legend + 2 <= cols THEN cols ELSE StripLeft

WIDEST_LABEL == 5
GPU_MEM_BAR == 8
ROW_TAIL == 34 + GPU_MEM_BAR
MAX_BAR == 24
MIN_BAR == 5
MIN_WIDE_BAR == 12
GUTTER == 2
PerRow == IF cols >= 2 * (WIDEST_LABEL + 1 + MIN_WIDE_BAR + ROW_TAIL) + GUTTER THEN 2 ELSE 1

\* (mutant) cpu and mem are thought to take a row each.
GpusBelow == Less(with.rows, 1 + 2) * PerRow

GpuSlots == Less(with.rows, 1 + Up(2, PerRow)) * PerRow
ShownGpus == Least(with.gpus, GpuSlots)
CellWidth ==
  LET cw == IF PerRow = 2 THEN (cols - GUTTER) \div 2 ELSE cols
      room == Less(cw, WIDEST_LABEL + 1 + ROW_TAIL)
      bar == Least(MAX_BAR, IF room > MIN_BAR THEN room ELSE MIN_BAR)
  IN [pitch |-> cw, cell |-> WIDEST_LABEL + 1 + bar + ROW_TAIL]
PanelRows == Least(with.rows, 1 + Up(2 + ShownGpus, PerRow))
PanelWidth == IF PerRow = 2 THEN CellWidth.pitch + GUTTER + CellWidth.cell ELSE CellWidth.cell

DrawPanel ==
  /\ kind = "panel" /\ at = "work" /\ at' = "done"
  /\ UNCHANGED <<kind, cols, parts, with, kept, tail>>

Next == DropSegment \/ TrimHelp \/ FitNotice \/ GrowStrip \/ DrawPanel
Spec == Init /\ [][Next]_vars

----------------------------------------------------------------------------
TypeOK ==
  /\ kind \in {"status", "help", "notice", "strip", "panel"} /\ cols \in Cols
  /\ kept \subseteq DOMAIN parts /\ at \in {"work", "done"} /\ tail \in {"full", "short", "none"}

\* A row never runs past its pane and wraps, once there is nothing left to
\* give up: one segment, a first entry, one column of a notice or of a label.
RowsFit ==
  at = "done" =>
    CASE kind = "status" -> Joined(kept) <= Inner \/ kept = {1}
      [] kind = "help" -> \/ Joined(kept) + TailWidth(tail) <= Inner
                          \/ tail = "short" /\ Cardinality(kept) <= 2
      [] kind = "notice" -> \/ parts[3].width = 1
                            \/ parts[1].width + parts[3].width
                               + (IF tail = "full" THEN 3 + parts[2].width ELSE 0) <= Inner
      [] kind = "strip" -> \/ StripWidth <= cols /\ Joined(kept) <= with.room
                           \/ with.room <= 1
      [] kind = "panel" -> PanelWidth <= cols \/ CellWidth.cell = WIDEST_LABEL + 1 + MIN_BAR + ROW_TAIL

\* What is given up would not have fitted: the segment dropped last, the entry
\* popped last, the jobs next to the strip's ends, the GPUs below the panel.
NothingIsCutInVain ==
  at = "done" =>
    CASE kind = "status" ->
           \A i \in DOMAIN parts \ kept :
             (\A j \in DOMAIN parts \ kept : parts[j].prio >= parts[i].prio)
             => Joined(kept \cup {i}) > Inner
      [] kind = "help" ->
           kept # DOMAIN parts => Joined(kept \cup {Cardinality(kept) + 1}) + TailWidth("short") > Inner
      [] kind = "notice" -> TRUE
      [] kind = "strip" ->
           \A i \in DOMAIN parts \ kept :
             i + 1 \in kept \/ i - 1 \in kept => Joined(kept \cup {i}) > with.room
      [] kind = "panel" ->
           ShownGpus < with.gpus => 1 + Up(2 + ShownGpus + 1, PerRow) > with.rows

\* The line as it is drawn, one place per column: whose text is there.
Drawn ==
  FoldLeft(LAMBDA line, i :
             IF i \notin kept THEN line
             ELSE (IF line = <<>> THEN [k \in 1..PAD |-> 0] ELSE line \o [k \in 1..Sep |-> 0])
                  \o [k \in 1..parts[i].width |-> i],
           <<>>, [i \in DOMAIN parts |-> i])

\* A click runs the action of the text under it and nothing anywhere else.
ClickRunsWhatIsShown ==
  kind = "status" /\ at = "done" =>
    \A col \in 0..(Len(Drawn) + 1) :
      LET part == IF col < Len(Drawn) THEN Drawn[col + 1] ELSE 0
      IN ClickAction(col) = IF part = 0 THEN {} ELSE {parts[part].action} \ {None}
=============================================================================
