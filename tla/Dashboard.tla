------------------------------ MODULE Dashboard ------------------------------
(***************************************************************************)
(* scripts/llm/build_llm_serving_dashboard.py: the panels of the dashboard *)
(* of the serving engines are listed section by section, and `layout` puts *)
(* them on Grafana's grid of 24 columns, whatever place they were listed   *)
(* with: the six charts of a section are all listed with one y.  A panel   *)
(* is its type and its size; titles and queries are left out.              *)
(***************************************************************************)
EXTENDS Naturals, Sequences

CONSTANT Boards  \* the lists of panels that are laid out

VARIABLES
  panels,  \* the list
  placed,  \* the gridPos of its panels so far
  gridX, gridY, line_h  \* where the next one goes, and the height of its line

dashVars == <<panels, placed, gridX, gridY, line_h>>

Columns == 24

PanelSizes == [type : {"row", "chart"}, w : 1..Columns, h : Nat \ {0}]

ASSUME BoardsAssumption == Boards \subseteq Seq(PanelSizes)

-----------------------------------------------------------------------------
(* The panels of the script.                                               *)

Row == [type |-> "row", w |-> 24, h |-> 1]
Stat == [type |-> "chart", w |-> 6, h |-> 4]
Table == [type |-> "chart", w |-> 24, h |-> 8]
TimeSeries == [type |-> "chart", w |-> 12, h |-> 8]
Text == [type |-> "chart", w |-> 24, h |-> 10]

Times(n, p) == [i \in 1..n |-> p]

Overview == <<Row>> \o Times(4, Stat) \o <<Table>>
Throughput == <<Row>> \o Times(6, TimeSeries)
Concurrency == <<Row>> \o Times(6, TimeSeries)
KvCache == <<Row>> \o Times(6, TimeSeries)
Speculative == <<Row>> \o Times(4, TimeSeries)
Latency == <<Row>> \o Times(4, TimeSeries)
Coverage == <<Row, Text>>

LlmServing == Overview \o Throughput \o Concurrency \o KvCache \o Speculative
                \o Latency \o Coverage

-----------------------------------------------------------------------------
DashInit ==
  /\ panels \in Boards
  /\ placed = <<>> /\ gridX = 0 /\ gridY = 0 /\ line_h = 0

NextPanel == panels[Len(placed) + 1]  \* the panel whose turn it is

\* A row ends the line under way and is a line of its own.
PlaceRow ==
  /\ Len(placed) < Len(panels) /\ NextPanel.type = "row"
  /\ placed' = Append(placed, [x |-> 0, y |-> gridY + line_h, w |-> Columns, h |-> 1])
  /\ gridY' = gridY + line_h + 1 /\ gridX' = 0 /\ line_h' = 0
  /\ UNCHANGED panels

\* A plausible bug: the line is as tall as its last panel.
LastPanelsHeight(height, p) == p.h

\* The height of the line, with one more panel on it.
Taller(height, p) == IF p.h > height THEN p.h ELSE height

\* The panel is placed at x, y of a line that is before high; a line that is full
\* is ended at once.
PlaceAt(x, y, before) ==
  LET height == Taller(before, NextPanel)
      full == x + NextPanel.w >= Columns
  IN /\ placed' = Append(placed, [x |-> x, y |-> y, w |-> NextPanel.w, h |-> NextPanel.h])
     /\ gridX' = IF full THEN 0 ELSE x + NextPanel.w
     /\ gridY' = IF full THEN y + height ELSE y
     /\ line_h' = IF full THEN 0 ELSE height

\* Any other panel goes on the line under way if there is room, else on the next.
PlaceChart ==
  /\ Len(placed) < Len(panels) /\ NextPanel.type # "row"
  /\ IF gridX > 0 /\ gridX + NextPanel.w > Columns
     THEN PlaceAt(0, gridY + line_h, 0)
     ELSE PlaceAt(gridX, gridY, line_h)
  /\ UNCHANGED panels

DashNext == PlaceRow \/ PlaceChart
DashSpec == DashInit /\ [][DashNext]_dashVars

-----------------------------------------------------------------------------
\* The positions are as many as the panels laid out, and on the grid.
DashTypeOK ==
  /\ panels \in Boards
  /\ placed \in Seq([x : 0..(Columns - 1), y : Nat, w : 1..Columns, h : Nat \ {0}])
  /\ Len(placed) <= Len(panels)
  /\ gridX \in 0..(Columns - 1) /\ gridY \in Nat /\ line_h \in Nat

Bottom(g) == g.y + g.h
Apart(f, g) == \/ f.x + f.w <= g.x \/ g.x + g.w <= f.x
               \/ Bottom(f) <= g.y \/ Bottom(g) <= f.y

\* No panel lies over another or past the last column, and a row is a banner:
\* what is listed before it is above it and what is listed after it is below.
BoardIsReadable ==
  /\ \A i \in DOMAIN placed : placed[i].x + placed[i].w <= Columns
  /\ \A i, j \in DOMAIN placed : i < j =>
       /\ Apart(placed[i], placed[j])
       /\ "row" \in {panels[i].type, panels[j].type} => Bottom(placed[i]) <= placed[j].y

=============================================================================
