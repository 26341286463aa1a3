-------------------------------- MODULE RtTui --------------------------------
(***************************************************************************)
(* RtTui: Tick, called by the drain thread of RtLog, takes the messages    *)
(* and the keys, swaps and draws the rows of the current layout and draws  *)
(* the log below them, while other threads log and set rows.  The rows are *)
(* those of layout 0; the other layouts have none.                         *)
(***************************************************************************)
EXTENDS TuiRows, TuiView

CONSTANTS
  AREA2_MIN_ROWS,
  TermRows,        (* the heights the terminal may have                    *)
  NoKey

ASSUME RtTuiAssumption ==
  AREA2_MIN_ROWS \in Nat /\ TermRows \subseteq Nat \ 0..AREA2_MIN_ROWS /\ NoKey \notin Keys

VARIABLES
  tick,            (* the step of Tick                                     *)
  m_termRows, area1_h,
  frame            (* history: the last frame that was completed           *)

vars == <<rowvars, viewvars, tick, m_termRows, area1_h, frame>>

Init ==
  /\ InitRows /\ InitView
  /\ tick = "idle" /\ m_termRows \in TermRows /\ area1_h = 4
  /\ frame = [rows |-> <<>>, log |-> <<>>, height |-> 0, auto |-> TRUE, keyed |-> FALSE]

(* The steps of Tick up to the layout of the screen.                       *)
AtLeast(a, b) == IF a > b THEN a ELSE b
AtMost(a, b)  == IF a < b THEN a ELSE b
Page == AtLeast(1, (m_termRows * 6) \div 10)

TickBegin ==
  /\ tick = "idle"
  /\ \E key \in Keys \union {NoKey} :
       /\ DrainAndKeys(key, Page)
       /\ frame' = [frame EXCEPT !.keyed = key # NoKey]
  /\ m_termRows' \in TermRows
  /\ area1_h' = AtLeast(4, AtMost(CalcArea1Height, m_termRows' - 1 - AREA2_MIN_ROWS))
  /\ tick' = "area1"
  /\ UNCHANGED rowvars

Drawing == UNCHANGED <<viewvars, m_termRows, area1_h, frame>>

RenderArea1 ==
  /\ tick = "area1" /\ m_currentLayout = 0
  /\ \/ KeepBuffers(area1_h) /\ tick' = "rows"
     \/ SwapBuffers(area1_h) /\ tick' = "clear"
  /\ Drawing

ClearFlag == tick = "clear" /\ ClearDirty /\ tick' = "rows" /\ Drawing
DrawRows ==
  \/ tick = "rows" /\ DrawLabel /\ tick' = "text" /\ Drawing
  \/ tick = "text" /\ DrawText /\ tick' = "rows" /\ Drawing

(* RenderArea2 and the end of Tick.                                        *)
RenderArea2 ==
  /\ \/ tick = "rows" /\ ~MoreRows
     \/ tick = "area1" /\ m_currentLayout # 0
  /\ LET area2_h == m_termRows - area1_h - 1
     IN  frame' = [frame EXCEPT
                     !.rows = IF m_currentLayout = 0 THEN drawn.rows ELSE <<>>,
                     !.log = IF area2_h < 3 THEN <<>> ELSE Lines2(area2_h - 2),
                     !.height = area2_h, !.auto = m_autoScroll]
  /\ tick' = "idle"
  /\ drawn' = NoRows
  /\ UNCHANGED <<viewvars, m_termRows, area1_h, dataBuf, dataWriteIdx, setter, updates, whole, due, late>>

Tick == TickBegin \/ RenderArea1 \/ ClearFlag \/ DrawRows \/ RenderArea2

(* The threads of the application.                                         *)
SetsRow == SetRow /\ UNCHANGED <<viewvars, tick, m_termRows, area1_h, frame>>
Logs    == Log /\ UNCHANGED <<rowvars, tick, m_termRows, area1_h, frame>>
TakesKey == PopPendingKey /\ UNCHANGED <<rowvars, tick, m_termRows, area1_h, frame>>
Defines ==
  /\ \E l \in Layouts \ defined : Define(l)
  /\ UNCHANGED <<rowvars, tick, m_termRows, area1_h, frame>>

Next == Tick \/ SetsRow \/ Logs \/ TakesKey \/ Defines

Spec == Init /\ [][Next]_vars
=============================================================================
