--------------------------- MODULE RtTuiProperties ---------------------------
(***************************************************************************)
(* What the screen of RtTui should show.                                   *)
(***************************************************************************)
EXTENDS RtTui

(* An update of a row that began after the swap before and ended before    *)
(* this one is in the frame, or a newer one is, if the row is on the       *)
(* screen: no update is lost between the two buffers and their flags.      *)
AllDrawn == tick = "rows" /\ ~MoreRows
FreshRows ==
  AllDrawn => \A r \in Rows : due[r] # 0 =>
    \/ r \in DOMAIN drawn.rows /\ drawn.rows[r].text >= due[r]
    \/ r > Lines(drawn.height)

(* A row that is drawn half old and half new is one that was being set     *)
(* when the buffers were swapped.                                          *)
TornRows ==
  AllDrawn => \A r \in DOMAIN drawn.rows : drawn.rows[r].label # drawn.rows[r].text => r \in late

(* The ring holds the newest messages that got into the queue and were     *)
(* drained, and a view that is not paused ends with the newest of them.    *)
Ring == [i \in 1..m_logCount |-> m_logHistory[(m_logHead + i - 1) % LOG_KEEP]]
Drained == Len(pushed) - Len(m_logQueue)
HistoryIsNewest ==
  /\ Ring = [i \in 1..m_logCount |-> Drained - m_logCount + i]
  /\ m_logCount = AtMost(Drained, LOG_KEEP)
  /\ m_autoScroll => m_scrollOffset = 0

(* A paused view stands still: from a frame to the next it shows the same  *)
(* lines, however many messages come, until what it shows is no longer     *)
(* kept: then it is at the oldest line.                                    *)
PausedViewStable ==
  [][ tick # "idle" /\ tick' = "idle" /\ ~frame.auto /\ ~frame'.auto /\ ~frame.keyed
      /\ frame.height = frame'.height
      => \/ frame'.log = frame.log
         \/ frame'.log # <<>> /\ frame'.log[1] = Ring[1] ]_vars

(* From whatever layout is shown, pressing ] often enough shows every      *)
(* layout that is defined together with all before it.                     *)
After[n \in 0..(2 * MAX_LAYOUTS)] ==
  IF n = 0 THEN m_currentLayout ELSE NextLayout(After[n - 1])
EveryLayoutReached ==
  \A l \in defined : 0..l \subseteq defined => \E n \in DOMAIN After : After[n] = l

-----------------------------------------------------------------------------
(* The invariant of the rows that is inductive, in parts.                  *)

Numbers == 0..MaxSets
Buffers == [label : [Rows -> Numbers], text : [Rows -> Numbers],
            nrows : 0..TUI_MAX_ROWS_PER_GROUP, dirty : BOOLEAN]
Setters == [at : {"idle", "label", "text", "dirty"}, row : Rows, widx : 0..1,
            n : Numbers, fresh : BOOLEAN]
RowsTypeOK ==
  /\ dataBuf \in [0..1 -> Buffers] /\ dataWriteIdx \in 0..1
  /\ setter \in Setters /\ updates \in Numbers
  /\ whole \in [Rows -> Numbers] /\ due \in [Rows -> Numbers] /\ late \subseteq Rows
  /\ tick \in {"idle", "area1", "clear", "rows", "text"}
  /\ m_termRows \in TermRows /\ area1_h \in Nat /\ area1_h >= 4

(* Only the row that is being set is half old and half new, and an update  *)
(* goes into the buffer to write unless the buffers were swapped under it. *)
SetterInv ==
  /\ \A b \in 0..1, r \in Rows : dataBuf[b].label[r] # dataBuf[b].text[r] =>
       setter.at = "text" /\ setter.widx = b /\ setter.row = r
  /\ setter.at # "idle" => setter.n = updates
  /\ setter.at # "idle" /\ setter.fresh => setter.widx = dataWriteIdx
  /\ setter.at # "idle" /\ ~setter.fresh => setter.row \in late
  /\ setter.at = "text" => dataBuf[setter.widx].label[setter.row] = setter.n
  /\ setter.at = "dirty" =>
       /\ dataBuf[setter.widx].text[setter.row] = setter.n
       /\ dataBuf[setter.widx].nrows >= setter.row

(* A whole update is in the buffer to write, whose flag tells so, and what *)
(* is due is in the buffer to draw.  No number is larger than the newest.  *)
InBuffer(b, r, n) == dataBuf[b].text[r] >= n /\ dataBuf[b].nrows >= r
DueInv ==
  /\ \A r \in Rows : whole[r] # 0 =>
       InBuffer(dataWriteIdx, r, whole[r]) /\ dataBuf[dataWriteIdx].dirty
  /\ \A r \in Rows : due[r] # 0 => InBuffer(1 - dataWriteIdx, r, due[r])
  /\ \A r \in Rows : whole[r] <= updates /\ due[r] <= updates

(* What is drawn is what is in the buffer, or is being set, and the text   *)
(* of a row that is drawn is as new as it is due to be.                    *)
Drawn(r) == tick = "text" => r < Len(drawn.rows)
DrawnInv ==
  /\ drawn \in [ridx : 0..1, height : Nat, rows : Seq([label : Numbers, text : Numbers])]
  /\ tick \in {"idle", "area1"} => drawn.rows = <<>>
  /\ tick \in {"clear", "rows", "text"} =>
       /\ drawn.ridx = 1 - dataWriteIdx /\ drawn.height = area1_h
       /\ Len(drawn.rows) <= dataBuf[drawn.ridx].nrows
  /\ tick = "text" => Len(drawn.rows) > 0
  /\ \A r \in DOMAIN drawn.rows : r \notin late =>
       drawn.rows[r].label = dataBuf[1 - dataWriteIdx].label[r]
  /\ \A r \in DOMAIN drawn.rows : Drawn(r) =>
       /\ r \notin late => drawn.rows[r].text = dataBuf[1 - dataWriteIdx].text[r]
       /\ drawn.rows[r].text >= due[r]

RowsInv == RowsTypeOK /\ SetterInv /\ DueInv /\ DrawnInv

-----------------------------------------------------------------------------
(* The invariant of the log view that is inductive: the queue holds the    *)
(* newest messages, and the ring of a view those drained before.           *)
Views == [history : [0..(LOG_KEEP - 1) -> Nat], count : 0..LOG_KEEP, head : 0..(LOG_KEEP - 1),
          offset : Nat, auto : BOOLEAN]
Holds(v, d) ==
  /\ v \in Views /\ v.count = AtMost(d, LOG_KEEP)
  /\ \A i \in 1..v.count : v.history[(v.head + i - 1) % LOG_KEEP] = d - v.count + i
  /\ v.auto => v.offset = 0
QueueInv ==
  /\ m_logQueue \in Seq(Nat) /\ pushed \in Seq(Nat) /\ Len(m_logQueue) <= Len(pushed)
  /\ \A i \in 1..Len(m_logQueue) : m_logQueue[i] = Drained + i
ViewInv ==
  /\ QueueInv /\ Holds(View, Drained)
  /\ m_currentLayout \in Layouts /\ defined \subseteq Layouts

(* The lines of a view with an offset o after d messages, at a height h.   *)
Shown(d, o, h) ==
  LET count == AtMost(d, LOG_KEEP)
      end   == count - AtMost(o, AtLeast(0, count - (h - 2)))
      start == AtLeast(0, end - (h - 2))
  IN  IF h < 3 THEN <<>> ELSE [r \in 1..(end - start) |-> d - count + start + r]

(* The last frame of a paused view shows what the view has, or, once a     *)
(* Tick has drained n messages, what it had before them.                   *)
Frames == [rows : Seq([label : Numbers, text : Numbers]), log : Seq(Nat), height : Int,
           auto : BOOLEAN, keyed : BOOLEAN]
FrameInv ==
  /\ frame \in Frames
  /\ ~frame.auto /\ tick = "idle" =>
       ~m_autoScroll /\ frame.log = Shown(Drained, m_scrollOffset, frame.height)
  /\ ~frame.auto /\ tick # "idle" /\ ~frame.keyed =>
       \E n \in 0..AtMost(Drained, m_scrollOffset) :
         frame.log = Shown(Drained - n, m_scrollOffset - n, frame.height)

TuiInv == RowsInv /\ ViewInv /\ FrameInv
=============================================================================
