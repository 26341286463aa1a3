------------------------------- MODULE TuiView -------------------------------
(***************************************************************************)
(* The log view and the keys of RtTui.  Messages come through m_logQueue   *)
(* and are kept in a ring of LOG_KEEP; the view follows the newest or is   *)
(* paused at an offset from it.  The keys [ and ] switch the layout.       *)
(***************************************************************************)
EXTENDS Integers, Sequences

CONSTANTS
  LOG_KEEP, QUEUE_CAPACITY, MAX_LAYOUTS,
  MaxLogs          (* bound on the messages                                *)

ASSUME TuiViewAssumption ==
  /\ LOG_KEEP \in Nat \ {0} /\ QUEUE_CAPACITY \in Nat \ {0}
  /\ MAX_LAYOUTS \in Nat \ {0} /\ MaxLogs \in Nat

VARIABLES
  m_logQueue,
  m_logHistory,    (* [0..LOG_KEEP - 1 -> message], messages are numbers   *)
  m_logCount, m_logHead, m_scrollOffset, m_autoScroll,
  m_currentLayout,
  defined,         (* the layouts that are defined                         *)
  m_lastKey,       (* a key waits for the main loop of the application     *)
  pushed           (* history: the messages that got into the queue        *)

viewvars == <<m_logQueue, m_logHistory, m_logCount, m_logHead, m_scrollOffset, m_autoScroll,
              m_currentLayout, defined, m_lastKey, pushed>>

Layouts == 0..(MAX_LAYOUTS - 1)

InitView ==
  /\ m_logQueue = <<>> /\ m_logHistory = [i \in 0..(LOG_KEEP - 1) |-> 0]
  /\ m_logCount = 0 /\ m_logHead = 0 /\ m_scrollOffset = 0 /\ m_autoScroll = TRUE
  /\ m_currentLayout = 0 /\ defined = {} /\ m_lastKey = FALSE /\ pushed = <<>>

(* Log: TryPush drops the message when the queue is full.                  *)
Log ==
  /\ Len(pushed) < MaxLogs /\ Len(m_logQueue) < QUEUE_CAPACITY
  /\ m_logQueue' = Append(m_logQueue, Len(pushed) + 1)
  /\ pushed' = Append(pushed, Len(pushed) + 1)
  /\ UNCHANGED <<m_logHistory, m_logCount, m_logHead, m_scrollOffset, m_autoScroll,
                 m_currentLayout, defined, m_lastKey>>

(* SetLayoutName, SetGroup, SetGroupNoHeader and every update of a row.    *)
Define(l) ==
  /\ defined' = defined \union {l}
  /\ UNCHANGED <<m_logQueue, m_logHistory, m_logCount, m_logHead, m_scrollOffset, m_autoScroll,
                 m_currentLayout, m_lastKey, pushed>>

PopPendingKey ==
  /\ m_lastKey /\ m_lastKey' = FALSE
  /\ UNCHANGED <<m_logQueue, m_logHistory, m_logCount, m_logHead, m_scrollOffset, m_autoScroll,
                 m_currentLayout, defined, pushed>>

-----------------------------------------------------------------------------
(* Tick up to the keys.  A view is the ring with the scroll state.         *)

View == [history |-> m_logHistory, count |-> m_logCount, head |-> m_logHead,
         offset |-> m_scrollOffset, auto |-> m_autoScroll]

(* Mutant: The ring is full but its head stays.                            *)
KeptHead(v) == v.head

NextHead(v) == (v.head + 1) % LOG_KEEP

(* Mutant: The offset of a paused view is not adjusted.                    *)
OffsetKept(v) == IF v.auto THEN 0 ELSE v.offset

OffsetAfter(v) == IF v.auto THEN 0 ELSE v.offset + 1

Drain(v, msg) ==
  LET full == v.count = LOG_KEEP
      slot == IF full THEN v.head ELSE (v.head + v.count) % LOG_KEEP
  IN  [v EXCEPT !.history[slot] = msg,
                !.count = IF full THEN @ ELSE @ + 1,
                !.head = IF full THEN NextHead(v) ELSE @,
                !.offset = OffsetAfter(v)]

(* The view after the first i messages in the queue.                       *)
DrainUpTo ==
  LET view[i \in 0..Len(m_logQueue)] ==
        IF i = 0 THEN View ELSE Drain(view[i - 1], m_logQueue[i])
  IN  view

(* The cursor keys of HandleKey.                                           *)
Clamp(v) == [v EXCEPT !.offset = IF @ > v.count THEN v.count ELSE @]
Down(v, n) ==
  LET offset == IF v.offset > n THEN v.offset - n ELSE 0
  IN  [v EXCEPT !.offset = offset, !.auto = @ \/ offset = 0]
Up(v, n) == [v EXCEPT !.offset = @ + n, !.auto = FALSE]

Scroll(v, key, page) ==
  Clamp(CASE key = "up"   -> Up(v, 1)
          [] key = "down" -> Down(v, 1)
          [] key = "pgup" -> Up(v, page)
          [] key = "pgdn" -> Down(v, page)
          [] key = "end"  -> [v EXCEPT !.offset = 0, !.auto = TRUE]
          [] key = "home" -> [v EXCEPT !.offset = v.count, !.auto = FALSE])

ScrollKeys == {"up", "down", "pgup", "pgdn", "end", "home"}
Keys == ScrollKeys \union {"[", "]", "other"}

(* The layout keys: the layouts 0 to the first undefined one are a ring.   *)
FirstUndefined ==
  IF Layouts \subseteq defined THEN MAX_LAYOUTS - 1
  ELSE CHOOSE l \in Layouts \ defined : \A k \in Layouts \ defined : l <= k
PrevLayout(l) == IF l = 0 THEN FirstUndefined ELSE l - 1

(* Mutant: After the last layout there is none.                            *)
LayoutStops(l) == IF l = MAX_LAYOUTS - 1 THEN l ELSE l + 1

NextLayout(l) == IF l = MAX_LAYOUTS - 1 \/ l \notin defined THEN 0 ELSE l + 1

HandleKey(v, key, page) ==
  /\ LET u == IF key \in ScrollKeys THEN Scroll(v, key, page) ELSE v
     IN  /\ m_logHistory' = u.history /\ m_logCount' = u.count /\ m_logHead' = u.head
         /\ m_scrollOffset' = u.offset /\ m_autoScroll' = u.auto
  /\ m_currentLayout' = CASE key = "[" -> PrevLayout(m_currentLayout)
                          [] key = "]" -> NextLayout(m_currentLayout)
                          [] OTHER     -> m_currentLayout
  /\ m_lastKey' = (m_lastKey \/ key = "other")

(* The queue is drained and the keys of one read are handled, here one or  *)
(* none: more are the keys of Ticks that follow each other at once.        *)
DrainAndKeys(key, page) ==
  /\ HandleKey(DrainUpTo[Len(m_logQueue)], key, page)
  /\ m_logQueue' = <<>>
  /\ UNCHANGED <<defined, pushed>>

(* RenderArea2: the lines it shows, the oldest first.                      *)
Lines2(visibleH) ==
  LET maxOffset == IF m_logCount > visibleH THEN m_logCount - visibleH ELSE 0
      offset    == IF m_scrollOffset > maxOffset THEN maxOffset ELSE m_scrollOffset
      end       == m_logCount - offset
      start     == IF end > visibleH THEN end - visibleH ELSE 0
  IN  [r \in 1..(end - start) |-> m_logHistory[(m_logHead + start + r - 1) % LOG_KEEP]]
=============================================================================
