---------------------------- MODULE RtTui_proofs -----------------------------
(***************************************************************************)
(* Proofs that a frame of RtTui shows what was set before the swap, and    *)
(* that only a row being set at the swap can be drawn half old and half    *)
(* new, for any number of rows and updates; that the log view keeps the    *)
(* newest messages, that a paused view stands still, and that the layouts  *)
(* are all reached, for any number of messages and layouts.                *)
(***************************************************************************)
EXTENDS RtTuiProperties, SequenceTheorems, WellFoundedInduction, TLAPS

(* What the constants are.                                                 *)
LEMMA Constants ==
  /\ TUI_MAX_ROWS_PER_GROUP \in Nat /\ TUI_MAX_ROWS_PER_GROUP >= 1
  /\ HeaderLines \in {0, 2} /\ MaxSets \in Nat /\ AREA2_MIN_ROWS \in Nat
  /\ \A t \in TermRows : t \in Nat /\ t > AREA2_MIN_ROWS
  /\ Rows = 1..TUI_MAX_ROWS_PER_GROUP /\ Numbers = 0..MaxSets
BY TuiRowsAssumption, RtTuiAssumption DEF Rows, Numbers

-----------------------------------------------------------------------------
(* The initial state has no rows.                                          *)
LEMMA InitRowsInv == Init => RowsInv
<1> SUFFICES ASSUME Init PROVE RowsInv
  OBVIOUS
<1>1. /\ dataBuf = [b \in 0..1 |-> [label |-> Blank, text |-> Blank, nrows |-> 0, dirty |-> FALSE]]
      /\ dataWriteIdx = 0 /\ setter = [at |-> "idle", row |-> 1, widx |-> 0, n |-> 0, fresh |-> FALSE]
      /\ drawn = NoRows /\ updates = 0 /\ whole = Blank /\ due = Blank /\ late = {}
      /\ tick = "idle" /\ m_termRows \in TermRows /\ area1_h = 4
  BY DEF Init, InitRows, Idle
<1>2. Blank \in [Rows -> Numbers] /\ \A r \in Rows : Blank[r] = 0
  BY Constants DEF Blank
<1>3. RowsTypeOK
  <2>1. FALSE \in BOOLEAN
    BY Zenon
  <2>2. [label |-> Blank, text |-> Blank, nrows |-> 0, dirty |-> FALSE] \in Buffers
    BY <1>2, <2>1, Constants DEF Buffers
  <2>3. dataBuf \in [0..1 -> Buffers] /\ dataWriteIdx \in 0..1
    BY <1>1, <2>2
  <2>4. setter \in Setters
    BY <1>1, <2>1, Constants DEF Setters
  <2> QED
    BY <1>1, <1>2, <2>3, <2>4, Constants DEF RowsTypeOK
<1>4. SetterInv
  BY <1>1, <1>2 DEF SetterInv
<1>5. DueInv
  BY <1>1, <1>2 DEF DueInv
<1>6. DrawnInv
  BY <1>1 DEF DrawnInv, Drawn, NoRows
<1> QED
  BY <1>3, <1>4, <1>5, <1>6 DEF RowsInv

-----------------------------------------------------------------------------
(* The steps.                                                              *)

(* The types, component by component.                                      *)
LEMMA Buf ==
  ASSUME RowsTypeOK
  PROVE  /\ 1 - dataWriteIdx \in 0..1 /\ dataWriteIdx \in 0..1 /\ setter.widx \in 0..1
         /\ setter.row \in Rows /\ setter.n \in Numbers /\ setter.fresh \in BOOLEAN
         /\ \A b \in 0..1 : /\ dataBuf[b].label \in [Rows -> Numbers] /\ dataBuf[b].text \in [Rows -> Numbers]
                            /\ dataBuf[b].nrows \in 0..TUI_MAX_ROWS_PER_GROUP /\ dataBuf[b].nrows \in Nat
         /\ \A r \in Rows : r \in Nat /\ r >= 1 /\ r <= TUI_MAX_ROWS_PER_GROUP
         /\ \A r \in Rows : due[r] \in Nat /\ whole[r] \in Nat
         /\ \A n \in Numbers : n \in Nat
<1>1. 1 - dataWriteIdx \in 0..1 /\ dataWriteIdx \in 0..1
  BY DEF RowsTypeOK
<1>2. setter.widx \in 0..1 /\ setter.row \in Rows /\ setter.n \in Numbers
  BY DEF RowsTypeOK, Setters
<1>3. setter.fresh \in BOOLEAN
  BY Zenon DEF RowsTypeOK, Setters
<1>4. \A b \in 0..1 : /\ dataBuf[b].label \in [Rows -> Numbers] /\ dataBuf[b].text \in [Rows -> Numbers]
                      /\ dataBuf[b].nrows \in 0..TUI_MAX_ROWS_PER_GROUP
  BY DEF RowsTypeOK, Buffers
<1>5. \A r \in Rows : r \in Nat /\ r >= 1 /\ r <= TUI_MAX_ROWS_PER_GROUP
  BY Constants
<1>6. \A n \in Numbers : n \in Nat
  BY Constants
<1>7. \A r \in Rows : due[r] \in Nat /\ whole[r] \in Nat
  BY <1>6 DEF RowsTypeOK
<1>8. \A b \in 0..1 : dataBuf[b].nrows \in Nat
  BY <1>4, Constants
<1> QED
  BY <1>1, <1>2, <1>3, <1>4, <1>5, <1>6, <1>7, <1>8

(* The numbers in the buffers after a step are natural numbers.            *)
LEMMA BufPrimed ==
  ASSUME RowsTypeOK'
  PROVE  \A b \in 0..1 : dataBuf'[b].nrows \in Nat /\ \A r \in Rows : dataBuf'[b].text[r] \in Nat
<1>1. \A b \in 0..1 : dataBuf'[b].nrows \in 0..TUI_MAX_ROWS_PER_GROUP /\ dataBuf'[b].text \in [Rows -> Numbers]
  BY DEF RowsTypeOK, Buffers
<1> QED
  BY SMTT(30), <1>1, Constants

(* CopyLabel changes one label of the buffer the update has loaded.        *)
LEMMA LabelEffect ==
  ASSUME RowsTypeOK, CopyLabel
  PROVE  /\ dataBuf' \in [0..1 -> Buffers]
         /\ \A b \in 0..1 : /\ b # setter.widx => dataBuf'[b] = dataBuf[b]
                            /\ dataBuf'[b].text = dataBuf[b].text /\ dataBuf'[b].nrows = dataBuf[b].nrows
                            /\ dataBuf'[b].dirty = dataBuf[b].dirty
         /\ dataBuf'[setter.widx].label = [dataBuf[setter.widx].label EXCEPT ![setter.row] = setter.n]
<1> DEFINE w == setter.widx
<1> DEFINE B == [dataBuf[w] EXCEPT !.label = [dataBuf[w].label EXCEPT ![setter.row] = setter.n]]
<1>1. dataBuf[w] \in Buffers /\ dataBuf \in [0..1 -> Buffers]
  BY Buf DEF RowsTypeOK
<1>2. [dataBuf[w].label EXCEPT ![setter.row] = setter.n] \in [Rows -> Numbers]
  BY Buf
<1>3. B \in Buffers
  BY <1>1, <1>2 DEF Buffers
<1>4. dataBuf' = [dataBuf EXCEPT ![w] = B]
  BY DEF CopyLabel
<1>5. /\ B.text = dataBuf[w].text /\ B.nrows = dataBuf[w].nrows /\ B.dirty = dataBuf[w].dirty
      /\ B.label = [dataBuf[w].label EXCEPT ![setter.row] = setter.n]
  BY <1>1 DEF Buffers
<1> HIDE DEF B
<1>6. dataBuf'[w] = B /\ \A b \in 0..1 : b # w => dataBuf'[b] = dataBuf[b]
  BY <1>1, <1>4, Buf
<1>7. dataBuf' \in [0..1 -> Buffers]
  BY <1>1, <1>3, <1>4
<1> QED
  BY <1>5, <1>6, <1>7

(* CopyText changes one text of that buffer, and may raise its nrows.      *)
LEMMA TextEffect ==
  ASSUME RowsTypeOK, CopyText
  PROVE  /\ dataBuf' \in [0..1 -> Buffers]
         /\ \A b \in 0..1 : /\ b # setter.widx => dataBuf'[b] = dataBuf[b]
                            /\ dataBuf'[b].label = dataBuf[b].label /\ dataBuf'[b].nrows >= dataBuf[b].nrows
                            /\ dataBuf'[b].dirty = dataBuf[b].dirty
         /\ dataBuf'[setter.widx].text = [dataBuf[setter.widx].text EXCEPT ![setter.row] = setter.n]
         /\ dataBuf'[setter.widx].nrows >= setter.row
<1> DEFINE w == setter.widx
<1> DEFINE m == IF setter.row > dataBuf[w].nrows THEN setter.row ELSE dataBuf[w].nrows
<1> DEFINE B == [dataBuf[w] EXCEPT !.text = [dataBuf[w].text EXCEPT ![setter.row] = setter.n], !.nrows = m]
<1>1. dataBuf[w] \in Buffers /\ dataBuf \in [0..1 -> Buffers]
  BY Buf DEF RowsTypeOK
<1>2. [dataBuf[w].text EXCEPT ![setter.row] = setter.n] \in [Rows -> Numbers]
  BY Buf
<1>3. m \in 0..TUI_MAX_ROWS_PER_GROUP /\ m >= setter.row /\ m >= dataBuf[w].nrows
  <2>1. /\ dataBuf[w].nrows \in 0..TUI_MAX_ROWS_PER_GROUP /\ setter.row \in Nat /\ setter.row >= 1
        /\ setter.row <= TUI_MAX_ROWS_PER_GROUP
    BY Buf
  <2> QED
    BY <2>1, Constants
<1>4. dataBuf' = [dataBuf EXCEPT ![w] = B]
  BY DEF CopyText
<1> HIDE DEF m
<1>5. B \in Buffers
  BY <1>1, <1>2, <1>3 DEF Buffers
<1>6. /\ B.label = dataBuf[w].label /\ B.nrows = m /\ B.dirty = dataBuf[w].dirty
      /\ B.text = [dataBuf[w].text EXCEPT ![setter.row] = setter.n]
  BY <1>1 DEF Buffers
<1> HIDE DEF B
<1>7. dataBuf'[w] = B /\ \A b \in 0..1 : b # w => dataBuf'[b] = dataBuf[b]
  BY <1>1, <1>4, Buf
<1>8. dataBuf' \in [0..1 -> Buffers]
  BY <1>1, <1>4, <1>5
<1> QED
  BY <1>3, <1>6, <1>7, <1>8, Buf

(* StoreDirty changes the flag of that buffer alone.                       *)
LEMMA FlagEffect ==
  ASSUME RowsTypeOK, NEW w \in 0..1, NEW v \in BOOLEAN, dataBuf' = [dataBuf EXCEPT ![w].dirty = v]
  PROVE  /\ dataBuf' \in [0..1 -> Buffers]
         /\ \A b \in 0..1 : /\ b # w => dataBuf'[b] = dataBuf[b]
                            /\ dataBuf'[b].label = dataBuf[b].label /\ dataBuf'[b].text = dataBuf[b].text
                            /\ dataBuf'[b].nrows = dataBuf[b].nrows
         /\ dataBuf'[w].dirty = v
<1> DEFINE B == [dataBuf[w] EXCEPT !.dirty = v]
<1>1. dataBuf[w] \in Buffers /\ dataBuf \in [0..1 -> Buffers]
  BY DEF RowsTypeOK
<1>2. B \in Buffers
  BY <1>1 DEF Buffers
<1>3. dataBuf' = [dataBuf EXCEPT ![w] = B]
  OBVIOUS
<1>4. B.label = dataBuf[w].label /\ B.text = dataBuf[w].text /\ B.nrows = dataBuf[w].nrows /\ B.dirty = v
  BY <1>1 DEF Buffers
<1> HIDE DEF B
<1>5. dataBuf'[w] = B /\ \A b \in 0..1 : b # w => dataBuf'[b] = dataBuf[b]
  BY <1>1, <1>3
<1>6. dataBuf' \in [0..1 -> Buffers]
  BY <1>1, <1>2, <1>3
<1> QED
  BY <1>4, <1>5, <1>6

(* The frame is a record.                                                  *)
LEMMA DrawnKind ==
  ASSUME DrawnInv, NEW q \in Seq([label : Numbers, text : Numbers])
  PROVE  [drawn EXCEPT !.rows = q] \in [ridx : 0..1, height : Nat, rows : Seq([label : Numbers, text : Numbers])]
BY DEF DrawnInv

(* One of its fields is replaced.                                          *)
LEMMA DrawnRecord ==
  ASSUME DrawnInv, NEW q
  PROVE  LET d == [drawn EXCEPT !.rows = q]
         IN  d.rows = q /\ d.ridx = drawn.ridx /\ d.height = drawn.height
BY DEF DrawnInv

(* A frame begins without rows.                                            *)
LEMMA EmptyDrawn ==
  ASSUME area1_h' = area1_h, area1_h \in Nat, tick' \in {"clear", "rows"}, (1 - dataWriteIdx)' \in 0..1,
         drawn' = [ridx |-> (1 - dataWriteIdx)', height |-> area1_h, rows |-> <<>>],
         dataBuf'[(1 - dataWriteIdx)'].nrows \in Nat
  PROVE  DrawnInv'
<1>1. drawn' \in [ridx : 0..1, height : Nat, rows : Seq([label : Numbers, text : Numbers])]
  OBVIOUS
<1>2. drawn'.rows = <<>> /\ DOMAIN drawn'.rows = {} /\ Len(drawn'.rows) = 0
      /\ drawn'.ridx = (1 - dataWriteIdx)' /\ drawn'.height = area1_h
  OBVIOUS
<1> QED
  BY <1>1, <1>2 DEF DrawnInv, Drawn

(* What is drawn stays true while the buffer to draw changes only in rows  *)
(* that were being set at the swap.                                        *)
LEMMA DrawnKept ==
  ASSUME RowsTypeOK, DrawnInv, UNCHANGED <<drawn, area1_h, dataWriteIdx, due, late>>,
         tick' = tick \/ (tick = "clear" /\ tick' = "rows"),
         \A r \in Rows \ late :
           /\ dataBuf'[1 - dataWriteIdx].label[r] = dataBuf[1 - dataWriteIdx].label[r]
           /\ dataBuf'[1 - dataWriteIdx].text[r] = dataBuf[1 - dataWriteIdx].text[r],
         dataBuf'[1 - dataWriteIdx].nrows \in Nat,
         dataBuf'[1 - dataWriteIdx].nrows >= dataBuf[1 - dataWriteIdx].nrows
  PROVE  DrawnInv'
<1>1. tick \in {"idle", "area1", "clear", "rows", "text"}
  BY DEF RowsTypeOK
<1>2. drawn.rows \in Seq([label : Numbers, text : Numbers]) /\ Len(drawn.rows) \in Nat
      /\ DOMAIN drawn.rows = 1..Len(drawn.rows)
  BY DEF DrawnInv
<1>3. tick \in {"idle", "area1"} => drawn.rows = <<>>
  BY DEF DrawnInv
<1>4. tick \in {"clear", "rows", "text"} =>
        /\ drawn.ridx = 1 - dataWriteIdx /\ drawn.height = area1_h
        /\ Len(drawn.rows) <= dataBuf'[drawn.ridx].nrows
  BY SMTT(30), <1>2, Buf DEF DrawnInv
<1>5. \A r \in DOMAIN drawn.rows : r \in Rows
  <2>1. CASE tick \in {"idle", "area1"}
    BY <1>3, <2>1
  <2>2. CASE tick \in {"clear", "rows", "text"}
    <3>1. Len(drawn.rows) <= dataBuf[1 - dataWriteIdx].nrows
      BY <2>2 DEF DrawnInv
    <3>2. dataBuf[1 - dataWriteIdx].nrows \in 0..TUI_MAX_ROWS_PER_GROUP
      BY Buf
    <3> QED
      BY <1>2, <3>1, <3>2, Constants
  <2> QED
    BY <1>1, <2>1, <2>2
<1>6. \A r \in DOMAIN drawn.rows : r \notin late =>
        drawn.rows[r].label = dataBuf'[1 - dataWriteIdx].label[r]
  BY <1>5 DEF DrawnInv
<1>7. \A r \in DOMAIN drawn.rows : (tick' = "text" => r < Len(drawn.rows)) =>
        /\ r \notin late => drawn.rows[r].text = dataBuf'[1 - dataWriteIdx].text[r]
        /\ drawn.rows[r].text >= due[r]
  BY <1>5 DEF DrawnInv, Drawn
<1>8. tick' = "text" => Len(drawn.rows) > 0
  BY DEF DrawnInv
<1> QED
  BY <1>1, <1>2, <1>3, <1>4, <1>6, <1>7, <1>8 DEF DrawnInv, Drawn

(* A thread begins an update.                                              *)
LEMMA RowsLoad ==
  ASSUME RowsInv, NEW r \in Rows, LoadWriteIdx(r), UNCHANGED <<tick, m_termRows, area1_h>>
  PROVE  RowsInv'
<1>1. RowsTypeOK'
  <2>1. TRUE \in BOOLEAN
    BY Zenon
  <2>2. updates + 1 \in Numbers
    BY Constants DEF RowsInv, RowsTypeOK, LoadWriteIdx
  <2>3. setter' \in Setters
    BY <2>1, <2>2 DEF RowsInv, RowsTypeOK, Setters, LoadWriteIdx, WriteIdx
  <2> QED
    BY <2>2, <2>3 DEF RowsInv, RowsTypeOK, LoadWriteIdx, Reader
<1>2. SetterInv'
  BY Constants
  DEF RowsInv, RowsTypeOK, SetterInv, LoadWriteIdx, WriteIdx, Reader
<1>3. DueInv'
  BY Constants
  DEF RowsInv, RowsTypeOK, DueInv, InBuffer, SetterInv, LoadWriteIdx, WriteIdx, Reader
<1>4. DrawnInv'
  BY Constants
  DEF RowsInv, RowsTypeOK, DrawnInv, Drawn, SetterInv, DueInv, InBuffer, LoadWriteIdx, WriteIdx, Reader
<1> QED
  BY <1>1, <1>2, <1>3, <1>4 DEF RowsInv

(* The label is copied.                                                    *)
LEMMA RowsCopyLabel ==
  ASSUME RowsInv, CopyLabel, UNCHANGED <<tick, m_termRows, area1_h>>
  PROVE  RowsInv'
<1>1. RowsTypeOK'
  <2>1. setter' \in Setters
    BY DEF RowsInv, RowsTypeOK, Setters, CopyLabel
  <2>2. dataBuf' \in [0..1 -> Buffers]
    BY LabelEffect DEF RowsInv
  <2> QED
    BY <2>1, <2>2 DEF RowsInv, RowsTypeOK, CopyLabel, Reader
<1>2. SetterInv'
  <2>1. /\ setter'.at = "text" /\ setter'.widx = setter.widx /\ setter'.row = setter.row /\ setter'.n = setter.n
        /\ setter'.fresh = setter.fresh /\ setter.at = "label" /\ UNCHANGED <<updates, dataWriteIdx, late>>
    BY DEF RowsInv, RowsTypeOK, Setters, CopyLabel, Reader
  <2>2. ASSUME NEW b \in 0..1, NEW r \in Rows, b # setter.widx \/ r # setter.row
        PROVE  dataBuf'[b].label[r] = dataBuf'[b].text[r]
    BY <2>1, <2>2, LabelEffect, Buf DEF RowsInv, SetterInv
  <2>3. dataBuf'[setter.widx].label[setter.row] = setter.n
    BY LabelEffect, Buf DEF RowsInv
  <2> QED
    BY <2>1, <2>2, <2>3, Buf DEF RowsInv, SetterInv
<1>3. DueInv'
  <2>1. /\ UNCHANGED <<whole, due, updates, dataWriteIdx>>
        /\ \A b \in 0..1 : dataBuf'[b].text = dataBuf[b].text /\ dataBuf'[b].nrows = dataBuf[b].nrows
                           /\ dataBuf'[b].dirty = dataBuf[b].dirty
    BY LabelEffect DEF RowsInv, CopyLabel, Reader
  <2> QED
    BY <2>1, Buf DEF RowsInv, DueInv, InBuffer
<1>4. DrawnInv'
  <2>1. setter.widx = dataWriteIdx \/ setter.row \in late
    BY Buf, Zenon DEF RowsInv, SetterInv, CopyLabel
  <2>2. \A r \in Rows \ late : dataBuf'[1 - dataWriteIdx].label[r] = dataBuf[1 - dataWriteIdx].label[r]
    BY <2>1, LabelEffect, Buf DEF RowsInv
  <2> QED
    BY <2>2, DrawnKept, LabelEffect, Buf DEF RowsInv, CopyLabel, Reader
<1> QED
  BY <1>1, <1>2, <1>3, <1>4 DEF RowsInv

(* The text is copied.                                                     *)
LEMMA RowsCopyText ==
  ASSUME RowsInv, CopyText, UNCHANGED <<tick, m_termRows, area1_h>>
  PROVE  RowsInv'
<1>1. RowsTypeOK'
  <2>1. setter' \in Setters
    BY DEF RowsInv, RowsTypeOK, Setters, CopyText
  <2>2. dataBuf' \in [0..1 -> Buffers]
    BY TextEffect DEF RowsInv
  <2> QED
    BY <2>1, <2>2 DEF RowsInv, RowsTypeOK, CopyText, Reader
<1>2. SetterInv'
  <2>1. /\ setter'.at = "dirty" /\ setter'.widx = setter.widx /\ setter'.row = setter.row /\ setter'.n = setter.n
        /\ setter'.fresh = setter.fresh /\ setter.at = "text" /\ UNCHANGED <<updates, dataWriteIdx, late>>
    BY DEF RowsInv, RowsTypeOK, Setters, CopyText, Reader
  <2>2. ASSUME NEW b \in 0..1, NEW r \in Rows PROVE dataBuf'[b].label[r] = dataBuf'[b].text[r]
    <3>1. CASE b = setter.widx /\ r = setter.row
      BY <2>1, <3>1, TextEffect, Buf DEF RowsInv, SetterInv
    <3>2. CASE b = setter.widx /\ r # setter.row
      BY <2>1, <3>2, TextEffect, Buf DEF RowsInv, SetterInv
    <3>3. CASE b # setter.widx
      BY <2>1, <3>3, TextEffect, Buf DEF RowsInv, SetterInv
    <3> QED
      BY <3>1, <3>2, <3>3
  <2>3. dataBuf'[setter.widx].text[setter.row] = setter.n /\ dataBuf'[setter.widx].nrows >= setter.row
    BY TextEffect, Buf DEF RowsInv
  <2> QED
    BY <2>1, <2>2, <2>3 DEF RowsInv, SetterInv
<1>3. DueInv'
  <2>1. \A b \in 0..1, r \in Rows, n \in 0..updates : InBuffer(b, r, n) => InBuffer(b, r, n)'
    <3> TAKE b \in 0..1, r \in Rows, n \in 0..updates
    <3>1. setter.n = updates /\ updates \in Nat
      BY Constants DEF RowsInv, SetterInv, RowsTypeOK, CopyText
    <3>2. dataBuf'[b].nrows \in Nat /\ dataBuf'[b].text[r] \in Nat
      BY <1>1, BufPrimed
    <3>3. CASE b = setter.widx /\ r = setter.row
      BY <3>1, <3>2, <3>3, TextEffect, Buf DEF RowsInv, InBuffer
    <3>4. CASE b # setter.widx \/ r # setter.row
      BY <3>2, <3>4, TextEffect, Buf DEF RowsInv, InBuffer
    <3> QED
      BY <3>3, <3>4
  <2>2. /\ UNCHANGED <<whole, due, updates, dataWriteIdx>> /\ updates \in Nat
        /\ dataBuf'[dataWriteIdx].dirty = dataBuf[dataWriteIdx].dirty
    BY TextEffect, Buf, Constants DEF RowsInv, RowsTypeOK, CopyText, Reader
  <2>3. \A r \in Rows : whole[r] \in 0..updates /\ due[r] \in 0..updates
    BY <2>2, Buf DEF RowsInv, DueInv
  <2> QED
    BY <2>1, <2>2, <2>3, Buf DEF RowsInv, DueInv
<1>4. DrawnInv'
  <2>1. setter.widx = dataWriteIdx \/ setter.row \in late
    BY Buf, Zenon DEF RowsInv, SetterInv, CopyText
  <2>2. \A r \in Rows \ late : dataBuf'[1 - dataWriteIdx].text[r] = dataBuf[1 - dataWriteIdx].text[r]
    BY <2>1, TextEffect, Buf DEF RowsInv
  <2>3. dataBuf'[1 - dataWriteIdx].nrows \in Nat
    BY <1>1, BufPrimed, Buf DEF RowsInv, CopyText, Reader
  <2> QED
    BY <2>2, <2>3, DrawnKept, TextEffect, Buf DEF RowsInv, CopyText, Reader
<1> QED
  BY <1>1, <1>2, <1>3, <1>4 DEF RowsInv

(* The flag is set.                                                        *)
LEMMA RowsStoreDirty ==
  ASSUME RowsInv, StoreDirty, UNCHANGED <<tick, m_termRows, area1_h>>
  PROVE  RowsInv'
<1>1. RowsTypeOK'
  <2>1. /\ dataBuf' = [dataBuf EXCEPT ![setter.widx].dirty = TRUE] /\ TRUE \in BOOLEAN /\ FALSE \in BOOLEAN
        /\ setter' = [at |-> "idle", row |-> 1, widx |-> 0, n |-> 0, fresh |-> FALSE]
        /\ whole' = IF setter.fresh THEN [whole EXCEPT ![setter.row] = setter.n] ELSE whole
    BY Zenon DEF StoreDirty, Idle
  <2>2. dataBuf' \in [0..1 -> Buffers]
    BY <2>1, FlagEffect, Buf DEF RowsInv
  <2>3. setter' \in Setters
    BY <2>1, Constants DEF Setters
  <2>4. whole' \in [Rows -> Numbers]
    BY <2>1, Buf DEF RowsInv, RowsTypeOK
  <2> QED
    BY <2>2, <2>3, <2>4 DEF RowsInv, RowsTypeOK, StoreDirty, Reader
<1>2. SetterInv'
  <2>1. dataBuf' = [dataBuf EXCEPT ![setter.widx].dirty = TRUE] /\ setter'.at = "idle" /\ setter.at = "dirty"
    BY DEF StoreDirty, Idle
  <2>2. TRUE \in BOOLEAN
    BY Zenon
  <2>3. \A b \in 0..1 : dataBuf'[b].label = dataBuf[b].label /\ dataBuf'[b].text = dataBuf[b].text
    BY <2>1, <2>2, FlagEffect, Buf DEF RowsInv
  <2> QED
    BY <2>1, <2>3 DEF RowsInv, SetterInv
<1>3. DueInv'
  <2>1. /\ dataBuf' = [dataBuf EXCEPT ![setter.widx].dirty = TRUE] /\ setter.at = "dirty"
        /\ whole' = IF setter.fresh THEN [whole EXCEPT ![setter.row] = setter.n] ELSE whole
        /\ UNCHANGED <<due, updates, dataWriteIdx>>
    BY DEF StoreDirty, Reader
  <2>2. TRUE \in BOOLEAN
    BY Zenon
  <2>3. /\ \A b \in 0..1 : dataBuf'[b].nrows = dataBuf[b].nrows /\ dataBuf'[b].text = dataBuf[b].text
        /\ \A b \in 0..1 : b # setter.widx => dataBuf'[b].dirty = dataBuf[b].dirty
        /\ dataBuf'[setter.widx].dirty
    BY <2>1, <2>2, FlagEffect, Buf DEF RowsInv
  <2>4. ASSUME NEW r \in Rows PROVE InBuffer(1 - dataWriteIdx, r, due[r])' \/ due[r] = 0
    BY <2>1, <2>3, Buf DEF RowsInv, DueInv, InBuffer
  <2>5. ASSUME NEW r \in Rows, whole'[r] # 0
        PROVE  InBuffer(dataWriteIdx, r, whole[r])' /\ dataBuf'[dataWriteIdx].dirty /\ whole'[r] <= updates
    <3>1. CASE whole'[r] = whole[r]
      BY <2>1, <2>3, <2>5, <3>1, Buf DEF RowsInv, DueInv, InBuffer
    <3>2. CASE setter.fresh /\ r = setter.row
      <4>1. setter.widx = dataWriteIdx /\ setter.n = updates /\ updates \in Nat
        BY <2>1, <3>2, Constants DEF RowsInv, SetterInv, RowsTypeOK
      <4>2. whole'[r] = updates
        BY <2>1, <3>2, <4>1 DEF RowsInv, RowsTypeOK
      <4>3. dataBuf[dataWriteIdx].text[r] = updates /\ dataBuf[dataWriteIdx].nrows >= r
        BY <2>1, <3>2, <4>1 DEF RowsInv, SetterInv
      <4> QED
        BY <2>1, <2>3, <4>1, <4>2, <4>3, Buf DEF InBuffer
    <3> QED
      BY <2>1, <2>5, <3>1, <3>2, Buf DEF RowsInv, RowsTypeOK
  <2>6. \A r \in Rows : whole'[r] <= updates /\ due[r] <= updates
    BY <2>5, Buf DEF RowsInv, DueInv, RowsTypeOK
  <2> QED
    BY <2>1, <2>4, <2>5, <2>6 DEF DueInv
<1>4. DrawnInv'
  <2>1. dataBuf' = [dataBuf EXCEPT ![setter.widx].dirty = TRUE] /\ UNCHANGED <<drawn, dataWriteIdx, due, late>>
    BY DEF StoreDirty, Reader
  <2>2. TRUE \in BOOLEAN
    BY Zenon
  <2>3. \A b \in 0..1 : dataBuf'[b].label = dataBuf[b].label /\ dataBuf'[b].text = dataBuf[b].text
                        /\ dataBuf'[b].nrows = dataBuf[b].nrows
    BY <2>1, <2>2, FlagEffect, Buf DEF RowsInv
  <2> QED
    BY <2>1, <2>3, DrawnKept, Buf DEF RowsInv
<1> QED
  BY <1>1, <1>2, <1>3, <1>4 DEF RowsInv

(* The buffers are not swapped.                                            *)
LEMMA RowsKeepBuffers ==
  ASSUME RowsInv, KeepBuffers(area1_h), tick = "area1", tick' = "rows", UNCHANGED <<m_termRows, area1_h>>
  PROVE  RowsInv'
<1>1. RowsTypeOK'
  BY Constants
  DEF RowsInv, RowsTypeOK, Buffers, Setters, KeepBuffers, IsDirty, Due, Setter
<1>2. SetterInv'
  BY Constants
  DEF RowsInv, RowsTypeOK, SetterInv, KeepBuffers, IsDirty, Due, Setter
<1>3. DueInv'
  BY Constants
  DEF RowsInv, RowsTypeOK, DueInv, InBuffer, SetterInv, KeepBuffers, IsDirty, Due, Setter
<1>4. DrawnInv'
  <2>1. /\ drawn' = [ridx |-> 1 - dataWriteIdx, height |-> area1_h, rows |-> <<>>] /\ UNCHANGED <<dataBuf, dataWriteIdx>>
    BY DEF KeepBuffers
  <2>2. area1_h \in Nat /\ 1 - dataWriteIdx \in 0..1 /\ dataBuf[1 - dataWriteIdx].nrows \in Nat
    BY Buf DEF RowsInv, RowsTypeOK
  <2> QED
    BY <2>1, <2>2, EmptyDrawn
<1> QED
  BY <1>1, <1>2, <1>3, <1>4 DEF RowsInv

(* The buffers are swapped.                                                *)
LEMMA RowsSwapBuffers ==
  ASSUME RowsInv, SwapBuffers(area1_h), tick = "area1", tick' = "clear", UNCHANGED <<m_termRows, area1_h>>
  PROVE  RowsInv'
<1>1. RowsTypeOK'
  <2>1. setter' = [setter EXCEPT !.fresh = FALSE] /\ dataWriteIdx' = 1 - dataWriteIdx
        /\ whole' = [r \in Rows |-> 0] /\ late' \in {{}, {setter.row}}
        /\ due' = [r \in Rows |-> IF whole[r] # 0 THEN whole[r] ELSE 0] /\ UNCHANGED <<dataBuf, updates>>
    BY DEF SwapBuffers, Blank, Due
  <2>2. FALSE \in BOOLEAN
    BY Zenon
  <2>3. setter' \in Setters
    BY <2>1, <2>2 DEF RowsInv, RowsTypeOK, Setters
  <2>4. due' \in [Rows -> Numbers] /\ whole' \in [Rows -> Numbers]
    BY <2>1, Constants DEF RowsInv, RowsTypeOK
  <2> QED
    BY <2>1, <2>3, <2>4, Buf DEF RowsInv, RowsTypeOK
<1>2. SetterInv'
  BY Constants
  DEF RowsInv, RowsTypeOK, SetterInv, SwapBuffers, IsDirty, Due, Blank
<1>3. DueInv'
  BY Constants
  DEF RowsInv, RowsTypeOK, DueInv, InBuffer, SetterInv, SwapBuffers, IsDirty, Due, Blank
<1>4. DrawnInv'
  <2>1. /\ drawn' = [ridx |-> dataWriteIdx, height |-> area1_h, rows |-> <<>>] /\ UNCHANGED dataBuf
        /\ dataWriteIdx' = 1 - dataWriteIdx
    BY DEF SwapBuffers
  <2>2. area1_h \in Nat /\ dataWriteIdx \in 0..1 /\ dataBuf[dataWriteIdx].nrows \in Nat
        /\ 1 - (1 - dataWriteIdx) = dataWriteIdx
    BY Buf DEF RowsInv, RowsTypeOK
  <2> QED
    BY <2>1, <2>2, EmptyDrawn
<1> QED
  BY <1>1, <1>2, <1>3, <1>4 DEF RowsInv

(* The flag of the buffer to draw is cleared.                              *)
LEMMA RowsClearFlag ==
  ASSUME RowsInv, ClearFlag
  PROVE  RowsInv'
<1>1. RowsTypeOK'
  <2>1. /\ dataBuf' = [dataBuf EXCEPT ![drawn.ridx].dirty = FALSE] /\ tick = "clear" /\ tick' = "rows"
        /\ UNCHANGED <<setter, updates, whole, drawn, dataWriteIdx, due, late, area1_h, m_termRows>>
    BY DEF ClearFlag, ClearDirty, OldIdx, Setter, Drawing
  <2>2. FALSE \in BOOLEAN /\ drawn.ridx = 1 - dataWriteIdx
    <3>1. FALSE \in BOOLEAN
      BY Zenon
    <3> QED
      BY <2>1, <3>1 DEF RowsInv, DrawnInv
  <2>3. /\ \A b \in 0..1 : dataBuf'[b].label = dataBuf[b].label /\ dataBuf'[b].text = dataBuf[b].text
                        /\ dataBuf'[b].nrows = dataBuf[b].nrows
        /\ dataBuf'[dataWriteIdx] = dataBuf[dataWriteIdx] /\ dataBuf' \in [0..1 -> Buffers]
    <3>1. drawn.ridx \in 0..1 /\ dataWriteIdx # drawn.ridx /\ dataWriteIdx \in 0..1
      BY <2>2, Buf DEF RowsInv
    <3> QED
      BY <2>1, <2>2, <3>1, FlagEffect DEF RowsInv
  <2> QED
    BY <2>1, <2>3, Buf DEF RowsInv, RowsTypeOK
<1>2. SetterInv'
  <2>1. /\ dataBuf' = [dataBuf EXCEPT ![drawn.ridx].dirty = FALSE] /\ tick = "clear" /\ tick' = "rows"
        /\ UNCHANGED <<setter, updates, whole, drawn, dataWriteIdx, due, late, area1_h, m_termRows>>
    BY DEF ClearFlag, ClearDirty, OldIdx, Setter, Drawing
  <2>2. FALSE \in BOOLEAN /\ drawn.ridx = 1 - dataWriteIdx
    <3>1. FALSE \in BOOLEAN
      BY Zenon
    <3> QED
      BY <2>1, <3>1 DEF RowsInv, DrawnInv
  <2>3. /\ \A b \in 0..1 : dataBuf'[b].label = dataBuf[b].label /\ dataBuf'[b].text = dataBuf[b].text
                        /\ dataBuf'[b].nrows = dataBuf[b].nrows
        /\ dataBuf'[dataWriteIdx] = dataBuf[dataWriteIdx] /\ dataBuf' \in [0..1 -> Buffers]
    <3>1. drawn.ridx \in 0..1 /\ dataWriteIdx # drawn.ridx /\ dataWriteIdx \in 0..1
      BY <2>2, Buf DEF RowsInv
    <3> QED
      BY <2>1, <2>2, <3>1, FlagEffect DEF RowsInv
  <2> QED
    BY <2>1, <2>3, Buf DEF RowsInv, SetterInv
<1>3. DueInv'
  <2>1. /\ dataBuf' = [dataBuf EXCEPT ![drawn.ridx].dirty = FALSE] /\ tick = "clear" /\ tick' = "rows"
        /\ UNCHANGED <<setter, updates, whole, drawn, dataWriteIdx, due, late, area1_h, m_termRows>>
    BY DEF ClearFlag, ClearDirty, OldIdx, Setter, Drawing
  <2>2. FALSE \in BOOLEAN /\ drawn.ridx = 1 - dataWriteIdx
    <3>1. FALSE \in BOOLEAN
      BY Zenon
    <3> QED
      BY <2>1, <3>1 DEF RowsInv, DrawnInv
  <2>3. /\ \A b \in 0..1 : dataBuf'[b].label = dataBuf[b].label /\ dataBuf'[b].text = dataBuf[b].text
                        /\ dataBuf'[b].nrows = dataBuf[b].nrows
        /\ dataBuf'[dataWriteIdx] = dataBuf[dataWriteIdx] /\ dataBuf' \in [0..1 -> Buffers]
    <3>1. drawn.ridx \in 0..1 /\ dataWriteIdx # drawn.ridx /\ dataWriteIdx \in 0..1
      BY <2>2, Buf DEF RowsInv
    <3> QED
      BY <2>1, <2>2, <3>1, FlagEffect DEF RowsInv
  <2> QED
    BY <2>1, <2>3, Buf DEF RowsInv, DueInv, InBuffer
<1>4. DrawnInv'
  <2>1. /\ dataBuf' = [dataBuf EXCEPT ![drawn.ridx].dirty = FALSE] /\ tick = "clear" /\ tick' = "rows"
        /\ UNCHANGED <<setter, updates, whole, drawn, dataWriteIdx, due, late, area1_h, m_termRows>>
    BY DEF ClearFlag, ClearDirty, OldIdx, Setter, Drawing
  <2>2. FALSE \in BOOLEAN /\ drawn.ridx = 1 - dataWriteIdx
    <3>1. FALSE \in BOOLEAN
      BY Zenon
    <3> QED
      BY <2>1, <3>1 DEF RowsInv, DrawnInv
  <2>3. /\ \A b \in 0..1 : dataBuf'[b].label = dataBuf[b].label /\ dataBuf'[b].text = dataBuf[b].text
                        /\ dataBuf'[b].nrows = dataBuf[b].nrows
        /\ dataBuf'[dataWriteIdx] = dataBuf[dataWriteIdx] /\ dataBuf' \in [0..1 -> Buffers]
    <3>1. drawn.ridx \in 0..1 /\ dataWriteIdx # drawn.ridx /\ dataWriteIdx \in 0..1
      BY <2>2, Buf DEF RowsInv
    <3> QED
      BY <2>1, <2>2, <3>1, FlagEffect DEF RowsInv
  <2> QED
    BY <2>1, <2>3, Buf, DrawnKept DEF RowsInv
<1> QED
  BY <1>1, <1>2, <1>3, <1>4 DEF RowsInv

(* The label of a row is drawn.                                            *)
LEMMA RowsDrawLabel ==
  ASSUME RowsInv, DrawLabel, tick = "rows", tick' = "text", UNCHANGED <<m_termRows, area1_h>>
  PROVE  RowsInv'
<1>1. RowsTypeOK'
  BY Constants
  DEF RowsInv, RowsTypeOK, Buffers, Setters, DrawLabel, MoreRows, Setter
<1>2. SetterInv'
  BY Constants
  DEF RowsInv, RowsTypeOK, SetterInv, DrawLabel, MoreRows, Setter
<1>3. DueInv'
  BY Constants
  DEF RowsInv, RowsTypeOK, DueInv, InBuffer, SetterInv, DrawLabel, MoreRows, Setter
<1>4. DrawnInv'
  <2> DEFINE n == Len(drawn.rows)
  <2> DEFINE row == [label |-> dataBuf[drawn.ridx].label[n + 1], text |-> 0]
  <2>1. /\ drawn' = [drawn EXCEPT !.rows = Append(@, row)] /\ tick = "rows" /\ tick' = "text"
        /\ n < dataBuf[drawn.ridx].nrows
        /\ UNCHANGED <<dataBuf, dataWriteIdx, due, late>>
    BY DEF DrawLabel, MoreRows, Setter
  <2>2. /\ drawn.rows \in Seq([label : Numbers, text : Numbers]) /\ n \in Nat
        /\ drawn.ridx = 1 - dataWriteIdx /\ drawn.height = area1_h
    BY <2>1 DEF RowsInv, DrawnInv
  <2>3. n + 1 \in Rows /\ n + 1 <= dataBuf[drawn.ridx].nrows
    <3>1. dataBuf[drawn.ridx].nrows \in 0..TUI_MAX_ROWS_PER_GROUP
      BY <2>2, Buf DEF RowsInv
    <3> HIDE DEF n
    <3> QED
      BY <2>1, <2>2, <3>1, Constants
  <2>4. row \in [label : Numbers, text : Numbers] /\ row.label = dataBuf[1 - dataWriteIdx].label[n + 1]
    <3>1. dataBuf[drawn.ridx].label \in [Rows -> Numbers]
      BY <2>2, Buf DEF RowsInv
    <3>2. 0 \in Numbers
      BY Constants
    <3> HIDE DEF n
    <3> QED
      BY <2>2, <2>3, <3>1, <3>2
  <2> HIDE DEF row
  <2>5. /\ drawn'.rows = Append(drawn.rows, row) /\ drawn'.ridx = drawn.ridx /\ drawn'.height = drawn.height
    BY <2>1, DrawnRecord DEF RowsInv
  <2>6. /\ drawn'.rows \in Seq([label : Numbers, text : Numbers]) /\ Len(drawn'.rows) = n + 1
        /\ DOMAIN drawn'.rows = 1..(n + 1) /\ drawn'.rows[n + 1] = row
        /\ \A r \in 1..n : drawn'.rows[r] = drawn.rows[r]
    BY <2>2, <2>4, <2>5
  <2>7. \A r \in 1..n : /\ r \notin late => drawn.rows[r].label = dataBuf[1 - dataWriteIdx].label[r]
                        /\ r \notin late => drawn.rows[r].text = dataBuf[1 - dataWriteIdx].text[r]
                        /\ drawn.rows[r].text >= due[r]
    BY <2>1, <2>2 DEF RowsInv, DrawnInv, Drawn
  <2>8. \A r \in DOMAIN drawn'.rows : r \notin late =>
          drawn'.rows[r].label = dataBuf[1 - dataWriteIdx].label[r]
    BY <2>2, <2>4, <2>6, <2>7
  <2>9. \A r \in DOMAIN drawn'.rows : r < Len(drawn'.rows) =>
          /\ r \notin late => drawn'.rows[r].text = dataBuf[1 - dataWriteIdx].text[r]
          /\ drawn'.rows[r].text >= due[r]
    BY <2>2, <2>6, <2>7
  <2>10. Len(drawn'.rows) <= dataBuf[drawn.ridx].nrows
    BY <2>3, <2>6
  <2>11. drawn' \in [ridx : 0..1, height : Nat, rows : Seq([label : Numbers, text : Numbers])]
    BY <2>1, <2>2, <2>6, <2>5, DrawnKind DEF RowsInv
  <2> HIDE DEF n
  <2>12. /\ tick' = "text" /\ Len(drawn'.rows) > 0 /\ area1_h' = area1_h
         /\ drawn'.ridx = (1 - dataWriteIdx)' /\ drawn'.height = area1_h
    BY <2>1, <2>2, <2>5, <2>6
  <2> QED
    BY <2>1, <2>2, <2>5, <2>8, <2>9, <2>10, <2>11, <2>12 DEF DrawnInv, Drawn
<1> QED
  BY <1>1, <1>2, <1>3, <1>4 DEF RowsInv

(* A place of the list of rows holds a row.                                *)
LEMMA RowOfList ==
  ASSUME NEW S, NEW s \in Seq(S), NEW k \in 1..Len(s)
  PROVE  s[k] \in S
  OBVIOUS

(* The text of a row is drawn.                                             *)
LEMMA RowsDrawText ==
  ASSUME RowsInv, DrawText, tick = "text", tick' = "rows", UNCHANGED <<m_termRows, area1_h>>
  PROVE  RowsInv'
<1>1. RowsTypeOK'
  BY Constants
  DEF RowsInv, RowsTypeOK, Buffers, Setters, DrawText, Setter
<1>2. SetterInv'
  BY Constants
  DEF RowsInv, RowsTypeOK, SetterInv, DrawText, Setter
<1>3. DueInv'
  BY Constants
  DEF RowsInv, RowsTypeOK, DueInv, InBuffer, SetterInv, DrawText, Setter
<1>4. DrawnInv'
  <2> DEFINE n == Len(drawn.rows)
  <2> DEFINE t == dataBuf[drawn.ridx].text[n]
  <2>1. drawn' = [drawn EXCEPT !.rows[n].text = t] /\ UNCHANGED <<dataBuf, dataWriteIdx, due, late>>
    BY DEF DrawText, Setter
  <2>2. /\ drawn.rows \in Seq([label : Numbers, text : Numbers]) /\ n \in Nat /\ n > 0
        /\ drawn.ridx = 1 - dataWriteIdx /\ drawn.height = area1_h /\ n <= dataBuf[drawn.ridx].nrows
    BY DEF RowsInv, DrawnInv
  <2>3. n \in Rows
    <3>1. dataBuf[drawn.ridx].nrows \in 0..TUI_MAX_ROWS_PER_GROUP
      BY <2>2, Buf DEF RowsInv
    <3> HIDE DEF n
    <3> QED
      BY <2>2, <3>1, Constants
  <2>4. t \in Numbers /\ t = dataBuf[1 - dataWriteIdx].text[n] /\ t >= due[n]
    <3>1. t \in Numbers /\ t = dataBuf[1 - dataWriteIdx].text[n]
      BY <2>2, <2>3, Buf DEF RowsInv
    <3>2. t >= due[n]
      <4>1. due[n] # 0 => dataBuf[1 - dataWriteIdx].text[n] >= due[n]
        BY <2>3 DEF RowsInv, DueInv, InBuffer
      <4>2. t \in Nat /\ due[n] \in Nat
        BY <2>3, <3>1, Buf DEF RowsInv
      <4> HIDE DEF t, n
      <4> QED
        BY <3>1, <4>1, <4>2
    <3> QED
      BY <3>1, <3>2
  <2> HIDE DEF t
  <2>5. /\ drawn'.rows = [drawn.rows EXCEPT ![n] = [drawn.rows[n] EXCEPT !.text = t]]
        /\ drawn'.ridx = drawn.ridx /\ drawn'.height = drawn.height
    BY <2>1, DrawnRecord DEF RowsInv
  <2>6. [drawn.rows[n] EXCEPT !.text = t] \in [label : Numbers, text : Numbers]
    <3>1. drawn.rows[n] \in [label : Numbers, text : Numbers]
      <4>1. n \in 1..Len(drawn.rows)
        BY <2>2
      <4> HIDE DEF n
      <4>2. drawn.rows \in Seq([label : Numbers, text : Numbers])
        BY <2>2
      <4> QED
        BY <4>1, <4>2, RowOfList
    <3>2. t \in Numbers
      BY <2>4
    <3> HIDE DEF n
    <3> QED
      BY <3>1, <3>2
  <2>7. /\ drawn'.rows \in Seq([label : Numbers, text : Numbers]) /\ Len(drawn'.rows) = n
        /\ DOMAIN drawn'.rows = 1..n /\ drawn'.rows[n].text = t /\ drawn'.rows[n].label = drawn.rows[n].label
        /\ \A r \in 1..(n - 1) : drawn'.rows[r] = drawn.rows[r]
    BY <2>2, <2>5, <2>6
  <2>8. \A r \in 1..n : r \notin late => drawn.rows[r].label = dataBuf[1 - dataWriteIdx].label[r]
    BY <2>2 DEF RowsInv, DrawnInv
  <2>9. \A r \in 1..(n - 1) : /\ r \notin late => drawn.rows[r].text = dataBuf[1 - dataWriteIdx].text[r]
                              /\ drawn.rows[r].text >= due[r]
    BY <2>2 DEF RowsInv, DrawnInv, Drawn
  <2>10. \A r \in DOMAIN drawn'.rows : r \notin late =>
          drawn'.rows[r].label = dataBuf[1 - dataWriteIdx].label[r]
    BY <2>2, <2>7, <2>8
  <2>11. \A r \in DOMAIN drawn'.rows :
          /\ r \notin late => drawn'.rows[r].text = dataBuf[1 - dataWriteIdx].text[r]
          /\ drawn'.rows[r].text >= due[r]
    BY <2>2, <2>4, <2>7, <2>9
  <2>12. drawn' \in [ridx : 0..1, height : Nat, rows : Seq([label : Numbers, text : Numbers])]
    BY <2>1, <2>2, <2>5, <2>7, DrawnKind DEF RowsInv
  <2> HIDE DEF n
  <2>13. /\ tick' = "rows" /\ area1_h' = area1_h
         /\ drawn'.ridx = (1 - dataWriteIdx)' /\ drawn'.height = area1_h
         /\ Len(drawn'.rows) <= dataBuf'[drawn'.ridx].nrows
    BY <2>1, <2>2, <2>5, <2>7
  <2> QED
    BY <2>1, <2>10, <2>11, <2>12, <2>13 DEF DrawnInv, Drawn
<1> QED
  BY <1>1, <1>2, <1>3, <1>4 DEF RowsInv

(* The frame is completed.                                                 *)
LEMMA RowsRenderArea2 ==
  ASSUME RowsInv, RenderArea2
  PROVE  RowsInv'
<1>1. RowsTypeOK'
  BY Constants
  DEF RowsInv, RowsTypeOK, Buffers, Setters, RenderArea2, NoRows, viewvars
<1>2. SetterInv'
  BY Constants
  DEF RowsInv, RowsTypeOK, SetterInv, RenderArea2, NoRows, viewvars
<1>3. DueInv'
  BY Constants
  DEF RowsInv, RowsTypeOK, DueInv, InBuffer, SetterInv, RenderArea2, NoRows, viewvars
<1>4. DrawnInv'
  BY Constants
  DEF RowsInv, RowsTypeOK, DrawnInv, Drawn, SetterInv, DueInv, InBuffer, RenderArea2, NoRows, viewvars
<1> QED
  BY <1>1, <1>2, <1>3, <1>4 DEF RowsInv

(* Tick begins with the height of the rows.                                *)
LEMMA RowsTickBegin ==
  ASSUME RowsInv, TickBegin
  PROVE  RowsInv'
<1>1. RowsTypeOK'
  <2>1. area1_h' \in Nat /\ area1_h' >= 4 /\ m_termRows' \in TermRows
    <3>1. CalcArea1Height \in Nat
      <4>1. dataBuf[1 - dataWriteIdx].nrows \in Nat
        BY Buf DEF RowsInv
      <4>2. HeaderLines \in Nat
        BY Constants
      <4> QED
        BY <4>1, <4>2 DEF CalcArea1Height
    <3> QED
      BY <3>1, Constants DEF TickBegin, AtLeast, AtMost
  <2> QED
    BY <2>1 DEF RowsInv, RowsTypeOK, TickBegin, rowvars
<1>2. SetterInv'
  BY Constants
  DEF RowsInv, RowsTypeOK, SetterInv, TickBegin, rowvars
<1>3. DueInv'
  BY Constants
  DEF RowsInv, RowsTypeOK, DueInv, InBuffer, SetterInv, TickBegin, rowvars
<1>4. DrawnInv'
  BY Constants
  DEF RowsInv, RowsTypeOK, DrawnInv, Drawn, SetterInv, DueInv, InBuffer, TickBegin, rowvars
<1> QED
  BY <1>1, <1>2, <1>3, <1>4 DEF RowsInv

(* The rest leaves the rows alone.                                         *)
LEMMA RowsStutter ==
  ASSUME RowsInv, UNCHANGED <<rowvars, tick, m_termRows, area1_h>>
  PROVE  RowsInv'
<1>1. RowsTypeOK'
  BY Constants
  DEF RowsInv, RowsTypeOK, Buffers, Setters, rowvars
<1>2. SetterInv'
  BY Constants
  DEF RowsInv, RowsTypeOK, SetterInv, rowvars
<1>3. DueInv'
  BY Constants
  DEF RowsInv, RowsTypeOK, DueInv, InBuffer, SetterInv, rowvars
<1>4. DrawnInv'
  BY Constants
  DEF RowsInv, RowsTypeOK, DrawnInv, Drawn, SetterInv, DueInv, InBuffer, rowvars
<1> QED
  BY <1>1, <1>2, <1>3, <1>4 DEF RowsInv

-----------------------------------------------------------------------------
(* The drain thread and the application.                                   *)
LEMMA NextRowsInv == ASSUME RowsInv, [Next]_vars PROVE RowsInv'
<1>1. CASE UNCHANGED <<rowvars, tick, m_termRows, area1_h>>
  BY <1>1, RowsStutter
<1>2. CASE SetRow /\ UNCHANGED <<tick, m_termRows, area1_h>>
  BY <1>2, RowsLoad, RowsCopyLabel, RowsCopyText, RowsStoreDirty DEF SetRow
<1>3. CASE TickBegin
  BY <1>3, RowsTickBegin
<1>4. CASE RenderArea1
  BY <1>4, RowsKeepBuffers, RowsSwapBuffers DEF RenderArea1, Drawing
<1>5. CASE ClearFlag
  BY <1>5, RowsClearFlag
<1>6. CASE DrawRows
  BY <1>6, RowsDrawLabel, RowsDrawText DEF DrawRows, Drawing
<1>7. CASE RenderArea2
  BY <1>7, RowsRenderArea2
<1> QED
  BY <1>1, <1>2, <1>3, <1>4, <1>5, <1>6, <1>7
  DEF Next, Tick, SetsRow, Logs, TakesKey, Defines, vars

(* The inductive invariant of the rows.                                    *)
THEOREM RowsInvariant == Spec => []RowsInv
<1>1. RowsInv /\ [Next]_vars => RowsInv'
  BY NextRowsInv
<1> QED
  BY InitRowsInv, <1>1, PTL DEF Spec

(* Of two buffers, an index and two flags without a lock: an update that   *)
(* begins after a swap and ends before the next one is in the frame that   *)
(* is drawn after it, or a newer one is, if the row is on the screen.      *)
THEOREM FramesAreFresh == Spec => []FreshRows
<1>1. RowsInv => FreshRows
  <2> SUFFICES ASSUME RowsInv, tick = "rows", ~MoreRows, NEW r \in Rows, due[r] # 0
               PROVE  \/ r \in DOMAIN drawn.rows /\ drawn.rows[r].text >= due[r]
                      \/ r > Lines(drawn.height)
    BY DEF FreshRows, AllDrawn
  <2>1. /\ drawn.rows \in Seq([label : Numbers, text : Numbers]) /\ drawn.ridx = 1 - dataWriteIdx
        /\ drawn.height = area1_h /\ area1_h \in Nat /\ area1_h >= 4
    BY DEF RowsInv, DrawnInv, RowsTypeOK
  <2>2. Len(drawn.rows) \in Nat /\ DOMAIN drawn.rows = 1..Len(drawn.rows)
    BY <2>1
  <2>3. dataBuf[drawn.ridx].nrows >= r /\ dataBuf[drawn.ridx].nrows \in Nat /\ r \in Nat /\ r >= 1
    BY <2>1, Buf DEF RowsInv, DueInv, InBuffer
  <2>4. Lines(drawn.height) \in Int
    BY <2>1, Constants DEF Lines
  <2>5. Len(drawn.rows) >= dataBuf[drawn.ridx].nrows \/ Len(drawn.rows) >= Lines(drawn.height)
    BY <2>2, <2>3, <2>4 DEF MoreRows
  <2>6. \A i \in DOMAIN drawn.rows : drawn.rows[i].text >= due[i]
    BY DEF RowsInv, DrawnInv, Drawn
  <2> QED
    BY <2>2, <2>3, <2>4, <2>5, <2>6
<1> QED
  BY <1>1, RowsInvariant, PTL

(* A row whose label and text are of two updates was being set at the      *)
(* swap.                                                                   *)
THEOREM TornOnlyAtSwap == Spec => []TornRows
<1>1. RowsInv => TornRows
  <2> SUFFICES ASSUME RowsInv, tick = "rows", NEW r \in DOMAIN drawn.rows, r \notin late
               PROVE  drawn.rows[r].label = drawn.rows[r].text
    BY DEF TornRows, AllDrawn
  <2>1. /\ drawn.rows[r].label = dataBuf[1 - dataWriteIdx].label[r]
        /\ drawn.rows[r].text = dataBuf[1 - dataWriteIdx].text[r]
    BY DEF RowsInv, DrawnInv, Drawn
  <2>2. r \in Rows
    <3>1. /\ drawn.rows \in Seq([label : Numbers, text : Numbers])
          /\ Len(drawn.rows) <= dataBuf[1 - dataWriteIdx].nrows
      BY DEF RowsInv, DrawnInv
    <3>2. dataBuf[1 - dataWriteIdx].nrows \in 0..TUI_MAX_ROWS_PER_GROUP
      BY Buf DEF RowsInv
    <3> QED
      BY <3>1, <3>2, Constants
  <2>3. dataBuf[1 - dataWriteIdx].label[r] # dataBuf[1 - dataWriteIdx].text[r] =>
          setter.at = "text" /\ setter.widx = 1 - dataWriteIdx /\ setter.row = r
    BY <2>2, Buf DEF RowsInv, SetterInv
  <2>4. setter.at = "text" /\ setter.widx = 1 - dataWriteIdx => setter.row \in late
    <3>1. setter.fresh \in BOOLEAN /\ dataWriteIdx \in 0..1
      BY Buf, Zenon DEF RowsInv
    <3>2. dataWriteIdx # 1 - dataWriteIdx
      BY <3>1
    <3>3. CASE setter.fresh
      BY <3>2, <3>3 DEF RowsInv, SetterInv
    <3>4. CASE ~setter.fresh
      BY <3>4, Zenon DEF RowsInv, SetterInv
    <3> QED
      BY <3>3, <3>4
  <2> QED
    BY <2>1, <2>3, <2>4
<1> QED
  BY <1>1, RowsInvariant, PTL

-----------------------------------------------------------------------------
(* The ring of the log.                                                    *)

(* Induction over the natural numbers, for sets: a smallest number that is *)
(* not in the set would have a predecessor that is.                        *)
LEMMA NatSetInduction ==
  ASSUME NEW S, 0 \in S, \A n \in Nat : n \in S => n + 1 \in S
  PROVE  \A n \in Nat : n \in S
<1> DEFINE R == OpToRel(<, Nat)
           T == {n \in Nat : n \notin S}
<1>1. IsWellFoundedOn(R, Nat)
  BY NatLessThanWellFounded, PTL
<1>2. \A x, y \in Nat : x < y => <<x, y>> \in R
  BY DEF OpToRel
<1>3. SUFFICES ASSUME T # {} PROVE FALSE
  OBVIOUS
<1>4. T \subseteq Nat
  OBVIOUS
<1>5. PICK x \in T : \A y \in T : ~(<<y, x>> \in R)
  <2> HIDE DEF R, T
  <2> QED
    BY <1>1, <1>3, <1>4, WFMin
<1>6. x \in Nat /\ x # 0
  OBVIOUS
<1>7. x - 1 \in T /\ x - 1 \in Nat /\ x - 1 < x
  BY <1>6
<1> QED
  BY <1>2, <1>5, <1>6, <1>7

LEMMA ViewConstants ==
  /\ LOG_KEEP \in Nat /\ LOG_KEEP >= 1
  /\ QUEUE_CAPACITY \in Nat /\ MAX_LAYOUTS \in Nat /\ MAX_LAYOUTS >= 1 /\ MaxLogs \in Nat
  /\ NoKey \notin Keys
BY TuiViewAssumption, RtTuiAssumption

LEMMA Wrap ==
  ASSUME NEW m \in Nat, m >= 1, NEW a \in Nat, a < 2 * m
  PROVE  a % m = IF a < m THEN a ELSE a - m
<1>1. PICK q \in Int, r \in 0..(m - 1) : a = m * q + r /\ a % m = r
  <2>1. a % m \in 0..(m - 1) /\ a \div m \in Int /\ a = m * (a \div m) + (a % m)
    OBVIOUS
  <2> QED
    BY <2>1
<1>2. q = 0 \/ q = 1
  <2>1. CASE q >= 2
    <3>1. m * q >= m * 2
      BY <2>1
    <3> QED
      BY <1>1, <3>1
  <2>2. CASE q <= -1
    <3>1. m * q <= m * (-1)
      BY <2>2
    <3> QED
      BY <1>1, <3>1
  <2> QED
    BY <2>1, <2>2
<1>3. q = 0 => a % m = a /\ a < m
  BY <1>1
<1>4. q = 1 => a % m = a - m /\ a >= m
  BY <1>1
<1> QED
  BY <1>2, <1>3, <1>4

(* The place of the i-th message of a view.                                *)
Place(v, i) == (v.head + i - 1) % LOG_KEEP

At(m, h, i) == IF h + i - 1 < m THEN h + i - 1 ELSE h + i - 1 - m

LEMMA PlacesDiffer ==
  ASSUME NEW m \in Nat, m >= 1, NEW h \in 0..(m - 1), NEW i \in 1..(m + 1), NEW j \in 1..(m + 1)
  PROVE  /\ At(m, h, i) \in 0..(m - 1)
         /\ At(m, h, 1) = h
         /\ i < j /\ j - i < m => At(m, h, i) # At(m, h, j)
BY DEF At

LEMMA PlacesOfNext ==
  ASSUME NEW m \in Nat, m >= 1, NEW h \in 0..(m - 1), NEW g \in 0..(m - 1),
         g = (IF h + 1 < m THEN h + 1 ELSE 0), NEW i \in 1..m
  PROVE  At(m, g, i) = At(m, h, i + 1) /\ At(m, g, m) = h
BY DEF At

LEMMA Places ==
  ASSUME NEW v \in Views, NEW i \in 1..(LOG_KEEP + 1)
  PROVE  Place(v, i) = At(LOG_KEEP, v.head, i)
<1>1. v.head \in 0..(LOG_KEEP - 1)
  BY DEF Views
<1> DEFINE a == v.head + i - 1
<1>2. a \in Nat /\ a < 2 * LOG_KEEP
  BY <1>1, ViewConstants
<1>3. a % LOG_KEEP = IF a < LOG_KEEP THEN a ELSE a - LOG_KEEP
  <2> HIDE DEF a
  <2> QED
    BY <1>2, ViewConstants, Wrap
<1>4. Place(v, i) = a % LOG_KEEP
  BY DEF Place
<1>5. At(LOG_KEEP, v.head, i) = IF a < LOG_KEEP THEN a ELSE a - LOG_KEEP
  BY <1>1, ViewConstants DEF At
<1> HIDE DEF a
<1> QED
  BY <1>3, <1>4, <1>5

LEMMA RingStore ==
  ASSUME NEW h \in [0..(LOG_KEEP - 1) -> Nat], NEW s \in 0..(LOG_KEEP - 1), NEW x \in Nat
  PROVE  /\ [h EXCEPT ![s] = x] \in [0..(LOG_KEEP - 1) -> Nat]
         /\ \A p \in 0..(LOG_KEEP - 1) : [h EXCEPT ![s] = x][p] = IF p = s THEN x ELSE h[p]
OBVIOUS

(* A view that gets the next message holds the newest, and a paused one    *)
(* moves its offset by one.                                                *)
LEMMA DrainHolds ==
  ASSUME NEW v, NEW d \in Nat, Holds(v, d)
  PROVE  /\ Holds(Drain(v, d + 1), d + 1)
         /\ Drain(v, d + 1).auto = v.auto
         /\ ~v.auto => Drain(v, d + 1).offset = v.offset + 1
<1> DEFINE full == v.count = LOG_KEEP
           slot == IF full THEN v.head ELSE (v.head + v.count) % LOG_KEEP
           u == Drain(v, d + 1)
<1>1. /\ v \in Views /\ v.count = AtMost(d, LOG_KEEP) /\ (v.auto => v.offset = 0)
      /\ \A i \in 1..v.count : v.history[Place(v, i)] = d - v.count + i
  BY DEF Holds, Place
<1>2. /\ v.history \in [0..(LOG_KEEP - 1) -> Nat] /\ v.count \in 0..LOG_KEEP
      /\ v.head \in 0..(LOG_KEEP - 1) /\ v.offset \in Nat /\ v.auto \in BOOLEAN
      /\ v = [history |-> v.history, count |-> v.count, head |-> v.head, offset |-> v.offset,
              auto |-> v.auto]
  BY <1>1 DEF Views
<1>3. slot = IF full THEN v.head ELSE Place(v, v.count + 1)
  <2>1. v.head + v.count = v.head + (v.count + 1) - 1
    BY <1>2
  <2> QED
    BY <2>1 DEF Place
<1>4. slot = (IF full THEN v.head ELSE At(LOG_KEEP, v.head, v.count + 1)) /\ slot \in 0..(LOG_KEEP - 1)
  <2>1. v.count + 1 \in 1..(LOG_KEEP + 1)
    BY <1>2, ViewConstants
  <2>2. At(LOG_KEEP, v.head, v.count + 1) \in 0..(LOG_KEEP - 1)
    BY <1>2, <2>1, PlacesDiffer, ViewConstants
  <2> QED
    BY <1>1, <1>2, <1>3, <2>1, <2>2, Places
<1>r. u = [v EXCEPT !.history = [v.history EXCEPT ![slot] = d + 1],
                    !.count = IF full THEN @ ELSE @ + 1,
                    !.head = IF full THEN NextHead(v) ELSE @,
                    !.offset = OffsetAfter(v)]
  BY DEF Drain
<1> HIDE DEF u, slot, full
<1>5. u = [history |-> [v.history EXCEPT ![slot] = d + 1],
           count |-> IF full THEN v.count ELSE v.count + 1,
           head |-> IF full THEN NextHead(v) ELSE v.head,
           offset |-> OffsetAfter(v), auto |-> v.auto]
  BY <1>2, <1>r
<1> USE DEF full
<1>6. /\ u.history = [v.history EXCEPT ![slot] = d + 1]
      /\ u.count = IF full THEN v.count ELSE v.count + 1
      /\ u.head = IF full THEN NextHead(v) ELSE v.head
      /\ u.offset = OffsetAfter(v) /\ u.auto = v.auto
  BY <1>5
<1>7. /\ NextHead(v) \in 0..(LOG_KEEP - 1)
      /\ NextHead(v) = IF v.head + 1 < LOG_KEEP THEN v.head + 1 ELSE 0
  <2> DEFINE a == v.head + 1
  <2>1. a < 2 * LOG_KEEP /\ a \in Nat /\ a <= LOG_KEEP
    BY <1>2, ViewConstants
  <2>2. a % LOG_KEEP = IF a < LOG_KEEP THEN a ELSE a - LOG_KEEP
    <3> HIDE DEF a
    <3> QED
      BY <2>1, ViewConstants, Wrap
  <2>3. NextHead(v) = a % LOG_KEEP
    BY DEF NextHead
  <2> QED
    BY <2>1, <2>2, <2>3, ViewConstants
<1>8. u \in Views
  <2>1. [v.history EXCEPT ![slot] = d + 1] \in [0..(LOG_KEEP - 1) -> Nat]
    BY <1>2, <1>4, RingStore
  <2>2. (IF full THEN v.count ELSE v.count + 1) \in 0..LOG_KEEP
    BY <1>2, ViewConstants
  <2>3. OffsetAfter(v) \in Nat
    BY <1>2 DEF OffsetAfter
  <2> QED
    BY <1>2, <1>5, <1>7, <2>1, <2>2, <2>3 DEF Views
<1>9. u.count = AtMost(d + 1, LOG_KEEP)
  BY <1>1, <1>2, <1>6, ViewConstants DEF AtMost
<1>10. ASSUME NEW i \in 1..u.count PROVE u.history[Place(u, i)] = (d + 1) - u.count + i
  <2>0. v.count \in Nat /\ i \in Nat /\ 1 <= i /\ i <= u.count /\ u.count \in Nat /\ LOG_KEEP \in Nat
    BY <1>2, <1>8, ViewConstants DEF Views
  <2>1. u.count \in 0..LOG_KEEP /\ i \in 1..(LOG_KEEP + 1) /\ u.head \in 0..(LOG_KEEP - 1)
    BY <1>8, ViewConstants DEF Views
  <2>2. Place(u, i) = At(LOG_KEEP, u.head, i) /\ Place(u, i) \in 0..(LOG_KEEP - 1)
    BY <1>8, <2>1, Places, PlacesDiffer, ViewConstants
  <2>3. u.history[Place(u, i)] = IF Place(u, i) = slot THEN d + 1 ELSE v.history[Place(u, i)]
    BY <1>2, <1>4, <1>6, <2>2, RingStore
  <2>4. CASE full
    <3>1. u.count = LOG_KEEP /\ v.count = LOG_KEEP /\ slot = v.head /\ u.head = NextHead(v)
      BY <1>4, <1>6, <2>4
    <3>2. /\ i \in 1..LOG_KEEP /\ i + 1 \in 1..(LOG_KEEP + 1) /\ 1 \in 1..(LOG_KEEP + 1)
          /\ At(LOG_KEEP, u.head, i) = At(LOG_KEEP, v.head, i + 1)
          /\ At(LOG_KEEP, u.head, LOG_KEEP) = v.head
      <4>1. /\ i \in 1..LOG_KEEP /\ i + 1 \in 1..(LOG_KEEP + 1) /\ 1 \in 1..(LOG_KEEP + 1)
            /\ LOG_KEEP \in 1..LOG_KEEP
        BY <2>0, <3>1, ViewConstants
      <4>2. u.head \in 0..(LOG_KEEP - 1) /\ u.head = IF v.head + 1 < LOG_KEEP THEN v.head + 1 ELSE 0
        BY <1>7, <3>1
      <4>3. /\ At(LOG_KEEP, u.head, i) = At(LOG_KEEP, v.head, i + 1)
            /\ At(LOG_KEEP, u.head, LOG_KEEP) = v.head
        BY SMTT(30), <1>2, <4>1, <4>2, PlacesOfNext, ViewConstants
      <4> QED
        BY <4>1, <4>3
    <3>3. CASE i = LOG_KEEP
      BY <2>2, <2>3, <3>1, <3>2, <3>3, ViewConstants
    <3>4. CASE i # LOG_KEEP
      <4>1. i + 1 \in 1..v.count /\ 1 < i + 1 /\ (i + 1) - 1 < LOG_KEEP
        BY <2>1, <3>1, <3>2, <3>4, ViewConstants
      <4>2. At(LOG_KEEP, v.head, 1) # At(LOG_KEEP, v.head, i + 1) /\ At(LOG_KEEP, v.head, 1) = v.head
        BY <1>2, <3>2, <4>1, PlacesDiffer, ViewConstants
      <4>3. Place(u, i) = Place(v, i + 1) /\ Place(u, i) # slot
        BY <1>1, <2>2, <3>1, <3>2, <4>2, Places
      <4>4. v.history[Place(v, i + 1)] = d - v.count + (i + 1)
        BY <1>1, <4>1
      <4> QED
        BY <2>1, <2>3, <3>1, <4>3, <4>4, ViewConstants
    <3> QED
      BY <3>3, <3>4
  <2>5. CASE ~full
    <3>1. /\ u.count = v.count + 1 /\ v.count < LOG_KEEP /\ u.head = v.head
          /\ slot = At(LOG_KEEP, v.head, v.count + 1) /\ v.count + 1 \in 1..(LOG_KEEP + 1)
      BY <1>2, <1>4, <1>6, <2>5, ViewConstants
    <3>2. Place(u, i) = Place(v, i) /\ Place(u, i) = At(LOG_KEEP, v.head, i)
      BY <2>2, <3>1 DEF Place
    <3>3. CASE i = v.count + 1
      <4>1. Place(u, i) = slot
        BY <3>1, <3>2, <3>3
      <4>2. d + 1 = (d + 1) - u.count + i
        BY <1>2, <3>1, <3>3
      <4> QED
        BY <2>3, <4>1, <4>2
    <3>4. CASE i # v.count + 1
      <4>1. i \in 1..v.count /\ i < v.count + 1 /\ (v.count + 1) - i < LOG_KEEP + 1
        BY <2>0, <3>1, <3>4
      <4>2. (v.count + 1) - i < LOG_KEEP
        BY <2>0, <3>1, <4>1
      <4>3. Place(u, i) # slot
        BY <1>2, <2>1, <3>1, <3>2, <4>1, <4>2, PlacesDiffer, ViewConstants
      <4>4. v.history[Place(v, i)] = d - v.count + i
        BY <1>1, <4>1
      <4>5. d - v.count + i = (d + 1) - u.count + i
        BY <1>2, <3>1, <4>1
      <4> QED
        BY <2>3, <3>2, <4>3, <4>4, <4>5
    <3> QED
      BY <3>3, <3>4
  <2> QED
    BY <2>4, <2>5
<1>11. u.auto => u.offset = 0
  BY <1>6 DEF OffsetAfter
<1>12. Holds(u, d + 1)
  <2>1. \A i \in 1..u.count : u.history[(u.head + i - 1) % LOG_KEEP] = (d + 1) - u.count + i
    <3> SUFFICES ASSUME NEW i \in 1..u.count
                 PROVE  u.history[(u.head + i - 1) % LOG_KEEP] = (d + 1) - u.count + i
      OBVIOUS
    <3>1. u.history[Place(u, i)] = (d + 1) - u.count + i
      BY <1>10
    <3>2. Place(u, i) = (u.head + i - 1) % LOG_KEEP
      BY DEF Place
    <3> QED
      BY <3>1, <3>2
  <2> QED
    BY <1>8, <1>9, <1>11, <2>1 DEF Holds
<1>13. ~v.auto => u.offset = v.offset + 1
  BY <1>6 DEF OffsetAfter
<1> QED
  BY <1>6, <1>12, <1>13 DEF u

-----------------------------------------------------------------------------
(* The drain: a view after each of the messages in the queue.              *)

DrainStep(f, i) == IF i = 0 THEN View ELSE Drain(f[i - 1], m_logQueue[i])

LEMMA DrainExists == \A n \in Nat : \E f : f = [i \in 0..n |-> DrainStep(f, i)]
<1> DEFINE S == {n \in Nat : \E f : f = [i \in 0..n |-> DrainStep(f, i)]}
<1>1. 0 \in S
  <2> DEFINE f == [i \in 0..0 |-> View]
  <2>1. f = [i \in 0..0 |-> DrainStep(f, i)]
    BY DEF DrainStep
  <2> QED
    BY <2>1
<1>2. ASSUME NEW n \in Nat, n \in S PROVE n + 1 \in S
  <2>1. PICK f : f = [i \in 0..n |-> DrainStep(f, i)]
    BY <1>2
  <2> DEFINE g == [i \in 0..(n + 1) |-> IF i = n + 1 THEN Drain(f[n], m_logQueue[n + 1]) ELSE f[i]]
  <2>2. \A i \in 0..(n + 1) : g[i] = DrainStep(g, i)
    <3> SUFFICES ASSUME NEW i \in 0..(n + 1) PROVE g[i] = DrainStep(g, i)
      OBVIOUS
    <3>1. CASE i = n + 1
      <4>1. i # 0 /\ i - 1 = n /\ n \in 0..(n + 1) /\ n # n + 1
        BY <3>1
      <4>2. g[i] = Drain(f[n], m_logQueue[i]) /\ g[n] = f[n]
        BY <3>1, <4>1
      <4> QED
        BY <4>1, <4>2 DEF DrainStep
    <3>2. CASE i # n + 1
      <4>1. i \in 0..n /\ g[i] = f[i]
        BY <3>2
      <4>2. f[i] = DrainStep(f, i)
        BY <2>1, <4>1
      <4>3. i # 0 => i - 1 \in 0..n /\ g[i - 1] = f[i - 1]
        BY <4>1
      <4> QED
        BY <4>1, <4>2, <4>3 DEF DrainStep
    <3> QED
      BY <3>1, <3>2
  <2>3. g = [i \in 0..(n + 1) |-> DrainStep(g, i)]
    <3>1. g = [i \in 0..(n + 1) |-> g[i]]
      OBVIOUS
    <3> QED
      BY <2>2, <3>1
  <2> HIDE DEF g
  <2>4. \E h : h = [i \in 0..(n + 1) |-> DrainStep(h, i)]
    BY <2>3
  <2> QED
    BY <2>4
<1> HIDE DEF S
<1>3. \A n \in Nat : n \in S
  BY <1>1, <1>2, NatSetInduction
<1> QED
  BY <1>3 DEF S

LEMMA DrainValue ==
  ASSUME Len(m_logQueue) \in Nat, NEW i \in 0..Len(m_logQueue)
  PROVE  DrainUpTo[i] = IF i = 0 THEN View ELSE Drain(DrainUpTo[i - 1], m_logQueue[i])
<1>1. \E f : f = [j \in 0..Len(m_logQueue) |-> DrainStep(f, j)]
  BY DrainExists
<1>2. DrainUpTo = CHOOSE f : f = [j \in 0..Len(m_logQueue) |-> DrainStep(f, j)]
  BY DEF DrainUpTo, DrainStep
<1>3. DrainUpTo = [j \in 0..Len(m_logQueue) |-> DrainStep(DrainUpTo, j)]
  BY <1>1, <1>2
<1> QED
  BY <1>3 DEF DrainStep

(* After i messages the view holds the newest, and its offset, if it is    *)
(* paused, has moved by i.                                                 *)
LEMMA DrainUpToHolds ==
  ASSUME ViewInv
  PROVE  \A i \in 0..Len(m_logQueue) :
           /\ Holds(DrainUpTo[i], Drained + i) /\ DrainUpTo[i].auto = m_autoScroll
           /\ ~m_autoScroll => DrainUpTo[i].offset = m_scrollOffset + i
<1> DEFINE P(i) == /\ Holds(DrainUpTo[i], Drained + i) /\ DrainUpTo[i].auto = m_autoScroll
                   /\ ~m_autoScroll => DrainUpTo[i].offset = m_scrollOffset + i
           S == {i \in Nat : i <= Len(m_logQueue) => P(i)}
<1>1. Len(m_logQueue) \in Nat /\ Drained \in Nat /\ m_scrollOffset \in Nat
  <2>1. m_logQueue \in Seq(Nat) /\ pushed \in Seq(Nat) /\ Len(m_logQueue) <= Len(pushed)
    BY DEF ViewInv, QueueInv
  <2>2. View.offset \in Nat
    BY DEF ViewInv, Holds, Views
  <2> QED
    BY <2>1, <2>2 DEF Drained, View
<1>2. 0 \in S
  <2>1. DrainUpTo[0] = View
    BY <1>1, DrainValue
  <2>2. Holds(View, Drained + 0)
    <3>1. Drained + 0 = Drained
      BY <1>1
    <3> QED
      BY <3>1 DEF ViewInv
  <2>3. View.auto = m_autoScroll /\ View.offset = m_scrollOffset /\ m_scrollOffset + 0 = m_scrollOffset
    BY <1>1 DEF View
  <2>4. P(0)
    BY <2>1, <2>2, <2>3
  <2> QED
    BY <2>4
<1>3. ASSUME NEW n \in Nat, n \in S PROVE n + 1 \in S
  <2> SUFFICES ASSUME n + 1 <= Len(m_logQueue) PROVE P(n + 1)
    OBVIOUS
  <2>1. n <= Len(m_logQueue) /\ n + 1 \in 0..Len(m_logQueue) /\ n + 1 \in 1..Len(m_logQueue)
    BY <1>1
  <2>2. P(n)
    BY <1>3, <2>1
  <2>3. m_logQueue[n + 1] = Drained + (n + 1)
    BY <2>1 DEF ViewInv, QueueInv
  <2>4. Drained + (n + 1) = (Drained + n) + 1 /\ (n + 1) - 1 = n /\ n + 1 # 0
    BY <1>1
  <2>5. DrainUpTo[n + 1] = Drain(DrainUpTo[n], (Drained + n) + 1)
    <3>1. DrainUpTo[n + 1] = IF n + 1 = 0 THEN View ELSE Drain(DrainUpTo[(n + 1) - 1], m_logQueue[n + 1])
      BY <1>1, <2>1, DrainValue
    <3> QED
      BY <2>3, <2>4, <3>1
  <2> HIDE DEF P
  <2>6. Drained + n \in Nat /\ Holds(DrainUpTo[n], Drained + n)
    BY <1>1, <2>2 DEF P
  <2>7. /\ Holds(Drain(DrainUpTo[n], (Drained + n) + 1), (Drained + n) + 1)
        /\ Drain(DrainUpTo[n], (Drained + n) + 1).auto = DrainUpTo[n].auto
        /\ ~DrainUpTo[n].auto =>
             Drain(DrainUpTo[n], (Drained + n) + 1).offset = DrainUpTo[n].offset + 1
    BY <2>6, DrainHolds
  <2>8. (m_scrollOffset + n) + 1 = m_scrollOffset + (n + 1)
    BY <1>1
  <2>9. DrainUpTo[n + 1].auto = m_autoScroll /\ Holds(DrainUpTo[n + 1], Drained + (n + 1))
    BY <2>2, <2>4, <2>5, <2>7 DEF P
  <2>10. ~m_autoScroll => DrainUpTo[n + 1].offset = m_scrollOffset + (n + 1)
    BY <2>2, <2>5, <2>7, <2>8 DEF P
  <2> QED
    BY <2>9, <2>10 DEF P
<1> HIDE DEF S, P
<1>4. \A i \in Nat : i \in S
  BY <1>2, <1>3, NatSetInduction
<1>5. ASSUME NEW i \in 0..Len(m_logQueue) PROVE P(i)
  <2>1. i \in Nat /\ i <= Len(m_logQueue)
    BY <1>1
  <2> QED
    BY <1>4, <2>1 DEF S
<1> QED
  BY <1>5 DEF P

-----------------------------------------------------------------------------
(* The keys keep what a view holds.                                        *)

LEMMA RingKept ==
  ASSUME NEW v, NEW d, Holds(v, d), NEW u \in Views, u.history = v.history, u.count = v.count,
         u.head = v.head, u.auto => u.offset = 0
  PROVE  Holds(u, d)
<1>1. u.count = AtMost(d, LOG_KEEP)
  BY DEF Holds
<1>2. \A i \in 1..u.count : u.history[(u.head + i - 1) % LOG_KEEP] = d - u.count + i
  BY DEF Holds
<1> QED
  BY <1>1, <1>2 DEF Holds

LEMMA ViewParts ==
  ASSUME NEW v, NEW d, Holds(v, d)
  PROVE  /\ v.history \in [0..(LOG_KEEP - 1) -> Nat] /\ v.count \in 0..LOG_KEEP /\ v.count \in Nat
         /\ v.head \in 0..(LOG_KEEP - 1) /\ v.offset \in Nat /\ v.auto \in BOOLEAN
         /\ v.auto => v.offset = 0
         /\ v = [history |-> v.history, count |-> v.count, head |-> v.head, offset |-> v.offset,
                 auto |-> v.auto]
<1>1. v \in Views /\ (v.auto => v.offset = 0)
  BY DEF Holds
<1> QED
  BY <1>1, ViewConstants DEF Views

LEMMA ViewExcept ==
  ASSUME NEW v, NEW d, Holds(v, d), NEW o, NEW a, NEW u,
         u = [v EXCEPT !.offset = o, !.auto = a]
  PROVE  u = [history |-> v.history, count |-> v.count, head |-> v.head, offset |-> o, auto |-> a]
<1>1. v = [history |-> v.history, count |-> v.count, head |-> v.head, offset |-> v.offset,
           auto |-> v.auto]
  BY ViewParts
<1> QED
  BY <1>1

LEMMA Paused ==
  ASSUME NEW v, NEW d, Holds(v, d), NEW o \in Nat
  PROVE  Holds([v EXCEPT !.offset = o, !.auto = FALSE], d)
<1> DEFINE u == [v EXCEPT !.offset = o, !.auto = FALSE]
<1>1. u = [history |-> v.history, count |-> v.count, head |-> v.head, offset |-> o, auto |-> FALSE]
  BY ViewExcept, Zenon
<1>2. FALSE \in BOOLEAN
  BY Zenon
<1>3. u \in Views
  BY <1>1, <1>2, ViewParts DEF Views
<1>4. u.history = v.history /\ u.count = v.count /\ u.head = v.head /\ ~u.auto
  BY <1>1
<1> HIDE DEF u
<1>5. Holds(u, d)
  BY <1>3, <1>4, RingKept
<1> QED
  BY <1>5 DEF u

LEMMA Follows ==
  ASSUME NEW v, NEW d, Holds(v, d)
  PROVE  Holds([v EXCEPT !.offset = 0, !.auto = TRUE], d)
<1> DEFINE u == [v EXCEPT !.offset = 0, !.auto = TRUE]
<1>1. u = [history |-> v.history, count |-> v.count, head |-> v.head, offset |-> 0, auto |-> TRUE]
  BY ViewExcept, Zenon
<1>2. TRUE \in BOOLEAN
  BY Zenon
<1>3. u \in Views
  BY <1>1, <1>2, ViewParts DEF Views
<1>4. u.history = v.history /\ u.count = v.count /\ u.head = v.head /\ u.offset = 0
  BY <1>1
<1> HIDE DEF u
<1>5. Holds(u, d)
  BY <1>3, <1>4, RingKept
<1> QED
  BY <1>5 DEF u

LEMMA ClampHolds ==
  ASSUME NEW v, NEW d, Holds(v, d)
  PROVE  Holds(Clamp(v), d)
<1> DEFINE p == IF v.offset > v.count THEN v.count ELSE v.offset
<1>1. p \in Nat /\ (v.auto => p = 0)
  BY ViewParts
<1>2. Clamp(v) = [v EXCEPT !.offset = p]
  BY DEF Clamp
<1> HIDE DEF p
<1>3. /\ Clamp(v).history = v.history /\ Clamp(v).count = v.count /\ Clamp(v).head = v.head
      /\ Clamp(v).offset = p /\ Clamp(v).auto = v.auto /\ Clamp(v) \in Views
  <2>1. v \in Views
    BY DEF Holds
  <2> QED
    BY <1>1, <1>2, <2>1 DEF Views
<1> QED
  BY <1>1, <1>3, RingKept

LEMMA ScrollHolds ==
  ASSUME NEW v, NEW d, Holds(v, d), NEW key \in ScrollKeys, NEW page \in Nat
  PROVE  Holds(Scroll(v, key, page), d)
<1>1. ASSUME NEW n \in Nat PROVE Holds(Clamp(Up(v, n)), d)
  <2>1. Up(v, n) = [v EXCEPT !.offset = v.offset + n, !.auto = FALSE]
    BY DEF Up
  <2>2. v.offset + n \in Nat
    BY ViewParts
  <2>3. Holds(Up(v, n), d)
    <3> DEFINE o == v.offset + n
    <3>1. o \in Nat
      BY <2>2
    <3> HIDE DEF o
    <3>2. Holds([v EXCEPT !.offset = o, !.auto = FALSE], d)
      BY <3>1, Paused
    <3> QED
      BY <2>1, <3>2 DEF o
  <2> QED
    BY <2>3, ClampHolds
<1>2. ASSUME NEW n \in Nat PROVE Holds(Clamp(Down(v, n)), d)
  <2> DEFINE o == IF v.offset > n THEN v.offset - n ELSE 0
  <2>1. o \in Nat
    BY ViewParts
  <2>2. Down(v, n) = [v EXCEPT !.offset = o, !.auto = v.auto \/ o = 0]
    BY DEF Down
  <2>3. v.auto => o = 0
    BY ViewParts
  <2>4. v.auto \in BOOLEAN
    BY ViewParts
  <2> HIDE DEF o
  <2>5. CASE o = 0
    <3>1. (v.auto \/ o = 0) = TRUE
      BY <2>5
    <3>2. Down(v, n) = [v EXCEPT !.offset = 0, !.auto = TRUE]
      BY <2>2, <2>5, <3>1
    <3> QED
      BY <3>2, Follows, ClampHolds
  <2>6. CASE o # 0
    <3>1. (v.auto \/ o = 0) = FALSE
      BY <2>3, <2>6
    <3>2. Down(v, n) = [v EXCEPT !.offset = o, !.auto = FALSE]
      BY <2>2, <3>1
    <3> QED
      BY <2>1, <3>2, Paused, ClampHolds
  <2> QED
    BY <2>5, <2>6
<1>3. Holds(Clamp([v EXCEPT !.offset = 0, !.auto = TRUE]), d)
  BY Follows, ClampHolds
<1>4. Holds(Clamp([v EXCEPT !.offset = v.count, !.auto = FALSE]), d)
  BY ViewParts, Paused, ClampHolds
<1>5. CASE key = "up"
  BY <1>1, <1>5 DEF Scroll
<1>6. CASE key = "down"
  BY <1>2, <1>6 DEF Scroll
<1>7. CASE key = "pgup"
  BY <1>1, <1>7 DEF Scroll
<1>8. CASE key = "pgdn"
  BY <1>2, <1>8 DEF Scroll
<1>9. CASE key = "end"
  BY <1>3, <1>9 DEF Scroll
<1>10. CASE key = "home"
  BY <1>4, <1>10 DEF Scroll
<1> QED
  BY <1>5, <1>6, <1>7, <1>8, <1>9, <1>10 DEF ScrollKeys

-----------------------------------------------------------------------------
(* The layouts.                                                            *)

LEMMA SmallestLayout ==
  ASSUME NEW T, T \subseteq Layouts, T # {}
  PROVE  \E l \in T : \A k \in T : l <= k
<1> DEFINE R == OpToRel(<, Nat)
<1>1. IsWellFoundedOn(R, Nat)
  BY NatLessThanWellFounded, PTL
<1>2. \A x, y \in Nat : x < y => <<x, y>> \in R
  BY DEF OpToRel
<1>3. T \subseteq Nat
  BY ViewConstants DEF Layouts
<1>4. PICK x \in T : \A y \in T : ~(<<y, x>> \in R)
  <2> HIDE DEF R
  <2> QED
    BY <1>1, <1>3, WFMin
<1>5. \A k \in T : x <= k
  <2> HIDE DEF R
  <2>1. SUFFICES ASSUME NEW k \in T, k < x PROVE FALSE
    BY <1>3
  <2> QED
    BY <1>2, <1>3, <1>4, <2>1
<1> QED
  BY <1>5

LEMMA LayoutKeys ==
  ASSUME NEW l \in Layouts
  PROVE  PrevLayout(l) \in Layouts /\ NextLayout(l) \in Layouts
<1>1. FirstUndefined \in Layouts
  <2>1. CASE Layouts \subseteq defined
    BY <2>1, ViewConstants DEF FirstUndefined, Layouts
  <2>2. CASE ~(Layouts \subseteq defined)
    <3>1. Layouts \ defined # {} /\ Layouts \ defined \subseteq Layouts
      BY <2>2
    <3>2. \E k \in Layouts \ defined : \A j \in Layouts \ defined : k <= j
      BY <3>1, SmallestLayout
    <3>3. FirstUndefined = CHOOSE k \in Layouts \ defined : \A j \in Layouts \ defined : k <= j
      BY <2>2 DEF FirstUndefined
    <3> QED
      BY <3>2, <3>3
  <2> QED
    BY <2>1, <2>2
<1>2. PrevLayout(l) \in Layouts
  BY <1>1, ViewConstants DEF PrevLayout, Layouts
<1>3. NextLayout(l) \in Layouts
  BY ViewConstants DEF NextLayout, Layouts
<1> QED
  BY <1>2, <1>3

-----------------------------------------------------------------------------
(* What a view shows.                                                      *)

(* The lines of a view, as numbers: the bounds that RenderArea2 computes.  *)
MaxOffset(c, h)  == IF c > h - 2 THEN c - (h - 2) ELSE 0
LastLine(c, o, h) == c - (IF o > MaxOffset(c, h) THEN MaxOffset(c, h) ELSE o)
LinesAbove(c, o, h) == IF LastLine(c, o, h) > h - 2 THEN LastLine(c, o, h) - (h - 2) ELSE 0
ShownOf(d, c, e, s) == [r \in 1..(e - s) |-> d - c + s + r]

LEMMA ShownLines ==
  ASSUME NEW d \in Nat, NEW o \in Nat, NEW h \in Int, h >= 3
  PROVE  LET c == AtMost(d, LOG_KEEP)
             m == MaxOffset(c, h)
             e == LastLine(c, o, h)
             s == LinesAbove(c, o, h)
         IN  /\ Shown(d, o, h) = ShownOf(d, c, e, s)
             /\ c \in Nat /\ c <= d /\ c <= LOG_KEEP /\ m \in Nat /\ m <= c /\ e \in Nat /\ s \in Nat
             /\ e <= c /\ s <= e
<1> DEFINE c == AtMost(d, LOG_KEEP)
           m == MaxOffset(c, h)
           e == LastLine(c, o, h)
           s == LinesAbove(c, o, h)
<1>0. /\ m = (IF c > h - 2 THEN c - (h - 2) ELSE 0) /\ e = c - (IF o > m THEN m ELSE o)
      /\ s = (IF e > h - 2 THEN e - (h - 2) ELSE 0)
  BY DEF MaxOffset, LastLine, LinesAbove
<1>1. c \in Nat /\ c <= d /\ c <= LOG_KEEP
  BY ViewConstants DEF AtMost
<1>c. c = AtMost(d, LOG_KEEP)
  OBVIOUS
<1> HIDE DEF c, m, e, s
<1>2. m \in Nat /\ m <= c /\ e \in Nat /\ s \in Nat /\ e <= c /\ s <= e
  BY <1>0, <1>1
<1>3. m = AtLeast(0, c - (h - 2)) /\ e = c - AtMost(o, m) /\ s = AtLeast(0, e - (h - 2))
  <2>1. AtLeast(0, c - (h - 2)) = IF 0 > c - (h - 2) THEN 0 ELSE c - (h - 2)
    BY DEF AtLeast
  <2>2. AtMost(o, m) = IF o < m THEN o ELSE m
    BY DEF AtMost
  <2>3. AtLeast(0, e - (h - 2)) = IF 0 > e - (h - 2) THEN 0 ELSE e - (h - 2)
    BY DEF AtLeast
  <2> QED
    BY <1>0, <1>1, <1>2, <2>1, <2>2, <2>3
<1>4. Shown(d, o, h) = ShownOf(d, c, e, s)
  <2>1. ~(h < 3)
    OBVIOUS
  <2>2. Shown(d, o, h) =
          LET count == c
              end   == c - AtMost(o, m)
              start == AtLeast(0, end - (h - 2))
          IN  [r \in 1..(end - start) |-> d - count + start + r]
    BY <1>3, <1>c, <2>1 DEF Shown
  <2> QED
    BY <1>3, <2>2 DEF ShownOf
<1> QED
  BY <1>1, <1>2, <1>4 DEF c, m, e, s

(* RenderArea2 shows the lines of the view, which are messages.            *)
LEMMA ViewLines ==
  ASSUME ViewInv, NEW h \in Int, h >= 3
  PROVE  /\ Lines2(h - 2) = Shown(Drained, m_scrollOffset, h)
         /\ Shown(Drained, m_scrollOffset, h) \in Seq(Nat)
<1> DEFINE c == m_logCount
           e == LastLine(c, m_scrollOffset, h)
           s == LinesAbove(c, m_scrollOffset, h)
<1>1. /\ Drained \in Nat /\ m_scrollOffset \in Nat /\ c = AtMost(Drained, LOG_KEEP)
      /\ \A i \in 1..c : m_logHistory[(m_logHead + i - 1) % LOG_KEEP] = Drained - c + i
  <2>1. m_logQueue \in Seq(Nat) /\ pushed \in Seq(Nat) /\ Len(m_logQueue) <= Len(pushed)
    BY DEF ViewInv, QueueInv
  <2>2. /\ View.offset = m_scrollOffset /\ View.count = c /\ View.history = m_logHistory
        /\ View.head = m_logHead
    BY DEF View
  <2>3. View.offset \in Nat
    BY DEF ViewInv, Holds, Views
  <2>4. /\ View.count = AtMost(Drained, LOG_KEEP)
        /\ \A i \in 1..View.count :
             View.history[(View.head + i - 1) % LOG_KEEP] = Drained - View.count + i
    BY DEF ViewInv, Holds
  <2> QED
    BY <2>1, <2>2, <2>3, <2>4 DEF Drained
<1> DEFINE d == Drained
           o == m_scrollOffset
<1> HIDE DEF d
<1>d. d = Drained
  BY DEF d
<1>2. /\ Shown(d, o, h) = ShownOf(d, c, e, s)
      /\ c \in Nat /\ c <= d /\ e \in Nat /\ s \in Nat /\ e <= c /\ s <= e
  <2>1. d \in Nat /\ o \in Nat /\ c = AtMost(d, LOG_KEEP)
    BY <1>1, <1>d
  <2> HIDE DEF c, o
  <2>2. LET k == AtMost(d, LOG_KEEP)
        IN  /\ Shown(d, o, h) = ShownOf(d, k, LastLine(k, o, h), LinesAbove(k, o, h))
            /\ k \in Nat /\ k <= d /\ LastLine(k, o, h) \in Nat /\ LinesAbove(k, o, h) \in Nat
            /\ LastLine(k, o, h) <= k /\ LinesAbove(k, o, h) <= LastLine(k, o, h)
    BY <2>1, ShownLines
  <2> QED
    BY <2>1, <2>2 DEF o
<1>3. Lines2(h - 2) = [r \in 1..(e - s) |-> m_logHistory[(m_logHead + s + r - 1) % LOG_KEEP]]
  BY DEF Lines2, LastLine, LinesAbove, MaxOffset
<1> HIDE DEF e, s
<1>4. ASSUME NEW r \in 1..(e - s)
      PROVE  /\ m_logHistory[(m_logHead + s + r - 1) % LOG_KEEP] = d - c + s + r
             /\ d - c + s + r \in Nat
  <2>1. s + r \in 1..c /\ r \in Nat
    BY <1>2
  <2>2. m_logHead + (s + r) - 1 = m_logHead + s + r - 1
    <3>1. m_logHead \in Int
      <4>1. View.head \in 0..(LOG_KEEP - 1)
        BY DEF ViewInv, Holds, Views
      <4> QED
        BY <4>1 DEF View
    <3> QED
      BY <1>2, <2>1, <3>1
  <2>3. d - c + (s + r) = d - c + s + r /\ d - c + s + r \in Nat
    BY <1>1, <1>2, <1>d, <2>1
  <2> QED
    BY <1>1, <1>d, <2>1, <2>2, <2>3
<1>5. Lines2(h - 2) = Shown(d, o, h)
  BY <1>2, <1>3, <1>4 DEF ShownOf
<1>6. Shown(d, o, h) \in Seq(Nat)
  <2>1. e - s \in Nat
    BY <1>2
  <2> DEFINE n == e - s
             f == [r \in 1..n |-> d - c + s + r]
  <2>2. \A r \in 1..n : d - c + s + r \in Nat
    BY <1>4
  <2>3. f \in [1..n -> Nat]
    BY <2>2
  <2> HIDE DEF n
  <2>4. f \in Seq(Nat)
    BY <2>1, <2>3, SeqDef DEF n
  <2> QED
    BY <1>2, <2>4 DEF n, ShownOf
<1> QED
  BY <1>5, <1>6, <1>d

(* The lines of a view that is n messages further with its offset n more   *)
(* are the same, unless it shows the oldest line it keeps.                 *)
LEMMA ShownStays ==
  ASSUME NEW d \in Nat, NEW o \in Nat, NEW h \in Int, NEW n \in Nat, n <= d, n <= o
  PROVE  \/ Shown(d, o, h) = Shown(d - n, o - n, h)
         \/ Shown(d, o, h) # <<>> /\ Shown(d, o, h)[1] = d - AtMost(d, LOG_KEEP) + 1
<1> DEFINE c == AtMost(d, LOG_KEEP)
           m == MaxOffset(c, h)
           e == LastLine(c, o, h)
           s == LinesAbove(c, o, h)
           d0 == d - n
           o0 == o - n
           c0 == AtMost(d0, LOG_KEEP)
           m0 == MaxOffset(c0, h)
           e0 == LastLine(c0, o0, h)
           s0 == LinesAbove(c0, o0, h)
<1>1. CASE h < 3
  BY <1>1 DEF Shown
<1>2. CASE h >= 3
  <2>1. d0 \in Nat /\ o0 \in Nat /\ LOG_KEEP \in Nat /\ LOG_KEEP >= 1
    BY ViewConstants
  <2> HIDE DEF d0, o0
  <2>2. /\ c = (IF d < LOG_KEEP THEN d ELSE LOG_KEEP)
        /\ c0 = (IF d0 < LOG_KEEP THEN d0 ELSE LOG_KEEP)
    BY DEF AtMost
  <2> HIDE DEF c, c0
  <2>3. /\ m = (IF c > h - 2 THEN c - (h - 2) ELSE 0) /\ e = c - (IF o > m THEN m ELSE o)
        /\ s = (IF e > h - 2 THEN e - (h - 2) ELSE 0)
        /\ m0 = (IF c0 > h - 2 THEN c0 - (h - 2) ELSE 0) /\ e0 = c0 - (IF o0 > m0 THEN m0 ELSE o0)
        /\ s0 = (IF e0 > h - 2 THEN e0 - (h - 2) ELSE 0)
    BY DEF MaxOffset, LastLine, LinesAbove
  <2>4. /\ Shown(d, o, h) = ShownOf(d, c, e, s)
        /\ c \in Nat /\ c <= d /\ m \in Nat /\ e \in Nat /\ s \in Nat /\ e <= c /\ s <= e
    BY <1>2, ShownLines DEF c
  <2>5. /\ Shown(d0, o0, h) = ShownOf(d0, c0, e0, s0)
        /\ c0 \in Nat /\ c0 <= d0 /\ m0 \in Nat /\ e0 \in Nat /\ s0 \in Nat /\ e0 <= c0 /\ s0 <= e0
    BY <1>2, <2>1, ShownLines DEF c0
  <2>6. d0 = d - n /\ o0 = o - n
    BY DEF d0, o0
  <2> HIDE DEF m, e, s, m0, e0, s0
  <2>7. CASE o <= m
    <3>1. o0 <= m0 \/ n = 0
      BY <1>2, <2>1, <2>2, <2>3, <2>4, <2>5, <2>6, <2>7
    <3>2. e - s = e0 - s0 /\ d - c + s = d0 - c0 + s0
      BY <1>2, <2>1, <2>2, <2>3, <2>4, <2>5, <2>6, <2>7
    <3>3. ShownOf(d, c, e, s) = ShownOf(d0, c0, e0, s0)
      BY <3>2 DEF ShownOf
    <3> QED
      BY <2>4, <2>5, <2>6, <3>3
  <2>8. CASE o > m
    <3>1. CASE d = 0
      <4>1. n = 0 /\ d - n = d /\ o - n = o
        BY <3>1
      <4> QED
        BY <4>1
    <3>2. CASE d # 0
      <4>1. s = 0 /\ e >= 1
        BY <1>2, <2>1, <2>2, <2>3, <2>4, <2>8, <3>2
      <4>2. 1 \in 1..(e - s) /\ d - c + s + 1 = d - c + 1
        BY <2>4, <4>1
      <4>3. Shown(d, o, h)[1] = d - c + 1 /\ 1 \in DOMAIN Shown(d, o, h)
        BY <2>4, <4>2 DEF ShownOf
      <4>4. Shown(d, o, h) # <<>>
        BY <4>3
      <4> QED
        BY <4>3, <4>4 DEF c
    <3> QED
      BY <3>1, <3>2
  <2> QED
    BY <2>4, <2>7, <2>8
<1> QED
  BY <1>1, <1>2

-----------------------------------------------------------------------------
(* The invariant of the view.                                              *)

LEMMA ViewNumbers ==
  ASSUME ViewInv
  PROVE  /\ Len(m_logQueue) \in Nat /\ Len(pushed) \in Nat /\ Drained \in Nat
         /\ Len(pushed) = Drained + Len(m_logQueue) /\ m_scrollOffset \in Nat
         /\ m_autoScroll \in BOOLEAN /\ m_logCount = AtMost(Drained, LOG_KEEP)
<1>1. m_logQueue \in Seq(Nat) /\ pushed \in Seq(Nat) /\ Len(m_logQueue) <= Len(pushed)
  BY DEF ViewInv, QueueInv
<1>2. View.offset \in Nat /\ View.auto \in BOOLEAN /\ View.count = AtMost(Drained, LOG_KEEP)
  BY DEF ViewInv, Holds, Views
<1>3. View.offset = m_scrollOffset /\ View.auto = m_autoScroll /\ View.count = m_logCount
  BY DEF View
<1>4. m_autoScroll \in BOOLEAN
  BY <1>2, <1>3, Zenon
<1> QED
  BY <1>1, <1>2, <1>3, <1>4 DEF Drained

LEMMA InitViewInv == Init => ViewInv /\ FrameInv
<1> SUFFICES ASSUME Init PROVE ViewInv /\ FrameInv
  OBVIOUS
<1>1. /\ m_logQueue = <<>> /\ m_logHistory = [i \in 0..(LOG_KEEP - 1) |-> 0]
      /\ m_logCount = 0 /\ m_logHead = 0 /\ m_scrollOffset = 0 /\ m_autoScroll = TRUE
      /\ m_currentLayout = 0 /\ defined = {} /\ pushed = <<>>
      /\ frame = [rows |-> <<>>, log |-> <<>>, height |-> 0, auto |-> TRUE, keyed |-> FALSE]
  BY DEF Init, InitView
<1>2. Len(m_logQueue) = 0 /\ Len(pushed) = 0 /\ Drained = 0
  BY <1>1 DEF Drained
<1>3. QueueInv
  BY <1>1, <1>2 DEF QueueInv
<1>4. View = [history |-> [i \in 0..(LOG_KEEP - 1) |-> 0], count |-> 0, head |-> 0, offset |-> 0,
              auto |-> TRUE]
  BY <1>1 DEF View
<1>b. TRUE \in BOOLEAN /\ FALSE \in BOOLEAN
  BY Zenon
<1>5. View \in Views
  <2>1. [i \in 0..(LOG_KEEP - 1) |-> 0] \in [0..(LOG_KEEP - 1) -> Nat]
    OBVIOUS
  <2>2. 0 \in 0..LOG_KEEP /\ 0 \in 0..(LOG_KEEP - 1) /\ 0 \in Nat
    BY ViewConstants
  <2> QED
    BY <1>4, <1>b, <2>1, <2>2 DEF Views
<1>6. Holds(View, Drained)
  <2>1. View.count = 0 /\ View.offset = 0 /\ AtMost(0, LOG_KEEP) = 0
    BY <1>4, ViewConstants DEF AtMost
  <2> QED
    BY <1>2, <1>5, <2>1 DEF Holds
<1>7. ViewInv
  BY <1>1, <1>3, <1>6, ViewConstants DEF ViewInv, Layouts
<1>8. frame \in Frames /\ frame.auto
  BY <1>1, <1>b DEF Frames
<1> QED
  BY <1>7, <1>8 DEF FrameInv

(* What TickBegin does to the view.                                        *)
LEMMA TickBeginView ==
  ASSUME RowsInv, ViewInv, TickBegin
  PROVE  /\ ViewInv' /\ Drained' = Drained + Len(m_logQueue)
         /\ ~frame'.keyed /\ frame \in Frames =>
              /\ m_autoScroll' = m_autoScroll
              /\ ~m_autoScroll => m_scrollOffset' = m_scrollOffset + Len(m_logQueue)
<1> DEFINE n == Len(m_logQueue)
           v == DrainUpTo[n]
           u(key) == IF key \in ScrollKeys THEN Scroll(v, key, Page) ELSE v
<1>1. PICK key \in Keys \union {NoKey} :
        DrainAndKeys(key, Page) /\ frame' = [frame EXCEPT !.keyed = key # NoKey]
  BY DEF TickBegin
<1>2. /\ m_logHistory' = u(key).history /\ m_logCount' = u(key).count /\ m_logHead' = u(key).head
      /\ m_scrollOffset' = u(key).offset /\ m_autoScroll' = u(key).auto
      /\ m_currentLayout' = (CASE key = "[" -> PrevLayout(m_currentLayout)
                               [] key = "]" -> NextLayout(m_currentLayout)
                               [] OTHER     -> m_currentLayout)
      /\ m_logQueue' = <<>> /\ defined' = defined /\ pushed' = pushed
  BY <1>1 DEF DrainAndKeys, HandleKey
<1>3. /\ Holds(v, Drained + n) /\ v.auto = m_autoScroll
      /\ ~m_autoScroll => v.offset = m_scrollOffset + n
  <2>1. n \in 0..n
    BY ViewNumbers
  <2> QED
    BY <2>1, DrainUpToHolds
<1>4. Page \in Nat
  <2>1. m_termRows \in Nat
    BY Constants DEF RowsInv, RowsTypeOK
  <2>2. (m_termRows * 6) \div 10 \in Int
    BY <2>1
  <2> QED
    BY <2>2 DEF Page, AtLeast
<1> HIDE DEF v
<1>5. Holds(u(key), Drained + n)
  BY <1>3, <1>4, ScrollHolds
<1>6. Drained' = Drained + n /\ m_logQueue' \in Seq(Nat) /\ Len(m_logQueue') = 0
  BY <1>2, ViewNumbers DEF Drained
<1>7. View' = u(key)
  <2>1. u(key) = [history |-> u(key).history, count |-> u(key).count, head |-> u(key).head,
                  offset |-> u(key).offset, auto |-> u(key).auto]
    BY <1>5, ViewParts
  <2> HIDE DEF u
  <2> QED
    BY <1>2, <2>1 DEF View
<1>8. Holds(View', Drained')
  <2> HIDE DEF u
  <2> QED
    BY <1>5, <1>6, <1>7
<1>9. QueueInv'
  <2>1. pushed' \in Seq(Nat) /\ Len(pushed') \in Nat
    BY <1>2, ViewNumbers DEF ViewInv, QueueInv
  <2> QED
    BY <1>6, <2>1 DEF QueueInv
<1>10. m_currentLayout' \in Layouts /\ defined' \subseteq Layouts
  <2>1. m_currentLayout \in Layouts /\ defined \subseteq Layouts
    BY DEF ViewInv
  <2>2. PrevLayout(m_currentLayout) \in Layouts /\ NextLayout(m_currentLayout) \in Layouts
    BY <2>1, LayoutKeys
  <2> QED
    BY <1>2, <2>1, <2>2
<1>11. ViewInv'
  BY <1>8, <1>9, <1>10 DEF ViewInv
<1>12. ASSUME ~frame'.keyed, frame \in Frames
       PROVE  /\ m_autoScroll' = m_autoScroll
              /\ ~m_autoScroll => m_scrollOffset' = m_scrollOffset + n
  <2>1. frame'.keyed = (key # NoKey)
    BY <1>1, <1>12 DEF Frames
  <2>2. key = NoKey
    BY <1>12, <2>1
  <2>3. key \notin ScrollKeys
    BY <2>2, ViewConstants DEF Keys
  <2>4. u(key) = v
    BY <2>3
  <2> QED
    BY <1>2, <1>3, <2>4
<1> QED
  BY <1>6, <1>11, <1>12

(* The view does not change in the other steps of Tick.                    *)
LEMMA ViewUnchanged ==
  ASSUME ViewInv, UNCHANGED viewvars
  PROVE  /\ ViewInv' /\ Drained' = Drained /\ m_scrollOffset' = m_scrollOffset
         /\ m_autoScroll' = m_autoScroll
<1>1. /\ m_logQueue' = m_logQueue /\ pushed' = pushed /\ m_currentLayout' = m_currentLayout
      /\ defined' = defined /\ m_logHistory' = m_logHistory /\ m_logCount' = m_logCount
      /\ m_logHead' = m_logHead /\ m_scrollOffset' = m_scrollOffset /\ m_autoScroll' = m_autoScroll
  BY DEF viewvars
<1>2. Drained' = Drained /\ View' = View
  BY <1>1 DEF Drained, View
<1>3. QueueInv'
  BY <1>1, <1>2 DEF ViewInv, QueueInv
<1> QED
  BY <1>1, <1>2, <1>3 DEF ViewInv

LEMMA FrameUnchanged ==
  ASSUME FrameInv, frame' = frame, Drained' = Drained, m_scrollOffset' = m_scrollOffset,
         m_autoScroll' = m_autoScroll, tick = "idle" <=> tick' = "idle"
  PROVE  FrameInv'
BY DEF FrameInv

LEMMA LogView ==
  ASSUME ViewInv, Log
  PROVE  /\ ViewInv' /\ Drained' = Drained /\ m_scrollOffset' = m_scrollOffset
         /\ m_autoScroll' = m_autoScroll
<1>1. /\ m_logQueue' = Append(m_logQueue, Len(pushed) + 1) /\ pushed' = Append(pushed, Len(pushed) + 1)
      /\ m_currentLayout' = m_currentLayout
      /\ defined' = defined /\ m_logHistory' = m_logHistory /\ m_logCount' = m_logCount
      /\ m_logHead' = m_logHead /\ m_scrollOffset' = m_scrollOffset /\ m_autoScroll' = m_autoScroll
  BY DEF Log
<1>2. m_logQueue \in Seq(Nat) /\ pushed \in Seq(Nat) /\ Len(pushed) + 1 \in Nat
  BY ViewNumbers DEF ViewInv, QueueInv
<1>3. /\ Len(m_logQueue') = Len(m_logQueue) + 1 /\ Len(pushed') = Len(pushed) + 1
      /\ m_logQueue' \in Seq(Nat) /\ pushed' \in Seq(Nat)
      /\ \A i \in 1..Len(m_logQueue) : m_logQueue'[i] = m_logQueue[i]
      /\ m_logQueue'[Len(m_logQueue) + 1] = Len(pushed) + 1
  BY <1>1, <1>2
<1>4. Drained' = Drained /\ View' = View
  BY <1>1, <1>3, ViewNumbers DEF Drained, View
<1>5. \A i \in 1..Len(m_logQueue') : m_logQueue'[i] = Drained' + i
  <2> SUFFICES ASSUME NEW i \in 1..Len(m_logQueue') PROVE m_logQueue'[i] = Drained' + i
    OBVIOUS
  <2>1. CASE i = Len(m_logQueue) + 1
    <3>1. m_logQueue'[i] = Len(pushed) + 1
      BY <1>3, <2>1
    <3>2. Len(pushed) + 1 = Drained + (Len(m_logQueue) + 1)
      BY ViewNumbers
    <3> QED
      BY <1>4, <2>1, <3>1, <3>2
  <2>2. CASE i # Len(m_logQueue) + 1
    <3>1. i \in 1..Len(m_logQueue)
      BY <1>3, <2>2, ViewNumbers
    <3> QED
      BY <1>3, <1>4, <3>1 DEF ViewInv, QueueInv
  <2> QED
    BY <2>1, <2>2
<1>6. QueueInv'
  BY <1>3, <1>5, ViewNumbers DEF QueueInv
<1> QED
  BY <1>1, <1>4, <1>6 DEF ViewInv

(* A layout that is defined, and a key that is taken, leave it alone too.  *)
LEMMA DefineView ==
  ASSUME ViewInv, NEW l \in Layouts, Define(l)
  PROVE  /\ ViewInv' /\ Drained' = Drained /\ m_scrollOffset' = m_scrollOffset
         /\ m_autoScroll' = m_autoScroll
<1>1. /\ m_logQueue' = m_logQueue /\ pushed' = pushed /\ m_currentLayout' = m_currentLayout
      /\ defined' = defined \union {l} /\ m_logHistory' = m_logHistory /\ m_logCount' = m_logCount
      /\ m_logHead' = m_logHead /\ m_scrollOffset' = m_scrollOffset /\ m_autoScroll' = m_autoScroll
  BY DEF Define
<1>2. Drained' = Drained /\ View' = View
  BY <1>1 DEF Drained, View
<1>3. QueueInv'
  BY <1>1, <1>2 DEF ViewInv, QueueInv
<1> QED
  BY <1>1, <1>2, <1>3 DEF ViewInv

LEMMA KeyView ==
  ASSUME ViewInv, PopPendingKey
  PROVE  /\ ViewInv' /\ Drained' = Drained /\ m_scrollOffset' = m_scrollOffset
         /\ m_autoScroll' = m_autoScroll
<1>1. /\ m_logQueue' = m_logQueue /\ pushed' = pushed /\ m_currentLayout' = m_currentLayout
      /\ defined' = defined /\ m_logHistory' = m_logHistory /\ m_logCount' = m_logCount
      /\ m_logHead' = m_logHead /\ m_scrollOffset' = m_scrollOffset /\ m_autoScroll' = m_autoScroll
  BY DEF PopPendingKey
<1>2. Drained' = Drained /\ View' = View
  BY <1>1 DEF Drained, View
<1>3. QueueInv'
  BY <1>1, <1>2 DEF ViewInv, QueueInv
<1> QED
  BY <1>1, <1>2, <1>3 DEF ViewInv

(* What RenderArea2 draws is what the view shows.                          *)
LEMMA FrameDrawn ==
  ASSUME RowsInv, ViewInv, FrameInv, RenderArea2
  PROVE  /\ frame' \in Frames /\ frame'.keyed = frame.keyed /\ frame'.auto = m_autoScroll
         /\ frame'.log = Shown(Drained, m_scrollOffset, frame'.height)
<1> DEFINE h == m_termRows - area1_h - 1
           rows == IF m_currentLayout = 0 THEN drawn.rows ELSE <<>>
           log == IF h < 3 THEN <<>> ELSE Lines2(h - 2)
<1>1. frame' = [frame EXCEPT !.rows = rows, !.log = log, !.height = h, !.auto = m_autoScroll]
  BY DEF RenderArea2
<1>2. h \in Int
  <2>1. m_termRows \in Nat /\ area1_h \in Nat
    BY Constants DEF RowsInv, RowsTypeOK
  <2> QED
    BY <2>1
<1>3. rows \in Seq([label : Numbers, text : Numbers])
  <2>1. drawn.rows \in Seq([label : Numbers, text : Numbers])
    BY DEF RowsInv, DrawnInv
  <2> QED
    BY <2>1
<1> HIDE DEF h, rows
<1>4. log = Shown(Drained, m_scrollOffset, h) /\ log \in Seq(Nat)
  <2>1. CASE h < 3
    BY <2>1 DEF Shown
  <2>2. CASE ~(h < 3)
    <3>1. h >= 3
      BY <1>2, <2>2
    <3> QED
      BY <1>2, <2>2, <3>1, ViewLines
  <2> QED
    BY <2>1, <2>2
<1> HIDE DEF log
<1>5. frame = [rows |-> frame.rows, log |-> frame.log, height |-> frame.height,
               auto |-> frame.auto, keyed |-> frame.keyed]
  BY DEF FrameInv, Frames
<1>6. frame' = [rows |-> rows, log |-> log, height |-> h, auto |-> m_autoScroll, keyed |-> frame.keyed]
  BY <1>1, <1>5
<1>7. frame.keyed \in BOOLEAN
  BY Zenon DEF FrameInv, Frames
<1>8. m_autoScroll \in BOOLEAN
  BY ViewNumbers, Zenon
<1>9. frame' \in Frames
  BY <1>2, <1>3, <1>4, <1>6, <1>7, <1>8 DEF Frames
<1>10. frame'.keyed = frame.keyed /\ frame'.auto = m_autoScroll /\ frame'.log = log /\ frame'.height = h
  BY <1>6
<1> QED
  BY <1>4, <1>9, <1>10

LEMMA FrameRenderArea2 ==
  ASSUME RowsInv, ViewInv, FrameInv, RenderArea2
  PROVE  ViewInv' /\ FrameInv'
<1>1. UNCHANGED viewvars /\ tick' = "idle"
  BY DEF RenderArea2
<1>2. ViewInv' /\ Drained' = Drained /\ m_scrollOffset' = m_scrollOffset /\ m_autoScroll' = m_autoScroll
  BY <1>1, ViewUnchanged
<1>3. /\ frame' \in Frames /\ frame'.keyed = frame.keyed /\ frame'.auto = m_autoScroll
      /\ frame'.log = Shown(Drained, m_scrollOffset, frame'.height)
  BY FrameDrawn
<1> QED
  BY <1>1, <1>2, <1>3 DEF FrameInv

LEMMA FrameTickBegin ==
  ASSUME RowsInv, ViewInv, FrameInv, TickBegin
  PROVE  ViewInv' /\ FrameInv'
<1>1. PICK key \in Keys \union {NoKey} : frame' = [frame EXCEPT !.keyed = key # NoKey]
  BY DEF TickBegin
<1>2. tick = "idle" /\ tick' = "area1" /\ frame \in Frames
  BY DEF TickBegin, FrameInv
<1> DEFINE k == key # NoKey
<1>k. k \in BOOLEAN
  BY Zenon
<1> HIDE DEF k
<1>3. frame' = [rows |-> frame.rows, log |-> frame.log, height |-> frame.height,
                auto |-> frame.auto, keyed |-> k]
  <2>1. frame = [rows |-> frame.rows, log |-> frame.log, height |-> frame.height,
                 auto |-> frame.auto, keyed |-> frame.keyed]
    BY <1>2 DEF Frames
  <2>2. frame' = [frame EXCEPT !.keyed = k]
    BY <1>1 DEF k
  <2> QED
    BY <2>1, <2>2
<1>4. frame.auto \in BOOLEAN
  BY <1>2, Zenon DEF Frames
<1>5. frame' \in Frames
  BY <1>2, <1>3, <1>4, <1>k DEF Frames
<1>6. frame'.log = frame.log /\ frame'.height = frame.height /\ frame'.auto = frame.auto
  BY <1>3
<1>7. ViewInv' /\ Drained' = Drained + Len(m_logQueue)
  BY TickBeginView
<1>8. ASSUME ~frame'.auto, ~frame'.keyed
      PROVE  \E n \in 0..AtMost(Drained', m_scrollOffset') :
               frame'.log = Shown(Drained' - n, m_scrollOffset' - n, frame'.height)
  <2>1. ~m_autoScroll /\ frame.log = Shown(Drained, m_scrollOffset, frame.height)
    BY <1>2, <1>6, <1>8 DEF FrameInv
  <2>2. m_scrollOffset' = m_scrollOffset + Len(m_logQueue)
    BY <1>2, <1>8, <2>1, TickBeginView
  <2>3. /\ Drained' - Len(m_logQueue) = Drained /\ m_scrollOffset' - Len(m_logQueue) = m_scrollOffset
        /\ Len(m_logQueue) \in 0..AtMost(Drained', m_scrollOffset')
    BY <1>7, <2>2, ViewNumbers DEF AtMost
  <2>4. frame'.log = Shown(Drained' - Len(m_logQueue), m_scrollOffset' - Len(m_logQueue), frame'.height)
    BY <1>6, <2>1, <2>3
  <2> QED
    BY <2>3, <2>4
<1>9. FrameInv'
  BY <1>2, <1>5, <1>8 DEF FrameInv
<1> QED
  BY <1>7, <1>9

-----------------------------------------------------------------------------
(* The steps, and what follows.                                            *)

LEMMA NextTuiInv == ASSUME TuiInv, [Next]_vars PROVE TuiInv'
<1>0. RowsInv /\ ViewInv /\ FrameInv
  BY DEF TuiInv
<1>1. RowsInv'
  BY <1>0, NextRowsInv
<1> SUFFICES ViewInv' /\ FrameInv'
  BY <1>1 DEF TuiInv
<1>2. CASE TickBegin
  BY <1>0, <1>2, FrameTickBegin
<1>3. CASE RenderArea2
  BY <1>0, <1>3, FrameRenderArea2
<1>4. CASE UNCHANGED <<viewvars, frame>> /\ (tick = "idle" <=> tick' = "idle")
  BY <1>0, <1>4, ViewUnchanged, FrameUnchanged
<1>5. CASE Logs
  BY <1>0, <1>5, LogView, FrameUnchanged DEF Logs
<1>6. CASE TakesKey
  BY <1>0, <1>6, KeyView, FrameUnchanged DEF TakesKey
<1>7. CASE Defines
  <2>1. PICK l \in Layouts \ defined : Define(l)
    BY <1>7 DEF Defines
  <2>2. frame' = frame /\ tick' = tick
    BY <1>7 DEF Defines
  <2> QED
    BY <1>0, <2>1, <2>2, DefineView, FrameUnchanged
<1>8. CASE RenderArea1 \/ ClearFlag \/ DrawRows \/ SetsRow \/ UNCHANGED vars
  <2>1. UNCHANGED <<viewvars, frame>> /\ (tick = "idle" <=> tick' = "idle")
    <3>1. CASE RenderArea1
      BY <3>1 DEF RenderArea1, Drawing
    <3>2. CASE ClearFlag
      BY <3>2 DEF ClearFlag, Drawing
    <3>3. CASE DrawRows
      BY <3>3 DEF DrawRows, Drawing
    <3>4. CASE SetsRow
      BY <3>4 DEF SetsRow
    <3>5. CASE UNCHANGED vars
      BY <3>5 DEF vars
    <3> QED
      BY <1>8, <3>1, <3>2, <3>3, <3>4, <3>5
  <2> QED
    BY <1>4, <2>1
<1> QED
  BY <1>2, <1>3, <1>5, <1>6, <1>7, <1>8 DEF Next, Tick

(* The view, the queue and the frame agree at every step.                  *)
THEOREM ViewInvariant == Spec => []TuiInv
<1>1. Init => TuiInv
  BY InitRowsInv, InitViewInv DEF TuiInv
<1>2. TuiInv /\ [Next]_vars => TuiInv'
  BY NextTuiInv
<1> QED
  BY <1>1, <1>2, PTL DEF Spec

LEMMA RingOfView ==
  ASSUME ViewInv
  PROVE  /\ Ring = [i \in 1..m_logCount |-> Drained - m_logCount + i]
         /\ m_logCount = AtMost(Drained, LOG_KEEP) /\ (m_autoScroll => m_scrollOffset = 0)
<1>1. /\ View.count = m_logCount /\ View.history = m_logHistory /\ View.head = m_logHead
      /\ View.auto = m_autoScroll /\ View.offset = m_scrollOffset
  BY DEF View
<1>2. /\ m_logCount = AtMost(Drained, LOG_KEEP) /\ (m_autoScroll => m_scrollOffset = 0)
      /\ \A i \in 1..m_logCount :
           m_logHistory[(m_logHead + i - 1) % LOG_KEEP] = Drained - m_logCount + i
  BY <1>1 DEF ViewInv, Holds
<1>3. Ring = [i \in 1..m_logCount |-> Drained - m_logCount + i]
  BY <1>2 DEF Ring
<1> QED
  BY <1>2, <1>3

(* The log view keeps the newest messages that were drained, in their      *)
(* order, and is at the end of them unless it is paused.                   *)
THEOREM NewestMessagesKept == Spec => []HistoryIsNewest
<1>1. TuiInv => HistoryIsNewest
  BY RingOfView DEF TuiInv, HistoryIsNewest
<1> QED
  BY <1>1, ViewInvariant, PTL

(* However many messages come between two frames of a paused view, the     *)
(* next frame shows the same lines, or begins with the oldest line kept.   *)
THEOREM PausedViewStands == Spec => PausedViewStable
<1> DEFINE Stable == tick # "idle" /\ tick' = "idle" /\ ~frame.auto /\ ~frame'.auto /\ ~frame.keyed
                     /\ frame.height = frame'.height
                     => \/ frame'.log = frame.log
                        \/ frame'.log # <<>> /\ frame'.log[1] = Ring[1]
<1>1. TuiInv /\ [Next]_vars => [Stable]_vars
  <2> SUFFICES ASSUME TuiInv, Next, tick # "idle", tick' = "idle", ~frame.auto, ~frame'.auto,
                      ~frame.keyed, frame.height = frame'.height
               PROVE  frame'.log = frame.log \/ (frame'.log # <<>> /\ frame'.log[1] = Ring[1])
    OBVIOUS
  <2>0. RowsInv /\ ViewInv /\ FrameInv
    BY DEF TuiInv
  <2>1. RenderArea2
    BY DEF Next, Tick, TickBegin, RenderArea1, ClearFlag, DrawRows, SetsRow, Logs, TakesKey, Defines
  <2>2. frame'.log = Shown(Drained, m_scrollOffset, frame.height)
    BY <2>0, <2>1, FrameDrawn
  <2>3. PICK n \in 0..AtMost(Drained, m_scrollOffset) :
          frame.log = Shown(Drained - n, m_scrollOffset - n, frame.height)
    BY <2>0 DEF FrameInv
  <2>4. Drained \in Nat /\ m_scrollOffset \in Nat /\ m_logCount = AtMost(Drained, LOG_KEEP)
    BY <2>0, ViewNumbers
  <2>5. n \in Nat /\ n <= Drained /\ n <= m_scrollOffset
    BY <2>4 DEF AtMost
  <2>6. frame.height \in Int
    BY <2>0 DEF FrameInv, Frames
  <2>7. CASE frame'.log = frame.log
    BY <2>7
  <2>8. CASE frame'.log # frame.log
    <3>1. /\ frame'.log # <<>>
          /\ frame'.log[1] = Drained - AtMost(Drained, LOG_KEEP) + 1
      <4> DEFINE d == Drained
                 o == m_scrollOffset
                 h == frame.height
      <4>1. d \in Nat /\ o \in Nat /\ h \in Int
        BY <2>4, <2>6
      <4>2. frame'.log = Shown(d, o, h) /\ frame.log = Shown(d - n, o - n, h) /\ n <= d /\ n <= o
        BY <2>2, <2>3, <2>5
      <4> HIDE DEF d, o, h
      <4>3. \/ Shown(d, o, h) = Shown(d - n, o - n, h)
            \/ Shown(d, o, h) # <<>> /\ Shown(d, o, h)[1] = d - AtMost(d, LOG_KEEP) + 1
        BY <2>5, <4>1, <4>2, ShownStays
      <4>4. frame'.log # <<>> /\ frame'.log[1] = d - AtMost(d, LOG_KEEP) + 1
        BY <2>8, <4>2, <4>3
      <4> QED
        BY <4>4 DEF d
    <3>2. m_logCount >= 1
      <4>1. CASE Drained = 0
        <5>1. Drained - n = Drained /\ m_scrollOffset - n = m_scrollOffset
          BY <2>4, <2>5, <4>1
        <5> QED
          BY <2>2, <2>3, <2>8, <5>1
      <4>2. CASE Drained # 0
        BY <2>4, <4>2, ViewConstants DEF AtMost
      <4> QED
        BY <4>1, <4>2
    <3>3. Ring[1] = Drained - m_logCount + 1
      <4>1. Ring = [i \in 1..m_logCount |-> Drained - m_logCount + i]
        BY <2>0, RingOfView
      <4>2. 1 \in 1..m_logCount
        BY <2>4, <3>2, ViewConstants DEF AtMost
      <4> QED
        BY <4>1, <4>2
    <3> QED
      BY <2>4, <3>1, <3>3
  <2> QED
    BY <2>7, <2>8
<1> QED
  BY <1>1, ViewInvariant, PTL DEF Spec, PausedViewStable

-----------------------------------------------------------------------------
(* The layouts in turn.                                                    *)

AfterStep(f, n) == IF n = 0 THEN m_currentLayout ELSE NextLayout(f[n - 1])

LEMMA AfterExists == \A k \in Nat : \E f : f = [n \in 0..k |-> AfterStep(f, n)]
<1> DEFINE S == {k \in Nat : \E f : f = [n \in 0..k |-> AfterStep(f, n)]}
<1>1. 0 \in S
  <2> DEFINE f == [n \in 0..0 |-> m_currentLayout]
  <2>1. f = [n \in 0..0 |-> AfterStep(f, n)]
    BY DEF AfterStep
  <2> QED
    BY <2>1
<1>2. ASSUME NEW k \in Nat, k \in S PROVE k + 1 \in S
  <2>1. PICK f : f = [n \in 0..k |-> AfterStep(f, n)]
    BY <1>2
  <2> DEFINE g == [n \in 0..(k + 1) |-> IF n = k + 1 THEN NextLayout(f[k]) ELSE f[n]]
  <2>2. \A n \in 0..(k + 1) : g[n] = AfterStep(g, n)
    <3> SUFFICES ASSUME NEW n \in 0..(k + 1) PROVE g[n] = AfterStep(g, n)
      OBVIOUS
    <3>1. CASE n = k + 1
      <4>1. n # 0 /\ n - 1 = k /\ k \in 0..(k + 1) /\ k # k + 1
        BY <3>1
      <4>2. g[n] = NextLayout(f[k]) /\ g[k] = f[k]
        BY <3>1, <4>1
      <4> QED
        BY <4>1, <4>2 DEF AfterStep
    <3>2. CASE n # k + 1
      <4>1. n \in 0..k /\ g[n] = f[n]
        BY <3>2
      <4>2. f[n] = AfterStep(f, n)
        BY <2>1, <4>1
      <4>3. n # 0 => n - 1 \in 0..k /\ g[n - 1] = f[n - 1]
        BY <4>1
      <4> QED
        BY <4>1, <4>2, <4>3 DEF AfterStep
    <3> QED
      BY <3>1, <3>2
  <2>3. g = [n \in 0..(k + 1) |-> AfterStep(g, n)]
    <3>1. g = [n \in 0..(k + 1) |-> g[n]]
      OBVIOUS
    <3> QED
      BY <2>2, <3>1
  <2> HIDE DEF g
  <2>4. \E h : h = [n \in 0..(k + 1) |-> AfterStep(h, n)]
    BY <2>3
  <2> QED
    BY <2>4
<1> HIDE DEF S
<1>3. \A k \in Nat : k \in S
  BY <1>1, <1>2, NatSetInduction
<1> QED
  BY <1>3 DEF S

LEMMA AfterValue ==
  /\ DOMAIN After = 0..(2 * MAX_LAYOUTS)
  /\ \A n \in 0..(2 * MAX_LAYOUTS) :
       After[n] = IF n = 0 THEN m_currentLayout ELSE NextLayout(After[n - 1])
<1>0. 2 * MAX_LAYOUTS \in Nat
  BY ViewConstants
<1>1. \E f : f = [j \in 0..(2 * MAX_LAYOUTS) |-> AfterStep(f, j)]
  BY <1>0, AfterExists
<1>2. After = CHOOSE f : f = [j \in 0..(2 * MAX_LAYOUTS) |-> AfterStep(f, j)]
  BY DEF After, AfterStep
<1>3. After = [j \in 0..(2 * MAX_LAYOUTS) |-> AfterStep(After, j)]
  BY <1>1, <1>2
<1> QED
  BY <1>3 DEF AfterStep

(* Pressing ] shows layout 0 after at most MAX_LAYOUTS - m_currentLayout.  *)
LEMMA FirstReached ==
  ASSUME ViewInv
  PROVE  \E k \in Nat : k <= MAX_LAYOUTS /\ After[k] = 0
<1> DEFINE m == m_currentLayout
           P(n) == \/ After[n] = m + n /\ m + n <= MAX_LAYOUTS - 1
                   \/ \E k \in Nat : k <= MAX_LAYOUTS - m /\ After[k] = 0
           S == {n \in Nat : n <= MAX_LAYOUTS => P(n)}
<1>1. m \in Nat /\ m <= MAX_LAYOUTS - 1 /\ MAX_LAYOUTS \in Nat
  BY ViewConstants DEF ViewInv, Layouts
<1>2. 0 \in S
  <2>1. After[0] = m
    BY <1>1, AfterValue
  <2>2. P(0)
    BY <1>1, <2>1
  <2> QED
    BY <2>2
<1>3. ASSUME NEW n \in Nat, n \in S PROVE n + 1 \in S
  <2> SUFFICES ASSUME n + 1 <= MAX_LAYOUTS PROVE P(n + 1)
    OBVIOUS
  <2>1. P(n)
    BY <1>1, <1>3
  <2>2. After[n + 1] = NextLayout(After[n])
    <3>1. n + 1 \in 0..(2 * MAX_LAYOUTS) /\ n + 1 # 0 /\ (n + 1) - 1 = n
      BY <1>1
    <3> QED
      BY <3>1, AfterValue
  <2>3. CASE After[n] = m + n /\ m + n <= MAX_LAYOUTS - 1
    <3>1. CASE m + n = MAX_LAYOUTS - 1 \/ m + n \notin defined
      <4>1. After[n + 1] = 0
        BY <2>2, <2>3, <3>1 DEF NextLayout
      <4>2. n + 1 \in Nat /\ n + 1 <= MAX_LAYOUTS - m
        BY <1>1, <2>3
      <4> QED
        BY <4>1, <4>2
    <3>2. CASE ~(m + n = MAX_LAYOUTS - 1 \/ m + n \notin defined)
      <4>1. After[n + 1] = m + n + 1
        BY <2>2, <2>3, <3>2 DEF NextLayout
      <4>2. m + n + 1 = m + (n + 1) /\ m + (n + 1) <= MAX_LAYOUTS - 1
        BY <1>1, <2>3, <3>2
      <4> QED
        BY <4>1, <4>2
    <3> QED
      BY <3>1, <3>2
  <2>4. CASE \E k \in Nat : k <= MAX_LAYOUTS - m /\ After[k] = 0
    BY <2>4
  <2> QED
    BY <2>1, <2>3, <2>4
<1> HIDE DEF S, P
<1>4. \A n \in Nat : n \in S
  BY <1>2, <1>3, NatSetInduction
<1>5. P(MAX_LAYOUTS - m)
  <2>1. MAX_LAYOUTS - m \in Nat /\ MAX_LAYOUTS - m <= MAX_LAYOUTS
    BY <1>1
  <2> QED
    BY <1>4, <2>1 DEF S
<1>6. \E k \in Nat : k <= MAX_LAYOUTS - m /\ After[k] = 0
  <2>1. ~(m + (MAX_LAYOUTS - m) <= MAX_LAYOUTS - 1)
    BY <1>1
  <2> QED
    BY <1>5, <2>1 DEF P
<1> QED
  BY <1>1, <1>6

(* From layout 0 on it shows all that are defined one after the other.     *)
LEMMA OthersReached ==
  ASSUME ViewInv, NEW l \in Layouts, 0..l \subseteq defined,
         NEW k \in Nat, k <= MAX_LAYOUTS, After[k] = 0
  PROVE  After[k + l] = l
<1> DEFINE S == {n \in Nat : n <= l => After[k + n] = n}
<1>1. l \in Nat /\ l <= MAX_LAYOUTS - 1 /\ MAX_LAYOUTS \in Nat
  BY ViewConstants DEF Layouts
<1>2. 0 \in S
  BY <1>1
<1>3. ASSUME NEW n \in Nat, n \in S PROVE n + 1 \in S
  <2> SUFFICES ASSUME n + 1 <= l PROVE After[k + (n + 1)] = n + 1
    OBVIOUS
  <2>1. After[k + n] = n
    BY <1>1, <1>3
  <2>2. /\ k + (n + 1) \in 0..(2 * MAX_LAYOUTS) /\ k + (n + 1) # 0
        /\ (k + (n + 1)) - 1 = k + n
    BY <1>1
  <2>3. After[k + (n + 1)] = NextLayout(n)
    BY <2>1, <2>2, AfterValue
  <2>4. n \in defined /\ n # MAX_LAYOUTS - 1
    BY <1>1
  <2> QED
    BY <2>3, <2>4 DEF NextLayout
<1> HIDE DEF S
<1>4. \A n \in Nat : n \in S
  BY <1>2, <1>3, NatSetInduction
<1> QED
  BY <1>1, <1>4 DEF S

(* Whatever layout is shown, pressing ] often enough shows every layout    *)
(* that is defined together with all before it.                            *)
THEOREM LayoutsReached == Spec => []EveryLayoutReached
<1>1. TuiInv => EveryLayoutReached
  <2> SUFFICES ASSUME ViewInv, NEW l \in defined, 0..l \subseteq defined
               PROVE  \E n \in DOMAIN After : After[n] = l
    BY DEF TuiInv, EveryLayoutReached
  <2>1. l \in Layouts /\ l \in Nat /\ l <= MAX_LAYOUTS - 1
    BY ViewConstants DEF ViewInv, Layouts
  <2>2. PICK k \in Nat : k <= MAX_LAYOUTS /\ After[k] = 0
    BY FirstReached
  <2>3. After[k + l] = l
    BY <2>1, <2>2, OthersReached
  <2>4. k + l \in DOMAIN After
    BY <2>1, <2>2, AfterValue, ViewConstants
  <2> QED
    BY <2>3, <2>4
<1> QED
  BY <1>1, ViewInvariant, PTL
=============================================================================
