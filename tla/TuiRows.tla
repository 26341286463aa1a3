------------------------------- MODULE TuiRows -------------------------------
(***************************************************************************)
(* The data rows of a layout of RtTui, in two buffers: a thread of the     *)
(* application writes rows into the buffer dataWriteIdx names, while the   *)
(* drain thread swaps the buffers and draws the other one.  Nothing keeps  *)
(* the two apart but the index and the dirty flags.                        *)
(*                                                                         *)
(* A row is its label and its text; each update writes a new number.       *)
(***************************************************************************)
EXTENDS Naturals, Sequences

CONSTANTS
  TUI_MAX_ROWS_PER_GROUP,
  HeaderLines,     (* 2 for SetGroup, 0 for SetGroupNoHeader               *)
  MaxSets          (* bound on the updates                                 *)

ASSUME TuiRowsAssumption ==
  /\ TUI_MAX_ROWS_PER_GROUP \in Nat \ {0}
  /\ HeaderLines \in {0, 2} /\ MaxSets \in Nat

VARIABLES
  dataBuf,         (* [0..1 -> label, text, nrows, dirty]                  *)
  dataWriteIdx,
  setter,          (* the update in progress                               *)
  drawn,           (* the frame: the read buffer, the rows drawn so far    *)
  updates,         (* history: the number of updates begun                 *)
  whole,           (* history: of a row, the newest update that began and  *)
                   (* ended since the last swap                            *)
  due,             (* history: of a row, the update the frame has to show  *)
  late             (* history: the rows being set at the last swap         *)

rowvars == <<dataBuf, dataWriteIdx, setter, drawn, updates, whole, due, late>>

Rows == 1..TUI_MAX_ROWS_PER_GROUP
Blank  == [r \in Rows |-> 0]
Idle   == [at |-> "idle", row |-> 1, widx |-> 0, n |-> 0, fresh |-> FALSE]
NoRows == [ridx |-> 0, height |-> 0, rows |-> <<>>]

InitRows ==
  /\ dataBuf = [b \in 0..1 |-> [label |-> Blank, text |-> Blank, nrows |-> 0, dirty |-> FALSE]]
  /\ dataWriteIdx = 0 /\ setter = Idle /\ drawn = NoRows
  /\ updates = 0 /\ whole = Blank /\ due = Blank /\ late = {}

-----------------------------------------------------------------------------
(* SetRowData and SetTextRow, step by step.                                *)

Reader == UNCHANGED <<dataWriteIdx, drawn, due, late>>

(* Mutant: The row goes into the buffer that is drawn.                     *)
ReadIdx == 1 - dataWriteIdx

WriteIdx == dataWriteIdx

LoadWriteIdx(r) ==
  /\ setter.at = "idle" /\ updates < MaxSets
  /\ updates' = updates + 1
  /\ setter' = [at |-> "label", row |-> r, widx |-> WriteIdx, n |-> updates + 1, fresh |-> TRUE]
  /\ Reader /\ UNCHANGED <<dataBuf, whole>>

CopyLabel ==
  /\ setter.at = "label"
  /\ dataBuf' = [dataBuf EXCEPT ![setter.widx].label[setter.row] = setter.n]
  /\ setter' = [setter EXCEPT !.at = "text"]
  /\ Reader /\ UNCHANGED <<updates, whole>>

(* The columns or the text, and nrows.                                     *)
CopyText ==
  /\ setter.at = "text"
  /\ dataBuf' = [dataBuf EXCEPT ![setter.widx].text[setter.row] = setter.n,
                                ![setter.widx].nrows = IF setter.row > @ THEN setter.row ELSE @]
  /\ setter' = [setter EXCEPT !.at = "dirty"]
  /\ Reader /\ UNCHANGED <<updates, whole>>

StoreDirty ==
  /\ setter.at = "dirty"
  /\ dataBuf' = [dataBuf EXCEPT ![setter.widx].dirty = TRUE]
  /\ setter' = Idle
  /\ whole' = IF setter.fresh THEN [whole EXCEPT ![setter.row] = setter.n] ELSE whole
  /\ Reader /\ UNCHANGED updates

SetRow == (\E r \in Rows : LoadWriteIdx(r)) \/ CopyLabel \/ CopyText \/ StoreDirty

-----------------------------------------------------------------------------
(* RenderArea1, step by step.                                              *)

Setter == UNCHANGED <<setter, updates, whole>>

(* CalcArea1Height counts the rows of the buffer that was drawn last.      *)
CalcArea1Height == 2 + HeaderLines + dataBuf[1 - dataWriteIdx].nrows

(* What the frame has to show from here on.                                *)
Due(kept) == due' = [r \in Rows |-> IF whole[r] # 0 THEN whole[r] ELSE kept[r]]

(* The check of dirty.  Only the drain thread stores dataWriteIdx.         *)
IsDirty == dataBuf[dataWriteIdx].dirty

KeepBuffers(height) ==
  /\ ~IsDirty
  /\ drawn' = [ridx |-> 1 - dataWriteIdx, height |-> height, rows |-> <<>>]
  /\ Due(due)
  /\ Setter /\ UNCHANGED <<dataBuf, dataWriteIdx, late>>

(* The stores of dataWriteIdx and of dirty.  An update that has loaded the *)
(* old index goes on in the buffer that is drawn.                          *)
SwapBuffers(height) ==
  /\ IsDirty
  /\ dataWriteIdx' = 1 - dataWriteIdx
  /\ drawn' = [ridx |-> dataWriteIdx, height |-> height, rows |-> <<>>]
  /\ Due(Blank) /\ whole' = Blank
  /\ setter' = [setter EXCEPT !.fresh = FALSE]
  /\ late' = IF setter.at = "idle" THEN {} ELSE {setter.row}
  /\ UNCHANGED <<dataBuf, updates>>

(* Mutant: The flag of the other buffer is cleared.                        *)
NewIdx == dataWriteIdx

OldIdx == drawn.ridx

ClearDirty ==
  /\ dataBuf' = [dataBuf EXCEPT ![OldIdx].dirty = FALSE]
  /\ Setter /\ UNCHANGED <<dataWriteIdx, drawn, due, late>>

(* A row is drawn if there are lines left; its label, then its text.       *)
Lines(height) == height - 2 - HeaderLines
MoreRows ==
  /\ Len(drawn.rows) < dataBuf[drawn.ridx].nrows
  /\ Len(drawn.rows) < Lines(drawn.height)

DrawLabel ==
  /\ MoreRows
  /\ LET r == Len(drawn.rows) + 1
     IN  drawn' = [drawn EXCEPT !.rows = Append(@, [label |-> dataBuf[drawn.ridx].label[r], text |-> 0])]
  /\ Setter /\ UNCHANGED <<dataBuf, dataWriteIdx, due, late>>

DrawText ==
  /\ LET r == Len(drawn.rows)
     IN  drawn' = [drawn EXCEPT !.rows[r].text = dataBuf[drawn.ridx].text[r]]
  /\ Setter /\ UNCHANGED <<dataBuf, dataWriteIdx, due, late>>
=============================================================================
