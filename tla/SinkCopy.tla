------------------------------ MODULE SinkCopy -------------------------------
(***************************************************************************)
(* The row copy that copy_decode_to_sink and copy_frame_to_sink             *)
(* (src/src/helpers/mod.rs) share: a decoded picture goes to a caller-owned *)
(* sink by begin, one provide_next_buffer for all rows, a row loop, finish. *)
(* One action per call, because the sink is the caller's code: each call    *)
(* may fail, and the buffer it lends may be too small, in which case        *)
(* row_mut / copy_from_slice panics and the copy unwinds.                   *)
(***************************************************************************)
EXTENDS Integers, Sequences, FiniteSets

CONSTANTS Heights,                 (* row counts a picture may have          *)
          Pictures,                (* identities of decoded pictures         *)
          Stale                    (* what a lent row holds before it is written *)

ASSUME SinkCopyAssumption ==
  /\ Heights \subseteq Nat \ {0}   (* parse_mock_header rejects a zero height *)
  /\ Stale \notin Pictures

VARIABLES pc,                      (* where the decoder's call is            *)
          outcome,                 (* of the last call; "running" during one *)
          pic,                     (* picture being copied                   *)
          rows,                    (* ps.rows() of that picture              *)
          row,                     (* the row loop's variable                *)
          sink                     (* the sink as the calls have left it     *)

copyVars == <<pc, outcome, pic, rows, row, sink>>

CopySteps == {"begin", "provide", "copy", "finish"}

(* announced: rows of the last begin; strips: buffers handed out since it;  *)
(* buf: the rows of the last buffer lent, Stale until written.              *)
NewSink == [phase |-> "idle", announced |-> 0, strips |-> 0, buf |-> <<>>]

SinkStates == [phase : {"idle", "open", "done", "refused"},
               announced : Heights \cup {0},
               strips : Nat,
               buf : Seq(Pictures \cup {Stale})]

CopyTypeOK ==
  /\ pic \in Pictures
  /\ rows \in Heights
  /\ row \in Nat
  /\ sink \in SinkStates

CopyInit(p, h) ==
  /\ pic = p
  /\ rows = h
  /\ row = 0
  /\ sink = NewSink

(* The call returns; nothing more is done to the sink. *)
Return(result) == pc' = "idle" /\ outcome' = result

(* Mutant of StartCopy: the row variable is left from the last picture. *)
StartCopyResuming(p, h) ==
  /\ pc' = "begin"
  /\ pic' = p
  /\ rows' = h
  /\ UNCHANGED <<outcome, row, sink>>

(* The decoder has a picture p of h rows and turns to the sink. *)
StartCopy(p, h) ==
  /\ pc' = "begin"
  /\ pic' = p
  /\ rows' = h
  /\ row' = 0
  /\ UNCHANGED <<outcome, sink>>

(* sink.begin(w, h, desc).map_err(wrap_sink_error)?  *)
Begin ==
  /\ pc = "begin"
  /\ \/ /\ sink' = [phase |-> "open", announced |-> rows, strips |-> 0, buf |-> <<>>]
        /\ pc' = "provide"
        /\ UNCHANGED outcome
     \/ /\ sink' = [NewSink EXCEPT !.phase = "refused", !.announced = rows]
        /\ Return("sink_error")
  /\ UNCHANGED <<pic, rows, row>>

(* sink.provide_next_buffer(0, h, w, desc).map_err(wrap_sink_error)?; the   *)
(* buffer has room for `fit` rows of the picture, h of them if the sink     *)
(* keeps its side of the contract.                                          *)
Provide ==
  /\ pc = "provide"
  /\ \/ /\ \E fit \in 0..rows :
             sink' = [sink EXCEPT !.strips = @ + 1,
                                  !.buf = [i \in 1..fit |-> Stale]]
        /\ pc' = "copy"
        /\ UNCHANGED outcome
     \/ /\ sink' = [sink EXCEPT !.phase = "refused"]
        /\ Return("sink_error")
  /\ UNCHANGED <<pic, rows, row>>

(* Mutant of CopyRow: the row variable is not advanced. *)
CopyRowStuck ==
  /\ pc = "copy"
  /\ row < rows
  /\ row < Len(sink.buf)
  /\ sink' = [sink EXCEPT !.buf[row + 1] = pic]
  /\ UNCHANGED <<pc, outcome, pic, rows, row>>

(* for row in 0..h: dst.row_mut(row).copy_from_slice(ps.row(row)) *)
CopyRow ==
  /\ pc = "copy"
  /\ row < rows
  /\ IF row < Len(sink.buf)
     THEN /\ sink' = [sink EXCEPT !.buf[row + 1] = pic]
          /\ row' = row + 1
          /\ UNCHANGED <<pc, outcome>>
     ELSE /\ Return("panic")
          /\ UNCHANGED <<row, sink>>
  /\ UNCHANGED <<pic, rows>>

(* Mutant of DropBuffer: the loop ends one row early. *)
DropBufferEarly ==
  /\ pc = "copy"
  /\ row >= rows - 1
  /\ pc' = "finish"
  /\ UNCHANGED <<outcome, pic, rows, row, sink>>

(* The loop is over: drop(dst). *)
DropBuffer ==
  /\ pc = "copy"
  /\ row = rows
  /\ pc' = "finish"
  /\ UNCHANGED <<outcome, pic, rows, row, sink>>

(* Mutant of Finish: the error of finish() is discarded. *)
FinishUnchecked ==
  /\ pc = "finish"
  /\ \/ sink' = [sink EXCEPT !.phase = "done"]
     \/ sink' = [sink EXCEPT !.phase = "refused"]
  /\ Return("ok")
  /\ UNCHANGED <<pic, rows, row>>

(* sink.finish().map_err(wrap_sink_error)?  *)
Finish ==
  /\ pc = "finish"
  /\ \/ /\ sink' = [sink EXCEPT !.phase = "done"]
        /\ Return("ok")
     \/ /\ sink' = [sink EXCEPT !.phase = "refused"]
        /\ Return("sink_error")
  /\ UNCHANGED <<pic, rows, row>>

CopyStep == Begin \/ Provide \/ CopyRow \/ DropBuffer \/ Finish

-----------------------------------------------------------------------------
(***************************************************************************)
(* Refinement: the session DecodeRowSink sees.  A sink whose decoder        *)
(* unwound is still open to its own knowledge, but its session is over.     *)
(***************************************************************************)
SessionPhase ==
  CASE sink.phase = "idle" -> "idle"
    [] sink.phase = "done" -> "done"
    [] sink.phase = "open" /\ pc \in CopySteps \ {"begin"} -> "open"
    [] OTHER -> "failed"

Lent == sink.strips * sink.announced

(* Rows written, counted from the top: a gap ends the count. *)
Filled == Cardinality({i \in DOMAIN sink.buf : \A j \in 1..i : sink.buf[j] # Stale})

Session == INSTANCE DecodeRowSink
             WITH phase <- SessionPhase, height <- sink.announced,
                  lent <- Lent, filled <- Filled
=============================================================================
