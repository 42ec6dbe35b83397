---------------------------- MODULE DecodeRowSink ----------------------------
(***************************************************************************)
(* The calls a decoder may make on a DecodeRowSink (src/src/sink.rs): a     *)
(* session is one begin, then strips handed out top to bottom, each fully   *)
(* written before the next is requested, then one finish.  A session the    *)
(* sink refuses, or the decoder gives up, is failed: it is never finished.  *)
(* A later session starts over with begin.                                  *)
(***************************************************************************)
EXTENDS Naturals

CONSTANT Heights                   (* row counts an image may have *)

VARIABLES phase,                   (* of the session: idle, open, done, failed *)
          height,                  (* rows announced by begin                  *)
          lent,                    (* rows handed out so far: the next y       *)
          filled                   (* rows written, from the top               *)

sinkVars == <<phase, height, lent, filled>>

SinkPhases == {"idle", "open", "done", "failed"}

SinkTypeOK ==
  /\ phase \in SinkPhases
  /\ height \in Heights \cup {0}
  /\ lent \in Nat
  /\ filled \in Nat

SinkInit == phase = "idle" /\ height = 0 /\ lent = 0 /\ filled = 0

(* begin(width, height, descriptor): accepted, or refused by the sink. *)
BeginSession(h) ==
  /\ phase # "open"
  /\ phase' \in {"open", "failed"}
  /\ height' = h
  /\ lent' = 0
  /\ filled' = 0

(* provide_next_buffer(y = lent, n, ..): only when what was lent is written. *)
LendStrip(n) ==
  /\ phase = "open"
  /\ filled = lent
  /\ n > 0
  /\ lent + n <= height
  /\ lent' = lent + n
  /\ UNCHANGED <<phase, height, filled>>

(* One row of the lent buffer is written, top to bottom. *)
FillRow ==
  /\ phase = "open"
  /\ filled < lent
  /\ filled' = filled + 1
  /\ UNCHANGED <<phase, height, lent>>

(* finish(): only when the whole image has been written. *)
FinishSession ==
  /\ phase = "open"
  /\ lent = height
  /\ filled = height
  /\ phase' = "done"
  /\ UNCHANGED <<height, lent, filled>>

(* The sink returned an error, or the decoder stopped or unwound. *)
FailSession ==
  /\ phase = "open"
  /\ phase' = "failed"
  /\ UNCHANGED <<height, lent, filled>>

SinkNext ==
  \/ \E h \in Heights : BeginSession(h)
  \/ \E n \in 1..height : LendStrip(n)
  \/ FillRow
  \/ FinishSession
  \/ FailSession

SinkSpec == SinkInit /\ [][SinkNext]_sinkVars
=============================================================================
