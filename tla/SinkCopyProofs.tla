---------------------------- MODULE SinkCopyProofs ---------------------------
(***************************************************************************)
(* Proofs about the row copy of SinkCopy, for pictures of any height: its   *)
(* invariant, and that each of its steps is a step of the session that      *)
(* DecodeRowSink specifies.  The modules that extend SinkCopy use both.     *)
(***************************************************************************)
EXTENDS SinkCopy, FiniteSetTheorems, TLAPS

(* The session is open, h rows were announced and n buffers lent. *)
OpenSink(h, n) == sink.phase = "open" /\ sink.announced = h /\ sink.strips = n

(* The first n rows of the lent buffer are the picture's, the rest untouched. *)
WrittenTo(n) ==
  /\ n <= Len(sink.buf)
  /\ Len(sink.buf) <= rows
  /\ \A i \in 1..n : sink.buf[i] = pic
  /\ \A i \in n + 1..Len(sink.buf) : sink.buf[i] = Stale

CopyInv ==
  /\ CopyTypeOK
  /\ pc = "begin" => row = 0
  /\ pc = "provide" => row = 0 /\ OpenSink(rows, 0) /\ sink.buf = <<>>
  /\ pc = "copy" => row <= rows /\ OpenSink(rows, 1) /\ WrittenTo(row)
  /\ pc = "finish" => row = rows /\ OpenSink(rows, 1) /\ WrittenTo(rows)

(* A fresh sink, and a copy that has not begun. *)
LEMMA CopyInitInv ==
  ASSUME NEW p \in Pictures, NEW h \in Heights, CopyInit(p, h), pc \notin CopySteps
  PROVE  CopyInv
BY DEF CopyInit, CopyInv, CopyTypeOK, SinkStates, NewSink, CopySteps

(* Turning to the sink with a picture establishes the invariant anew. *)
LEMMA StartCopyKeeps ==
  ASSUME CopyInv, NEW p \in Pictures, NEW h \in Heights, StartCopy(p, h)
  PROVE  CopyInv'
BY DEF StartCopy, CopyInv, CopyTypeOK

(* Steps outside the copy leave its variables alone, but for pc. *)
LEMMA OutsideKeeps ==
  ASSUME CopyInv, UNCHANGED <<pic, rows, row, sink>>, pc' \notin CopySteps
  PROVE  CopyInv'
BY DEF CopyInv, CopyTypeOK, CopySteps

(* What a lent buffer looks like: fit rows, none written. *)
LEMMA FreshBuffer ==
  ASSUME NEW fit \in Nat
  PROVE  /\ [i \in 1..fit |-> Stale] \in Seq(Pictures \cup {Stale})
         /\ Len([i \in 1..fit |-> Stale]) = fit
         /\ \A i \in 1..fit : [j \in 1..fit |-> Stale][i] = Stale
<1> DEFINE b == [i \in 1..fit |-> Stale]
<1>1. b \in Seq(Pictures \cup {Stale}) /\ Len(b) = fit
  OBVIOUS
<1>2. QED
  BY <1>1

(* Every call of the copy keeps the invariant, whatever the sink answers. *)
LEMMA CopyStepKeeps ==
  ASSUME CopyInv, CopyStep
  PROVE  CopyInv'
<1> USE DEF CopyInv, CopyTypeOK
<1>0. rows \in Nat /\ rows > 0 /\ row \in Nat
  BY SinkCopyAssumption
<1>1. CASE Begin
  <2>1. <<>> \in Seq(Pictures \cup {Stale}) /\ UNCHANGED <<pic, rows, row>> /\ row = 0
    BY <1>1 DEF Begin
  <2>2. CASE pc' = "provide"
    <3>1. sink' = [phase |-> "open", announced |-> rows, strips |-> 0, buf |-> <<>>]
      BY <1>1, <2>2 DEF Begin, Return
    <3>2. sink' \in SinkStates
      BY <2>1, <3>1 DEF SinkStates
    <3>3. QED
      BY <2>1, <2>2, <3>1, <3>2 DEF OpenSink
  <2>3. CASE pc' = "idle"
    <3>1. sink' = [phase |-> "refused", announced |-> rows, strips |-> 0, buf |-> <<>>]
      BY <1>1, <2>3 DEF Begin, Return, NewSink
    <3>2. sink' \in SinkStates
      BY <2>1, <3>1 DEF SinkStates
    <3>3. QED
      BY <2>1, <2>3, <3>2
  <2>4. QED
    BY <1>1, <2>2, <2>3 DEF Begin, Return
<1>2. CASE Provide
  <2>1. CASE pc' = "copy"
    <3>1. PICK fit \in 0..rows :
            sink' = [sink EXCEPT !.strips = @ + 1, !.buf = [i \in 1..fit |-> Stale]]
      BY <1>2, <2>1 DEF Provide, Return
    <3>2. fit \in Nat
      BY <1>0
    <3>3. sink \in SinkStates /\ OpenSink(rows, 0)
      BY <1>2 DEF Provide
    <3> DEFINE lent == [i \in 1..fit |-> Stale]
    <3>4. lent \in Seq(Pictures \cup {Stale})
      BY <3>2, FreshBuffer
    <3>5. /\ sink'.phase = "open" /\ sink'.announced = rows /\ sink'.strips = 1
          /\ sink'.buf = lent
      <4>1. sink' = [sink EXCEPT !.strips = @ + 1, !.buf = lent]
        BY <3>1
      <4> HIDE DEF lent
      <4>2. QED
        BY <3>3, <4>1 DEF OpenSink, SinkStates
    <3>6. sink' \in SinkStates
      <4>1. sink' = [sink EXCEPT !.strips = 1, !.buf = lent]
        BY <3>1, <3>3 DEF OpenSink
      <4> HIDE DEF lent
      <4>2. 1 \in Nat
        OBVIOUS
      <4>3. QED
        BY <3>3, <3>4, <4>1, <4>2 DEF SinkStates
    <3>7. Len(sink'.buf) = fit /\ \A i \in 1..fit : sink'.buf[i] = Stale
      BY <3>2, <3>5, FreshBuffer
    <3>8. row' = 0 /\ rows' = rows /\ pic' = pic
      BY <1>2 DEF Provide
    <3>9. OpenSink(rows, 1)' /\ WrittenTo(row)'
      BY <1>0, <3>5, <3>7, <3>8 DEF OpenSink, WrittenTo
    <3>10. QED
      BY <1>0, <2>1, <3>6, <3>8, <3>9
  <2>2. CASE pc' = "idle"
    BY <1>2, <2>2 DEF Provide, Return, SinkStates
  <2>3. QED
    BY <1>2, <2>1, <2>2 DEF Provide, Return
<1>3. CASE CopyRow
  <2>1. CASE row < Len(sink.buf)
    <3>1. sink' = [sink EXCEPT !.buf[row + 1] = pic] /\ row' = row + 1 /\ pc' = "copy"
          /\ UNCHANGED <<pic, rows>>
      BY <1>3, <2>1 DEF CopyRow
    <3>2. row < rows /\ OpenSink(rows, 1) /\ WrittenTo(row) /\ sink \in SinkStates
          /\ sink.buf \in Seq(Pictures \cup {Stale})
      BY <1>3 DEF CopyRow, SinkStates
    <3>3. row + 1 \in 1..Len(sink.buf) /\ Len(sink.buf) \in Nat
      BY <1>0, <2>1, <3>2
    <3>4. /\ sink'.buf = [sink.buf EXCEPT ![row + 1] = pic]
          /\ sink'.phase = sink.phase /\ sink'.announced = sink.announced
          /\ sink'.strips = sink.strips
      BY <3>1, <3>2 DEF SinkStates
    <3>5. /\ sink'.buf \in Seq(Pictures \cup {Stale})
          /\ Len(sink'.buf) = Len(sink.buf)
          /\ \A i \in 1..Len(sink.buf) :
               sink'.buf[i] = IF i = row + 1 THEN pic ELSE sink.buf[i]
      BY <3>2, <3>3, <3>4
    <3>6. sink' \in SinkStates
      BY <3>1, <3>2, <3>4, <3>5 DEF SinkStates
    <3>7. WrittenTo(row)'
      BY <1>0, <3>1, <3>2, <3>3, <3>5 DEF WrittenTo
    <3>8. QED
      BY <1>0, <3>1, <3>2, <3>4, <3>6, <3>7 DEF OpenSink
  <2>2. CASE ~(row < Len(sink.buf))
    BY <1>3, <2>2 DEF CopyRow, Return
  <2>3. QED
    BY <2>1, <2>2
<1>4. CASE DropBuffer
  BY <1>4 DEF DropBuffer, OpenSink, WrittenTo
<1>5. CASE Finish
  BY <1>5 DEF Finish, Return, SinkStates
<1>6. QED
  BY <1>1, <1>2, <1>3, <1>4, <1>5 DEF CopyStep

(* How a step of the copy ends: on with the same picture, or back to the     *)
(* caller with a result.                                                    *)
LEMMA CopyStepEnds ==
  ASSUME CopyInv, CopyStep, outcome = "running"
  PROVE  /\ pc \in CopySteps
         /\ UNCHANGED <<pic, rows>>
         /\ \/ pc' \in CopySteps \ {"begin"} /\ outcome' = "running"
            \/ pc' = "idle" /\ outcome' \in {"ok", "sink_error", "panic"}
<1>1. CASE Begin
  BY <1>1 DEF Begin, Return, CopySteps
<1>2. CASE Provide
  BY <1>2 DEF Provide, Return, CopySteps
<1>3. CASE CopyRow
  BY <1>3 DEF CopyRow, Return, CopySteps
<1>4. CASE DropBuffer
  BY <1>4 DEF DropBuffer, CopySteps
<1>5. CASE Finish
  BY <1>5 DEF Finish, Return, CopySteps
<1>6. QED
  BY <1>1, <1>2, <1>3, <1>4, <1>5 DEF CopyStep

(* The sink is finished exactly when the answer is Ok. *)
LEMMA CopyStepPhase ==
  ASSUME CopyInv, CopyStep, outcome = "running", pc = "begin" => sink.phase = "idle"
  PROVE  /\ outcome' = "ok" <=> sink'.phase = "done"
         /\ outcome' = "ok" => pc = "finish" /\ sink'.buf = sink.buf
<1> USE DEF CopyInv, CopyTypeOK, SinkStates, OpenSink
<1>1. CASE Begin
  <2>1. \/ sink'.phase = "open" /\ outcome' = outcome
        \/ sink'.phase = "refused" /\ outcome' = "sink_error"
    <3>1. CASE pc' = "provide"
      BY <1>1, <3>1 DEF Begin, Return
    <3>2. CASE pc' # "provide"
      <4>1. /\ sink' = [phase |-> "refused", announced |-> rows, strips |-> 0, buf |-> <<>>]
            /\ outcome' = "sink_error"
        BY <1>1, <3>2 DEF Begin, Return, NewSink
      <4>2. QED
        BY <4>1
    <3>3. QED
      BY <3>1, <3>2
  <2>2. QED
    BY <2>1
<1>2. CASE Provide
  <2>1. CASE pc' = "copy"
    <3>1. PICK fit \in 0..rows :
            sink' = [sink EXCEPT !.strips = @ + 1, !.buf = [i \in 1..fit |-> Stale]]
      BY <1>2, <2>1 DEF Provide, Return
    <3> DEFINE lent == [i \in 1..fit |-> Stale]
    <3>2. sink' = [sink EXCEPT !.strips = @ + 1, !.buf = lent]
      BY <3>1
    <3> HIDE DEF lent
    <3>3. sink'.phase = sink.phase
      BY <3>2
    <3>4. QED
      BY <1>2, <2>1, <3>3 DEF Provide, Return
  <2>2. CASE pc' # "copy"
    BY <1>2, <2>2 DEF Provide, Return
  <2>3. QED
    BY <2>1, <2>2
<1>3. CASE CopyRow
  BY <1>3 DEF CopyRow, Return
<1>4. CASE DropBuffer
  BY <1>4 DEF DropBuffer
<1>5. CASE Finish
  BY <1>5 DEF Finish, Return
<1>6. QED
  BY <1>1, <1>2, <1>3, <1>4, <1>5 DEF CopyStep

(* When finish is called every row of the buffer is the picture's. *)
LEMMA FinishedIsWhole ==
  ASSUME CopyInv, pc = "finish"
  PROVE  sink.buf = [i \in 1..rows |-> pic]
<1>1. rows \in Nat
  BY SinkCopyAssumption DEF CopyInv, CopyTypeOK
<1>2. sink.buf \in Seq(Pictures \cup {Stale})
  BY DEF CopyInv, CopyTypeOK, SinkStates
<1>3. Len(sink.buf) = rows /\ \A i \in 1..rows : sink.buf[i] = pic
  BY <1>1, <1>2 DEF CopyInv, WrittenTo
<1>4. QED
  BY <1>1, <1>2, <1>3

-----------------------------------------------------------------------------
(* A buffer none of whose rows was written counts no filled row; one written *)
(* to row n counts n.                                                       *)
LEMMA FilledRows ==
  ASSUME NEW n \in Nat, WrittenTo(n), sink.buf \in Seq(Pictures \cup {Stale}),
         pic \in Pictures
  PROVE  Filled = n
<1>1. Len(sink.buf) \in Nat /\ DOMAIN sink.buf = 1..Len(sink.buf) /\ n <= Len(sink.buf)
  BY DEF WrittenTo
<1>2. \A i \in 1..n : sink.buf[i] # Stale
  BY SinkCopyAssumption DEF WrittenTo
<1>3. n < Len(sink.buf) => sink.buf[n + 1] = Stale
  BY <1>1 DEF WrittenTo
<1>4. {i \in DOMAIN sink.buf : \A j \in 1..i : sink.buf[j] # Stale} = 1..n
  <2>1. ASSUME NEW i \in 1..n
        PROVE  i \in DOMAIN sink.buf /\ \A j \in 1..i : sink.buf[j] # Stale
    BY <1>1, <1>2, <2>1
  <2>2. ASSUME NEW i \in DOMAIN sink.buf, \A j \in 1..i : sink.buf[j] # Stale
        PROVE  i \in 1..n
    <3>1. CASE i > n
      <4>1. n + 1 \in 1..i /\ n < Len(sink.buf)
        BY <1>1, <2>2, <3>1
      <4>2. QED
        BY <1>3, <2>2, <4>1
    <3>2. QED
      BY <1>1, <2>2, <3>1
  <2>3. QED
    BY <2>1, <2>2
<1>5. Cardinality(1..n) = n
  <2>1. 1 \in Int /\ n \in Int
    OBVIOUS
  <2>2. Cardinality(1..n) = IF 1 > n THEN 0 ELSE n - 1 + 1
    BY <2>1, FS_Interval
  <2>3. QED
    BY <2>2
<1>6. QED
  BY <1>4, <1>5 DEF Filled

(* Nothing of an empty buffer is filled. *)
LEMMA NothingFilled ==
  ASSUME sink.buf = <<>>
  PROVE  Filled = 0
<1>1. {i \in DOMAIN sink.buf : \A j \in 1..i : sink.buf[j] # Stale} = {}
  OBVIOUS
<1>2. QED
  BY <1>1, FS_EmptySet DEF Filled

(* What the session looks like from outside while the copy is under way. *)
OpenView ==
  /\ SessionPhase = "open"
  /\ Lent = IF pc = "provide" THEN 0 ELSE rows
  /\ Filled = row
  /\ sink.announced = rows

Viewed == CopyInv /\ pc \in CopySteps \ {"begin"} => OpenView

(* An open session is seen by the sink as the copy stands. *)
LEMMA OpenSession == Viewed
<1> SUFFICES ASSUME CopyInv, pc \in CopySteps \ {"begin"}
             PROVE  OpenView
  BY DEF Viewed
<1>1. rows \in Nat /\ row \in Nat /\ pic \in Pictures
      /\ sink.buf \in Seq(Pictures \cup {Stale})
  BY SinkCopyAssumption DEF CopyInv, CopyTypeOK, SinkStates
<1>2. sink.phase = "open" /\ sink.announced = rows
      /\ sink.strips = IF pc = "provide" THEN 0 ELSE 1
  BY DEF CopyInv, CopySteps, OpenSink
<1>3. SessionPhase = "open"
  BY <1>2 DEF SessionPhase
<1>4. Lent = IF pc = "provide" THEN 0 ELSE rows
  BY <1>1, <1>2 DEF Lent
<1>5. Filled = row
  <2>1. CASE pc = "provide"
    BY <2>1, NothingFilled DEF CopyInv
  <2>2. CASE pc # "provide"
    <3>1. WrittenTo(row)
      BY <2>2 DEF CopyInv, CopySteps
    <3>2. QED
      BY <1>1, <3>1, FilledRows
  <2>3. QED
    BY <2>1, <2>2
<1>6. QED
  BY <1>2, <1>3, <1>4, <1>5 DEF OpenView

(* The same, of the next state. *)
LEMMA OpenSessionNext == Viewed'
BY OpenSession, PTL

(* An empty buffer, of the next state. *)
EmptyView == sink.buf = <<>> => Filled = 0

LEMMA NothingFilledNext == EmptyView'
<1>1. EmptyView
  BY NothingFilled DEF EmptyView
<1>2. QED
  BY <1>1, PTL

(* Each step of the copy is a step of the session, or none. *)
LEMMA CopyStepRefines ==
  ASSUME CopyInv, CopyStep, CopyInv'
  PROVE  [Session!SinkNext]_(Session!sinkVars)
<1>0. rows \in Heights /\ rows \in Nat /\ rows > 0 /\ row \in Nat /\ rows' = rows
  <2>1. rows \in Heights /\ row \in Nat
    BY DEF CopyInv, CopyTypeOK
  <2>2. rows' = rows
    BY DEF CopyStep, Begin, Provide, CopyRow, DropBuffer, Finish
  <2>3. QED
    BY <2>1, <2>2, SinkCopyAssumption
<1> USE DEF CopySteps
<1>1. CASE Begin
  <2>1. SessionPhase # "open"
    BY <1>1 DEF Begin, SessionPhase
  <2>2. /\ sink'.announced = rows /\ sink'.strips = 0 /\ sink'.buf = <<>>
        /\ \/ sink'.phase = "open" /\ pc' = "provide"
           \/ sink'.phase = "refused" /\ pc' = "idle"
    <3>1. CASE pc' = "provide"
      <4>1. sink' = [phase |-> "open", announced |-> rows, strips |-> 0, buf |-> <<>>]
        BY <1>1, <3>1 DEF Begin, Return
      <4>2. QED
        BY <3>1, <4>1
    <3>2. CASE pc' = "idle"
      <4>1. sink' = [phase |-> "refused", announced |-> rows, strips |-> 0, buf |-> <<>>]
        BY <1>1, <3>2 DEF Begin, Return, NewSink
      <4>2. QED
        BY <3>2, <4>1
    <3>3. QED
      BY <1>1, <3>1, <3>2 DEF Begin, Return
  <2>3. Lent' = 0 /\ Filled' = 0
    BY <1>0, <2>2, NothingFilledNext DEF Lent, EmptyView
  <2>4. SessionPhase' \in {"open", "failed"}
    BY <2>2 DEF SessionPhase
  <2>5. Session!BeginSession(rows)
    BY <2>1, <2>2, <2>3, <2>4 DEF Session!BeginSession
  <2>6. QED
    BY <1>0, <2>5 DEF Session!SinkNext
<1> DEFINE Gives == pc' = "idle" /\ sink'.phase \in {"open", "refused"}
                    /\ sink'.announced = sink.announced /\ sink'.strips = sink.strips
                    /\ sink'.buf = sink.buf
<1>2. ASSUME pc \in CopySteps \ {"begin"}, Gives
      PROVE  Session!SinkNext
  <2>1. SessionPhase = "open"
    BY <1>2, OpenSession DEF Viewed, OpenView
  <2>2. SessionPhase' = "failed"
    BY <1>2 DEF SessionPhase
  <2>3. Lent' = Lent /\ Filled' = Filled
    BY <1>2 DEF Lent, Filled
  <2>4. QED
    BY <1>2, <2>1, <2>2, <2>3 DEF Session!SinkNext, Session!FailSession
<1>3. CASE Provide
  <2>1. CASE pc' = "copy"
    <3>1. OpenView /\ OpenView'
      BY <1>3, <2>1, OpenSession, OpenSessionNext DEF Viewed, Provide
    <3>2. row = 0 /\ row' = row /\ pc = "provide"
      BY <1>3 DEF Provide, CopyInv
    <3>3. Session!LendStrip(rows)
      BY <1>0, <2>1, <3>1, <3>2 DEF OpenView, Session!LendStrip
    <3>4. QED
      BY <1>0, <3>1, <3>3 DEF OpenView, Session!SinkNext
  <2>2. CASE pc' # "copy"
    <3>1. Gives
      BY <1>3, <2>2 DEF Provide, Return, CopyInv, CopyTypeOK, SinkStates
    <3>2. QED
      BY <1>2, <1>3, <3>1 DEF Provide
  <2>3. QED
    BY <2>1, <2>2
<1>4. CASE CopyRow
  <2>1. CASE row < Len(sink.buf)
    <3>1. OpenView /\ OpenView'
      BY <1>4, <2>1, OpenSession, OpenSessionNext DEF Viewed, CopyRow
    <3>2. row < rows /\ row' = row + 1 /\ pc = "copy" /\ pc' = "copy"
      BY <1>4, <2>1 DEF CopyRow
    <3>3. Session!FillRow
      BY <1>0, <3>1, <3>2 DEF OpenView, Session!FillRow
    <3>4. QED
      BY <3>3 DEF Session!SinkNext
  <2>2. CASE ~(row < Len(sink.buf))
    <3>1. Gives
      BY <1>4, <2>2 DEF CopyRow, Return, CopyInv, OpenSink
    <3>2. QED
      BY <1>2, <1>4, <3>1 DEF CopyRow
  <2>3. QED
    BY <2>1, <2>2
<1>5. CASE DropBuffer
  <2>1. OpenView /\ OpenView' /\ pc = "copy" /\ pc' = "finish" /\ row' = row
    BY <1>5, OpenSession, OpenSessionNext DEF Viewed, DropBuffer
  <2>2. QED
    BY <1>0, <2>1 DEF OpenView, Session!sinkVars
<1>6. CASE Finish
  <2>1. OpenView /\ pc = "finish" /\ row = rows
    BY <1>6, OpenSession DEF Viewed, Finish, CopyInv
  <2>2. CASE sink' = [sink EXCEPT !.phase = "done"]
    <3>1. sink'.phase = "done" /\ sink'.announced = sink.announced
          /\ sink'.strips = sink.strips /\ sink'.buf = sink.buf
      BY <2>2 DEF CopyInv, CopyTypeOK, SinkStates
    <3>2. SessionPhase' = "done" /\ Lent' = Lent /\ Filled' = Filled
      BY <3>1 DEF SessionPhase, Lent, Filled
    <3>3. Session!FinishSession
      BY <2>1, <3>1, <3>2 DEF OpenView, Session!FinishSession
    <3>4. QED
      BY <3>3 DEF Session!SinkNext
  <2>3. CASE sink' = [sink EXCEPT !.phase = "refused"]
    <3>1. sink'.phase = "refused" /\ sink'.announced = sink.announced
          /\ sink'.strips = sink.strips /\ sink'.buf = sink.buf
      BY <2>3 DEF CopyInv, CopyTypeOK, SinkStates
    <3>2. Gives
      BY <1>6, <3>1 DEF Finish, Return
    <3>3. QED
      BY <1>2, <2>1, <3>2
  <2>4. QED
    BY <1>6, <2>2, <2>3 DEF Finish
<1>7. QED
  BY <1>1, <1>3, <1>4, <1>5, <1>6 DEF CopyStep

(* A step outside the copy, and the turn to the sink, leave the session be:  *)
(* one that was open to the sink is over already.                           *)
LEMMA OutsideRefines ==
  ASSUME sink' = sink, pc \notin CopySteps \ {"begin"}, pc' \notin CopySteps \ {"begin"}
  PROVE  UNCHANGED Session!sinkVars
BY DEF Session!sinkVars, SessionPhase, Lent, Filled
=============================================================================
