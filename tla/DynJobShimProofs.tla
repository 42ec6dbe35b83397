--------------------------- MODULE DynJobShimProofs --------------------------
(***************************************************************************)
(* Proofs about DynJobShim, for any settings, any values and any choice of  *)
(* what the codec supports.                                                 *)
(***************************************************************************)
EXTENDS DynJobShim, TLAPS

(* What the shim's job, if it still has one, holds: the executor's property *)
(* is inductive only together with the same fact about the slot, and with   *)
(* the fact that a job is given out only when the box is consumed.          *)
Faithful(j) ==
  j # NoJob => \A s \in Settings :
                 j[s] = IF s \in Supported THEN requested[s] ELSE Unset

ShimInv ==
  /\ ShimTypeOK
  /\ Faithful(slot)
  /\ Faithful(job)
  /\ box = "held" => job = NoJob
  /\ box = "consumed" => slot = NoJob

(* With changes one supported setting of a job to a value it may have. *)
LEMMA WithType ==
  ASSUME NEW j \in Jobs, NEW s \in Settings, NEW v \in Arguments[s]
  PROVE  /\ With(j, s, v) \in Jobs
         /\ \A r \in Settings :
              With(j, s, v)[r] = IF r = s /\ s \in Supported THEN v ELSE j[r]
<1>1. v \in Values
  BY DEF Values
<1>2. CASE s \in Supported
  BY <1>1, <1>2 DEF With, Jobs
<1>3. CASE s \notin Supported
  BY <1>3 DEF With
<1>4. QED
  BY <1>2, <1>3

(* Each set_* call keeps the shim faithful, also when with_* panics. *)
LEMMA SetKeeps ==
  ASSUME ShimInv, NEW s \in Settings, NEW v \in Arguments[s], Set(s, v)
  PROVE  ShimInv'
<1>1. v \in Values
  BY DEF Values
<1>2. /\ requested' = [requested EXCEPT ![s] = v] /\ requested \in Jobs
      /\ requested' \in Jobs
  BY <1>1 DEF Set, ShimInv, ShimTypeOK, Jobs
<1>3. box = "held" /\ box' = box /\ job' = job /\ job = NoJob
  BY DEF Set, ShimInv
<1>4. slot' \in Jobs \cup {NoJob} /\ last' \in {"ok", "panic", "double_take"}
  BY WithType DEF Set, ShimInv, ShimTypeOK
<1>5. Faithful(slot)'
  <2>1. CASE slot' = NoJob
    BY <2>1 DEF Faithful
  <2>2. CASE slot' # NoJob
    <3>1. slot # NoJob /\ slot \in Jobs /\ slot' = With(slot, s, v)
      BY <2>2 DEF Set, ShimInv, ShimTypeOK
    <3>2. \A r \in Settings : slot'[r] = IF r = s /\ s \in Supported THEN v ELSE slot[r]
      BY <3>1, WithType
    <3>3. \A r \in Settings : requested'[r] = IF r = s THEN v ELSE requested[r]
      BY <1>2 DEF Jobs
    <3>4. \A r \in Settings : slot[r] = IF r \in Supported THEN requested[r] ELSE Unset
      BY <3>1 DEF ShimInv, Faithful
    <3>5. QED
      BY <3>2, <3>3, <3>4 DEF Faithful
  <2>3. QED
    BY <2>1, <2>2
<1>6. QED
  BY <1>2, <1>3, <1>4, <1>5 DEF ShimInv, ShimTypeOK, Faithful

(* Nothing is configured or given out to begin with. *)
LEMMA ShimInitInv == ShimInit => ShimInv
<1>1. FreshJob \in Jobs /\ \A s \in Settings : FreshJob[s] = Unset
  BY DEF FreshJob, Jobs
<1>2. QED
  BY <1>1 DEF ShimInit, ShimInv, ShimTypeOK, Faithful

(* ShimInv is inductive. *)
LEMMA ShimStepKeeps ==
  ASSUME ShimInv, [ShimNext]_shimVars
  PROVE  ShimInv'
<1>1. CASE SetSome
  BY <1>1, SetKeeps DEF SetSome
<1>2. CASE Inspect
  BY <1>2 DEF Inspect, ShimInv, ShimTypeOK, Faithful
<1>3. CASE Into
  BY <1>3 DEF Into, ShimInv, ShimTypeOK, Faithful
<1>4. CASE UNCHANGED shimVars
  BY <1>4 DEF shimVars, ShimInv, ShimTypeOK, Faithful
<1>5. QED
  BY <1>1, <1>2, <1>3, <1>4 DEF ShimNext

(* The shim's invariants hold together, in every state. *)
LEMMA ShimInvariance == ShimSpec => []ShimInv
<1>1. ShimInv /\ [ShimNext]_shimVars => ShimInv'
  BY ShimStepKeeps
<1>2. QED
  BY <1>1, ShimInitInv, PTL DEF ShimSpec

(* The shim's cell, box and executor always hold what their types say. *)
THEOREM ShimTypeCorrect == ShimSpec => []ShimTypeOK
<1>1. ShimInv => ShimTypeOK
  BY DEF ShimInv
<1>2. QED
  BY <1>1, ShimInvariance, PTL

(* For every codec and every sequence of set_* calls, panics included: the  *)
(* executor gets the last value of each setting the codec supports, and no  *)
(* value of a setting it does not.                                          *)
THEOREM ExecutorFaithful == ShimSpec => []ExecutorGetsRequested
<1>1. ShimInv => ExecutorGetsRequested
  BY DEF ShimInv, Faithful, ExecutorGetsRequested
<1>2. QED
  BY <1>1, ShimInvariance, PTL

(* A job lost to a panicking with_* is never replaced: the next into_* call *)
(* reports the double take and makes no executor.                           *)
THEOREM LostForGood == ShimSpec => LostJobStaysLost
<1> DEFINE Lost == box = "held" /\ slot = NoJob =>
                     /\ slot' = NoJob
                     /\ job' = NoJob
                     /\ box' = "consumed" => last' = "double_take"
<1>1. ASSUME ShimInv, [ShimNext]_shimVars
      PROVE  [Lost]_shimVars
  <2> SUFFICES ASSUME ShimNext, box = "held", slot = NoJob
               PROVE  /\ slot' = NoJob
                      /\ job' = NoJob
                      /\ box' = "consumed" => last' = "double_take"
    BY <1>1
  <2>1. job = NoJob
    BY <1>1 DEF ShimInv
  <2>2. CASE SetSome
    BY <2>1, <2>2 DEF SetSome, Set
  <2>3. CASE Inspect
    BY <2>1, <2>3 DEF Inspect
  <2>4. CASE Into
    BY <2>4 DEF Into
  <2>5. QED
    BY <2>2, <2>3, <2>4 DEF ShimNext
<1>2. QED
  BY <1>1, ShimInvariance, PTL DEF ShimSpec, LostJobStaysLost
=============================================================================
