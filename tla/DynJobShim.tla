------------------------------ MODULE DynJobShim -----------------------------
(***************************************************************************)
(* The object-safe job: DecodeJobShim of src/src/traits/dyn_decoding.rs     *)
(* (EncodeJobShim of dyn_encoding.rs is the same cell).  The codec's job is *)
(* a builder whose with_* methods take it by value, so a set_* method takes *)
(* it out of an Option, calls with_*, and puts the result back.  If with_*  *)
(* panics in between, the Option stays empty: the shim outlives the panic,  *)
(* later setters do nothing and every other method reports a double take.   *)
(* An into_* method consumes the shim and moves the job into an executor.   *)
(***************************************************************************)
EXTENDS Naturals

CONSTANTS Settings,                (* what the set_* methods configure        *)
          Supported,               (* settings whose with_* the codec overrides; *)
                                   (* the trait default returns self unchanged *)
          Arguments,               (* setting -> values a caller may pass     *)
          Unset,                   (* a setting nobody has configured         *)
          NoJob                    (* the empty Option                        *)

Values == UNION {Arguments[s] : s \in Settings}
Jobs == [Settings -> Values \cup {Unset}]

ASSUME ShimAssumption ==
  /\ Supported \subseteq Settings
  /\ Unset \notin Values
  /\ NoJob \notin Jobs

VARIABLES slot,                    (* the shim's Option<J>                    *)
          box,                     (* the caller's Box<dyn Dyn..Job>          *)
          job,                     (* the job moved into an executor          *)
          last,                    (* how the last call ended                 *)
          requested                (* history: last value given to each set_* *)

shimVars == <<slot, box, job, last, requested>>

ShimTypeOK ==
  /\ slot \in Jobs \cup {NoJob}
  /\ box \in {"held", "consumed"}
  /\ job \in Jobs \cup {NoJob}
  /\ last \in {"ok", "panic", "double_take"}
  /\ requested \in Jobs

(* dyn_job(): DecodeJobShim(Some(self.clone().job())), nothing configured. *)
FreshJob == [s \in Settings |-> Unset]

ShimInit ==
  /\ slot = FreshJob
  /\ box = "held"
  /\ job = NoJob
  /\ last = "ok"
  /\ requested = FreshJob

(* Mutant of With: a value once set is not overridden. *)
WithFirstWins(j, s, v) ==
  IF s \in Supported /\ j[s] = Unset THEN [j EXCEPT ![s] = v] ELSE j

(* The codec's builder method: keeps the value, or is the default no-op. *)
With(j, s, v) == IF s \in Supported THEN [j EXCEPT ![s] = v] ELSE j

(* if let Ok(job) = self.take() { self.put(job.with_s(v)); } *)
Set(s, v) ==
  /\ box = "held"
  /\ requested' = [requested EXCEPT ![s] = v]
  /\ \/ /\ slot = NoJob                       (* take() is Err: ignored *)
        /\ last' = "ok"
        /\ UNCHANGED slot
     \/ /\ slot # NoJob
        /\ slot' = With(slot, s, v)
        /\ last' = "ok"
     \/ /\ slot # NoJob                       (* with_s panics, after take *)
        /\ slot' = NoJob
        /\ last' = "panic"
  /\ UNCHANGED <<box, job>>

(* probe, probe_full, output_info: self.as_ref()?.. *)
Inspect ==
  /\ box = "held"
  /\ last' = IF slot = NoJob THEN "double_take" ELSE "ok"
  /\ UNCHANGED <<slot, box, job, requested>>

(* into_* and push_decode: let job = self.take()?, then the codec's method. *)
Into ==
  /\ box = "held"
  /\ box' = "consumed"
  /\ job' = slot
  /\ slot' = NoJob
  /\ last' = IF slot = NoJob THEN "double_take" ELSE "ok"
  /\ UNCHANGED requested

SetSome == \E s \in Settings : \E v \in Arguments[s] : Set(s, v)

ShimNext == SetSome \/ Inspect \/ Into

ShimSpec == ShimInit /\ [][ShimNext]_shimVars

-----------------------------------------------------------------------------
(* The executor runs with exactly what the caller last asked for, each      *)
(* setting on its own, and with nothing the codec does not support: no      *)
(* setting is dropped by the take/put dance, not even around a panic.       *)
ExecutorGetsRequested ==
  job # NoJob => \A s \in Settings :
                   job[s] = IF s \in Supported THEN requested[s] ELSE Unset

(* A job lost to a panic stays lost: no later call revives it, configured   *)
(* or fresh, and the caller is told when it tries to run it.                *)
LostJobStaysLost ==
  [][box = "held" /\ slot = NoJob =>
       /\ slot' = NoJob
       /\ job' = NoJob
       /\ box' = "consumed" => last' = "double_take"]_shimVars
=============================================================================
