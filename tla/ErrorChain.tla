----------------------------- MODULE ErrorChain -----------------------------
(***************************************************************************)
(* Errors as what a caller can find in them (src/src/error.rs): the chain of *)
(* the error itself and what source() leads to, link by link.  A link has    *)
(* the type it can be downcast to and a value.  No error is the empty chain. *)
(***************************************************************************)
EXTENDS Sequences, SequencesExt, Option

Link(type, value) == [type |-> type, value |-> value]
Ok == <<>>

(* Mutant of find_cause: source() is not followed. *)
find_cause_outermost(err, type) ==
  IF err # <<>> /\ err[1].type = type THEN err[1].value ELSE None

(* The error itself, then its sources: the first of the type.                *)
find_cause(err, type) ==
  LET i == SelectInSeq(err, LAMBDA link : link.type = type)
  IN IF i = 0 THEN None ELSE err[i].value

(* CodecErrorExt *)
unsupported_operation(err) == find_cause(err, "UnsupportedOperation")
limit_exceeded(err) == find_cause(err, "LimitExceeded")

(* Mutant of boxed: the error's text is boxed. *)
boxed_text(err) == IF err = Ok THEN Ok ELSE <<Link("String", None)>>

(* map_err(|e| Box::new(e) as BoxedError): the box hands the whole chain on. *)
boxed(err) == err
=============================================================================
