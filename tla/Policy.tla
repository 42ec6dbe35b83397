------------------------------- MODULE Policy -------------------------------
(***************************************************************************)
(* What a job allows a codec to do (src/src/policy.rs): a policy maps the     *)
(* features it says something about to whether they are allowed.  An         *)
(* Option<bool> that is None is a feature outside the policy's domain.       *)
(***************************************************************************)
DecodeFeatures ==
  {"allow_icc", "allow_exif", "allow_xmp", "allow_progressive", "allow_animation",
   "allow_truncated", "strict"}
EncodeFeatures == {"embed_icc", "embed_exif", "embed_xmp"}

PoliciesOver(features) == UNION {[set -> BOOLEAN] : set \in SUBSET features}
DecodePolicy == PoliciesOver(DecodeFeatures)
EncodePolicy == PoliciesOver(EncodeFeatures)

(* The named levels. *)
none == [feature \in {} |-> FALSE]
strict == [feature \in DecodeFeatures |-> feature = "strict"]
permissive == [feature \in DecodeFeatures |-> feature # "strict"]
strip_all == [feature \in EncodeFeatures |-> FALSE]
preserve_all == [feature \in EncodeFeatures |-> TRUE]

(* DecodePolicy::with_*: override one flag.                                  *)
Override(policy, feature, v) ==
  [f \in DOMAIN policy \cup {feature} |-> IF f = feature THEN v ELSE policy[f]]

(* EncodePolicy::with_embed_* *)
OverrideEmbed(policy, feature, v) == Override(policy, feature, v)

(* resolve_*: an explicit flag wins over the codec's default.                *)
resolve(policy, feature, default) ==
  IF feature \in DOMAIN policy THEN policy[feature] ELSE default

(* EncodePolicy::resolve_* *)
resolve_embed(policy, feature, default) == resolve(policy, feature, default)
=============================================================================
