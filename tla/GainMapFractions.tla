-------------------------- MODULE GainMapFractions --------------------------
(***************************************************************************)
(* How a gain map's f64 parameters become 32-bit fractions and back         *)
(* (src/src/gainmap.rs): a cast to f32, then continued fractions.  A float  *)
(* is a rational <<n, d>> in lowest terms, <<1, 0>> and <<-1, 0>> are the   *)
(* infinities and <<0, 0>> is NaN.  What f32 and f64 arithmetic returns is  *)
(* rounded to as many significant bits as the type has; the widths of the   *)
(* types are constants.                                                     *)
(***************************************************************************)
EXTENDS Integers, Option

CONSTANTS U32Max,        (* u32::MAX                                         *)
          I32Max,        (* i32::MAX                                         *)
          F32Bits,       (* bits of an f32 mantissa                          *)
          F64Bits,       (* bits of an f64 mantissa                          *)
          MAX_ITER       (* iterations of the continued fraction             *)

ASSUME WidthsAssumption ==
  /\ {U32Max, I32Max, F32Bits, F64Bits, MAX_ITER} \subseteq Nat \ {0}
  /\ I32Max < U32Max

-----------------------------------------------------------------------------
(* Rationals, and the two infinities                                        *)

gcd(n, d) ==
  LET common[p \in Nat \X (0..d)] ==
        IF p[2] = 0 THEN p[1] ELSE common[<<p[2], p[1] % p[2]>>]
  IN common[<<n, d>>]

Magnitude(n) == IF n < 0 THEN -n ELSE n

Ratio(n, d) == LET g == gcd(Magnitude(n), d) IN <<n \div g, d \div g>>

NaN == <<0, 0>>
Infinity == <<1, 0>>
IsFinite(v) == v[2] # 0
Float == {v \in Int \X Nat : v = NaN \/ gcd(Magnitude(v[1]), v[2]) = 1}
Less(v, w) == v[1] * w[2] < w[1] * v[2]
AtMost(v, w) == v = w \/ Less(v, w)
Abs(v) == <<Magnitude(v[1]), v[2]>>
Whole(n) == <<n, 1>>

(* f64::round: the nearest integer, halves away from zero (v >= 0 here).     *)
Round(v) == (2 * v[1] + v[2]) \div (2 * v[2])

(* f64::floor, for v >= 0.                                                   *)
Floor(v) == v[1] \div v[2]

(* How many bits a mantissa has, and how far exponents reach: for f32 well     *)
(* beyond what a u32 or its inverse needs, for f64 as far as any step of the   *)
(* conversion goes.                                                          *)
F32 == [bits |-> F32Bits, range |-> 5 * F32Bits]
F64 == [bits |-> F64Bits, range |-> F32.range + F64Bits]

pow2[e \in 0..F64.range] == IF e = 0 THEN 1 ELSE 2 * pow2[e - 1]

(* Two Fibonacci numbers, those of i and of i + 1.                          *)
NextPair(p) == <<p[2], p[1] + p[2]>>
fibonacci[i \in 0..MAX_ITER] == IF i = 0 THEN <<0, 1>> ELSE NextPair(fibonacci[i - 1])

(* An i32 has room for the mantissa of an f32, a u32 for six bits more, an     *)
(* f64 for a u32 and for twice the bits of an f32, and all are far from the ends *)
(* of an f32's range.  Continued fractions of a mantissa end in time: with so  *)
(* many turns they are as large as Fibonacci numbers.                        *)
ASSUME MantissaAssumption ==
  /\ F32Bits >= 3 /\ 2 * F32Bits + 4 <= F64Bits
  /\ pow2[F32Bits] <= I32Max /\ U32Max <= 2 * I32Max + 1
  /\ 64 * pow2[F32Bits] <= U32Max + 1
  /\ U32Max < pow2[4 * F32Bits] /\ U32Max < pow2[F64Bits]
  /\ pow2[F32Bits] < fibonacci[MAX_ITER][1]

(* m * 2^e <= v, for v > 0.                                                  *)
Reaches(v, m, e) ==
  IF e >= 0 THEN pow2[e] <= v[1] \div (m * v[2]) ELSE (m * v[2] - 1) \div v[1] < pow2[-e]

(* The exponent with which v has all the significant bits; there is none if  *)
(* v is too large or too small.                                              *)
Exponents(v, type) ==
  {e \in (-type.range)..type.range :
     Reaches(v, pow2[type.bits - 1], e) /\ ~Reaches(v, pow2[type.bits], e)}

Scaled(v, e) == IF e >= 0 THEN <<v[1], v[2] * pow2[e]>> ELSE <<v[1] * pow2[-e], v[2]>>

(* The nearest integer, halves to even.                                      *)
Nearest(v) ==
  LET q == v[1] \div v[2]
      rest == 2 * (v[1] % v[2])
  IN IF rest > v[2] \/ (rest = v[2] /\ q % 2 = 1) THEN q + 1 ELSE q

(* A value rounded to an integer with the exponent.                          *)
WithExponent(v, e) ==
  LET m == Nearest(Scaled(v, e))
  IN IF e >= 0 THEN Whole(m * pow2[e]) ELSE Ratio(m, pow2[-e])

(* What a type holds of a quotient v >= 0 in any terms.                       *)
Rounded(v, type) ==
  IF ~IsFinite(v) THEN v
  ELSE IF v[1] = 0 THEN Whole(0)
  ELSE IF Exponents(v, type) = {} THEN IF v[1] < v[2] THEN Whole(0) ELSE Infinity
  ELSE WithExponent(v, CHOOSE e \in Exponents(v, type) : TRUE)

(* `v as f32` for v >= 0, and the f64 nearest to a quotient.                 *)
AsF32(v) == Rounded(v, F32)
AsF64(v) == Rounded(v, F64)

-----------------------------------------------------------------------------
(* float_to_unsigned_fraction                                               *)

Failed == [ok |-> FALSE]
Converted(n, d) == [ok |-> TRUE, numerator |-> n, denominator |-> d]

ASSUME NoneAssumption ==
  None \notin {Failed} \cup [ok : {TRUE}, numerator : Nat, denominator : Nat]

(* The largest denominator the search may use.                              *)
MaxDenominator(v, max) ==
  IF ~Less(Whole(1), v) THEN U32Max ELSE Floor(AsF64(<<max * v[2], v[1]>>))

(* One turn of the loop: the nearest numerator for the denominator; unless   *)
(* that seems to be exact, the denominator of the next convergent if there is *)
(* one (1/0 is infinite) that is small enough.  That sum alone is not rounded: *)
(* an f64 holds every u32, and what is above them is so when rounded, too.    *)
TurnWith(v, max, t, num_double, inverse) ==
  LET n == Round(num_double)
      new_d == t.previous_d + Floor(inverse) * t.d
  IN IF Less(Whole(max), num_double) THEN [t EXCEPT !.answer = Failed]
     ELSE IF num_double = Whole(n) \/ inverse[2] = 0 \/ new_d > MaxDenominator(v, max)
          THEN [t EXCEPT !.answer = Converted(n, t.d)]
     ELSE [t EXCEPT !.d = new_d, !.previous_d = t.d,
                    !.current_v = <<inverse[1] % inverse[2], inverse[2]>>]

Turn(v, max, t) ==
  IF t.answer # None THEN t
  ELSE TurnWith(v, max, t, AsF64(<<t.d * v[1], v[2]>>),
                AsF64(<<t.current_v[2], t.current_v[1]>>))

(* The answer; when the turns are used up, the nearest numerator for the last *)
(* denominator.                                                             *)
Outcome(v, t) ==
  IF t.answer # None THEN t.answer ELSE Converted(Round(AsF64(<<t.d * v[1], v[2]>>)), t.d)

float_to_unsigned_fraction(v, max) ==
  LET turns[i \in 0..MAX_ITER] ==
        IF i = 0 THEN [d |-> 1, previous_d |-> 0, current_v |-> <<v[1] % v[2], v[2]>>,
                       answer |-> None]
        ELSE Turn(v, max, turns[i - 1])
  IN IF v = NaN \/ Less(Whole(max), v) THEN Failed ELSE Outcome(v, turns[MAX_ITER])

(* Mutant of Zero: what Default gives both fields. *)
DefaultFraction == [numerator |-> 0, denominator |-> 0]

Zero == [numerator |-> 0, denominator |-> 1]

(* What was found, with its sign.                                           *)
WithSign(f, negative) ==
  IF ~f.ok THEN Zero
  ELSE [numerator |-> IF negative THEN -f.numerator ELSE f.numerator,
        denominator |-> f.denominator]

(* Mutant of SignedFraction: the sign is not put back. *)
UnsignedMagnitude(v) == WithSign(float_to_unsigned_fraction(AsF32(Abs(v)), I32Max), FALSE)

(* Fraction::from_f64_cf: the magnitude is converted, then signed.           *)
SignedFraction(v) == WithSign(float_to_unsigned_fraction(AsF32(Abs(v)), I32Max), v[1] < 0)

(* Mutant of UnsignedFraction: the range of the signed fraction. *)
UnsignedFractionOfI32(v) ==
  WithSign(float_to_unsigned_fraction(IF v[1] <= 0 THEN Whole(0) ELSE AsF32(v), I32Max), FALSE)

(* UFraction::from_f64_cf: f64::max(NaN, 0.0) is 0.0, as for a negative.     *)
UnsignedFraction(v) ==
  WithSign(float_to_unsigned_fraction(IF v[1] <= 0 THEN Whole(0) ELSE AsF32(v), U32Max), FALSE)

(* Fraction::to_f64, UFraction::to_f64 *)
ToF64(f) ==
  LET magnitude == AsF64(<<Magnitude(f.numerator), f.denominator>>)
  IN IF f.denominator = 0 THEN Whole(0)
     ELSE <<IF f.numerator < 0 THEN -magnitude[1] ELSE magnitude[1], magnitude[2]>>
=============================================================================
