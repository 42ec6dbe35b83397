---------------------------- MODULE GainMapProofs ----------------------------
(**************************************************************************)
(* Proofs about gain maps: GainMapFractions and GainMapIso21496, for any   *)
(* parameters, files of other writers, ways to receive a file, and widths of*)
(* the integers and floats that are to each other as the code's are.       *)
(**************************************************************************)
EXTENDS GainMapIso21496, WellFoundedInduction, SequenceTheorems, FiniteSetTheorems,
        TLAPS

-----------------------------------------------------------------------------
(* GainMapFractions                                                          *)

(* Of some natural numbers there is a least. *)
LEMMA LeastExists ==
  ASSUME NEW S \in SUBSET Nat, S # {}
  PROVE  \E i \in S : \A j \in S : i <= j
<1>1. PICK i \in S : \A j \in S : ~(<<j, i>> \in OpToRel(<, Nat))
  BY NatLessThanWellFounded, WFMin
<1>2. \A j \in S : ~(j < i)
  <2> SUFFICES ASSUME NEW j \in S, j < i PROVE FALSE
    OBVIOUS
  <2>1. <<j, i>> \in OpToRel(<, Nat)
    BY Zenon DEF OpToRel
  <2>2. QED
    BY <1>1, <2>1
<1>3. \A j \in S : i <= j
  BY <1>2
<1>4. QED
  BY <1>3

(* Division of natural numbers. *)
LEMMA Division ==
  ASSUME NEW a \in Nat, NEW b \in Nat \ {0}
  PROVE  /\ a \div b \in Nat /\ (a % b) \in 0..(b - 1)
         /\ a = b * (a \div b) + (a % b)
         /\ \A c \in Nat : a <= b * c => a \div b <= c
<1>1. a \div b \in Nat /\ (a % b) \in 0..(b - 1) /\ a = b * (a \div b) + (a % b)
  OBVIOUS
<1> DEFINE q == a \div b
           r == a % b
<1>2. q \in Nat /\ r \in Nat /\ a = b * q + r
  BY <1>1
<1> HIDE DEF q, r
<1>3. ASSUME NEW c \in Nat, a <= b * c, ~(q <= c) PROVE FALSE
  <2>1. q - c \in Nat /\ q - c >= 1 /\ q = c + (q - c)
    BY <1>2, <1>3
  <2>2. PICK e \in Nat : e >= 1 /\ q = c + e
    BY <2>1
  <2>3. b * q = b * c + b * e
    BY <2>2
  <2>4. b * e >= b
    BY <2>2
  <2>5. QED
    BY <1>2, <1>3, <2>3, <2>4
<1>4. QED
  BY <1>1, <1>2, <1>3 DEF q

(* Euclid's algorithm is a function: of the second numbers it is none for,    *)
(* the least would extend the function for the number before it.             *)
Common(f, n) ==
  f = [p \in Nat \X (0..n) |-> IF p[2] = 0 THEN p[1] ELSE f[<<p[2], p[1] % p[2]>>]]

(* There is such a function for every second number. *)
LEMMA CommonExists == \A n \in Nat : \E f : Common(f, n)
<1> DEFINE Lacking == {n \in Nat : ~\E f : Common(f, n)}
<1>1. \E f : Common(f, 0)
  <2> DEFINE g == [p \in Nat \X (0..0) |-> p[1]]
  <2>1. g = [p \in Nat \X (0..0) |-> IF p[2] = 0 THEN p[1] ELSE g[<<p[2], p[1] % p[2]>>]]
    OBVIOUS
  <2>2. QED
    BY <2>1 DEF Common
<1>2. ASSUME NEW n \in Nat \ {0}, NEW f, Common(f, n - 1)
      PROVE  \E g : Common(g, n)
  <2> DEFINE g == [p \in Nat \X (0..n) |->
                     IF p[2] = n THEN f[<<n, p[1] % n>>] ELSE f[p]]
  <2>1. DOMAIN g = Nat \X (0..n) /\ g = [p \in DOMAIN g |-> g[p]]
    OBVIOUS
  <2>2. \A p \in Nat \X (0..n) : g[p] = IF p[2] = n THEN f[<<n, p[1] % n>>] ELSE f[p]
    OBVIOUS
  <2>3. \A p \in Nat \X (0..(n - 1)) :
          f[p] = IF p[2] = 0 THEN p[1] ELSE f[<<p[2], p[1] % p[2]>>]
    BY <1>2 DEF Common
  <2> HIDE DEF g
  <2>4. ASSUME NEW p \in Nat \X (0..n)
        PROVE  g[p] = IF p[2] = 0 THEN p[1] ELSE g[<<p[2], p[1] % p[2]>>]
    <3>1. p[1] \in Nat /\ p[2] \in 0..n /\ p = <<p[1], p[2]>>
      OBVIOUS
    <3>2. CASE p[2] = 0
      <4>1. p \in Nat \X (0..(n - 1)) /\ p[2] # n
        BY <3>1, <3>2
      <4>2. QED
        BY <2>2, <2>3, <3>2, <4>1
    <3>3. CASE p[2] # 0
      <4> DEFINE rest == p[1] % p[2]
                 next == <<p[2], rest>>
      <4>1. rest \in 0..(p[2] - 1)
        <5>1. p[1] \in Nat /\ p[2] \in Nat \ {0}
          BY <3>1, <3>3
        <5>2. QED
          BY <5>1, Division
      <4> HIDE DEF rest
      <4>2. next \in Nat \X (0..n) /\ next \in Nat \X (0..(n - 1)) /\ next[2] # n
        BY <3>1, <4>1
      <4>3. g[next] = f[next]
        BY <2>2, <4>2
      <4>4. g[p] = f[next]
        <5>1. CASE p[2] = n
          BY <2>2, <3>1, <5>1 DEF rest
        <5>2. CASE p[2] # n
          <6>1. p \in Nat \X (0..(n - 1))
            BY <3>1, <5>2
          <6>2. f[p] = f[next]
            BY <2>3, <3>3, <6>1 DEF rest
          <6>3. QED
            BY <2>2, <5>2, <6>2
        <5>3. QED
          BY <5>1, <5>2
      <4>5. QED
        BY <3>3, <4>3, <4>4 DEF rest
    <3>4. QED
      BY <3>2, <3>3
  <2>5. g = [p \in Nat \X (0..n) |-> IF p[2] = 0 THEN p[1] ELSE g[<<p[2], p[1] % p[2]>>]]
    BY <2>1, <2>4
  <2>6. QED
    BY <2>5 DEF Common
<1>3. SUFFICES ASSUME Lacking # {} PROVE FALSE
  OBVIOUS
<1>4. PICK n \in Lacking : \A j \in Lacking : n <= j
  BY <1>3, LeastExists
<1>5. n # 0 /\ \E f : Common(f, n - 1)
  <2>1. n # 0
    BY <1>1, <1>4
  <2>2. n - 1 \in Nat /\ n - 1 \notin Lacking
    BY <1>4, <2>1
  <2>3. QED
    BY <2>1, <2>2
<1>6. QED
  BY <1>2, <1>4, <1>5

(* A common divisor is positive, so there are lowest terms.                  *)
LEMMA GcdPositive ==
  ASSUME NEW a \in Nat, NEW b \in Nat \ {0}
  PROVE  gcd(a, b) \in Nat \ {0}
<1> DEFINE f == CHOOSE f : Common(f, b)
<1>1. Common(f, b)
  BY CommonExists
<1>2. gcd(a, b) = f[<<a, b>>]
  BY DEF gcd, Common
<1> HIDE DEF f
<1>3. \A x \in Nat, y \in 0..b : f[<<x, y>>] = IF y = 0 THEN x ELSE f[<<y, x % y>>]
  <2> SUFFICES ASSUME NEW x \in Nat, NEW y \in 0..b
               PROVE  f[<<x, y>>] = IF y = 0 THEN x ELSE f[<<y, x % y>>]
    OBVIOUS
  <2> DEFINE p == <<x, y>>
  <2>1. p \in Nat \X (0..b) /\ p[1] = x /\ p[2] = y
    OBVIOUS
  <2>2. f[p] = IF p[2] = 0 THEN p[1] ELSE f[<<p[2], p[1] % p[2]>>]
    BY <1>1, <2>1 DEF Common
  <2>3. QED
    BY <2>1, <2>2
<1> DEFINE Bad == {y \in 0..b : \E x \in Nat : (x # 0 \/ y # 0) /\ f[<<x, y>>] \notin Nat \ {0}}
<1>4. ASSUME Bad # {} PROVE FALSE
  <2>1. Bad \in SUBSET Nat
    OBVIOUS
  <2> HIDE DEF Bad
  <2>2. PICK y \in Bad : \A j \in Bad : y <= j
    BY <1>4, <2>1, LeastExists
  <2> USE DEF Bad
  <2>3. y \in 0..b
    BY <2>2
  <2>4. PICK x \in Nat : (x # 0 \/ y # 0) /\ f[<<x, y>>] \notin Nat \ {0}
    BY <2>2
  <2>5. f[<<x, y>>] = IF y = 0 THEN x ELSE f[<<y, x % y>>]
    BY <1>3, <2>3
  <2>6. y # 0 /\ y \in Nat /\ y <= b
    BY <2>3, <2>4, <2>5
  <2>7. (x % y) \in 0..(y - 1)
    BY <2>6, Division
  <2>8. (x % y) \notin Bad /\ (x % y) \in 0..b
    BY <2>2, <2>6, <2>7
  <2>9. f[<<y, x % y>>] \in Nat \ {0}
    BY <2>6, <2>8
  <2>10. QED
    BY <2>4, <2>5, <2>6, <2>9
<1>5. b \notin Bad /\ b \in 0..b
  <2>1. b \in 0..b
    OBVIOUS
  <2> HIDE DEF Bad
  <2>2. QED
    BY <1>4, <2>1
<1>6. QED
  BY <1>2, <1>5

(* A quotient in lowest terms. *)
LEMMA RatioType ==
  ASSUME NEW n \in Int, NEW d \in Nat \ {0}
  PROVE  /\ Ratio(n, d) \in Int \X Nat
         /\ n \in Nat => Ratio(n, d) \in Nat \X Nat
<1>1. Magnitude(n) \in Nat
  BY DEF Magnitude
<1> DEFINE g == gcd(Magnitude(n), d)
<1>2. g \in Nat \ {0}
  BY <1>1, GcdPositive
<1>3. Ratio(n, d) = <<n \div g, d \div g>>
  BY DEF Ratio
<1> HIDE DEF g
<1>4. n \div g \in Int /\ (n \in Nat => n \div g \in Nat) /\ d \div g \in Nat
  BY <1>2
<1>5. QED
  BY <1>3, <1>4

(* The powers of two are a function: of the lengths it is none for, the least *)
(* would extend the function of one length less.                             *)
Powers(f, n) == f = [e \in 0..n |-> IF e = 0 THEN 1 ELSE 2 * f[e - 1]]

(* There is such a function of every length. *)
LEMMA PowersExist == \A n \in Nat : \E f : Powers(f, n)
<1> DEFINE Lacking == {n \in Nat : ~\E f : Powers(f, n)}
<1>1. \E f : Powers(f, 0)
  <2> DEFINE g == [e \in 0..0 |-> 1]
  <2>1. g = [e \in 0..0 |-> IF e = 0 THEN 1 ELSE 2 * g[e - 1]]
    OBVIOUS
  <2>2. QED
    BY <2>1 DEF Powers
<1>2. ASSUME NEW n \in Nat \ {0}, NEW f, Powers(f, n - 1)
      PROVE  \E g : Powers(g, n)
  <2> DEFINE g == [e \in 0..n |-> IF e = n THEN 2 * f[n - 1] ELSE f[e]]
  <2>1. DOMAIN g = 0..n /\ g = [e \in DOMAIN g |-> g[e]]
    OBVIOUS
  <2>2. \A e \in 0..n : g[e] = IF e = n THEN 2 * f[n - 1] ELSE f[e]
    OBVIOUS
  <2>3. \A e \in 0..(n - 1) : f[e] = IF e = 0 THEN 1 ELSE 2 * f[e - 1]
    BY <1>2 DEF Powers
  <2> HIDE DEF g
  <2>4. ASSUME NEW e \in 0..n PROVE g[e] = IF e = 0 THEN 1 ELSE 2 * g[e - 1]
    <3>1. e # 0 => e - 1 \in 0..n /\ e - 1 # n
      OBVIOUS
    <3>2. e # 0 => g[e - 1] = f[e - 1]
      BY <2>2, <3>1
    <3>3. CASE e = n
      BY <2>2, <3>2, <3>3
    <3>4. CASE e # n
      <4>1. e \in 0..(n - 1)
        BY <3>4
      <4>2. QED
        BY <2>2, <2>3, <3>2, <3>4, <4>1
    <3>5. QED
      BY <3>3, <3>4
  <2>5. g = [e \in 0..n |-> IF e = 0 THEN 1 ELSE 2 * g[e - 1]]
    BY <2>1, <2>4
  <2>6. QED
    BY <2>5 DEF Powers
<1>3. SUFFICES ASSUME Lacking # {} PROVE FALSE
  OBVIOUS
<1>4. PICK n \in Lacking : \A j \in Lacking : n <= j
  BY <1>3, LeastExists
<1>5. n # 0 /\ \E f : Powers(f, n - 1)
  <2>1. n # 0
    BY <1>1, <1>4
  <2>2. n - 1 \in Nat /\ n - 1 \notin Lacking
    BY <1>4, <2>1
  <2>3. QED
    BY <2>1, <2>2
<1>6. QED
  BY <1>2, <1>4, <1>5

(* The largest exponent of a power of two. *)
MaxExponent == F64.range

(* A power of two is a positive number. *)
LEMMA PowerPositive ==
  ASSUME NEW e \in 0..MaxExponent
  PROVE  pow2[e] \in Nat \ {0}
<1>1. MaxExponent \in Nat
  BY WidthsAssumption DEF MaxExponent, F32, F64
<1>2. Powers(pow2, MaxExponent)
  <2>1. pow2 = CHOOSE f : Powers(f, MaxExponent)
    BY DEF pow2, Powers, MaxExponent
  <2>2. \E f : Powers(f, MaxExponent)
    BY <1>1, PowersExist
  <2>3. QED
    BY <2>1, <2>2
<1>3. \A x \in 0..MaxExponent : pow2[x] = IF x = 0 THEN 1 ELSE 2 * pow2[x - 1]
  BY <1>2 DEF Powers
<1> DEFINE Bad == {x \in 0..MaxExponent : pow2[x] \notin Nat \ {0}}
<1>4. Bad \in SUBSET Nat
  BY <1>1
<1>5. ASSUME Bad # {} PROVE FALSE
  <2> HIDE DEF Bad
  <2>1. PICK x \in Bad : \A j \in Bad : x <= j
    BY <1>4, <1>5, LeastExists
  <2> USE DEF Bad
  <2>2. x \in 0..MaxExponent /\ pow2[x] \notin Nat \ {0}
    BY <2>1
  <2>3. x # 0
    BY <1>3, <2>2
  <2>4. x - 1 \in 0..MaxExponent /\ x - 1 \notin Bad
    BY <1>1, <2>1, <2>2, <2>3
  <2>5. pow2[x - 1] \in Nat \ {0} /\ pow2[x] = 2 * pow2[x - 1]
    BY <1>3, <2>2, <2>3, <2>4
  <2>6. QED
    BY <2>2, <2>5
<1>6. QED
  BY <1>5

(* Euclid's functions of two lengths agree where both are defined.           *)
LEMMA CommonUnique ==
  ASSUME NEW m \in Nat, NEW n \in Nat, NEW f, Common(f, m), NEW g, Common(g, n)
  PROVE  \A y \in Nat : y <= m /\ y <= n => \A x \in Nat : f[<<x, y>>] = g[<<x, y>>]
<1> DEFINE Bad == {y \in Nat : y <= m /\ y <= n /\ \E x \in Nat : f[<<x, y>>] # g[<<x, y>>]}
<1>1. SUFFICES ASSUME Bad # {} PROVE FALSE
  OBVIOUS
<1>2. Bad \in SUBSET Nat
  OBVIOUS
<1> HIDE DEF Bad
<1>3. PICK y \in Bad : \A j \in Bad : y <= j
  BY <1>1, <1>2, LeastExists
<1> USE DEF Bad
<1>4. y \in Nat /\ y <= m /\ y <= n
  BY <1>3
<1>5. PICK x \in Nat : f[<<x, y>>] # g[<<x, y>>]
  BY <1>3
<1> DEFINE p == <<x, y>>
<1>6. p \in Nat \X (0..m) /\ p \in Nat \X (0..n) /\ p[1] = x /\ p[2] = y
  BY <1>4
<1>7. f[p] = IF y = 0 THEN x ELSE f[<<y, x % y>>]
  BY <1>6 DEF Common
<1>8. g[p] = IF y = 0 THEN x ELSE g[<<y, x % y>>]
  BY <1>6 DEF Common
<1>9. y # 0
  BY <1>5, <1>7, <1>8
<1>10. (x % y) \in 0..(y - 1)
  BY <1>4, <1>9, Division
<1>11. (x % y) \in Nat /\ x % y <= m /\ x % y <= n /\ ~(y <= x % y)
  BY <1>4, <1>10
<1>12. (x % y) \notin Bad
  BY <1>3, <1>11
<1>13. f[<<y, x % y>>] = g[<<y, x % y>>]
  BY <1>4, <1>11, <1>12
<1>14. QED
  BY <1>5, <1>7, <1>8, <1>13

(* Euclid's algorithm, step by step.                                         *)
LEMMA GcdStep ==
  ASSUME NEW a \in Nat, NEW b \in Nat
  PROVE  gcd(a, b) = IF b = 0 THEN a ELSE gcd(b, a % b)
<1> DEFINE F(n) == CHOOSE f : Common(f, n)
<1>1. \A n \in Nat : Common(F(n), n)
  BY CommonExists
<1>2. \A x, y : gcd(x, y) = F(y)[<<x, y>>]
  BY DEF gcd, Common
<1> HIDE DEF F
<1> DEFINE p == <<a, b>>
<1>3. p \in Nat \X (0..b) /\ p[1] = a /\ p[2] = b
  OBVIOUS
<1>4. F(b)[p] = IF b = 0 THEN a ELSE F(b)[<<b, a % b>>]
  <2>1. Common(F(b), b)
    BY <1>1
  <2>2. QED
    BY <1>3, <2>1 DEF Common
<1>5. CASE b = 0
  BY <1>2, <1>4, <1>5
<1>6. CASE b # 0
  <2> DEFINE r == a % b
  <2>1. r \in Nat /\ r <= b /\ r <= r
    BY <1>6, Division
  <2> HIDE DEF r
  <2>2. Common(F(b), b) /\ Common(F(r), r)
    BY <1>1, <2>1
  <2>3. F(b)[<<b, r>>] = F(r)[<<b, r>>]
    BY <2>1, <2>2, CommonUnique
  <2>4. QED
    BY <1>2, <1>4, <1>6, <2>3 DEF r
<1>7. QED
  BY <1>5, <1>6

(* A multiple of both numbers: the quotient stays and the rest is multiplied.*)
LEMMA DivisionScales ==
  ASSUME NEW a \in Nat, NEW b \in Nat \ {0}, NEW k \in Nat \ {0}
  PROVE  /\ k * a \in Nat /\ k * b \in Nat \ {0}
         /\ (k * a) \div (k * b) = a \div b
         /\ (k * a) % (k * b) = k * (a % b)
<1> DEFINE q == a \div b
           r == a % b
           A == k * a
           B == k * b
           Q == A \div B
           R == A % B
<1>1. q \in Nat /\ r \in 0..(b - 1) /\ a = b * q + r
  BY Division
<1>2. A \in Nat /\ B \in Nat \ {0}
  OBVIOUS
<1> HIDE DEF A, B
<1>3. Q \in Nat /\ R \in 0..(B - 1) /\ A = B * Q + R
  BY <1>2, Division
<1> HIDE DEF q, r, Q, R
<1>4. A = B * q + k * r /\ k * r \in Nat /\ k * r <= B - 1
  <2>1. A = k * (b * q) + k * r
    BY <1>1 DEF A
  <2>2. k * (b * q) = (k * b) * q
    BY <1>1
  <2>3. k * r <= k * (b - 1) /\ k * (b - 1) = k * b - k
    BY <1>1
  <2>4. QED
    BY <1>1, <2>1, <2>2, <2>3 DEF B
<1> DEFINE s == k * r
<1>5. A = B * q + s /\ s \in Nat /\ s <= B - 1
  BY <1>4
<1> HIDE DEF s
<1>6. ~(q < Q)
  <2> SUFFICES ASSUME q < Q PROVE FALSE
    OBVIOUS
  <2>1. B * (q + 1) <= B * Q
    BY <1>1, <1>2, <1>3
  <2>2. QED
    BY <1>1, <1>2, <1>3, <1>5, <2>1
<1>7. ~(Q < q)
  <2> SUFFICES ASSUME Q < q PROVE FALSE
    OBVIOUS
  <2>1. B * (Q + 1) <= B * q
    BY <1>1, <1>2, <1>3
  <2>2. QED
    BY <1>1, <1>2, <1>3, <1>5, <2>1
<1>8. Q = q
  BY <1>1, <1>3, <1>6, <1>7
<1>9. R = s
  BY <1>1, <1>2, <1>3, <1>5, <1>8
<1>10. QED
  BY <1>2, <1>8, <1>9 DEF Q, q, R, r, s, A, B

(* The greatest common divisor of multiples is the multiple.                 *)
LEMMA GcdScales ==
  ASSUME NEW k \in Nat \ {0}
  PROVE  \A b \in Nat : \A a \in Nat : gcd(k * a, k * b) = k * gcd(a, b)
<1> DEFINE Bad == {b \in Nat : \E a \in Nat : gcd(k * a, k * b) # k * gcd(a, b)}
<1>1. SUFFICES ASSUME Bad # {} PROVE FALSE
  OBVIOUS
<1>2. Bad \in SUBSET Nat
  OBVIOUS
<1> HIDE DEF Bad
<1>3. PICK b \in Bad : \A j \in Bad : b <= j
  BY <1>1, <1>2, LeastExists
<1> USE DEF Bad
<1>4. b \in Nat
  BY <1>3
<1>5. PICK a \in Nat : gcd(k * a, k * b) # k * gcd(a, b)
  BY <1>3
<1>6. CASE b = 0
  <2>1. k * b = 0 /\ k * a \in Nat
    BY <1>6
  <2>2. gcd(k * a, 0) = k * a
    BY <2>1, GcdStep
  <2>3. gcd(a, 0) = a
    BY GcdStep
  <2>4. QED
    BY <1>5, <1>6, <2>1, <2>2, <2>3
<1>7. CASE b # 0
  <2> DEFINE r == a % b
             A == k * a
             B == k * b
  <2>1. r \in Nat /\ r < b
    <3>1. (a % b) \in 0..(b - 1)
      BY <1>4, <1>7, Division
    <3>2. QED
      BY <1>4, <3>1
  <2>2. A \in Nat /\ B \in Nat \ {0} /\ A % B = k * r
    BY <1>4, <1>7, DivisionScales
  <2>3. gcd(A, B) = gcd(B, A % B)
    BY <2>2, GcdStep
  <2>4. gcd(a, b) = gcd(b, r)
    BY <1>4, <1>7, GcdStep
  <2> HIDE DEF r
  <2>5. r \notin Bad
    BY <1>3, <1>4, <2>1
  <2>6. gcd(k * b, k * r) = k * gcd(b, r)
    BY <1>4, <2>1, <2>5
  <2>7. QED
    BY <1>5, <2>2, <2>3, <2>4, <2>6
<1>8. QED
  BY <1>6, <1>7

(* It divides both numbers.                                                  *)
LEMMA GcdDivides ==
  \A b \in Nat : \A a \in Nat : \E i, j \in Nat : a = gcd(a, b) * i /\ b = gcd(a, b) * j
<1> DEFINE Good(a, b) == \E i, j \in Nat : a = gcd(a, b) * i /\ b = gcd(a, b) * j
           Bad == {b \in Nat : \E a \in Nat : ~Good(a, b)}
<1> HIDE DEF Good
<1>1. ASSUME Bad # {} PROVE FALSE
  <2>1. Bad \in SUBSET Nat
    OBVIOUS
  <2> HIDE DEF Bad
  <2>2. PICK b \in Bad : \A j \in Bad : b <= j
    BY <1>1, <2>1, LeastExists
  <2> USE DEF Bad
  <2>3. b \in Nat
    BY <2>2
  <2>4. PICK a \in Nat : ~Good(a, b)
    BY <2>2
  <2>5. CASE b = 0
    <3>1. gcd(a, b) = a
      BY <2>5, GcdStep
    <3>2. a = a * 1 /\ b = a * 0
      BY <2>5
    <3>3. QED
      BY <2>4, <3>1, <3>2 DEF Good
  <2>6. CASE b # 0
    <3> DEFINE r == a % b
               q == a \div b
               g == gcd(b, r)
    <3>1. r \in Nat /\ r < b /\ q \in Nat /\ a = b * q + r
      <4>1. /\ (a % b) \in 0..(b - 1) /\ a \div b \in Nat
            /\ a = b * (a \div b) + (a % b)
        BY <2>3, <2>6, Division
      <4>2. QED
        BY <2>3, <4>1
    <3>2. gcd(a, b) = g
      BY <2>3, <2>6, GcdStep
    <3> HIDE DEF r, q
    <3>3. r \notin Bad
      BY <2>2, <2>3, <3>1
    <3>4. Good(b, r)
      BY <2>3, <3>1, <3>3
    <3>5. PICK i, j \in Nat : b = g * i /\ r = g * j
      BY <3>4 DEF Good
    <3>6. g \in Nat
      <4>1. CASE r = 0
        <5>1. g = b
          BY <2>3, <3>1, <4>1, GcdStep
        <5>2. QED
          BY <2>3, <5>1
      <4>2. CASE r # 0
        BY <2>3, <3>1, <4>2, GcdPositive
      <4>3. QED
        BY <4>1, <4>2
    <3> HIDE DEF g
    <3>7. a = g * (i * q + j)
      <4>1. a = (g * i) * q + g * j
        BY <3>1, <3>5
      <4>2. (g * i) * q = g * (i * q)
        BY <3>1, <3>6
      <4>3. g * (i * q + j) = g * (i * q) + g * j
        BY <3>1, <3>6
      <4>4. QED
        BY <4>1, <4>2, <4>3
    <3>8. i * q + j \in Nat
      BY <3>1
    <3>9. QED
      BY <2>4, <3>2, <3>5, <3>7, <3>8 DEF Good
  <2>7. QED
    BY <2>5, <2>6
<1>2. \A b \in Nat : \A a \in Nat : Good(a, b)
  BY <1>1
<1>3. QED
  BY <1>2 DEF Good

(* Two numbers without a common divisor. *)
Coprime(p, q) == gcd(p, q) = 1

(* p over q is n over d in lowest terms, and g is what was divided out.      *)
Lowest(n, d, p, q, g) ==
  /\ Ratio(n, d) = <<p, q>> /\ n = g * p /\ d = g * q
  /\ Coprime(Magnitude(p), q) /\ (p < 0 <=> n < 0)

(* A quotient is in lowest terms.                                            *)
LEMMA RatioLowest ==
  ASSUME NEW n \in Int, NEW d \in Nat \ {0}
  PROVE  \E p \in Int, q \in Nat \ {0}, g \in Nat \ {0} : Lowest(n, d, p, q, g)
<1> DEFINE m == Magnitude(n)
           g == gcd(m, d)
<1>1. m \in Nat /\ (n < 0 => n = -m) /\ (n >= 0 => n = m)
  BY DEF Magnitude
<1> HIDE DEF m
<1>2. g \in Nat \ {0}
  BY <1>1, GcdPositive
<1>3. PICK i, j \in Nat : m = g * i /\ d = g * j
  BY <1>1, GcdDivides
<1>4. Ratio(n, d) = <<n \div g, d \div g>>
  BY DEF Ratio, m
<1>5. gcd(g * i, g * j) = g * gcd(i, j)
  BY <1>2, GcdScales
<1>6. gcd(g * i, g * j) = g
  BY <1>3
<1> HIDE DEF g
<1>7. j # 0
  BY <1>2, <1>3
<1>8. gcd(i, j) \in Nat \ {0}
  BY <1>7, GcdPositive
<1> DEFINE h == gcd(i, j)
<1>9. h \in Nat \ {0} /\ g * h = g
  BY <1>5, <1>6, <1>8
<1> HIDE DEF h
<1>10. h = 1
  <2> SUFFICES ASSUME h # 1 PROVE FALSE
    OBVIOUS
  <2>1. h >= 2
    BY <1>9
  <2>2. g * h >= g * 2
    BY <1>2, <1>9, <2>1
  <2>3. QED
    BY <1>2, <1>9, <2>2
<1> DEFINE p == IF n < 0 THEN -i ELSE i
<1>11. p \in Int /\ Magnitude(p) = i
  BY DEF Magnitude
<1>12. n = g * p
  BY <1>1, <1>2, <1>3
<1>13. p < 0 <=> n < 0
  BY <1>1, <1>2, <1>3
<1>14. n \div g = p /\ d \div g = j
  <2>1. \A x \in Int : (g * x) \div g = x
    BY <1>2
  <2> HIDE DEF p
  <2>2. QED
    BY <1>3, <1>11, <1>12, <2>1
<1> HIDE DEF p
<1>15. QED
  BY <1>2, <1>3, <1>4, <1>7, <1>10, <1>11, <1>12, <1>13, <1>14 DEF h, Coprime, Lowest

(* Equal quotients in lowest terms are the same.                             *)
LEMMA LowestUnique ==
  ASSUME NEW p \in Int, NEW q \in Nat \ {0}, Coprime(Magnitude(p), q),
         NEW r \in Int, NEW s \in Nat \ {0}, Coprime(Magnitude(r), s),
         p * s = r * q
  PROVE  p = r /\ q = s
<1> DEFINE a == Magnitude(p)
           b == Magnitude(r)
<1>1. a \in Nat /\ b \in Nat
  BY DEF Magnitude
<1>2. a * s = b * q
  <2>1. (p = a \/ p = -a) /\ (r = b \/ r = -b)
    BY DEF Magnitude
  <2> HIDE DEF a, b
  <2> DEFINE A == a * s
             B == b * q
  <2>2. A \in Nat /\ B \in Nat
    BY <1>1
  <2>3. (p * s = A \/ p * s = -A) /\ (r * q = B \/ r * q = -B)
    BY <1>1, <2>1
  <2> HIDE DEF A, B
  <2>4. A = B
    BY <2>2, <2>3
  <2>5. QED
    BY <2>4 DEF A, B
<1>3. gcd(s * a, s * q) = s * gcd(a, q) /\ gcd(q * b, q * s) = q * gcd(b, s)
  BY <1>1, GcdScales
<1>4. gcd(a, q) = 1 /\ gcd(b, s) = 1
  BY DEF Coprime
<1> HIDE DEF a, b
<1>5. s * a = q * b /\ s * q = q * s
  BY <1>1, <1>2
<1>6. s = q
  BY <1>3, <1>4, <1>5
<1>7. p = r
  BY <1>6
<1>8. QED
  BY <1>6, <1>7

(* A quotient in lowest terms is what it is, however it is written.          *)
LEMMA RatioIs ==
  ASSUME NEW n \in Int, NEW d \in Nat \ {0},
         NEW p \in Int, NEW q \in Nat \ {0}, Coprime(Magnitude(p), q), n * q = p * d
  PROVE  Ratio(n, d) = <<p, q>>
<1>0. PICK r \in Int, s \in Nat \ {0}, g \in Nat \ {0} : Lowest(n, d, r, s, g)
  BY RatioLowest
<1>1. /\ Ratio(n, d) = <<r, s>> /\ n = g * r /\ d = g * s
      /\ Coprime(Magnitude(r), s)
  BY <1>0 DEF Lowest
<1>2. g * (r * q) = g * (p * s)
  <2>1. (g * r) * q = g * (r * q) /\ p * (g * s) = g * (p * s)
    BY <1>1
  <2>2. QED
    BY <1>1, <2>1
<1> DEFINE x == r * q
           y == p * s
<1>3. x \in Int /\ y \in Int
  BY <1>1
<1> HIDE DEF x, y
<1>4. g * x = g * y
  BY <1>2 DEF x, y
<1>5. x = y
  <2>1. CASE x < y
    <3>1. g * (x + 1) <= g * y
      BY <1>1, <1>3, <2>1
    <3>2. QED
      BY <1>1, <1>3, <1>4, <3>1
  <2>2. CASE y < x
    <3>1. g * (y + 1) <= g * x
      BY <1>1, <1>3, <2>2
    <3>2. QED
      BY <1>1, <1>3, <1>4, <3>1
  <2>3. QED
    BY <1>3, <2>1, <2>2
<1>6. r = p /\ s = q
  BY <1>1, <1>5, LowestUnique DEF x, y
<1>7. QED
  BY <1>1, <1>6

(* Quotients are compared across.                                            *)
LEMMA RatioAtMost ==
  ASSUME NEW m \in Nat, NEW d \in Nat \ {0}, NEW n \in Nat, NEW e \in Nat \ {0},
         m * e <= n * d
  PROVE  AtMost(Ratio(m, d), Ratio(n, e))
<1>0. m \in Int /\ n \in Int
  OBVIOUS
<1>b. PICK p \in Int, q \in Nat \ {0}, g \in Nat \ {0} : Lowest(m, d, p, q, g)
  BY <1>0, RatioLowest
<1>c. PICK r \in Int, s \in Nat \ {0}, h \in Nat \ {0} : Lowest(n, e, r, s, h)
  BY <1>0, RatioLowest
<1>1. /\ Ratio(m, d) = <<p, q>> /\ m = g * p /\ d = g * q
      /\ Coprime(Magnitude(p), q)
  BY <1>b DEF Lowest
<1>2. /\ Ratio(n, e) = <<r, s>> /\ n = h * r /\ e = h * s
      /\ Coprime(Magnitude(r), s)
  BY <1>c DEF Lowest
<1> DEFINE x == p * s
           y == r * q
           k == g * h
<1>3. x \in Int /\ y \in Int /\ k \in Nat \ {0}
  BY <1>1, <1>2
<1>4. m * e = k * x /\ n * d = k * y
  BY <1>1, <1>2
<1> HIDE DEF x, y, k
<1>5. x <= y
  <2> SUFFICES ASSUME y + 1 <= x PROVE FALSE
    BY <1>3
  <2>1. k * (y + 1) <= k * x
    BY <1>3
  <2>2. QED
    BY <1>3, <1>4, <2>1
<1>6. CASE x = y
  BY <1>1, <1>2, <1>6, LowestUnique DEF x, y, AtMost
<1>7. CASE x < y
  BY <1>1, <1>2, <1>7 DEF x, y, AtMost, Less
<1>8. QED
  BY <1>3, <1>5, <1>6, <1>7

(* A whole number is in lowest terms, and so is a quotient.                  *)
LEMMA FloatRatios ==
  /\ \A n \in Int : Whole(n) \in Float
  /\ \A n \in Int, d \in Nat \ {0} : Ratio(n, d) \in Float /\ IsFinite(Ratio(n, d))
<1>1. ASSUME NEW n \in Int PROVE Whole(n) \in Float
  <2> DEFINE m == Magnitude(n)
  <2>1. m \in Nat
    BY DEF Magnitude
  <2> HIDE DEF m
  <2>2. gcd(m, 1) = gcd(1, m % 1) /\ gcd(1, 0) = 1
    BY <2>1, GcdStep
  <2>3. m % 1 = 0
    BY <2>1
  <2>4. gcd(m, 1) = 1
    BY <2>2, <2>3
  <2>5. QED
    BY <2>4 DEF Float, Whole, m
<1>2. ASSUME NEW n \in Int, NEW d \in Nat \ {0} PROVE Ratio(n, d) \in Float /\ IsFinite(Ratio(n, d))
  <2>1. PICK p \in Int, q \in Nat \ {0}, g \in Nat \ {0} : Lowest(n, d, p, q, g)
    BY RatioLowest
  <2>2. Ratio(n, d) = <<p, q>> /\ gcd(Magnitude(p), q) = 1
    BY <2>1 DEF Lowest, Coprime
  <2>3. QED
    BY <2>2 DEF Float, IsFinite
<1>3. QED
  BY <1>1, <1>2

(* The constants are numbers.                                                *)
LEMMA WidthFacts ==
  /\ U32Max \in Nat \ {0} /\ I32Max \in Nat \ {0} /\ I32Max <= U32Max
  /\ F32Bits \in Nat \ {0} /\ F64Bits \in Nat \ {0} /\ MAX_ITER \in Nat \ {0}
  /\ MaxExponent \in Nat /\ MaxExponent = 5 * F32Bits + F64Bits
BY WidthsAssumption DEF MaxExponent, F32, F64

(* What the powers of two are: they begin so, and go on so.                  *)
LEMMA PowerSteps ==
  /\ pow2[0] = 1
  /\ \A e \in 1..MaxExponent : pow2[e] = 2 * pow2[e - 1]
<1>1. MaxExponent \in Nat
  BY WidthFacts
<1>2. Powers(pow2, MaxExponent)
  <2>1. pow2 = CHOOSE f : Powers(f, MaxExponent)
    BY DEF pow2, Powers, MaxExponent
  <2>2. \E f : Powers(f, MaxExponent)
    BY <1>1, PowersExist
  <2>3. QED
    BY <2>1, <2>2
<1>3. \A x \in 0..MaxExponent : pow2[x] = IF x = 0 THEN 1 ELSE 2 * pow2[x - 1]
  BY <1>2 DEF Powers
<1>4. 0 \in 0..MaxExponent /\ \A e \in 1..MaxExponent : e \in 0..MaxExponent /\ e # 0
  BY <1>1
<1>5. QED
  BY <1>3, <1>4, Zenon

(* The exponents of powers add up.                                           *)
LEMMA PowersAdd ==
  ASSUME NEW i \in 0..MaxExponent
  PROVE  \A j \in 0..MaxExponent - i : pow2[i + j] = pow2[i] * pow2[j]
<1> DEFINE Bad == {j \in 0..MaxExponent - i : pow2[i + j] # pow2[i] * pow2[j]}
<1>1. MaxExponent \in Nat /\ i \in Nat /\ i <= MaxExponent
  BY WidthFacts
<1>2. ASSUME Bad # {} PROVE FALSE
  <2>1. Bad \in SUBSET Nat
    BY <1>1
  <2> HIDE DEF Bad
  <2>2. PICK j \in Bad : \A k \in Bad : j <= k
    BY <1>2, <2>1, LeastExists
  <2> USE DEF Bad
  <2>3. j \in 0..MaxExponent - i /\ pow2[i + j] # pow2[i] * pow2[j]
    BY <2>2
  <2>4. pow2[i] \in Nat \ {0}
    BY PowerPositive
  <2>5. j # 0
    <3> SUFFICES ASSUME j = 0 PROVE FALSE
      OBVIOUS
    <3>1. pow2[j] = 1 /\ i + j = i
      BY <1>1, PowerSteps
    <3>2. QED
      BY <2>3, <2>4, <3>1
  <2>6. j - 1 \in 0..MaxExponent - i /\ j - 1 \notin Bad
    BY <1>1, <2>2, <2>3, <2>5
  <2>7. pow2[i + (j - 1)] = pow2[i] * pow2[j - 1]
    BY <2>6
  <2>8. j \in 1..MaxExponent /\ i + j \in 1..MaxExponent /\ i + j - 1 = i + (j - 1)
        /\ j - 1 \in 0..MaxExponent
    BY <1>1, <2>3, <2>5
  <2>9. pow2[j] = 2 * pow2[j - 1] /\ pow2[i + j] = 2 * pow2[i + (j - 1)]
    BY <2>8, PowerSteps
  <2>10. pow2[j - 1] \in Nat \ {0}
    BY <2>8, PowerPositive
  <2> DEFINE x == pow2[i]
             y == pow2[j - 1]
  <2>11. x \in Nat /\ y \in Nat
    BY <2>4, <2>10
  <2>12. pow2[i + j] = 2 * (x * y) /\ pow2[j] = 2 * y
    BY <2>7, <2>9
  <2> HIDE DEF x, y
  <2>13. 2 * (x * y) = x * (2 * y)
    BY <2>11
  <2>14. QED
    BY <2>3, <2>12, <2>13 DEF x
<1>3. QED
  BY <1>2

(* An exponent scales up or down.                                            *)
Up(e) == IF e >= 0 THEN pow2[e] ELSE 1

Down(e) == IF e >= 0 THEN 1 ELSE pow2[-e]

(* An integer with an exponent.                                              *)
Binade(m, e) == Ratio(m * Up(e), Down(e))

AllExponents == (-MaxExponent)..MaxExponent

(* Both are powers of two. *)
LEMMA UpDown ==
  ASSUME NEW e \in AllExponents
  PROVE  /\ e \in Int /\ Up(e) \in Nat \ {0} /\ Down(e) \in Nat \ {0}
         /\ \A v : Scaled(v, e) = IF e >= 0 THEN <<v[1], v[2] * Up(e)>> ELSE <<v[1] * Down(e), v[2]>>
<1>1. MaxExponent \in Nat /\ e \in Int /\ -MaxExponent <= e /\ e <= MaxExponent
  BY WidthFacts DEF AllExponents
<1>2. CASE e >= 0
  <2>1. e \in 0..MaxExponent
    BY <1>1, <1>2
  <2>2. pow2[e] \in Nat \ {0}
    BY <2>1, PowerPositive
  <2>3. QED
    BY <1>1, <1>2, <2>2 DEF Up, Down, Scaled
<1>3. CASE ~(e >= 0)
  <2>1. -e \in 0..MaxExponent
    BY <1>1, <1>3
  <2>2. pow2[-e] \in Nat \ {0}
    BY <2>1, PowerPositive
  <2>3. QED
    BY <1>1, <1>3, <2>2 DEF Up, Down, Scaled
<1>4. QED
  BY <1>2, <1>3

(* The next exponent doubles.                                                *)
LEMMA NextExponent ==
  ASSUME NEW e \in AllExponents, e + 1 \in AllExponents
  PROVE  Up(e + 1) * Down(e) = 2 * (Up(e) * Down(e + 1))
<1>1. MaxExponent \in Nat /\ e \in Int /\ -MaxExponent <= e /\ e + 1 <= MaxExponent
  BY WidthFacts DEF AllExponents
<1>2. CASE e >= 0
  <2>1. e + 1 \in 1..MaxExponent /\ e + 1 - 1 = e /\ e + 1 >= 0 /\ e \in 0..MaxExponent
    BY <1>1, <1>2
  <2>2. pow2[e + 1] = 2 * pow2[e]
    BY <2>1, PowerSteps
  <2>3. pow2[e] \in Nat
    BY <2>1, PowerPositive
  <2>4. QED
    BY <1>2, <2>1, <2>2, <2>3 DEF Up, Down
<1>3. CASE e = -1
  <2>1. Up(e) = 1 /\ Down(e) = pow2[1] /\ e + 1 = 0
    BY <1>3 DEF Up, Down
  <2>2. Up(0) = pow2[0] /\ Down(0) = 1
    BY DEF Up, Down
  <2>3. 1 \in 1..MaxExponent
    BY <1>1, <1>3
  <2>4. pow2[1] = 2 * pow2[0] /\ pow2[0] = 1
    <3>1. pow2[1] = 2 * pow2[1 - 1]
      BY <2>3, PowerSteps
    <3>2. QED
      BY <3>1, PowerSteps
  <2>5. QED
    BY <2>1, <2>2, <2>4
<1>4. CASE e < -1
  <2>1. /\ -e \in 1..MaxExponent /\ (-e) - 1 = -(e + 1) /\ ~(e >= 0) /\ ~(e + 1 >= 0)
        /\ -(e + 1) \in 0..MaxExponent
    BY <1>1, <1>4
  <2>2. pow2[-e] = 2 * pow2[-(e + 1)]
    BY <2>1, PowerSteps
  <2>3. pow2[-(e + 1)] \in Nat
    BY <2>1, PowerPositive
  <2>4. QED
    BY <2>1, <2>2, <2>3 DEF Up, Down
<1>5. QED
  BY <1>1, <1>2, <1>3, <1>4

(* A larger exponent at least doubles.                                       *)
LEMMA LargerExponent ==
  ASSUME NEW e \in AllExponents, NEW f \in AllExponents, e < f
  PROVE  2 * (Up(e) * Down(f)) <= Up(f) * Down(e)
<1> DEFINE Good(k) == 2 * (Up(e) * Down(k)) <= Up(k) * Down(e)
           Bad == {j \in Nat : e + 1 + j \in AllExponents /\ ~Good(e + 1 + j)}
<1>1. MaxExponent \in Nat /\ e \in Int /\ f \in Int
  BY WidthFacts DEF AllExponents
<1>2. ASSUME Bad # {} PROVE FALSE
  <2>1. Bad \in SUBSET Nat
    OBVIOUS
  <2> HIDE DEF Bad
  <2>2. PICK j \in Bad : \A k \in Bad : j <= k
    BY <1>2, <2>1, LeastExists
  <2> USE DEF Bad
  <2> DEFINE k == e + 1 + j
             h == e + j
  <2>3. j \in Nat /\ k \in AllExponents /\ ~Good(k)
    BY <2>2
  <2>4. h \in AllExponents /\ h + 1 = k
    BY <1>1, <2>3, UpDown DEF AllExponents
  <2>5. Up(k) * Down(h) = 2 * (Up(h) * Down(k))
    BY <2>3, <2>4, NextExponent
  <2>6. j # 0
    <3> SUFFICES ASSUME j = 0 PROVE FALSE
      OBVIOUS
    <3>1. h = e
      BY <1>1
    <3> DEFINE z == 2 * (Up(e) * Down(k))
    <3>2. Up(k) * Down(e) = z
      BY <2>5, <3>1
    <3>3. z \in Int
      BY <2>3, UpDown
    <3> HIDE DEF z, k
    <3>4. z <= z
      BY <3>3
    <3>5. QED
      BY <2>3, <3>2, <3>4 DEF z
  <2>7. Good(h)
    <3>1. j - 1 \in Nat /\ e + 1 + (j - 1) = h
      BY <1>1, <2>3, <2>6
    <3>2. ~(j <= j - 1)
      BY <2>3
    <3>3. j - 1 \notin Bad
      BY <2>2, <3>1, <3>2
    <3> HIDE DEF Good
    <3>4. QED
      BY <2>4, <3>1, <3>3
  <2> DEFINE u == Up(e)
             d == Down(e)
             U == Up(k)
             D == Down(k)
             x == Up(h)
             y == Down(h)
  <2>8. /\ u \in Nat \ {0} /\ d \in Nat \ {0} /\ U \in Nat \ {0} /\ D \in Nat \ {0}
        /\ x \in Nat \ {0} /\ y \in Nat \ {0}
    BY <2>3, <2>4, UpDown
  <2>9. U * y = 2 * (x * D) /\ 2 * (u * y) <= x * d /\ ~(2 * (u * D) <= U * d)
    BY <2>3, <2>5, <2>7
  <2> HIDE DEF u, d, U, D, x, y, k, h
  <2>10. (2 * (u * y)) * (2 * D) <= (x * d) * (2 * D)
    <3> DEFINE l == 2 * (u * y)
               r == x * d
               c == 2 * D
    <3>1. l \in Nat /\ r \in Nat /\ c \in Nat /\ l <= r
      BY <2>8, <2>9
    <3> HIDE DEF l, r, c
    <3>2. l * c <= r * c
      BY <3>1
    <3>3. QED
      BY <3>2 DEF l, r, c
  <2>11. (x * d) * (2 * D) = (2 * (x * D)) * d
    BY <2>8
  <2>12. (U * y) * d = (U * d) * y
    BY <2>8
  <2>13. (2 * (u * y)) * (2 * D) = (2 * (2 * (u * D))) * y
    BY <2>8
  <2> DEFINE A == 2 * (u * D)
             B == U * d
  <2>14. A \in Nat /\ B \in Nat /\ B < A
    BY <2>8, <2>9
  <2>15. (2 * A) * y <= B * y
    BY <2>9, <2>10, <2>11, <2>12, <2>13
  <2> HIDE DEF A, B
  <2>16. B * y <= A * y
    BY <2>8, <2>14
  <2>17. A * y < (2 * A) * y
    <3>1. (2 * A) * y = A * y + A * y /\ A * y >= A * 1
      BY <2>8, <2>14
    <3> DEFINE z == A * y
    <3>2. z \in Nat
      BY <2>8, <2>14
    <3> HIDE DEF z
    <3>3. QED
      BY <2>14, <3>1, <3>2 DEF z
  <2>18. QED
    BY <2>8, <2>14, <2>15, <2>16, <2>17
<1>3. f - e - 1 \in Nat /\ e + 1 + (f - e - 1) = f
  BY <1>1
<1>4. f - e - 1 \notin Bad
  BY <1>2
<1> HIDE DEF Good
<1>5. Good(f)
  BY <1>3, <1>4
<1>6. QED
  BY <1>5 DEF Good

(* A type of float has bits, and exponents that are powers'.                 *)
LEMMA TypeParts ==
  ASSUME NEW type \in {F32, F64}
  PROVE  /\ type.bits \in Nat \ {0} /\ type.range \in Nat /\ type.bits <= type.range
         /\ type.range <= MaxExponent
<1>1. F32.bits = F32Bits /\ F32.range = 5 * F32Bits
  BY DEF F32
<1>2. F64.bits = F64Bits /\ F64.range = 5 * F32Bits + F64Bits
  BY <1>1 DEF F64
<1>3. CASE type = F32
  BY <1>1, <1>3, WidthFacts
<1>4. CASE type = F64
  BY <1>2, <1>4, WidthFacts
<1>5. QED
  BY <1>3, <1>4

(* The least mantissa, and what is too large for one by one.                 *)
Lo(type) == pow2[type.bits - 1]
Hi(type) == pow2[type.bits]

(* The exponents of a type.                                                  *)
ExponentsOf(type) == (-type.range)..type.range

(* The mantissas of a type: all its bits, and the first is set.              *)
LEMMA Mantissas ==
  ASSUME NEW type \in {F32, F64}
  PROVE  /\ Lo(type) \in Nat \ {0} /\ Hi(type) \in Nat \ {0} /\ Hi(type) = 2 * Lo(type)
         /\ ExponentsOf(type) \subseteq AllExponents
         /\ type.range \in ExponentsOf(type) /\ -type.range \in ExponentsOf(type)
         /\ Down(-type.range) = Up(type.range) /\ Up(-type.range) = 1 /\ Down(type.range) = 1
         /\ Up(type.range) \in Nat \ {0} /\ Hi(type) <= Up(type.range)
<1> DEFINE b == type.bits
           r == type.range
<1>1. b \in Nat \ {0} /\ r \in Nat /\ b <= r /\ r <= MaxExponent /\ MaxExponent \in Nat
  BY TypeParts, WidthFacts
<1>2. ExponentsOf(type) = (-r)..r /\ Lo(type) = pow2[b - 1] /\ Hi(type) = pow2[b]
  BY DEF ExponentsOf, Lo, Hi
<1> HIDE DEF b, r
<1>3. /\ b \in 1..MaxExponent /\ b - 1 \in 0..MaxExponent /\ b \in 0..MaxExponent
      /\ r \in 0..MaxExponent /\ r - b \in 0..MaxExponent - b /\ b + (r - b) = r
      /\ r - b \in 0..MaxExponent
  BY <1>1
<1>4. pow2[b - 1] \in Nat \ {0} /\ pow2[b] \in Nat \ {0} /\ pow2[r] \in Nat \ {0}
      /\ pow2[r - b] \in Nat \ {0}
  BY <1>3, PowerPositive
<1>5. pow2[b] = 2 * pow2[b - 1]
  BY <1>3, PowerSteps
<1>6. pow2[b] <= pow2[r]
  <2>1. pow2[b + (r - b)] = pow2[b] * pow2[r - b]
    BY <1>3, PowersAdd
  <2> DEFINE i == pow2[b]
             j == pow2[r - b]
  <2>2. i \in Nat \ {0} /\ j \in Nat \ {0} /\ pow2[r] = i * j
    BY <1>3, <1>4, <2>1
  <2> HIDE DEF i, j
  <2>3. i * j >= i * 1
    BY <2>2
  <2>4. QED
    BY <2>2, <2>3 DEF i
<1>7. Up(r) = pow2[r] /\ Down(r) = 1
  BY <1>1 DEF Up, Down
<1>8. Up(-r) = 1 /\ Down(-r) = pow2[r]
  <2> DEFINE e == -r
  <2>1. e \in Int /\ -e = r /\ (e >= 0 => e = 0 /\ r = 0)
    BY <1>1
  <2> HIDE DEF e
  <2>2. r # 0
    BY <1>1
  <2>3. Up(e) = 1 /\ Down(e) = pow2[r]
    BY <2>1, <2>2 DEF Up, Down
  <2>4. QED
    BY <2>3 DEF e
<1>9. ExponentsOf(type) \subseteq AllExponents /\ r \in ExponentsOf(type) /\ -r \in ExponentsOf(type)
  BY <1>1, <1>2 DEF AllExponents
<1>10. QED
  BY <1>2, <1>4, <1>5, <1>6, <1>7, <1>8, <1>9 DEF r

(* A fraction scaled by an exponent, above and below the line.               *)
LEMMA ScaledIs ==
  ASSUME NEW p \in Nat, NEW q \in Nat, NEW e \in AllExponents
  PROVE  Scaled(<<p, q>>, e) = <<p * Down(e), q * Up(e)>>
<1>1. e \in Int /\ Up(e) \in Nat \ {0} /\ Down(e) \in Nat \ {0}
  BY UpDown
<1>2. e >= 0 => Down(e) = 1
  BY DEF Down
<1>3. ~(e >= 0) => Up(e) = 1
  BY DEF Up
<1>4. Scaled(<<p, q>>, e) = IF e >= 0 THEN <<p, q * Up(e)>> ELSE <<p * Down(e), q>>
  BY UpDown
<1>5. QED
  BY <1>1, <1>2, <1>3, <1>4

(* An exponent gives a fraction as many bits as a mantissa has.              *)
Fitting(p, q, e, type) == Lo(type) * (q * Up(e)) <= p * Down(e) /\ p * Down(e) < Hi(type) * (q * Up(e))

(* What a value reaches, without dividing.                                   *)
LEMMA ReachesIs ==
  ASSUME NEW p \in Nat \ {0}, NEW q \in Nat \ {0}, NEW m \in Nat \ {0}, NEW e \in AllExponents
  PROVE  Reaches(<<p, q>>, m, e) <=> m * (q * Up(e)) <= p * Down(e)
<1> DEFINE u == Up(e)
           d == Down(e)
           c == m * q
<1>1. u \in Nat \ {0} /\ d \in Nat \ {0} /\ e \in Int
  BY UpDown
<1>2. c \in Nat \ {0}
  OBVIOUS
<1>3. Reaches(<<p, q>>, m, e) = IF e >= 0 THEN pow2[e] <= p \div c ELSE (c - 1) \div p < pow2[-e]
  BY DEF Reaches
<1> HIDE DEF c
<1>4. CASE e >= 0
  <2>1. u = pow2[e] /\ d = 1
    BY <1>4 DEF Up, Down
  <2> HIDE DEF u, d
  <2> DEFINE k == p \div c
             r == p % c
  <2>2. k \in Nat /\ r \in 0..(c - 1) /\ p = c * k + r
    BY <1>2, Division
  <2> HIDE DEF k, r
  <2>3. ASSUME u <= k PROVE c * u <= p
    <3>1. c * u <= c * k
      BY <1>1, <1>2, <2>2, <2>3
    <3>2. QED
      BY <1>1, <1>2, <2>2, <3>1
  <2>4. ASSUME k + 1 <= u PROVE p < c * u
    <3>1. c * (k + 1) <= c * u /\ c * (k + 1) = c * k + c
      BY <1>1, <1>2, <2>2, <2>4
    <3> DEFINE i == c * k
               j == c * u
    <3>2. i \in Nat /\ j \in Nat /\ i + c <= j /\ p = i + r /\ r < c /\ r \in Nat
      BY <1>1, <1>2, <2>2, <3>1
    <3> HIDE DEF i, j
    <3>3. QED
      BY <1>2, <3>2 DEF j
  <2>5. u <= k \/ k + 1 <= u
    BY <1>1, <2>2
  <2>6. c * u \in Nat
    BY <1>1, <1>2
  <2>7. u <= k <=> c * u <= p
    BY <1>1, <2>2, <2>3, <2>4, <2>5, <2>6
  <2>8. m * (q * u) = c * u /\ p * d = p
    BY <1>1, <2>1 DEF c
  <2>9. QED
    BY <1>3, <1>4, <2>1, <2>7, <2>8 DEF u, d, k
<1>5. CASE ~(e >= 0)
  <2>1. u = 1 /\ d = pow2[-e]
    BY <1>5 DEF Up, Down
  <2> HIDE DEF u, d
  <2> DEFINE k == (c - 1) \div p
             r == (c - 1) % p
  <2>2. c - 1 \in Nat
    BY <1>2
  <2>3. k \in Nat /\ r \in 0..(p - 1) /\ c - 1 = p * k + r
    BY <2>2, Division
  <2> HIDE DEF k, r
  <2>4. ASSUME k + 1 <= d PROVE c <= p * d
    <3>1. p * (k + 1) <= p * d /\ p * (k + 1) = p * k + p
      BY <1>1, <2>3, <2>4
    <3> DEFINE i == p * k
               j == p * d
    <3>2. i \in Nat /\ j \in Nat /\ i + p <= j /\ c - 1 = i + r /\ r < p /\ r \in Nat
      BY <1>1, <2>3, <3>1
    <3> HIDE DEF i, j
    <3>3. QED
      BY <1>2, <3>2 DEF j
  <2>5. ASSUME d <= k PROVE p * d < c
    <3>1. p * d <= p * k
      BY <1>1, <2>3, <2>5
    <3> DEFINE i == p * k
               j == p * d
    <3>2. i \in Nat /\ j \in Nat /\ j <= i /\ c - 1 = i + r /\ r \in Nat
      BY <1>1, <2>3, <3>1
    <3> HIDE DEF i, j
    <3>3. QED
      BY <1>2, <3>2 DEF j
  <2>6. k + 1 <= d \/ d <= k
    BY <1>1, <2>3
  <2>7. p * d \in Nat
    BY <1>1
  <2>8. k < d <=> c <= p * d
    BY <1>1, <1>2, <2>3, <2>4, <2>5, <2>6, <2>7
  <2>9. m * (q * u) = c
    BY <2>1 DEF c
  <2>10. QED
    BY <1>3, <1>5, <2>1, <2>8, <2>9 DEF u, d, k
<1>6. QED
  BY <1>4, <1>5

(* These are its exponents. *)
LEMMA ExponentsAre ==
  ASSUME NEW type \in {F32, F64}, NEW p \in Nat \ {0}, NEW q \in Nat \ {0}
  PROVE  Exponents(<<p, q>>, type) = {e \in ExponentsOf(type) : Fitting(p, q, e, type)}
<1>1. ASSUME NEW e \in ExponentsOf(type)
      PROVE  /\ Reaches(<<p, q>>, pow2[type.bits - 1], e)
             /\ ~Reaches(<<p, q>>, pow2[type.bits], e)
             <=> Fitting(p, q, e, type)
  <2>1. e \in AllExponents /\ Lo(type) \in Nat \ {0} /\ Hi(type) \in Nat \ {0}
    BY Mantissas
  <2>2. Reaches(<<p, q>>, Lo(type), e) <=> Lo(type) * (q * Up(e)) <= p * Down(e)
    BY <2>1, ReachesIs
  <2>3. Reaches(<<p, q>>, Hi(type), e) <=> Hi(type) * (q * Up(e)) <= p * Down(e)
    BY <2>1, ReachesIs
  <2> DEFINE i == Hi(type) * (q * Up(e))
             j == p * Down(e)
  <2>4. i \in Nat /\ j \in Nat
    BY <2>1, UpDown
  <2> HIDE DEF i, j
  <2>5. ~(i <= j) <=> j < i
    BY <2>4
  <2>6. QED
    BY <2>2, <2>3, <2>5 DEF Fitting, Lo, Hi, i, j
<1>2. QED
  BY <1>1 DEF Exponents, ExponentsOf

(* As many bits as a mantissa has, or more; as many, or fewer.                *)
ManyBits(p, q, e, type) == Lo(type) * (q * Up(e)) <= p * Down(e)
FewBits(p, q, e, type) == p * Down(e) < Hi(type) * (q * Up(e))

(* What has too few bits for an exponent has too few for a larger one.       *)
LEMMA BitsShrink ==
  ASSUME NEW type \in {F32, F64}, NEW p \in Nat, NEW q \in Nat \ {0}, NEW i \in AllExponents, NEW j \in AllExponents,
         FewBits(p, q, i, type), ManyBits(p, q, j, type), i < j
  PROVE  FALSE
<1> DEFINE u == Up(i)
           d == Down(i)
           U == Up(j)
           D == Down(j)
           lo == Lo(type)
           hi == Hi(type)
<1>1. /\ u \in Nat \ {0} /\ d \in Nat \ {0} /\ U \in Nat \ {0} /\ D \in Nat \ {0}
      /\ lo \in Nat \ {0} /\ hi = 2 * lo
  BY UpDown, Mantissas
<1>2. 2 * (u * D) <= U * d
  BY LargerExponent
<1>3. lo * (q * U) <= p * D /\ p * d < hi * (q * u)
  BY DEF FewBits, ManyBits
<1> HIDE DEF u, d, U, D, lo, hi
<1>4. (lo * (q * U)) * d <= (p * D) * d
  <2> DEFINE x == lo * (q * U)
             y == p * D
  <2>1. x \in Nat /\ y \in Nat /\ x <= y
    BY <1>1, <1>3
  <2> HIDE DEF x, y
  <2>2. x * d <= y * d
    BY <1>1, <2>1
  <2>3. QED
    BY <2>2 DEF x, y
<1>5. (p * d) * D < (hi * (q * u)) * D
  <2> DEFINE x == p * d
             y == hi * (q * u)
  <2>1. x \in Nat /\ y \in Nat /\ x < y
    BY <1>1, <1>3
  <2> HIDE DEF x, y
  <2>2. x * D < y * D
    BY <1>1, <2>1
  <2>3. QED
    BY <2>2 DEF x, y
<1> DEFINE w == lo * q
           s == u * D
           t == U * d
<1>6. w \in Nat \ {0} /\ s \in Nat /\ t \in Nat /\ 2 * s <= t
  BY <1>1, <1>2
<1>7. (lo * (q * U)) * d = w * t /\ (hi * (q * u)) * D = w * (2 * s)
  BY <1>1
<1>8. (p * D) * d = (p * d) * D
  BY <1>1
<1> HIDE DEF w, s, t
<1>9. w * (2 * s) <= w * t
  BY <1>6
<1> DEFINE a == (p * d) * D
<1>10. a \in Nat /\ w * t <= a /\ a < w * (2 * s)
  BY <1>1, <1>4, <1>5, <1>7, <1>8
<1>11. w * t \in Nat /\ w * (2 * s) \in Nat
  BY <1>6
<1> HIDE DEF a
<1>12. QED
  BY <1>9, <1>10, <1>11

(* There is one exponent at most.                                            *)
LEMMA OneExponent ==
  ASSUME NEW type \in {F32, F64}, NEW p \in Nat, NEW q \in Nat \ {0}, NEW e \in AllExponents, NEW f \in AllExponents,
         Fitting(p, q, e, type), Fitting(p, q, f, type)
  PROVE  e = f
<1>1. \A g \in {e, f} : FewBits(p, q, g, type) /\ ManyBits(p, q, g, type)
  BY DEF Fitting, FewBits, ManyBits
<1>2. e \in Int /\ f \in Int
  BY UpDown
<1>3. e < f => FALSE
  BY <1>1, BitsShrink
<1>4. f < e => FALSE
  BY <1>1, BitsShrink
<1>5. QED
  BY <1>2, <1>3, <1>4

(* A value with an exponent is rounded to an integer with that exponent.     *)
LEMMA RoundedWith ==
  ASSUME NEW type \in {F32, F64}, NEW p \in Nat \ {0}, NEW q \in Nat \ {0}, NEW e \in ExponentsOf(type), Fitting(p, q, e, type)
  PROVE  LET m == Nearest(<<p * Down(e), q * Up(e)>>)
         IN m \in Nat => Rounded(<<p, q>>, type) = Binade(m, e)
<1> DEFINE v == <<p, q>>
           c == CHOOSE x \in Exponents(v, type) : TRUE
           m == Nearest(<<p * Down(e), q * Up(e)>>)
<1>1. Exponents(v, type) = {f \in ExponentsOf(type) : Fitting(p, q, f, type)}
  BY ExponentsAre
<1>0. e \in AllExponents
  BY Mantissas
<1>2. e \in Exponents(v, type)
  BY <1>1
<1>3. c \in Exponents(v, type)
  BY <1>2
<1>4. c \in AllExponents /\ Fitting(p, q, c, type)
  BY <1>1, <1>3, Mantissas
<1>5. c = e
  <2> HIDE DEF c
  <2>1. QED
    BY <1>0, <1>4, OneExponent
<1>6. IsFinite(v) /\ v[1] # 0 /\ Exponents(v, type) # {}
  BY <1>2 DEF IsFinite
<1>7. Rounded(v, type) = LET n == Nearest(Scaled(v, c))
                 IN IF c >= 0 THEN Whole(n * pow2[c]) ELSE Ratio(n, pow2[-c])
  BY <1>6, Zenon DEF Rounded, WithExponent
<1> HIDE DEF c
<1>8. Scaled(v, c) = <<p * Down(e), q * Up(e)>>
  BY <1>0, <1>5, ScaledIs
<1>9. Rounded(v, type) = IF e >= 0 THEN Whole(m * pow2[e]) ELSE Ratio(m, pow2[-e])
  BY <1>5, <1>7, <1>8
<1> HIDE DEF m
<1>10. ASSUME m \in Nat PROVE Rounded(v, type) = Binade(m, e)
  <2>1. e \in Int /\ Up(e) \in Nat
    BY <1>0, UpDown
  <2>2. CASE e >= 0
    <3> DEFINE n == m * pow2[e]
    <3>1. Up(e) = pow2[e] /\ Down(e) = 1
      BY <2>2 DEF Up, Down
    <3>2. n \in Nat
      BY <1>10, <2>1, <3>1
    <3>3. Ratio(n, 1) = Whole(n)
      <4>1. Whole(n) \in Float /\ Whole(n) = <<n, 1>>
        BY <3>2, FloatRatios DEF Whole
      <4> HIDE DEF n
      <4>2. Coprime(Magnitude(n), 1)
        BY <4>1 DEF Float, Coprime, NaN
      <4>3. n * 1 = n * 1
        OBVIOUS
      <4>4. Ratio(n, 1) = <<n, 1>>
        BY <3>2, <4>2, <4>3, RatioIs
      <4>5. QED
        BY <4>1, <4>4
    <3>4. QED
      BY <1>9, <2>2, <3>1, <3>3 DEF Binade
  <2>3. CASE ~(e >= 0)
    <3>1. Up(e) = 1 /\ Down(e) = pow2[-e] /\ m * 1 = m
      BY <1>10, <2>3 DEF Up, Down
    <3>2. QED
      BY <1>9, <2>3, <3>1 DEF Binade
  <2>4. QED
    BY <2>2, <2>3
<1>11. QED
  BY <1>10 DEF m

(* The integer that is less than a half away.                                *)
LEMMA NearestIs ==
  ASSUME NEW A \in Nat, NEW B \in Nat \ {0}, NEW m \in Nat,
         2 * A < (2 * m + 1) * B, (2 * m - 1) * B < 2 * A
  PROVE  Nearest(<<A, B>>) = m
<1> DEFINE q == A \div B
           r == A % B
           t == m * B
           s == B * q
<1>1. q \in Nat /\ r \in 0..(B - 1) /\ A = B * q + r
  BY Division
<1>2. Nearest(<<A, B>>) = IF 2 * r > B \/ (2 * r = B /\ q % 2 = 1) THEN q + 1 ELSE q
  BY Zenon DEF Nearest
<1> HIDE DEF q, r
<1>3. t \in Nat /\ s \in Nat
  BY <1>1
<1>4. 2 * A < 2 * t + B /\ 2 * t - B < 2 * A /\ A = s + r /\ r \in Nat /\ r < B
  <2>1. (2 * m + 1) * B = 2 * t + B /\ (2 * m - 1) * B = 2 * t - B
    OBVIOUS
  <2>2. QED
    BY <1>1, <2>1
<1>5. CASE q = m
  <2>1. s = t
    BY <1>5
  <2> HIDE DEF s, t
  <2>2. 2 * r < B
    BY <1>3, <1>4, <2>1
  <2>3. QED
    BY <1>2, <1>4, <1>5, <2>2
<1>6. CASE q + 1 = m
  <2>1. t = s + B
    BY <1>1, <1>6
  <2> HIDE DEF s, t
  <2>2. 2 * r > B
    BY <1>3, <1>4, <2>1
  <2>3. QED
    BY <1>2, <1>6, <2>2
<1>7. CASE q > m
  <2>1. s >= t + B
    <3>1. B * q >= B * (m + 1)
      BY <1>1, <1>7
    <3>2. B * (m + 1) = t + B
      OBVIOUS
    <3>3. QED
      BY <3>1, <3>2
  <2> HIDE DEF s, t
  <2>2. QED
    BY <1>3, <1>4, <2>1
<1>8. CASE q + 1 < m
  <2>1. t >= s + 2 * B
    <3>1. B * m >= B * (q + 2)
      BY <1>1, <1>8
    <3>2. B * (q + 2) = s + 2 * B /\ B * m = t
      BY <1>1
    <3>3. QED
      BY <3>1, <3>2
  <2> HIDE DEF s, t
  <2>2. QED
    BY <1>3, <1>4, <2>1
<1>9. QED
  BY <1>1, <1>5, <1>6, <1>7, <1>8

(* Equal quotients are the same in lowest terms.                             *)
LEMMA RatioSame ==
  ASSUME NEW i \in Int, NEW c \in Nat \ {0}, NEW j \in Int, NEW d \in Nat \ {0}, i * d = j * c
  PROVE  Ratio(i, c) = Ratio(j, d)
<1>1. PICK a \in Int, b \in Nat \ {0}, g \in Nat \ {0} : Lowest(j, d, a, b, g)
  BY RatioLowest
<1>2. Ratio(j, d) = <<a, b>> /\ j = g * a /\ d = g * b /\ Coprime(Magnitude(a), b)
  BY <1>1 DEF Lowest
<1>3. i * b = a * c
  <2> DEFINE x == i * b
             y == a * c
  <2>1. x * g = i * (g * b) /\ y * g = (g * a) * c
    OBVIOUS
  <2>2. x \in Int /\ y \in Int /\ x * g = y * g
    BY <1>2, <2>1
  <2> HIDE DEF x, y
  <2>3. x = y
    BY <2>2
  <2>4. QED
    BY <2>3 DEF x, y
<1>4. QED
  BY <1>2, <1>3, RatioIs

(* A value near a float with a mantissa is rounded to that float; at the       *)
(* least mantissa the value may lie below, where the exponent is one less.   *)
Around(p, q, s, e, type) ==
  /\ 4 * (p * Down(e)) < (4 * s + 1) * (q * Up(e))
  /\ (4 * s - 1) * (q * Up(e)) < 4 * (p * Down(e))
  /\ p * Down(e) < Lo(type) * (q * Up(e)) => e - 1 \in ExponentsOf(type)

(* Of a value in whatever terms. *)
LEMMA RoundsTo ==
  ASSUME NEW type \in {F32, F64}, NEW p \in Nat \ {0}, NEW q \in Nat \ {0}, NEW s \in Lo(type)..(Hi(type) - 1),
         NEW e \in ExponentsOf(type), Around(p, q, s, e, type)
  PROVE  Rounded(<<p, q>>, type) = Binade(s, e)
<1> DEFINE U == Up(e)
           D == Down(e)
           A == p * D
           B == q * U
<1>0. e \in AllExponents
  BY Mantissas
<1>1. /\ U \in Nat \ {0} /\ D \in Nat \ {0} /\ Lo(type) \in Nat \ {0} /\ Hi(type) = 2 * Lo(type)
      /\ s \in Nat /\ Lo(type) <= s /\ s < Hi(type) /\ e \in Int
  BY <1>0, UpDown, Mantissas
<1>2. 4 * A < (4 * s + 1) * B /\ (4 * s - 1) * B < 4 * A
  BY DEF Around
<1>3. A \in Nat /\ B \in Nat \ {0}
  BY <1>1
<1> DEFINE t == s * B
           l == Lo(type) * B
           h == Hi(type) * B
<1>4. /\ t \in Nat /\ l \in Nat /\ h \in Nat /\ l <= t /\ t + B <= h
      /\ 4 * A < 4 * t + B /\ 4 * t - B < 4 * A /\ h = 2 * l
  <2> HIDE DEF A, B
  <2>1. (4 * s + 1) * B = 4 * t + B /\ (4 * s - 1) * B = 4 * t - B
    BY <1>1, <1>3
  <2>2. l <= t /\ (s + 1) * B <= Hi(type) * B /\ (s + 1) * B = t + B
    BY <1>1, <1>3
  <2>3. h = 2 * l /\ t \in Nat /\ l \in Nat /\ h \in Nat
    BY <1>1, <1>3
  <2>4. QED
    BY <1>2, <2>1, <2>2, <2>3
<1>5. CASE l <= A
  <2>1. Fitting(p, q, e, type)
    <3>1. A < h
      <4> HIDE DEF A, B, t, l, h
      <4>1. QED
        BY <1>3, <1>4
    <3>2. QED
      BY <1>5, <3>1 DEF Fitting
  <2>2. Nearest(<<A, B>>) = s
    <3>1. 2 * A < (2 * s + 1) * B /\ (2 * s - 1) * B < 2 * A
      <4> HIDE DEF A, B
      <4>1. (2 * s + 1) * B = 2 * t + B /\ (2 * s - 1) * B = 2 * t - B
        BY <1>1, <1>3
      <4> HIDE DEF t, l, h
      <4>2. QED
        BY <1>3, <1>4, <4>1
    <3> HIDE DEF A, B
    <3>2. QED
      BY <1>1, <1>3, <3>1, NearestIs
  <2>3. QED
    BY <1>1, <2>1, <2>2, RoundedWith
<1>6. CASE A < l
  <2>1. s = Lo(type)
    <3> SUFFICES ASSUME s # Lo(type) PROVE FALSE
      OBVIOUS
    <3>1. (Lo(type) + 1) * B <= s * B /\ (Lo(type) + 1) * B = l + B
      <4> DEFINE L == Lo(type)
      <4> HIDE DEF A, B, L
      <4>1. L \in Nat /\ L + 1 <= s
        BY <1>1 DEF L
      <4>2. (L + 1) * B <= s * B /\ (L + 1) * B = L * B + B
        BY <1>1, <1>3, <4>1
      <4>3. QED
        BY <4>2 DEF L
    <3>2. l + B <= t
      BY <3>1
    <3> HIDE DEF A, B, t, l, h
    <3>3. QED
      BY <1>3, <1>4, <1>6, <3>2
  <2>2. e - 1 \in ExponentsOf(type) /\ e - 1 \in AllExponents
    BY <1>6, Mantissas DEF Around
  <2> DEFINE f == e - 1
             V == Up(f)
             C == Down(f)
             G == p * C
             K == q * V
  <2>3. V \in Nat \ {0} /\ C \in Nat \ {0}
    BY <2>2, UpDown
  <2>4. U * C = 2 * (V * D)
    <3>1. f \in AllExponents /\ f + 1 = e /\ e \in AllExponents
      BY <1>0, <1>1, <2>2
    <3> HIDE DEF f
    <3>2. f + 1 \in AllExponents
      BY <3>1
    <3>3. Up(f + 1) * Down(f) = 2 * (Up(f) * Down(f + 1))
      BY <3>1, <3>2, NextExponent
    <3>4. QED
      BY <3>1, <3>3
  <2>5. G \in Nat /\ K \in Nat \ {0}
    BY <2>3
  <2>6. G * D = A * C /\ 2 * (K * D) = B * C
    <3>1. G * D = A * C
      <4> HIDE DEF C, D
      <4>1. QED
        BY <1>1, <2>3
    <3>2. 2 * (K * D) = q * (2 * (V * D)) /\ q * (U * C) = B * C
      <4> HIDE DEF C, D, U, V
      <4>1. QED
        BY <1>1, <2>3
    <3>3. QED
      BY <2>4, <3>1, <3>2
  (* At the exponent below, everything is twice as fine. *)
  <2>7. ASSUME NEW x \in Int, NEW y \in Nat, x * B < y * A
        PROVE  x * (2 * K) < y * G
    <3> HIDE DEF A, B, G, K, C, D
    <3>1. (x * B) * C < (y * A) * C
      <4> DEFINE i == x * B
                 j == y * A
      <4>1. i \in Int /\ j \in Int /\ i < j
        BY <1>3, <2>7
      <4> HIDE DEF i, j
      <4>2. i * C < j * C
        BY <2>3, <4>1
      <4>3. QED
        BY <4>2 DEF i, j
    <3>2. (x * B) * C = x * (B * C) /\ (y * A) * C = y * (A * C)
      BY <1>3, <2>3, <2>7
    <3>3. x * (2 * (K * D)) < y * (G * D)
      BY <2>6, <3>1, <3>2
    <3>4. x * (2 * (K * D)) = (x * (2 * K)) * D /\ y * (G * D) = (y * G) * D
      BY <1>1, <2>5, <2>7
    <3> DEFINE i == x * (2 * K)
               j == y * G
    <3>5. i \in Int /\ j \in Int /\ i * D < j * D
      BY <2>5, <2>7, <3>3, <3>4
    <3> HIDE DEF i, j
    <3>6. i < j
      BY <1>1, <3>5
    <3>7. QED
      BY <3>6 DEF i, j
  <2>8. G < Hi(type) * K
    <3> HIDE DEF A, B, G, K, C, D
    <3>1. A * C < l * C
      <4> HIDE DEF l
      <4>1. QED
        BY <1>3, <1>4, <1>6, <2>3
    <3>2. l * C = Lo(type) * (B * C)
      BY <1>1, <1>3, <2>3
    <3>3. G * D < Lo(type) * (2 * (K * D))
      BY <2>6, <3>1, <3>2
    <3>4. Lo(type) * (2 * (K * D)) = (Hi(type) * K) * D
      BY <1>1, <2>5
    <3> DEFINE j == Hi(type) * K
    <3>5. j \in Nat /\ G * D < j * D
      BY <1>1, <2>5, <3>3, <3>4
    <3> HIDE DEF j
    <3>6. G < j
      BY <1>1, <2>5, <3>5
    <3>7. QED
      BY <3>6 DEF j
  <2>9. (4 * Lo(type) - 1) * (2 * K) < 4 * G
    <3>1. (4 * Lo(type) - 1) * B < 4 * A
      BY <1>2, <2>1
    <3>2. 4 * Lo(type) - 1 \in Int /\ 4 \in Nat
      BY <1>1
    <3> DEFINE x == 4 * Lo(type) - 1
    <3> HIDE DEF x, A, B, G, K
    <3>3. x * B < 4 * A /\ x \in Int
      BY <3>1, <3>2 DEF x
    <3>4. x * (2 * K) < 4 * G
      BY <2>7, <3>3
    <3>5. QED
      BY <3>4 DEF x
  <2> DEFINE z == Hi(type) * K
  <2>10. z \in Nat /\ Lo(type) * K \in Nat /\ z = 2 * (Lo(type) * K) /\ 4 * z - 2 * K < 4 * G /\ K <= Lo(type) * K
    <3> HIDE DEF G, K
    <3>1. (4 * Lo(type) - 1) * (2 * K) = 4 * z - 2 * K
      BY <1>1, <2>5
    <3>2. Lo(type) * K >= 1 * K
      BY <1>1, <2>5
    <3>3. QED
      BY <1>1, <2>5, <2>9, <3>1, <3>2
  <2>11. Fitting(p, q, f, type)
    <3>1. Lo(type) * K <= G
      <4> DEFINE y == Lo(type) * K
      <4>1. y \in Nat
        BY <2>10
      <4>2. z = 2 * y /\ K <= y
        BY <2>10
      <4> HIDE DEF y, z, G, K
      <4>3. y <= G
        BY <2>5, <2>10, <4>1, <4>2
      <4>4. QED
        BY <4>3 DEF y
    <3>2. QED
      BY <2>8, <3>1 DEF Fitting
  <2>12. Nearest(<<G, K>>) = Hi(type)
    <3> HIDE DEF G, K
    <3>1. (2 * Hi(type) + 1) * K = 2 * z + K /\ (2 * Hi(type) - 1) * K = 2 * z - K
      BY <1>1, <2>5
    <3>2. G < z
      BY <2>8
    <3> HIDE DEF z
    <3>3. 2 * G < (2 * Hi(type) + 1) * K /\ (2 * Hi(type) - 1) * K < 2 * G
      BY <2>5, <2>10, <3>1, <3>2
    <3>4. Hi(type) \in Nat
      BY <1>1
    <3>5. QED
      BY <2>5, <3>3, <3>4, NearestIs
  <2>13. Rounded(<<p, q>>, type) = Binade(Hi(type), f)
    BY <1>1, <2>2, <2>11, <2>12, RoundedWith
  <2>14. Binade(Hi(type), f) = Binade(Lo(type), e)
    <3> HIDE DEF U, D, V, C
    <3>1. Binade(Hi(type), f) = Ratio(Hi(type) * V, C) /\ Binade(Lo(type), e) = Ratio(Lo(type) * U, D)
      BY DEF Binade, U, D, V, C
    <3> DEFINE i == Hi(type) * V
               j == Lo(type) * U
    <3>2. i * D = j * C
      <4>1. (Hi(type) * V) * D = Lo(type) * (2 * (V * D)) /\ (Lo(type) * U) * C = Lo(type) * (U * C)
        BY <1>1, <2>3
      <4>2. QED
        BY <2>4, <4>1
    <3>3. i \in Int /\ j \in Int
      BY <1>1, <2>3
    <3> HIDE DEF i, j
    <3>4. Ratio(i, C) = Ratio(j, D)
      BY <1>1, <2>3, <3>2, <3>3, RatioSame
    <3>5. QED
      BY <3>1, <3>4 DEF i, j
  <2>15. QED
    BY <2>1, <2>13, <2>14
<1>7. QED
  BY <1>3, <1>4, <1>5, <1>6

(* The nearest integer of a value with an exponent is a mantissa, or the       *)
(* least of the next exponent.                                               *)
LEMMA NearestRange ==
  ASSUME NEW type \in {F32, F64}, NEW A \in Nat, NEW B \in Nat \ {0}, Lo(type) * B <= A, A < Hi(type) * B
  PROVE  Nearest(<<A, B>>) \in Lo(type)..Hi(type)
<1> DEFINE q == A \div B
           r == A % B
           m == Nearest(<<A, B>>)
<1>1. q \in Nat /\ r \in 0..(B - 1) /\ A = B * q + r
  BY Division
<1>2. m \in {q, q + 1}
  BY Zenon DEF Nearest
<1>3. Lo(type) \in Nat /\ Hi(type) \in Nat
  BY Mantissas
<1> HIDE DEF q, r, m
<1>4. q < Hi(type)
  <2> SUFFICES ASSUME Hi(type) <= q PROVE FALSE
    BY <1>1, <1>3
  <2>1. Hi(type) * B <= q * B /\ q * B = B * q
    BY <1>1, <1>3
  <2> DEFINE x == Hi(type) * B
             y == B * q
  <2>2. x \in Nat /\ y \in Nat /\ A < x /\ x <= y /\ A = y + r /\ r \in Nat
    BY <1>1, <1>3, <2>1
  <2> HIDE DEF x, y
  <2>3. QED
    BY <2>2
<1>5. Lo(type) <= q
  <2> SUFFICES ASSUME q + 1 <= Lo(type) PROVE FALSE
    BY <1>1, <1>3
  <2>1. (q + 1) * B <= Lo(type) * B /\ (q + 1) * B = B * q + B
    BY <1>1, <1>3
  <2> DEFINE x == Lo(type) * B
             y == B * q
  <2>2. x \in Nat /\ y \in Nat /\ x <= A /\ y + B <= x /\ A = y + r /\ r \in Nat /\ r < B
    BY <1>1, <1>3, <2>1
  <2> HIDE DEF x, y
  <2>3. QED
    BY <2>2
<1>6. QED
  BY <1>1, <1>2, <1>3, <1>4, <1>5 DEF m

(* The nearest integer is no further than a half away, and even if it is.    *)
LEMMA NearestBounds ==
  ASSUME NEW A \in Nat, NEW B \in Nat \ {0}
  PROVE  LET m == Nearest(<<A, B>>)
         IN /\ m \in Nat
            /\ 2 * (m * B) - B <= 2 * A /\ 2 * A <= 2 * (m * B) + B
            /\ 2 * (m * B) - B = 2 * A \/ 2 * A = 2 * (m * B) + B => m % 2 = 0
<1> DEFINE q == A \div B
           r == A % B
           m == Nearest(<<A, B>>)
           s == B * q
           t == m * B
<1>1. q \in Nat /\ r \in 0..(B - 1) /\ A = B * q + r
  BY Division
<1>2. m = IF 2 * r > B \/ (2 * r = B /\ q % 2 = 1) THEN q + 1 ELSE q
  BY Zenon DEF Nearest
<1> HIDE DEF q, r, m
<1>3. s \in Nat /\ A = s + r /\ r \in Nat /\ r < B
  BY <1>1
<1>4. CASE 2 * r > B \/ (2 * r = B /\ q % 2 = 1)
  <2>1. m = q + 1
    BY <1>2, <1>4
  <2>2. m \in Nat /\ t = s + B
    BY <1>1, <2>1
  <2>3. q % 2 = 1 => m % 2 = 0
    BY <1>1, <2>1
  <2> HIDE DEF s, t
  <2>4. 2 * t - B <= 2 * A /\ 2 * A <= 2 * t + B
    BY <1>3, <1>4, <2>2
  <2>5. 2 * t - B = 2 * A \/ 2 * A = 2 * t + B => 2 * r = B
    BY <1>3, <1>4, <2>2
  <2>6. 2 * r = B => m % 2 = 0
    BY <1>3, <1>4, <2>3
  <2>7. QED
    BY <2>2, <2>4, <2>5, <2>6 DEF t, m
<1>5. CASE ~(2 * r > B \/ (2 * r = B /\ q % 2 = 1))
  <2>1. m = q
    BY <1>2, <1>5
  <2>2. m \in Nat /\ t = s
    BY <1>1, <2>1
  <2>3. q % 2 \in {0, 1}
    BY <1>1
  <2> HIDE DEF s, t
  <2>4. 2 * t - B <= 2 * A /\ 2 * A <= 2 * t + B
    BY <1>3, <1>5, <2>2
  <2>5. 2 * t - B = 2 * A \/ 2 * A = 2 * t + B => 2 * r = B
    BY <1>3, <2>2
  <2>6. 2 * r = B => m % 2 = 0
    BY <1>5, <2>1, <2>3
  <2>7. QED
    BY <2>2, <2>4, <2>5, <2>6 DEF t, m
<1>6. QED
  BY <1>4, <1>5

(* A larger value has no smaller nearest integer.                            *)
LEMMA NearestMonotone ==
  ASSUME NEW A \in Nat, NEW B \in Nat \ {0}, NEW C \in Nat, NEW D \in Nat \ {0},
         A * D <= C * B
  PROVE  Nearest(<<A, B>>) <= Nearest(<<C, D>>)
<1> DEFINE m == Nearest(<<A, B>>)
           k == Nearest(<<C, D>>)
<1>1. /\ m \in Nat /\ 2 * (m * B) - B <= 2 * A
      /\ 2 * (m * B) - B = 2 * A => m % 2 = 0
  BY NearestBounds
<1>2. /\ k \in Nat /\ 2 * C <= 2 * (k * D) + D
      /\ 2 * C = 2 * (k * D) + D => k % 2 = 0
  BY NearestBounds
<1> HIDE DEF m, k
<1> SUFFICES ASSUME k < m PROVE FALSE
  BY <1>1, <1>2 DEF m, k
<1> DEFINE u == 2 * A
           v == 2 * C
           x == (2 * m - 1) * B
           y == (2 * k + 1) * D
<1>3. x \in Nat /\ y \in Nat /\ u \in Nat /\ v \in Nat /\ x <= u /\ v <= y
  <2>1. x = 2 * (m * B) - B /\ y = 2 * (k * D) + D
    BY <1>1, <1>2
  <2>2. x \in Nat /\ y \in Nat
    <3>1. 2 * m - 1 \in Nat /\ 2 * k + 1 \in Nat
      BY <1>1, <1>2
    <3> DEFINE i == 2 * m - 1
               j == 2 * k + 1
    <3> HIDE DEF i, j
    <3>2. i * B \in Nat /\ j * D \in Nat
      BY <3>1 DEF i, j
    <3>3. QED
      BY <3>2 DEF i, j
  <2>3. QED
    BY <1>1, <1>2, <2>1, <2>2
<1>4. u * D <= v * B
  <2>1. u * D = 2 * (A * D) /\ v * B = 2 * (C * B)
    OBVIOUS
  <2> DEFINE i == A * D
             j == C * B
  <2>2. i \in Nat /\ j \in Nat /\ i <= j
    OBVIOUS
  <2> HIDE DEF i, j
  <2>3. 2 * i <= 2 * j
    BY <2>2
  <2>4. QED
    BY <2>1, <2>3 DEF i, j
<1>5. x * D = (2 * m - 1) * (B * D) /\ y * B = (2 * k + 1) * (B * D)
  BY <1>1, <1>2
<1>6. (2 * k + 1) * (B * D) <= (2 * m - 1) * (B * D)
  <2> DEFINE w == B * D
             i == 2 * k + 1
             j == 2 * m - 1
  <2>1. w \in Nat /\ i \in Nat /\ j \in Nat /\ i <= j
    BY <1>1, <1>2
  <2> HIDE DEF w, i, j
  <2>2. i * w <= j * w
    BY <2>1
  <2>3. QED
    BY <2>2 DEF w, i, j
<1>7. x = 2 * (m * B) - B /\ y = 2 * (k * D) + D
  BY <1>1, <1>2
<1> HIDE DEF u, v, x, y
<1>8. x * D <= u * D /\ v * B <= y * B
  BY <1>3
<1>9. x * D = u * D /\ v * B = y * B /\ (2 * k + 1) * (B * D) = (2 * m - 1) * (B * D)
  <2>1. x * D \in Nat /\ u * D \in Nat /\ v * B \in Nat /\ y * B \in Nat
    BY <1>3
  <2>2. y * B <= x * D
    BY <1>5, <1>6
  <2> DEFINE i == x * D
             j == u * D
             l == v * B
             h == y * B
  <2>3. i \in Nat /\ j \in Nat /\ l \in Nat /\ h \in Nat /\ i <= j /\ j <= l /\ l <= h /\ h <= i
    BY <1>4, <1>8, <2>1, <2>2
  <2> HIDE DEF i, j, l, h
  <2>4. i = j /\ l = h /\ h = i
    BY <2>3
  <2>5. QED
    BY <1>5, <2>4 DEF i, j, l, h
<1>10. x = u /\ v = y
  BY <1>3, <1>9
<1>11. m % 2 = 0 /\ k % 2 = 0
  BY <1>1, <1>2, <1>7, <1>10 DEF u, v
<1>12. m = k + 1
  <2> DEFINE w == B * D
             i == 2 * k + 1
             j == 2 * m - 1
  <2>1. w \in Nat \ {0} /\ i \in Nat /\ j \in Nat
    BY <1>1, <1>2
  <2>2. i * w = j * w
    BY <1>9
  <2> HIDE DEF w, i, j
  <2>3. i = j
    BY <2>1, <2>2
  <2>4. QED
    BY <1>1, <1>2, <2>3 DEF i, j
<1>13. QED
  BY <1>1, <1>2, <1>11, <1>12

(* A value that is not less has not fewer bits.                              *)
LEMMA BitsMonotone ==
  ASSUME NEW type \in {F32, F64}, NEW p \in Nat, NEW q \in Nat \ {0}, NEW r \in Nat, NEW t \in Nat \ {0},
         p * t <= r * q, NEW e \in AllExponents
  PROVE  /\ ManyBits(p, q, e, type) => ManyBits(r, t, e, type)
         /\ FewBits(r, t, e, type) => FewBits(p, q, e, type)
<1> DEFINE U == Up(e)
           D == Down(e)
           lo == Lo(type)
           hi == Hi(type)
<1>1. U \in Nat \ {0} /\ D \in Nat \ {0} /\ lo \in Nat \ {0} /\ hi \in Nat \ {0}
  BY UpDown, Mantissas
<1>2. (p * D) * t <= (r * D) * q
  <2> HIDE DEF U, D, lo, hi
  <2>1. (p * D) * t = (p * t) * D /\ (r * D) * q = (r * q) * D
    BY <1>1
  <2> DEFINE i == p * t
             j == r * q
  <2>2. i \in Nat /\ j \in Nat /\ i <= j
    OBVIOUS
  <2> HIDE DEF i, j
  <2>3. i * D <= j * D
    BY <1>1, <2>2
  <2>4. QED
    BY <2>1, <2>3 DEF i, j
<1>3. ASSUME ManyBits(p, q, e, type) PROVE ManyBits(r, t, e, type)
  <2>1. lo * (q * U) <= p * D
    BY <1>3 DEF ManyBits
  <2> HIDE DEF U, D, lo, hi
  <2>2. (lo * (q * U)) * t <= (p * D) * t
    <3> DEFINE i == lo * (q * U)
               j == p * D
    <3>1. i \in Nat /\ j \in Nat /\ i <= j
      BY <1>1, <2>1
    <3> HIDE DEF i, j
    <3>2. i * t <= j * t
      BY <3>1
    <3>3. QED
      BY <3>2 DEF i, j
  <2>3. (lo * (q * U)) * t = (lo * (t * U)) * q
    BY <1>1
  <2> DEFINE i == lo * (t * U)
             j == r * D
             h == (p * D) * t
  <2>4. i \in Nat /\ j \in Nat /\ h \in Nat /\ i * q <= h /\ h <= j * q
    BY <1>1, <1>2, <2>2, <2>3
  <2>5. i * q \in Nat /\ j * q \in Nat
    BY <2>4
  <2> HIDE DEF i, j, h
  <2>6. i * q <= j * q
    BY <2>4, <2>5
  <2>7. i <= j
    BY <2>4, <2>6
  <2>8. QED
    BY <2>7 DEF i, j, ManyBits, U, D, lo
<1>4. ASSUME FewBits(r, t, e, type) PROVE FewBits(p, q, e, type)
  <2>1. r * D < hi * (t * U)
    BY <1>4 DEF FewBits
  <2> HIDE DEF U, D, lo, hi
  <2>2. (r * D) * q < (hi * (t * U)) * q
    <3> DEFINE i == hi * (t * U)
               j == r * D
    <3>1. i \in Nat /\ j \in Nat /\ j < i
      BY <1>1, <2>1
    <3> HIDE DEF i, j
    <3>2. j * q < i * q
      BY <3>1
    <3>3. QED
      BY <3>2 DEF i, j
  <2>3. (hi * (t * U)) * q = (hi * (q * U)) * t
    BY <1>1
  <2> DEFINE i == hi * (q * U)
             j == p * D
             h == (r * D) * q
  <2>4. i \in Nat /\ j \in Nat /\ h \in Nat /\ j * t <= h /\ h < i * t
    BY <1>1, <1>2, <2>2, <2>3
  <2>5. i * t \in Nat /\ j * t \in Nat
    BY <2>4
  <2> HIDE DEF i, j, h
  <2>6. j * t < i * t
    BY <2>4, <2>5
  <2>7. j < i
    BY <2>4, <2>6
  <2>8. QED
    BY <2>7 DEF i, j, FewBits, U, D, hi
<1>5. QED
  BY <1>3, <1>4

(* Between an exponent for which it has enough bits and one for which it has  *)
(* not too many is a value's own.                                            *)
LEMMA ExponentBetween ==
  ASSUME NEW type \in {F32, F64}, NEW p \in Nat, NEW q \in Nat \ {0}, NEW i \in ExponentsOf(type), NEW j \in ExponentsOf(type),
         ManyBits(p, q, i, type), FewBits(p, q, j, type)
  PROVE  \E e \in ExponentsOf(type) : Fitting(p, q, e, type)
<1>1. i \in Int /\ j \in Int /\ type.range \in Nat /\ ExponentsOf(type) \subseteq AllExponents
      /\ \A g \in ExponentsOf(type) : g \in AllExponents
  BY TypeParts, Mantissas DEF ExponentsOf
<1>2. CASE j < i
  <2>1. FALSE
    BY <1>1, <1>2, BitsShrink
  <2>2. QED
    BY <2>1
<1>3. CASE i <= j
  <2> DEFINE S == {k \in Nat : i + k \in ExponentsOf(type) /\ FewBits(p, q, i + k, type)}
  <2>1. j - i \in Nat /\ i + (j - i) = j
    BY <1>1, <1>3
  <2>2. j - i \in S
    BY <2>1
  <2>3. S \in SUBSET Nat
    OBVIOUS
  <2> HIDE DEF S
  <2>4. PICK k \in S : \A l \in S : k <= l
    BY <2>2, <2>3, LeastExists
  <2> USE DEF S
  <2>5. k \in Nat /\ i + k \in ExponentsOf(type) /\ FewBits(p, q, i + k, type)
    BY <2>4
  <2>6. CASE k = 0
    <3>1. i + k = i
      BY <1>1, <2>6
    <3>2. Fitting(p, q, i, type)
      BY <2>5, <3>1 DEF Fitting, ManyBits, FewBits
    <3>3. QED
      BY <3>2
  <2>7. CASE k # 0
    <3> DEFINE h == i + (k - 1)
               e == i + k
    <3>1. k - 1 \in Nat /\ ~(k <= k - 1) /\ h + 1 = e /\ e \in ExponentsOf(type)
      BY <1>1, <2>5, <2>7
    <3>2. h \in ExponentsOf(type)
      BY <1>1, <2>5, <3>1 DEF ExponentsOf
    <3>3. k - 1 \notin S
      BY <2>4, <3>1
    <3>4. ~FewBits(p, q, h, type)
      BY <3>1, <3>2, <3>3
    <3> HIDE DEF h, e, S
    <3>5. Up(e) * Down(h) = 2 * (Up(h) * Down(e))
      <4>1. h + 1 \in AllExponents /\ h \in AllExponents
        BY <1>1, <3>1, <3>2
      <4>2. Up(h + 1) * Down(h) = 2 * (Up(h) * Down(h + 1))
        BY <4>1, NextExponent
      <4>3. QED
        BY <3>1, <4>2
    <3> DEFINE u == Up(h)
               d == Down(h)
               U == Up(e)
               D == Down(e)
               lo == Lo(type)
               hi == Hi(type)
    <3>6. /\ u \in Nat \ {0} /\ d \in Nat \ {0} /\ U \in Nat \ {0} /\ D \in Nat \ {0}
          /\ lo \in Nat \ {0} /\ hi = 2 * lo
      BY <1>1, <3>1, <3>2, UpDown, Mantissas
    <3>7. hi * (q * u) <= p * d
      <4>1. ~(p * d < hi * (q * u))
        BY <3>4 DEF FewBits
      <4> HIDE DEF u, d, hi, lo
      <4>2. p * d \in Nat /\ hi * (q * u) \in Nat
        BY <3>6
      <4>3. QED
        BY <4>1, <4>2
    <3>8. U * d = 2 * (u * D)
      BY <3>5
    <3> HIDE DEF u, d, U, D, lo, hi
    <3>9. (hi * (q * u)) * D <= (p * d) * D
      <4> DEFINE x == hi * (q * u)
                 y == p * d
      <4>1. x \in Nat /\ y \in Nat /\ x <= y
        BY <3>6, <3>7
      <4> HIDE DEF x, y
      <4>2. x * D <= y * D
        BY <3>6, <4>1
      <4>3. QED
        BY <4>2 DEF x, y
    <3>10. (hi * (q * u)) * D = (lo * (q * U)) * d
      <4>1. (hi * (q * u)) * D = (lo * q) * (2 * (u * D)) /\ (lo * (q * U)) * d = (lo * q) * (U * d)
        BY <3>6
      <4>2. QED
        BY <3>8, <4>1
    <3>11. (p * d) * D = (p * D) * d
      BY <3>6
    <3> DEFINE x == lo * (q * U)
               y == p * D
    <3>12. x \in Nat /\ y \in Nat /\ x * d <= y * d
      BY <3>6, <3>9, <3>10, <3>11
    <3> HIDE DEF x, y
    <3>13. x <= y
      BY <3>6, <3>12
    <3>14. FewBits(p, q, e, type)
      BY <2>5 DEF e
    <3>15. Fitting(p, q, e, type)
      BY <3>13, <3>14 DEF Fitting, FewBits, x, y, lo, U, D
    <3>16. QED
      BY <3>1, <3>15
  <2>8. QED
    BY <2>6, <2>7
<1>4. QED
  BY <1>1, <1>2, <1>3

(* Finite values, compared across.                                           *)
Below(v, w) == v[1] * w[2] <= w[1] * v[2]

(* A float that is not negative, and finite. *)
IsValue(v) == v \in Float /\ v[1] \in Nat /\ v[2] \in Nat \ {0}

(* A value is in lowest terms. *)
LEMMA ValueParts ==
  ASSUME NEW v, IsValue(v)
  PROVE  /\ v = <<v[1], v[2]>> /\ v[1] \in Nat /\ v[2] \in Nat \ {0}
         /\ Coprime(Magnitude(v[1]), v[2]) /\ v = Ratio(v[1], v[2]) /\ IsFinite(v)
<1>1. v = <<v[1], v[2]>> /\ v[1] \in Int /\ v[2] \in Nat \ {0} /\ v[1] \in Nat
  BY DEF IsValue, Float
<1>2. v # NaN
  BY <1>1 DEF NaN
<1>3. Coprime(Magnitude(v[1]), v[2])
  BY <1>2 DEF IsValue, Float, Coprime
<1> DEFINE n == v[1]
           d == v[2]
<1>4. n * d = n * d
  OBVIOUS
<1>5. Ratio(n, d) = <<n, d>>
  BY <1>1, <1>3, <1>4, RatioIs
<1>6. QED
  BY <1>1, <1>3, <1>5 DEF IsFinite

(* Values that are not above one another are the same, and a value is        *)
(* compared to a quotient across.                                            *)
LEMMA BelowParts ==
  /\ \A v, w : IsValue(v) /\ IsValue(w) /\ Below(v, w) /\ Below(w, v) => v = w
  /\ \A v, w : IsValue(v) /\ IsValue(w) => Below(v, w) \/ Below(w, v)
  /\ \A v, w : IsValue(v) /\ IsValue(w) /\ AtMost(v, w) => Below(v, w)
  /\ \A m, n \in Nat, d, e \in Nat \ {0} :
       m * e <= n * d => Below(Ratio(m, d), Ratio(n, e))
  /\ \A n \in Nat, d \in Nat \ {0} : IsValue(Ratio(n, d))
<1>1. ASSUME NEW v, NEW w, IsValue(v), IsValue(w)
      PROVE  /\ Below(v, w) /\ Below(w, v) => v = w
             /\ Below(v, w) \/ Below(w, v)
             /\ AtMost(v, w) => Below(v, w)
  <2> DEFINE p == v[1]
             q == v[2]
             r == w[1]
             s == w[2]
  <2>1. /\ v = <<p, q>> /\ p \in Nat /\ q \in Nat \ {0} /\ Coprime(Magnitude(p), q)
        /\ w = <<r, s>> /\ r \in Nat /\ s \in Nat \ {0} /\ Coprime(Magnitude(r), s)
    BY <1>1, ValueParts
  <2>2. (Below(v, w) <=> p * s <= r * q) /\ (Below(w, v) <=> r * q <= p * s)
        /\ (Less(v, w) <=> p * s < r * q)
    BY DEF Below, Less
  <2> HIDE DEF p, q, r, s
  <2>3. p * s \in Nat /\ r * q \in Nat /\ p \in Int /\ r \in Int
    BY <2>1
  <2>4. p * s = r * q => p = r /\ q = s
    BY <2>1, <2>3, LowestUnique
  <2>5. v = w => p = r /\ q = s
    BY DEF p, q, r, s
  <2>6. v = w => p * s = r * q
    BY <2>1, <2>5
  <2> DEFINE i == p * s
             j == r * q
  <2>7. i \in Nat /\ j \in Nat
    BY <2>3
  <2>8. (i <= j /\ j <= i => i = j) /\ (i <= j \/ j <= i) /\ (i < j => i <= j) /\ (i = j => i <= j)
    <3> HIDE DEF i, j
    <3>1. QED
      BY <2>7
  <2>9. QED
    BY <2>1, <2>2, <2>4, <2>6, <2>8 DEF AtMost
<1>2. ASSUME NEW n \in Nat, NEW d \in Nat \ {0} PROVE IsValue(Ratio(n, d))
  <2>1. n \in Int
    OBVIOUS
  <2>2. Ratio(n, d) \in Float /\ IsFinite(Ratio(n, d))
    BY <2>1, FloatRatios
  <2>3. Ratio(n, d) \in Nat \X Nat
    BY <2>1, RatioType
  <2> DEFINE w == Ratio(n, d)
  <2> HIDE DEF w
  <2>4. w \in Float /\ IsFinite(w) /\ w \in Nat \X Nat
    BY <2>2, <2>3 DEF w
  <2>5. IsValue(w)
    BY <2>4 DEF IsValue, IsFinite
  <2>6. QED
    BY <2>5 DEF w
<1>3. ASSUME NEW m \in Nat, NEW n \in Nat, NEW d \in Nat \ {0}, NEW e \in Nat \ {0}, m * e <= n * d
      PROVE  Below(Ratio(m, d), Ratio(n, e))
  <2>1. AtMost(Ratio(m, d), Ratio(n, e))
    BY <1>3, RatioAtMost
  <2>2. IsValue(Ratio(m, d)) /\ IsValue(Ratio(n, e))
    BY <1>2
  <2>3. QED
    BY <1>1, <2>1, <2>2
<1>4. QED
  BY <1>1, <1>2, <1>3

(* A float with all the bits of its type.                                    *)
HasMantissa(x, s, e, type) == s \in Lo(type)..(Hi(type) - 1) /\ e \in ExponentsOf(type) /\ x = Binade(s, e)

(* What its numerator and denominator are to each other. *)
LEMMA MantissaParts ==
  ASSUME NEW type \in {F32, F64}, NEW x, NEW s, NEW e, HasMantissa(x, s, e, type)
  PROVE  /\ x \in Float /\ x[1] \in Nat \ {0} /\ x[2] \in Nat \ {0} /\ x = Ratio(x[1], x[2])
         /\ x = <<x[1], x[2]>> /\ Coprime(Magnitude(x[1]), x[2])
         /\ x[1] * Down(e) = (s * Up(e)) * x[2]
<1> DEFINE n == s * Up(e)
           d == Down(e)
<1>0. e \in AllExponents
  BY Mantissas DEF HasMantissa
<1>1. s \in Nat \ {0} /\ e \in AllExponents /\ e \in Int /\ Up(e) \in Nat \ {0} /\ d \in Nat \ {0}
  BY <1>0, UpDown, Mantissas DEF HasMantissa
<1>2. n \in Nat \ {0} /\ n \in Int
  BY <1>1
<1>3. x = Ratio(n, d)
  BY DEF HasMantissa, Binade
<1> HIDE DEF n, d
<1>4. PICK p \in Int, q \in Nat \ {0}, g \in Nat \ {0} : Lowest(n, d, p, q, g)
  BY <1>1, <1>2, RatioLowest
<1>5. x = <<p, q>> /\ n = g * p /\ d = g * q /\ Coprime(Magnitude(p), q)
  BY <1>3, <1>4 DEF Lowest
<1>6. p \in Nat \ {0}
  BY <1>2, <1>5
<1>7. p * d = n * q
  BY <1>5, <1>6
<1>8. p * q = p * q
  OBVIOUS
<1>9. Ratio(p, q) = <<p, q>>
  BY <1>5, <1>8, RatioIs
<1>10. x \in Float
  BY <1>5, <1>9, FloatRatios
<1>11. QED
  BY <1>5, <1>6, <1>7, <1>9, <1>10 DEF n, d

(* A float with a mantissa is what it is.                                    *)
LEMMA Exact ==
  ASSUME NEW type \in {F32, F64}, NEW x, NEW s, NEW e, HasMantissa(x, s, e, type)
  PROVE  Rounded(x, type) = x
<1> DEFINE a == x[1]
           b == x[2]
           A == a * Down(e)
           B == b * Up(e)
<1>1. /\ s \in Lo(type)..(Hi(type) - 1) /\ e \in ExponentsOf(type) /\ x = Binade(s, e)
      /\ a \in Nat \ {0} /\ b \in Nat \ {0} /\ x = <<a, b>>
      /\ a * Down(e) = (s * Up(e)) * b
  BY MantissaParts DEF HasMantissa
<1>0. e \in AllExponents
  BY Mantissas DEF HasMantissa
<1>2. s \in Nat /\ Lo(type) \in Nat /\ Lo(type) <= s /\ Up(e) \in Nat \ {0} /\ Down(e) \in Nat \ {0}
  BY <1>0, <1>1, UpDown, Mantissas
<1> HIDE DEF a, b
<1>3. B \in Nat \ {0} /\ A = s * B
  <2>1. (s * Up(e)) * b = s * (b * Up(e))
    BY <1>1, <1>2
  <2>2. b * Up(e) \in Nat \ {0}
    BY <1>1, <1>2
  <2>3. QED
    BY <1>1, <2>1, <2>2
<1> HIDE DEF A, B
<1>4. 4 * A < (4 * s + 1) * B /\ (4 * s - 1) * B < 4 * A
  <2> DEFINE t == s * B
  <2>1. t \in Nat /\ (4 * s + 1) * B = 4 * t + B /\ (4 * s - 1) * B = 4 * t - B
    BY <1>2, <1>3
  <2> HIDE DEF t
  <2>2. A = t
    BY <1>3 DEF t
  <2>3. QED
    BY <1>3, <2>1, <2>2
<1>5. ~(A < Lo(type) * B)
  <2>1. Lo(type) * B <= s * B /\ Lo(type) * B \in Nat /\ s * B \in Nat
    BY <1>2, <1>3
  <2>2. QED
    BY <1>3, <2>1
<1>6. Around(a, b, s, e, type)
  BY <1>4, <1>5 DEF Around, A, B
<1>7. Rounded(<<a, b>>, type) = Binade(s, e)
  <2>1. a \in Nat \ {0} /\ b \in Nat \ {0} /\ s \in Lo(type)..(Hi(type) - 1) /\ e \in ExponentsOf(type)
    BY <1>1
  <2>2. QED
    BY <1>6, <2>1, RoundsTo
<1>8. QED
  BY <1>1, <1>7

(* Below all exponents, or below another exponent, is the smaller mantissa.  *)
LEMMA BinadeBelow ==
  ASSUME NEW type \in {F32, F64}, NEW m \in Lo(type)..Hi(type), NEW k \in Lo(type)..Hi(type), NEW e \in AllExponents, NEW f \in AllExponents,
         e < f \/ (e = f /\ m <= k)
  PROVE  Below(Binade(m, e), Binade(k, f))
<1> DEFINE u == Up(e)
           d == Down(e)
           U == Up(f)
           D == Down(f)
<1>1. /\ u \in Nat \ {0} /\ d \in Nat \ {0} /\ U \in Nat \ {0} /\ D \in Nat \ {0}
      /\ Lo(type) \in Nat \ {0} /\ Hi(type) = 2 * Lo(type) /\ m \in Nat /\ k \in Nat /\ e \in Int /\ f \in Int
      /\ m <= Hi(type) /\ Lo(type) <= k
  BY UpDown, Mantissas
<1>2. (m * u) * D <= (k * U) * d
  <2>1. CASE e = f /\ m <= k
    <3>1. u = U /\ d = D
      BY <2>1
    <3> DEFINE w == u * d
    <3>2. (m * u) * d = m * w /\ (k * u) * d = k * w /\ w \in Nat
      <4> HIDE DEF u, d
      <4>1. QED
        BY <1>1
    <3> HIDE DEF w
    <3>3. m * w <= k * w
      BY <1>1, <2>1, <3>2
    <3>4. QED
      BY <3>1, <3>2, <3>3
  <2>2. CASE e < f
    <3>1. 2 * (u * D) <= U * d
      BY <2>2, LargerExponent
    <3> HIDE DEF u, d, U, D
    <3> DEFINE x == u * D
               y == U * d
    <3>2. x \in Nat /\ y \in Nat /\ 2 * x <= y
      BY <1>1, <3>1
    <3>3. (m * u) * D = m * x /\ (k * U) * d = k * y
      BY <1>1
    <3> HIDE DEF x, y
    <3>4. m * x <= Hi(type) * x /\ Hi(type) * x = Lo(type) * (2 * x) /\ Lo(type) * (2 * x) <= Lo(type) * y /\ Lo(type) * y <= k * y
      BY <1>1, <3>2
    <3>5. m * x \in Nat /\ Hi(type) * x \in Nat /\ Lo(type) * y \in Nat /\ k * y \in Nat
      BY <1>1, <3>2
    <3>6. m * x <= k * y
      BY <3>4, <3>5
    <3>7. QED
      BY <3>3, <3>6
  <2>3. QED
    BY <2>1, <2>2
<1>3. Binade(m, e) = Ratio(m * u, d) /\ Binade(k, f) = Ratio(k * U, D)
  BY DEF Binade
<1>4. m * u \in Nat /\ k * U \in Nat
  BY <1>1
<1> HIDE DEF u, d, U, D
<1> DEFINE i == m * u
           j == k * U
<1>5. i \in Nat /\ j \in Nat /\ i * D <= j * d
  BY <1>2, <1>4
<1> HIDE DEF i, j
<1>6. Below(Ratio(i, d), Ratio(j, D))
  BY <1>1, <1>5, BelowParts
<1>7. QED
  BY <1>3, <1>6 DEF i, j

(* What a type holds of a quotient that is not zero: zero or infinity if there *)
(* is no exponent for it, and otherwise what it is rounded to.               *)
LEMMA RoundedIs ==
  ASSUME NEW type \in {F32, F64}, NEW p \in Nat \ {0}, NEW q \in Nat \ {0}
  PROVE  /\ \A e \in ExponentsOf(type) : Fitting(p, q, e, type) =>
              LET m == Nearest(<<p * Down(e), q * Up(e)>>)
              IN m \in Lo(type)..Hi(type) /\ Rounded(<<p, q>>, type) = Binade(m, e)
         /\ (\A e \in ExponentsOf(type) : ~Fitting(p, q, e, type)) =>
              Rounded(<<p, q>>, type) = IF p < q THEN Whole(0) ELSE Infinity
<1> DEFINE v == <<p, q>>
<1>1. v = <<p, q>> /\ IsFinite(v) /\ v[1] = p /\ v[2] = q /\ v[1] # 0
  BY DEF IsFinite
<1>2. Exponents(v, type) = {e \in ExponentsOf(type) : Fitting(p, q, e, type)}
  BY ExponentsAre
<1> HIDE DEF v
<1>3. ASSUME NEW e \in ExponentsOf(type), Fitting(p, q, e, type)
      PROVE  LET m == Nearest(<<p * Down(e), q * Up(e)>>)
             IN m \in Lo(type)..Hi(type) /\ Rounded(<<p, q>>, type) = Binade(m, e)
  <2> DEFINE A == p * Down(e)
             B == q * Up(e)
  <2>0. e \in AllExponents
    BY Mantissas
  <2>1. Up(e) \in Nat \ {0} /\ Down(e) \in Nat \ {0}
    BY <2>0, UpDown
  <2>2. A \in Nat /\ B \in Nat \ {0} /\ Lo(type) * B <= A /\ A < Hi(type) * B
    BY <1>3, <2>1 DEF Fitting
  <2>3. Nearest(<<A, B>>) \in Lo(type)..Hi(type)
    <3> HIDE DEF A, B
    <3>1. QED
      BY <2>2, NearestRange
  <2>4. Nearest(<<A, B>>) \in Nat
    BY <2>3, Mantissas
  <2>5. Rounded(<<p, q>>, type) = Binade(Nearest(<<A, B>>), e)
    BY <1>3, <2>4, RoundedWith
  <2>6. QED
    BY <2>3, <2>5
<1>4. ASSUME \A e \in ExponentsOf(type) : ~Fitting(p, q, e, type)
      PROVE  Rounded(<<p, q>>, type) = IF p < q THEN Whole(0) ELSE Infinity
  <2>1. Exponents(v, type) = {}
    BY <1>2, <1>4
  <2>2. Rounded(v, type) = IF v[1] < v[2] THEN Whole(0) ELSE Infinity
    BY <1>1, <2>1, Zenon DEF Rounded, WithExponent
  <2>3. QED
    BY <1>1, <2>2
<1>5. QED
  BY <1>3, <1>4

(* Zero is below everything. *)
LEMMA ZeroValue ==
  /\ IsValue(Whole(0)) /\ Whole(0) = <<0, 1>>
  /\ \A w : IsValue(w) => Below(Whole(0), w)
  /\ \A v : IsValue(v) /\ v[1] = 0 => v = Whole(0)
<1>1. Whole(0) = <<0, 1>>
  BY DEF Whole
<1>2. IsValue(Whole(0))
  <2>1. Whole(0) \in Float
    BY FloatRatios
  <2>2. QED
    BY <1>1, <2>1 DEF IsValue
<1>4. ASSUME NEW w, IsValue(w) PROVE Below(Whole(0), w)
  <2> DEFINE a == w[1]
             b == w[2]
  <2>1. a \in Nat /\ b \in Nat
    BY <1>4, ValueParts
  <2>2. Below(Whole(0), w) <=> 0 * b <= a * 1
    BY <1>1 DEF Below
  <2> HIDE DEF a, b
  <2>3. QED
    BY <2>1, <2>2
<1>5. ASSUME NEW v, IsValue(v), v[1] = 0 PROVE v = Whole(0)
  <2> DEFINE b == v[2]
  <2>1. b \in Nat \ {0}
    BY <1>5, ValueParts
  <2>2. Below(v, Whole(0)) <=> v[1] * 1 <= 0 * b
    BY <1>1 DEF Below
  <2> HIDE DEF b
  <2>3. Below(v, Whole(0))
    BY <1>5, <2>1, <2>2
  <2>4. QED
    BY <1>2, <1>4, <1>5, <2>3, BelowParts
<1>6. QED
  BY <1>1, <1>2, <1>4, <1>5

(* What a type holds of a quotient is a value or infinite; of zero, zero.     *)
LEMMA RoundedType ==
  ASSUME NEW type \in {F32, F64}, NEW p \in Nat, NEW q \in Nat \ {0}
  PROVE  /\ Rounded(<<p, q>>, type) = Infinity \/ IsValue(Rounded(<<p, q>>, type))
         /\ p = 0 => Rounded(<<p, q>>, type) = Whole(0)
<1>1. CASE p = 0
  <2>1. Rounded(<<p, q>>, type) = Whole(0)
    BY <1>1 DEF Rounded, IsFinite, WithExponent
  <2>2. QED
    BY <2>1, ZeroValue
<1>2. CASE p # 0
  <2>0. p \in Nat \ {0}
    BY <1>2
  <2> DEFINE x == Rounded(<<p, q>>, type)
  <2>1. /\ \A e \in ExponentsOf(type) : Fitting(p, q, e, type) =>
             Nearest(<<p * Down(e), q * Up(e)>>) \in Lo(type)..Hi(type)
             /\ x = Binade(Nearest(<<p * Down(e), q * Up(e)>>), e)
        /\ (\A e \in ExponentsOf(type) : ~Fitting(p, q, e, type)) => x = IF p < q THEN Whole(0) ELSE Infinity
    BY <2>0, RoundedIs
  <2> HIDE DEF x
  <2>2. CASE \E e \in ExponentsOf(type) : Fitting(p, q, e, type)
    <3>1. PICK e \in ExponentsOf(type) : Fitting(p, q, e, type)
      BY <2>2
    <3> DEFINE m == Nearest(<<p * Down(e), q * Up(e)>>)
    <3>2. m \in Lo(type)..Hi(type) /\ x = Binade(m, e)
      BY <2>1, <3>1
    <3> HIDE DEF m
    <3>3. e \in AllExponents /\ m \in Nat
      BY <3>2, Mantissas
    <3> DEFINE n == m * Up(e)
               d == Down(e)
    <3>4. n \in Nat /\ d \in Nat \ {0} /\ x = Ratio(n, d)
      BY <3>2, <3>3, UpDown DEF Binade
    <3> HIDE DEF n, d
    <3>5. IsValue(x)
      BY <3>4, BelowParts
    <3>6. QED
      BY <1>2, <3>5 DEF x
  <2>3. CASE \A e \in ExponentsOf(type) : ~Fitting(p, q, e, type)
    BY <1>2, <2>1, <2>3, ZeroValue DEF x
  <2>4. QED
    BY <2>2, <2>3
<1>3. QED
  BY <1>1, <1>2

(* An integer with an exponent is a value. *)
LEMMA BinadeValue ==
  ASSUME NEW type \in {F32, F64}, NEW m \in Lo(type)..Hi(type), NEW e \in AllExponents
  PROVE  IsValue(Binade(m, e))
<1>1. m \in Nat
  BY Mantissas
<1> DEFINE n == m * Up(e)
           d == Down(e)
<1>2. n \in Nat /\ d \in Nat \ {0} /\ Binade(m, e) = Ratio(n, d)
  BY <1>1, UpDown DEF Binade
<1> HIDE DEF n, d
<1>3. QED
  BY <1>2, BelowParts

(* A type holds no less of a larger quotient.                                *)
LEMMA RoundedMonotone ==
  ASSUME NEW type \in {F32, F64}, NEW p \in Nat, NEW q \in Nat \ {0},
         NEW r \in Nat, NEW t \in Nat \ {0}, p * t <= r * q, IsFinite(Rounded(<<r, t>>, type))
  PROVE  /\ IsValue(Rounded(<<p, q>>, type)) /\ IsValue(Rounded(<<r, t>>, type))
         /\ Below(Rounded(<<p, q>>, type), Rounded(<<r, t>>, type))
<1> DEFINE x == Rounded(<<p, q>>, type)
           y == Rounded(<<r, t>>, type)
<1>1. p \in Nat /\ q \in Nat \ {0} /\ r \in Nat /\ t \in Nat \ {0} /\ p * t <= r * q
  OBVIOUS
<1>2. IsFinite(x) => IsValue(x)
  BY RoundedType DEF IsFinite, Infinity
<1>3. IsValue(y)
  BY RoundedType DEF IsFinite, Infinity
<1>4. CASE p = 0
  BY <1>3, <1>4, RoundedType, ZeroValue
<1>5. CASE p # 0
  <2>1. r # 0
    <3> SUFFICES ASSUME r = 0 PROVE FALSE
      OBVIOUS
    <3>1. p * t <= 0
      BY <1>1
    <3>2. p * t >= 1 * 1
      BY <1>1, <1>5
    <3>3. p * t \in Nat
      BY <1>1
    <3>4. QED
      BY <3>1, <3>2, <3>3
  <2>2. /\ \A e \in ExponentsOf(type) : Fitting(p, q, e, type) =>
             Nearest(<<p * Down(e), q * Up(e)>>) \in Lo(type)..Hi(type)
             /\ x = Binade(Nearest(<<p * Down(e), q * Up(e)>>), e)
        /\ (\A e \in ExponentsOf(type) : ~Fitting(p, q, e, type)) => x = IF p < q THEN Whole(0) ELSE Infinity
    BY <1>5, RoundedIs
  <2>3. /\ \A e \in ExponentsOf(type) : Fitting(r, t, e, type) =>
             Nearest(<<r * Down(e), t * Up(e)>>) \in Lo(type)..Hi(type)
             /\ y = Binade(Nearest(<<r * Down(e), t * Up(e)>>), e)
        /\ (\A e \in ExponentsOf(type) : ~Fitting(r, t, e, type)) => y = IF r < t THEN Whole(0) ELSE Infinity
    BY <2>1, RoundedIs
  <2>4. ~IsFinite(Infinity) /\ IsFinite(y)
    BY DEF IsFinite, Infinity
  <2>10. \A e \in ExponentsOf(type) : e \in AllExponents
    BY Mantissas
  <2>11. \A i, j, e : Fitting(i, j, e, type) <=> ManyBits(i, j, e, type) /\ FewBits(i, j, e, type)
    BY DEF Fitting, ManyBits, FewBits
  <2> HIDE DEF x, y
  <2>5. \A e \in ExponentsOf(type) :
          /\ ManyBits(p, q, e, type) => ManyBits(r, t, e, type)
          /\ FewBits(r, t, e, type) => FewBits(p, q, e, type)
    BY <1>1, <2>10, BitsMonotone
  <2>6. type.range \in ExponentsOf(type) /\ -type.range \in ExponentsOf(type)
    BY Mantissas
  <2>7. CASE \A e \in ExponentsOf(type) : ~Fitting(p, q, e, type)
    <3>1. ASSUME q <= p PROVE FALSE
      <4>1. t <= r
        <5> SUFFICES ASSUME r < t PROVE FALSE
          BY <1>1
        <5>1. r * q < t * q /\ t * q <= t * p /\ t * p = p * t
          BY <1>1, <3>1
        <5>2. r * q \in Nat /\ t * q \in Nat /\ t * p \in Nat /\ p * t \in Nat
          BY <1>1
        <5>3. QED
          BY <1>1, <5>1, <5>2
      <4>2. ~(\A e \in ExponentsOf(type) : ~Fitting(r, t, e, type))
        BY <1>1, <2>3, <2>4, <4>1
      <4>3. PICK f \in ExponentsOf(type) : Fitting(r, t, f, type)
        BY <4>2
      <4>4. FewBits(p, q, f, type)
        BY <2>5, <2>11, <4>3
      <4>5. ManyBits(p, q, -type.range, type)
        <5> DEFINE M == Up(type.range)
        <5>1. Up(-type.range) = 1 /\ Down(-type.range) = M /\ M \in Nat /\ Lo(type) \in Nat
              /\ Hi(type) = 2 * Lo(type) /\ Hi(type) <= M
          BY Mantissas
        <5> HIDE DEF M
        <5>2. Lo(type) <= M
          BY <5>1
        <5>3. Lo(type) * q <= M * q /\ M * q <= M * p /\ M * p = p * M
          BY <1>1, <3>1, <5>1, <5>2
        <5>4. Lo(type) * q \in Nat /\ M * q \in Nat /\ M * p \in Nat
          BY <1>1, <5>1
        <5>5. Lo(type) * (q * 1) <= p * M
          BY <1>1, <5>3, <5>4
        <5>6. QED
          BY <5>1, <5>5 DEF ManyBits
      <4>6. \E e \in ExponentsOf(type) : Fitting(p, q, e, type)
        BY <1>1, <2>6, <4>4, <4>5, ExponentBetween
      <4>7. QED
        BY <2>7, <4>6
    <3>2. x = Whole(0)
      BY <1>1, <2>2, <2>7, <3>1
    <3>3. QED
      BY <1>3, <3>2, ZeroValue DEF x, y
  <2>8. CASE \E e \in ExponentsOf(type) : Fitting(p, q, e, type)
    <3>1. PICK e \in ExponentsOf(type) : Fitting(p, q, e, type)
      BY <2>8
    <3> DEFINE m == Nearest(<<p * Down(e), q * Up(e)>>)
    <3>2. m \in Lo(type)..Hi(type) /\ x = Binade(m, e)
      BY <2>2, <3>1
    <3>3. ManyBits(p, q, e, type) /\ FewBits(p, q, e, type) /\ ManyBits(r, t, e, type)
      <4>1. ManyBits(p, q, e, type) /\ FewBits(p, q, e, type)
        BY <2>11, <3>1
      <4>2. QED
        BY <2>5, <4>1
    <3>4. ASSUME \A f \in ExponentsOf(type) : ~Fitting(r, t, f, type) PROVE FALSE
      <4>1. r < t
        BY <2>3, <2>4, <3>4
      <4>2. FewBits(r, t, type.range, type)
        <5> DEFINE M == Up(type.range)
        <5>1. Down(type.range) = 1 /\ M \in Nat \ {0} /\ Hi(type) \in Nat \ {0}
          BY Mantissas
        <5> HIDE DEF M
        <5>2. t * M >= t * 1 /\ t * M \in Nat
          BY <1>1, <5>1
        <5> DEFINE z == t * M
        <5>3. z \in Nat /\ t <= z
          BY <1>1, <5>2
        <5> HIDE DEF z
        <5>4. Hi(type) * z >= 1 * z /\ Hi(type) * z \in Nat
          BY <5>1, <5>3
        <5>5. r * 1 < Hi(type) * z
          BY <1>1, <4>1, <5>3, <5>4
        <5>6. QED
          BY <5>1, <5>5 DEF FewBits, M, z
      <4>3. \E f \in ExponentsOf(type) : Fitting(r, t, f, type)
        BY <1>1, <2>6, <3>3, <4>2, ExponentBetween
      <4>4. QED
        BY <3>4, <4>3
    <3>5. PICK f \in ExponentsOf(type) : Fitting(r, t, f, type)
      BY <3>4
    <3> DEFINE k == Nearest(<<r * Down(f), t * Up(f)>>)
    <3>6. k \in Lo(type)..Hi(type) /\ y = Binade(k, f)
      BY <2>3, <3>5
    <3>7. FewBits(p, q, f, type)
      BY <2>5, <2>11, <3>5
    <3>8. e \in Int /\ f \in Int /\ e \in AllExponents /\ f \in AllExponents
      BY Mantissas, UpDown
    <3>9. ~(f < e)
      BY <1>1, <3>3, <3>7, <3>8, BitsShrink
    <3>10. ASSUME e = f PROVE m <= k
      <4> DEFINE U == Up(e)
                 D == Down(e)
                 A == p * D
                 B == q * U
                 C == r * D
                 G == t * U
      <4>1. U \in Nat \ {0} /\ D \in Nat \ {0}
        BY <3>8, UpDown
      <4> HIDE DEF U, D
      <4>2. A \in Nat /\ B \in Nat \ {0} /\ C \in Nat /\ G \in Nat \ {0}
        BY <1>1, <4>1
      <4>3. A * G <= C * B
        <5>1. A * G = (p * t) * (D * U) /\ C * B = (r * q) * (D * U)
          BY <1>1, <4>1
        <5> DEFINE i == p * t
                   j == r * q
                   h == D * U
        <5>2. i \in Nat /\ j \in Nat /\ h \in Nat /\ i <= j
          BY <1>1, <4>1
        <5> HIDE DEF i, j, h
        <5>3. i * h <= j * h
          BY <5>2
        <5>4. QED
          BY <5>1, <5>3 DEF i, j, h
      <4> HIDE DEF A, B, C, G
      <4>4. Nearest(<<A, B>>) <= Nearest(<<C, G>>)
        BY <4>2, <4>3, NearestMonotone
      <4>5. QED
        BY <3>10, <4>4 DEF A, B, C, G, U, D
    <3> HIDE DEF m, k
    <3>11. Below(x, y)
      BY <3>2, <3>6, <3>8, <3>9, <3>10, BinadeBelow
    <3>12. IsFinite(x)
      BY <3>2, <3>8, BinadeValue, ValueParts
    <3>13. IsValue(x)
      BY <1>2, <3>12 DEF x
    <3>14. QED
      BY <1>3, <3>11, <3>13 DEF x, y
  <2>9. QED
    BY <2>7, <2>8
<1>6. QED
  BY <1>4, <1>5

(* Equal quotients are rounded to the same.                                  *)
LEMMA RoundedSame ==
  ASSUME NEW type \in {F32, F64}, NEW p \in Nat, NEW q \in Nat \ {0},
         NEW r \in Nat, NEW t \in Nat \ {0}, p * t = r * q
  PROVE  Rounded(<<p, q>>, type) = Rounded(<<r, t>>, type)
<1> DEFINE x == Rounded(<<p, q>>, type)
           y == Rounded(<<r, t>>, type)
<1>1. p * t <= r * q /\ r * q <= p * t
  OBVIOUS
<1>2. IsFinite(y) => IsValue(x) /\ IsValue(y) /\ Below(x, y)
  BY <1>1, RoundedMonotone
<1>3. IsFinite(x) => IsValue(x) /\ IsValue(y) /\ Below(y, x)
  BY <1>1, RoundedMonotone
<1>4. /\ x = Infinity \/ IsValue(x)
      /\ y = Infinity \/ IsValue(y)
  BY RoundedType
<1> HIDE DEF x, y
<1>5. \A z : IsValue(z) => IsFinite(z)
  BY ValueParts
<1>6. ~IsFinite(Infinity)
  BY DEF IsFinite, Infinity
<1>7. CASE IsFinite(x) \/ IsFinite(y)
  <2>1. IsValue(x) /\ IsValue(y)
    BY <1>2, <1>3, <1>7
  <2>2. Below(x, y) /\ Below(y, x)
    BY <1>2, <1>3, <1>5, <2>1
  <2>3. QED
    BY <2>1, <2>2, BelowParts DEF x, y
<1>8. CASE ~IsFinite(x) /\ ~IsFinite(y)
  BY <1>4, <1>5, <1>8 DEF x, y
<1>9. QED
  BY <1>7, <1>8

(* Unless it is too small or too large, a quotient has an exponent.          *)
LEMMA HasExponent ==
  ASSUME NEW type \in {F32, F64}, NEW p \in Nat \ {0}, NEW q \in Nat \ {0},
         Lo(type) * q <= p * Up(type.range), p <= q * Up(type.range)
  PROVE  \E e \in ExponentsOf(type) : Fitting(p, q, e, type)
<1> DEFINE l == Lo(type)
           h == Hi(type)
           u == Up(type.range)
           i == -type.range
           j == type.range
<1>1. /\ l \in Nat \ {0} /\ h = 2 * l /\ i \in ExponentsOf(type) /\ j \in ExponentsOf(type)
      /\ Down(i) = u /\ Up(i) = 1 /\ Up(j) = u /\ Down(j) = 1 /\ u \in Nat \ {0}
  BY Mantissas
<1> HIDE DEF l, h, u, i, j
<1>2. l * q <= p * u /\ p <= q * u
  BY DEF l, u
<1>3. ManyBits(p, q, i, type)
  <2>1. l * (q * 1) <= p * u
    BY <1>1, <1>2
  <2>2. QED
    BY <1>1, <2>1 DEF ManyBits, l
<1>4. FewBits(p, q, j, type)
  <2> DEFINE z == q * u
  <2>1. z \in Nat \ {0} /\ p <= z
    BY <1>1, <1>2
  <2> HIDE DEF z
  <2>2. h * z = z + (h - 1) * z /\ (h - 1) * z >= 1 * z /\ (h - 1) * z \in Nat
    BY <1>1, <2>1
  <2>3. p * 1 < h * z
    BY <2>1, <2>2
  <2>4. QED
    BY <1>1, <2>3 DEF FewBits, h, z
<1>5. p \in Nat
  OBVIOUS
<1>6. QED
  BY <1>1, <1>3, <1>4, <1>5, ExponentBetween

(* How far a quotient is from what a type holds of it: in proportion to the    *)
(* quotient, no more than one in as many as the type has mantissas.          *)
LEMMA RoundedNear ==
  ASSUME NEW type \in {F32, F64}, NEW p \in Nat \ {0}, NEW q \in Nat \ {0},
         Lo(type) * q <= p * Up(type.range), p <= q * Up(type.range)
  PROVE  \E g \in Nat \ {0}, h \in Nat \ {0} :
           /\ Rounded(<<p, q>>, type) = <<g, h>> /\ IsValue(<<g, h>>)
           /\ h <= Up(type.range)
           /\ Magnitude(g * q - h * p) * Hi(type) <= h * p
<1>1. PICK e \in ExponentsOf(type) : Fitting(p, q, e, type)
  BY HasExponent
<1> DEFINE U == Up(e)
           D == Down(e)
           A == p * D
           B == q * U
           L == Lo(type)
           H == Hi(type)
           m == Nearest(<<A, B>>)
<1>2. m \in L..H /\ Rounded(<<p, q>>, type) = Binade(m, e)
  BY <1>1, RoundedIs
<1>3. e \in AllExponents /\ L \in Nat \ {0} /\ H = 2 * L
  BY Mantissas
<1>4. U \in Nat \ {0} /\ D \in Nat \ {0} /\ e \in Int
  BY <1>3, UpDown
<1>5. L * B <= A
  BY <1>1 DEF Fitting
<1>6. A \in Nat /\ B \in Nat \ {0}
  BY <1>4
<1>7. m \in Nat /\ 2 * (m * B) - B <= 2 * A /\ 2 * A <= 2 * (m * B) + B
  <2> HIDE DEF A, B
  <2>1. QED
    BY <1>6, NearestBounds
<1> DEFINE n == m * U
<1>8. n \in Nat \ {0} /\ n \in Int /\ Rounded(<<p, q>>, type) = Ratio(n, D)
  <2>1. n \in Nat \ {0}
    <3> HIDE DEF m, U
    <3>1. m \in Nat \ {0}
      BY <1>2, <1>3
    <3>2. QED
      BY <1>4, <3>1
  <2>2. QED
    BY <1>2, <2>1 DEF Binade
<1>9. D <= Up(type.range)
  <2>1. type.range \in Nat /\ -type.range <= e /\ e <= type.range
    BY TypeParts DEF ExponentsOf
  <2>2. CASE e >= 0
    <3>1. D = 1
      BY <2>2 DEF Down
    <3>2. QED
      BY <3>1, Mantissas
  <2>3. CASE ~(e >= 0)
    <3> DEFINE k == -e
               r == type.range
    <3>1. /\ k \in 0..MaxExponent /\ r \in 0..MaxExponent /\ r - k \in 0..MaxExponent - k /\ k + (r - k) = r
          /\ r - k \in 0..MaxExponent /\ r >= 0
      BY <1>4, <2>1, <2>3, TypeParts, WidthFacts
    <3>2. D = pow2[k] /\ Up(r) = pow2[r]
      BY <2>3, <3>1 DEF Up, Down
    <3> HIDE DEF k, r
    <3>3. pow2[k + (r - k)] = pow2[k] * pow2[r - k]
      BY <3>1, PowersAdd
    <3> DEFINE i == pow2[k]
               j == pow2[r - k]
    <3>4. i \in Nat \ {0} /\ j \in Nat \ {0} /\ pow2[r] = i * j
      BY <3>1, <3>3, PowerPositive
    <3> HIDE DEF i, j
    <3>5. i * j >= i * 1
      BY <3>4
    <3>6. QED
      BY <3>2, <3>4, <3>5 DEF i, r
  <2>4. QED
    BY <2>2, <2>3
<1>10. PICK g \in Int, h \in Nat \ {0}, k \in Nat \ {0} : Lowest(n, D, g, h, k)
  <2> HIDE DEF n, D
  <2>1. QED
    BY <1>4, <1>8, RatioLowest
<1>11. Rounded(<<p, q>>, type) = <<g, h>> /\ n = k * g /\ D = k * h
  BY <1>8, <1>10 DEF Lowest
<1>12. g \in Nat \ {0}
  <2> HIDE DEF n
  <2>1. QED
    BY <1>8, <1>11
<1>13. h <= D
  <2> HIDE DEF D
  <2>1. k * h >= 1 * h
    OBVIOUS
  <2>2. QED
    BY <1>4, <1>11, <2>1
<1>14. IsValue(<<g, h>>)
  <2>1. <<g, h>> # Infinity
    BY DEF Infinity
  <2>2. QED
    BY <1>11, <2>1, RoundedType
<1>15. Magnitude(g * q - h * p) * H <= h * p
  <2> DEFINE z == m * B - A
             y == g * q - h * p
  <2>1. z \in Int /\ z * H <= A /\ -z * H <= A
    <3> DEFINE i == m * B
               w == L * B
    <3>1. i \in Nat /\ w \in Nat /\ w <= A /\ 2 * i - B <= 2 * A /\ 2 * A <= 2 * i + B
      <4> HIDE DEF A, B, m, L
      <4>1. QED
        BY <1>3, <1>5, <1>6, <1>7
    <3>2. z = i - A
      OBVIOUS
    <3> HIDE DEF i, z, m
    <3>3. z \in Int /\ 2 * z <= B /\ -(2 * z) <= B
      <4> HIDE DEF A, B
      <4>1. QED
        BY <1>6, <3>1, <3>2
    <3> HIDE DEF A, B
    <3>4. (2 * z) * L <= B * L /\ (-(2 * z)) * L <= B * L
      <4> DEFINE s == 2 * z
      <4>1. s \in Int /\ s <= B /\ -s <= B
        BY <3>3
      <4> HIDE DEF s, L
      <4>2. s * L <= B * L /\ (-s) * L <= B * L
        BY <1>3, <1>6, <4>1
      <4>3. QED
        BY <4>2 DEF s
    <3>5. (2 * z) * L = z * H /\ (-(2 * z)) * L = -z * H /\ B * L = w
      <4> HIDE DEF L, H
      <4>1. QED
        BY <1>3, <1>6, <3>3 DEF w
    <3>6. z * H \in Int /\ -z * H \in Int /\ A \in Nat
      BY <1>3, <1>6, <3>3
    <3> DEFINE t == z * H
               o == -z * H
    <3>7. t \in Int /\ o \in Int /\ t <= w /\ o <= w
      BY <3>4, <3>5, <3>6
    <3> HIDE DEF t, o, w
    <3>8. t <= A /\ o <= A
      BY <1>6, <3>1, <3>7
    <3>9. QED
      BY <3>3, <3>8 DEF t, o
  <2>2. k * y = z
    <3>1. k * (g * q) = (k * g) * q /\ k * (h * p) = (k * h) * p
      BY <1>12
    <3>2. (k * g) * q = m * B /\ (k * h) * p = A
      <4>1. (m * U) * q = m * (q * U) /\ D * p = p * D
        <5> HIDE DEF m, U, D
        <5>1. QED
          BY <1>4, <1>7
      <4>2. QED
        BY <1>11, <4>1
    <3>3. k * y = k * (g * q) - k * (h * p)
      BY <1>12
    <3>4. QED
      BY <3>1, <3>2, <3>3
  <2>3. A = k * (h * p)
    <3> HIDE DEF D
    <3>1. (k * h) * p = k * (h * p)
      OBVIOUS
    <3>2. D * p = p * D
      BY <1>4
    <3>3. QED
      BY <1>11, <3>1, <3>2
  <2>4. y \in Int
    BY <1>12
  <2> DEFINE v == h * p
  <2>5. v \in Nat
    OBVIOUS
  <2> HIDE DEF z, y, A, v
  <2>6. y * H <= v /\ -y * H <= v
    <3> DEFINE s == y * H
               o == -y * H
    <3>1. s \in Int /\ o \in Int
      BY <1>3, <2>4
    <3>2. z * H = k * s /\ -z * H = k * o
      <4> HIDE DEF H
      <4>1. H \in Int
        BY <1>3 DEF H
      <4>2. (k * y) * H = k * (y * H) /\ (-(k * y)) * H = k * ((-y) * H)
        BY <2>4, <4>1
      <4>3. QED
        BY <2>2, <2>4, <4>1, <4>2
    <3>3. k * s <= k * v /\ k * o <= k * v
      BY <2>1, <2>3, <3>2 DEF v
    <3> HIDE DEF s, o
    <3>4. s <= v /\ o <= v
      BY <2>5, <3>1, <3>3
    <3>5. QED
      BY <3>4 DEF s, o
  <2>7. Magnitude(y) = y \/ Magnitude(y) = -y
    BY DEF Magnitude
  <2>8. Magnitude(y) * H <= v
    <3>1. (-y) * H = -(y * H)
      BY <1>3, <2>4
    <3>2. QED
      BY <2>6, <2>7, <3>1
  <2>9. QED
    BY <2>8 DEF y, v
<1>16. h <= Up(type.range)
  <2>1. Up(type.range) \in Nat
    BY Mantissas
  <2> HIDE DEF D
  <2>2. QED
    BY <1>4, <1>9, <1>13, <2>1
<1>17. QED
  BY <1>11, <1>12, <1>14, <1>15, <1>16

(* A number of no more bits than a type has, over a small enough power of two, *)
(* is held exactly.                                                          *)
LEMMA RoundedExact ==
  ASSUME NEW type \in {F32, F64}, NEW p \in Nat \ {0}, p < Hi(type),
         NEW k \in 0..(type.range - type.bits)
  PROVE  Rounded(<<p, pow2[k]>>, type) = Ratio(p, pow2[k])
<1> DEFINE q == pow2[k]
           r == type.range
           b == type.bits
           L == Lo(type)
           H == Hi(type)
           R == Up(type.range)
<1>1. /\ r \in Nat /\ b \in Nat \ {0} /\ b <= r /\ r <= MaxExponent /\ MaxExponent \in Nat
      /\ L \in Nat \ {0} /\ H = 2 * L /\ R \in Nat \ {0} /\ r \in ExponentsOf(type)
  BY TypeParts, Mantissas, WidthFacts
<1>2. /\ k \in 0..MaxExponent /\ b \in 0..MaxExponent /\ k + b \in 0..MaxExponent
      /\ r - (k + b) \in 0..MaxExponent /\ (k + b) + (r - (k + b)) = r
      /\ b \in 0..MaxExponent - k /\ r - (k + b) \in 0..MaxExponent - (k + b)
  BY <1>1
<1>3. q \in Nat \ {0} /\ pow2[r - (k + b)] \in Nat \ {0}
  BY <1>2, PowerPositive
<1>4. H * q <= R
  <2>1. pow2[k + b] = q * H /\ pow2[(k + b) + (r - (k + b))] = pow2[k + b] * pow2[r - (k + b)]
    BY <1>2, PowersAdd DEF Hi
  <2>2. R = pow2[r]
    BY <1>1 DEF Up
  <2> DEFINE i == H * q
             j == pow2[r - (k + b)]
  <2>3. i \in Nat /\ j \in Nat \ {0} /\ q * H = i
    <3> HIDE DEF q, H, L
    <3>1. QED
      BY <1>1, <1>3
  <2>4. R = i * j
    BY <1>2, <2>1, <2>2, <2>3
  <2> HIDE DEF i, j
  <2>5. i * j >= i * 1
    BY <2>3
  <2>6. QED
    BY <2>3, <2>4, <2>5 DEF i
<1>5. L * q <= p * R /\ p <= q * R
  <2> HIDE DEF q, L, H, R
  <2>1. L * q <= H * q /\ H * 1 <= H * q /\ 1 * R <= p * R /\ 1 * R <= q * R
    BY <1>1, <1>3
  <2> DEFINE i == L * q
             j == H * q
             g == p * R
             h == q * R
  <2>2. i \in Nat /\ j \in Nat /\ g \in Nat /\ h \in Nat
    BY <1>1, <1>3
  <2>3. i <= j /\ H <= j /\ R <= g /\ R <= h /\ j <= R /\ p < H /\ H \in Nat
    BY <1>1, <1>4, <2>1 DEF H
  <2> HIDE DEF i, j, g, h
  <2>4. i <= g /\ p <= h
    BY <1>1, <2>2, <2>3
  <2>5. QED
    BY <2>4 DEF i, g, h
<1>6. PICK e \in ExponentsOf(type) : Fitting(p, q, e, type)
  <2> HIDE DEF q
  <2>1. QED
    BY <1>3, <1>5, HasExponent
<1>7. e \in AllExponents /\ e \in Int /\ e <= r /\ -r <= e
  <2>1. e \in AllExponents
    BY Mantissas
  <2>2. QED
    BY <2>1, UpDown DEF ExponentsOf
<1> DEFINE l == -k
<1>8. l \in AllExponents /\ Up(l) = 1 /\ Down(l) = q
  <2>1. l \in AllExponents
    BY <1>1, <1>2 DEF AllExponents
  <2>2. CASE k = 0
    <3>1. l = 0
      <4>1. l \in Int /\ l + k = 0
        OBVIOUS
      <4> HIDE DEF l
      <4>2. QED
        BY <2>2, <4>1
    <3>2. q = 1
      BY <2>2, PowerSteps
    <3>3. Up(l) = pow2[0] /\ Down(l) = 1
      BY <3>1 DEF Up, Down
    <3>4. QED
      BY <2>1, <2>2, <3>2, <3>3
  <2>3. CASE k # 0
    <3>1. ~(l >= 0) /\ -l = k
      BY <1>1, <2>3
    <3> HIDE DEF l
    <3>2. QED
      BY <2>1, <3>1 DEF Up, Down
  <2>4. QED
    BY <2>2, <2>3
<1>9. FewBits(p, q, l, type)
  <2> HIDE DEF q, l, H
  <2>1. p * q < H * q
    BY <1>1, <1>3 DEF H
  <2>2. H * (q * 1) = H * q
    BY <1>1, <1>3
  <2>3. QED
    BY <1>8, <2>1, <2>2 DEF FewBits, H
<1>10. ~(l < e)
  <2> HIDE DEF l, q
  <2>1. ManyBits(p, q, e, type)
    BY <1>6 DEF Fitting, ManyBits
  <2>2. p \in Nat
    OBVIOUS
  <2>3. QED
    BY <1>3, <1>7, <1>8, <1>9, <2>1, <2>2, BitsShrink
<1>11. Up(e) = 1 /\ \E c \in Nat \ {0} : Down(e) = q * c
  <2>1. CASE e = l
    <3>1. Up(e) = 1 /\ Down(e) = q * 1
      BY <1>3, <1>8, <2>1
    <3>2. QED
      BY <3>1
  <2>2. CASE e # l
    <3>1. e < l
      BY <1>1, <1>7, <1>10, <2>2
    <3>2. ~(e >= 0)
      BY <1>7, <3>1
    <3> DEFINE n == -e - k
    <3>3. n \in 0..MaxExponent /\ n \in 0..MaxExponent - k /\ k + n = -e
      BY <1>1, <1>2, <1>7, <3>1
    <3> HIDE DEF n
    <3>4. pow2[k + n] = q * pow2[n] /\ pow2[n] \in Nat \ {0}
      BY <1>2, <3>3, PowersAdd, PowerPositive
    <3>5. Up(e) = 1 /\ Down(e) = q * pow2[n]
      BY <3>2, <3>3, <3>4 DEF Up, Down
    <3>6. QED
      BY <3>4, <3>5
  <2>3. QED
    BY <2>1, <2>2
<1>12. PICK c \in Nat \ {0} : Down(e) = q * c
  BY <1>11
<1> HIDE DEF l
<1> DEFINE m == p * c
<1>13. m \in Nat /\ p * Down(e) = m * q /\ q * Up(e) = q
  <2> HIDE DEF q
  <2>1. p * (q * c) = (p * c) * q /\ q * 1 = q
    BY <1>3
  <2>2. QED
    BY <1>11, <1>12, <2>1
<1> HIDE DEF m, q
<1>14. Nearest(<<m * q, q>>) = m
  <2>1. (2 * m + 1) * q = 2 * (m * q) + q /\ (2 * m - 1) * q = 2 * (m * q) - q /\ m * q \in Nat
    BY <1>3, <1>13
  <2> DEFINE A == m * q
  <2> HIDE DEF A
  <2>2. A \in Nat /\ 2 * A < (2 * m + 1) * q /\ (2 * m - 1) * q < 2 * A
    BY <1>3, <2>1 DEF A
  <2>3. Nearest(<<A, q>>) = m
    BY <1>3, <1>13, <2>2, NearestIs
  <2>4. QED
    BY <2>3 DEF A
<1>15. Rounded(<<p, q>>, type) = Binade(m, e)
  <2>1. Nearest(<<p * Down(e), q * Up(e)>>) = m
    BY <1>13, <1>14
  <2>2. QED
    BY <1>3, <1>6, <2>1, RoundedIs
<1>16. Binade(m, e) = Ratio(m, q * c)
  BY <1>11, <1>12, <1>13 DEF Binade
<1>17. Ratio(m, q * c) = Ratio(p, q)
  <2> DEFINE d == q * c
  <2>1. m * q = p * d /\ d \in Nat \ {0} /\ m \in Int /\ p \in Int
    <3>1. (p * c) * q = p * (q * c)
      BY <1>3
    <3>2. q * c \in Nat \ {0}
      BY <1>3
    <3>3. QED
      BY <1>13, <3>1, <3>2 DEF m
  <2> HIDE DEF d
  <2>2. Ratio(m, d) = Ratio(p, q)
    BY <1>3, <2>1, RatioSame
  <2>3. QED
    BY <2>2 DEF d
<1>18. QED
  BY <1>15, <1>16, <1>17 DEF q

(* More exponents make a larger power. *)
LEMMA PowerGrows ==
  ASSUME NEW i \in 0..MaxExponent, NEW j \in 0..MaxExponent, i <= j
  PROVE  pow2[j - i] \in Nat \ {0} /\ pow2[j] = pow2[i] * pow2[j - i] /\ pow2[i] <= pow2[j]
<1>1. j - i \in 0..MaxExponent /\ j - i \in 0..MaxExponent - i /\ i + (j - i) = j
  BY WidthFacts
<1>2. pow2[i + (j - i)] = pow2[i] * pow2[j - i]
  BY <1>1, PowersAdd
<1> DEFINE x == pow2[i]
           y == pow2[j - i]
<1>3. x \in Nat \ {0} /\ y \in Nat \ {0} /\ pow2[j] = x * y
  BY <1>1, <1>2, PowerPositive
<1> HIDE DEF x, y
<1>4. x * y >= x * 1
  BY <1>3
<1>5. QED
  BY <1>3, <1>4 DEF x, y

(* How wide the types are: what is too large for a mantissa of an f32, or of an *)
(* f64, against the integers.                                                *)
LEMMA Widths ==
  /\ Hi(F32) \in Nat /\ Hi(F32) >= 8 /\ Hi(F32) <= I32Max /\ 64 * Hi(F32) <= U32Max + 1
  /\ Hi(F64) \in Nat /\ 16 * (Hi(F32) * Hi(F32)) <= Hi(F64) /\ U32Max < Hi(F64)
  /\ 128 * Hi(F32) <= Hi(F64)
  /\ U32Max \in Nat \ {0} /\ I32Max \in Nat \ {0} /\ I32Max <= U32Max /\ U32Max <= 2 * I32Max + 1
  /\ U32Max * Hi(F32) < Up(F32.range)
  /\ F64.range - F64.bits = F32.range /\ F32.range \in Nat /\ F64.range \in Nat
  /\ Up(F64.range) = Up(F32.range) * Hi(F64) /\ Up(F32.range) = pow2[F32.range]
  /\ Up(F32.range) \in Nat \ {0} /\ Up(F64.range) \in Nat \ {0}
  /\ Hi(F32) < fibonacci[MAX_ITER][1]
<1> DEFINE F == F32Bits
           P == F64Bits
           M == MaxExponent
<1>1. F32.bits = F /\ F32.range = 5 * F /\ F64.bits = P /\ F64.range = M
  BY DEF F32, F64, MaxExponent
<1>2. /\ F \in Nat \ {0} /\ P \in Nat \ {0} /\ M = 5 * F + P
      /\ U32Max \in Nat \ {0} /\ I32Max \in Nat \ {0} /\ I32Max <= U32Max
  BY WidthFacts
<1>3. Hi(F32) = pow2[F] /\ Hi(F64) = pow2[P]
  BY <1>1 DEF Hi
<1>4. /\ F >= 3 /\ 2 * F + 4 <= P /\ pow2[F] <= I32Max /\ U32Max <= 2 * I32Max + 1
      /\ 64 * pow2[F] <= U32Max + 1 /\ U32Max < pow2[4 * F] /\ U32Max < pow2[P]
      /\ pow2[F] < fibonacci[MAX_ITER][1]
  BY MantissaAssumption
<1> HIDE DEF F, P, M
<1>5. /\ 0 \in 0..M /\ 1 \in 1..M /\ 2 \in 1..M /\ 3 \in 1..M /\ 4 \in 1..M
      /\ 3 \in 0..M /\ 4 \in 0..M /\ F \in 0..M /\ P \in 0..M /\ 5 * F \in 0..M /\ 4 * F \in 0..M
      /\ 2 * F \in 0..M /\ 2 * F + 4 \in 0..M /\ M \in 0..M
      /\ F \in 0..M - F /\ 4 \in 0..M - 2 * F /\ 4 * F \in 0..M - F /\ P \in 0..M - 5 * F
  BY <1>2, <1>4
<1>6. pow2[3] = 8 /\ pow2[4] = 16
  <2>1. pow2[0] = 1 /\ \A e \in 1..M : pow2[e] = 2 * pow2[e - 1]
    BY PowerSteps DEF M
  <2>2. pow2[1] = 2 * pow2[1 - 1] /\ pow2[2] = 2 * pow2[2 - 1]
        /\ pow2[3] = 2 * pow2[3 - 1] /\ pow2[4] = 2 * pow2[4 - 1]
    BY <1>5, <2>1
  <2>3. QED
    BY <2>1, <2>2
<1>7. pow2[F] \in Nat /\ pow2[P] \in Nat /\ pow2[4 * F] \in Nat \ {0} /\ pow2[5 * F] \in Nat \ {0} /\ pow2[M] \in Nat \ {0}
  BY <1>5, PowerPositive DEF M
<1>8. pow2[F] >= 8
  BY <1>4, <1>5, <1>6, PowerGrows DEF M
<1>9. 16 * (pow2[F] * pow2[F]) <= pow2[P]
  <2>1. pow2[F + F] = pow2[F] * pow2[F] /\ pow2[2 * F + 4] = pow2[2 * F] * pow2[4] /\ F + F = 2 * F
    <3>1. pow2[F + F] = pow2[F] * pow2[F] /\ pow2[2 * F + 4] = pow2[2 * F] * pow2[4]
      BY <1>5, PowersAdd DEF M
    <3>2. F + F = 2 * F
      BY <1>2
    <3>3. QED
      BY <3>1, <3>2
  <2>2. pow2[2 * F + 4] <= pow2[P]
    BY <1>4, <1>5, PowerGrows DEF M
  <2> DEFINE s == pow2[F] * pow2[F]
  <2>3. s \in Nat /\ pow2[2 * F + 4] = s * 16
    BY <1>6, <1>7, <2>1
  <2> HIDE DEF s
  <2>4. 16 * s <= pow2[P]
    BY <2>2, <2>3
  <2>5. QED
    BY <2>4 DEF s
<1>10. 128 * pow2[F] <= pow2[P]
  <2> DEFINE h == pow2[F]
  <2>1. h \in Nat /\ h >= 8 /\ 16 * (h * h) <= pow2[P]
    BY <1>7, <1>8, <1>9
  <2> HIDE DEF h
  <2>2. h * h >= h * 8
    BY <2>1
  <2> DEFINE s == h * h
  <2>3. s \in Nat /\ 16 * s <= pow2[P] /\ s >= 8 * h
    BY <2>1, <2>2
  <2> HIDE DEF s
  <2>4. 128 * h <= pow2[P]
    BY <1>7, <2>1, <2>3
  <2>5. QED
    BY <2>4 DEF h
<1>11. U32Max * pow2[F] < pow2[5 * F] /\ pow2[M] = pow2[5 * F] * pow2[P]
  <2>1. pow2[F + 4 * F] = pow2[F] * pow2[4 * F] /\ pow2[5 * F + P] = pow2[5 * F] * pow2[P]
    BY <1>5, PowersAdd DEF M
  <2>2. F + 4 * F = 5 * F
    BY <1>2
  <2> DEFINE h == pow2[F]
             z == pow2[4 * F]
  <2>3. h \in Nat \ {0} /\ z \in Nat /\ U32Max < z /\ pow2[5 * F] = h * z
    BY <1>4, <1>7, <1>8, <2>1, <2>2
  <2> HIDE DEF h, z
  <2>4. U32Max * h < z * h /\ z * h = h * z
    BY <1>2, <2>3
  <2>5. U32Max * h < pow2[5 * F]
    BY <2>3, <2>4
  <2>6. QED
    BY <1>2, <2>1, <2>5 DEF h
<1>12. Up(F32.range) = pow2[5 * F] /\ Up(F64.range) = pow2[M]
  <2>1. F32.range >= 0 /\ F64.range >= 0
    BY <1>1, <1>2
  <2>2. Up(F32.range) = pow2[F32.range] /\ Up(F64.range) = pow2[F64.range]
    BY <2>1 DEF Up
  <2>3. QED
    BY <1>1, <2>2
<1>13. F64.range - F64.bits = F32.range /\ F32.range \in Nat /\ F64.range \in Nat
  BY <1>1, <1>2
<1>14. Up(F32.range) = pow2[F32.range]
  BY <1>1, <1>12
<1>15. QED
  BY <1>2, <1>3, <1>4, <1>7, <1>8, <1>9, <1>10, <1>11, <1>12, <1>13, <1>14

(* What divides a power of two is one.                                       *)
LEMMA PowerDivisor ==
  \A k \in 0..MaxExponent : \A g, b \in Nat :
    g * b = pow2[k] => \E j \in 0..k : b = pow2[j]
<1> DEFINE Good(k) == \A g, b \in Nat : g * b = pow2[k] => \E j \in 0..k : b = pow2[j]
           Bad == {k \in 0..MaxExponent : ~Good(k)}
<1> SUFFICES ASSUME Bad # {} PROVE FALSE
  OBVIOUS
<1>1. Bad \in SUBSET Nat
  OBVIOUS
<1> HIDE DEF Bad
<1>2. PICK k \in Bad : \A j \in Bad : k <= j
  BY <1>1, LeastExists
<1> USE DEF Bad
<1>3. k \in 0..MaxExponent /\ ~Good(k)
  BY <1>2
<1>4. k # 0
  <2> SUFFICES ASSUME k = 0 PROVE FALSE
    OBVIOUS
  <2>1. pow2[k] = 1
    BY PowerSteps
  <2>2. ASSUME NEW g \in Nat, NEW b \in Nat, g * b = 1 PROVE b = 1
    <3>1. b # 0 /\ g # 0
      BY <2>2
    <3>2. g * b >= 1 * b
      BY <3>1
    <3>3. QED
      BY <2>2, <3>1, <3>2
  <2>3. 0 \in 0..k
    OBVIOUS
  <2>4. Good(k)
    BY <2>1, <2>2, <2>3
  <2> HIDE DEF Good
  <2>5. QED
    BY <1>3, <2>4
<1>5. k - 1 \in 0..MaxExponent /\ k \in 1..MaxExponent /\ ~(k <= k - 1)
  BY <1>3, <1>4, WidthFacts
<1>6. Good(k - 1)
  <2>1. k - 1 \notin Bad
    BY <1>2, <1>5
  <2> HIDE DEF Good
  <2>2. QED
    BY <1>5, <2>1
<1>7. pow2[k] = 2 * pow2[k - 1] /\ pow2[k - 1] \in Nat \ {0}
  BY <1>5, PowerSteps, PowerPositive
<1>8. PICK g \in Nat, b \in Nat : g * b = pow2[k] /\ ~(\E j \in 0..k : b = pow2[j])
  BY <1>3
<1> DEFINE w == pow2[k - 1]
<1>9. g * b = 2 * w /\ w \in Nat
  BY <1>7, <1>8
<1>10. CASE \E i \in Nat : g = 2 * i
  <2>1. PICK i \in Nat : g = 2 * i
    BY <1>10
  <2>2. (2 * i) * b = 2 * (i * b)
    BY <2>1
  <2>3. i * b = w
    <3> DEFINE z == i * b
    <3>1. z \in Nat /\ 2 * z = 2 * w
      BY <1>9, <2>1, <2>2
    <3> HIDE DEF z, w
    <3>2. z = w
      BY <1>9, <3>1
    <3>3. QED
      BY <3>2 DEF z
  <2>4. PICK j \in 0..(k - 1) : b = pow2[j]
    BY <1>6, <2>3
  <2>5. j \in 0..k
    BY <1>3
  <2>6. QED
    BY <1>8, <2>4, <2>5
<1>11. CASE \E i \in Nat : b = 2 * i
  <2>1. PICK i \in Nat : b = 2 * i
    BY <1>11
  <2>2. g * (2 * i) = 2 * (g * i)
    BY <2>1
  <2>3. g * i = w
    <3> DEFINE z == g * i
    <3>1. z \in Nat /\ 2 * z = 2 * w
      BY <1>9, <2>1, <2>2
    <3> HIDE DEF z, w
    <3>2. z = w
      BY <1>9, <3>1
    <3>3. QED
      BY <3>2 DEF z
  <2>4. PICK j \in 0..(k - 1) : i = pow2[j]
    BY <1>6, <2>3
  <2>5. j + 1 \in 0..k /\ j + 1 \in 1..MaxExponent /\ (j + 1) - 1 = j
    BY <1>3, <1>5, WidthFacts
  <2>6. pow2[j + 1] = 2 * pow2[j]
    BY <2>5, PowerSteps
  <2>7. b = pow2[j + 1]
    BY <2>1, <2>4, <2>6
  <2>8. QED
    BY <1>8, <2>5, <2>7
<1>12. CASE (\E i \in Nat : g = 2 * i + 1) /\ (\E i \in Nat : b = 2 * i + 1)
  <2>1. PICK i \in Nat, j \in Nat : g = 2 * i + 1 /\ b = 2 * j + 1
    BY <1>12
  <2>2. (2 * i + 1) * (2 * j + 1) = 2 * (2 * (i * j) + i + j) + 1
    OBVIOUS
  <2> DEFINE z == 2 * (i * j) + i + j
  <2>3. z \in Nat /\ 2 * w = 2 * z + 1
    BY <1>9, <2>1, <2>2
  <2> HIDE DEF z, w
  <2>4. QED
    BY <1>9, <2>3
<1>13. \A n \in Nat : (\E i \in Nat : n = 2 * i) \/ (\E i \in Nat : n = 2 * i + 1)
  <2> TAKE n \in Nat
  <2>1. n \div 2 \in Nat /\ (n % 2) \in 0..1 /\ n = 2 * (n \div 2) + (n % 2)
    OBVIOUS
  <2>2. QED
    BY <2>1
<1>14. QED
  BY <1>10, <1>11, <1>12, <1>13

(* An f32 that is not zero and no larger than U32Max has a mantissa.         *)
LEMMA MantissaExists ==
  ASSUME NEW p \in Nat, NEW q \in Nat \ {0}, NEW x, x = AsF32(<<p, q>>), IsFinite(x), x[1] # 0,
         x[1] <= U32Max * x[2]
  PROVE  \E s, e : HasMantissa(x, s, e, F32)
<1>0. x = Rounded(<<p, q>>, F32) /\ F32 \in {F32, F64}
  BY DEF AsF32
<1>1. p \in Nat \ {0}
  <2> SUFFICES ASSUME p = 0 PROVE FALSE
    OBVIOUS
  <2>1. x = Whole(0)
    BY <1>0, RoundedType
  <2>2. QED
    BY <2>1 DEF Whole
<1>2. ASSUME \A e \in ExponentsOf(F32) : ~Fitting(p, q, e, F32) PROVE FALSE
  <2>1. x = IF p < q THEN Whole(0) ELSE Infinity
    BY <1>0, <1>1, <1>2, RoundedIs
  <2>2. QED
    BY <2>1 DEF Whole, Infinity, IsFinite
<1>3. PICK e \in ExponentsOf(F32) : Fitting(p, q, e, F32)
  BY <1>2
<1> DEFINE m == Nearest(<<p * Down(e), q * Up(e)>>)
<1>4. m \in Lo(F32)..Hi(F32) /\ x = Binade(m, e)
  BY <1>0, <1>1, <1>3, RoundedIs
<1> HIDE DEF m
<1>5. /\ Lo(F32) \in Nat \ {0} /\ Hi(F32) = 2 * Lo(F32) /\ e \in AllExponents
      /\ \A f \in ExponentsOf(F32) : f \in AllExponents
  BY <1>0, Mantissas
<1>6. e \in Int /\ Up(e) \in Nat \ {0} /\ Down(e) \in Nat \ {0}
  BY <1>5, UpDown
<1>7. CASE m # Hi(F32)
  BY <1>4, <1>5, <1>7 DEF HasMantissa
<1>8. CASE m = Hi(F32)
  <2>1. e + 1 \in ExponentsOf(F32)
    <3> SUFFICES ASSUME e + 1 \notin ExponentsOf(F32) PROVE FALSE
      OBVIOUS
    <3>1. e = F32.range
      <4>1. F32.range \in Nat
        BY Widths
      <4>2. QED
        BY <4>1 DEF ExponentsOf
    <3>2. Down(e) = 1 /\ Up(e) = Up(F32.range)
      BY <1>0, <3>1, Mantissas
    <3> DEFINE n == Hi(F32) * Up(e)
    <3>3. n \in Nat /\ U32Max < n
      <4> DEFINE u == Up(e)
                 h == Hi(F32)
      <4>1. u \in Nat \ {0} /\ U32Max * h < u /\ U32Max \in Nat /\ h \in Nat \ {0}
        BY <1>5, <1>6, <3>2, Widths
      <4> HIDE DEF u, h
      <4>2. h * u >= 1 * u /\ U32Max * h >= U32Max * 1
        BY <4>1
      <4>3. h * u \in Nat /\ U32Max * h \in Nat
        BY <4>1
      <4>4. QED
        BY <4>1, <4>2, <4>3 DEF u, h
    <3> HIDE DEF n
    <3>4. x = Ratio(n, 1) /\ n \in Int /\ 1 \in Nat \ {0}
      BY <1>4, <1>8, <3>2, <3>3 DEF n, Binade
    <3>5. PICK i \in Int, j \in Nat \ {0}, g \in Nat \ {0} : Lowest(n, 1, i, j, g)
      BY <3>4, RatioLowest
    <3>6. x = <<i, j>> /\ n = g * i /\ 1 = g * j
      BY <3>4, <3>5 DEF Lowest
    <3>7. i <= U32Max * j
      BY <3>6
    <3>8. g = 1 /\ j = 1
      BY <3>6
    <3>9. n = i /\ i <= U32Max
      BY <3>6, <3>7, <3>8, WidthFacts
    <3>10. QED
      BY <3>3, <3>9, WidthFacts
  <2>2. Binade(Hi(F32), e) = Binade(Lo(F32), e + 1)
    <3> DEFINE U == Up(e)
               D == Down(e)
               V == Up(e + 1)
               C == Down(e + 1)
               L == Lo(F32)
               H == Hi(F32)
    <3>0. e + 1 \in AllExponents
      BY <1>5, <2>1
    <3>1. V * D = 2 * (U * C)
      BY <1>5, <3>0, NextExponent
    <3>2. U \in Nat \ {0} /\ D \in Nat \ {0} /\ V \in Nat \ {0} /\ C \in Nat \ {0}
          /\ L \in Nat \ {0} /\ H = 2 * L
      BY <1>5, <1>6, <3>0, UpDown
    <3> HIDE DEF U, D, V, C, L, H
    <3>3. (H * U) * C = (L * V) * D
      <4>1. (H * U) * C = L * (2 * (U * C)) /\ (L * V) * D = L * (V * D)
        BY <3>2
      <4>2. QED
        BY <3>1, <4>1
    <3>4. H * U \in Int /\ L * V \in Int
      BY <3>2
    <3> DEFINE i == H * U
               j == L * V
    <3> HIDE DEF i, j
    <3>5. i \in Int /\ j \in Int /\ i * C = j * D
      BY <3>3, <3>4 DEF i, j
    <3>6. Ratio(i, D) = Ratio(j, C)
      BY <3>2, <3>5, RatioSame
    <3>7. QED
      BY <3>6 DEF i, j, Binade, U, D, V, C, L, H
  <2>3. Lo(F32) \in Lo(F32)..(Hi(F32) - 1)
    BY <1>5
  <2>4. HasMantissa(x, Lo(F32), e + 1, F32)
    BY <1>4, <1>8, <2>1, <2>2, <2>3 DEF HasMantissa
  <2>5. QED
    BY <2>4
<1>9. QED
  BY <1>7, <1>8

(* An f32 is whole, or of few bits over a power of two.                      *)
IsF32(a, b) ==
  /\ a \in Nat \ {0} /\ b \in Nat \ {0} /\ Coprime(Magnitude(a), b)
  /\ b = 1 \/ (a < Hi(F32) /\ \E k \in 0..F32.range : b = pow2[k])

(* That is what a mantissa says. *)
LEMMA MantissaIsF32 ==
  ASSUME NEW x, NEW s, NEW e, HasMantissa(x, s, e, F32)
  PROVE  IsF32(x[1], x[2])
<1>0. F32 \in {F32, F64}
  OBVIOUS
<1>1. /\ s \in Lo(F32)..(Hi(F32) - 1) /\ e \in ExponentsOf(F32) /\ e \in AllExponents
      /\ x = Ratio(s * Up(e), Down(e)) /\ Lo(F32) \in Nat \ {0} /\ Hi(F32) \in Nat
  BY <1>0, Mantissas DEF HasMantissa, Binade
<1>2. s \in Nat \ {0} /\ Up(e) \in Nat \ {0} /\ Down(e) \in Nat \ {0} /\ e \in Int
  BY <1>1, UpDown
<1> DEFINE n == s * Up(e)
           d == Down(e)
<1>3. n \in Int /\ d \in Nat \ {0} /\ x = Ratio(n, d)
  BY <1>1, <1>2
<1>4. PICK a \in Int, b \in Nat \ {0}, g \in Nat \ {0} : Lowest(n, d, a, b, g)
  <2> HIDE DEF n, d
  <2>1. QED
    BY <1>3, RatioLowest
<1>5. x = <<a, b>> /\ n = g * a /\ d = g * b /\ Coprime(Magnitude(a), b)
  BY <1>3, <1>4 DEF Lowest
<1>6. a \in Nat \ {0}
  <2>1. n \in Nat \ {0}
    <3> DEFINE u == Up(e)
    <3> HIDE DEF u
    <3>1. s * u \in Nat \ {0}
      BY <1>2 DEF u
    <3>2. QED
      BY <3>1 DEF u
  <2> HIDE DEF n
  <2>2. QED
    BY <1>5, <2>1
<1>7. CASE e >= 0
  <2>1. g * b = 1
    BY <1>5, <1>7 DEF Down
  <2>2. b = 1
    BY <2>1
  <2>3. QED
    BY <1>5, <1>6, <2>2 DEF IsF32
<1>8. CASE ~(e >= 0)
  <2> DEFINE k == -e
  <2>1. k \in 0..MaxExponent /\ k \in 0..F32.range /\ k \in Nat
    BY <1>0, <1>1, <1>2, <1>8, TypeParts, WidthFacts DEF ExponentsOf
  <2>2. n = s /\ d = pow2[k]
    BY <1>2, <1>8 DEF Up, Down
  <2> HIDE DEF k, n, d
  <2>3. g * b = pow2[k]
    BY <1>5, <2>2
  <2>4. PICK j \in 0..k : b = pow2[j]
    BY <2>1, <2>3, PowerDivisor
  <2>5. j \in 0..F32.range
    BY <2>1, Widths
  <2>6. a < Hi(F32)
    <3>1. g * a >= 1 * a
      BY <1>6
    <3>2. s <= Hi(F32) - 1
      BY <1>1, <1>2
    <3>3. QED
      BY <1>1, <1>2, <1>5, <1>6, <2>2, <3>1, <3>2
  <2>7. QED
    BY <1>5, <1>6, <2>4, <2>5, <2>6 DEF IsF32
<1>9. QED
  BY <1>7, <1>8

(* No integer is nearer than the rounded value.                              *)
LEMMA RoundNearest ==
  ASSUME NEW A \in Nat, NEW b \in Nat \ {0}
  PROVE  /\ Round(<<A, b>>) \in Nat
         /\ \A n \in Int : Magnitude(Round(<<A, b>>) * b - A) <= Magnitude(n * b - A)
<1> DEFINE k == Round(<<A, b>>)
           r == (2 * A + b) % (2 * b)
<1>1. k = (2 * A + b) \div (2 * b)
  BY DEF Round
<1>2. k \in Nat /\ r \in 0..(2 * b - 1) /\ 2 * A + b = (2 * b) * k + r
  <2>1. 2 * A + b \in Nat /\ 2 * b \in Nat \ {0}
    OBVIOUS
  <2> DEFINE x == 2 * A + b
             y == 2 * b
  <2> HIDE DEF x, y
  <2>2. x \in Nat /\ y \in Nat \ {0}
    BY <2>1 DEF x, y
  <2>3. x \div y \in Nat /\ (x % y) \in 0..(y - 1) /\ x = y * (x \div y) + (x % y)
    BY <2>2, Division
  <2>4. QED
    BY <1>1, <2>3 DEF x, y
<1> HIDE DEF k, r
<1> DEFINE e == k * b
<1>3. e \in Int /\ 2 * A + b = 2 * e + r
  <2>1. (2 * b) * k = 2 * e
    BY <1>2
  <2>2. QED
    BY <1>2, <2>1
<1>4. ASSUME NEW n \in Int PROVE Magnitude(e - A) <= Magnitude(n * b - A)
  <2> DEFINE f == n * b
  <2>1. f \in Int /\ (f = e \/ f <= e - b \/ f >= e + b)
    <3>1. n = k \/ n <= k - 1 \/ n >= k + 1
      BY <1>2
    <3>2. CASE n = k
      BY <3>2, <1>3
    <3>3. CASE n <= k - 1
      <4>1. n * b <= (k - 1) * b
        BY <1>2, <3>3
      <4>2. (k - 1) * b = e - b
        BY <1>2
      <4>3. QED
        BY <1>3, <4>1, <4>2
    <3>4. CASE n >= k + 1
      <4>1. n * b >= (k + 1) * b
        BY <1>2, <3>4
      <4>2. (k + 1) * b = e + b
        BY <1>2
      <4>3. QED
        BY <1>3, <4>1, <4>2
    <3>5. QED
      BY <3>1, <3>2, <3>3, <3>4
  <2> HIDE DEF e, f
  <2>2. QED
    BY <1>2, <1>3, <2>1 DEF Magnitude, f
<1>5. QED
  BY <1>2, <1>4 DEF e, k

-----------------------------------------------------------------------------
(* GainMapFractions: continued fractions in rounded arithmetic.  What a         *)
(* convergent misses of the value is what the turns have left of it and what    *)
(* has been lost by rounding.                                               *)

(* Multiplying keeps an order, and dividing does.                            *)
LEMMA Scaling ==
  /\ \A i, j \in Int, k \in Nat : i <= j => i * k <= j * k
  /\ \A i, j \in Int, k \in Nat \ {0} : i * k <= j * k => i <= j
<1>1. ASSUME NEW i \in Int, NEW j \in Int, NEW k \in Nat, i <= j PROVE i * k <= j * k
  BY <1>1
<1>2. ASSUME NEW i \in Int, NEW j \in Int, NEW k \in Nat \ {0}, i * k <= j * k PROVE i <= j
  <2> SUFFICES ASSUME j + 1 <= i PROVE FALSE
    OBVIOUS
  <2>1. (j + 1) * k <= i * k
    BY <1>1
  <2>2. (j + 1) * k = j * k + k
    OBVIOUS
  <2>3. j * k \in Int /\ i * k \in Int
    OBVIOUS
  <2>4. QED
    BY <1>2, <2>1, <2>2, <2>3
<1>3. QED
  BY <1>1, <1>2

(* What is known of magnitudes.                                              *)
LEMMA Magnitudes ==
  /\ \A n \in Int : Magnitude(n) \in Nat /\ n <= Magnitude(n) /\ -Magnitude(n) <= n
  /\ \A n \in Int, k \in Nat : n <= k /\ -k <= n => Magnitude(n) <= k
  /\ \A n \in Int, k \in Nat : Magnitude(n * k) = Magnitude(n) * k
  /\ \A m, n \in Int : Magnitude(m + n) <= Magnitude(m) + Magnitude(n)
<1>1. ASSUME NEW n \in Int, NEW k \in Nat PROVE Magnitude(n * k) = Magnitude(n) * k
  <2>1. CASE n < 0
    <3>1. n * k <= 0 /\ n * k \in Int /\ (-n) * k = 0 - n * k
      BY <2>1
    <3>2. QED
      BY <2>1, <3>1 DEF Magnitude
  <2>2. CASE n >= 0
    <3>1. n * k >= 0 /\ n * k \in Int
      BY <2>2
    <3>2. QED
      BY <2>2, <3>1 DEF Magnitude
  <2>3. QED
    BY <2>1, <2>2
<1>2. QED
  BY <1>1 DEF Magnitude

(* One turn of exact arithmetic on the way to the next convergent.            *)
LEMMA Determinant ==
  ASSUME NEW d \in Int, NEW c \in Int, NEW x \in Int, NEW y \in Int, NEW p \in Int, NEW m \in Int,
         NEW A \in Int, NEW g \in Int, NEW h \in Int, NEW r \in Int, g = A * h + r
  PROVE  LET P == m + A * p
             D == c + A * d
         IN /\ P * h + p * r = m * h + p * g
            /\ D * h + d * r = c * h + d * g
            /\ (P * h + p * r) * (d * y + c * x) - (p * y + m * x) * (D * h + d * r)
                 = (p * c - m * d) * (g * x - h * y)
            /\ P * d - p * D = -(p * c - m * d)
<1> DEFINE P == m + A * p
           D == c + A * d
<1>1. P * h + p * r = m * h + p * g
  <2>1. P * h = m * h + p * (A * h)
    OBVIOUS
  <2>2. p * g = p * (A * h) + p * r
    OBVIOUS
  <2>3. QED
    BY <2>1, <2>2
<1>2. D * h + d * r = c * h + d * g
  <2>1. D * h = c * h + d * (A * h)
    OBVIOUS
  <2>2. d * g = d * (A * h) + d * r
    OBVIOUS
  <2>3. QED
    BY <2>1, <2>2
<1>3. (m * h + p * g) * (d * y + c * x) - (p * y + m * x) * (c * h + d * g)
        = (p * c - m * d) * (g * x - h * y)
  OBVIOUS
<1>4. P * d - p * D = -(p * c - m * d)
  OBVIOUS
<1> HIDE DEF P, D
<1>5. (P * h + p * r) * (d * y + c * x) - (p * y + m * x) * (D * h + d * r)
        = (p * c - m * d) * (g * x - h * y)
  BY <1>1, <1>2, <1>3
<1>6. QED
  BY <1>1, <1>2, <1>4, <1>5 DEF P, D

(* What a convergent p/d misses of a/b, by what the turns so far have lost     *)
(* and by what they have left.                                               *)
LEMMA ErrorIs ==
  ASSUME NEW a \in Int, NEW b \in Int, NEW d \in Int, NEW c \in Int, NEW x \in Int, NEW y \in Int,
         NEW p \in Int, NEW m \in Int
  PROVE  (d * y + c * x) * (p * b - d * a)
           = d * ((p * y + m * x) * b - a * (d * y + c * x)) + (p * c - m * d) * (b * x)
OBVIOUS

(* What is lost grows by no more than the rounding of an inverse.            *)
LEMMA LossGrows ==
  ASSUME NEW T \in Nat \ {0}, NEW a \in Nat \ {0}, NEW b \in Nat \ {0},
         NEW d \in Nat \ {0}, NEW D \in Nat \ {0}, NEW q \in Nat \ {0}, NEW q1 \in Nat \ {0},
         NEW y \in Nat, NEW h \in Nat, NEW z \in Int, NEW z1 \in Int, NEW w \in Int,
         z1 * q = z * q1 + w * b, Magnitude(w) * T <= h * y, d * y <= q, D * h <= q1,
         \/ d + 1 <= D /\ Magnitude(z) * (T * d) <= q * (6 * (a * d) - b)
         \/ d = 1 /\ z = 0 /\ b <= 3 * (a * D)
  PROVE  Magnitude(z1) * (T * D) <= q1 * (6 * (a * D) - b)
<1> DEFINE Z == Magnitude(z)
           Z1 == Magnitude(z1)
           V == Magnitude(w)
           e == 6 * (a * d) - b
<1>1. Z \in Nat /\ Z1 \in Nat /\ V \in Nat /\ e \in Int
  <2>1. Z \in Nat /\ Z1 \in Nat /\ V \in Nat
    BY Magnitudes
  <2>2. e \in Int
    OBVIOUS
  <2>3. QED
    BY <2>1, <2>2
<1>2. Z1 * q <= Z * q1 + V * b
  <2>1. Magnitude(z1 * q) = Z1 * q /\ Magnitude(z * q1) = Z * q1 /\ Magnitude(w * b) = V * b
    BY Magnitudes
  <2>2. z * q1 \in Int /\ w * b \in Int
    OBVIOUS
  <2>3. Magnitude(z * q1 + w * b) <= Magnitude(z * q1) + Magnitude(w * b)
    BY <2>2, Magnitudes
  <2>4. QED
    BY <2>1, <2>3
<1>3. (V * T) * (d * D) * b <= q * q1 * b
  <2>1. (V * T) * (d * D) <= (h * y) * (d * D)
    BY <1>1
  <2>2. (h * y) * (d * D) = (d * y) * (D * h)
    OBVIOUS
  <2>3. (d * y) * (D * h) <= q * q1
    <3> DEFINE i == d * y
               j == D * h
    <3>1. i \in Nat /\ j \in Nat /\ i <= q /\ j <= q1
      OBVIOUS
    <3> HIDE DEF i, j
    <3>2. i * j <= q * j /\ q * j <= q * q1
      BY <3>1
    <3>3. QED
      BY <3>1, <3>2 DEF i, j
  <2> DEFINE k == (V * T) * (d * D)
             l == q * q1
  <2>4. k \in Int /\ l \in Int /\ k <= l
    BY <1>1, <2>1, <2>2, <2>3
  <2> HIDE DEF k, l
  <2>5. k * b <= l * b
    BY <2>4
  <2>6. QED
    BY <2>5 DEF k, l
<1> DEFINE k == (V * T) * (d * D) * b
<1> HIDE DEF Z, Z1, V
<1>4. (Z1 * q) * (T * (d * D)) <= (Z * q1) * (T * (d * D)) + k
  <2>1. (Z1 * q) * (T * (d * D)) <= (Z * q1 + V * b) * (T * (d * D))
    <3> DEFINE i == Z1 * q
               j == Z * q1 + V * b
               l == T * (d * D)
    <3>1. i \in Int /\ j \in Int /\ l \in Nat /\ i <= j
      BY <1>1, <1>2
    <3> HIDE DEF i, j, l
    <3>2. i * l <= j * l
      BY <3>1
    <3>3. QED
      BY <3>2 DEF i, j, l
  <2>2. (Z * q1 + V * b) * (T * (d * D)) = (Z * q1) * (T * (d * D)) + k
    BY <1>1
  <2>3. QED
    BY <2>1, <2>2
<1>5. CASE d + 1 <= D /\ Z * (T * d) <= q * e
  <2>1. (Z * q1) * (T * (d * D)) <= q * q1 * (e * D)
    <3> DEFINE i == Z * (T * d)
               j == q * e
               l == q1 * D
    <3>1. i \in Int /\ j \in Int /\ l \in Nat /\ i <= j
      BY <1>1, <1>5
    <3> HIDE DEF i, j, l, e
    <3>2. i * l <= j * l
      BY <3>1
    <3>3. (Z * q1) * (T * (d * D)) = i * l /\ q * q1 * (e * D) = j * l
      BY <1>1 DEF i, j, l
    <3>4. QED
      BY <3>2, <3>3
  <2>2. (Z1 * q) * (T * (d * D)) <= q * q1 * (e * D) + q * q1 * b
    <3> DEFINE i == (Z1 * q) * (T * (d * D))
               j == (Z * q1) * (T * (d * D))
               l == q * q1 * (e * D)
               o == q * q1 * b
    <3>1. i \in Int /\ j \in Int /\ l \in Int /\ o \in Int /\ k \in Int
      BY <1>1
    <3>2. i <= j + k /\ k <= o /\ j <= l
      BY <1>3, <1>4, <2>1
    <3> HIDE DEF i, j, k, l, o
    <3>3. i <= l + o
      BY <3>1, <3>2
    <3>4. QED
      BY <3>3 DEF i, l, o
  <2>3. e * D + b <= d * (6 * (a * D) - b)
    <3>1. e * D = 6 * (a * d) * D - b * D
      OBVIOUS
    <3>2. d * (6 * (a * D) - b) = 6 * (a * d) * D - b * d
      OBVIOUS
    <3>3. b * (d + 1) <= b * D /\ b * (d + 1) = b * d + b
      BY <1>5
    <3>4. 6 * (a * d) * D \in Int /\ b * D \in Int /\ b * d \in Int
      OBVIOUS
    <3> HIDE DEF e
    <3>5. QED
      BY <1>1, <3>1, <3>2, <3>3, <3>4
  <2> DEFINE s == q1 * (6 * (a * D) - b)
             u == Z1 * (T * D)
  <2>4. u * d * q <= s * d * q
    <3>1. u * d * q = (Z1 * q) * (T * (d * D))
      BY <1>1
    <3> DEFINE i == e * D + b
               j == d * (6 * (a * D) - b)
               l == q * q1
    <3>2. i \in Int /\ j \in Int /\ l \in Nat /\ i <= j
      BY <1>1, <2>3
    <3>3. q * q1 * (e * D) + q * q1 * b = i * l
      BY <1>1
    <3>4. s * d * q = j * l
      OBVIOUS
    <3> HIDE DEF i, j, l
    <3>5. i * l <= j * l
      BY <3>2
    <3> DEFINE n == (Z1 * q) * (T * (d * D))
    <3>6. n <= i * l
      BY <2>2, <3>3
    <3>7. n \in Int /\ i * l \in Int /\ j * l \in Int
      BY <1>1, <3>2
    <3> HIDE DEF n, s, u
    <3>8. n <= j * l
      BY <3>5, <3>6, <3>7
    <3>9. QED
      BY <3>1, <3>4, <3>8 DEF n
  <2>5. u \in Int /\ s \in Int
    BY <1>1
  <2> HIDE DEF u, s
  <2>6. u * d <= s * d
    <3> DEFINE i == u * d
               j == s * d
    <3>1. i \in Int /\ j \in Int /\ i * q <= j * q
      BY <2>4, <2>5
    <3> HIDE DEF i, j
    <3>2. i <= j
      BY <3>1, Scaling
    <3>3. QED
      BY <3>2 DEF i, j
  <2>7. u <= s
    BY <2>5, <2>6, Scaling
  <2>8. QED
    BY <2>7 DEF u, s, Z1
<1>6. CASE d = 1 /\ z = 0 /\ b <= 3 * (a * D)
  <2> DEFINE u == Z1 * (T * D)
             s == q1 * b
             t == q1 * (6 * (a * D) - b)
  <2>1. Z = 0
    BY <1>6 DEF Z, Magnitude
  <2>2. u * q <= s * q
    <3>1. (Z1 * q) * (T * (d * D)) = u * q
      BY <1>1, <1>6
    <3>2. (Z * q1) * (T * (d * D)) = 0
      BY <2>1
    <3>3. q * q1 * b = s * q
      OBVIOUS
    <3>4. k \in Int /\ u * q \in Int /\ s * q \in Int
      BY <1>1
    <3> HIDE DEF k, u, s
    <3>5. u * q <= k
      BY <1>4, <3>1, <3>2, <3>4
    <3>6. k <= s * q
      BY <1>3, <3>3 DEF k
    <3>7. QED
      BY <3>4, <3>5, <3>6
  <2>3. u \in Int /\ s \in Int /\ t \in Int
    BY <1>1
  <2>4. s <= t
    <3>1. b <= 6 * (a * D) - b
      BY <1>6
    <3> DEFINE i == 6 * (a * D) - b
    <3>2. i \in Int /\ b <= i
      BY <3>1
    <3> HIDE DEF i
    <3>3. b * q1 <= i * q1
      BY <3>2
    <3>4. QED
      BY <3>2, <3>3 DEF i
  <2> HIDE DEF u, s, t
  <2>5. u <= s
    BY <2>2, <2>3, Scaling
  <2>6. u <= t
    BY <2>3, <2>4, <2>5
  <2>7. QED
    BY <2>6 DEF u, t, Z1
<1>7. QED
  BY <1>5, <1>6 DEF Z

(* What the inverse of x/y is when it is rounded.                             *)
Inverts(g, h, x, y, T) ==
  /\ g \in Nat \ {0} /\ h \in Nat \ {0} /\ h <= g
  /\ Magnitude(g * x - h * y) * T <= h * y

(* What the rounded inverse g/h of x/y adds to the denominators, and what it  *)
(* leaves.                                                                   *)
LEMMA InverseParts ==
  ASSUME NEW T \in Nat \ {0}, T >= 3, NEW x \in Nat \ {0}, NEW y \in Nat \ {0},
         NEW g, NEW h, Inverts(g, h, x, y, T)
  PROVE  /\ g \div h \in Nat \ {0} /\ g % h \in Nat /\ g % h < h
         /\ g = (g \div h) * h + (g % h)
         /\ ((g \div h) * x) * T <= y * (T + 1)
         /\ y <= 3 * ((g \div h) * x)
<1> USE DEF Inverts
<1> DEFINE A == g \div h
           r == g % h
<1>1. A \in Nat /\ r \in Nat /\ r < h /\ g = h * A + r
  <2>1. g \div h \in Nat /\ (g % h) \in 0..(h - 1) /\ g = h * (g \div h) + (g % h)
    BY Division
  <2>2. QED
    BY <2>1
<1> HIDE DEF A, r
<1>2. A # 0
  <2> SUFFICES ASSUME A = 0 PROVE FALSE
    BY DEF A
  <2>1. h * A = 0
    OBVIOUS
  <2>2. QED
    BY <1>1, <2>1
<1> DEFINE u == g * x
           w == h * y
           e == u - w
<1>3. u \in Nat /\ w \in Nat
  OBVIOUS
<1>4. (u - w) * T <= w /\ (w - u) * T <= w
  <2>1. Magnitude(e) \in Nat /\ e <= Magnitude(e) /\ -Magnitude(e) <= e /\ Magnitude(e) * T <= w
    BY <1>3, Magnitudes
  <2> DEFINE E == Magnitude(e)
             o == w - u
  <2>2. e \in Int /\ o \in Int /\ E \in Nat /\ e <= E /\ o <= E /\ E * T <= w /\ E * T \in Int
    BY <1>3, <2>1
  <2> HIDE DEF E, e, o
  <2>3. e * T <= E * T /\ o * T <= E * T
    BY <2>2
  <2>4. e * T \in Int /\ o * T \in Int
    BY <2>2
  <2> HIDE DEF u, w
  <2>5. e * T <= w /\ o * T <= w
    BY <1>3, <2>2, <2>3, <2>4
  <2>6. QED
    BY <2>5 DEF e, o
<1> DEFINE v == A * h * x
           k == A * x
<1>5. v \in Nat /\ k \in Nat /\ v = k * h /\ v <= u /\ u <= 2 * v
  <2>1. v \in Nat /\ k \in Nat /\ v = k * h
    BY <1>1
  <2>2. u = v + r * x /\ r * x \in Nat
    BY <1>1
  <2>3. r * x <= v
    <3>1. r <= A * h
      <4>1. 1 * h <= A * h
        BY <1>1, <1>2
      <4>2. A * h \in Int
        BY <1>1
      <4>3. QED
        BY <1>1, <4>1, <4>2
    <3> DEFINE s == A * h
    <3>2. s \in Nat /\ r <= s
      BY <1>1, <3>1
    <3> HIDE DEF s
    <3>3. r * x <= s * x
      BY <1>1, <3>2
    <3>4. QED
      BY <3>3 DEF s
  <2> HIDE DEF u, v
  <2>4. QED
    BY <1>3, <2>1, <2>2, <2>3
<1>6. k * T <= y * (T + 1)
  <2>1. u * T <= w * (T + 1)
    <3>1. (u - w) * T = u * T - w * T /\ w * (T + 1) = w * T + w
      BY <1>3
    <3>2. u * T \in Int /\ w * T \in Int
      BY <1>3
    <3> HIDE DEF u, w
    <3>3. QED
      BY <1>3, <1>4, <3>1, <3>2
  <2>2. v * T <= u * T
    <3> HIDE DEF u, v
    <3>1. QED
      BY <1>3, <1>5
  <2> DEFINE i == k * T
             j == y * (T + 1)
  <2>3. v * T = i * h /\ w * (T + 1) = j * h
    BY <1>1
  <2>4. i \in Int /\ j \in Int
    BY <1>5
  <2>5. i * h \in Int /\ j * h \in Int /\ u * T \in Int
    BY <1>3, <2>4
  <2> HIDE DEF u, v, w, i, j
  <2>6. i * h <= j * h
    BY <2>1, <2>2, <2>3, <2>5
  <2>7. i <= j
    BY <2>4, <2>6, Scaling
  <2>8. QED
    BY <2>7 DEF i, j
<1>7. y <= 3 * k
  <2>1. 2 * w <= 3 * u
    <3> SUFFICES ASSUME 3 * u < 2 * w PROVE FALSE
      BY <1>3
    <3> HIDE DEF u, w
    <3>1. (w - u) * 3 <= (w - u) * T
      <4> DEFINE o == w - u
      <4>1. o \in Nat
        BY <1>3
      <4> HIDE DEF o
      <4>2. o * 3 <= o * T
        BY <4>1
      <4>3. QED
        BY <4>2 DEF o
    <3>2. (w - u) * T \in Int
      BY <1>3
    <3>3. QED
      BY <1>3, <1>4, <3>1, <3>2
  <2>2. w <= 3 * v
    <3> HIDE DEF u, v, w
    <3>1. QED
      BY <1>3, <1>5, <2>1
  <2> DEFINE j == 3 * k
  <2>3. w = y * h /\ 3 * v = j * h /\ j \in Int
    BY <1>1, <1>5
  <2> HIDE DEF w, v, k, j
  <2>4. y * h <= j * h
    BY <2>2, <2>3
  <2>5. y <= j
    BY <2>3, <2>4, Scaling
  <2>6. QED
    BY <2>5 DEF j
<1>8. QED
  BY <1>1, <1>2, <1>6, <1>7 DEF A, r, k

(* The numerator for a denominator d: no convergent is much nearer to a/b, and *)
(* one that seems to be exact is off by no more than a rounding.              *)
LEMMA NumeratorNear ==
  ASSUME NEW T \in Nat \ {0}, NEW N \in Nat, NEW b \in Nat \ {0}, NEW g \in Nat, NEW h \in Nat \ {0},
         Magnitude(g * b - h * N) * T <= h * N
  PROVE  LET n == Round(<<g, h>>)
         IN /\ n \in Nat
            /\ <<g, h>> = Whole(n) => Magnitude(n * b - N) * T <= N
            /\ \A p \in Int : Magnitude(n * b - N) * T <= Magnitude(p * b - N) * T + 2 * N
<1> DEFINE n == Round(<<g, h>>)
<1>1. n \in Nat /\ \A p \in Int : Magnitude(n * h - g) <= Magnitude(p * h - g)
  BY RoundNearest
<1> HIDE DEF n
<1> DEFINE w == h * N
           u == g * b
           e == u - w
<1>2. w \in Nat /\ u \in Nat /\ e \in Int /\ Magnitude(e) \in Nat /\ Magnitude(e) * T <= w
  BY Magnitudes
<1>3. <<g, h>> = Whole(n) => Magnitude(n * b - N) * T <= N
  BY <1>1 DEF Whole
<1>4. ASSUME NEW p \in Int PROVE Magnitude(n * b - N) * T <= Magnitude(p * b - N) * T + 2 * N
  <2> DEFINE i == n * b - N
             j == p * b - N
             s == n * h - g
             t == p * h - g
             E == Magnitude(e)
  <2>1. i \in Int /\ j \in Int /\ s \in Int /\ t \in Int
    BY <1>1
  <2>2. i * h = s * b + e /\ t * b = j * h + (-1) * e
    BY <1>1, <1>2
  <2>3. Magnitude(s) <= Magnitude(t)
    BY <1>1
  <2> HIDE DEF i, j, s, t, e, E
  <2>4. Magnitude((-1) * e) = Magnitude(e)
    BY <1>2 DEF Magnitude
  <2> DEFINE I == Magnitude(i)
             J == Magnitude(j)
             S == Magnitude(s)
             U == Magnitude(t)
  <2>5. I \in Nat /\ J \in Nat /\ S \in Nat /\ U \in Nat /\ E \in Nat /\ S <= U /\ E * T <= w
    BY <1>2, <2>1, <2>3, Magnitudes DEF E
  <2>6. I * h <= S * b + E
    <3>1. Magnitude(i * h) = I * h /\ Magnitude(s * b) = S * b
      BY <2>1, Magnitudes
    <3>2. s * b \in Int
      BY <2>1
    <3>3. Magnitude(s * b + e) <= Magnitude(s * b) + Magnitude(e)
      BY <1>2, <3>2, Magnitudes
    <3>4. QED
      BY <2>2, <3>1, <3>3 DEF E
  <2>7. U * b <= J * h + E
    <3>1. Magnitude(t * b) = U * b /\ Magnitude(j * h) = J * h
      BY <2>1, Magnitudes
    <3>2. j * h \in Int /\ (-1) * e \in Int
      BY <1>2, <2>1
    <3>3. Magnitude(j * h + (-1) * e) <= Magnitude(j * h) + Magnitude((-1) * e)
      BY <3>2, Magnitudes
    <3>4. QED
      BY <2>2, <2>4, <3>1, <3>3 DEF E
  <2> HIDE DEF I, J, S, U, w
  <2>8. S * b <= U * b /\ S * b \in Int /\ U * b \in Int /\ I * h \in Int /\ J * h \in Int
    BY <2>5
  <2>9. I * h <= J * h + 2 * E
    BY <2>5, <2>6, <2>7, <2>8
  <2> DEFINE k == J * T + 2 * N
             l == I * T
  <2>10. l * h <= k * h
    <3> DEFINE x == I * h
               y == J * h + 2 * E
    <3>1. x \in Int /\ y \in Int /\ x <= y
      BY <2>5, <2>8, <2>9
    <3> HIDE DEF x, y
    <3>2. x * T <= y * T
      BY <3>1
    <3>3. l * h = x * T /\ y * T = (J * T) * h + 2 * (E * T)
      BY <2>5 DEF x, y
    <3>4. k * h = (J * T) * h + 2 * w
      BY <2>5 DEF w
    <3>5. E * T \in Int /\ (J * T) * h \in Int
      BY <2>5
    <3>6. QED
      BY <1>2, <2>5, <3>2, <3>3, <3>4, <3>5
  <2>11. l \in Int /\ k \in Int
    BY <2>5
  <2> HIDE DEF k, l
  <2>12. l <= k
    BY <2>10, <2>11, Scaling
  <2>13. QED
    BY <2>12 DEF k, l, I, J, i, j
<1>5. QED
  BY <1>1, <1>3, <1>4 DEF n

(* A convergent p/d of a/b, the one before it (m/c), and the part x/y that the  *)
(* turns have left of the value: what is Left of it in the denominators, and    *)
(* what has been Lost by rounding, which is 0 before the first turn.          *)
Left(d, c, x, y) == d * y + c * x
Lost(a, b, d, c, x, y, p, m) == (p * y + m * x) * b - a * Left(d, c, x, y)

Convergent(a, b, T, d, c, x, y, p, m, s) ==
  /\ d \in Nat \ {0} /\ c \in Nat /\ c <= d /\ x \in Nat /\ y \in Nat \ {0} /\ x < y
  /\ p \in Nat /\ m \in Nat /\ s \in {1, -1} /\ p * c - m * d = s
  /\ \/ d = 1 /\ c = 0 /\ y = b /\ x <= a /\ Lost(a, b, d, c, x, y, p, m) = 0
     \/ /\ c >= 1
        /\ Magnitude(Lost(a, b, d, c, x, y, p, m)) * (T * d)
             <= Left(d, c, x, y) * (6 * (a * d) - b)

(* Before the first turn it is the whole part of the value.                  *)
LEMMA ConvergentFirst ==
  ASSUME NEW a \in Nat \ {0}, NEW b \in Nat \ {0}, NEW T \in Nat \ {0}
  PROVE  Convergent(a, b, T, 1, 0, a % b, b, a \div b, 1, -1)
<1> DEFINE r == a % b
           p == a \div b
<1>1. p \in Nat /\ r \in 0..(b - 1) /\ a = b * p + r
  BY Division
<1> HIDE DEF p, r
<1>2. r \in Nat /\ r < b /\ b * p \in Nat /\ r <= a
  BY <1>1
<1>3. p * 0 - 1 * 1 = -1
  BY <1>1
<1>4. (p * b + 1 * r) * b - a * (1 * b + 0 * r) = 0
  <2>1. p * b + 1 * r = a /\ 1 * b + 0 * r = b
    BY <1>1, <1>2
  <2>2. a * b - a * b = 0
    OBVIOUS
  <2>3. QED
    BY <2>1, <2>2
<1>5. QED
  BY <1>1, <1>2, <1>3, <1>4 DEF Convergent, Lost, Left, p, r

(* A turn leads to the next one, on the other side.                          *)
LEMMA ConvergentNext ==
  ASSUME NEW a \in Nat \ {0}, NEW b \in Nat \ {0}, NEW T \in Nat \ {0}, T >= 3,
         NEW d, NEW c, NEW x, NEW y, NEW p, NEW m, NEW s,
         Convergent(a, b, T, d, c, x, y, p, m, s), x # 0,
         NEW g, NEW h, Inverts(g, h, x, y, T)
  PROVE  LET A == g \div h
             D == c + A * d
             P == m + A * p
         IN /\ A \in Nat \ {0} /\ D \in Nat \ {0} /\ c + d <= D /\ m + p <= P
            /\ D * h <= Left(D, d, g % h, h) /\ P \in Nat
            /\ \E s1 \in {1, -1} : s1 + s = 0 /\ Convergent(a, b, T, D, d, g % h, h, P, p, s1)
            /\ D >= 1 /\ d >= 1
<1> DEFINE A == g \div h
           r == g % h
           D == c + A * d
           P == m + A * p
<1>0. /\ g \in Nat \ {0} /\ h \in Nat \ {0} /\ h <= g
      /\ Magnitude(g * x - h * y) * T <= h * y
  BY DEF Inverts
<1>1. /\ d \in Nat \ {0} /\ c \in Nat /\ c <= d /\ x \in Nat \ {0} /\ y \in Nat \ {0}
      /\ p \in Nat /\ m \in Nat /\ s \in {1, -1} /\ p * c - m * d = s
  BY DEF Convergent
<1>2. /\ A \in Nat \ {0} /\ r \in Nat /\ r < h /\ g = A * h + r
      /\ y <= 3 * (A * x)
  <2>1. x \in Nat \ {0} /\ y \in Nat \ {0}
    BY <1>0, <1>1
  <2>2. /\ g \div h \in Nat \ {0} /\ g % h \in Nat /\ g % h < h /\ g = (g \div h) * h + (g % h)
        /\ y <= 3 * ((g \div h) * x)
    BY <2>1, InverseParts
  <2>3. QED
    BY <2>2
<1> HIDE DEF A, r
<1>3. D \in Nat \ {0} /\ P \in Nat /\ c + d <= D /\ m + p <= P /\ d <= D
  <2>1. 1 * d <= A * d /\ 1 * p <= A * p
    BY <1>0, <1>1, <1>2
  <2>2. A * d \in Nat /\ A * p \in Nat
    BY <1>0, <1>1, <1>2
  <2>3. QED
    BY <1>0, <1>1, <2>1, <2>2
<1> DEFINE q == d * y + c * x
           q1 == D * h + d * r
           z == (p * y + m * x) * b - a * q
           z1 == (P * h + p * r) * b - a * q1
           e == g * x - h * y
<1>4. /\ (P * h + p * r) * q - (p * y + m * x) * q1 = (p * c - m * d) * e
      /\ P * d - p * D = -(p * c - m * d)
  BY <1>0, <1>1, <1>2, Determinant
<1> HIDE DEF D, P
<1>5. q \in Nat \ {0} /\ q1 \in Nat \ {0} /\ d * y <= q /\ D * h <= q1
  <2>1. d * y \in Nat \ {0} /\ D * h \in Nat \ {0}
    BY <1>0, <1>1, <1>3
  <2>2. c * x \in Nat /\ d * r \in Nat
    BY <1>0, <1>1, <1>2
  <2> DEFINE i == d * y
             j == D * h
             k == c * x
             l == d * r
  <2> HIDE DEF i, j, k, l
  <2>3. i + k \in Nat \ {0} /\ j + l \in Nat \ {0} /\ i <= i + k /\ j <= j + l
    BY <2>1, <2>2 DEF i, j, k, l
  <2>4. QED
    BY <2>3 DEF i, j, k, l
<1> HIDE DEF q, q1
<1>6. z1 * q = z * q1 + (s * e) * b
  <2> DEFINE W == p * y + m * x
             V == P * h + p * r
  <2>1. W \in Int /\ V \in Int /\ e \in Int
    BY <1>0, <1>1, <1>2, <1>3
  <2>2. V * q - W * q1 = s * e
    BY <1>0, <1>1, <1>4
  <2> DEFINE f == s * e
  <2> HIDE DEF W, V, e, f
  <2>3. (V * b - a * q1) * q = (W * b - a * q) * q1 + (V * q - W * q1) * b
    BY <1>5, <2>1
  <2>4. V * q - W * q1 = f
    BY <2>2 DEF f
  <2>5. (V * b - a * q1) * q = (W * b - a * q) * q1 + f * b
    BY <2>3, <2>4
  <2>6. QED
    BY <2>5 DEF W, V, f
<1>7. s * e \in Int /\ Magnitude(s * e) = Magnitude(e) /\ e \in Int
  <2>1. e \in Int
    BY <1>0, <1>1
  <2> HIDE DEF e
  <2>2. s = 1 \/ s = -1
    BY <1>0, <1>1
  <2>3. QED
    BY <2>1, <2>2 DEF Magnitude
<1>8. z \in Int /\ z1 \in Int
  BY <1>0, <1>1, <1>2, <1>3, <1>5
<1>9. \/ d + 1 <= D /\ Magnitude(z) * (T * d) <= q * (6 * (a * d) - b)
      \/ d = 1 /\ z = 0 /\ b <= 3 * (a * D)
  <2>1. CASE c >= 1 /\ Magnitude(z) * (T * d) <= q * (6 * (a * d) - b)
    BY <1>0, <1>1, <1>3, <2>1
  <2>2. CASE d = 1 /\ c = 0 /\ y = b /\ x <= a /\ z = 0
    <3>1. D = A
      BY <1>2, <2>2 DEF D
    <3>2. A * x <= A * a
      BY <1>0, <1>1, <1>2, <2>2
    <3>3. A * x \in Int /\ A * a \in Int /\ a * D = A * a
      BY <1>0, <1>1, <1>2, <3>1
    <3>4. QED
      BY <1>0, <1>1, <1>2, <2>2, <3>2, <3>3
  <2>3. QED
    BY <2>1, <2>2 DEF Convergent, Lost, Left, q
<1> DEFINE w == s * e
<1>10. Magnitude(w) * T <= h * y /\ w \in Int /\ z1 * q = z * q1 + w * b
  BY <1>0, <1>6, <1>7
<1> HIDE DEF w, e, z, z1
<1>11. Magnitude(z1) * (T * D) <= q1 * (6 * (a * D) - b)
  <2>1. y \in Nat /\ h \in Nat
    BY <1>0, <1>1
  <2>2. QED
    BY <1>0, <1>1, <1>3, <1>5, <1>8, <1>9, <1>10, <2>1, LossGrows
<1>12. Lost(a, b, D, d, r, h, P, p) = z1 /\ Left(D, d, r, h) = q1
  BY DEF Lost, Left, z1, q1
<1>13. PICK s1 \in {1, -1} : s1 + s = 0
  BY <1>0, <1>1
<1>14. P * d - p * D = s1
  <2> DEFINE i == p * c - m * d
             j == P * d - p * D
  <2>1. j = -i /\ i = s
    BY <1>0, <1>1, <1>4
  <2> HIDE DEF i, j
  <2>2. j = s1
    BY <1>0, <1>1, <1>13, <2>1
  <2>3. QED
    BY <2>2 DEF j
<1>15. Convergent(a, b, T, D, d, r, h, P, p, s1)
  BY <1>0, <1>1, <1>2, <1>3, <1>11, <1>12, <1>13, <1>14 DEF Convergent
<1>16. QED
  BY <1>0, <1>1, <1>2, <1>3, <1>5, <1>12, <1>13, <1>15 DEF A, D, P, r

(* By how much a convergent misses the value, on the side its sign says.      *)
LEMMA SignedError ==
  ASSUME NEW a \in Nat \ {0}, NEW b \in Nat \ {0}, NEW T \in Nat \ {0},
         NEW d, NEW c, NEW x, NEW y, NEW p, NEW m, NEW s,
         Convergent(a, b, T, d, c, x, y, p, m, s)
  PROVE  /\ Left(d, c, x, y) \in Nat \ {0} /\ d * y <= Left(d, c, x, y)
         /\ s * (p * b - d * a) \in Int /\ s * Lost(a, b, d, c, x, y, p, m) \in Int
         /\ Left(d, c, x, y) * (s * (p * b - d * a))
              = (s * Lost(a, b, d, c, x, y, p, m)) * d + b * x
         /\ Magnitude(s * Lost(a, b, d, c, x, y, p, m)) * (T * d)
              <= Left(d, c, x, y) * (6 * (a * d))
<1>1. /\ d \in Nat \ {0} /\ c \in Nat /\ c <= d /\ x \in Nat /\ y \in Nat \ {0}
      /\ p \in Nat /\ m \in Nat /\ s \in {1, -1} /\ p * c - m * d = s
  BY DEF Convergent
<1> DEFINE q == d * y + c * x
           z == (p * y + m * x) * b - a * q
           e == p * b - d * a
<1>2. q \in Nat \ {0} /\ d * y <= q
  <2>1. d * y \in Nat \ {0} /\ c * x \in Nat
    BY <1>1
  <2>2. QED
    BY <2>1
<1>3. z \in Int /\ e \in Int /\ p * y + m * x \in Int
  BY <1>1, <1>2
<1>4. q * e = d * z + s * (b * x)
  BY <1>1, ErrorIs
<1>5. /\ Left(d, c, x, y) = q /\ Lost(a, b, d, c, x, y, p, m) = z
  BY DEF Left, Lost
<1>6. \/ d = 1 /\ z = 0
      \/ Magnitude(z) * (T * d) <= q * (6 * (a * d) - b)
  BY <1>5 DEF Convergent
<1> HIDE DEF q, z, e
<1>7. s * z \in Int /\ s * e \in Int /\ Magnitude(s * z) = Magnitude(z)
  <2>1. s = 1 \/ s = -1
    BY <1>1
  <2>2. QED
    BY <1>3, <2>1 DEF Magnitude
<1>8. q * (s * e) = (s * z) * d + b * x
  <2>1. s * (q * e) = s * (d * z) + b * x
    <3> DEFINE i == q * e
               j == d * z
               k == b * x
    <3>1. i \in Int /\ j \in Int /\ k \in Int /\ i = j + s * k
      BY <1>1, <1>2, <1>3, <1>4
    <3> HIDE DEF i, j, k
    <3>2. s = 1 \/ s = -1
      BY <1>1
    <3>3. s * i = s * j + k
      BY <3>1, <3>2
    <3>4. QED
      BY <3>3 DEF i, j, k
  <2>2. s * (q * e) = q * (s * e) /\ s * (d * z) = (s * z) * d
    BY <1>1, <1>2, <1>3
  <2>3. QED
    BY <2>1, <2>2
<1>9. Magnitude(z) * (T * d) <= q * (6 * (a * d))
  <2>1. CASE d = 1 /\ z = 0
    <3>1. Magnitude(z) = 0
      BY <2>1 DEF Magnitude
    <3>2. q * (6 * (a * d)) \in Nat /\ T * d \in Nat
      BY <1>1, <1>2
    <3>3. QED
      BY <3>1, <3>2
  <2>2. CASE Magnitude(z) * (T * d) <= q * (6 * (a * d) - b)
    <3>1. q * (6 * (a * d) - b) = q * (6 * (a * d)) - q * b
      BY <1>1, <1>2
    <3>2. q * b \in Nat /\ q * (6 * (a * d)) \in Int
      BY <1>1, <1>2
    <3>3. Magnitude(z) * (T * d) \in Int
      BY <1>1, <1>3, Magnitudes
    <3>4. QED
      BY <2>2, <3>1, <3>2, <3>3
  <2>3. QED
    BY <1>6, <2>1, <2>2
<1>10. QED
  BY <1>2, <1>5, <1>7, <1>8, <1>9 DEF e

(* While the denominator is small, what is lost is, too.                      *)
LEMMA SmallLoss ==
  ASSUME NEW a \in Nat \ {0}, NEW b \in Nat \ {0}, NEW T \in Nat \ {0},
         NEW d, NEW c, NEW x, NEW y, NEW p, NEW m, NEW s,
         Convergent(a, b, T, d, c, x, y, p, m, s), 16 * (a * d) <= T
  PROVE  LET v == (s * Lost(a, b, d, c, x, y, p, m)) * d
             q == Left(d, c, x, y)
         IN v \in Int /\ 16 * v <= 6 * q /\ -(6 * q) <= 16 * v
<1> DEFINE q == Left(d, c, x, y)
           z == s * Lost(a, b, d, c, x, y, p, m)
<1>1. d \in Nat \ {0}
  BY DEF Convergent
<1>2. /\ q \in Nat \ {0} /\ z \in Int
      /\ Magnitude(z) * (T * d) <= q * (6 * (a * d))
  BY SignedError
<1> HIDE DEF q, z
<1>3. 16 * (Magnitude(z) * d) <= 6 * q
  <2> DEFINE Z == Magnitude(z) * d
             i == a * d
  <2>1. Magnitude(z) \in Nat
    BY <1>2, Magnitudes
  <2>2. Z \in Nat /\ i \in Nat
    BY <1>1, <2>1
  <2>3. 16 * i <= T
    OBVIOUS
  <2>4. Magnitude(z) * (T * d) = Z * T
    BY <1>1, <2>1
  <2> HIDE DEF Z, i
  <2>5. Z * T <= q * (6 * i)
    BY <1>2, <2>4 DEF i
  <2>6. (16 * Z) * T <= (6 * q) * T
    <3>1. (16 * i) * (6 * q) <= T * (6 * q)
      BY <1>2, <2>2, <2>3
    <3>2. (16 * Z) * T = 16 * (Z * T) /\ (16 * i) * (6 * q) = 16 * (q * (6 * i))
      BY <1>2, <2>2
    <3>3. Z * T \in Int /\ q * (6 * i) \in Int /\ T * (6 * q) = (6 * q) * T
      BY <1>2, <2>2
    <3> DEFINE j == Z * T
               k == q * (6 * i)
               l == T * (6 * q)
    <3>4. j \in Int /\ k \in Int /\ l \in Int
      BY <1>2, <2>2
    <3>5. (16 * Z) * T = 16 * j /\ (6 * q) * T = l /\ j <= k
      BY <2>5, <3>2, <3>3
    <3>6. 16 * k <= l
      BY <3>1, <3>2, Zenon
    <3> HIDE DEF j, k, l
    <3>7. QED
      BY <3>4, <3>5, <3>6
  <2>7. 16 * Z <= 6 * q
    <3> DEFINE j == 16 * Z
               k == 6 * q
    <3>1. j \in Int /\ k \in Int /\ j * T <= k * T
      BY <1>2, <2>2, <2>6
    <3> HIDE DEF j, k
    <3>2. j <= k
      BY <3>1, Scaling
    <3>3. QED
      BY <3>2 DEF j, k
  <2>8. QED
    BY <2>7 DEF Z
<1>4. z * d \in Int /\ 16 * (z * d) <= 6 * q /\ -(6 * q) <= 16 * (z * d)
  <2>1. Magnitude(z) \in Nat /\ z <= Magnitude(z) /\ -Magnitude(z) <= z
    BY <1>2, Magnitudes
  <2> DEFINE Z == Magnitude(z)
  <2> HIDE DEF Z
  <2>2. z * d <= Z * d /\ (-Z) * d <= z * d /\ (-Z) * d = -(Z * d)
    BY <1>1, <1>2, <2>1 DEF Z
  <2>3. z * d \in Int /\ Z * d \in Int
    BY <1>1, <1>2, <2>1 DEF Z
  <2>4. 16 * (Z * d) <= 6 * q
    BY <1>3 DEF Z
  <2>5. QED
    BY <1>2, <2>2, <2>3, <2>4
<1>5. QED
  BY <1>4 DEF q, z

(* While a mantissa over a small power of two is searched for, no turn goes     *)
(* beyond it: the errors of two convergents on both sides of the value share    *)
(* what is between them.                                                     *)
LEMMA StaysBelow ==
  ASSUME NEW a \in Nat \ {0}, NEW b \in Nat \ {0}, NEW T \in Nat \ {0}, T >= 128,
         NEW d, NEW c, NEW x, NEW y, NEW p, NEW m, NEW s,
         Convergent(a, b, T, d, c, x, y, p, m, s), x # 0,
         16 * (a * b) <= T, d <= b, p * b # d * a,
         NEW g, NEW h, Inverts(g, h, x, y, T)
  PROVE  c + (g \div h) * d <= b
<1> DEFINE A == g \div h
           D == c + A * d
           P == m + A * p
           r == g % h
<1>1. /\ d \in Nat \ {0} /\ c \in Nat /\ c <= d /\ x \in Nat \ {0} /\ y \in Nat \ {0}
      /\ p \in Nat /\ m \in Nat /\ s \in {1, -1} /\ p * c - m * d = s
  BY DEF Convergent
<1>2. A \in Nat \ {0} /\ (A * x) * T <= y * (T + 1)
  BY <1>1, InverseParts
<1>3. PICK s1 \in {1, -1} :
        s1 + s = 0 /\ Convergent(a, b, T, D, d, r, h, P, p, s1)
  BY ConvergentNext
<1>4. D \in Nat \ {0} /\ P \in Nat /\ r \in Nat /\ P * d - p * D = s1
  BY <1>3 DEF Convergent
<1> DEFINE q == Left(d, c, x, y)
           z == s * Lost(a, b, d, c, x, y, p, m)
           e == s * (p * b - d * a)
           q1 == Left(D, d, r, h)
           z1 == s1 * Lost(a, b, D, d, r, h, P, p)
           e1 == s1 * (P * b - D * a)
<1>5. /\ q \in Nat \ {0} /\ d * y <= q /\ z \in Int /\ e \in Int /\ q * e = z * d + b * x
      /\ Magnitude(z) * (T * d) <= q * (6 * (a * d))
  BY SignedError
<1>6. /\ q1 \in Nat \ {0} /\ z1 \in Int /\ e1 \in Int /\ q1 * e1 = z1 * D + b * r
      /\ Magnitude(z1) * (T * D) <= q1 * (6 * (a * D))
  BY <1>3, SignedError
<1>7. e * D + e1 * d = b
  <2>1. s1 = -s /\ (s = 1 \/ s = -1)
    BY <1>1, <1>3
  <2> DEFINE i == p * b - d * a
             j == P * b - D * a
  <2>2. i * D - j * d = b * (p * D - P * d) /\ i \in Int /\ j \in Int
    BY <1>1, <1>4
  <2> DEFINE k == P * d - p * D
  <2>3. p * D - P * d = -k /\ k = s1 /\ k \in Int
    BY <1>1, <1>4
  <2> DEFINE u == i * D
             v == j * d
  <2>4. u \in Int /\ v \in Int
    BY <1>1, <1>4, <2>2
  <2>5. (s * i) * D = s * u /\ (s1 * j) * d = s1 * v
    <3> HIDE DEF i, j
    <3>1. s \in Int /\ s1 \in Int /\ D \in Int /\ d \in Int
      BY <1>1, <1>4
    <3> HIDE DEF D
    <3>2. QED
      BY <2>2, <3>1
  <2> HIDE DEF k, D, P
  <2>6. u - v = b * (-k)
    BY <2>2, <2>3
  <2> HIDE DEF u, v, i, j
  <2>7. s * u + s1 * v = b
    BY <2>1, <2>3, <2>4, <2>6
  <2>8. QED
    BY <2>5, <2>7 DEF i, j
<1>8. e # 0
  <2> DEFINE i == p * b - d * a
  <2>1. i \in Int /\ i # 0
    BY <1>1
  <2> HIDE DEF i
  <2>2. s * i # 0
    BY <1>1, <2>1
  <2>3. QED
    BY <2>2 DEF i
<1> HIDE DEF q, z, e, q1, z1, e1, P, r, D, A
<1>9. 16 * (a * d) <= T
  <2> DEFINE i == a * d
             j == a * b
  <2>1. i \in Int /\ j \in Int /\ i <= j /\ 16 * j <= T
    <3>1. d * a <= b * a
      BY <1>1
    <3>2. QED
      BY <1>1, <3>1
  <2> HIDE DEF i, j
  <2>2. QED
    BY <2>1 DEF i
<1>10. z * d \in Int /\ 16 * (z * d) <= 6 * q /\ -(6 * q) <= 16 * (z * d)
  BY <1>9, SmallLoss DEF z, q
<1>11. e >= 1 /\ b * x \in Nat /\ 10 * q <= 16 * (b * x)
  <2> DEFINE w == b * x
             v == z * d
  <2>1. w \in Nat
    BY <1>1
  <2>2. e >= 1
    <3> SUFFICES ASSUME e <= -1 PROVE FALSE
      BY <1>5, <1>8
    <3>1. e * q <= (-1) * q
      BY <1>5
    <3>2. e * q = q * e
      BY <1>5
    <3> HIDE DEF w, v
    <3>3. v \in Int /\ -(6 * q) <= 16 * v /\ q * e = v + w /\ q * e <= -q
      BY <1>5, <1>10, <3>1, <3>2 DEF v, w
    <3>4. QED
      BY <1>5, <2>1, <3>3
  <2>3. 1 * q <= e * q /\ e * q = q * e /\ e * q \in Int
    BY <1>5, <2>2
  <2> HIDE DEF w, v
  <2>4. v \in Int /\ 16 * v <= 6 * q /\ q * e = v + w
    BY <1>5, <1>10 DEF v, w
  <2>5. 10 * q <= 16 * w
    BY <1>5, <2>1, <2>3, <2>4
  <2>6. QED
    BY <2>1, <2>2, <2>5 DEF w
<1>12. 5 * (d * y) <= 8 * (b * x)
  <2>1. d * y \in Nat
    BY <1>1
  <2>2. QED
    BY <1>5, <1>11, <2>1
<1>13. 5 * ((A * d) * T) <= 8 * (b * (T + 1))
  <2> DEFINE i == 5 * ((A * d) * T)
             j == 8 * (b * (T + 1))
  <2>1. i \in Int /\ j \in Int
    BY <1>1, <1>2
  <2>2. i * x <= j * x
    <3>1. ((A * x) * T) * (5 * d) <= (y * (T + 1)) * (5 * d)
      <4> DEFINE k == (A * x) * T
                 l == y * (T + 1)
                 n == 5 * d
      <4>1. k \in Int /\ l \in Int /\ n \in Nat /\ k <= l
        BY <1>1, <1>2
      <4> HIDE DEF k, l, n
      <4>2. k * n <= l * n
        BY <4>1
      <4>3. QED
        BY <4>2 DEF k, l, n
    <3>2. (5 * (d * y)) * (T + 1) <= (8 * (b * x)) * (T + 1)
      <4> DEFINE k == 5 * (d * y)
                 l == 8 * (b * x)
                 n == T + 1
      <4>1. k \in Int /\ l \in Int /\ n \in Nat /\ k <= l
        BY <1>1, <1>12
      <4> HIDE DEF k, l, n
      <4>2. k * n <= l * n
        BY <4>1
      <4>3. QED
        BY <4>2 DEF k, l, n
    <3>3. ((A * x) * T) * (5 * d) = i * x
      BY <1>1, <1>2
    <3>4. (y * (T + 1)) * (5 * d) = (5 * (d * y)) * (T + 1)
      BY <1>1
    <3>5. (8 * (b * x)) * (T + 1) = j * x
      BY <1>1
    <3>6. i * x \in Int /\ j * x \in Int /\ (5 * (d * y)) * (T + 1) \in Int
      BY <1>1, <2>1
    <3> HIDE DEF i, j
    <3>7. QED
      BY <3>1, <3>2, <3>3, <3>4, <3>5, <3>6
  <2> HIDE DEF i, j
  <2>3. i <= j
    BY <1>1, <2>1, <2>2, Scaling
  <2>4. QED
    BY <2>3 DEF i, j
<1>14. 5 * (D * T) <= 13 * (b * T) + 8 * b
  <2>1. c <= b /\ c * T <= b * T
    BY <1>1
  <2>2. D * T = c * T + (A * d) * T /\ b * (T + 1) = b * T + b
    BY <1>1, <1>2 DEF D
  <2>3. c * T \in Int /\ b * T \in Int /\ (A * d) * T \in Int /\ D * T \in Int
    BY <1>1, <1>2, <1>4
  <2>4. QED
    BY <1>13, <2>1, <2>2, <2>3
<1>15. 6 * (a * D) < T
  <2> DEFINE w == a * b
             v == a * D
  <2>1. w \in Nat /\ v \in Nat /\ 16 * w <= T
    BY <1>4
  <2>2. (5 * (D * T)) * a <= (13 * (b * T) + 8 * b) * a
    <3> DEFINE i == 5 * (D * T)
               j == 13 * (b * T) + 8 * b
    <3>1. i \in Int /\ j \in Int /\ i <= j
      BY <1>4, <1>14
    <3> HIDE DEF i, j
    <3>2. i * a <= j * a
      BY <3>1
    <3>3. QED
      BY <3>2 DEF i, j
  <2>3. (5 * (D * T)) * a = (5 * v) * T /\ (13 * (b * T) + 8 * b) * a = w * (13 * T + 8)
    BY <1>4
  <2> HIDE DEF w, v
  <2>4. (16 * w) * (13 * T + 8) <= T * (13 * T + 8)
    <3> DEFINE i == 16 * w
               j == 13 * T + 8
    <3>1. i \in Nat /\ j \in Nat /\ i <= T
      BY <2>1
    <3> HIDE DEF i, j
    <3>2. i * j <= T * j
      BY <3>1
    <3>3. QED
      BY <3>2 DEF i, j
  <2> DEFINE k == 80 * v
             l == 13 * T + 8
  <2>5. k * T <= l * T
    <3>1. k * T = 16 * ((5 * v) * T)
      BY <2>1
    <3>2. (16 * w) * l = 16 * (w * l) /\ T * l = l * T
      BY <2>1
    <3>3. (5 * v) * T <= w * l
      BY <2>2, <2>3
    <3>4. (5 * v) * T \in Int /\ w * l \in Int /\ T * l \in Int
      BY <2>1
    <3> HIDE DEF k, l
    <3>5. QED
      BY <2>4, <3>1, <3>2, <3>3, <3>4 DEF l
  <2>6. k \in Int /\ l \in Int
    BY <2>1
  <2> HIDE DEF k, l
  <2>7. k <= l
    BY <2>5, <2>6, Scaling
  <2>8. 6 * v < T
    BY <2>1, <2>7 DEF k, l
  <2>9. QED
    BY <2>8 DEF v
<1>16. Magnitude(z1) * D < q1
  <2> SUFFICES ASSUME q1 <= Magnitude(z1) * D PROVE FALSE
    <3>1. Magnitude(z1) * D \in Int
      BY <1>4, <1>6, Magnitudes
    <3>2. QED
      BY <1>6, <3>1
  <2> DEFINE Z == Magnitude(z1) * D
             i == 6 * (a * D)
  <2>1. Magnitude(z1) \in Nat
    BY <1>6, Magnitudes
  <2>2. Z \in Nat /\ i \in Nat /\ Magnitude(z1) * (T * D) = Z * T
    BY <1>4, <2>1
  <2> HIDE DEF Z, i
  <2>3. Z * T <= q1 * i /\ q1 <= Z /\ i + 1 <= T
    BY <1>6, <1>15, <2>2 DEF Z, i
  <2>4. q1 * T <= Z * T /\ q1 * (i + 1) <= q1 * T /\ q1 * (i + 1) = q1 * i + q1
    BY <1>6, <2>2, <2>3
  <2>5. q1 * T \in Int /\ Z * T \in Int /\ q1 * i \in Int
    BY <1>6, <2>2
  <2>6. QED
    BY <1>6, <2>3, <2>4, <2>5
<1>17. e1 >= 0
  <2> SUFFICES ASSUME e1 <= -1 PROVE FALSE
    BY <1>6
  <2> DEFINE Z == Magnitude(z1)
  <2>1. Z \in Nat /\ -Z <= z1
    BY <1>6, Magnitudes
  <2> HIDE DEF Z
  <2>2. (-Z) * D <= z1 * D /\ (-Z) * D = -(Z * D)
    BY <1>4, <1>6, <2>1
  <2>3. e1 * q1 <= (-1) * q1 /\ e1 * q1 = q1 * e1
    BY <1>6
  <2>4. Z * D \in Int /\ z1 * D \in Int /\ b * r \in Nat /\ q1 * e1 \in Int
    BY <1>4, <1>6, <2>1
  <2>5. Z * D < q1
    BY <1>16 DEF Z
  <2>6. QED
    BY <1>6, <2>2, <2>3, <2>4, <2>5
<1>18. D <= b
  <2>1. 1 * D <= e * D
    BY <1>4, <1>5, <1>11
  <2>2. e1 * d >= 0 * d
    BY <1>1, <1>6, <1>17
  <2>3. e * D \in Int /\ e1 * d \in Int
    BY <1>1, <1>4, <1>5, <1>6
  <2> DEFINE i == e * D
             j == e1 * d
  <2>4. i \in Int /\ j \in Int /\ D <= i /\ 0 <= j /\ i + j = b
    BY <1>1, <1>4, <1>7, <2>1, <2>2, <2>3
  <2> HIDE DEF i, j
  <2>5. QED
    BY <1>4, <2>4
<1>19. QED
  BY <1>18 DEF D, A

(* When nothing is left of the value, the convergent is the value.            *)
LEMMA NothingLeft ==
  ASSUME NEW a \in Nat \ {0}, NEW b \in Nat \ {0}, NEW T \in Nat \ {0},
         NEW d, NEW c, NEW y, NEW p, NEW m, NEW s,
         Convergent(a, b, T, d, c, 0, y, p, m, s), 16 * (a * d) <= T
  PROVE  p * b = d * a
<1> DEFINE q == Left(d, c, 0, y)
           v == (s * Lost(a, b, d, c, 0, y, p, m)) * d
           i == p * b - d * a
           e == s * i
<1>1. q \in Nat \ {0} /\ e \in Int /\ q * e = v + b * 0
  BY SignedError
<1>2. v \in Int /\ 16 * v <= 6 * q /\ -(6 * q) <= 16 * v
  BY SmallLoss
<1>3. d \in Nat /\ p \in Nat /\ s \in {1, -1}
  BY DEF Convergent
<1>4. i \in Int /\ b * 0 = 0
  BY <1>3
<1> HIDE DEF q, v, e
<1>5. q * e = v
  BY <1>1, <1>2, <1>4
<1>6. e = 0
  <2>1. ASSUME e >= 1 PROVE FALSE
    <3>1. 1 * q <= e * q /\ e * q = q * e
      BY <1>1, <2>1
    <3>2. QED
      BY <1>1, <1>2, <1>5, <3>1
  <2>2. ASSUME e <= -1 PROVE FALSE
    <3>1. e * q <= (-1) * q /\ e * q = q * e
      BY <1>1, <2>2
    <3>2. QED
      BY <1>1, <1>2, <1>5, <3>1
  <2>3. QED
    BY <1>1, <2>1, <2>2
<1>7. i = 0
  <2> HIDE DEF i
  <2>1. QED
    BY <1>3, <1>4, <1>6 DEF e
<1>8. QED
  BY <1>3, <1>7

(* By how much a convergent can miss the value after the first turn.          *)
LEMMA MissedBy ==
  ASSUME NEW a \in Nat \ {0}, NEW b \in Nat \ {0}, NEW T \in Nat \ {0},
         NEW d, NEW c, NEW x, NEW y, NEW p, NEW m, NEW s,
         Convergent(a, b, T, d, c, x, y, p, m, s), c >= 1
  PROVE  LET q == Left(d, c, x, y)
             E == Magnitude(p * b - d * a)
         IN /\ E \in Nat /\ b <= 6 * (a * d)
            /\ q * (E * T) <= q * (6 * (a * d) - b) + (b * x) * T
<1> DEFINE q == Left(d, c, x, y)
           l == Lost(a, b, d, c, x, y, p, m)
           z == s * l
           i == p * b - d * a
           e == s * i
           N == a * d
<1>1. /\ d \in Nat \ {0} /\ c \in Nat /\ c <= d /\ x \in Nat /\ y \in Nat \ {0}
      /\ p \in Nat /\ m \in Nat /\ s \in {1, -1}
  BY DEF Convergent
<1>2. q \in Nat \ {0} /\ z \in Int /\ e \in Int /\ q * e = z * d + b * x
  BY SignedError
<1>3. Magnitude(l) * (T * d) <= q * (6 * N - b)
  BY DEF Convergent
<1>4. l \in Int /\ i \in Int /\ N \in Nat
  BY <1>1 DEF Lost, Left
<1> HIDE DEF q, l, i, N
<1>5. Magnitude(z) = Magnitude(l) /\ Magnitude(e) = Magnitude(i)
  BY <1>1, <1>4 DEF Magnitude
<1> HIDE DEF z, e
<1> DEFINE Z == Magnitude(z)
           E == Magnitude(e)
<1>6. Z \in Nat /\ E \in Nat
  BY <1>2, Magnitudes
<1>7. E * q <= Z * d + b * x
  <2>1. Magnitude(e * q) = E * q /\ Magnitude(z * d) = Z * d
    BY <1>1, <1>2, Magnitudes
  <2> DEFINE u == z * d
             w == b * x
  <2>2. u \in Int /\ w \in Nat /\ e * q = u + w
    BY <1>1, <1>2
  <2> HIDE DEF u, w
  <2>3. Magnitude(u + w) <= Magnitude(u) + Magnitude(w) /\ Magnitude(w) = w
    BY <2>2, Magnitudes DEF Magnitude
  <2>4. Magnitude(u) = Z * d
    BY <2>1 DEF u
  <2>5. QED
    BY <2>1, <2>2, <2>3, <2>4 DEF w
<1> HIDE DEF Z, E
<1> DEFINE k == q * (6 * N - b)
<1>8. k \in Int /\ Z * (T * d) <= k
  BY <1>2, <1>3, <1>4, <1>5 DEF Z
<1>9. q * (E * T) <= k + (b * x) * T
  <2>1. (E * q) * T <= (Z * d + b * x) * T
    <3> DEFINE u == E * q
               w == Z * d + b * x
    <3>1. u \in Int /\ w \in Int /\ u <= w
      BY <1>1, <1>2, <1>6, <1>7
    <3> HIDE DEF u, w
    <3>2. u * T <= w * T
      BY <3>1
    <3>3. QED
      BY <3>2 DEF u, w
  <2>2. (E * q) * T = q * (E * T) /\ (Z * d + b * x) * T = Z * (T * d) + (b * x) * T
    BY <1>1, <1>2, <1>6
  <2>3. q * (E * T) \in Int /\ Z * (T * d) \in Int /\ (b * x) * T \in Int
    BY <1>1, <1>2, <1>6
  <2> HIDE DEF k
  <2>4. QED
    BY <1>8, <2>1, <2>2, <2>3
<1>10. b <= 6 * N
  <2>1. Z * (T * d) \in Nat
    BY <1>1, <1>6
  <2> DEFINE u == 6 * N - b
  <2>2. u \in Int /\ 0 <= q * u
    BY <1>4, <1>8, <2>1
  <2> HIDE DEF u
  <2>3. u >= 0
    <3> SUFFICES ASSUME u <= -1 PROVE FALSE
      BY <2>2
    <3>1. u * q <= (-1) * q /\ u * q = q * u
      BY <1>2, <2>2
    <3>2. QED
      BY <1>2, <2>2, <3>1
  <2>4. QED
    BY <1>4, <2>3 DEF u
<1>11. QED
  BY <1>5, <1>6, <1>9, <1>10 DEF E, q, N, i

(* How near to a/b the fraction n/d is: five times nearer than an f32's       *)
(* rounding (with H for 2^F32Bits).                                          *)
IsNear(a, b, H, n, d) == 5 * (H * Magnitude(n * b - d * a)) <= a * d

(* So it is if n/d seemed to be exact ...                                    *)
LEMMA NearIfExact ==
  ASSUME NEW a \in Nat \ {0}, NEW b \in Nat \ {0}, NEW d \in Nat \ {0}, NEW n \in Nat,
         NEW H \in Nat \ {0}, NEW T \in Nat \ {0}, 128 * H <= T,
         Magnitude(n * b - d * a) * T <= 8 * (a * d)
  PROVE  IsNear(a, b, H, n, d)
<1> DEFINE F == Magnitude(n * b - d * a)
           N == a * d
<1>1. F \in Nat /\ N \in Nat
  BY Magnitudes
<1> HIDE DEF F, N
<1>2. (128 * H) * F <= T * F /\ F * T <= 8 * N
  BY <1>1 DEF F, N
<1>3. H * F \in Nat /\ (128 * H) * F = 128 * (H * F) /\ T * F = F * T /\ F * T \in Int
  BY <1>1
<1> DEFINE l == H * F
<1>4. l \in Nat /\ 128 * l <= 8 * N
  BY <1>1, <1>2, <1>3
<1> HIDE DEF l
<1>5. 5 * l <= N
  BY <1>1, <1>4
<1>6. QED
  BY <1>5 DEF F, N, IsNear, l

(* ... if no larger denominator D is allowed ...                             *)
LEMMA NearIfFull ==
  ASSUME NEW a \in Nat \ {0}, NEW b \in Nat \ {0}, NEW H \in Nat \ {0}, NEW T \in Nat \ {0},
         T >= 128, 128 * H <= T,
         NEW d, NEW c, NEW x, NEW y, NEW p, NEW m, NEW s,
         Convergent(a, b, T, d, c, x, y, p, m, s), x # 0, c >= 1,
         NEW g, NEW h, Inverts(g, h, x, y, T), 64 * H <= c + (g \div h) * d,
         NEW n \in Nat,
         Magnitude(n * b - d * a) * T <= Magnitude(p * b - d * a) * T + 2 * (a * d)
  PROVE  IsNear(a, b, H, n, d)
<1> DEFINE q == Left(d, c, x, y)
           A == g \div h
           D == c + A * d
           E == Magnitude(p * b - d * a)
           F == Magnitude(n * b - d * a)
           N == a * d
<1>1. /\ d \in Nat \ {0} /\ c \in Nat /\ c <= d /\ x \in Nat \ {0} /\ y \in Nat \ {0}
      /\ p \in Nat /\ m \in Nat
  BY DEF Convergent
<1>2. A \in Nat \ {0} /\ (A * x) * T <= y * (T + 1)
  BY <1>1, InverseParts
<1>3. q = d * y + c * x /\ q \in Nat \ {0}
  <2>1. q \in Nat \ {0}
    BY SignedError
  <2>2. QED
    BY <2>1 DEF Left
<1>4. E \in Nat /\ b <= 6 * N /\ q * (E * T) <= q * (6 * N - b) + (b * x) * T
  BY MissedBy
<1>5. F \in Nat /\ N \in Nat
  BY <1>1, Magnitudes
<1> HIDE DEF A, q, E, F, N
<1>6. D \in Nat \ {0} /\ 64 * H <= D
  BY <1>1, <1>2 DEF A
<1>7. (D * x) * T <= q * (T + 1)
  <2>1. ((A * x) * T) * d <= (y * (T + 1)) * d
    <3> DEFINE i == (A * x) * T
               j == y * (T + 1)
    <3>1. i \in Int /\ j \in Int /\ i <= j
      BY <1>1, <1>2
    <3> HIDE DEF i, j
    <3>2. i * d <= j * d
      BY <1>1, <3>1
    <3>3. QED
      BY <3>2 DEF i, j
  <2>2. (D * x) * T = (c * x) * T + ((A * x) * T) * d
    BY <1>1, <1>2
  <2>3. q * (T + 1) = (c * x) * T + c * x + (y * (T + 1)) * d
    BY <1>1, <1>3
  <2>4. (c * x) * T \in Int /\ c * x \in Nat /\ ((A * x) * T) * d \in Int /\ (y * (T + 1)) * d \in Int
    BY <1>1, <1>2
  <2> HIDE DEF D
  <2>5. QED
    BY <2>1, <2>2, <2>3, <2>4
<1> HIDE DEF D
<1>8. (E * T) * D <= (6 * N) * D + b * T
  <2> DEFINE i == E * T
             j == 6 * N - b
             k == (b * x) * T
  <2>1. i \in Nat /\ j \in Int /\ k \in Nat /\ q * i <= q * j + k
    BY <1>1, <1>4, <1>5
  <2>2. k * D <= q * (b * (T + 1))
    <3>1. ((D * x) * T) * b <= (q * (T + 1)) * b
      <4> DEFINE u == (D * x) * T
                 w == q * (T + 1)
      <4>1. u \in Int /\ w \in Int /\ u <= w
        BY <1>1, <1>3, <1>6, <1>7
      <4> HIDE DEF u, w
      <4>2. u * b <= w * b
        BY <4>1
      <4>3. QED
        BY <4>2 DEF u, w
    <3>2. ((D * x) * T) * b = k * D /\ (q * (T + 1)) * b = q * (b * (T + 1))
      BY <1>1, <1>3, <1>6
    <3>3. QED
      BY <3>1, <3>2
  <2> HIDE DEF i, j, k
  <2>3. (q * i) * D <= (q * j + k) * D
    <3> DEFINE u == q * i
               w == q * j + k
    <3>1. u \in Int /\ w \in Int /\ u <= w
      BY <1>3, <2>1
    <3> HIDE DEF u, w
    <3>2. u * D <= w * D
      BY <1>6, <3>1
    <3>3. QED
      BY <3>2 DEF u, w
  <2> DEFINE u == i * D
             w == j * D + b * (T + 1)
  <2>4. u \in Int /\ w \in Int
    BY <1>6, <2>1
  <2>5. u * q <= w * q
    <3>1. (q * i) * D = u * q /\ (q * j + k) * D = (j * D) * q + k * D
      BY <1>3, <1>6, <2>1
    <3>2. w * q = (j * D) * q + q * (b * (T + 1))
      BY <1>3, <1>6, <2>1
    <3>3. (j * D) * q \in Int /\ k * D \in Int /\ q * (b * (T + 1)) \in Int
      BY <1>3, <1>6, <2>1
    <3>4. u * q <= (j * D) * q + k * D
      BY <2>3, <3>1
    <3> DEFINE o == (j * D) * q
               t == q * (b * (T + 1))
    <3>5. o \in Int /\ t \in Int /\ k * D \in Int /\ u * q <= o + k * D /\ k * D <= t /\ w * q = o + t
      BY <2>2, <3>2, <3>3, <3>4
    <3> HIDE DEF u, w, o, t
    <3>6. u * q \in Int /\ w * q \in Int
      BY <1>3, <2>4
    <3>7. QED
      BY <3>5, <3>6
  <2> HIDE DEF u, w
  <2>6. u <= w
    BY <1>3, <2>4, <2>5, Scaling
  <2>7. w <= (6 * N) * D + b * T
    <3>1. w = (6 * N) * D - b * D + b * T + b
      BY <1>5, <1>6 DEF w, j
    <3>2. b * 1 <= b * D
      BY <1>6
    <3>3. b * D \in Int /\ b * T \in Int /\ (6 * N) * D \in Int
      BY <1>5, <1>6
    <3>4. QED
      BY <3>1, <3>2, <3>3
  <2>8. (6 * N) * D + b * T \in Int
    BY <1>5, <1>6
  <2>9. QED
    BY <2>4, <2>6, <2>7, <2>8 DEF u, i
<1>9. F * T <= E * T + 2 * N
  BY DEF F, E, N
<1>10. (F * T) * D <= (8 * N) * D + (6 * N) * T
  <2>1. (F * T) * D <= (E * T + 2 * N) * D
    <3> DEFINE u == F * T
               w == E * T + 2 * N
    <3>1. u \in Int /\ w \in Int /\ u <= w
      BY <1>4, <1>5, <1>9
    <3> HIDE DEF u, w
    <3>2. u * D <= w * D
      BY <1>6, <3>1
    <3>3. QED
      BY <3>2 DEF u, w
  <2>2. (E * T + 2 * N) * D = (E * T) * D + (2 * N) * D /\ (8 * N) * D = (6 * N) * D + (2 * N) * D
    BY <1>4, <1>5, <1>6
  <2>3. b * T <= (6 * N) * T
    <3> DEFINE i == 6 * N
    <3>1. i \in Nat /\ b <= i
      BY <1>4, <1>5
    <3> HIDE DEF i
    <3>2. b * T <= i * T
      BY <3>1
    <3>3. QED
      BY <3>2 DEF i
  <2>4. /\ (E * T) * D \in Int /\ (2 * N) * D \in Int /\ (6 * N) * D \in Int /\ (6 * N) * T \in Int
        /\ b * T \in Int /\ (F * T) * D \in Int
    BY <1>4, <1>5, <1>6
  <2>5. QED
    BY <1>8, <2>1, <2>2, <2>3, <2>4
<1>11. 128 * (5 * (H * F)) * (T * D) <= 128 * N * (T * D)
  <2> DEFINE u == 5 * H
             i == (F * T) * D
             j == (8 * N) * D + (6 * N) * T
             k == N * (T * D)
  <2>1. i \in Nat /\ j \in Nat /\ k \in Nat /\ u \in Nat /\ i <= j
    BY <1>5, <1>6, <1>10
  <2>2. 128 * (5 * (H * F)) * (T * D) = 128 * (i * u)
    BY <1>5, <1>6
  <2>3. 128 * (j * u) <= 100 * k
    <3>1. 128 * (j * u) = 40 * ((128 * H) * (N * D)) + 60 * ((64 * H) * (N * T))
      BY <1>5, <1>6
    <3>2. (128 * H) * (N * D) <= T * (N * D)
      <4> DEFINE v == 128 * H
                 w == N * D
      <4>1. v \in Int /\ w \in Nat /\ v <= T
        BY <1>5, <1>6
      <4> HIDE DEF v, w
      <4>2. v * w <= T * w
        BY <4>1
      <4>3. QED
        BY <4>2 DEF v, w
    <3>3. (64 * H) * (N * T) <= D * (N * T)
      <4> DEFINE v == 64 * H
                 w == N * T
      <4>1. v \in Int /\ w \in Nat /\ v <= D
        BY <1>5, <1>6
      <4> HIDE DEF v, w
      <4>2. v * w <= D * w
        BY <1>6, <4>1
      <4>3. QED
        BY <4>2 DEF v, w
    <3>4. T * (N * D) = k /\ D * (N * T) = k
      BY <1>5, <1>6
    <3>5. (128 * H) * (N * D) \in Int /\ (64 * H) * (N * T) \in Int /\ 128 * (j * u) \in Int
      BY <1>5, <1>6
    <3> HIDE DEF i, j, k, u
    <3>6. QED
      BY <2>1, <3>1, <3>2, <3>3, <3>4, <3>5
  <2>4. 128 * N * (T * D) = 128 * k
    BY <1>5, <1>6
  <2> HIDE DEF i, j, k, u
  <2>5. i * u <= j * u /\ i * u \in Int /\ j * u \in Int
    BY <2>1
  <2>6. QED
    BY <2>1, <2>2, <2>3, <2>4, <2>5
<1>12. 5 * (H * F) <= N
  <2> DEFINE i == 128 * (5 * (H * F))
             j == 128 * N
             k == T * D
  <2>1. i \in Int /\ j \in Int /\ k \in Nat \ {0} /\ i * k <= j * k
    BY <1>5, <1>6, <1>11
  <2> HIDE DEF i, j, k
  <2>2. i <= j
    BY <2>1, Scaling
  <2> DEFINE l == H * F
  <2>3. l \in Nat
    BY <1>5
  <2>4. 128 * (5 * l) <= 128 * N
    BY <2>2 DEF i, j
  <2> HIDE DEF l
  <2>5. 5 * l <= N
    BY <1>5, <2>3, <2>4
  <2>6. QED
    BY <2>5 DEF l
<1>13. QED
  BY <1>12 DEF IsNear, F, N

(* ... or when the turns are used up, with a convergent of large numbers.      *)
LEMMA NearIfLast ==
  ASSUME NEW a \in Nat \ {0}, NEW b \in Nat \ {0}, NEW H \in Nat \ {0}, NEW T \in Nat \ {0},
         T >= 128, 8 <= H, 16 * (H * H) <= T,
         NEW d, NEW c, NEW x, NEW y, NEW p, NEW m, NEW s,
         Convergent(a, b, T, d, c, x, y, p, m, s), c >= 1, H < d, H < p,
         NEW n \in Nat,
         Magnitude(n * b - d * a) * T <= Magnitude(p * b - d * a) * T + 2 * (a * d)
  PROVE  IsNear(a, b, H, n, d)
<1> DEFINE q == Left(d, c, x, y)
           E == Magnitude(p * b - d * a)
           F == Magnitude(n * b - d * a)
           N == a * d
           G == H + 1
<1>1. /\ d \in Nat \ {0} /\ c \in Nat /\ c <= d /\ x \in Nat /\ y \in Nat \ {0} /\ x < y
      /\ p \in Nat /\ m \in Nat
  BY DEF Convergent
<1>2. q = d * y + c * x /\ q \in Nat \ {0}
  <2>1. q \in Nat \ {0}
    BY SignedError
  <2>2. QED
    BY <2>1 DEF Left
<1>3. E \in Nat /\ b <= 6 * N /\ q * (E * T) <= q * (6 * N - b) + (b * x) * T
  BY MissedBy
<1>4. p * b - N <= E /\ p * b \in Nat
  <2>1. d * a = N
    BY <1>1
  <2>2. p * b - d * a \in Int
    BY <1>1
  <2>3. p * b - d * a <= E
    BY <2>2, Magnitudes
  <2>4. QED
    BY <1>1, <2>1, <2>3
<1>5. F \in Nat /\ N \in Nat /\ G \in Nat
  BY <1>1, Magnitudes
<1> HIDE DEF q, E, F, N, G
<1>6. G * x <= q
  <2>1. G * x <= d * x /\ d * x <= d * y
    BY <1>1 DEF G
  <2>2. c * x \in Nat /\ d * y \in Nat /\ G * x \in Nat /\ d * x \in Nat
    BY <1>1, <1>5
  <2>3. QED
    BY <1>2, <2>1, <2>2
<1>7. E * T <= 6 * N - b + b * T
  <2> DEFINE i == E * T
             j == 6 * N - b + b * T
  <2>1. i \in Int /\ j \in Int
    BY <1>3, <1>5
  <2>2. (b * x) * T <= q * (b * T)
    <3>1. x <= q
      <4>1. 1 * x <= G * x /\ G * x \in Int
        BY <1>1, <1>5 DEF G
      <4>2. QED
        BY <1>1, <1>2, <1>6, <4>1
    <3> DEFINE k == b * T
    <3>2. (b * x) * T = x * k /\ k \in Nat
      BY <1>1
    <3> HIDE DEF k
    <3>3. x * k <= q * k
      BY <1>1, <1>2, <3>1, <3>2
    <3>4. QED
      BY <3>2, <3>3 DEF k
  <2>3. i * q <= j * q
    <3>1. j * q = q * (6 * N - b) + q * (b * T) /\ i * q = q * (E * T)
      BY <1>2, <1>3, <1>5
    <3>2. q * (6 * N - b) \in Int /\ q * (b * T) \in Int /\ (b * x) * T \in Int
      BY <1>1, <1>2, <1>5
    <3>3. QED
      BY <1>2, <1>3, <2>1, <2>2, <3>1, <3>2
  <2> HIDE DEF i, j
  <2>4. i <= j
    BY <1>2, <2>1, <2>3, Scaling
  <2>5. QED
    BY <2>4 DEF i, j
<1>8. (H * b) * T <= N * (T + 6)
  <2>1. (p * b - N) * T <= E * T
    <3> DEFINE i == p * b - N
    <3>1. i \in Int /\ i <= E
      BY <1>4, <1>5
    <3> HIDE DEF i
    <3>2. i * T <= E * T
      BY <1>3, <3>1
    <3>3. QED
      BY <3>2 DEF i
  <2>2. (p * b - N) * T = (p * b) * T - N * T
    BY <1>4, <1>5
  <2>3. G * (b * T) <= p * (b * T)
    <3> DEFINE k == b * T
    <3>1. k \in Nat /\ G <= p
      BY <1>1 DEF G
    <3> HIDE DEF k
    <3>2. G * k <= p * k
      BY <1>1, <1>5, <3>1
    <3>3. QED
      BY <3>2 DEF k
  <2>4. G * (b * T) = (H * b) * T + b * T /\ p * (b * T) = (p * b) * T /\ N * (T + 6) = N * T + 6 * N
    BY <1>1, <1>5 DEF G
  <2>5. /\ (p * b) * T \in Int /\ N * T \in Int /\ b * T \in Int /\ (H * b) * T \in Int
        /\ E * T \in Int /\ G * (b * T) \in Int
    BY <1>3, <1>4, <1>5
  <2>6. QED
    BY <1>5, <1>7, <2>1, <2>2, <2>3, <2>4, <2>5
<1>9. (E * T) * G <= (6 * N) * G + b * T
  <2> DEFINE i == E * T
             j == 6 * N - b
             k == (b * x) * T
  <2>1. i \in Nat /\ j \in Int /\ k \in Nat /\ q * i <= q * j + k
    BY <1>1, <1>3, <1>5
  <2>2. k * G <= q * (b * T)
    <3> DEFINE l == b * T
               o == G * x
    <3>1. k * G = o * l /\ l \in Nat /\ o \in Int /\ o <= q
      BY <1>1, <1>5, <1>6
    <3> HIDE DEF l, k, o
    <3>2. o * l <= q * l
      BY <1>2, <3>1
    <3>3. QED
      BY <3>1, <3>2 DEF l
  <2> HIDE DEF i, j, k
  <2>3. (q * i) * G <= (q * j + k) * G
    <3> DEFINE u == q * i
               w == q * j + k
    <3>1. u \in Int /\ w \in Int /\ u <= w
      BY <1>2, <2>1
    <3> HIDE DEF u, w
    <3>2. u * G <= w * G
      BY <1>5, <3>1
    <3>3. QED
      BY <3>2 DEF u, w
  <2> DEFINE u == i * G
             w == j * G + b * T
  <2>4. u \in Int /\ w \in Int
    BY <1>5, <2>1
  <2>5. u * q <= w * q
    <3>1. (q * i) * G = u * q /\ (q * j + k) * G = (j * G) * q + k * G
      BY <1>2, <1>5, <2>1
    <3>2. w * q = (j * G) * q + q * (b * T)
      BY <1>2, <1>5, <2>1
    <3>3. (j * G) * q \in Int /\ k * G \in Int /\ q * (b * T) \in Int
      BY <1>2, <1>5, <2>1
    <3>4. u * q <= (j * G) * q + k * G
      BY <2>3, <3>1
    <3> DEFINE o == (j * G) * q
               t == q * (b * T)
    <3>5. o \in Int /\ t \in Int /\ k * G \in Int /\ u * q <= o + k * G /\ k * G <= t /\ w * q = o + t
      BY <2>2, <3>2, <3>3, <3>4
    <3> HIDE DEF u, w, o, t
    <3>6. u * q \in Int /\ w * q \in Int
      BY <1>2, <2>4
    <3>7. QED
      BY <3>5, <3>6
  <2> HIDE DEF u, w
  <2>6. u <= w
    BY <1>2, <2>4, <2>5, Scaling
  <2>7. w = (6 * N) * G - b * G + b * T
    BY <1>5 DEF w, j
  <2>8. b * G \in Nat /\ (6 * N) * G \in Int /\ b * T \in Int
    BY <1>5
  <2>9. QED
    BY <2>4, <2>6, <2>7, <2>8 DEF u, i
<1>10. (F * T) * G <= (8 * N) * G + b * T
  <2>1. (F * T) * G <= (E * T + 2 * N) * G
    <3> DEFINE u == F * T
               w == E * T + 2 * N
    <3>1. u <= w
      BY DEF F, E, N
    <3>2. u \in Int /\ w \in Int
      BY <1>3, <1>5
    <3> HIDE DEF u, w
    <3>3. u * G <= w * G
      BY <1>5, <3>1, <3>2
    <3>4. QED
      BY <3>3 DEF u, w
  <2>2. (E * T + 2 * N) * G = (E * T) * G + (2 * N) * G /\ (8 * N) * G = (6 * N) * G + (2 * N) * G
    BY <1>3, <1>5
  <2>3. /\ (E * T) * G \in Int /\ (2 * N) * G \in Int /\ (6 * N) * G \in Int
        /\ b * T \in Int /\ (F * T) * G \in Int
    BY <1>3, <1>5
  <2>4. QED
    BY <1>9, <2>1, <2>2, <2>3
<1>11. ((F * T) * G) * H <= N * (8 * (G * H)) + N * (T + 6)
  <2>1. ((F * T) * G) * H <= ((8 * N) * G + b * T) * H
    <3> DEFINE u == (F * T) * G
               w == (8 * N) * G + b * T
    <3>1. u \in Int /\ w \in Int /\ u <= w
      BY <1>5, <1>10
    <3> HIDE DEF u, w
    <3>2. u * H <= w * H
      BY <3>1
    <3>3. QED
      BY <3>2 DEF u, w
  <2>2. ((8 * N) * G + b * T) * H = N * (8 * (G * H)) + (H * b) * T
    BY <1>5
  <2>3. N * (8 * (G * H)) \in Int /\ (H * b) * T \in Int /\ N * (T + 6) \in Int /\ ((F * T) * G) * H \in Int
    BY <1>5
  <2>4. QED
    BY <1>8, <2>1, <2>2, <2>3
<1>12. 16 * (8 * (G * H)) <= 9 * T
  <2> DEFINE i == H * H
  <2>1. i \in Nat /\ 16 * i <= T /\ 8 * H <= H * H
    OBVIOUS
  <2>2. G * H = i + H
    BY DEF G
  <2> HIDE DEF i
  <2>3. QED
    BY <2>1, <2>2 DEF i
<1>13. 16 * (((F * T) * G) * H) <= N * (25 * T + 96)
  <2> DEFINE u == 8 * (G * H)
             w == ((F * T) * G) * H
  <2>1. u \in Nat /\ w \in Nat /\ 16 * u <= 9 * T /\ w <= N * u + N * (T + 6)
    BY <1>5, <1>11, <1>12
  <2> HIDE DEF u, w
  <2>2. N * (16 * u) <= N * (9 * T)
    BY <1>5, <2>1
  <2>3. N * (16 * u) = 16 * (N * u) /\ N * (9 * T) = 9 * (N * T) /\ N * (T + 6) = N * T + 6 * N
    BY <1>5, <2>1
  <2>4. N * (25 * T + 96) = 25 * (N * T) + 96 * N
    BY <1>5
  <2>5. N * u \in Int /\ N * T \in Int
    BY <1>5, <2>1
  <2>6. 16 * w <= N * (25 * T + 96)
    BY <1>5, <2>1, <2>2, <2>3, <2>4, <2>5
  <2>7. QED
    BY <2>6 DEF w
<1>14. (16 * (5 * (H * F))) * (T * G) <= (16 * N) * (T * G)
  <2> DEFINE w == ((F * T) * G) * H
             k == N * T
  <2>1. w \in Nat /\ k \in Nat /\ 16 * w <= N * (25 * T + 96)
    BY <1>5, <1>13
  <2>2. (16 * (5 * (H * F))) * (T * G) = 5 * (16 * w)
    BY <1>5
  <2>3. (16 * N) * (T * G) = (16 * k) * G
    BY <1>5
  <2>4. (16 * k) * 9 <= (16 * k) * G
    <3> DEFINE i == 16 * k
    <3>1. i \in Nat /\ 9 <= G
      BY <2>1 DEF G
    <3> HIDE DEF i
    <3>2. i * 9 <= i * G
      BY <1>5, <3>1
    <3>3. QED
      BY <3>2 DEF i
  <2>5. N * (25 * T + 96) = 25 * k + 96 * N
    BY <1>5
  <2>6. N * 128 <= k
    BY <1>5
  <2> DEFINE j == (16 * k) * G
             l == (16 * (5 * (H * F))) * (T * G)
  <2>7. j \in Int /\ l \in Int
    BY <1>5
  <2> HIDE DEF w, k, j, l
  <2>8. l <= j
    BY <1>5, <2>1, <2>2, <2>4, <2>5, <2>6, <2>7 DEF j, l
  <2>9. QED
    BY <2>3, <2>8 DEF j, l
<1>15. 5 * (H * F) <= N
  <2> DEFINE i == 16 * (5 * (H * F))
             j == 16 * N
             k == T * G
  <2>1. i \in Int /\ j \in Int /\ i * k <= j * k
    BY <1>5, <1>14
  <2>2. k \in Nat \ {0}
    BY <1>5 DEF G
  <2> HIDE DEF i, j, k
  <2>3. i <= j
    BY <2>1, <2>2, Scaling
  <2> DEFINE l == H * F
  <2>4. l \in Nat
    BY <1>5
  <2>5. 16 * (5 * l) <= 16 * N
    BY <2>3 DEF i, j
  <2> HIDE DEF l
  <2>6. 5 * l <= N
    BY <1>5, <2>4, <2>5
  <2>7. QED
    BY <2>6 DEF l
<1>16. QED
  BY <1>15 DEF IsNear, F, N

-----------------------------------------------------------------------------
(* GainMapFractions: the loop                                               *)

(* f64 holds every whole number of a u32.                                    *)
LEMMA WholeExact ==
  ASSUME NEW n \in Nat, n < Hi(F64)
  PROVE  AsF64(<<n, 1>>) = Whole(n) /\ IsFinite(AsF64(<<n, 1>>))
<1>1. Rounded(<<n, 1>>, F64) = Whole(n)
  <2>1. CASE n = 0
    BY <2>1, RoundedType
  <2>2. CASE n # 0
    <3>1. F64.range - F64.bits = F32.range /\ F32.range \in Nat
      BY Widths
    <3>2. 0 \in 0..(F64.range - F64.bits) /\ n \in Nat \ {0}
      BY <2>2, <3>1
    <3>3. pow2[0] = 1
      BY PowerSteps
    <3>4. Rounded(<<n, pow2[0]>>, F64) = Ratio(n, pow2[0])
      BY <3>2, RoundedExact
    <3>5. Ratio(n, 1) = Whole(n)
      <4>1. Coprime(Magnitude(n), 1)
        <5>1. Whole(n) \in Float
          BY FloatRatios
        <5>2. Whole(n) = <<n, 1>> /\ Whole(n) # NaN
          BY DEF Whole, NaN
        <5>3. QED
          BY <5>1, <5>2 DEF Float, Coprime, NaN
      <4>2. QED
        BY <4>1, RatioIs DEF Whole
    <3>6. QED
      BY <3>3, <3>4, <3>5
  <2>3. QED
    BY <2>1, <2>2
<1>2. QED
  BY <1>1 DEF AsF64, Whole, IsFinite

(* The rounded inverse of what the turns have left of a value.               *)
LEMMA InverseIs ==
  ASSUME NEW x \in Nat \ {0}, NEW y \in Nat \ {0}, x <= y, y <= Up(F64.range)
  PROVE  \E g, h : /\ AsF64(<<y, x>>) = <<g, h>> /\ Inverts(g, h, x, y, Hi(F64))
                   /\ h <= Up(F64.range) /\ IsValue(<<g, h>>)
<1> DEFINE U == Up(F64.range)
           L == Lo(F64)
           H == Hi(F64)
<1>1. /\ U \in Nat \ {0} /\ L \in Nat \ {0} /\ H \in Nat \ {0} /\ L <= H /\ H <= U
      /\ F64 \in {F32, F64}
  <2>1. F64 \in {F32, F64}
    OBVIOUS
  <2>2. U \in Nat \ {0} /\ L \in Nat \ {0} /\ H \in Nat \ {0} /\ H = 2 * L /\ H <= U
    BY <2>1, Mantissas
  <2> HIDE DEF U, L, H
  <2>3. QED
    BY <2>1, <2>2
<1> HIDE DEF U, L, H
<1>2. L * x <= y * U
  <2>1. L * x <= U * x /\ U * x <= U * y /\ U * y = y * U
    BY <1>1
  <2>2. L * x \in Int /\ U * x \in Int /\ y * U \in Int
    BY <1>1
  <2>3. QED
    BY <2>1, <2>2
<1>3. y <= x * U
  <2>1. 1 * U <= x * U /\ x * U \in Int
    BY <1>1
  <2>2. y <= U
    BY DEF U
  <2>3. QED
    BY <1>1, <2>1, <2>2
<1>4. PICK g \in Nat \ {0}, h \in Nat \ {0} :
        /\ Rounded(<<y, x>>, F64) = <<g, h>> /\ IsValue(<<g, h>>) /\ h <= U
        /\ Magnitude(g * x - h * y) * H <= h * y
  BY <1>1, <1>2, <1>3, RoundedNear DEF U, L, H
<1>5. h <= g
  <2>1. Rounded(<<1, 1>>, F64) = <<1, 1>>
    <3>1. 1 < H
      BY Widths DEF H
    <3>2. QED
      BY <3>1, WholeExact DEF H, AsF64, Whole
  <2>2. 1 * x <= y * 1 /\ 1 \in Nat /\ 1 \in Nat \ {0} /\ y \in Nat
    OBVIOUS
  <2>3. IsFinite(Rounded(<<y, x>>, F64))
    BY <1>4 DEF IsFinite
  <2>4. Below(Rounded(<<1, 1>>, F64), Rounded(<<y, x>>, F64))
    BY <1>1, <2>2, <2>3, RoundedMonotone
  <2>5. 1 * h <= g * 1
    BY <1>4, <2>1, <2>4 DEF Below
  <2>6. QED
    BY <2>5
<1>6. QED
  BY <1>4, <1>5 DEF AsF64, Inverts, H, U

(* What the conversion is asked for: an f32 that fits.                        *)
Largest(max) == max \in {U32Max, I32Max}
Asked(v, max) ==
  /\ v = <<v[1], v[2]>> /\ IsF32(v[1], v[2]) /\ Largest(max) /\ v[1] <= max * v[2]

LEMMA AskedParts ==
  ASSUME NEW v, NEW max, Asked(v, max)
  PROVE  /\ v = <<v[1], v[2]>> /\ v[1] \in Nat \ {0} /\ v[2] \in Nat \ {0}
         /\ Coprime(Magnitude(v[1]), v[2])
         /\ max \in Nat \ {0} /\ max <= U32Max /\ I32Max <= max /\ max < Hi(F64)
         /\ v[1] <= max * v[2] /\ v[2] <= Up(F32.range) /\ v[2] <= Up(F64.range)
         /\ (v[2] = 1 \/ v[1] < Hi(F32))
         /\ \E k \in 0..F32.range : v[2] = pow2[k]
<1> DEFINE b == v[2]
           R == F32.range
           U == Up(F32.range)
           W == Up(F64.range)
<1>1. /\ U32Max \in Nat \ {0} /\ I32Max \in Nat \ {0} /\ I32Max <= U32Max /\ U32Max < Hi(F64)
      /\ Hi(F64) \in Nat
  BY Widths
<1>2. max \in Nat \ {0} /\ max <= U32Max /\ I32Max <= max /\ max < Hi(F64)
  BY <1>1 DEF Asked, Largest
<1>3. \E k \in 0..R : b = pow2[k]
  <2>1. CASE b = 1
    BY <2>1, Widths, PowerSteps
  <2>2. CASE b # 1
    BY <2>2 DEF Asked, IsF32
  <2>3. QED
    BY <2>1, <2>2
<1>4. b <= U
  <2>1. PICK k \in 0..R : b = pow2[k]
    BY <1>3
  <2>2. R \in Nat /\ U = pow2[R] /\ R <= MaxExponent /\ MaxExponent \in Nat
    BY Widths, TypeParts, WidthFacts
  <2> HIDE DEF R
  <2>3. k \in 0..MaxExponent /\ R \in 0..MaxExponent /\ k <= R
    BY <2>2
  <2>4. QED
    BY <2>1, <2>2, <2>3, PowerGrows
<1>5. U <= W
  <2>1. W = U * Hi(F64) /\ U \in Nat \ {0}
    BY Widths
  <2> DEFINE T == Hi(F64)
  <2>2. T \in Nat /\ 1 <= T
    BY <1>1
  <2> HIDE DEF U, W, T
  <2>3. U * 1 <= U * T
    BY <2>1, <2>2
  <2>4. QED
    BY <2>1, <2>3 DEF T
<1>6. U \in Nat /\ W \in Nat /\ b \in Nat \ {0}
  BY Widths DEF Asked, IsF32
<1>7. b <= W
  <2> HIDE DEF U, W, b
  <2>1. QED
    BY <1>4, <1>5, <1>6
<1>8. QED
  BY <1>2, <1>3, <1>4, <1>7 DEF Asked, IsF32

(* The numerator for a denominator that keeps the value in range, before it is *)
(* rounded to an integer.                                                    *)
LEMMA NumeratorIs ==
  ASSUME NEW v, NEW max, Asked(v, max), NEW d \in Nat \ {0}, d * v[1] <= max * v[2]
  PROVE  \E g \in Nat, h \in Nat \ {0} :
           /\ AsF64(<<d * v[1], v[2]>>) = <<g, h>> /\ IsValue(<<g, h>>)
           /\ Magnitude(g * v[2] - h * (d * v[1])) * Hi(F64) <= h * (d * v[1])
           /\ g <= max * h /\ Round(<<g, h>>) \in 0..max
<1> DEFINE a == v[1]
           b == v[2]
           N == d * a
           T == Hi(F64)
           L == Lo(F64)
           U == Up(F32.range)
           W == Up(F64.range)
<1>1. /\ a \in Nat \ {0} /\ b \in Nat \ {0} /\ max \in Nat \ {0} /\ max < T /\ b <= U /\ N <= max * b
  BY AskedParts
<1>2. U \in Nat \ {0} /\ W \in Nat \ {0} /\ T \in Nat \ {0} /\ L \in Nat \ {0} /\ L <= T /\ W = U * T
  <2>1. F64 \in {F32, F64}
    OBVIOUS
  <2>2. L \in Nat \ {0} /\ T \in Nat \ {0} /\ T = 2 * L
    BY <2>1, Mantissas
  <2>3. U \in Nat \ {0} /\ W \in Nat \ {0} /\ W = U * T
    BY Widths
  <2> HIDE DEF U, W, T, L
  <2>4. QED
    BY <2>2, <2>3
<1>3. N \in Nat \ {0}
  <2> HIDE DEF a
  <2>1. d * a # 0 /\ d * a \in Nat
    BY <1>1
  <2>2. QED
    BY <2>1
<1> HIDE DEF a, b, N, T, L, U, W
<1>4. L * b <= N * W
  <2>1. L * b <= T * b /\ T * b <= T * U /\ T * U = W /\ 1 * W <= N * W
    BY <1>1, <1>2, <1>3
  <2>2. L * b \in Int /\ T * b \in Int /\ N * W \in Int
    BY <1>1, <1>2, <1>3
  <2>3. QED
    BY <1>2, <2>1, <2>2
<1>5. N <= b * W
  <2>1. max * b <= T * b /\ 1 * T <= U * T /\ T * b = b * T
    BY <1>1, <1>2
  <2>2. b * T <= b * W
    BY <1>1, <1>2, <2>1
  <2>3. max * b \in Int /\ b * T \in Int /\ b * W \in Int
    BY <1>1, <1>2
  <2>4. QED
    BY <1>1, <1>3, <2>1, <2>2, <2>3
<1>6. PICK g \in Nat \ {0}, h \in Nat \ {0} :
        /\ Rounded(<<N, b>>, F64) = <<g, h>> /\ IsValue(<<g, h>>)
        /\ Magnitude(g * b - h * N) * T <= h * N
  BY <1>1, <1>3, <1>4, <1>5, RoundedNear DEF L, W, T
<1>7. g <= max * h
  <2>1. AsF64(<<max, 1>>) = Whole(max) /\ IsFinite(AsF64(<<max, 1>>))
    BY <1>1, WholeExact DEF T
  <2>2. N * 1 <= max * b /\ N \in Nat /\ max \in Nat /\ 1 \in Nat \ {0} /\ F64 \in {F32, F64}
    BY <1>1, <1>3
  <2>3. IsFinite(Rounded(<<max, 1>>, F64))
    BY <2>1 DEF AsF64
  <2>4. Below(Rounded(<<N, b>>, F64), Rounded(<<max, 1>>, F64))
    BY <1>1, <2>2, <2>3, RoundedMonotone
  <2>5. g * 1 <= max * h
    BY <1>6, <2>1, <2>4 DEF AsF64, Below, Whole
  <2>6. QED
    BY <2>5
<1>8. Round(<<g, h>>) \in 0..max
  <2> DEFINE n == Round(<<g, h>>)
             u == 2 * g + h
             w == 2 * h
  <2>1. u \in Nat /\ w \in Nat \ {0} /\ n = u \div w
    BY DEF Round
  <2> DEFINE k == u \div w
             r == u % w
  <2>2. k \in Nat /\ r \in 0..(w - 1) /\ u = w * k + r
    <3> HIDE DEF u, w
    <3>1. QED
      BY <2>1, Division
  <2>3. k <= max
    <3> SUFFICES ASSUME max + 1 <= k PROVE FALSE
      BY <1>1, <2>2
    <3> HIDE DEF k, r
    <3>1. w * (max + 1) <= w * k
      BY <1>1, <2>1, <2>2
    <3>2. w * (max + 1) = 2 * (max * h) + 2 * h /\ max * h \in Int /\ w * k \in Int
      BY <1>1, <2>2
    <3>3. r \in Nat
      BY <2>1, <2>2
    <3>4. QED
      BY <1>7, <2>2, <3>1, <3>2, <3>3
  <2>4. QED
    BY <1>1, <2>1, <2>2, <2>3
<1>9. QED
  BY <1>6, <1>7, <1>8 DEF AsF64, N, a, b, T

(* The largest denominator is a u32, and no less than one that is needed.     *)
LEMMA LargestDenominator ==
  ASSUME NEW v, NEW max, Asked(v, max)
  PROVE  /\ MaxDenominator(v, max) \in Nat /\ MaxDenominator(v, max) <= U32Max
         /\ v[1] <= v[2] => MaxDenominator(v, max) = U32Max
         /\ v[1] <= max => v[2] <= MaxDenominator(v, max) \/ MaxDenominator(v, max) = U32Max
<1> DEFINE a == v[1]
           b == v[2]
           M == MaxDenominator(v, max)
<1>1. /\ a \in Nat \ {0} /\ b \in Nat \ {0} /\ max \in Nat \ {0} /\ max <= U32Max /\ max < Hi(F64)
      /\ U32Max \in Nat \ {0} /\ a <= max * b /\ v = <<a, b>> /\ b <= Up(F64.range) /\ b <= Up(F32.range)
  BY AskedParts, Widths
<1>2. Less(Whole(1), v) <=> b < a
  <2>1. Less(Whole(1), v) <=> 1 * b < a * 1
    BY DEF Less, Whole
  <2> HIDE DEF a, b
  <2>2. QED
    BY <1>1, <2>1
<1>3. CASE a <= b
  <2>1. ~Less(Whole(1), v)
    <3> HIDE DEF a, b
    <3>1. QED
      BY <1>1, <1>2, <1>3
  <2>2. M = U32Max
    BY <2>1 DEF MaxDenominator, Floor
  <2>3. QED
    BY <1>1, <2>2
<1>4. CASE b < a
  <2> DEFINE x == max * b
             T == Hi(F64)
             L == Lo(F64)
             U == Up(F32.range)
             W == Up(F64.range)
  <2>1. U \in Nat \ {0} /\ W \in Nat \ {0} /\ T \in Nat \ {0} /\ L \in Nat \ {0} /\ L <= W /\ W = U * T
    <3>1. F64 \in {F32, F64}
      OBVIOUS
    <3>2. L \in Nat \ {0} /\ T \in Nat \ {0} /\ T = 2 * L /\ T <= W
      BY <3>1, Mantissas
    <3>3. U \in Nat \ {0} /\ W \in Nat \ {0} /\ W = U * T
      BY Widths
    <3> HIDE DEF U, W, T, L
    <3>4. QED
      BY <3>2, <3>3
  <2>2. x \in Nat \ {0} /\ a <= x
    <3> HIDE DEF a, b
    <3>1. max * b # 0 /\ max * b \in Nat
      BY <1>1
    <3>2. QED
      BY <1>1, <3>1
  <2>3. M = AsF64(<<x, a>>)[1] \div AsF64(<<x, a>>)[2]
    <3>1. Less(Whole(1), v)
      BY <1>2, <1>4
    <3>2. QED
      BY <3>1, Zenon DEF MaxDenominator, Floor
  <2> HIDE DEF M, T, L, U, W
  <2>4. L * a <= x * W
    <3> HIDE DEF x, a
    <3>1. L * a <= W * a /\ W * a <= W * x /\ W * x = x * W
      BY <1>1, <2>1, <2>2
    <3>2. L * a \in Int /\ W * a \in Int /\ x * W \in Int
      BY <1>1, <2>1, <2>2
    <3>3. QED
      BY <3>1, <3>2
  <2>5. x <= a * W
    <3> HIDE DEF a, b
    <3>1. max * b <= T * b /\ T * b <= T * U /\ T * U = W /\ 1 * W <= a * W
      BY <1>1, <2>1 DEF T, U
    <3>2. max * b \in Int /\ T * b \in Int /\ a * W \in Int
      BY <1>1, <2>1
    <3>3. QED
      BY <2>1, <3>1, <3>2
  <2>6. PICK g \in Nat \ {0}, h \in Nat \ {0} : AsF64(<<x, a>>) = <<g, h>> /\ IsValue(<<g, h>>)
    <3>1. F64 \in {F32, F64}
      OBVIOUS
    <3>2. /\ x \in Nat \ {0} /\ a \in Nat \ {0}
          /\ Lo(F64) * a <= x * Up(F64.range) /\ x <= a * Up(F64.range)
      BY <1>1, <2>2, <2>4, <2>5 DEF L, W
    <3> HIDE DEF x, a
    <3>3. \E g \in Nat \ {0}, h \in Nat \ {0} :
            /\ Rounded(<<x, a>>, F64) = <<g, h>> /\ IsValue(<<g, h>>)
            /\ h <= Up(F64.range)
            /\ Magnitude(g * a - h * x) * Hi(F64) <= h * x
      BY <3>1, <3>2, RoundedNear
    <3>4. QED
      BY <3>3 DEF AsF64
  <2>7. M = g \div h
    BY <2>3, <2>6
  <2> DEFINE k == g \div h
             r == g % h
  <2>8. k \in Nat /\ r \in 0..(h - 1) /\ g = h * k + r
    BY Division
  <2> HIDE DEF x, k, r, a, b
  <2>9. g <= max * h
    <3>1. AsF64(<<max, 1>>) = Whole(max) /\ IsFinite(AsF64(<<max, 1>>))
      BY <1>1, WholeExact
    <3>2. x * 1 <= max * a
      <4>1. max * b <= max * a /\ max * b \in Int /\ max * a \in Int
        BY <1>1, <1>4
      <4>2. QED
        BY <2>2, <4>1 DEF x
    <3>3. x \in Nat /\ max \in Nat /\ 1 \in Nat \ {0} /\ F64 \in {F32, F64}
      BY <1>1, <2>2
    <3>4. IsFinite(Rounded(<<max, 1>>, F64))
      BY <3>1 DEF AsF64
    <3>5. Below(Rounded(<<x, a>>, F64), Rounded(<<max, 1>>, F64))
      BY <1>1, <3>2, <3>3, <3>4, RoundedMonotone
    <3>6. g * 1 <= max * h
      BY <2>6, <3>1, <3>5 DEF AsF64, Below, Whole
    <3>7. QED
      BY <3>6
  <2>10. k <= max
    <3> SUFFICES ASSUME max + 1 <= k PROVE FALSE
      BY <1>1, <2>8
    <3>1. h * (max + 1) <= h * k
      BY <1>1, <2>8
    <3>2. h * (max + 1) = max * h + h /\ max * h \in Int /\ h * k \in Int /\ r \in Nat
      BY <1>1, <2>8
    <3>3. QED
      BY <2>8, <2>9, <3>1, <3>2
  <2>11. a <= max => b <= k
    <3> SUFFICES ASSUME a <= max, k + 1 <= b PROVE FALSE
      BY <1>1, <2>8
    <3>1. b < Hi(F64)
      BY <1>1, <1>4, Widths
    <3>2. AsF64(<<b, 1>>) = Whole(b)
      BY <1>1, <3>1, WholeExact
    <3>3. b * a <= x * 1
      <4>1. a * b <= max * b /\ a * b = b * a /\ max * b \in Int /\ a * b \in Int
        BY <1>1
      <4>2. QED
        BY <2>2, <4>1 DEF x
    <3>4. x \in Nat /\ b \in Nat /\ 1 \in Nat \ {0} /\ F64 \in {F32, F64}
      BY <1>1, <2>2
    <3>5. IsFinite(Rounded(<<x, a>>, F64))
      BY <2>6 DEF AsF64, IsFinite
    <3>6. Below(Rounded(<<b, 1>>, F64), Rounded(<<x, a>>, F64))
      BY <1>1, <3>3, <3>4, <3>5, RoundedMonotone
    <3>7. b * h <= g * 1
      BY <2>6, <3>2, <3>6 DEF AsF64, Below, Whole
    <3>8. h * (k + 1) <= h * b
      BY <1>1, <2>8
    <3>9. h * (k + 1) = h * k + h /\ b * h = h * b /\ h * k \in Int /\ h * b \in Int
      BY <1>1, <2>8
    <3>10. QED
      BY <2>8, <3>7, <3>8, <3>9
  <2>12. M = k
    BY <2>7 DEF k
  <2>13. QED
    BY <1>1, <1>4, <2>8, <2>10, <2>11, <2>12 DEF M, a, b
<1>5. QED
  BY <1>1, <1>3, <1>4

(* A whole number rounds to itself.                                          *)
LEMMA RoundWhole ==
  ASSUME NEW n \in Nat
  PROVE  Round(Whole(n)) = n /\ Coprime(Magnitude(n), 1)
<1>1. Coprime(Magnitude(n), 1)
  <2>1. Whole(n) \in Float
    BY FloatRatios
  <2>2. Whole(n) = <<n, 1>> /\ Whole(n) # NaN
    BY DEF Whole, NaN
  <2>3. QED
    BY <2>1, <2>2 DEF Float, Coprime, NaN
<1> DEFINE k == Round(<<n, 1>>)
<1>2. k \in Nat /\ Magnitude(k * 1 - n) <= Magnitude(n * 1 - n)
  <2>1. n \in Int /\ 1 \in Nat \ {0}
    OBVIOUS
  <2>2. /\ Round(<<n, 1>>) \in Nat
        /\ \A i \in Int : Magnitude(Round(<<n, 1>>) * 1 - n) <= Magnitude(i * 1 - n)
    BY <2>1, RoundNearest
  <2>3. QED
    BY <2>1, <2>2
<1> HIDE DEF k
<1>3. k = n
  BY <1>2 DEF Magnitude
<1>4. QED
  BY <1>1, <1>3 DEF k, Whole

(* A value with a larger denominator than an f32's mantissa is below one half.*)
LEMMA CoarseParts ==
  ASSUME NEW v, NEW max, Asked(v, max), Hi(F32) < v[2]
  PROVE  /\ v[1] < Hi(F32) /\ 2 * v[1] + 2 <= v[2] /\ v[2] # 1
         /\ v[1] % v[2] = v[1] /\ MaxDenominator(v, max) = U32Max
<1> DEFINE a == v[1]
           b == v[2]
           H == Hi(F32)
<1>1. /\ a \in Nat \ {0} /\ b \in Nat \ {0} /\ H \in Nat /\ H >= 8 /\ H < b /\ (b = 1 \/ a < H)
  BY AskedParts, Widths
<1>2. a < H /\ b # 1
  <2> HIDE DEF a, b, H
  <2>1. QED
    BY <1>1
<1>3. PICK k \in 0..F32.range : b = pow2[k]
  BY AskedParts
<1>4. 2 * H <= b
  <2> DEFINE f == F32.bits
             R == F32.range
             K == MaxExponent
  <2>1. f \in Nat \ {0} /\ R \in Nat /\ f <= R /\ R <= K /\ K \in Nat
    BY TypeParts, WidthFacts
  <2>2. H = pow2[f]
    BY DEF Hi
  <2> HIDE DEF f, R
  <2>3. k \in 0..K /\ f \in 0..K
    BY <2>1, <1>3 DEF R
  <2>4. f + 1 <= k
    <3> SUFFICES ASSUME k <= f PROVE FALSE
      BY <2>1, <2>3
    <3>1. pow2[k] <= pow2[f]
      BY <2>3, PowerGrows
    <3> HIDE DEF b, H
    <3>2. QED
      BY <1>1, <1>3, <2>2, <3>1
  <2>5. f + 1 \in 0..K /\ f + 1 \in 1..K
    BY <2>1, <2>3, <2>4
  <2>6. pow2[f + 1] <= pow2[k]
    BY <2>3, <2>4, <2>5, PowerGrows
  <2>7. pow2[f + 1] = 2 * pow2[f]
    <3>1. pow2[f + 1] = 2 * pow2[(f + 1) - 1]
      BY <2>5, PowerSteps
    <3>2. (f + 1) - 1 = f
      BY <2>1
    <3>3. QED
      BY <3>1, <3>2
  <2>8. QED
    BY <1>3, <2>2, <2>6, <2>7
<1> HIDE DEF a, b, H
<1>5. 2 * a + 2 <= b /\ a <= b
  BY <1>1, <1>2, <1>4
<1>6. a % b = a
  <2>1. a \div b \in Nat /\ (a % b) \in 0..(b - 1) /\ a = b * (a \div b) + (a % b)
    BY <1>1, Division
  <2> DEFINE j == a \div b
             r == a % b
  <2> HIDE DEF j, r
  <2>2. j \in Nat /\ r \in 0..(b - 1) /\ a = b * j + r
    BY <2>1 DEF j, r
  <2>3. j = 0
    <3> SUFFICES ASSUME 1 <= j PROVE FALSE
      BY <2>2
    <3>1. b * 1 <= b * j /\ b * j \in Int
      BY <1>1, <2>2
    <3>2. QED
      BY <1>1, <1>5, <2>2, <3>1
  <2>4. b * j = 0
    BY <1>1, <2>3
  <2>5. QED
    BY <1>1, <2>2, <2>4 DEF r
<1>7. QED
  BY <1>2, <1>5, <1>6, LargestDenominator DEF a, b, H

(* A value is small if even the largest denominator is too small for it.      *)
Small(v) ==
  LET inverse == AsF64(<<v[2], v[1]>>) IN inverse[1] \div inverse[2] > U32Max

LEMMA SmallIs ==
  ASSUME NEW v, NEW max, Asked(v, max), Small(v)
  PROVE  v[1] * U32Max < v[2]
<1> DEFINE a == v[1]
           b == v[2]
           U == U32Max
<1>1. a \in Nat \ {0} /\ b \in Nat \ {0} /\ b <= Up(F64.range) /\ U \in Nat \ {0} /\ U < Hi(F64)
  BY AskedParts, Widths
<1> SUFFICES ASSUME b <= a * U PROVE FALSE
  <2> HIDE DEF a, b, U
  <2>1. a * U \in Int
    BY <1>1
  <2>2. QED
    BY <1>1, <2>1 DEF a, b, U
<1>2. AsF64(<<U, 1>>) = Whole(U) /\ IsFinite(AsF64(<<U, 1>>))
  BY <1>1, WholeExact
<1>3. b * 1 <= U * a /\ b \in Nat /\ U \in Nat /\ 1 \in Nat \ {0} /\ F64 \in {F32, F64}
  <2> HIDE DEF a, b, U
  <2>1. a * U = U * a
    BY <1>1
  <2>2. QED
    BY <1>1, <2>1
<1> DEFINE i == AsF64(<<b, a>>)
<1>4. IsValue(i) /\ Below(i, Whole(U))
  <2>1. IsFinite(Rounded(<<U, 1>>, F64))
    BY <1>2 DEF AsF64
  <2> HIDE DEF a, b, U
  <2>2. IsValue(Rounded(<<b, a>>, F64)) /\ Below(Rounded(<<b, a>>, F64), Rounded(<<U, 1>>, F64))
    BY <1>1, <1>3, <2>1, RoundedMonotone
  <2>3. QED
    BY <1>2, <2>2 DEF AsF64
<1>5. i[1] \div i[2] > U
  BY DEF Small
<1> HIDE DEF i, a, b, U
<1> DEFINE g == i[1]
           h == i[2]
           k == g \div h
           r == g % h
<1>6. g \in Nat /\ h \in Nat \ {0}
  BY <1>4, ValueParts
<1>7. g * 1 <= U * h
  BY <1>4 DEF Below, Whole
<1>8. k \in Nat /\ r \in 0..(h - 1) /\ g = h * k + r /\ U + 1 <= k
  <2> HIDE DEF g, h
  <2>1. g \div h \in Nat /\ (g % h) \in 0..(h - 1) /\ g = h * (g \div h) + (g % h)
    BY <1>6, Division
  <2>2. g \div h > U
    BY <1>5 DEF g, h
  <2>3. QED
    BY <1>1, <2>1, <2>2
<1> HIDE DEF g, h, k, r
<1>9. h * (U + 1) <= h * k
  BY <1>1, <1>6, <1>8
<1>10. h * (U + 1) = U * h + h /\ U * h \in Int /\ h * k \in Int /\ r \in Nat
  BY <1>1, <1>6, <1>8
<1>11. QED
  BY <1>6, <1>7, <1>8, <1>9, <1>10

(* The loop between two turns.                                               *)
Running(v, d, c, x, y, p, m, s) ==
  /\ Convergent(v[1], v[2], Hi(F64), d, c, x, y, p, m, s)
  /\ d <= U32Max /\ y <= Up(F64.range)
  /\ v[2] <= Hi(F32) => d <= v[2]
  /\ c = 0 => x = v[1] % v[2]
  /\ c >= 1 /\ Hi(F32) < v[2] => ~Small(v)

(* What it knows of the types.                                               *)
LEMMA RunningTypes ==
  ASSUME NEW v, NEW max, Asked(v, max), NEW d, NEW c, NEW x, NEW y, NEW p, NEW m, NEW s,
         Running(v, d, c, x, y, p, m, s)
  PROVE  /\ d \in Nat \ {0} /\ c \in Nat /\ c <= d /\ x \in Nat /\ y \in Nat \ {0} /\ x < y
         /\ p \in Nat /\ m \in Nat /\ s \in {1, -1} /\ d <= U32Max /\ y <= Up(F64.range)
         /\ c = 0 => d = 1 /\ y = v[2] /\ x = v[1] % v[2]
BY DEF Running, Convergent

(* The numerator stays in range.                                             *)
LEMMA StillInRange ==
  ASSUME NEW v, NEW max, Asked(v, max), NEW d, NEW c, NEW x, NEW y, NEW p, NEW m, NEW s,
         Running(v, d, c, x, y, p, m, s)
  PROVE  d * v[1] <= max * v[2]
<1> DEFINE a == v[1]
           b == v[2]
           H == Hi(F32)
<1>1. /\ a \in Nat \ {0} /\ b \in Nat \ {0} /\ max \in Nat \ {0} /\ I32Max <= max /\ a <= max * b
      /\ (b = 1 \/ a < H)
  BY AskedParts
<1>2. H \in Nat /\ H <= I32Max /\ I32Max \in Nat \ {0} /\ U32Max <= 2 * I32Max + 1 /\ U32Max \in Nat
  BY Widths
<1>3. d \in Nat \ {0} /\ d <= U32Max
  BY RunningTypes
<1>4. CASE b <= H
  <2>1. d <= b
    BY <1>4 DEF Running
  <2> HIDE DEF a, b, H
  <2>2. CASE b = 1
    <3>1. d = 1
      BY <1>3, <2>1, <2>2
    <3>2. QED
      BY <1>1, <3>1 DEF a, b
  <2>3. CASE a < H
    <3>1. d * a <= b * a /\ b * a <= b * max /\ b * max = max * b
      BY <1>1, <1>2, <1>3, <2>1, <2>3
    <3>2. d * a \in Int /\ b * a \in Int /\ max * b \in Int
      BY <1>1, <1>3
    <3>3. d * a <= max * b
      BY <3>1, <3>2
    <3>4. QED
      BY <3>3 DEF a, b
  <2>4. QED
    BY <1>1, <2>2, <2>3
<1>5. CASE H < b
  <2>1. 2 * a + 2 <= b /\ a < H
    BY <1>5, CoarseParts
  <2> DEFINE I == I32Max
  <2> HIDE DEF a, b, H, I
  <2>2. I \in Nat \ {0} /\ a < I /\ d <= 2 * I + 1
    BY <1>1, <1>2, <1>3, <2>1 DEF I
  <2>3. d * a <= (2 * I + 1) * a
    BY <1>1, <1>3, <2>2
  <2>4. (2 * I + 1) * a <= I * (2 * a + 2)
    <3>1. (2 * I + 1) * a = 2 * (I * a) + a /\ I * (2 * a + 2) = 2 * (I * a) + 2 * I
      BY <1>1, <2>2
    <3>2. I * a \in Int
      BY <1>1, <2>2
    <3>3. QED
      BY <1>1, <2>2, <3>1, <3>2
  <2>5. I * (2 * a + 2) <= I * b
    BY <1>1, <2>1, <2>2
  <2>6. I * b <= max * b
    BY <1>1, <2>2 DEF I
  <2>7. d * a <= max * b
    <3>1. d * a \in Int /\ (2 * I + 1) * a \in Int /\ I * (2 * a + 2) \in Int /\ I * b \in Int /\ max * b \in Int
      BY <1>1, <1>3, <2>2
    <3>2. QED
      BY <2>3, <2>4, <2>5, <2>6, <3>1
  <2>8. QED
    BY <2>7 DEF a, b
<1>6. QED
  BY <1>1, <1>2, <1>4, <1>5

(* With a small denominator, the search ends at the value itself: what seems   *)
(* to be exact is, and no turn goes beyond it.                               *)
LEMMA ExactEnds ==
  ASSUME NEW v, NEW max, Asked(v, max), v[2] <= Hi(F32),
         NEW d, NEW c, NEW x, NEW y, NEW p, NEW m, NEW s,
         Running(v, d, c, x, y, p, m, s)
  PROVE  LET num_double == AsF64(<<d * v[1], v[2]>>)
             n == Round(num_double)
         IN /\ num_double = Whole(n) \/ x = 0 => n * v[2] = d * v[1]
            /\ \A g, h : num_double # Whole(n) /\ x # 0 /\ Inverts(g, h, x, y, Hi(F64)) =>
                           c + (g \div h) * d <= v[2] /\ v[1] <= max
<1> DEFINE a == v[1]
           b == v[2]
           H == Hi(F32)
           T == Hi(F64)
           N == d * a
           num == AsF64(<<N, b>>)
           n == Round(num)
<1>1. /\ a \in Nat \ {0} /\ b \in Nat \ {0} /\ max \in Nat \ {0} /\ max < T /\ a <= max * b
      /\ (b = 1 \/ a < H) /\ b <= H /\ I32Max <= max
  BY AskedParts
<1>2. H \in Nat /\ T \in Nat \ {0} /\ T >= 128 /\ 16 * (H * H) <= T /\ H <= I32Max /\ I32Max \in Nat /\ H >= 8
  <2>1. /\ H \in Nat /\ T \in Nat /\ 16 * (H * H) <= T /\ 128 * H <= T /\ H >= 8
        /\ H <= I32Max /\ I32Max \in Nat
    BY Widths
  <2> HIDE DEF H, T
  <2>2. QED
    BY <2>1
<1>3. /\ d \in Nat \ {0} /\ d <= b /\ x \in Nat /\ y \in Nat \ {0} /\ p \in Nat /\ c \in Nat
      /\ Convergent(a, b, T, d, c, x, y, p, m, s)
  BY RunningTypes DEF Running
<1>4. CASE b = 1
  <2>1. d = 1
    BY <1>3, <1>4
  <2>2. N = a
    <3> HIDE DEF a
    <3>1. QED
      BY <1>1, <2>1
  <2>3. a < T
    <3> HIDE DEF a, b, T
    <3>1. max * b = max
      BY <1>1, <1>4
    <3>2. QED
      BY <1>1, <1>2, <3>1
  <2>4. num = Whole(a) /\ n = a
    <3>1. AsF64(<<a, 1>>) = Whole(a) /\ Round(Whole(a)) = a
      BY <1>1, <2>3, WholeExact, RoundWhole
    <3>2. QED
      BY <1>4, <2>2, <3>1
  <2>5. n * b = N
    <3> HIDE DEF a, num, n, N
    <3>1. QED
      BY <1>1, <1>4, <2>2, <2>4
  <2>6. QED
    BY <2>4, <2>5
<1>5. CASE b # 1
  <2>1. a < H
    <3> HIDE DEF a, b, H
    <3>1. QED
      BY <1>1, <1>5
  <2>2. 16 * (a * d) <= T /\ 16 * (a * b) <= T /\ N \in Nat \ {0} /\ N < T /\ N = a * d
    <3> HIDE DEF a, b, H, T
    <3>1. a * d <= a * b /\ a * b <= a * H /\ a * H <= H * H
      BY <1>1, <1>2, <1>3, <2>1
    <3>2. a * d \in Int /\ a * b \in Int /\ a * H \in Int /\ H * H \in Int
      BY <1>1, <1>2, <1>3
    <3>3. N = a * d /\ N # 0
      BY <1>1, <1>3
    <3> DEFINE i == a * d
               j == a * b
               k == a * H
               l == H * H
    <3>4. i \in Int /\ j \in Int /\ k \in Int /\ l \in Int /\ i <= j /\ j <= k /\ k <= l /\ 16 * l <= T
      BY <1>2, <3>1, <3>2
    <3>5. N \in Nat \ {0} /\ N = i
      BY <1>1, <1>3, <3>3
    <3> HIDE DEF i, j, k, l, N
    <3>6. QED
      BY <1>2, <3>4, <3>5 DEF i, j
  <2>3. a <= max
    <3> HIDE DEF a, H
    <3>1. QED
      BY <1>1, <1>2, <2>1
  <2>4. num = Ratio(N, b)
    <3>1. PICK k \in 0..F32.range : b = pow2[k]
      BY AskedParts
    <3>2. F64.range - F64.bits = F32.range /\ F64 \in {F32, F64}
      BY Widths
    <3>3. k \in 0..(F64.range - F64.bits)
      BY <3>1, <3>2
    <3> HIDE DEF N, b
    <3>4. Rounded(<<N, pow2[k]>>, F64) = Ratio(N, pow2[k])
      BY <2>2, <3>2, <3>3, RoundedExact DEF T
    <3>5. QED
      BY <3>1, <3>4 DEF AsF64
  <2>5. p * b = N => num = Whole(p) /\ n = p
    <3> SUFFICES ASSUME p * b = N PROVE num = Whole(p) /\ n = p
      OBVIOUS
    <3>1. Coprime(Magnitude(p), 1) /\ Round(Whole(p)) = p
      BY <1>3, RoundWhole
    <3>2. N * 1 = p * b /\ N \in Int /\ p \in Int /\ 1 \in Nat \ {0}
      BY <1>3, <2>2
    <3> HIDE DEF N, b
    <3>3. Ratio(N, b) = <<p, 1>>
      BY <1>1, <3>1, <3>2, RatioIs
    <3>4. num = Whole(p)
      BY <2>4, <3>3 DEF Whole
    <3>5. QED
      BY <3>1, <3>4
  <2>6. num = Whole(n) => n * b = N
    <3> SUFFICES ASSUME num = Whole(n) PROVE n * b = N
      OBVIOUS
    <3>1. d * a <= max * b
      BY StillInRange
    <3>2. PICK g \in Nat, h \in Nat \ {0} :
            /\ num = <<g, h>> /\ Magnitude(g * b - h * N) * T <= h * N
            /\ Round(<<g, h>>) \in 0..max
      BY <1>3, <3>1, NumeratorIs
    <3>3. g = n /\ h = 1 /\ n \in Nat
      BY <1>1, <3>2 DEF Whole
    <3> DEFINE i == n * b
               e == i - N
    <3>4. i \in Int /\ e \in Int
      BY <1>1, <2>2, <3>3
    <3>5. Magnitude(e) * T <= N
      <4>1. h * N = N /\ g * b = i
        BY <2>2, <3>3
      <4>2. QED
        BY <3>2, <4>1
    <3> HIDE DEF i, e, N, T
    <3>6. Magnitude(e) \in Nat
      BY <3>4, Magnitudes
    <3>7. Magnitude(e) = 0
      <4> DEFINE E == Magnitude(e)
      <4> SUFFICES ASSUME E >= 1 PROVE FALSE
        BY <3>6
      <4> HIDE DEF E
      <4>1. E \in Nat /\ E * T <= N
        BY <3>5, <3>6 DEF E
      <4>2. 1 * T <= E * T /\ E * T \in Int
        BY <1>2, <4>1
      <4>3. QED
        BY <1>2, <2>2, <4>1, <4>2
    <3>8. e = 0
      BY <3>4, <3>7 DEF Magnitude
    <3>9. i = N
      BY <2>2, <3>4, <3>8 DEF e
    <3>10. QED
      BY <3>9 DEF i
  <2>7. x = 0 => p * b = N
    <3> HIDE DEF a, b, T
    <3>1. QED
      BY <1>1, <1>2, <1>3, <2>2, NothingLeft
  <2>8. ASSUME NEW g, NEW h, num # Whole(n), x # 0, Inverts(g, h, x, y, T)
        PROVE  c + (g \div h) * d <= b
    <3>1. p * b # d * a
      BY <2>5, <2>8
    <3> HIDE DEF a, b, T, N, num, n
    <3>2. QED
      BY <1>1, <1>2, <1>3, <2>2, <2>8, <3>1, StaysBelow
  <2>9. x = 0 => n * b = N
    <3> HIDE DEF n, num, N, b
    <3>1. QED
      BY <2>5, <2>7
  <2>10. QED
    BY <2>3, <2>6, <2>8, <2>9
<1>6. QED
  BY <1>4, <1>5

(* A fraction n/d for a value: the value itself if its denominator is small,  *)
(* zero if the value is too small, and otherwise one that is near.            *)
Settled(v, n, d) ==
  IF v[2] <= Hi(F32) THEN n * v[2] = d * v[1]
  ELSE IF Small(v) THEN n = 0 /\ d = 1
  ELSE IsNear(v[1], v[2], Hi(F32), n, d)

(* f64 holds what is asked for.                                              *)
LEMMA AskedHeld ==
  ASSUME NEW v, NEW max, Asked(v, max)
  PROVE  AsF64(<<v[1], v[2]>>) = v
<1> DEFINE a == v[1]
           b == v[2]
<1>1. /\ v = <<a, b>> /\ a \in Nat \ {0} /\ b \in Nat \ {0} /\ Coprime(Magnitude(a), b)
      /\ max \in Nat \ {0} /\ max < Hi(F64) /\ a <= max * b /\ (b = 1 \/ a < Hi(F32))
  BY AskedParts
<1>2. a < Hi(F64)
  <2> DEFINE H == Hi(F32)
             T == Hi(F64)
  <2>1. H \in Nat /\ T \in Nat /\ 128 * H <= T
    BY Widths
  <2> HIDE DEF H, T, a, b
  <2>2. CASE b = 1
    <3>1. max * b = max
      BY <1>1, <2>2
    <3>2. a < T
      BY <1>1, <2>1, <3>1 DEF T
    <3>3. QED
      BY <3>2 DEF T
  <2>3. CASE a < H
    <3>1. a < T
      BY <1>1, <2>1, <2>3
    <3>2. QED
      BY <3>1 DEF T
  <2>4. QED
    BY <1>1, <2>2, <2>3 DEF H
<1>3. PICK k \in 0..F32.range : b = pow2[k]
  BY AskedParts
<1>4. F64.range - F64.bits = F32.range /\ F64 \in {F32, F64}
  BY Widths
<1>5. k \in 0..(F64.range - F64.bits)
  BY <1>3, <1>4
<1> HIDE DEF a, b
<1>6. Rounded(<<a, pow2[k]>>, F64) = Ratio(a, pow2[k])
  BY <1>1, <1>2, <1>4, <1>5, RoundedExact
<1>7. a \in Int /\ a * b = a * b
  BY <1>1
<1>8. Ratio(a, b) = <<a, b>>
  BY <1>1, <1>7, RatioIs
<1>9. QED
  BY <1>1, <1>3, <1>6, <1>8 DEF AsF64, a, b

(* Before the first turn, the numerator for a value below one half.           *)
LEMMA FirstNumerator ==
  ASSUME NEW v, NEW max, Asked(v, max), Hi(F32) < v[2]
  PROVE  AsF64(<<1 * v[1], v[2]>>) # Whole(Round(AsF64(<<1 * v[1], v[2]>>)))
         /\ Round(AsF64(<<1 * v[1], v[2]>>)) = 0
<1> DEFINE a == v[1]
           b == v[2]
<1>1. /\ a \in Nat \ {0} /\ b \in Nat \ {0} /\ a < Hi(F32) /\ 2 * a + 2 <= b /\ b # 1
      /\ Coprime(Magnitude(a), b)
  BY AskedParts, CoarseParts
<1>2. AsF64(<<a, b>>) = <<a, b>>
  BY AskedHeld, AskedParts
<1>3. Round(<<a, b>>) = 0
  <2> HIDE DEF a, b
  <2> DEFINE i == 2 * a + b
             j == 2 * b
  <2>1. i \in Nat /\ j \in Nat \ {0} /\ i < j /\ Round(<<a, b>>) = i \div j
    BY <1>1 DEF Round
  <2> HIDE DEF i, j
  <2> DEFINE q == i \div j
             r == i % j
  <2>2. q \in Nat /\ r \in 0..(j - 1) /\ i = j * q + r
    BY <2>1, Division
  <2> HIDE DEF q, r
  <2>3. q = 0
    <3> SUFFICES ASSUME 1 <= q PROVE FALSE
      BY <2>2
    <3>1. j * 1 <= j * q /\ j * q \in Int
      BY <2>1, <2>2
    <3>2. QED
      BY <2>1, <2>2, <3>1
  <2>4. QED
    BY <2>1, <2>3 DEF q
<1>4. 1 * a = a
  <2> HIDE DEF a
  <2>1. QED
    BY <1>1
<1>5. <<a, b>> # Whole(0)
  <2> HIDE DEF a, b
  <2>1. QED
    BY <1>1 DEF Whole
<1>6. QED
  BY <1>2, <1>3, <1>4, <1>5

(* By how much the numerator for a denominator misses the value.              *)
LEMMA NumeratorMisses ==
  ASSUME NEW v, NEW max, Asked(v, max),
         NEW d, NEW c, NEW x, NEW y, NEW p, NEW m, NEW s,
         Running(v, d, c, x, y, p, m, s)
  PROVE  LET num_double == AsF64(<<d * v[1], v[2]>>)
             n == Round(num_double)
             E == Magnitude(n * v[2] - d * v[1])
             F == Magnitude(p * v[2] - d * v[1])
         IN /\ n \in 0..max /\ n \in Nat /\ E \in Nat /\ F \in Nat
            /\ E * Hi(F64) <= F * Hi(F64) + 2 * (v[1] * d)
            /\ num_double = Whole(n) => E * Hi(F64) <= v[1] * d
<1> DEFINE a == v[1]
           b == v[2]
           T == Hi(F64)
           N == d * a
           num == AsF64(<<N, b>>)
           n == Round(num)
           E == Magnitude(n * b - d * a)
           F == Magnitude(p * b - d * a)
<1>1. a \in Nat \ {0} /\ b \in Nat \ {0} /\ max \in Nat \ {0}
  BY AskedParts
<1>2. T \in Nat \ {0}
  <2>1. T \in Nat /\ U32Max < T /\ U32Max \in Nat
    BY Widths
  <2> HIDE DEF T
  <2>2. QED
    BY <2>1
<1>3. d \in Nat \ {0} /\ p \in Nat
  BY RunningTypes
<1>4. PICK g1 \in Nat, h1 \in Nat \ {0} :
        num = <<g1, h1>> /\ n \in 0..max /\ Magnitude(g1 * b - h1 * N) * T <= h1 * N
  BY <1>3, StillInRange, NumeratorIs
<1>5. N \in Nat \ {0} /\ N = a * d
  <2> HIDE DEF a
  <2>1. d * a \in Nat /\ d * a # 0 /\ d * a = a * d
    BY <1>1, <1>3
  <2>2. QED
    BY <2>1
<1>6. /\ n \in Nat
      /\ num = Whole(n) => Magnitude(n * b - N) * T <= N
      /\ \A k \in Int : Magnitude(n * b - N) * T <= Magnitude(k * b - N) * T + 2 * N
  <2> DEFINE n1 == Round(<<g1, h1>>)
  <2> HIDE DEF N, b, T
  <2>1. /\ n1 \in Nat
        /\ <<g1, h1>> = Whole(n1) => Magnitude(n1 * b - N) * T <= N
        /\ \A k \in Int : Magnitude(n1 * b - N) * T <= Magnitude(k * b - N) * T + 2 * N
    BY <1>1, <1>2, <1>4, <1>5, NumeratorNear
  <2>2. QED
    BY <1>4, <2>1
<1>7. /\ E \in Nat /\ F \in Nat /\ E * T <= F * T + 2 * (a * d)
      /\ num = Whole(n) => E * T <= a * d
  <2>1. n * b - d * a \in Int /\ p * b - d * a \in Int /\ p \in Int
    <3> HIDE DEF n, a, b
    <3>1. QED
      BY <1>1, <1>3, <1>6
  <2> HIDE DEF n, b, a, T, num
  <2>2. E \in Nat /\ F \in Nat
    BY <2>1, Magnitudes
  <2>3. QED
    BY <1>5, <1>6, <2>1, <2>2
<1>8. n \in 0..max /\ n \in Nat
  BY <1>4, <1>6
<1>9. QED
  BY <1>7, <1>8

(* With a large denominator, the search ends near the value.                 *)
LEMMA CoarseEnds ==
  ASSUME NEW v, NEW max, Asked(v, max), Hi(F32) < v[2],
         NEW d, NEW c, NEW x, NEW y, NEW p, NEW m, NEW s,
         Running(v, d, c, x, y, p, m, s)
  PROVE  LET num_double == AsF64(<<d * v[1], v[2]>>)
             n == Round(num_double)
         IN /\ num_double = Whole(n) \/ x = 0 => Settled(v, n, d)
            /\ \A g, h : x # 0 /\ AsF64(<<y, x>>) = <<g, h>> /\ Inverts(g, h, x, y, Hi(F64)) =>
                 IF c + (g \div h) * d > U32Max THEN Settled(v, n, d) ELSE ~Small(v)
<1> DEFINE a == v[1]
           b == v[2]
           H == Hi(F32)
           T == Hi(F64)
           N == d * a
           num == AsF64(<<N, b>>)
           n == Round(num)
<1>1. /\ a \in Nat \ {0} /\ b \in Nat \ {0} /\ H < b /\ a % b = a /\ max \in Nat \ {0}
  BY AskedParts, CoarseParts
<1>2. /\ H \in Nat \ {0} /\ T \in Nat \ {0} /\ T >= 128 /\ 128 * H <= T
      /\ 64 * H <= U32Max + 1 /\ U32Max \in Nat \ {0}
  <2>1. /\ H \in Nat /\ T \in Nat /\ 128 * H <= T /\ H >= 8
        /\ 64 * H <= U32Max + 1 /\ U32Max \in Nat \ {0}
    BY Widths
  <2> HIDE DEF H, T
  <2>2. QED
    BY <2>1
<1>3. /\ d \in Nat \ {0} /\ x \in Nat /\ y \in Nat \ {0} /\ p \in Nat /\ c \in Nat
      /\ Convergent(a, b, T, d, c, x, y, p, m, s)
      /\ c = 0 => d = 1 /\ y = b /\ x = a % b
      /\ c >= 1 => ~Small(v)
  BY RunningTypes DEF Running
<1>4. ~(b <= H)
  <2> HIDE DEF b, H
  <2>1. QED
    BY <1>1, <1>2
<1>5. c = 0 => num # Whole(n) /\ n = 0 /\ d = 1 /\ x = a /\ y = b /\ x # 0
  BY <1>1, <1>3, FirstNumerator
<1>6. ~Small(v) /\ IsNear(a, b, H, n, d) => Settled(v, n, d)
  <2> HIDE DEF n
  <2>1. QED
    BY <1>4 DEF Settled
<1> DEFINE E == Magnitude(n * b - d * a)
           F == Magnitude(p * b - d * a)
<1>7. /\ n \in Nat /\ E \in Nat /\ F \in Nat /\ E * T <= F * T + 2 * (a * d)
      /\ num = Whole(n) => E * T <= a * d
  BY NumeratorMisses
<1>8. c >= 1 /\ E * T <= 8 * (a * d) => Settled(v, n, d)
  <2> SUFFICES ASSUME c >= 1, E * T <= 8 * (a * d) PROVE Settled(v, n, d)
    OBVIOUS
  <2>1. IsNear(a, b, H, n, d)
    <3> HIDE DEF a, b, H, T, n
    <3>1. QED
      BY <1>1, <1>2, <1>3, <1>7, NearIfExact
  <2>2. QED
    BY <1>3, <1>6, <2>1
<1>9. num = Whole(n) => Settled(v, n, d)
  <2> SUFFICES ASSUME num = Whole(n) PROVE Settled(v, n, d)
    OBVIOUS
  <2>1. c >= 1
    BY <1>3, <1>5
  <2>2. E * T <= 8 * (a * d)
    <3> DEFINE i == a * d
               j == E * T
    <3>1. i \in Nat /\ j \in Int /\ j <= i
      <4> HIDE DEF a, E, T
      <4>1. a * d \in Nat /\ E * T \in Int
        BY <1>1, <1>2, <1>3, <1>7
      <4>2. QED
        BY <1>7, <2>1, <4>1
    <3> HIDE DEF i, j
    <3>2. j <= 8 * i
      BY <3>1
    <3>3. QED
      BY <3>2 DEF i, j
  <2>3. QED
    BY <1>8, <2>1, <2>2
<1>10. x = 0 => Settled(v, n, d)
  <2> SUFFICES ASSUME x = 0 PROVE Settled(v, n, d)
    OBVIOUS
  <2>1. c >= 1
    BY <1>3, <1>5
  <2> DEFINE q == Left(d, c, x, y)
  <2>2. q \in Nat \ {0}
    <3> HIDE DEF a, b, T
    <3>1. QED
      BY <1>1, <1>2, <1>3, SignedError
  <2>3. q * (F * T) <= q * (6 * (a * d) - b) + (b * x) * T
    <3> HIDE DEF a, b, T
    <3>1. QED
      BY <1>1, <1>2, <1>3, <2>1, MissedBy
  <2>4. E * T <= 8 * (a * d)
    <3> DEFINE i == a * d
               j == E * T
               k == F * T
    <3>1. i \in Nat /\ j \in Int /\ k \in Int /\ j <= k + 2 * i /\ b * x = 0
      <4> HIDE DEF a, b, E, F, T
      <4>1. a * d \in Nat /\ E * T \in Int /\ F * T \in Int /\ b * x = 0
        BY <1>1, <1>2, <1>3, <1>7
      <4>2. QED
        BY <1>7, <4>1
    <3>2. q * k <= q * (6 * i - b)
      <4>1. (b * x) * T = 0
        <5> HIDE DEF b, T
        <5>1. QED
          BY <1>2, <3>1
      <4> HIDE DEF q, k, i
      <4>2. q * (6 * i - b) \in Int
        <5> HIDE DEF b
        <5>1. QED
          BY <1>1, <2>2, <3>1
      <4> HIDE DEF b
      <4>3. QED
        BY <2>3, <4>1, <4>2 DEF k, i
    <3> HIDE DEF i, j, k, q, b
    <3>3. k <= 6 * i - b
      <4>1. k * q <= (6 * i - b) * q /\ 6 * i - b \in Int
        BY <1>1, <2>2, <3>1, <3>2
      <4>2. QED
        BY <2>2, <3>1, <4>1, Scaling
    <3>4. j <= 8 * i
      BY <1>1, <3>1, <3>3
    <3>5. QED
      BY <3>4 DEF i, j
  <2>5. QED
    BY <1>8, <2>1, <2>4
<1>11. ASSUME NEW g, NEW h, x # 0, AsF64(<<y, x>>) = <<g, h>>, Inverts(g, h, x, y, T)
       PROVE  IF c + (g \div h) * d > U32Max THEN Settled(v, n, d) ELSE ~Small(v)
  <2> DEFINE k == g \div h
             D == c + k * d
  <2>1. k \in Nat \ {0} /\ D \in Nat
    <3>1. k \in Nat \ {0}
      <4> HIDE DEF T
      <4>1. QED
        BY <1>2, <1>3, <1>11, InverseParts
    <3> HIDE DEF k
    <3>2. k * d \in Nat
      BY <1>3, <3>1
    <3>3. QED
      BY <1>3, <3>1, <3>2
  <2>2. CASE c = 0
    <3>1. AsF64(<<b, a>>) = <<g, h>> /\ d = 1 /\ n = 0
      BY <1>5, <1>11, <2>2
    <3>2. Small(v) <=> k > U32Max
      BY <3>1 DEF Small
    <3>3. D = k
      <4> HIDE DEF k
      <4>1. QED
        BY <2>1, <2>2, <3>1
    <3>4. Small(v) => Settled(v, n, d)
      BY <1>4, <3>1 DEF Settled
    <3>5. c + (g \div h) * d > U32Max <=> Small(v)
      BY <3>2, <3>3
    <3> HIDE DEF k, n, D
    <3>6. QED
      BY <3>4, <3>5
  <2>3. CASE c >= 1
    <3>1. ~Small(v)
      BY <1>3, <2>3
    <3>2. ASSUME D > U32Max PROVE Settled(v, n, d)
      <4>1. 64 * H <= D
        <5> HIDE DEF H, D
        <5>1. QED
          BY <1>2, <2>1, <3>2
      <4>2. IsNear(a, b, H, n, d)
        <5>1. 64 * H <= c + (g \div h) * d
          BY <4>1
        <5> HIDE DEF a, b, H, T, n, D, k
        <5>2. QED
          BY <1>1, <1>2, <1>3, <1>7, <1>11, <2>3, <5>1, NearIfFull
      <4>3. QED
        BY <1>6, <3>1, <4>2
    <3> HIDE DEF n
    <3>3. QED
      BY <3>1, <3>2
  <2>4. c = 0 \/ c >= 1
    BY <1>3
  <2> HIDE DEF n
  <2>5. QED
    BY <2>2, <2>3, <2>4
<1>12. QED
  BY <1>9, <1>10, <1>11

(* What is kept from turn to turn.                                           *)
Between(d, c, x, y, answer) ==
  [d |-> d, previous_d |-> c, current_v |-> <<x, y>>, answer |-> answer]

(* A turn ends the search, or leads on to the next convergent.                *)
LEMMA TurnRuns ==
  ASSUME NEW v, NEW max, Asked(v, max),
         NEW d, NEW c, NEW x, NEW y, NEW p, NEW m, NEW s,
         Running(v, d, c, x, y, p, m, s)
  PROVE  LET next == Turn(v, max, Between(d, c, x, y, None))
         IN \/ \E n \in 0..max :
                 next = Between(d, c, x, y, Converted(n, d)) /\ Settled(v, n, d)
            \/ \E D, k, h, P, s1 :
                 /\ next = Between(D, d, k, h, None)
                 /\ Running(v, D, d, k, h, P, p, s1) /\ c + d <= D /\ m + p <= P
<1> DEFINE t == Between(d, c, x, y, None)
           a == v[1]
           b == v[2]
           H == Hi(F32)
           T == Hi(F64)
           M == MaxDenominator(v, max)
           num == AsF64(<<d * a, b>>)
           n == Round(num)
           inverse == AsF64(<<y, x>>)
           D == c + (inverse[1] \div inverse[2]) * d
           done == num = Whole(n) \/ inverse[2] = 0 \/ D > M
           next == [t EXCEPT !.d = D, !.previous_d = d,
                             !.current_v = <<inverse[1] % inverse[2], inverse[2]>>]
<1>1. /\ a \in Nat \ {0} /\ b \in Nat \ {0} /\ max \in Nat \ {0}
  BY AskedParts
<1>2. /\ d \in Nat \ {0} /\ c \in Nat /\ x \in Nat /\ y \in Nat \ {0} /\ x < y /\ p \in Nat
      /\ m \in Nat /\ y <= Up(F64.range) /\ Convergent(a, b, T, d, c, x, y, p, m, s)
  BY RunningTypes DEF Running
<1>3. /\ H \in Nat /\ T \in Nat \ {0} /\ T >= 3 /\ H <= U32Max /\ U32Max \in Nat
  <2>1. /\ H \in Nat /\ T \in Nat /\ 128 * H <= T /\ H >= 8 /\ 64 * H <= U32Max + 1 /\ U32Max \in Nat
    BY Widths
  <2> HIDE DEF H, T
  <2>2. QED
    BY <2>1
<1>4. /\ t = [d |-> d, previous_d |-> c, current_v |-> <<x, y>>, answer |-> None]
      /\ t.d = d /\ t.previous_d = c /\ t.current_v = <<x, y>> /\ t.answer = None
  BY DEF Between
<1> HIDE DEF t
<1>5. PICK g0 \in Nat, h0 \in Nat \ {0} : num = <<g0, h0>> /\ g0 <= max * h0 /\ n \in 0..max
  BY <1>2, StillInRange, NumeratorIs
<1>6. ~Less(Whole(max), num)
  <2>1. Less(Whole(max), num) <=> max * h0 < g0 * 1
    BY <1>5 DEF Less, Whole
  <2> HIDE DEF num
  <2>2. max * h0 \in Int
    BY <1>1
  <2>3. QED
    BY <1>5, <2>1, <2>2
<1>7. Turn(v, max, t) = IF done THEN [t EXCEPT !.answer = Converted(n, d)] ELSE next
  BY <1>4, <1>6, Zenon DEF Turn, TurnWith, Floor
<1>8. num = Whole(n) \/ x = 0 => Settled(v, n, d)
  <2>1. CASE b <= H
    <3>1. num = Whole(n) \/ x = 0 => n * b = d * a
      BY <2>1, ExactEnds
    <3> HIDE DEF n, num
    <3>2. QED
      BY <2>1, <3>1 DEF Settled
  <2>2. CASE H < b
    BY <2>2, CoarseEnds
  <2> HIDE DEF n, num, b, H
  <2>3. QED
    BY <1>1, <1>3, <2>1, <2>2
<1>9. CASE done /\ Settled(v, n, d)
  <2> DEFINE answer == Converted(n, d)
  <2>1. Turn(v, max, t) = [t EXCEPT !.answer = answer]
    BY <1>7, <1>9
  <2> HIDE DEF answer
  <2>2. Turn(v, max, t) = Between(d, c, x, y, answer)
    BY <1>4, <2>1 DEF Between
  <2>3. QED
    BY <1>5, <1>9, <2>2 DEF answer, t
<1>10. CASE x = 0
  <2>1. inverse = <<y, 0>>
    BY <1>10 DEF AsF64, Rounded, IsFinite, WithExponent
  <2>2. done
    BY <2>1
  <2>3. QED
    BY <1>8, <1>9, <1>10, <2>2
<1>11. CASE x # 0 /\ ~(done /\ Settled(v, n, d))
  <2>1. x \in Nat \ {0} /\ x <= y
    BY <1>2, <1>11
  <2>2. PICK g, h : inverse = <<g, h>> /\ Inverts(g, h, x, y, T) /\ h <= Up(F64.range)
    BY <1>2, <2>1, InverseIs
  <2>3. g \in Nat \ {0} /\ h \in Nat \ {0} /\ D = c + (g \div h) * d
    BY <2>2 DEF Inverts
  <2> DEFINE A == g \div h
             P == m + A * p
             E == c + A * d
  <2>4. /\ A \in Nat \ {0} /\ E \in Nat \ {0} /\ c + d <= E /\ m + p <= P
        /\ \E s1 \in {1, -1} : Convergent(a, b, T, E, d, g % h, h, P, p, s1)
    <3> HIDE DEF a, b, T
    <3>1. QED
      BY <1>1, <1>2, <1>3, <1>11, <2>2, ConvergentNext
  <2>5. num # Whole(n)
    <3> HIDE DEF num, n, D, inverse
    <3>1. QED
      BY <1>8, <1>11
  <2>6. M \in Nat /\ M <= U32Max
    BY LargestDenominator
  <2>7. ~done /\ E <= U32Max /\ (b <= H => E <= b) /\ (H < b => ~Small(v))
    <3>1. CASE b <= H
      <4>1. E <= b /\ a <= max
        BY <1>11, <2>2, <2>5, <3>1, ExactEnds
      <4>2. b <= M \/ M = U32Max
        BY <4>1, LargestDenominator
      <4>3. ~(D > M) /\ E <= U32Max /\ D = E
        <5> HIDE DEF b, M, H, a, D, E
        <5>1. E <= b /\ D = E
          BY <4>1, <2>3 DEF E
        <5>2. QED
          BY <1>1, <1>3, <2>4, <2>6, <3>1, <4>2, <5>1
      <4>4. ~done
        BY <2>2, <2>3, <2>5, <4>3
      <4>5. ~(H < b)
        <5> HIDE DEF b, H
        <5>1. QED
          BY <1>1, <1>3, <3>1
      <4> HIDE DEF b, H, E, done
      <4>6. QED
        BY <4>1, <4>3, <4>4, <4>5
    <3>2. CASE H < b
      <4>1. M = U32Max
        BY <3>2, CoarseParts
      <4>2. IF E > U32Max THEN Settled(v, n, d) ELSE ~Small(v)
        BY <1>11, <2>2, <3>2, CoarseEnds
      <4>3. ~(E > U32Max)
        <5>1. E > U32Max => done
          BY <2>3, <4>1
        <5> HIDE DEF E, done, n
        <5>2. QED
          BY <1>11, <4>2, <5>1
      <4>4. ~Small(v)
        <5> HIDE DEF E, n
        <5>1. QED
          BY <4>2, <4>3
      <4>5. ~done
        BY <2>2, <2>3, <2>5, <4>1, <4>3
      <4>6. ~(b <= H)
        <5> HIDE DEF b, H
        <5>1. QED
          BY <1>1, <1>3, <3>2
      <4> HIDE DEF b, H, E, done
      <4>7. QED
        BY <1>3, <2>4, <4>3, <4>4, <4>5, <4>6
    <3> HIDE DEF b, H, E, done
    <3>3. QED
      BY <1>1, <1>3, <3>1, <3>2
  <2>8. Turn(v, max, t) = next
    <3> HIDE DEF done, next
    <3>1. QED
      BY <1>7, <2>7
  <2>9. next = Between(E, d, g % h, h, None)
    <3>1. D = E /\ <<inverse[1] % inverse[2], inverse[2]>> = <<g % h, h>>
      BY <2>2, <2>3
    <3> DEFINE r == <<inverse[1] % inverse[2], inverse[2]>>
    <3>2. next = [t EXCEPT !.d = D, !.previous_d = d, !.current_v = r]
      OBVIOUS
    <3> HIDE DEF D, r, E, next
    <3>3. next = [d |-> D, previous_d |-> d, current_v |-> r, answer |-> None]
      BY <1>4, <3>2
    <3>4. QED
      BY <3>1, <3>3 DEF r, Between
  <2>10. PICK s1 : Convergent(a, b, T, E, d, g % h, h, P, p, s1)
    BY <2>4
  <2>11. Running(v, E, d, g % h, h, P, p, s1)
    <3> HIDE DEF E, P, done
    <3>1. d # 0
      BY <1>2
    <3>2. QED
      BY <2>2, <2>7, <2>10, <3>1 DEF Running
  <2> HIDE DEF next, E, P
  <2>12. QED
    BY <2>4, <2>8, <2>9, <2>11 DEF t
<1> HIDE DEF done, n
<1>12. QED
  BY <1>9, <1>10, <1>11

(* Before the first turn. *)
FirstTurn(v) ==
  [d |-> 1, previous_d |-> 0, current_v |-> <<v[1] % v[2], v[2]>>, answer |-> None]

(* The turns are a function: of the lengths they are none for, the least      *)
(* would extend the turns of one length less.                                *)
TurnsOf(f, v, max, n) ==
  f = [i \in 0..n |-> IF i = 0 THEN FirstTurn(v) ELSE Turn(v, max, f[i - 1])]

(* There are turns of every number. *)
LEMMA TurnsExist ==
  ASSUME NEW v, NEW max
  PROVE  \A n \in Nat : \E f : TurnsOf(f, v, max, n)
<1> DEFINE Has(n) == \E f : TurnsOf(f, v, max, n)
           Lacking == {n \in Nat : ~Has(n)}
<1>1. Has(0)
  <2> DEFINE g == [i \in 0..0 |-> FirstTurn(v)]
  <2>1. g = [i \in 0..0 |-> IF i = 0 THEN FirstTurn(v) ELSE Turn(v, max, g[i - 1])]
    OBVIOUS
  <2>2. QED
    BY <2>1 DEF TurnsOf
<1>2. ASSUME NEW n \in Nat \ {0}, NEW f, TurnsOf(f, v, max, n - 1)
      PROVE  Has(n)
  <2> DEFINE next == Turn(v, max, f[n - 1])
             g == [i \in 0..n |-> IF i = n THEN next ELSE f[i]]
  <2> HIDE DEF next
  <2>1. DOMAIN g = 0..n /\ g = [i \in DOMAIN g |-> g[i]]
    OBVIOUS
  <2>2. \A i \in 0..n : g[i] = IF i = n THEN next ELSE f[i]
    OBVIOUS
  <2>3. \A i \in 0..(n - 1) : f[i] = IF i = 0 THEN FirstTurn(v) ELSE Turn(v, max, f[i - 1])
    BY <1>2 DEF TurnsOf
  <2> HIDE DEF g
  <2>4. ASSUME NEW i \in 0..n
        PROVE  g[i] = IF i = 0 THEN FirstTurn(v) ELSE Turn(v, max, g[i - 1])
    <3>1. i # 0 => i - 1 \in 0..n /\ i - 1 # n
      OBVIOUS
    <3>2. i # 0 => g[i - 1] = f[i - 1]
      BY <2>2, <3>1
    <3>3. CASE i = n
      <4>1. i # 0 /\ g[i] = next /\ g[i - 1] = f[n - 1]
        BY <2>2, <3>2, <3>3
      <4>2. QED
        BY <4>1, Zenon DEF next
    <3>4. CASE i # n
      <4>1. i \in 0..(n - 1)
        BY <3>4
      <4>2. g[i] = f[i] /\ f[i] = IF i = 0 THEN FirstTurn(v) ELSE Turn(v, max, f[i - 1])
        BY <2>2, <2>3, <3>4, <4>1
      <4>3. QED
        BY <3>2, <4>2, Zenon
    <3>5. QED
      BY <3>3, <3>4
  <2>5. g = [i \in 0..n |-> IF i = 0 THEN FirstTurn(v) ELSE Turn(v, max, g[i - 1])]
    BY <2>1, <2>4
  <2>6. QED
    BY <2>5 DEF TurnsOf
<1>3. SUFFICES ASSUME Lacking # {} PROVE FALSE
  OBVIOUS
<1> HIDE DEF Has
<1>4. PICK n \in Lacking : \A j \in Lacking : n <= j
  BY <1>3, LeastExists
<1>5. n # 0 /\ Has(n - 1)
  <2>1. n # 0
    BY <1>1, <1>4
  <2>2. n - 1 \in Nat /\ n - 1 \notin Lacking
    BY <1>4, <2>1
  <2>3. QED
    BY <2>1, <2>2
<1>6. Has(n)
  <2>1. PICK f : TurnsOf(f, v, max, n - 1)
    BY <1>5 DEF Has
  <2>2. QED
    BY <1>2, <1>4, <1>5, <2>1
<1>7. QED
  BY <1>4, <1>6

(* Fibonacci's pairs are a function.                                         *)
PairsTo(f, n) == f = [i \in 0..n |-> IF i = 0 THEN <<0, 1>> ELSE NextPair(f[i - 1])]

(* There is such a function of every length.                                 *)
LEMMA FibonacciExists == \A n \in Nat : \E f : PairsTo(f, n)
<1> DEFINE Has(n) == \E f : PairsTo(f, n)
           Lacking == {n \in Nat : ~Has(n)}
<1>1. Has(0)
  <2> DEFINE g == [i \in 0..0 |-> <<0, 1>>]
  <2>1. g = [i \in 0..0 |-> IF i = 0 THEN <<0, 1>> ELSE NextPair(g[i - 1])]
    OBVIOUS
  <2>2. QED
    BY <2>1 DEF PairsTo
<1>2. ASSUME NEW n \in Nat \ {0}, NEW f, PairsTo(f, n - 1)
      PROVE  Has(n)
  <2> DEFINE next == NextPair(f[n - 1])
             g == [i \in 0..n |-> IF i = n THEN next ELSE f[i]]
  <2> HIDE DEF next
  <2>1. DOMAIN g = 0..n /\ g = [i \in DOMAIN g |-> g[i]]
    OBVIOUS
  <2>2. \A i \in 0..n : g[i] = IF i = n THEN next ELSE f[i]
    OBVIOUS
  <2>3. \A i \in 0..(n - 1) : f[i] = IF i = 0 THEN <<0, 1>> ELSE NextPair(f[i - 1])
    BY <1>2 DEF PairsTo
  <2> HIDE DEF g
  <2>4. ASSUME NEW i \in 0..n
        PROVE  g[i] = IF i = 0 THEN <<0, 1>> ELSE NextPair(g[i - 1])
    <3>1. i # 0 => i - 1 \in 0..n /\ i - 1 # n
      OBVIOUS
    <3>2. i # 0 => g[i - 1] = f[i - 1]
      BY <2>2, <3>1
    <3>3. CASE i = n
      <4>1. i # 0 /\ g[i] = next /\ g[i - 1] = f[n - 1]
        BY <2>2, <3>2, <3>3
      <4>2. QED
        BY <4>1, Zenon DEF next
    <3>4. CASE i # n
      <4>1. i \in 0..(n - 1)
        BY <3>4
      <4>2. g[i] = f[i] /\ f[i] = IF i = 0 THEN <<0, 1>> ELSE NextPair(f[i - 1])
        BY <2>2, <2>3, <3>4, <4>1
      <4>3. QED
        BY <3>2, <4>2, Zenon
    <3>5. QED
      BY <3>3, <3>4
  <2>5. g = [i \in 0..n |-> IF i = 0 THEN <<0, 1>> ELSE NextPair(g[i - 1])]
    BY <2>1, <2>4
  <2>6. QED
    BY <2>5 DEF PairsTo
<1>3. SUFFICES ASSUME Lacking # {} PROVE FALSE
  OBVIOUS
<1> HIDE DEF Has
<1>4. PICK n \in Lacking : \A j \in Lacking : n <= j
  BY <1>3, LeastExists
<1>5. n # 0 /\ Has(n - 1)
  <2>1. n # 0
    BY <1>1, <1>4
  <2>2. n - 1 \in Nat /\ n - 1 \notin Lacking
    BY <1>4, <2>1
  <2>3. QED
    BY <2>1, <2>2
<1>6. Has(n)
  <2>1. PICK f : PairsTo(f, n - 1)
    BY <1>5 DEF Has
  <2>2. QED
    BY <1>2, <1>4, <1>5, <2>1
<1>7. QED
  BY <1>4, <1>6

(* What Fibonacci's pairs are: they begin so, and go on so.                  *)
LEMMA FibonacciSteps ==
  /\ fibonacci[0] = <<0, 1>>
  /\ \A i \in 1..MAX_ITER : fibonacci[i] = NextPair(fibonacci[i - 1])
<1>1. MAX_ITER \in Nat
  BY WidthsAssumption
<1>2. PairsTo(fibonacci, MAX_ITER)
  <2>1. fibonacci = CHOOSE f : PairsTo(f, MAX_ITER)
    BY DEF fibonacci, PairsTo
  <2>2. \E f : PairsTo(f, MAX_ITER)
    BY <1>1, FibonacciExists
  <2>3. QED
    BY <2>1, <2>2
<1>3. \A i \in 0..MAX_ITER :
        fibonacci[i] = IF i = 0 THEN <<0, 1>> ELSE NextPair(fibonacci[i - 1])
  BY <1>2 DEF PairsTo
<1>4. 0 \in 0..MAX_ITER /\ \A i \in 1..MAX_ITER : i \in 0..MAX_ITER /\ i # 0
  BY <1>1
<1>5. QED
  BY <1>3, <1>4, Zenon

(* They are natural numbers, the second not the smaller.                     *)
LEMMA FibonacciGrows ==
  \A i \in 0..MAX_ITER :
    /\ fibonacci[i] \in Nat \X Nat
    /\ fibonacci[i][1] <= fibonacci[i][2]
<1> DEFINE Good(i) == fibonacci[i] \in Nat \X Nat /\ fibonacci[i][1] <= fibonacci[i][2]
           Bad == {i \in 0..MAX_ITER : ~Good(i)}
<1>1. MAX_ITER \in Nat
  BY WidthsAssumption
<1>2. Good(0)
  BY FibonacciSteps
<1>3. ASSUME NEW i \in 1..MAX_ITER, Good(i - 1) PROVE Good(i)
  <2>1. fibonacci[i] = NextPair(fibonacci[i - 1])
    BY FibonacciSteps
  <2> DEFINE p == fibonacci[i - 1]
  <2>2. p \in Nat \X Nat /\ p[1] <= p[2]
    BY <1>3
  <2> HIDE DEF p
  <2>3. NextPair(p) \in Nat \X Nat /\ NextPair(p)[1] <= NextPair(p)[2]
    BY <2>2 DEF NextPair
  <2>4. QED
    BY <2>1, <2>3 DEF p
<1> HIDE DEF Good
<1>4. ASSUME Bad # {} PROVE FALSE
  <2>1. Bad \in SUBSET Nat
    BY <1>1
  <2> HIDE DEF Bad
  <2>2. PICK i \in Bad : \A j \in Bad : i <= j
    BY <1>4, <2>1, LeastExists
  <2> USE DEF Bad
  <2>3. i \in 0..MAX_ITER /\ i # 0 /\ ~Good(i)
    BY <1>2, <2>2
  <2>4. i \in 1..MAX_ITER /\ i - 1 \in 0..MAX_ITER /\ i - 1 \notin Bad
    BY <1>1, <2>2, <2>3
  <2>5. QED
    BY <1>3, <2>3, <2>4
<1>5. \A i \in 0..MAX_ITER : Good(i)
  BY <1>4
<1>6. QED
  BY <1>5 DEF Good

(* An answer of the search.                                                  *)
Found(v, max, answer) ==
  \E n \in 0..max, d \in 1..U32Max : answer = Converted(n, d) /\ Settled(v, n, d)

(* After i turns: the search runs on, with fractions as large as Fibonacci's   *)
(* numbers; or it has found its answer.                                      *)
TurnGood(v, max, t, i) ==
  IF t.answer = None
  THEN \E d, c, x, y, p, m, s :
         /\ t = Between(d, c, x, y, None)
         /\ Running(v, d, c, x, y, p, m, s)
         /\ fibonacci[i][1] <= d /\ fibonacci[i][2] <= c + d
         /\ fibonacci[i][1] <= p /\ fibonacci[i][2] <= p + m
  ELSE Found(v, max, t.answer)

(* A found answer is not the lack of one.                                    *)
LEMMA FoundIsSome ==
  ASSUME NEW n \in Nat, NEW d \in Nat
  PROVE  Converted(n, d) # None /\ Converted(n, d).ok
<1>1. Converted(n, d) \in [ok : {TRUE}, numerator : Nat, denominator : Nat]
  BY DEF Converted
<1>2. QED
  BY <1>1, NoneAssumption DEF Converted

(* Before the first turn ...                                                 *)
LEMMA FirstTurnGood ==
  ASSUME NEW v, NEW max, Asked(v, max)
  PROVE  TurnGood(v, max, FirstTurn(v), 0)
<1> DEFINE a == v[1]
           b == v[2]
           r == a % b
           q == a \div b
           t == FirstTurn(v)
<1>1. a \in Nat \ {0} /\ b \in Nat \ {0} /\ b <= Up(F64.range) /\ U32Max \in Nat \ {0}
  BY AskedParts, Widths
<1>2. Hi(F64) \in Nat \ {0}
  <2>1. Hi(F64) \in Nat /\ U32Max < Hi(F64)
    BY Widths
  <2> DEFINE T == Hi(F64)
  <2> HIDE DEF T
  <2>2. T \in Nat \ {0}
    BY <1>1, <2>1 DEF T
  <2>3. QED
    BY <2>2 DEF T
<1>3. q \in Nat
  BY <1>1, Division
<1>4. Convergent(a, b, Hi(F64), 1, 0, r, b, q, 1, -1)
  <2> HIDE DEF a, b
  <2>1. QED
    BY <1>1, <1>2, ConvergentFirst
<1>5. Running(v, 1, 0, r, b, q, 1, -1)
  <2>1. b <= Hi(F32) => 1 <= b
    <3> HIDE DEF b
    <3>1. QED
      BY <1>1
  <2>2. 1 <= U32Max /\ ~(0 >= 1)
    BY <1>1
  <2>3. QED
    BY <1>1, <1>4, <2>1, <2>2 DEF Running
<1>6. t = Between(1, 0, r, b, None) /\ t.answer = None
  BY DEF FirstTurn, Between
<1>7. fibonacci[0][1] = 0 /\ fibonacci[0][2] = 1
  BY FibonacciSteps
<1> HIDE DEF t, q, r, b
<1>8. /\ fibonacci[0][1] <= 1 /\ fibonacci[0][2] <= 0 + 1
      /\ fibonacci[0][1] <= q /\ fibonacci[0][2] <= q + 1
  BY <1>3, <1>7
<1>9. \E d, c, x, y, p, m, s :
         /\ t = Between(d, c, x, y, None)
         /\ Running(v, d, c, x, y, p, m, s)
         /\ fibonacci[0][1] <= d /\ fibonacci[0][2] <= c + d
         /\ fibonacci[0][1] <= p /\ fibonacci[0][2] <= p + m
  BY <1>5, <1>6, <1>8
<1>10. QED
  BY <1>6, <1>9 DEF TurnGood, t

(* ... and after each.                                                       *)
LEMMA TurnGoodNext ==
  ASSUME NEW v, NEW max, Asked(v, max), NEW i \in 1..MAX_ITER, NEW t, TurnGood(v, max, t, i - 1)
  PROVE  TurnGood(v, max, Turn(v, max, t), i)
<1>1. CASE t.answer # None
  <2>1. Turn(v, max, t) = t
    BY <1>1 DEF Turn, TurnWith, Floor
  <2>2. QED
    BY <1>1, <2>1 DEF TurnGood
<1>2. CASE t.answer = None
  <2> DEFINE u == fibonacci[i - 1][1]
             w == fibonacci[i - 1][2]
  <2>1. PICK d, c, x, y, p, m, s :
          /\ t = Between(d, c, x, y, None)
          /\ Running(v, d, c, x, y, p, m, s)
          /\ u <= d /\ w <= c + d /\ u <= p /\ w <= p + m
    BY <1>2 DEF TurnGood
  <2>2. /\ d \in Nat \ {0} /\ d <= U32Max /\ c \in Nat /\ p \in Nat /\ m \in Nat
        /\ U32Max \in Nat /\ max \in Nat
    BY <2>1, RunningTypes, AskedParts, Widths
  <2> DEFINE next == Turn(v, max, t)
  <2>3. \/ \E n \in 0..max :
             /\ next = Between(d, c, x, y, Converted(n, d))
             /\ Settled(v, n, d)
        \/ \E D, k, h, P, s1 :
             /\ next = Between(D, d, k, h, None)
             /\ Running(v, D, d, k, h, P, p, s1) /\ c + d <= D /\ m + p <= P
    BY <2>1, TurnRuns
  <2> HIDE DEF next
  <2>4. ASSUME NEW n \in 0..max, Settled(v, n, d),
               next = Between(d, c, x, y, Converted(n, d))
        PROVE  TurnGood(v, max, next, i)
    <3>1. n \in Nat /\ d \in Nat /\ d \in 1..U32Max
      BY <2>2
    <3> DEFINE answer == Converted(n, d)
    <3>2. answer # None
      BY <3>1, FoundIsSome
    <3>3. next.answer = answer
      BY <2>4 DEF Between
    <3>4. Found(v, max, answer)
      BY <2>4, <3>1 DEF Found
    <3> HIDE DEF answer
    <3>5. QED
      BY <3>2, <3>3, <3>4 DEF TurnGood
  <2>5. ASSUME NEW D, NEW k, NEW h, NEW P, NEW s1,
               next = Between(D, d, k, h, None),
               Running(v, D, d, k, h, P, p, s1), c + d <= D, m + p <= P
        PROVE  TurnGood(v, max, next, i)
    <3>1. D \in Nat /\ P \in Nat
      BY <2>5, RunningTypes
    <3>2. fibonacci[i][1] = w /\ fibonacci[i][2] = u + w /\ u \in Nat /\ w \in Nat
      <4>1. MAX_ITER \in Nat
        BY WidthFacts
      <4>2. i - 1 \in 0..MAX_ITER
        BY <4>1
      <4>3. fibonacci[i] = NextPair(fibonacci[i - 1]) /\ fibonacci[i - 1] \in Nat \X Nat
        BY <4>2, FibonacciSteps, FibonacciGrows
      <4>4. QED
        BY <4>3 DEF NextPair
    <3> HIDE DEF u, w
    <3>3. w <= D /\ u + w <= d + D /\ w <= P /\ u + w <= P + p
      BY <2>1, <2>2, <2>5, <3>1, <3>2
    <3>4. next.answer = None
      BY <2>5 DEF Between
    <3>5. /\ fibonacci[i][1] <= D /\ fibonacci[i][2] <= d + D
          /\ fibonacci[i][1] <= P /\ fibonacci[i][2] <= P + p
      BY <3>2, <3>3
    <3>6. QED
      BY <2>5, <3>4, <3>5 DEF TurnGood
  <2>6. QED
    BY <2>3, <2>4, <2>5 DEF next
<1>3. QED
  BY <1>1, <1>2

(* When the turns are used up, the fraction is near, too.                     *)
LEMMA LastIsNear ==
  ASSUME NEW v, NEW max, Asked(v, max), NEW t, TurnGood(v, max, t, MAX_ITER), t.answer = None
  PROVE  Found(v, max, Converted(Round(AsF64(<<t.d * v[1], v[2]>>)), t.d))
<1> DEFINE a == v[1]
           b == v[2]
           H == Hi(F32)
           T == Hi(F64)
           u == fibonacci[MAX_ITER][1]
<1>1. PICK d, c, x, y, p, m, s :
        /\ t = Between(d, c, x, y, None)
        /\ Running(v, d, c, x, y, p, m, s) /\ u <= d /\ u <= p
  BY DEF TurnGood
<1> DEFINE n == Round(AsF64(<<d * a, b>>))
<1>2. /\ a \in Nat \ {0} /\ b \in Nat \ {0}
  BY AskedParts
<1>3. /\ d \in Nat \ {0} /\ d <= U32Max /\ c \in Nat /\ p \in Nat /\ U32Max \in Nat
      /\ Convergent(a, b, T, d, c, x, y, p, m, s)
      /\ c = 0 => d = 1
      /\ b <= H => d <= b
      /\ c >= 1 /\ H < b => ~Small(v)
  BY <1>1, RunningTypes, Widths DEF Running
<1>4. H \in Nat \ {0} /\ 8 <= H /\ T \in Nat \ {0} /\ T >= 128 /\ 16 * (H * H) <= T /\ H < u
      /\ u \in Nat
  <2>1. H \in Nat /\ H >= 8 /\ T \in Nat /\ 128 * H <= T /\ 16 * (H * H) <= T /\ H < u
    BY Widths
  <2>2. u \in Nat
    <3>1. MAX_ITER \in 0..MAX_ITER
      BY WidthFacts
    <3>2. QED
      BY <3>1, FibonacciGrows
  <2> HIDE DEF H, T, u
  <2>3. QED
    BY <2>1, <2>2
<1>5. /\ n \in 0..max /\ n \in Nat
      /\ Magnitude(n * b - d * a) * T <= Magnitude(p * b - d * a) * T + 2 * (a * d)
  BY <1>1, NumeratorMisses
<1>6. c >= 1 /\ H < d /\ H < p /\ H < b /\ ~(b <= H)
  <2> HIDE DEF a, b, H, T, u, n
  <2>1. H < d /\ H < p
    BY <1>1, <1>3, <1>4
  <2>2. c >= 1
    BY <1>3, <1>4, <2>1
  <2>3. ~(b <= H)
    BY <1>2, <1>3, <1>4, <2>1
  <2>4. QED
    BY <1>2, <1>4, <2>1, <2>2, <2>3
<1>7. IsNear(a, b, H, n, d)
  <2> HIDE DEF a, b, H, T, n, u
  <2>1. QED
    BY <1>2, <1>3, <1>4, <1>5, <1>6, NearIfLast
<1>8. Settled(v, n, d)
  <2> HIDE DEF n
  <2>1. QED
    BY <1>3, <1>6, <1>7 DEF Settled
<1>9. d \in 1..U32Max /\ t.d = d
  BY <1>1, <1>3 DEF Between
<1>10. QED
  BY <1>5, <1>8, <1>9 DEF Found

(* The search has an answer.                                                 *)
LEMMA ConversionFound ==
  ASSUME NEW v, NEW max, Asked(v, max)
  PROVE  Found(v, max, float_to_unsigned_fraction(v, max))
<1> DEFINE f == CHOOSE f : TurnsOf(f, v, max, MAX_ITER)
           last == f[MAX_ITER]
           end == Converted(Round(AsF64(<<last.d * v[1], v[2]>>)), last.d)
           a == v[1]
           b == v[2]
<1>1. /\ a \in Nat \ {0} /\ b \in Nat \ {0} /\ v = <<a, b>> /\ max \in Nat \ {0}
      /\ a <= max * b /\ MAX_ITER \in Nat
  BY AskedParts, WidthFacts
<1>2. TurnsOf(f, v, max, MAX_ITER)
  BY <1>1, TurnsExist
<1>3. float_to_unsigned_fraction(v, max) =
        IF v = NaN \/ Less(Whole(max), v) THEN Failed
        ELSE IF last.answer # None THEN last.answer ELSE end
  BY DEF float_to_unsigned_fraction, TurnsOf, FirstTurn, Outcome
<1> HIDE DEF f
<1>4. v # NaN /\ ~Less(Whole(max), v)
  <2>1. Less(Whole(max), v) <=> max * b < a * 1
    BY DEF Less, Whole
  <2>2. v # NaN
    BY <1>1 DEF NaN
  <2> HIDE DEF a, b
  <2>3. QED
    BY <1>1, <2>1, <2>2
<1>5. \A i \in 0..MAX_ITER : f[i] = IF i = 0 THEN FirstTurn(v) ELSE Turn(v, max, f[i - 1])
  BY <1>2 DEF TurnsOf
<1> DEFINE Bad == {i \in 0..MAX_ITER : ~TurnGood(v, max, f[i], i)}
<1>6. ASSUME Bad # {} PROVE FALSE
  <2>1. Bad \in SUBSET Nat
    BY <1>1
  <2> HIDE DEF Bad
  <2>2. PICK i \in Bad : \A j \in Bad : i <= j
    BY <1>6, <2>1, LeastExists
  <2> USE DEF Bad
  <2>3. i \in 0..MAX_ITER /\ ~TurnGood(v, max, f[i], i)
    BY <2>2
  <2>4. i # 0
    BY <1>5, <2>3, FirstTurnGood
  <2>5. i \in 1..MAX_ITER /\ i - 1 \in 0..MAX_ITER /\ i - 1 \notin Bad
    BY <1>1, <2>2, <2>3, <2>4
  <2>6. TurnGood(v, max, f[i - 1], i - 1)
    BY <2>5
  <2>7. TurnGood(v, max, Turn(v, max, f[i - 1]), i)
    BY <2>5, <2>6, TurnGoodNext
  <2>8. f[i] = Turn(v, max, f[i - 1])
    BY <1>5, <2>3, <2>4
  <2>9. QED
    BY <2>3, <2>7, <2>8, Zenon
<1>7. TurnGood(v, max, last, MAX_ITER)
  <2>1. MAX_ITER \in 0..MAX_ITER
    BY <1>1
  <2>2. QED
    BY <1>6, <2>1
<1> HIDE DEF last
<1>8. CASE last.answer # None
  BY <1>3, <1>4, <1>7, <1>8 DEF TurnGood
<1>9. CASE last.answer = None
  <2>1. Found(v, max, end)
    BY <1>7, <1>9, LastIsNear
  <2>2. QED
    BY <1>3, <1>4, <1>9, <2>1
<1>10. QED
  BY <1>8, <1>9

-----------------------------------------------------------------------------
(* GainMapFractions: what is read back                                      *)

(* A fraction near a value, rounded, is near it, too.                         *)
LEMMA NearRounded ==
  ASSUME NEW a \in Nat \ {0}, NEW b \in Nat \ {0}, NEW n \in Nat, NEW d \in Nat \ {0},
         NEW g \in Nat, NEW h \in Nat \ {0}, NEW H \in Nat \ {0}, NEW T \in Nat \ {0},
         H >= 8, 128 * H <= T, IsNear(a, b, H, n, d), Magnitude(g * d - h * n) * T <= h * n
  PROVE  4 * (H * Magnitude(g * b - h * a)) <= h * a
<1> DEFINE e1 == Magnitude(g * d - h * n)
           e2 == Magnitude(n * b - d * a)
           e3 == Magnitude(g * b - h * a)
           i == g * d - h * n
           j == n * b - d * a
           k == g * b - h * a
<1>1. i \in Int /\ j \in Int /\ k \in Int
  OBVIOUS
<1>2. e1 \in Nat /\ e2 \in Nat /\ e3 \in Nat
  <2> HIDE DEF i, j, k
  <2>1. Magnitude(i) \in Nat /\ Magnitude(j) \in Nat /\ Magnitude(k) \in Nat
    BY <1>1, Magnitudes
  <2>2. QED
    BY <2>1 DEF i, j, k
<1>3. e3 * d <= e1 * b + e2 * h
  <2>1. k * d = i * b + j * h
    <3>1. (g * b - h * a) * d = (g * d - h * n) * b + (n * b - d * a) * h
      <4>1. (g * b - h * a) * d = (g * b) * d - (h * a) * d
        OBVIOUS
      <4>2. (g * d - h * n) * b = (g * d) * b - (h * n) * b
        OBVIOUS
      <4>3. (n * b - d * a) * h = (n * b) * h - (d * a) * h
        OBVIOUS
      <4>4. (g * b) * d = (g * d) * b /\ (h * a) * d = (d * a) * h /\ (h * n) * b = (n * b) * h
        OBVIOUS
      <4>5. (g * d) * b \in Int /\ (d * a) * h \in Int /\ (n * b) * h \in Int
        OBVIOUS
      <4>6. QED
        BY <4>1, <4>2, <4>3, <4>4, <4>5
    <3>2. QED
      BY <3>1
  <2> HIDE DEF i, j, k
  <2>2. /\ Magnitude(k * d) = Magnitude(k) * d /\ Magnitude(i * b) = Magnitude(i) * b
        /\ Magnitude(j * h) = Magnitude(j) * h
    BY <1>1, Magnitudes
  <2>3. i * b \in Int /\ j * h \in Int
    BY <1>1
  <2>4. Magnitude(i * b + j * h) <= Magnitude(i * b) + Magnitude(j * h)
    BY <2>3, Magnitudes
  <2>5. Magnitude(k) * d <= Magnitude(i) * b + Magnitude(j) * h
    BY <2>1, <2>2, <2>4
  <2>6. QED
    BY <2>5 DEF i, j, k
<1>4. e1 * T <= h * n /\ 5 * (H * e2) <= a * d
  BY DEF IsNear
<1>5. n * b <= a * d + e2
  <2> HIDE DEF j
  <2>1. j <= Magnitude(j)
    BY <1>1, Magnitudes
  <2> DEFINE l == n * b
             m == d * a
  <2>2. l \in Int /\ m \in Int /\ j = l - m /\ m = a * d /\ e2 = Magnitude(j)
    BY DEF j
  <2> HIDE DEF l, m, e2
  <2>3. l <= m + e2
    BY <1>1, <1>2, <2>1, <2>2
  <2>4. QED
    BY <2>2, <2>3 DEF l
<1> HIDE DEF e1, e2, e3, i, j, k
<1> DEFINE y == (h * a) * d
           u == (H * e1) * b
           w == (H * e2) * h
           z == (H * e3) * d
<1>6. y \in Nat /\ u \in Nat /\ w \in Nat /\ z \in Nat
  BY <1>2
<1>7. z <= u + w
  <2>1. z = H * (e3 * d) /\ u = H * (e1 * b) /\ w = H * (e2 * h)
    BY <1>2
  <2> DEFINE p == e3 * d
             q == e1 * b
             r == e2 * h
  <2>2. p \in Int /\ q \in Int /\ r \in Int /\ p <= q + r
    BY <1>2, <1>3
  <2> HIDE DEF p, q, r
  <2>3. H * p <= H * (q + r) /\ H * (q + r) = H * q + H * r
    BY <2>2
  <2>4. H * p \in Int /\ H * q \in Int /\ H * r \in Int
    BY <2>2
  <2> HIDE DEF z, u, w
  <2>5. QED
    BY <2>1, <2>3, <2>4 DEF p, q, r
<1>8. 5 * w <= y
  <2> DEFINE p == H * e2
             q == a * d
  <2>1. p \in Int /\ q \in Int /\ 5 * p <= q
    BY <1>2, <1>4
  <2>2. w = p * h /\ y = q * h
    OBVIOUS
  <2> HIDE DEF p, q
  <2>3. (5 * p) * h <= q * h /\ (5 * p) * h = 5 * (p * h)
    BY <2>1
  <2>4. QED
    BY <2>2, <2>3
<1>9. 40 * e2 <= a * d
  <2> DEFINE q == a * d
             p == H * e2
  <2>1. 8 * e2 <= p /\ p \in Int /\ q \in Int /\ 5 * p <= q
    BY <1>2, <1>4
  <2> HIDE DEF p, q
  <2>2. QED
    BY <1>2, <2>1 DEF q
<1>10. 40 * (n * b) <= 41 * (a * d)
  <2> DEFINE p == n * b
             q == a * d
  <2>1. p \in Int /\ q \in Int /\ p <= q + e2 /\ 40 * e2 <= q
    BY <1>5, <1>9
  <2> HIDE DEF p, q
  <2>2. QED
    BY <1>2, <2>1 DEF p, q
<1>11. 128 * (H * e1) <= h * n
  <2>1. (128 * H) * e1 <= T * e1 /\ (128 * H) * e1 = 128 * (H * e1) /\ T * e1 = e1 * T
    BY <1>2
  <2>2. H * e1 \in Int /\ e1 * T \in Int /\ h * n \in Int
    BY <1>2
  <2>3. QED
    BY <1>4, <2>1, <2>2
<1>12. 5120 * u <= 41 * y
  <2> DEFINE p == H * e1
             q == h * n
             r == n * b
             s == a * d
  <2>1. p \in Int /\ q \in Int /\ r \in Int /\ s \in Int /\ 128 * p <= q /\ 40 * r <= 41 * s
    BY <1>2, <1>10, <1>11
  <2>2. u = p * b /\ q * b = h * r /\ y = h * s
    BY <1>2
  <2> HIDE DEF p, q, r, s, u, y
  <2>3. (128 * p) * b <= q * b /\ (128 * p) * b = 128 * (p * b)
    BY <2>1
  <2>4. h * (40 * r) <= h * (41 * s) /\ h * (40 * r) = 40 * (h * r) /\ h * (41 * s) = 41 * (h * s)
    BY <2>1
  <2>5. p * b \in Int /\ q * b \in Int /\ h * r \in Int /\ h * s \in Int
    BY <2>1
  <2>6. QED
    BY <2>2, <2>3, <2>4, <2>5
<1>13. 4 * z <= y
  <2> HIDE DEF z, u, w, y
  <2>1. QED
    BY <1>6, <1>7, <1>8, <1>12
<1>14. QED
  <2> DEFINE p == 4 * (H * e3)
             q == h * a
  <2>1. p \in Int /\ q \in Int
    BY <1>2
  <2>2. 4 * z = p * d /\ y = q * d
    BY <1>2
  <2> HIDE DEF p, q, z, y
  <2>3. p * d <= q * d
    BY <1>13, <2>2
  <2>4. p <= q
    BY <2>1, <2>3, Scaling
  <2>5. QED
    BY <2>4 DEF p, q, e3

(* Near a float with a mantissa, but for the smallest exponent.               *)
LEMMA AroundIt ==
  ASSUME NEW x, NEW s, NEW e, HasMantissa(x, s, e, F32),
         NEW g \in Nat \ {0}, NEW h \in Nat \ {0},
         4 * (Hi(F32) * Magnitude(g * x[2] - h * x[1])) <= h * x[1]
  PROVE  /\ 4 * (g * Down(e)) < (4 * s + 1) * (h * Up(e))
         /\ (4 * s - 1) * (h * Up(e)) < 4 * (g * Down(e))
<1> DEFINE a == x[1]
           b == x[2]
           H == Hi(F32)
           U == Up(e)
           D == Down(e)
           k == g * b - h * a
           l == Magnitude(k)
<1>1. /\ a \in Nat \ {0} /\ b \in Nat \ {0} /\ a * D = (s * U) * b
  BY MantissaParts
<1>2. H \in Nat \ {0} /\ s \in Nat /\ s < H
  BY Mantissas DEF HasMantissa
<1>3. U \in Nat \ {0} /\ D \in Nat \ {0}
  BY UpDown, Mantissas DEF HasMantissa
<1>4. k \in Int /\ 4 * (H * l) <= h * a
  BY <1>1
<1> HIDE DEF a, b, H, U, D
<1>5. l \in Nat /\ k <= l /\ -l <= k
  <2> HIDE DEF k
  <2>1. QED
    BY <1>4, Magnitudes
<1>6. g * b = k + h * a
  BY <1>1
<1> HIDE DEF k, l
<1> DEFINE y == (h * U) * b
           z == l * D
<1>7. y \in Nat \ {0} /\ z \in Nat
  BY <1>1, <1>3, <1>5
<1>8. (h * a) * D = s * y
  <2>1. (h * a) * D = h * (a * D)
    BY <1>1, <1>3
  <2>2. h * ((s * U) * b) = s * ((h * U) * b)
    BY <1>1, <1>2, <1>3
  <2>3. QED
    BY <1>1, <2>1, <2>2
<1>9. 4 * z < y
  <2>1. (4 * (H * l)) * D <= (h * a) * D
    <3> DEFINE i == 4 * (H * l)
               j == h * a
    <3>1. i \in Int /\ j \in Int /\ i <= j
      BY <1>1, <1>2, <1>4, <1>5
    <3> HIDE DEF i, j
    <3>2. i * D <= j * D
      BY <1>3, <3>1, Scaling
    <3>3. QED
      BY <3>2 DEF i, j
  <2>2. (4 * (H * l)) * D = H * (4 * z)
    BY <1>2, <1>3, <1>5
  <2>3. H * (4 * z) <= s * y
    BY <1>8, <2>1, <2>2
  <2> HIDE DEF y, z
  <2>4. CASE y <= 4 * z
    <3>1. H * y <= H * (4 * z) /\ (s + 1) * y <= H * y /\ (s + 1) * y = s * y + y
      BY <1>2, <1>7, <2>4
    <3>2. s * y \in Int /\ H * y \in Int /\ H * (4 * z) \in Int
      BY <1>2, <1>7
    <3>3. QED
      BY <1>7, <2>3, <3>1, <3>2
  <2>5. QED
    BY <1>7, <2>4
<1>10. (g * b) * D = k * D + s * y /\ k * D <= z /\ -z <= k * D /\ k * D \in Int /\ s * y \in Int
  <2>1. (k + h * a) * D = k * D + (h * a) * D
    BY <1>1, <1>3, <1>4
  <2>2. (g * b) * D = k * D + s * y
    BY <1>6, <1>8, <2>1
  <2>3. k * D <= l * D /\ (-l) * D <= k * D /\ (-l) * D = -(l * D)
    BY <1>3, <1>4, <1>5
  <2>4. QED
    BY <1>2, <1>3, <1>4, <1>7, <2>2, <2>3
<1>11. (4 * (g * D)) * b = 4 * ((g * b) * D)
  BY <1>1, <1>3
<1>12. ((4 * s + 1) * (h * U)) * b = 4 * (s * y) + y /\ ((4 * s - 1) * (h * U)) * b = 4 * (s * y) - y
  <2> DEFINE j == h * U
  <2>1. j \in Int
    BY <1>3
  <2>2. y = j * b
    OBVIOUS
  <2> HIDE DEF j, y
  <2>3. ((4 * s + 1) * j) * b = 4 * (s * (j * b)) + j * b /\ ((4 * s - 1) * j) * b = 4 * (s * (j * b)) - j * b
    BY <1>1, <1>2, <2>1
  <2>4. QED
    BY <2>2, <2>3 DEF j
<1> DEFINE i == 4 * (g * D)
           m == (4 * s + 1) * (h * U)
           n == (4 * s - 1) * (h * U)
<1>13. i \in Int /\ m \in Int /\ n \in Int
  BY <1>2, <1>3
<1> HIDE DEF y, z, i, m, n
<1>14. i * b < m * b /\ n * b < i * b
  <2>1. i * b = 4 * ((g * b) * D) /\ m * b = 4 * (s * y) + y /\ n * b = 4 * (s * y) - y
    BY <1>11, <1>12 DEF i, m, n
  <2>2. (g * b) * D \in Int
    BY <1>1, <1>3
  <2>3. QED
    BY <1>7, <1>9, <1>10, <2>1, <2>2
<1>15. i < m /\ n < i
  <2>1. ~(m * b <= i * b) /\ ~(i * b <= n * b)
    <3>1. i * b \in Int /\ m * b \in Int /\ n * b \in Int
      BY <1>1, <1>13
    <3>2. QED
      BY <1>14, <3>1
  <2>2. b \in Nat
    BY <1>1
  <2>3. ~(m <= i) /\ ~(i <= n)
    BY <1>13, <2>1, <2>2, Scaling
  <2>4. QED
    BY <1>13, <2>3
<1>16. QED
  BY <1>15 DEF i, m, n, U, D

(* A fraction near a value is no less than the smallest of a u32, so the value *)
(* is far from the end of the exponents.                                     *)
LEMMA FarFromEnd ==
  ASSUME NEW v, NEW max, Asked(v, max), NEW n \in Nat \ {0}, NEW d \in 1..U32Max,
         IsNear(v[1], v[2], Hi(F32), n, d),
         NEW s, NEW e, HasMantissa(v, s, e, F32),
         NEW g \in Nat \ {0}, NEW h \in Nat \ {0},
         4 * (g * Down(e)) < (4 * s + 1) * (h * Up(e)),
         (4 * s - 1) * (h * Up(e)) < 4 * (g * Down(e)),
         g * Down(e) < Lo(F32) * (h * Up(e))
  PROVE  e - 1 \in ExponentsOf(F32)
<1> DEFINE a == v[1]
           b == v[2]
           H == Hi(F32)
           L == Lo(F32)
           R == Up(F32.range)
<1>1. /\ a \in Nat \ {0} /\ b \in Nat \ {0} /\ a * Down(e) = (s * Up(e)) * b
  BY MantissaParts
<1>2. /\ H \in Nat \ {0} /\ H >= 8 /\ L \in Nat \ {0} /\ H = 2 * L
      /\ R \in Nat \ {0} /\ U32Max * H < R /\ U32Max \in Nat
  BY Widths, Mantissas
<1>3. /\ s \in Nat /\ L <= s /\ e \in ExponentsOf(F32)
  BY <1>2 DEF HasMantissa
<1>4. /\ Up(-F32.range) = 1 /\ Down(-F32.range) = R /\ F32.range \in Nat
  BY Mantissas, TypeParts
<1>5. CASE e = -F32.range
  <2>1. Up(e) = 1 /\ Down(e) = R
    BY <1>4, <1>5
  <2>2. /\ (4 * s - 1) * h < 4 * (g * R) /\ g * R < L * h
        /\ a * R = s * b
    BY <1>1, <1>2, <1>3, <2>1
  <2>3. s = L
    <3> DEFINE i == g * R
    <3>1. i \in Int /\ (4 * s - 1) * h < 4 * i /\ i < L * h
      BY <1>2, <2>2
    <3> HIDE DEF i
    <3>2. (4 * s - 1) * h < 4 * (L * h)
      BY <1>2, <1>3, <3>1
    <3>3. 4 * (L * h) = (4 * L) * h
      BY <1>2
    <3>4. ~(4 * L <= 4 * s - 1)
      <4>1. SUFFICES ASSUME 4 * L <= 4 * s - 1 PROVE FALSE
        OBVIOUS
      <4> DEFINE j == 4 * L
                 k == 4 * s - 1
      <4>2. j \in Int /\ k \in Int /\ j <= k
        BY <1>2, <1>3, <4>1
      <4> HIDE DEF j, k
      <4>3. j * h <= k * h
        BY <4>2, Scaling
      <4>4. j * h \in Int /\ k * h \in Int /\ k * h < j * h
        BY <3>2, <3>3, <4>2 DEF j, k
      <4>5. QED
        BY <4>3, <4>4
    <3>5. QED
      BY <1>2, <1>3, <3>4
  <2>4. 2 * (a * R) = H * b
    <3>1. H * b = 2 * (L * b)
      BY <1>1, <1>2
    <3>2. QED
      BY <1>1, <1>2, <2>2, <2>3, <3>1
  <2>5. b <= 2 * (a * U32Max)
    <3> DEFINE i == n * b - d * a
               m == Magnitude(i)
    <3>1. i \in Int /\ 5 * (H * m) <= a * d
      BY <1>1 DEF IsNear
    <3>2. m \in Nat /\ i <= m
      <4> HIDE DEF i
      <4>1. QED
        BY <3>1, Magnitudes
    <3>3. n * b = i + d * a /\ d * a = a * d /\ b <= n * b /\ n * b \in Int /\ a * d \in Int
      BY <1>1
    <3>4. a * d <= a * U32Max /\ a * U32Max \in Int
      BY <1>1, <1>2
    <3> HIDE DEF i, m
    <3>5. m <= H * m /\ H * m \in Int
      BY <1>2, <3>2
    <3>6. QED
      BY <1>1, <3>1, <3>2, <3>3, <3>4, <3>5
  <2>6. H * b <= (2 * a) * (U32Max * H)
    <3> DEFINE i == 2 * (a * U32Max)
    <3>1. i \in Int /\ b <= i
      BY <1>1, <1>2, <2>5
    <3>2. i * H = (2 * a) * (U32Max * H)
      BY <1>1, <1>2
    <3> HIDE DEF i, b
    <3>3. b * H <= i * H /\ b * H = H * b
      BY <1>1, <1>2, <3>1
    <3>4. QED
      BY <3>2, <3>3
  <2>7. (2 * a) * (U32Max * H) < (2 * a) * R
    <3> DEFINE i == 2 * a
               j == U32Max * H
    <3>1. i \in Nat \ {0} /\ j \in Int /\ j < R
      BY <1>1, <1>2
    <3> HIDE DEF i, j
    <3>2. i * j < i * R
      BY <1>2, <3>1
    <3>3. QED
      BY <3>2 DEF i, j
  <2>8. FALSE
    <3>1. (2 * a) * R = 2 * (a * R) /\ (2 * a) * R \in Int
      BY <1>1, <1>2
    <3>2. (2 * a) * (U32Max * H) \in Int
      BY <1>1, <1>2
    <3>3. QED
      BY <2>4, <2>6, <2>7, <3>1, <3>2
  <2>9. QED
    BY <2>8
<1>6. CASE e # -F32.range
  BY <1>3, <1>4, <1>6 DEF ExponentsOf
<1>7. QED
  BY <1>5, <1>6

(* What an answer of the search is read as: the value itself if its            *)
(* denominator is small, zero if it is small, and otherwise something that     *)
(* an f32 holds as the value.                                                *)
LEMMA FoundReads ==
  ASSUME NEW v, NEW max, Asked(v, max), NEW s, NEW e, HasMantissa(v, s, e, F32),
         NEW n \in 0..max, NEW d \in 1..U32Max, Settled(v, n, d)
  PROVE  LET w == AsF64(<<n, d>>)
         IN /\ IsValue(w)
            /\ v[2] <= Hi(F32) => w = v /\ AsF32(w) = v /\ ~Small(v)
            /\ Hi(F32) < v[2] =>
                 IF Small(v) THEN w = Whole(0) ELSE w # Whole(0) /\ AsF32(w) = v
<1> DEFINE a == v[1]
           b == v[2]
           w == AsF64(<<n, d>>)
<1>1. /\ v = <<a, b>> /\ a \in Nat \ {0} /\ b \in Nat \ {0} /\ max \in Nat /\ max <= U32Max
  BY AskedParts
<1>2. n \in Nat /\ d \in Nat \ {0} /\ n <= U32Max /\ d <= U32Max
  BY <1>1, Widths
<1>3. AsF32(v) = v
  BY Exact DEF AsF32
<1>4. IsValue(v)
  BY MantissaParts DEF IsValue
<1>5. CASE b <= Hi(F32)
  <2>1. n * b = a * d
    BY <1>1, <1>2, <1>5 DEF Settled
  <2>2. w = AsF64(<<a, b>>)
    BY <1>1, <1>2, <2>1, RoundedSame DEF AsF64
  <2>3. w = v
    BY <2>2, AskedHeld
  <2>4. ~Small(v)
    <3>1. SUFFICES ASSUME Small(v) PROVE FALSE
      OBVIOUS
    <3>2. a * U32Max < b
      BY <3>1, SmallIs
    <3>3. U32Max <= a * U32Max /\ a * U32Max \in Int
      BY <1>1, Widths
    <3>4. QED
      BY <1>1, <1>5, <3>2, <3>3, Widths
  <2>5. QED
    BY <1>3, <1>4, <1>1, <1>5, <2>3, <2>4, Widths
<1>6. CASE Hi(F32) < b /\ Small(v)
  <2>1. n = 0
    BY <1>1, <1>6, Widths DEF Settled
  <2>2. w = Whole(0)
    BY <1>2, <2>1, RoundedType DEF AsF64
  <2>3. QED
    BY <1>1, <1>6, <2>2, ZeroValue, Widths
<1>7. CASE Hi(F32) < b /\ ~Small(v)
  <2>1. IsNear(a, b, Hi(F32), n, d)
    BY <1>1, <1>7, Widths DEF Settled
  <2>2. n # 0
    <3>1. SUFFICES ASSUME n = 0 PROVE FALSE
      OBVIOUS
    <3> DEFINE i == d * a
               j == Magnitude(n * b - d * a)
    <3>2. i \in Nat \ {0} /\ n * b - d * a + i = 0 /\ a * d = i /\ n * b - d * a \in Int
      <4>1. n * b = 0
        BY <1>1, <3>1
      <4>2. i \in Nat \ {0} /\ a * d = i
        BY <1>1, <1>2
      <4> HIDE DEF b, i
      <4>3. 0 - d * a + d * a = 0 /\ 0 - d * a \in Int
        BY <1>1, <1>2
      <4>4. QED
        BY <4>1, <4>2, <4>3 DEF i
    <3> DEFINE k == n * b - d * a
    <3>3. j \in Nat /\ i <= j
      <4> HIDE DEF k, i
      <4>1. Magnitude(k) \in Nat /\ -Magnitude(k) <= k
        BY <3>2, Magnitudes DEF k
      <4>2. i <= Magnitude(k)
        BY <3>2, <4>1 DEF k
      <4>3. QED
        BY <4>1, <4>2 DEF k
    <3>4. 5 * (Hi(F32) * j) <= i
      BY <2>1, <3>2 DEF IsNear
    <3> HIDE DEF i, j, k
    <3>5. j <= Hi(F32) * j /\ Hi(F32) * j \in Int
      BY <3>3, Widths
    <3>6. QED
      BY <3>2, <3>3, <3>4, <3>5
  <2>3. Lo(F64) * d <= n * Up(F64.range) /\ n <= d * Up(F64.range)
    <3> DEFINE R == Up(F32.range)
               S == Up(F64.range)
               T == Hi(F64)
               H == Hi(F32)
    <3>1. /\ S = R * T /\ R \in Nat \ {0} /\ S \in Nat \ {0} /\ T \in Nat \ {0} /\ H \in Nat \ {0}
          /\ U32Max * H < R /\ U32Max \in Nat
      BY Widths, Mantissas
    <3>2. Lo(F64) \in Nat /\ Lo(F64) <= T
      BY Mantissas
    <3> HIDE DEF R, S, T, H
    <3>3. U32Max <= U32Max * H /\ U32Max * H \in Int
      BY <3>1
    <3>4. d <= R /\ n <= R
      BY <1>2, <3>1, <3>3
    <3>5. R <= S
      BY <3>1
    <3>6. Lo(F64) * d <= T * d /\ T * d <= T * R /\ T * R = S /\ S <= n * S
      BY <1>2, <2>2, <3>1, <3>2, <3>4
    <3>7. n <= S /\ S <= d * S
      BY <1>2, <3>1, <3>4, <3>5
    <3>8. Lo(F64) * d \in Int /\ T * d \in Int /\ n * S \in Int /\ d * S \in Int
      BY <1>2, <3>1, <3>2
    <3>9. Lo(F64) * d <= n * S /\ n <= d * S
      BY <1>2, <3>1, <3>6, <3>7, <3>8
    <3>10. QED
      BY <3>9 DEF S
  <2>4. PICK g \in Nat \ {0}, h \in Nat \ {0} :
          /\ w = <<g, h>> /\ IsValue(<<g, h>>)
          /\ Magnitude(g * d - h * n) * Hi(F64) <= h * n
    <3>1. n \in Nat \ {0} /\ d \in Nat \ {0} /\ F64 \in {F32, F64}
      BY <1>2, <2>2
    <3>2. \E g \in Nat \ {0}, h \in Nat \ {0} :
            /\ Rounded(<<n, d>>, F64) = <<g, h>> /\ IsValue(<<g, h>>)
            /\ h <= Up(F64.range)
            /\ Magnitude(g * d - h * n) * Hi(F64) <= h * n
      BY <2>3, <3>1, RoundedNear
    <3>3. QED
      BY <3>2 DEF AsF64
  <2>5. 4 * (Hi(F32) * Magnitude(g * b - h * a)) <= h * a
    <3>1. /\ Hi(F32) \in Nat \ {0} /\ Hi(F64) \in Nat \ {0}
          /\ Hi(F32) >= 8 /\ 128 * Hi(F32) <= Hi(F64)
      BY Widths
    <3>2. QED
      BY <1>1, <1>2, <2>1, <2>4, <3>1, NearRounded
  <2>6. /\ 4 * (g * Down(e)) < (4 * s + 1) * (h * Up(e))
        /\ (4 * s - 1) * (h * Up(e)) < 4 * (g * Down(e))
    BY <2>5, AroundIt
  <2>7. g * Down(e) < Lo(F32) * (h * Up(e)) => e - 1 \in ExponentsOf(F32)
    BY <1>2, <2>1, <2>2, <2>6, FarFromEnd
  <2>8. Around(g, h, s, e, F32)
    BY <2>6, <2>7 DEF Around
  <2>9. AsF32(w) = v
    <3>1. s \in Lo(F32)..(Hi(F32) - 1) /\ e \in ExponentsOf(F32) /\ v = Binade(s, e)
      BY DEF HasMantissa
    <3>2. Rounded(<<g, h>>, F32) = Binade(s, e)
      BY <2>8, <3>1, RoundsTo
    <3>3. QED
      BY <2>4, <3>1, <3>2 DEF AsF32
  <2>10. w # Whole(0)
    BY <2>4 DEF Whole
  <2>11. QED
    BY <1>1, <1>7, <2>4, <2>9, <2>10, Widths
<1>8. QED
  BY <1>1, <1>5, <1>6, <1>7, Widths

(* What an f32 is made of a float that is not negative.                      *)
LEMMA AsF32Value ==
  ASSUME NEW u \in Float, u[1] \in Nat
  PROVE  /\ AsF32(u) \in Float /\ AsF32(u) \in Nat \X Nat
         /\ AsF32(u) \in {NaN, Infinity} \/ IsValue(AsF32(u))
         /\ IsValue(u) => AsF32(u) = Infinity \/ IsValue(AsF32(u))
<1> DEFINE p == u[1]
           q == u[2]
           x == AsF32(u)
<1>1. p \in Nat /\ q \in Nat /\ u = <<p, q>> /\ (u = NaN \/ gcd(Magnitude(p), q) = 1)
  BY DEF Float
<1>2. NaN \in Float /\ Infinity \in Float /\ NaN \in Nat \X Nat /\ Infinity \in Nat \X Nat
  <2>1. gcd(1, 0) = 1
    BY GcdStep
  <2>2. Magnitude(1) = 1
    BY DEF Magnitude
  <2>3. QED
    BY <2>1, <2>2 DEF Float, NaN, Infinity
<1>3. CASE q = 0
  <2>1. x = u
    BY <1>3 DEF AsF32, Rounded, IsFinite, WithExponent
  <2>2. gcd(p, 0) = p
    BY <1>1, GcdStep
  <2>3. Magnitude(p) = p
    BY <1>1 DEF Magnitude
  <2>4. u = NaN \/ u = <<1, 0>>
    BY <1>1, <1>3, <2>2, <2>3
  <2>5. ~IsValue(u)
    BY <1>3 DEF IsValue
  <2>6. QED
    BY <1>2, <2>1, <2>4, <2>5 DEF Infinity
<1>4. CASE q # 0
  <2>1. x = Infinity \/ IsValue(x)
    <3>1. q \in Nat \ {0} /\ F32 \in {F32, F64}
      BY <1>1, <1>4
    <3>2. Rounded(<<p, q>>, F32) = Infinity \/ IsValue(Rounded(<<p, q>>, F32))
      BY <1>1, <3>1, RoundedType
    <3>3. QED
      BY <1>1, <3>2 DEF AsF32
  <2> HIDE DEF x
  <2>2. IsValue(x) => x \in Float /\ x \in Nat \X Nat
    <3>1. ASSUME IsValue(x) PROVE x \in Float /\ x \in Nat \X Nat
      <4>1. x = <<x[1], x[2]>> /\ x[1] \in Nat /\ x[2] \in Nat
        BY <3>1, ValueParts
      <4>2. x \in Float
        BY <3>1 DEF IsValue
      <4>3. QED
        BY <4>1, <4>2
    <3>2. QED
      BY <3>1
  <2>3. QED
    BY <1>2, <2>1, <2>2 DEF x
<1>5. QED
  BY <1>3, <1>4

(* Rounding to an f32 keeps the order of values.                             *)
LEMMA AsF32Monotone ==
  ASSUME NEW v, NEW w, IsValue(v), IsValue(w), Below(v, w), IsFinite(AsF32(w))
  PROVE  IsValue(AsF32(v)) /\ IsValue(AsF32(w)) /\ Below(AsF32(v), AsF32(w))
<1>1. /\ v = <<v[1], v[2]>> /\ v[1] \in Nat /\ v[2] \in Nat \ {0}
      /\ w = <<w[1], w[2]>> /\ w[1] \in Nat /\ w[2] \in Nat \ {0}
  BY ValueParts
<1> DEFINE p == v[1]
           q == v[2]
           r == w[1]
           t == w[2]
<1>2. p * t <= r * q /\ IsFinite(Rounded(<<r, t>>, F32)) /\ F32 \in {F32, F64}
  BY <1>1 DEF Below, AsF32
<1> HIDE DEF p, q, r, t
<1>3. p \in Nat /\ q \in Nat \ {0} /\ r \in Nat /\ t \in Nat \ {0}
  BY <1>1 DEF p, q, r, t
<1>4. /\ IsValue(Rounded(<<p, q>>, F32)) /\ IsValue(Rounded(<<r, t>>, F32))
      /\ Below(Rounded(<<p, q>>, F32), Rounded(<<r, t>>, F32))
  BY <1>2, <1>3, RoundedMonotone
<1>5. QED
  BY <1>1, <1>4 DEF AsF32, p, q, r, t

(* Zero is held as zero by every type.                                       *)
LEMMA ZeroHeld == AsF32(Whole(0)) = Whole(0) /\ \A d \in Nat \ {0} : AsF64(<<0, d>>) = Whole(0)
<1>1. F32 \in {F32, F64} /\ F64 \in {F32, F64} /\ 0 \in Nat /\ 1 \in Nat \ {0}
  OBVIOUS
<1>2. QED
  BY <1>1, RoundedType DEF AsF32, AsF64, Whole

(* A value in the range of the numerator.                                    *)
Fits(x, max) == IsValue(x) /\ x[1] <= max * x[2]

(* Zero is converted to zero, with the first turn.                           *)
LEMMA ZeroConverts ==
  ASSUME NEW max \in Nat
  PROVE  float_to_unsigned_fraction(Whole(0), max) = Converted(0, 1)
<1> DEFINE v == Whole(0)
           f == CHOOSE f : TurnsOf(f, v, max, MAX_ITER)
           last == f[MAX_ITER]
           end == Converted(Round(AsF64(<<last.d * v[1], v[2]>>)), last.d)
           answer == Converted(0, 1)
<1>1. MAX_ITER \in Nat \ {0}
  BY WidthFacts
<1>2. TurnsOf(f, v, max, MAX_ITER)
  BY <1>1, TurnsExist
<1>3. float_to_unsigned_fraction(v, max) =
        IF v = NaN \/ Less(Whole(max), v) THEN Failed
        ELSE IF last.answer # None THEN last.answer ELSE end
  BY DEF float_to_unsigned_fraction, TurnsOf, FirstTurn, Outcome
<1> HIDE DEF f, end
<1>4. v # NaN /\ ~Less(Whole(max), v)
  BY DEF NaN, Less, Whole
<1>5. \A i \in 0..MAX_ITER : f[i] = IF i = 0 THEN FirstTurn(v) ELSE Turn(v, max, f[i - 1])
  BY <1>2 DEF TurnsOf
<1>6. answer # None
  BY FoundIsSome
<1>7. Turn(v, max, FirstTurn(v)).answer = answer
  <2> DEFINE t == FirstTurn(v)
             num_double == AsF64(<<t.d * v[1], v[2]>>)
             n == Round(num_double)
             inverse == AsF64(<<t.current_v[2], t.current_v[1]>>)
             new_d == t.previous_d + (inverse[1] \div inverse[2]) * t.d
  <2>1. Turn(v, max, t) =
          IF t.answer # None THEN t
          ELSE IF Less(Whole(max), num_double) THEN [t EXCEPT !.answer = Failed]
          ELSE IF num_double = Whole(n) \/ inverse[2] = 0 \/ new_d > MaxDenominator(v, max)
               THEN [t EXCEPT !.answer = Converted(n, t.d)]
          ELSE [t EXCEPT !.d = new_d, !.previous_d = t.d,
                         !.current_v = <<inverse[1] % inverse[2], inverse[2]>>]
    BY DEF Turn, TurnWith, Floor
  <2>2. num_double = Whole(0)
    <3>1. t.d * v[1] = 0 /\ v[2] = 1
      BY DEF FirstTurn, Whole
    <3>2. num_double = AsF64(<<0, 1>>)
      BY <3>1
    <3>3. QED
      BY <3>2, ZeroHeld
  <2>3. n = 0
    BY <2>2, RoundWhole
  <2>4. ~Less(Whole(max), num_double)
    BY <1>4, <2>2
  <2>5. t.answer = None /\ t.d = 1
    BY DEF FirstTurn
  <2>6. t = Between(t.d, t.previous_d, t.current_v[1], t.current_v[2], None)
    BY DEF FirstTurn, Between
  <2> HIDE DEF t, num_double, n, inverse, new_d
  <2>7. Turn(v, max, t) = [t EXCEPT !.answer = answer]
    BY <2>1, <2>2, <2>3, <2>4, <2>5, Zenon
  <2>8. [t EXCEPT !.answer = answer].answer = answer
    BY <2>6 DEF Between
  <2>9. QED
    BY <2>7, <2>8 DEF t
<1> DEFINE Bad == {i \in 1..MAX_ITER : f[i].answer # answer}
<1>8. ASSUME Bad # {} PROVE FALSE
  <2>1. Bad \in SUBSET Nat
    BY <1>1
  <2> HIDE DEF Bad
  <2>2. PICK i \in Bad : \A j \in Bad : i <= j
    BY <1>8, <2>1, LeastExists
  <2> USE DEF Bad
  <2>3. i \in 1..MAX_ITER /\ i \in 0..MAX_ITER /\ i # 0 /\ f[i].answer # answer
    BY <1>1, <2>2
  <2>4. f[i] = Turn(v, max, f[i - 1])
    BY <1>5, <2>3
  <2>5. i # 1
    <3>1. SUFFICES ASSUME i = 1 PROVE FALSE
      OBVIOUS
    <3>2. i - 1 = 0 /\ 0 \in 0..MAX_ITER
      BY <1>1, <3>1
    <3>3. f[0] = FirstTurn(v)
      BY <1>5, <3>2
    <3> HIDE DEF v, answer, Bad
    <3>4. f[i] = Turn(v, max, FirstTurn(v))
      BY <2>4, <3>2, <3>3, Zenon
    <3>5. QED
      BY <1>7, <2>3, <3>4, Zenon
  <2>6. i - 1 \in 1..MAX_ITER /\ i - 1 \notin Bad
    BY <1>1, <2>2, <2>3, <2>5
  <2>7. f[i - 1].answer = answer
    BY <2>6
  <2> HIDE DEF v, answer, Bad
  <2> DEFINE t == f[i - 1]
  <2>8. t.answer # None => Turn(v, max, t) = t
    BY Zenon DEF Turn, TurnWith, Floor
  <2>9. QED
    BY <1>6, <2>3, <2>4, <2>7, <2>8, Zenon
<1>9. last.answer = answer
  <2>1. MAX_ITER \in 1..MAX_ITER
    BY <1>1
  <2>2. QED
    BY <1>8, <2>1
<1> HIDE DEF last, answer, v
<1>10. float_to_unsigned_fraction(v, max) = answer
  BY <1>3, <1>4, <1>6, <1>9, Zenon
<1>11. QED
  BY <1>10 DEF v, answer

(* What the search finds. *)
Fractions == [ok : {TRUE}, numerator : Nat, denominator : 1..U32Max]

(* What an f32 is converted to: a value in range to a fraction, zero to zero,  *)
(* and nothing else to anything.                                             *)
LEMMA ConversionIs ==
  ASSUME NEW u \in Float, u[1] \in Nat, NEW max \in {I32Max, U32Max}, NEW x, x = AsF32(u)
  PROVE  LET f == float_to_unsigned_fraction(x, max)
         IN /\ ~Fits(x, max) => f = Failed
            /\ Fits(x, max) /\ x[1] = 0 => x = Whole(0) /\ f = Converted(0, 1)
            /\ Fits(x, max) /\ x[1] # 0 =>
                 Asked(x, max) /\ Found(x, max, f) /\ \E s, e : HasMantissa(x, s, e, F32)
<1> DEFINE f == float_to_unsigned_fraction(x, max)
<1>1. x \in Nat \X Nat /\ (x \in {NaN, Infinity} \/ IsValue(x))
  BY AsF32Value
<1>2. max \in Nat /\ max <= U32Max /\ U32Max \in Nat
  BY WidthFacts
<1>3. ASSUME ~Fits(x, max) PROVE f = Failed
  <2>1. x = NaN \/ Less(Whole(max), x)
    <3>1. CASE x \in {NaN, Infinity}
      <4>1. Less(Whole(max), Infinity)
        BY <1>2 DEF Less, Whole, Infinity
      <4>2. QED
        BY <3>1, <4>1
    <3>2. CASE IsValue(x)
      <4> DEFINE a == x[1]
                 b == x[2]
      <4>1. ~(a <= max * b)
        BY <1>3, <3>2 DEF Fits
      <4>2. Less(Whole(max), x) <=> max * b < a * 1
        BY DEF Less, Whole
      <4>3. a \in Nat /\ b \in Nat
        BY <1>1
      <4> HIDE DEF a, b
      <4>4. max * b < a * 1
        BY <1>2, <4>1, <4>3
      <4>5. QED
        BY <4>2, <4>4
    <3>3. QED
      BY <1>1, <3>1, <3>2
  <2>2. QED
    BY <2>1, Zenon DEF float_to_unsigned_fraction, Outcome
<1>4. ASSUME Fits(x, max), x[1] = 0 PROVE x = Whole(0) /\ f = Converted(0, 1)
  <2>1. x = Whole(0)
    BY <1>4, ZeroValue DEF Fits
  <2>2. QED
    BY <1>2, <2>1, ZeroConverts
<1>5. ASSUME Fits(x, max), x[1] # 0
      PROVE  Asked(x, max) /\ Found(x, max, f) /\ \E s, e : HasMantissa(x, s, e, F32)
  <2>1. IsValue(x) /\ x[1] <= max * x[2] /\ x = <<x[1], x[2]>> /\ IsFinite(x)
        /\ x[1] \in Nat /\ x[2] \in Nat \ {0}
    BY <1>5, ValueParts DEF Fits
  <2>2. x[1] <= U32Max * x[2]
    <3> DEFINE a == x[1]
               b == x[2]
    <3>1. a \in Nat /\ b \in Nat /\ a <= max * b
      BY <2>1
    <3> HIDE DEF a, b
    <3>2. max * b <= U32Max * b /\ max * b \in Int /\ U32Max * b \in Int
      BY <1>2, <3>1
    <3>3. a <= U32Max * b
      BY <3>1, <3>2
    <3>4. QED
      BY <3>3 DEF a, b
  <2>3. u[1] \in Nat /\ u = <<u[1], u[2]>> /\ u[2] \in Nat
    BY DEF Float
  <2>4. u[2] # 0
    <3>1. u[2] = 0 => x = u
      BY DEF AsF32, Rounded, IsFinite, WithExponent
    <3>2. QED
      BY <2>1, <3>1
  <2>5. \E s, e : HasMantissa(x, s, e, F32)
    <3> DEFINE p == u[1]
               q == u[2]
    <3>1. p \in Nat /\ q \in Nat \ {0} /\ x = AsF32(<<p, q>>)
      BY <2>3, <2>4
    <3> HIDE DEF p, q
    <3>2. QED
      BY <1>5, <2>1, <2>2, <3>1, MantissaExists
  <2>6. IsF32(x[1], x[2])
    BY <2>5, MantissaIsF32
  <2>7. Asked(x, max)
    BY <2>1, <2>6 DEF Asked, Largest
  <2>8. QED
    BY <2>5, <2>7, ConversionFound
<1>6. QED
  BY <1>3, <1>4, <1>5

(* So it is a fraction, or nothing.                                          *)
LEMMA ConversionType ==
  ASSUME NEW u \in Float, u[1] \in Nat, NEW max \in {I32Max, U32Max}
  PROVE  float_to_unsigned_fraction(AsF32(u), max) \in {Failed} \cup Fractions
<1> DEFINE x == AsF32(u)
           f == float_to_unsigned_fraction(x, max)
<1>1. max \in Nat /\ U32Max \in Nat \ {0}
  BY WidthFacts
<1>2. \A n \in Nat, d \in 1..U32Max : Converted(n, d) \in Fractions
  BY DEF Converted, Fractions
<1>3. /\ ~Fits(x, max) => f = Failed
      /\ Fits(x, max) /\ x[1] = 0 => f = Converted(0, 1)
      /\ Fits(x, max) /\ x[1] # 0 => Found(x, max, f)
  BY ConversionIs
<1> HIDE DEF f, x
<1>4. Found(x, max, f) => f \in Fractions
  <2>1. \A n \in 0..max : n \in Nat
    BY <1>1
  <2>2. QED
    BY <1>2, <2>1 DEF Found
<1>5. Converted(0, 1) \in Fractions
  BY <1>1, <1>2
<1>6. QED
  BY <1>3, <1>4, <1>5 DEF f, x

(* A fraction that is found. *)
LEMMA FractionParts ==
  ASSUME NEW f \in Fractions
  PROVE  f.ok = TRUE /\ f.numerator \in Nat /\ f.denominator \in Nat \ {0}
<1>1. f.ok = TRUE /\ f.numerator \in Nat /\ f.denominator \in 1..U32Max
  BY DEF Fractions
<1>2. QED
  BY <1>1, WidthFacts

(* What is read of an f32, once it has been written as a fraction.           *)
Reading(x, max) ==
  LET f == float_to_unsigned_fraction(x, max)
  IN IF ~f.ok THEN Whole(0) ELSE AsF64(<<f.numerator, f.denominator>>)

(* What is not in range is read as zero; of what is, all that an f32 holds is  *)
(* read, unless it is small, and the value itself if its denominator is.       *)
LEMMA ReadingIs ==
  ASSUME NEW u \in Float, u[1] \in Nat, NEW max \in {I32Max, U32Max}, NEW x, x = AsF32(u)
  PROVE  LET w == Reading(x, max)
         IN /\ IsValue(w)
            /\ ~Fits(x, max) \/ x[1] = 0 => w = Whole(0)
            /\ Fits(x, max) /\ x[1] # 0 =>
                 /\ Asked(x, max)
                 /\ IF Small(x) THEN w = Whole(0) ELSE w # Whole(0) /\ AsF32(w) = x
            /\ Fits(x, max) /\ x[2] <= Hi(F32) => w = x
<1> DEFINE f == float_to_unsigned_fraction(x, max)
           w == Reading(x, max)
<1>1. w = IF ~f.ok THEN Whole(0) ELSE AsF64(<<f.numerator, f.denominator>>)
  BY DEF Reading
<1>2. /\ ~Fits(x, max) => f = Failed
      /\ Fits(x, max) /\ x[1] = 0 => x = Whole(0) /\ f = Converted(0, 1)
      /\ Fits(x, max) /\ x[1] # 0 =>
           Asked(x, max) /\ Found(x, max, f) /\ \E s, e : HasMantissa(x, s, e, F32)
  BY ConversionIs
<1> HIDE DEF f, w
<1>3. \A n, d : f = Converted(n, d) => w = AsF64(<<n, d>>)
  BY <1>1 DEF Converted
<1>4. CASE ~Fits(x, max)
  <2>1. w = Whole(0)
    BY <1>1, <1>2, <1>4 DEF Failed
  <2>2. QED
    BY <1>4, <2>1, ZeroValue DEF w
<1>5. CASE Fits(x, max) /\ x[1] = 0
  <2>1. w = AsF64(<<0, 1>>) /\ x = Whole(0)
    BY <1>2, <1>3, <1>5
  <2>2. w = Whole(0)
    BY <2>1, ZeroHeld
  <2>3. QED
    BY <1>5, <2>1, <2>2, ZeroValue DEF w
<1>6. CASE Fits(x, max) /\ x[1] # 0
  <2>1. Asked(x, max)
    BY <1>2, <1>6
  <2>2. PICK s, e : HasMantissa(x, s, e, F32)
    BY <1>2, <1>6
  <2>3. PICK n \in 0..max, d \in 1..U32Max : f = Converted(n, d) /\ Settled(x, n, d)
    BY <1>2, <1>6 DEF Found
  <2>4. w = AsF64(<<n, d>>)
    BY <1>3, <2>3
  <2>5. /\ IsValue(w)
        /\ x[2] <= Hi(F32) => w = x /\ AsF32(w) = x /\ ~Small(x)
        /\ Hi(F32) < x[2] =>
             IF Small(x) THEN w = Whole(0) ELSE w # Whole(0) /\ AsF32(w) = x
    BY <2>1, <2>2, <2>3, <2>4, FoundReads
  <2>6. x[2] \in Nat /\ Hi(F32) \in Nat /\ x # Whole(0)
    BY <1>6, <2>1, AskedParts, Widths DEF Whole
  <2>7. x[2] <= Hi(F32) \/ Hi(F32) < x[2]
    <3> DEFINE b == x[2]
    <3> HIDE DEF b
    <3>1. b \in Nat
      BY <2>6 DEF b
    <3>2. b <= Hi(F32) \/ Hi(F32) < b
      BY <2>6, <3>1
    <3>3. QED
      BY <3>2 DEF b
  <2>8. QED
    BY <1>6, <2>1, <2>5, <2>6, <2>7 DEF w
<1>7. QED
  BY <1>4, <1>5, <1>6

(* What is read is zero, or a value whose f32 is what was written.           *)
LEMMA ReadingRegains ==
  ASSUME NEW u \in Float, u[1] \in Nat, NEW max \in {I32Max, U32Max}, NEW x, x = AsF32(u)
  PROVE  LET w == Reading(x, max)
         IN /\ IsValue(w)
            /\ w = Whole(0) \/ (Fits(x, max) /\ AsF32(w) = x)
            /\ Reading(AsF32(w), max) = w
<1> DEFINE w == Reading(x, max)
<1>1. /\ IsValue(w)
      /\ ~Fits(x, max) \/ x[1] = 0 => w = Whole(0)
      /\ Fits(x, max) /\ x[1] # 0 => w = Whole(0) \/ AsF32(w) = x
  BY ReadingIs
<1>2. w = Whole(0) \/ (Fits(x, max) /\ AsF32(w) = x)
  BY <1>1
<1>3. Reading(Whole(0), max) = Whole(0)
  <2>1. Whole(0) \in Float /\ Whole(0)[1] \in Nat /\ Whole(0)[1] = 0 /\ Whole(0) = AsF32(Whole(0))
    BY ZeroHeld, ZeroValue DEF IsValue
  <2> DEFINE z == Whole(0)
  <2> HIDE DEF z
  <2>2. z \in Float /\ z[1] \in Nat /\ z[1] = 0 /\ z = AsF32(z)
    BY <2>1 DEF z
  <2>3. Reading(z, max) = Whole(0)
    BY <2>2, ReadingIs
  <2>4. QED
    BY <2>3 DEF z
<1> HIDE DEF w
<1>4. Reading(AsF32(w), max) = w
  <2>1. CASE w = Whole(0)
    BY <1>3, <2>1, ZeroHeld
  <2>2. CASE AsF32(w) = x
    BY <2>2 DEF w
  <2>3. QED
    BY <1>2, <2>1, <2>2
<1>5. QED
  BY <1>1, <1>2, <1>4 DEF w

(* What is read as zero is zero, or below the smallest step.                 *)
LEMMA SmallIfZero ==
  ASSUME NEW u \in Float, u[1] \in Nat, NEW max \in {I32Max, U32Max}, NEW x, x = AsF32(u),
         Fits(x, max), Reading(x, max) = Whole(0)
  PROVE  x[1] * U32Max < x[2]
<1>1. x[1] \in Nat /\ x[2] \in Nat \ {0} /\ U32Max \in Nat
  BY WidthFacts, ValueParts DEF Fits
<1>2. CASE x[1] = 0
  <2> DEFINE b == x[2]
  <2>1. x[1] * U32Max = 0 /\ b \in Nat \ {0}
    BY <1>1, <1>2
  <2> HIDE DEF b
  <2>2. 0 < b
    BY <2>1
  <2>3. QED
    BY <2>1, <2>2 DEF b
<1>3. CASE x[1] # 0
  <2>1. Asked(x, max) /\ Small(x)
    BY <1>3, ReadingIs
  <2>2. QED
    BY <2>1, SmallIs
<1>4. QED
  BY <1>2, <1>3

(* Dividing with a rest keeps an order.                                      *)
LEMMA DivisionMonotone ==
  ASSUME NEW i \in Nat, NEW j \in Nat \ {0}, NEW g \in Nat, NEW h \in Nat \ {0}, i * h <= g * j
  PROVE  i \div j <= g \div h
<1> DEFINE a == i \div j
           r == i % j
           c == g \div h
           s == g % h
<1>1. a \in Nat /\ r \in 0..(j - 1) /\ i = j * a + r
  BY Division
<1>2. c \in Nat /\ s \in 0..(h - 1) /\ g = h * c + s
  BY Division
<1> HIDE DEF a, r, c, s
<1>3. r \in Nat /\ s \in Nat /\ s < h
  BY <1>1, <1>2
<1>4. (j * a) * h <= i * h /\ (j * a) * h = a * (j * h)
  <2> DEFINE k == j * a
  <2>1. k \in Nat /\ k <= i
    BY <1>1, <1>3
  <2>2. k * h = a * (j * h)
    BY <1>1
  <2> HIDE DEF k
  <2>3. k * h <= i * h
    BY <2>1
  <2>4. QED
    BY <2>2, <2>3 DEF k
<1>5. g * j < (h * (c + 1)) * j /\ (h * (c + 1)) * j = (c + 1) * (j * h)
  <2> DEFINE k == h * (c + 1)
  <2>1. h * (c + 1) = h * c + h /\ k \in Nat
    BY <1>2
  <2>2. g < k
    <3> DEFINE z == h * c
    <3>1. z \in Nat /\ g = z + s /\ k = z + h
      BY <1>2, <2>1
    <3> HIDE DEF z, k
    <3>2. QED
      BY <1>3, <3>1
  <2>3. k * j = (c + 1) * (j * h)
    BY <1>2
  <2> HIDE DEF k
  <2>4. g * j < k * j
    BY <2>1, <2>2
  <2>5. QED
    BY <2>3, <2>4 DEF k
<1> DEFINE y == j * h
<1>6. a * y < (c + 1) * y
  <2>1. i * h \in Int /\ g * j \in Int /\ a * y \in Int /\ (c + 1) * y \in Int
    BY <1>1, <1>2
  <2>2. QED
    BY <1>4, <1>5, <2>1
<1>7. a < c + 1
  <2>1. y \in Nat
    OBVIOUS
  <2> HIDE DEF y
  <2>2. SUFFICES ASSUME c + 1 <= a PROVE FALSE
    BY <1>1, <1>2
  <2> DEFINE k == c + 1
  <2>3. k \in Int /\ k <= a /\ a \in Int
    BY <1>1, <1>2, <2>2
  <2> HIDE DEF k
  <2>4. k * y <= a * y
    BY <2>1, <2>3, Scaling
  <2>5. k * y \in Int /\ a * y \in Int /\ a * y < k * y
    BY <1>6, <2>1, <2>3 DEF k
  <2>6. QED
    BY <2>4, <2>5
<1>8. a <= c
  BY <1>1, <1>2, <1>7
<1>9. QED
  BY <1>8 DEF a, c

(* What is below something small is small.                                   *)
LEMMA SmallBelow ==
  ASSUME NEW max, NEW x, NEW y, Asked(x, max), Asked(y, max), Below(x, y), Small(y)
  PROVE  Small(x)
<1> DEFINE a == x[1]
           b == x[2]
           c == y[1]
           d == y[2]
           v == AsF64(<<d, c>>)
           w == AsF64(<<b, a>>)
<1>1. /\ a \in Nat \ {0} /\ b \in Nat \ {0} /\ b <= Up(F64.range)
      /\ c \in Nat \ {0} /\ d \in Nat \ {0}
      /\ a * d <= c * b
  BY AskedParts DEF Below
<1>2. c * U32Max < d /\ U32Max \in Nat \ {0}
  BY SmallIs, WidthFacts
<1>3. (v[1] \div v[2]) > U32Max
  BY DEF Small
<1>4. SUFFICES (w[1] \div w[2]) > U32Max
  BY DEF Small
<1> HIDE DEF a, b, c, d, v, w
<1>5. a <= b
  <2>1. c <= c * U32Max /\ c * U32Max \in Int
    BY <1>1, <1>2
  <2>2. c <= d
    BY <1>1, <1>2, <2>1
  <2>3. SUFFICES ASSUME b + 1 <= a PROVE FALSE
    BY <1>1
  <2> DEFINE k == b + 1
  <2>4. k \in Int /\ k <= a
    BY <1>1, <2>3
  <2> HIDE DEF k
  <2>5. k * d <= a * d /\ c * b <= d * b
    BY <1>1, <2>2, <2>4
  <2>6. k * d = d * b + d
    BY <1>1 DEF k
  <2>7. k * d \in Int /\ a * d \in Int /\ c * b \in Int /\ d * b \in Int
    BY <1>1, <2>4
  <2>8. QED
    BY <1>1, <2>5, <2>6, <2>7
<1>6. PICK g, h : w = <<g, h>> /\ Inverts(g, h, a, b, Hi(F64)) /\ IsValue(<<g, h>>)
  BY <1>1, <1>5, InverseIs DEF w
<1>7. g \in Nat \ {0} /\ h \in Nat \ {0}
  BY <1>6 DEF Inverts
<1>8. IsFinite(w)
  BY <1>6, <1>7 DEF IsFinite
<1>9. IsValue(v) /\ Below(v, w)
  <2>1. d * a <= b * c /\ F64 \in {F32, F64} /\ c \in Nat \ {0} /\ a \in Nat \ {0} /\ d \in Nat /\ b \in Nat
    BY <1>1
  <2>2. IsFinite(Rounded(<<b, a>>, F64))
    BY <1>8 DEF w, AsF64
  <2>3. IsValue(Rounded(<<d, c>>, F64)) /\ Below(Rounded(<<d, c>>, F64), Rounded(<<b, a>>, F64))
    BY <2>1, <2>2, RoundedMonotone
  <2>4. QED
    BY <2>3 DEF v, w, AsF64
<1> DEFINE i == v[1]
           j == v[2]
<1>10. i \in Nat /\ j \in Nat \ {0} /\ i * h <= g * j
  <2>1. w[1] = g /\ w[2] = h
    BY <1>6
  <2>2. QED
    BY <1>9, <2>1, ValueParts DEF Below
<1> HIDE DEF i, j
<1>11. i \div j <= g \div h /\ i \div j \in Nat /\ g \div h \in Nat
  BY <1>7, <1>10, DivisionMonotone, Division
<1>12. (i \div j) > U32Max
  BY <1>3 DEF i, j
<1>13. (g \div h) > U32Max
  <2> DEFINE k == i \div j
             l == g \div h
  <2>1. k \in Nat /\ l \in Nat /\ k <= l /\ k > U32Max
    BY <1>11, <1>12
  <2> HIDE DEF k, l
  <2>2. l > U32Max
    BY <1>2, <2>1
  <2>3. QED
    BY <2>2 DEF l
<1>14. QED
  BY <1>6, <1>13

(* Of two values in range, the larger is not read as the smaller.            *)
LEMMA ReadingMonotone ==
  ASSUME NEW u, NEW v, IsValue(u), IsValue(v), Below(u, v), NEW max \in {I32Max, U32Max},
         Fits(AsF32(v), max)
  PROVE  Fits(AsF32(u), max) /\ Below(Reading(AsF32(u), max), Reading(AsF32(v), max))
<1> DEFINE x == AsF32(u)
           y == AsF32(v)
           w == Reading(x, max)
           z == Reading(y, max)
<1>1. u \in Float /\ u[1] \in Nat /\ v \in Float /\ v[1] \in Nat
  BY DEF IsValue
<1>2. IsFinite(y)
  BY ValueParts DEF Fits
<1>3. IsValue(x) /\ IsValue(y) /\ Below(x, y)
  BY <1>2, AsF32Monotone
<1>4. Fits(x, max)
  <2> DEFINE a == x[1]
             b == x[2]
             c == y[1]
             d == y[2]
  <2>1. a \in Nat /\ b \in Nat \ {0} /\ c \in Nat /\ d \in Nat \ {0} /\ max \in Nat
        /\ a * d <= c * b /\ c <= max * d
    BY <1>3, ValueParts, WidthFacts DEF Below, Fits
  <2> HIDE DEF a, b, c, d, x, y
  <2>2. c * b <= (max * d) * b /\ (max * d) * b = (max * b) * d
    <3> DEFINE i == max * d
    <3>1. i \in Nat /\ c <= i
      BY <2>1
    <3>2. i * b = (max * b) * d
      BY <2>1
    <3> HIDE DEF i
    <3>3. c * b <= i * b
      BY <2>1, <3>1
    <3>4. QED
      BY <3>2, <3>3 DEF i
  <2> DEFINE i == max * b
  <2>3. i \in Nat /\ a * d <= i * d
    <3>1. a * d \in Nat /\ c * b \in Nat /\ (max * b) * d \in Nat
      BY <2>1
    <3>2. QED
      BY <2>1, <2>2, <3>1
  <2> HIDE DEF i
  <2>4. a <= i
    BY <2>1, <2>3, Scaling
  <2>5. x[1] <= max * x[2]
    BY <2>4 DEF a, b, i
  <2>6. QED
    BY <1>3, <2>5 DEF Fits
<1>5. /\ IsValue(w) /\ (w = Whole(0) \/ AsF32(w) = x)
      /\ IsValue(z) /\ (z = Whole(0) \/ AsF32(z) = y)
  BY <1>1, ReadingRegains
<1>6. /\ x[1] = 0 => w = Whole(0)
      /\ x[1] # 0 => Asked(x, max) /\ (Small(x) => w = Whole(0))
      /\ y[1] # 0 => Asked(y, max) /\ (z = Whole(0) => Small(y))
  BY <1>1, <1>4, ReadingIs
<1> HIDE DEF x, y, w, z
<1>7. ASSUME ~Below(w, z) PROVE FALSE
  <2>1. Below(z, w) /\ w # Whole(0)
    BY <1>5, <1>7, BelowParts, ZeroValue
  <2>2. x[1] # 0 /\ ~Small(x) /\ AsF32(w) = x /\ Asked(x, max)
    BY <1>5, <1>6, <2>1
  <2>3. CASE z # Whole(0)
    <3>1. AsF32(z) = y /\ IsFinite(AsF32(w))
      BY <1>3, <1>5, <2>2, <2>3, ValueParts
    <3>2. Below(y, x)
      BY <1>5, <2>1, <2>2, <3>1, AsF32Monotone
    <3>3. x = y
      BY <1>3, <3>2, BelowParts
    <3>4. w = z
      BY <3>3 DEF w, z
    <3>5. QED
      BY <1>7, <2>1, <3>4
  <2>4. CASE z = Whole(0)
    <3>1. y[1] # 0
      <4>1. SUFFICES ASSUME y[1] = 0 PROVE FALSE
        OBVIOUS
      <4>2. Below(y, x)
        BY <1>3, <4>1, ZeroValue
      <4>3. x = y
        BY <1>3, <4>2, BelowParts
      <4>4. QED
        BY <2>2, <4>1, <4>3
    <3>2. Small(x)
      BY <1>3, <1>6, <2>2, <2>4, <3>1, SmallBelow
    <3>3. QED
      BY <2>2, <3>2
  <2>5. QED
    BY <2>3, <2>4
<1>8. QED
  BY <1>4, <1>7 DEF x, y, w, z

(* What is read is a float. *)
LEMMA ToF64Type ==
  ASSUME NEW f, f.numerator \in Int, f.denominator \in Nat
  PROVE  ToF64(f) \in Float
<1> DEFINE n == Magnitude(f.numerator)
           d == f.denominator
           w == AsF64(<<n, d>>)
<1>1. n \in Nat /\ d \in Nat
  <2> DEFINE l == f.numerator
  <2>1. l \in Int
    OBVIOUS
  <2> HIDE DEF l
  <2>2. Magnitude(l) \in Nat
    BY <2>1, Magnitudes
  <2>3. QED
    BY <2>2 DEF l
<1>2. ToF64(f) = IF d = 0 THEN Whole(0) ELSE <<IF f.numerator < 0 THEN -w[1] ELSE w[1], w[2]>>
  BY DEF ToF64
<1>3. CASE d = 0
  BY <1>2, <1>3, FloatRatios
<1>4. CASE d # 0
  <2>1. w = Infinity \/ IsValue(w)
    <3> HIDE DEF n, d
    <3>1. n \in Nat /\ d \in Nat \ {0} /\ F64 \in {F32, F64}
      BY <1>1, <1>4
    <3>2. QED
      BY <3>1, RoundedType DEF AsF64
  <2> HIDE DEF w
  <2>2. w[1] \in Nat /\ w[2] \in Nat /\ gcd(Magnitude(w[1]), w[2]) = 1
    <3>1. CASE w = Infinity
      <4>1. gcd(1, 0) = 1
        BY GcdStep
      <4>2. QED
        BY <3>1, <4>1 DEF Infinity, Magnitude
    <3>2. CASE IsValue(w)
      BY <3>2, ValueParts DEF Coprime
    <3>3. QED
      BY <2>1, <3>1, <3>2
  <2>3. -w[1] \in Int /\ Magnitude(-w[1]) = Magnitude(w[1])
    <3> DEFINE k == w[1]
    <3>1. k \in Nat
      BY <2>2
    <3> HIDE DEF k
    <3>2. -k \in Int /\ Magnitude(-k) = Magnitude(k)
      BY <3>1 DEF Magnitude
    <3>3. QED
      BY <3>2 DEF k
  <2> DEFINE k == IF f.numerator < 0 THEN -w[1] ELSE w[1]
  <2>4. k \in Int /\ gcd(Magnitude(k), w[2]) = 1
    BY <2>2, <2>3
  <2>5. ToF64(f) = <<k, w[2]>>
    BY <1>2, <1>4
  <2> HIDE DEF k
  <2>6. QED
    BY <2>2, <2>4, <2>5 DEF Float
<1>5. QED
  BY <1>3, <1>4

(* A value's magnitude, as an f32, is one the search can be asked for if it is *)
(* in range.                                                                 *)
LEMMA MagnitudeFits ==
  ASSUME NEW v \in Float, NEW max \in {I32Max, U32Max}
  PROVE  /\ Abs(v) \in Float /\ Abs(v)[1] \in Nat
         /\ Abs(v)[1] = Magnitude(v[1]) /\ Abs(v)[2] = v[2]
         /\ v[1] >= 0 => Abs(v) = v
         /\ InRange(v, max) => IsValue(Abs(v)) /\ Fits(AsF32(Abs(v)), max)
<1> DEFINE u == Abs(v)
           x == AsF32(u)
<1>1. v[1] \in Int /\ v[2] \in Nat /\ v = <<v[1], v[2]>>
      /\ (v = NaN \/ gcd(Magnitude(v[1]), v[2]) = 1)
  BY DEF Float
<1>2. u = <<Magnitude(v[1]), v[2]>> /\ Magnitude(v[1]) \in Nat
  BY <1>1 DEF Abs, Magnitude
<1>3. u \in Float /\ u[1] \in Nat /\ u[2] = v[2]
  <2>1. Magnitude(Magnitude(v[1])) = Magnitude(v[1])
    BY <1>2 DEF Magnitude
  <2>2. v = NaN => u = NaN
    BY <1>2 DEF NaN, Magnitude
  <2>3. QED
    BY <1>1, <1>2, <2>1, <2>2 DEF Float
<1>4. v[1] >= 0 => u = v
  BY <1>1, <1>2 DEF Magnitude
<1>5. x \in Nat \X Nat /\ (x \in {NaN, Infinity} \/ IsValue(x))
  BY <1>3, AsF32Value
<1>6. max \in Nat \ {0}
  BY WidthFacts
<1>7. ASSUME InRange(v, max) PROVE IsValue(u) /\ Fits(x, max)
  <2>1. v[2] # 0 /\ (x = Whole(max) \/ x[1] * 1 < max * x[2])
    BY <1>7 DEF InRange, IsFinite, AtMost, Less, Whole
  <2>2. IsValue(u)
    BY <1>1, <1>3, <2>1 DEF IsValue
  <2> HIDE DEF x, u
  <2> DEFINE a == x[1]
             b == x[2]
  <2>3. a \in Nat /\ b \in Nat
    BY <1>5
  <2>4. b # 0 /\ a <= max * b
    <3>1. CASE x = Whole(max)
      BY <1>6, <3>1 DEF Whole
    <3>2. CASE a * 1 < max * b
      <4> HIDE DEF a, b
      <4>1. b = 0 => max * b = 0
        BY <1>6
      <4>2. a < max * b
        BY <2>3, <3>2
      <4>3. QED
        BY <1>6, <2>3, <4>1, <4>2
    <3>3. QED
      BY <2>1, <3>1, <3>2
  <2>5. x \notin {NaN, Infinity}
    BY <2>4 DEF NaN, Infinity
  <2>6. QED
    BY <1>5, <2>2, <2>4, <2>5 DEF Fits
<1>8. QED
  BY <1>2, <1>3, <1>4, <1>7

(* A fraction as it is written: its denominator is not zero.                 *)
Written == [numerator : Int, denominator : 1..U32Max]

(* What an unsigned fraction has of a value. *)
Positive(v) == IF v[1] <= 0 THEN Whole(0) ELSE v

(* That is what the search is asked for.                                     *)
LEMMA PositiveIs ==
  ASSUME NEW v \in Float
  PROVE  /\ Positive(v) \in Float /\ Positive(v)[1] \in Nat
         /\ IsFinite(v) => IsValue(Positive(v))
         /\ (IF v[1] <= 0 THEN Whole(0) ELSE AsF32(v)) = AsF32(Positive(v))
<1>1. v[1] \in Int /\ v[2] \in Nat
  BY DEF Float
<1>2. Whole(0) \in Float /\ Whole(0)[1] \in Nat /\ IsValue(Whole(0))
  BY ZeroValue DEF IsValue
<1>3. CASE v[1] <= 0
  BY <1>2, <1>3, ZeroHeld DEF Positive
<1>4. CASE ~(v[1] <= 0)
  BY <1>1, <1>4 DEF Positive, IsValue, IsFinite
<1>5. QED
  BY <1>3, <1>4

(* Whatever float is converted, what is written is such a fraction. *)
LEMMA FractionTypes ==
  ASSUME NEW v \in Float
  PROVE  SignedFraction(v) \in Written /\ UnsignedFraction(v) \in Written
<1>1. U32Max \in Nat \ {0}
  BY WidthFacts
<1>2. Zero \in Written
  BY <1>1 DEF Zero, Written
<1>3. ASSUME NEW f \in {Failed} \cup Fractions
      PROVE  f.ok = FALSE \/ (f.ok = TRUE /\ f.numerator \in Nat /\ f.denominator \in 1..U32Max)
  <2>1. CASE f = Failed
    <3>1. f.ok = FALSE
      BY <2>1 DEF Failed
    <3>2. QED
      BY <3>1
  <2>2. CASE f \in Fractions
    BY <2>2 DEF Fractions
  <2>3. QED
    BY <1>3, <2>1, <2>2
<1>4. SignedFraction(v) \in Written
  <2> DEFINE f == float_to_unsigned_fraction(AsF32(Abs(v)), I32Max)
  <2>1. Abs(v) \in Float /\ Abs(v)[1] \in Nat /\ I32Max \in {I32Max, U32Max}
    BY MagnitudeFits
  <2>2. f \in {Failed} \cup Fractions
    BY <2>1, ConversionType
  <2>3. SignedFraction(v) =
          IF ~f.ok THEN Zero
          ELSE [numerator |-> IF v[1] < 0 THEN -f.numerator ELSE f.numerator,
                denominator |-> f.denominator]
    BY DEF SignedFraction, WithSign
  <2> HIDE DEF f
  <2>4. f.ok = FALSE \/ (f.ok = TRUE /\ f.numerator \in Nat /\ f.denominator \in 1..U32Max)
    BY <1>3, <2>2
  <2>5. QED
    BY <1>2, <2>3, <2>4 DEF Written
<1>5. UnsignedFraction(v) \in Written
  <2> DEFINE f == float_to_unsigned_fraction(AsF32(Positive(v)), U32Max)
  <2>1. Positive(v) \in Float /\ Positive(v)[1] \in Nat /\ U32Max \in {I32Max, U32Max}
    BY PositiveIs
  <2>2. f \in {Failed} \cup Fractions
    BY <2>1, ConversionType
  <2>3. UnsignedFraction(v) =
          IF ~f.ok THEN Zero
          ELSE [numerator |-> f.numerator, denominator |-> f.denominator]
    BY PositiveIs DEF UnsignedFraction, WithSign
  <2> HIDE DEF f
  <2>4. f.ok = FALSE \/ (f.ok = TRUE /\ f.numerator \in Nat /\ f.denominator \in 1..U32Max)
    BY <1>3, <2>2
  <2>5. QED
    BY <1>2, <2>3, <2>4 DEF Written
<1>6. QED
  BY <1>4, <1>5

(* What is read of a value that was written signed, and unsigned. *)
SignedRead(v) == ToF64(SignedFraction(v))
UnsignedRead(v) == ToF64(UnsignedFraction(v))

(* Zero's fraction is read as zero. *)
LEMMA ZeroRead == ToF64(Zero) = Whole(0)
<1>1. Zero.denominator = 1 /\ Zero.numerator = 0 /\ Magnitude(0) = 0
  BY DEF Zero, Magnitude
<1> DEFINE w == AsF64(<<0, 1>>)
<1>2. w = Whole(0) /\ w[1] = 0 /\ w[2] = 1
  BY ZeroHeld DEF Whole
<1>3. AsF64(<<Magnitude(Zero.numerator), Zero.denominator>>) = w
  BY <1>1
<1> HIDE DEF w
<1>4. ToF64(Zero) = <<w[1], w[2]>>
  BY <1>1, <1>3 DEF ToF64
<1>5. QED
  BY <1>2, <1>4 DEF Whole

(* Zero has no sign. *)
LEMMA ZeroTurned ==
  ASSUME NEW m, m = Whole(0)
  PROVE  <<-m[1], m[2]>> = m
<1>1. m[1] = 0 /\ m[2] = 1 /\ m = <<0, 1>>
  BY DEF Whole
<1>2. -m[1] = m[1]
  <2>1. m[1] \in Int /\ m[1] <= 0 /\ m[1] >= 0
    BY <1>1
  <2>2. QED
    BY <2>1
<1>3. QED
  BY <1>1, <1>2

(* Signed, a value is read as its magnitude with its sign. *)
LEMMA SignedReadIs ==
  ASSUME NEW v \in Float
  PROVE  LET m == Reading(AsF32(Abs(v)), I32Max)
         IN SignedRead(v) = IF v[1] < 0 THEN <<-m[1], m[2]>> ELSE m
<1> DEFINE x == AsF32(Abs(v))
           f == float_to_unsigned_fraction(x, I32Max)
           m == Reading(x, I32Max)
           n == IF v[1] < 0 THEN -f.numerator ELSE f.numerator
<1>1. SignedFraction(v) = IF ~f.ok THEN Zero ELSE [numerator |-> n, denominator |-> f.denominator]
  BY DEF SignedFraction, WithSign
<1>2. m = IF ~f.ok THEN Whole(0) ELSE AsF64(<<f.numerator, f.denominator>>)
  BY DEF Reading
<1>3. f \in {Failed} \cup Fractions /\ IsValue(m)
  BY MagnitudeFits, ConversionType, ReadingIs
<1> HIDE DEF f, m
<1>4. CASE f = Failed
  <2>1. SignedFraction(v) = Zero /\ m = Whole(0)
    BY <1>1, <1>2, <1>4 DEF Failed
  <2>2. SignedRead(v) = m
    BY <2>1, ZeroRead DEF SignedRead
  <2>3. QED
    BY <2>1, <2>2, ZeroTurned DEF m
<1>5. CASE f \in Fractions
  <2> DEFINE i == f.numerator
             d == f.denominator
  <2>1. f.ok = TRUE /\ i \in Nat /\ d \in Nat \ {0}
    BY <1>5, FractionParts
  <2>2. SignedFraction(v) = [numerator |-> n, denominator |-> d] /\ m = AsF64(<<i, d>>)
    BY <1>1, <1>2, <2>1
  <2> HIDE DEF i, d
  <2>3. n = (IF v[1] < 0 THEN -i ELSE i)
    BY DEF i
  <2> HIDE DEF n
  <2>4. n \in Int /\ Magnitude(n) = i /\ (n < 0 <=> v[1] < 0 /\ i # 0)
    <3>1. CASE v[1] < 0
      BY <2>1, <2>3, <3>1 DEF Magnitude
    <3>2. CASE ~(v[1] < 0)
      BY <2>1, <2>3, <3>2 DEF Magnitude
    <3>3. QED
      BY <3>1, <3>2
  <2> DEFINE F == [numerator |-> n, denominator |-> d]
  <2>5. F.numerator = n /\ F.denominator = d
    OBVIOUS
  <2> HIDE DEF F
  <2>6. ToF64(F) = <<IF n < 0 THEN -m[1] ELSE m[1], m[2]>>
    BY <2>1, <2>2, <2>4, <2>5 DEF ToF64
  <2>7. m = <<m[1], m[2]>>
    BY <1>3, ValueParts
  <2>8. i = 0 => <<-m[1], m[2]>> = m
    <3>1. i = 0 => m = Whole(0)
      BY <2>1, <2>2, ZeroHeld
    <3>2. QED
      BY <3>1, ZeroTurned
  <2>9. SignedRead(v) = ToF64(F)
    BY <2>2 DEF SignedRead, F
  <2>10. SignedRead(v) = IF v[1] < 0 THEN <<-m[1], m[2]>> ELSE m
    <3>1. CASE n < 0
      BY <2>4, <2>6, <2>9, <3>1
    <3>2. CASE ~(n < 0)
      <4>1. SignedRead(v) = m /\ (v[1] < 0 => i = 0)
        BY <2>4, <2>6, <2>7, <2>9, <3>2
      <4>2. QED
        BY <2>8, <4>1
    <3>3. QED
      BY <3>1, <3>2
  <2>11. QED
    BY <2>10 DEF m
<1>6. QED
  BY <1>3, <1>4, <1>5

(* Unsigned, a value is read as it is, and a negative one as zero. *)
LEMMA UnsignedReadIs ==
  ASSUME NEW v \in Float
  PROVE  /\ UnsignedRead(v) = Reading(AsF32(Positive(v)), U32Max)
         /\ Positive(v) \in Float /\ Positive(v)[1] \in Nat
         /\ IsFinite(v) => IsValue(Positive(v))
<1> DEFINE y == AsF32(Positive(v))
           f == float_to_unsigned_fraction(y, U32Max)
           m == Reading(y, U32Max)
<1>1. UnsignedFraction(v) = IF ~f.ok THEN Zero
                            ELSE [numerator |-> f.numerator, denominator |-> f.denominator]
  BY PositiveIs DEF UnsignedFraction, WithSign
<1>2. m = IF ~f.ok THEN Whole(0) ELSE AsF64(<<f.numerator, f.denominator>>)
  BY DEF Reading
<1>3. f \in {Failed} \cup Fractions /\ IsValue(m)
  BY PositiveIs, ConversionType, ReadingIs
<1> HIDE DEF f, m
<1>4. UnsignedRead(v) = m
  <2>1. CASE f = Failed
    BY <1>1, <1>2, <2>1, ZeroRead DEF UnsignedRead, Failed
  <2>2. CASE f \in Fractions
    <3> DEFINE i == f.numerator
               d == f.denominator
    <3>1. f.ok = TRUE /\ i \in Nat /\ d \in Nat \ {0}
      BY <2>2, FractionParts
    <3>2. UnsignedFraction(v) = [numerator |-> i, denominator |-> d] /\ m = AsF64(<<i, d>>)
      BY <1>1, <1>2, <3>1
    <3> HIDE DEF i, d
    <3> DEFINE F == [numerator |-> i, denominator |-> d]
    <3>3. F.numerator = i /\ F.denominator = d /\ Magnitude(i) = i /\ ~(i < 0)
      BY <3>1 DEF Magnitude
    <3> HIDE DEF F
    <3>4. ToF64(F) = <<m[1], m[2]>>
      BY <3>1, <3>2, <3>3 DEF ToF64
    <3>5. UnsignedRead(v) = ToF64(F)
      BY <3>2 DEF UnsignedRead, F
    <3>6. QED
      BY <1>3, <3>4, <3>5, ValueParts
  <2>3. QED
    BY <1>3, <2>1, <2>2
<1>5. QED
  BY <1>4, PositiveIs DEF m

(* What is read of a magnitude, with its sign, is faithful.                  *)
LEMMA ReadIsFaithful ==
  ASSUME NEW v \in Float, NEW max \in {I32Max, U32Max}, NEW w,
         LET m == Reading(AsF32(Abs(v)), max)
         IN InRange(v, max) => w = IF v[1] < 0 THEN <<-m[1], m[2]>> ELSE m
  PROVE  Faithful(v, w, max)
<1> DEFINE x == AsF32(Abs(v))
           m == Reading(x, max)
<1>1. SUFFICES ASSUME InRange(v, max)
               PROVE  /\ IF w[1] = 0 THEN x[1] * U32Max < x[2]
                         ELSE (w[1] < 0 <=> v[1] < 0) /\ AsF32(Abs(w)) = x
                      /\ x[2] <= pow2[F32Bits] => Abs(w) = x
  BY DEF Faithful
<1>2. w = IF v[1] < 0 THEN <<-m[1], m[2]>> ELSE m
  BY <1>1
<1>3. Abs(v) \in Float /\ Abs(v)[1] \in Nat /\ Fits(x, max)
  BY <1>1, MagnitudeFits
<1>4. /\ IsValue(m) /\ (m = Whole(0) \/ AsF32(m) = x)
      /\ m = Whole(0) => x[1] * U32Max < x[2]
      /\ x[2] <= Hi(F32) => m = x
  BY <1>3, ReadingRegains, SmallIfZero, ReadingIs
<1>5. Hi(F32) = pow2[F32Bits]
  BY DEF Hi, F32
<1> HIDE DEF m, x
<1> DEFINE k == m[1]
<1>6. m = <<k, m[2]>> /\ k \in Nat /\ (k = 0 <=> m = Whole(0))
  BY <1>4, ValueParts, ZeroValue DEF Whole
<1>7. v[1] \in Int
  BY DEF Float
<1>8. w = <<IF v[1] < 0 THEN -k ELSE k, m[2]>>
  BY <1>2, <1>6
<1> DEFINE l == IF v[1] < 0 THEN -k ELSE k
<1>9. w[1] = l /\ w[2] = m[2]
  BY <1>8
<1> HIDE DEF k
<1>10. l \in Int /\ Magnitude(l) = k /\ (l = 0 <=> k = 0) /\ (k # 0 => (l < 0 <=> v[1] < 0))
  <2>1. CASE v[1] < 0
    BY <1>6, <2>1 DEF Magnitude
  <2>2. CASE ~(v[1] < 0)
    BY <1>6, <2>2 DEF Magnitude
  <2>3. QED
    BY <2>1, <2>2
<1> HIDE DEF l
<1>11. Abs(w) = m
  BY <1>6, <1>9, <1>10 DEF Abs
<1>12. QED
  BY <1>4, <1>5, <1>6, <1>9, <1>10, <1>11

(* What is written of a value, and read, is faithful to it.                  *)
LEMMA FractionsAreFaithful ==
  ASSUME NEW v \in Float
  PROVE  /\ Faithful(v, SignedRead(v), I32Max)
         /\ v[1] >= 0 => Faithful(v, UnsignedRead(v), U32Max)
<1>1. Faithful(v, SignedRead(v), I32Max)
  <2> DEFINE w == SignedRead(v)
             m == Reading(AsF32(Abs(v)), I32Max)
  <2>1. w = IF v[1] < 0 THEN <<-m[1], m[2]>> ELSE m
    BY SignedReadIs
  <2> HIDE DEF w
  <2>2. Faithful(v, w, I32Max)
    BY <2>1, ReadIsFaithful
  <2>3. QED
    BY <2>2 DEF w
<1>2. ASSUME v[1] >= 0 PROVE Faithful(v, UnsignedRead(v), U32Max)
  <2> DEFINE w == UnsignedRead(v)
             m == Reading(AsF32(Abs(v)), U32Max)
  <2>1. v[1] \in Int /\ ~(v[1] < 0) /\ Abs(v) = v
    BY <1>2, MagnitudeFits DEF Float
  <2>2. w = Reading(AsF32(Positive(v)), U32Max)
    BY UnsignedReadIs
  <2>3. InRange(v, U32Max) => IsValue(v)
    BY <2>1, MagnitudeFits
  <2>4. IsValue(v) => Positive(v) = v
    BY <1>2, <2>1, ZeroValue DEF Positive
  <2>5. InRange(v, U32Max) => w = m
    BY <2>1, <2>2, <2>3, <2>4
  <2> HIDE DEF w, m
  <2>6. InRange(v, U32Max) => w = IF v[1] < 0 THEN <<-m[1], m[2]>> ELSE m
    BY <2>1, <2>5
  <2>7. Faithful(v, w, U32Max)
    BY <2>6, ReadIsFaithful DEF m
  <2>8. QED
    BY <2>7 DEF w
<1>3. QED
  BY <1>1, <1>2

(* What was read is read again as it is.                                     *)
LEMMA ReadTwice ==
  ASSUME NEW v \in Float
  PROVE  /\ SignedRead(v) \in Float /\ IsFinite(SignedRead(v))
         /\ SignedRead(SignedRead(v)) = SignedRead(v)
         /\ IsValue(UnsignedRead(v))
         /\ UnsignedRead(UnsignedRead(v)) = UnsignedRead(v)
<1>1. /\ SignedRead(v) \in Float /\ IsFinite(SignedRead(v))
      /\ SignedRead(SignedRead(v)) = SignedRead(v)
  <2> DEFINE u == Abs(v)
             m == Reading(AsF32(u), I32Max)
             w == SignedRead(v)
  <2>1. u \in Float /\ u[1] \in Nat
    BY MagnitudeFits
  <2>2. IsValue(m) /\ Reading(AsF32(m), I32Max) = m
    BY <2>1, ReadingRegains
  <2>3. w = IF v[1] < 0 THEN <<-m[1], m[2]>> ELSE m
    BY SignedReadIs
  <2>4. v[1] \in Int
    BY DEF Float
  <2> HIDE DEF m, w
  <2>5. m = <<m[1], m[2]>> /\ m[1] \in Nat /\ m[2] \in Nat \ {0} /\ Coprime(Magnitude(m[1]), m[2])
    BY <2>2, ValueParts
  <2>6. Magnitude(-m[1]) = Magnitude(m[1]) /\ Magnitude(m[1]) = m[1]
    BY <2>5 DEF Magnitude
  <2>7. w \in Float /\ Abs(w) = m /\ IsFinite(w)
    <3>1. CASE v[1] < 0
      <4>1. w = <<-m[1], m[2]>> /\ -m[1] \in Int
        BY <2>3, <2>5, <3>1
      <4>2. QED
        BY <2>5, <2>6, <4>1 DEF Float, Coprime, Abs, IsFinite
    <3>2. CASE ~(v[1] < 0)
      <4>1. w = m
        BY <2>3, <3>2
      <4>2. QED
        BY <2>2, <2>5, <2>6, <4>1 DEF IsValue, Abs, IsFinite
    <3>3. QED
      BY <3>1, <3>2
  <2>8. SignedRead(w) = IF w[1] < 0 THEN <<-m[1], m[2]>> ELSE m
    BY <2>2, <2>7, SignedReadIs
  <2>9. (w[1] < 0 => v[1] < 0) /\ (v[1] < 0 /\ ~(w[1] < 0) => m[1] = 0 /\ w = m)
    <3>1. CASE v[1] < 0
      <4>1. w[1] = -m[1] /\ w = <<-m[1], m[2]>>
        BY <2>3, <3>1
      <4>2. ASSUME ~(w[1] < 0) PROVE m[1] = 0
        BY <2>5, <4>1, <4>2
      <4>3. m[1] = 0 => w = m
        BY <2>5, <4>1
      <4>4. QED
        BY <3>1, <4>2, <4>3
    <3>2. CASE ~(v[1] < 0)
      BY <2>3, <2>5, <3>2
    <3>3. QED
      BY <3>1, <3>2
  <2>10. SignedRead(w) = w
    BY <2>3, <2>8, <2>9
  <2>11. QED
    BY <2>7, <2>10 DEF w
<1>2. IsValue(UnsignedRead(v)) /\ UnsignedRead(UnsignedRead(v)) = UnsignedRead(v)
  <2> DEFINE w == UnsignedRead(v)
  <2>1. w = Reading(AsF32(Positive(v)), U32Max) /\ Positive(v) \in Float /\ Positive(v)[1] \in Nat
    BY UnsignedReadIs
  <2>2. IsValue(w) /\ Reading(AsF32(w), U32Max) = w
    BY <2>1, ReadingRegains
  <2> HIDE DEF w
  <2>3. w \in Float /\ w[1] \in Nat
    BY <2>2 DEF IsValue
  <2>4. Positive(w) = w
    <3>1. w[1] <= 0 => w = Whole(0)
      BY <2>2, <2>3, ZeroValue
    <3>2. QED
      BY <3>1 DEF Positive
  <2>5. UnsignedRead(w) = Reading(AsF32(w), U32Max)
    BY <2>3, <2>4, UnsignedReadIs
  <2>6. QED
    BY <2>2, <2>5 DEF w
<1>3. QED
  BY <1>1, <1>2

(* Values of either sign that are in order are read in order.                *)
LEMMA SignedOrder ==
  ASSUME NEW v \in Float, NEW w \in Float, InRange(v, I32Max), InRange(w, I32Max), AtMost(v, w)
  PROVE  AtMost(SignedRead(v), SignedRead(w))
<1> DEFINE m == Reading(AsF32(Abs(v)), I32Max)
           k == Reading(AsF32(Abs(w)), I32Max)
<1>1. /\ v[1] \in Int /\ v[2] \in Nat \ {0} /\ v = <<v[1], v[2]>>
      /\ w[1] \in Int /\ w[2] \in Nat \ {0} /\ w = <<w[1], w[2]>>
  BY DEF Float, InRange, IsFinite
<1>2. ASSUME NEW u \in {v, w}
      PROVE  /\ IsValue(Abs(u)) /\ Fits(AsF32(Abs(u)), I32Max) /\ IsValue(Reading(AsF32(Abs(u)), I32Max))
             /\ u[1] >= 0 => Abs(u) = u
             /\ Abs(u)[1] = Magnitude(u[1]) /\ Abs(u)[2] = u[2]
  <2>1. Abs(u) \in Float /\ Abs(u)[1] \in Nat /\ Fits(AsF32(Abs(u)), I32Max)
    BY MagnitudeFits
  <2>2. Abs(u)[1] = Magnitude(u[1]) /\ Abs(u)[2] = u[2]
    BY DEF Abs
  <2>3. IsValue(Abs(u))
    BY <1>1, <2>1, <2>2 DEF IsValue
  <2>4. u[1] >= 0 => Abs(u) = u
    BY <1>1 DEF Abs, Magnitude
  <2>5. IsValue(Reading(AsF32(Abs(u)), I32Max))
    BY <2>1, ReadingRegains
  <2>6. QED
    BY <2>1, <2>2, <2>3, <2>4, <2>5
<1>3. /\ SignedRead(v) = IF v[1] < 0 THEN <<-m[1], m[2]>> ELSE m
      /\ SignedRead(w) = IF w[1] < 0 THEN <<-k[1], k[2]>> ELSE k
  BY SignedReadIs
<1>4. IsValue(m) /\ IsValue(k)
  BY <1>2
<1>5. v[1] * w[2] <= w[1] * v[2]
  <2> DEFINE a == v[1]
             b == v[2]
             c == w[1]
             d == w[2]
  <2>1. v = w \/ a * d < c * b
    BY DEF AtMost, Less
  <2>2. v = w => a = c /\ b = d
    OBVIOUS
  <2>3. a \in Int /\ b \in Int /\ c \in Int /\ d \in Int
    BY <1>1
  <2> HIDE DEF a, b, c, d
  <2>4. a * d <= c * b
    BY <2>1, <2>2, <2>3
  <2>5. QED
    BY <2>4 DEF a, b, c, d
<1>6. /\ Below(Abs(v), Abs(w)) => Below(m, k)
      /\ Below(Abs(w), Abs(v)) => Below(k, m)
  BY <1>2, ReadingMonotone
<1> DEFINE a == v[1]
           b == v[2]
           c == w[1]
           d == w[2]
           i == m[1]
           j == m[2]
           g == k[1]
           h == k[2]
<1>7. /\ i \in Nat /\ j \in Nat \ {0} /\ m = <<i, j>>
      /\ g \in Nat /\ h \in Nat \ {0} /\ k = <<g, h>>
  BY <1>4, ValueParts
<1>8. /\ Below(m, k) <=> i * h <= g * j
      /\ Below(k, m) <=> g * j <= i * h
  BY DEF Below
<1>9. a \in Int /\ b \in Nat \ {0} /\ c \in Int /\ d \in Nat \ {0} /\ a * d <= c * b
  BY <1>1, <1>5
<1>10. CASE a >= 0
  <2>1. c >= 0
    <3> SUFFICES ASSUME c < 0 PROVE FALSE
      BY <1>9
    <3> HIDE DEF a, b, c, d
    <3>1. c * b < 0 * b /\ a * d >= 0 * d
      BY <1>9, <1>10
    <3>2. c * b \in Int /\ a * d \in Int
      BY <1>9
    <3>3. QED
      BY <1>9, <3>1, <3>2
  <2>2. Abs(v) = v /\ Abs(w) = w
    BY <1>2, <1>10, <2>1
  <2>3. Below(m, k)
    BY <1>5, <1>6, <2>2 DEF Below
  <2>4. SignedRead(v) = m /\ SignedRead(w) = k
    BY <1>3, <1>9, <1>10, <2>1
  <2>5. AtMost(m, k)
    <3>1. Less(m, k) <=> i * h < g * j
      BY DEF Less
    <3>2. i * h = g * j => Below(k, m)
      BY <1>7, <1>8
    <3>3. Below(k, m) => m = k
      BY <1>4, <2>3, BelowParts
    <3> DEFINE x == i * h
               y == g * j
    <3>4. x \in Nat /\ y \in Nat /\ x <= y
      BY <1>7, <1>8, <2>3
    <3>5. x < y \/ x = y
      <4> HIDE DEF x, y
      <4>1. QED
        BY <3>4
    <3>6. QED
      BY <3>1, <3>2, <3>3, <3>5 DEF AtMost
  <2>6. QED
    BY <2>4, <2>5
<1>11. CASE a < 0 /\ c >= 0
  <2>1. SignedRead(v) = <<-i, j>> /\ SignedRead(w) = k
    BY <1>3, <1>9, <1>11
  <2>2. Less(<<-i, j>>, k) <=> (-i) * h < g * j
    BY DEF Less
  <2> HIDE DEF i, j, g, h, m, k
  <2>3. CASE i = 0 /\ g = 0
    <3>1. m[1] = 0 /\ k[1] = 0
      BY <2>3 DEF i, g
    <3>2. m = Whole(0) /\ k = Whole(0)
      BY <1>4, <3>1, ZeroValue
    <3>3. m = k
      BY <3>2
    <3>4. -i = i
      <4>1. i \in Int /\ i <= 0 /\ i >= 0
        BY <1>7, <2>3
      <4>2. QED
        BY <4>1
    <3>5. <<-i, j>> = k
      BY <1>7, <3>3, <3>4
    <3>6. QED
      BY <2>1, <3>5 DEF AtMost
  <2>4. CASE ~(i = 0 /\ g = 0)
    <3>1. (-i) * h < g * j
      <4>1. i * h \in Nat /\ g * j \in Nat /\ (-i) * h = -(i * h)
        BY <1>7
      <4>2. i # 0 => i * h >= 1 * h
        BY <1>7
      <4>3. g # 0 => g * j >= 1 * j
        BY <1>7
      <4> DEFINE x == i * h
                 y == g * j
      <4>4. x \in Nat /\ y \in Nat /\ (x > 0 \/ y > 0)
        BY <1>7, <2>4, <4>1, <4>2, <4>3
      <4> HIDE DEF x, y
      <4>5. -x < y
        BY <4>4
      <4>6. QED
        BY <4>1, <4>5 DEF x, y
    <3>2. QED
      BY <2>1, <2>2, <3>1 DEF AtMost
  <2>5. QED
    BY <2>3, <2>4
<1>12. CASE a < 0 /\ c < 0
  <2>1. SignedRead(v) = <<-i, j>> /\ SignedRead(w) = <<-g, h>>
    BY <1>3, <1>12
  <2>2. Below(Abs(w), Abs(v))
    <3>1. Abs(v)[1] = -a /\ Abs(v)[2] = b /\ Abs(w)[1] = -c /\ Abs(w)[2] = d
      BY <1>2, <1>12 DEF Magnitude
    <3>2. Below(Abs(w), Abs(v)) <=> (-c) * b <= (-a) * d
      BY <3>1 DEF Below
    <3> HIDE DEF a, b, c, d
    <3>3. (-c) * b = -(c * b) /\ (-a) * d = -(a * d) /\ c * b \in Int /\ a * d \in Int
      BY <1>9
    <3>4. (-c) * b <= (-a) * d
      BY <1>9, <3>3
    <3>5. QED
      BY <3>2, <3>4
  <2>3. Below(k, m)
    BY <1>6, <2>2
  <2>4. Less(<<-i, j>>, <<-g, h>>) <=> (-i) * h < (-g) * j
    BY DEF Less
  <2>5. Below(m, k) => m = k
    BY <1>4, <2>3, BelowParts
  <2>6. m = k => i = g /\ j = h
    OBVIOUS
  <2> HIDE DEF i, j, g, h, m, k
  <2> DEFINE x == i * h
             y == g * j
  <2>7. x \in Nat /\ y \in Nat /\ y <= x /\ (-i) * h = -x /\ (-g) * j = -y
    BY <1>7, <1>8, <2>3
  <2>8. (x <= y => m = k)
    BY <1>8, <2>5
  <2> HIDE DEF x, y
  <2>9. (-i) * h < (-g) * j \/ m = k
    BY <2>7, <2>8
  <2>10. QED
    BY <2>1, <2>4, <2>6, <2>9 DEF AtMost
<1>13. QED
  BY <1>9, <1>10, <1>11, <1>12

(* Headrooms in range that are in order are read in order.                   *)
LEMMA UnsignedOrder ==
  ASSUME NEW v \in Float, NEW w \in Float, InRange(v, U32Max), InRange(w, U32Max), ~Less(w, v)
  PROVE  ~Less(UnsignedRead(w), UnsignedRead(v))
<1> DEFINE p == Positive(v)
           q == Positive(w)
<1>1. /\ v[1] \in Int /\ v[2] \in Nat \ {0} /\ v = <<v[1], v[2]>>
      /\ w[1] \in Int /\ w[2] \in Nat \ {0} /\ w = <<w[1], w[2]>>
      /\ IsFinite(v) /\ IsFinite(w)
  BY DEF Float, InRange, IsFinite
<1>2. /\ UnsignedRead(v) = Reading(AsF32(p), U32Max) /\ UnsignedRead(w) = Reading(AsF32(q), U32Max)
      /\ IsValue(p) /\ IsValue(q)
  BY <1>1, UnsignedReadIs
<1>3. Below(p, q)
  <2>1. CASE v[1] <= 0
    BY <1>2, <2>1, ZeroValue DEF Positive
  <2>2. CASE v[1] > 0
    <3> DEFINE a == v[1]
               b == v[2]
               c == w[1]
               d == w[2]
    <3>1. ~(c * b < a * d)
      BY DEF Less
    <3>2. a \in Int /\ b \in Nat \ {0} /\ c \in Int /\ d \in Nat \ {0} /\ a > 0
      BY <1>1, <2>2
    <3>3. Below(v, w) <=> a * d <= c * b
      BY DEF Below
    <3> HIDE DEF a, b, c, d
    <3>4. a * d <= c * b
      BY <3>1, <3>2
    <3>5. c > 0
      <4> SUFFICES ASSUME c <= 0 PROVE FALSE
        BY <3>2
      <4>1. c * b <= 0 * b /\ a * d >= 1 * d
        BY <3>2
      <4>2. c * b \in Int /\ a * d \in Int
        BY <3>2
      <4>3. QED
        BY <3>2, <3>4, <4>1, <4>2
    <3>6. p = v /\ q = w
      BY <3>2, <3>5 DEF Positive, a, c
    <3>7. QED
      BY <3>3, <3>4, <3>6
  <2>3. QED
    BY <1>1, <2>1, <2>2
<1>4. Fits(AsF32(q), U32Max)
  <2>1. CASE w[1] <= 0
    <3>1. AsF32(q) = Whole(0) /\ q = Whole(0)
      BY <2>1, ZeroHeld DEF Positive
    <3>2. Fits(Whole(0), U32Max)
      <4>1. U32Max \in Nat /\ 0 <= U32Max * 1
        BY WidthFacts
      <4>2. QED
        BY <4>1, ZeroValue DEF Fits
    <3>3. QED
      BY <3>1, <3>2
  <2>2. CASE ~(w[1] <= 0)
    <3>1. q = w /\ Abs(w) = w
      BY <1>1, <2>2 DEF Positive, Abs, Magnitude
    <3>2. Fits(AsF32(Abs(w)), U32Max)
      BY MagnitudeFits
    <3>3. QED
      BY <3>1, <3>2
  <2>3. QED
    BY <2>1, <2>2
<1>5. Below(UnsignedRead(v), UnsignedRead(w))
  BY <1>2, <1>3, <1>4, ReadingMonotone
<1> DEFINE x == UnsignedRead(v)
           y == UnsignedRead(w)
<1>6. x[1] * y[2] <= y[1] * x[2] /\ (Less(y, x) <=> y[1] * x[2] < x[1] * y[2])
  BY <1>5 DEF Below, Less
<1>7. IsValue(x) /\ IsValue(y)
  BY ReadTwice
<1> HIDE DEF x, y
<1>8. x[1] \in Nat /\ x[2] \in Nat /\ y[1] \in Nat /\ y[2] \in Nat
  BY <1>7, ValueParts
<1> DEFINE i == x[1] * y[2]
           j == y[1] * x[2]
<1>9. i \in Nat /\ j \in Nat /\ i <= j /\ (Less(y, x) <=> j < i)
  BY <1>6, <1>8
<1> HIDE DEF i, j
<1>10. ~Less(y, x)
  BY <1>9
<1>11. QED
  BY <1>10 DEF x, y

(* A gamma in range is read as a positive one.                               *)
LEMMA GammaStays ==
  ASSUME NEW v \in Float, InRange(v, U32Max), AtMost(Ratio(1, U32Max), AsF32(v)), v[1] > 0
  PROVE  UnsignedRead(v)[1] > 0
<1> DEFINE x == AsF32(v)
           w == UnsignedRead(v)
<1>1. v[1] \in Nat /\ v[2] \in Nat /\ v = <<v[1], v[2]>>
  BY DEF Float
<1>2. Positive(v) = v /\ Abs(v) = v
  BY <1>1 DEF Positive, Abs, Magnitude
<1>3. w = Reading(x, U32Max) /\ IsValue(w)
  BY <1>2, UnsignedReadIs, ReadTwice
<1>4. Fits(x, U32Max)
  <2>1. Fits(AsF32(Abs(v)), U32Max)
    BY MagnitudeFits
  <2>2. QED
    BY <1>2, <2>1
<1>5. IsValue(x)
  BY <1>4 DEF Fits
<1>6. Below(Ratio(1, U32Max), x)
  <2>1. IsValue(Ratio(1, U32Max))
    BY BelowParts, WidthFacts
  <2>2. QED
    BY <1>5, <2>1, BelowParts
<1> DEFINE a == x[1]
           b == x[2]
<1>7. a \in Nat /\ b \in Nat \ {0} /\ U32Max \in Nat \ {0}
  BY <1>5, ValueParts, WidthFacts
<1>8. b <= a * U32Max
  <2>0. 1 \in Int
    OBVIOUS
  <2>1. PICK p \in Int, q \in Nat \ {0}, g \in Nat \ {0} : Lowest(1, U32Max, p, q, g)
    BY <1>7, <2>0, RatioLowest
  <2>2. Ratio(1, U32Max) = <<p, q>> /\ 1 = g * p /\ U32Max = g * q
    BY <2>1 DEF Lowest
  <2>3. p \in Nat \ {0}
    BY <2>2
  <2>4. g = 1 /\ p = 1
    BY <2>2, <2>3
  <2>5. q = U32Max
    BY <2>2, <2>4
  <2>6. 1 * b <= a * U32Max
    BY <1>6, <2>2, <2>4, <2>5 DEF Below
  <2> HIDE DEF a, b
  <2>7. QED
    BY <1>7, <2>6
<1>9. ASSUME w = Whole(0) PROVE FALSE
  <2>1. a * U32Max < b
    BY <1>1, <1>3, <1>4, <1>9, SmallIfZero
  <2> HIDE DEF a, b
  <2>2. a * U32Max \in Nat
    BY <1>7
  <2>3. QED
    BY <1>7, <1>8, <2>1, <2>2
<1> HIDE DEF w
<1>10. w[1] \in Nat /\ w[1] # 0
  BY <1>3, <1>9, ValueParts, ZeroValue
<1>11. QED
  BY <1>10 DEF w

-----------------------------------------------------------------------------
(* GainMapIso21496                                                           *)

(* Words that spell fractions, one after the other.                          *)
Spells(w, fs) ==
  /\ fs \in Seq(Written) /\ w \in Seq(Int) /\ Len(w) = 2 * Len(fs)
  /\ \A j \in 1..Len(fs) : w[2 * j - 1] = fs[j].numerator /\ w[2 * j] = fs[j].denominator

(* Joined, they spell the fractions of the two parts. *)
LEMMA SpellsJoin ==
  ASSUME NEW a, NEW fs, Spells(a, fs), NEW b, NEW gs, Spells(b, gs)
  PROVE  Spells(a \o b, fs \o gs)
<1> DEFINE m == Len(fs)
           n == Len(gs)
           c == a \o b
           hs == fs \o gs
<1>1. /\ a \in Seq(Int) /\ b \in Seq(Int) /\ fs \in Seq(Written) /\ gs \in Seq(Written)
      /\ m \in Nat /\ n \in Nat /\ Len(a) = 2 * m /\ Len(b) = 2 * n
  BY LenProperties DEF Spells
<1>2. c \in Seq(Int) /\ Len(c) = 2 * m + 2 * n
  BY <1>1, ConcatProperties
<1>3. hs \in Seq(Written) /\ Len(hs) = m + n
  BY <1>1, ConcatProperties
<1>4. \A i \in 1..2 * m + 2 * n : c[i] = IF i <= 2 * m THEN a[i] ELSE b[i - 2 * m]
  <2> DEFINE x == 2 * m
             y == 2 * n
  <2>1. x \in Nat /\ y \in Nat /\ Len(a) = x /\ Len(b) = y
    BY <1>1
  <2> HIDE DEF x, y, c
  <2>2. \A i \in 1..x + y : c[i] = IF i <= x THEN a[i] ELSE b[i - x]
    BY <1>1, <2>1, ConcatProperties DEF c
  <2>3. QED
    BY <2>2 DEF x, y
<1>5. \A j \in 1..m + n : hs[j] = IF j <= m THEN fs[j] ELSE gs[j - m]
  BY <1>1, ConcatProperties
<1> HIDE DEF c, hs, m, n
<1>6. ASSUME NEW j \in 1..m + n
      PROVE  c[2 * j - 1] = hs[j].numerator /\ c[2 * j] = hs[j].denominator
  <2> DEFINE i == 2 * j
  <2>1. /\ i \in 1..2 * m + 2 * n /\ (i <= 2 * m <=> j <= m)
        /\ i - 1 \in 1..2 * m + 2 * n /\ (i - 1 <= 2 * m <=> j <= m)
    BY <1>1
  <2>2. CASE j <= m
    <3>1. c[i - 1] = a[i - 1] /\ c[i] = a[i] /\ hs[j] = fs[j]
      <4> HIDE DEF i
      <4>1. QED
        BY <1>4, <1>5, <2>1, <2>2
    <3>2. a[2 * j - 1] = fs[j].numerator /\ a[2 * j] = fs[j].denominator
      BY <1>1, <2>2 DEF Spells, m
    <3>3. QED
      BY <3>1, <3>2
  <2>3. CASE ~(j <= m)
    <3> DEFINE k == j - m
    <3>1. k \in 1..n /\ i - 1 - 2 * m = 2 * k - 1 /\ i - 2 * m = 2 * k
      BY <1>1, <2>3
    <3>2. c[i - 1] = b[2 * k - 1] /\ c[i] = b[2 * k] /\ hs[j] = gs[k]
      <4>1. c[i - 1] = b[i - 1 - 2 * m] /\ c[i] = b[i - 2 * m] /\ hs[j] = gs[k]
        <5> HIDE DEF i
        <5>1. QED
          BY <1>4, <1>5, <2>1, <2>3
      <4>2. QED
        BY <3>1, <4>1
    <3> HIDE DEF k
    <3>3. b[2 * k - 1] = gs[k].numerator /\ b[2 * k] = gs[k].denominator
      BY <1>1, <3>1 DEF Spells, n
    <3>4. QED
      BY <3>2, <3>3
  <2>4. QED
    BY <2>2, <2>3
<1>7. 2 * m + 2 * n = 2 * (m + n)
  BY <1>1
<1>8. QED
  BY <1>2, <1>3, <1>6, <1>7 DEF Spells, c, hs

(* A tuple with one value more. *)
LEMMA TupleGrows ==
  ASSUME NEW S, NEW s \in Seq(S), NEW x \in S, NEW t \in Seq(S),
         Len(t) = Len(s) + 1, \A i \in 1..Len(s) : t[i] = s[i], t[Len(s) + 1] = x
  PROVE  s \o <<x>> = t
<1> DEFINE c == s \o <<x>>
           n == Len(s)
<1>1. <<x>> \in Seq(S) /\ Len(<<x>>) = 1 /\ <<x>>[1] = x /\ n \in Nat
  BY LenProperties
<1>2. /\ c \in Seq(S) /\ Len(c) = n + 1
      /\ \A i \in 1..n + 1 : c[i] = IF i <= n THEN s[i] ELSE <<x>>[i - n]
  BY <1>1, ConcatProperties
<1> HIDE DEF c, n
<1>3. ASSUME NEW i \in 1..n + 1 PROVE c[i] = t[i]
  <2>1. CASE i <= n
    BY <1>1, <1>2, <2>1 DEF n
  <2>2. CASE ~(i <= n)
    <3>1. i = n + 1 /\ i - n = 1
      BY <1>1, <2>2
    <3>2. QED
      BY <1>1, <1>2, <2>2, <3>1 DEF n
  <2>3. QED
    BY <2>1, <2>2
<1>4. Len(t) = n + 1
  BY DEF n
<1>5. c = t
  BY <1>2, <1>3, <1>4, SeqEqual
<1>6. QED
  BY <1>5 DEF c

(* The two words of a fraction that is written. *)
LEMMA FractionSpelt ==
  ASSUME NEW f \in Written
  PROVE  Spells(Words(f), <<f>>)
<1>1. f.numerator \in Int /\ f.denominator \in Int
  BY WidthsAssumption DEF Written
<1>2. /\ Words(f) \in Seq(Int) /\ Len(Words(f)) = 2
      /\ Words(f)[1] = f.numerator /\ Words(f)[2] = f.denominator
  BY <1>1 DEF Words
<1>3. <<f>> \in Seq(Written) /\ Len(<<f>>) = 1 /\ <<f>>[1] = f
  OBVIOUS
<1> DEFINE w == Words(f)
           fs == <<f>>
<1>4. Len(w) = 2 * Len(fs)
  BY <1>2, <1>3
<1>5. ASSUME NEW j \in 1..Len(fs) PROVE w[2 * j - 1] = fs[j].numerator /\ w[2 * j] = fs[j].denominator
  <2>1. j = 1
    BY <1>3
  <2>2. 2 * j - 1 = 1 /\ 2 * j = 2
    BY <2>1
  <2> HIDE DEF w, fs
  <2>3. w[1] = fs[1].numerator /\ w[2] = fs[1].denominator
    BY <1>2, <1>3 DEF w, fs
  <2>4. QED
    BY <2>1, <2>2, <2>3
<1>6. QED
  BY <1>2, <1>3, <1>4, <1>5 DEF Spells

(* The fractions of a channel, in their order. *)
ChannelFractions(ch) ==
  <<SignedFraction(ch.min), SignedFraction(ch.max), UnsignedFraction(ch.gamma),
    SignedFraction(ch.base_offset), SignedFraction(ch.alternate_offset)>>

(* A channel spells its five fractions.                                      *)
LEMMA ChannelSpelt ==
  ASSUME NEW ch \in GainMapChannel
  PROVE  Spells(write_channel(ch), ChannelFractions(ch))
<1> DEFINE f1 == SignedFraction(ch.min)
           f2 == SignedFraction(ch.max)
           f3 == UnsignedFraction(ch.gamma)
           f4 == SignedFraction(ch.base_offset)
           f5 == SignedFraction(ch.alternate_offset)
<1>1. \A k \in Fields : ch[k] \in Float
  BY DEF GainMapChannel
<1>2. f1 \in Written /\ f2 \in Written /\ f3 \in Written /\ f4 \in Written /\ f5 \in Written
  BY <1>1, FractionTypes DEF Fields
<1>3. /\ write_channel(ch) = Words(f1) \o Words(f2) \o Words(f3) \o Words(f4) \o Words(f5)
      /\ ChannelFractions(ch) = <<f1, f2, f3, f4, f5>>
  BY DEF write_channel, ChannelFractions
<1> HIDE DEF f1, f2, f3, f4, f5
<1>4. /\ Spells(Words(f1), <<f1>>) /\ Spells(Words(f2), <<f2>>) /\ Spells(Words(f3), <<f3>>)
      /\ Spells(Words(f4), <<f4>>) /\ Spells(Words(f5), <<f5>>)
  BY <1>2, FractionSpelt
<1>5. Spells(Words(f1) \o Words(f2) \o Words(f3) \o Words(f4) \o Words(f5),
             <<f1>> \o <<f2>> \o <<f3>> \o <<f4>> \o <<f5>>)
  BY <1>4, SpellsJoin, Zenon
<1> DEFINE t1 == <<f1>>
           t2 == <<f1, f2>>
           t3 == <<f1, f2, f3>>
           t4 == <<f1, f2, f3, f4>>
           t5 == <<f1, f2, f3, f4, f5>>
<1>6. /\ t1 \in Seq(Written) /\ Len(t1) = 1 /\ t1[1] = f1
      /\ t2 \in Seq(Written) /\ Len(t2) = 2 /\ t2[1] = f1 /\ t2[2] = f2
      /\ t3 \in Seq(Written) /\ Len(t3) = 3 /\ t3[1] = f1 /\ t3[2] = f2 /\ t3[3] = f3
  BY <1>2
<1>7. /\ t4 \in Seq(Written) /\ Len(t4) = 4
      /\ t4[1] = f1 /\ t4[2] = f2 /\ t4[3] = f3 /\ t4[4] = f4
      /\ t5 \in Seq(Written) /\ Len(t5) = 5
      /\ t5[1] = f1 /\ t5[2] = f2 /\ t5[3] = f3 /\ t5[4] = f4 /\ t5[5] = f5
  BY <1>2
<1>8. t1 \o <<f2>> \o <<f3>> \o <<f4>> \o <<f5>> = t5
  <2> HIDE DEF t1, t2, t3, t4, t5
  <2>1. t1 \o <<f2>> = t2
    <3>1. /\ Len(t2) = Len(t1) + 1 /\ t2[Len(t1) + 1] = f2
          /\ \A i \in 1..Len(t1) : t2[i] = t1[i]
      BY <1>2, <1>6
    <3>2. QED
      BY <1>2, <1>6, <3>1, TupleGrows, Zenon
  <2>2. t2 \o <<f3>> = t3
    <3>1. /\ Len(t3) = Len(t2) + 1 /\ t3[Len(t2) + 1] = f3
          /\ \A i \in 1..Len(t2) : t3[i] = t2[i]
      BY <1>2, <1>6
    <3>2. QED
      BY <1>2, <1>6, <3>1, TupleGrows, Zenon
  <2>3. t3 \o <<f4>> = t4
    <3>1. /\ Len(t4) = Len(t3) + 1 /\ t4[Len(t3) + 1] = f4
          /\ \A i \in 1..Len(t3) : t4[i] = t3[i]
      BY <1>2, <1>6, <1>7
    <3>2. QED
      BY <1>2, <1>6, <1>7, <3>1, TupleGrows, Zenon
  <2>4. t4 \o <<f5>> = t5
    <3>1. /\ Len(t5) = Len(t4) + 1 /\ t5[Len(t4) + 1] = f5
          /\ \A i \in 1..Len(t4) : t5[i] = t4[i]
      BY <1>2, <1>7
    <3>2. QED
      BY <1>2, <1>7, <3>1, TupleGrows, Zenon
  <2>5. QED
    BY <2>1, <2>2, <2>3, <2>4, Zenon
<1>9. QED
  BY <1>3, <1>5, <1>8, Zenon

(* The fractions of a payload: two headrooms, and as many channels as the      *)
(* flags say.                                                                *)
PayloadFractions(p) ==
  <<UnsignedFraction(p.base_hdr_headroom), UnsignedFraction(p.alternate_hdr_headroom)>>
    \o ChannelFractions(p.channels[1])
    \o IF is_single_channel(p) THEN <<>>
       ELSE ChannelFractions(p.channels[2]) \o ChannelFractions(p.channels[3])

(* A payload spells its fractions.                                           *)
LEMMA PayloadSpelt ==
  ASSUME NEW p \in GainMapParams
  PROVE  Spells(write_payload(p), PayloadFractions(p))
<1> DEFINE f1 == UnsignedFraction(p.base_hdr_headroom)
           f2 == UnsignedFraction(p.alternate_hdr_headroom)
           w(c) == write_channel(p.channels[c])
           F(c) == ChannelFractions(p.channels[c])
           more == IF is_single_channel(p) THEN <<>> ELSE w(2) \o w(3)
           More == IF is_single_channel(p) THEN <<>> ELSE F(2) \o F(3)
<1>1. /\ p.base_hdr_headroom \in Float /\ p.alternate_hdr_headroom \in Float
      /\ \A c \in 1..3 : p.channels[c] \in GainMapChannel
  BY DEF GainMapParams
<1>2. f1 \in Written /\ f2 \in Written
  BY <1>1, FractionTypes
<1>3. \A c \in 1..3 : Spells(w(c), F(c))
  BY <1>1, ChannelSpelt
<1>4. /\ write_payload(p) = Words(f1) \o Words(f2) \o w(1) \o more
      /\ PayloadFractions(p) = <<f1, f2>> \o F(1) \o More
  BY Zenon DEF write_payload, PayloadFractions
<1> HIDE DEF f1, f2, w, F
<1>5. Spells(Words(f1), <<f1>>) /\ Spells(Words(f2), <<f2>>)
  BY <1>2, FractionSpelt
<1>6. <<f1>> \o <<f2>> = <<f1, f2>>
  <2> DEFINE s == <<f1>>
             t == <<f1, f2>>
  <2>1. /\ s \in Seq(Written) /\ Len(s) = 1 /\ s[1] = f1
        /\ t \in Seq(Written) /\ Len(t) = 2 /\ t[1] = f1 /\ t[2] = f2
    BY <1>2
  <2> HIDE DEF s, t
  <2>2. s \o <<f2>> = t
    <3>1. /\ Len(t) = Len(s) + 1 /\ t[Len(s) + 1] = f2
          /\ \A i \in 1..Len(s) : t[i] = s[i]
      BY <2>1
    <3>2. QED
      BY <1>2, <2>1, <3>1, TupleGrows, Zenon
  <2>3. QED
    BY <2>2 DEF s, t
<1>7. Spells(w(1), F(1)) /\ Spells(w(2), F(2)) /\ Spells(w(3), F(3))
  <2>1. 1 \in 1..3 /\ 2 \in 1..3 /\ 3 \in 1..3
    OBVIOUS
  <2>2. QED
    BY <1>3, <2>1, Zenon
<1>8. Spells(more, More)
  <2>1. CASE is_single_channel(p)
    <3>1. Spells(<<>>, <<>>)
      BY DEF Spells
    <3>2. QED
      BY <2>1, <3>1, Zenon
  <2>2. CASE ~is_single_channel(p)
    BY <1>7, <2>2, SpellsJoin, Zenon
  <2>3. QED
    BY <2>1, <2>2
<1> HIDE DEF more, More
<1>9. Spells(Words(f1) \o Words(f2), <<f1, f2>>)
  BY <1>5, <1>6, SpellsJoin, Zenon
<1>10. QED
  BY <1>4, <1>7, <1>8, <1>9, SpellsJoin, Zenon

(* Where the fractions of a payload are. *)
LEMMA FractionsAt ==
  ASSUME NEW p \in GainMapParams
  PROVE  LET fs == PayloadFractions(p)
             n == NumChannels(p)
         IN /\ n \in {1, 3} /\ Len(fs) = 2 + 5 * n
            /\ fs[1] = UnsignedFraction(p.base_hdr_headroom)
            /\ fs[2] = UnsignedFraction(p.alternate_hdr_headroom)
            /\ \A c \in 1..n : \A k \in 1..5 :
                 fs[5 * c - 3 + k] = ChannelFractions(p.channels[c])[k]
<1> DEFINE f1 == UnsignedFraction(p.base_hdr_headroom)
           f2 == UnsignedFraction(p.alternate_hdr_headroom)
           F(c) == ChannelFractions(p.channels[c])
           A == <<f1, f2>>
           B == F(1)
           C == F(2)
           D == F(3)
           AB == A \o B
           CD == C \o D
           fs == PayloadFractions(p)
<1>1. p.base_hdr_headroom \in Float /\ p.alternate_hdr_headroom \in Float
  BY DEF GainMapParams
<1>2. A \in Seq(Written) /\ Len(A) = 2 /\ A[1] = f1 /\ A[2] = f2
  <2>1. f1 \in Written /\ f2 \in Written
    BY <1>1, FractionTypes
  <2> HIDE DEF f1, f2
  <2>2. QED
    BY <2>1
<1>3. \A c \in 1..3 : F(c) \in Seq(Written) /\ Len(F(c)) = 5
  <2> SUFFICES ASSUME NEW c \in 1..3 PROVE F(c) \in Seq(Written) /\ Len(F(c)) = 5
    OBVIOUS
  <2>1. p.channels[c] \in GainMapChannel
    BY DEF GainMapParams
  <2>2. F(c) \in Seq(Written)
    BY <2>1, ChannelSpelt DEF Spells
  <2>3. Len(F(c)) = 5
    BY DEF ChannelFractions
  <2>4. QED
    BY <2>2, <2>3
<1>4. /\ B \in Seq(Written) /\ C \in Seq(Written) /\ D \in Seq(Written)
      /\ Len(B) = 5 /\ Len(C) = 5 /\ Len(D) = 5
  BY <1>3
<1>5. fs = AB \o (IF is_single_channel(p) THEN <<>> ELSE CD)
  BY Zenon DEF PayloadFractions
<1> HIDE DEF f1, f2, A, B, C, D, fs
<1>6. /\ AB \in Seq(Written) /\ Len(AB) = 7
      /\ \A j \in 1..7 : AB[j] = IF j <= 2 THEN A[j] ELSE B[j - 2]
  <2>1. /\ AB \in Seq(Written) /\ Len(AB) = Len(A) + Len(B)
        /\ \A j \in 1..Len(A) + Len(B) : AB[j] = IF j <= Len(A) THEN A[j] ELSE B[j - Len(A)]
    BY <1>2, <1>4, ConcatProperties
  <2>2. Len(A) = 2 /\ Len(A) + Len(B) = 7
    BY <1>2, <1>4
  <2> HIDE DEF AB
  <2>3. QED
    BY <2>1, <2>2
<1>7. /\ CD \in Seq(Written) /\ Len(CD) = 10
      /\ \A j \in 1..10 : CD[j] = IF j <= 5 THEN C[j] ELSE D[j - 5]
  <2>1. /\ CD \in Seq(Written) /\ Len(CD) = Len(C) + Len(D)
        /\ \A j \in 1..Len(C) + Len(D) : CD[j] = IF j <= Len(C) THEN C[j] ELSE D[j - Len(C)]
    BY <1>4, ConcatProperties
  <2>2. Len(C) = 5 /\ Len(C) + Len(D) = 10
    BY <1>4
  <2> HIDE DEF CD
  <2>3. QED
    BY <2>1, <2>2
<1> HIDE DEF AB, CD
<1>8. AB[1] = f1 /\ AB[2] = f2 /\ \A k \in 1..5 : AB[2 + k] = B[k]
  <2>1. ASSUME NEW k \in 1..5 PROVE AB[2 + k] = B[k]
    <3>1. 2 + k \in 1..7 /\ ~(2 + k <= 2) /\ 2 + k - 2 = k
      OBVIOUS
    <3>2. QED
      BY <1>6, <3>1
  <2>2. QED
    BY <1>2, <1>6, <2>1
<1>9. CASE is_single_channel(p)
  <2>1. fs = AB /\ NumChannels(p) = 1
    <3>1. fs = AB \o <<>>
      BY <1>5, <1>9
    <3>2. QED
      BY <1>6, <1>9, <3>1, ConcatEmptySeq DEF NumChannels
  <2>2. \A c \in 1..1 : \A k \in 1..5 : fs[5 * c - 3 + k] = F(c)[k]
    <3>1. \A k \in 1..5 : fs[2 + k] = F(1)[k]
      BY <1>8, <2>1 DEF B
    <3>2. \A c \in 1..1 : \A k \in 1..5 : c = 1 /\ 5 * c - 3 + k = 2 + k
      OBVIOUS
    <3> HIDE DEF F
    <3>3. QED
      BY <3>1, <3>2
  <2>3. QED
    BY <1>6, <1>8, <2>1, <2>2 DEF fs, f1, f2
<1>10. CASE ~is_single_channel(p)
  <2>1. fs = AB \o CD /\ NumChannels(p) = 3
    BY <1>5, <1>10 DEF NumChannels
  <2>2. /\ Len(fs) = 17
        /\ \A j \in 1..17 : fs[j] = IF j <= 7 THEN AB[j] ELSE CD[j - 7]
    <3> DEFINE X == AB \o CD
    <3>1. /\ Len(X) = Len(AB) + Len(CD)
          /\ \A j \in 1..Len(AB) + Len(CD) : X[j] = IF j <= Len(AB) THEN AB[j] ELSE CD[j - Len(AB)]
      BY <1>6, <1>7, ConcatProperties
    <3>2. Len(AB) = 7 /\ Len(AB) + Len(CD) = 17 /\ fs = X
      BY <1>6, <1>7, <2>1
    <3> HIDE DEF X
    <3>3. QED
      BY <3>1, <3>2
  <2>3. fs[1] = f1 /\ fs[2] = f2
    BY <1>8, <2>2
  <2>4. ASSUME NEW k \in 1..5
        PROVE  fs[2 + k] = B[k] /\ fs[7 + k] = C[k] /\ fs[12 + k] = D[k]
    <3>1. /\ 2 + k \in 1..17 /\ 2 + k <= 7
          /\ 7 + k \in 1..17 /\ ~(7 + k <= 7) /\ 7 + k - 7 = k /\ k \in 1..10 /\ k <= 5
          /\ 12 + k \in 1..17 /\ ~(12 + k <= 7) /\ 12 + k - 7 = 5 + k
          /\ 5 + k \in 1..10 /\ ~(5 + k <= 5) /\ 5 + k - 5 = k
      OBVIOUS
    <3>2. fs[2 + k] = AB[2 + k] /\ fs[7 + k] = CD[k] /\ fs[12 + k] = CD[5 + k]
      BY <2>2, <3>1
    <3>3. CD[k] = C[k] /\ CD[5 + k] = D[k]
      BY <1>7, <3>1
    <3>4. QED
      BY <1>8, <3>2, <3>3
  <2>5. \A c \in 1..3 : \A k \in 1..5 : fs[5 * c - 3 + k] = F(c)[k]
    <3>1. \A k \in 1..5 : fs[2 + k] = F(1)[k] /\ fs[7 + k] = F(2)[k] /\ fs[12 + k] = F(3)[k]
      BY <2>4 DEF B, C, D
    <3>2. \A c \in 1..3 : \A k \in 1..5 :
            \/ c = 1 /\ 5 * c - 3 + k = 2 + k
            \/ c = 2 /\ 5 * c - 3 + k = 7 + k
            \/ c = 3 /\ 5 * c - 3 + k = 12 + k
      OBVIOUS
    <3> HIDE DEF F
    <3>3. QED
      BY <3>1, <3>2
  <2>6. NumChannels(p) \in {1, 3} /\ Len(fs) = 2 + 5 * NumChannels(p)
    BY <2>1, <2>2
  <2>7. QED
    BY <2>1, <2>3, <2>5, <2>6 DEF fs, f1, f2
<1>11. QED
  BY <1>9, <1>10

(* A file, of this crate or another: what fields it has, and denominators     *)
(* that are u32.                                                             *)
IsFile(f) ==
  f \in Files /\ \A k \in Denominators(f) \cap DOMAIN f.words : f.words[k] \in 0..U32Max

(* How many words a layout has. *)
LEMMA LayoutSize ==
  ASSUME NEW f
  PROVE  /\ Channels(f) \in {1, 3}
         /\ WordsNeeded(f) \in Nat
         /\ Compact(f) => WordsNeeded(f) = 3 + 5 * Channels(f)
         /\ ~Compact(f) => WordsNeeded(f) = 4 + 10 * Channels(f)
<1>1. Channels(f) \in {1, 3}
  BY DEF Channels
<1>2. QED
  BY <1>1 DEF WordsNeeded

(* A header is at least the two version numbers and the flags.               *)
Behind(f) == IF f.format = "JpegApp2BodyWithUrn" THEN UrnSize ELSE 0
Header(f) == IF f.format = "AvifTmap" THEN AVIF_HEADER_SIZE ELSE JPEG_HEADER_SIZE

(* A header is what is cut off before it and what is left of it. *)
LEMMA HeaderParts ==
  ASSUME NEW f, f.format \in AllFormats
  PROVE  /\ HeaderSize(f.format) = Behind(f) + Header(f)
         /\ Behind(f) \in {0, 28} /\ Header(f) \in {5, 6}
         /\ f.format = "JpegApp2BodyWithUrn" => Behind(f) = 28 /\ Header(f) = 5
<1>1. CASE f.format = "AvifTmap"
  BY <1>1 DEF HeaderSize, Behind, Header, AVIF_HEADER_SIZE
<1>2. CASE f.format \in {"JxlJhgm", "JpegApp2"}
  <2>1. HeaderSize(f.format) = JPEG_HEADER_SIZE
    BY <1>2, Zenon DEF HeaderSize
  <2>2. QED
    BY <1>2, <2>1 DEF Behind, Header, JPEG_HEADER_SIZE
<1>3. CASE f.format = "JpegApp2BodyWithUrn"
  <2>1. HeaderSize(f.format) = UrnSize + JPEG_HEADER_SIZE
    BY <1>3, Zenon DEF HeaderSize
  <2>2. QED
    BY <1>3, <2>1 DEF Behind, Header, JPEG_HEADER_SIZE, UrnSize
<1>4. QED
  BY <1>1, <1>2, <1>3 DEF AllFormats

(* A file is as long as its header and its words, but for the signal of a     *)
(* primary image, which ends before the flags.                               *)
LEMMA SizeParts ==
  ASSUME NEW f, IsFile(f)
  PROVE  /\ Len(f.words) \in Nat /\ Size(f) \in Nat
         /\ f # ISO_21496_1_PRIMARY_APP2_BODY =>
              Size(f) = Behind(f) + Header(f) + 4 * Len(f.words)
         /\ f = ISO_21496_1_PRIMARY_APP2_BODY =>
              Size(f) = 32 /\ f.format = "JpegApp2BodyWithUrn"
<1>1. f.format \in AllFormats /\ f.words \in Seq(Int)
  BY DEF IsFile, Files
<1>2. Len(f.words) \in Nat
  BY <1>1, LenProperties
<1>3. CASE f = ISO_21496_1_PRIMARY_APP2_BODY
  <2>1. Size(f) = UrnSize + 4
    BY <1>3 DEF Size
  <2>2. f.format = "JpegApp2BodyWithUrn"
    BY <1>3, Zenon DEF ISO_21496_1_PRIMARY_APP2_BODY
  <2>3. QED
    BY <1>2, <1>3, <2>1, <2>2 DEF UrnSize
<1>4. CASE f # ISO_21496_1_PRIMARY_APP2_BODY
  <2>1. Size(f) = HeaderSize(f.format) + 4 * Len(f.words)
    BY <1>4 DEF Size
  <2>2. QED
    BY <1>1, <1>2, <1>4, <2>1, HeaderParts
<1>5. QED
  BY <1>3, <1>4

(* What this crate writes: the full layout, no zero denominator, the          *)
(* announced size.                                                           *)
LEMMA SerializedFile ==
  ASSUME NEW p \in GainMapParams, NEW format \in AllFormats,
         NEW f, f = serialize(p, format)
  PROVE  /\ f.format = format /\ IsFile(f)
         /\ f.urn = ISO_21496_1_URN /\ f.version = 0 /\ f.minimum_version = 0
         /\ ~Compact(f) /\ Len(f.words) = WordsNeeded(f)
         /\ \A k \in Denominators(f) : f.words[k] \in 1..U32Max
         /\ f # ISO_21496_1_PRIMARY_APP2_BODY
         /\ Size(f) = serialized_size(p, format)
<1> DEFINE w == write_payload(p)
           n == NumChannels(p)
           flags == build_flags(p)
<1>1. /\ f = [format |-> format, urn |-> ISO_21496_1_URN, version |-> 0,
              minimum_version |-> 0, flags |-> flags, words |-> w]
  BY DEF serialize
<1>2. /\ Spells(w, PayloadFractions(p))
      /\ Len(PayloadFractions(p)) = 2 + 5 * n /\ n \in {1, 3}
  BY PayloadSpelt, FractionsAt
<1>3. flags \subseteq Flags /\ "common_denominator" \notin flags
  BY DEF build_flags, Flags
<1>4. "multi_channel" \in flags <=> ~is_single_channel(p)
  BY DEF build_flags, Flags
<1>5. n = IF is_single_channel(p) THEN 1 ELSE 3
  BY DEF NumChannels
<1> HIDE DEF w, n, flags
<1>6. f.format = format /\ f.urn = ISO_21496_1_URN /\ f.version = 0 /\ f.minimum_version = 0
  BY <1>1
<1>7. f.flags = flags /\ f.words = w
  BY <1>1
<1>8. ~Compact(f) /\ Channels(f) = n
  BY <1>3, <1>4, <1>5, <1>7 DEF Compact, Channels
<1>9. WordsNeeded(f) = 4 + 10 * n
  BY <1>8, LayoutSize
<1>10. w \in Seq(Int) /\ Len(w) = 4 + 10 * n /\ \A j \in 1..2 + 5 * n : w[2 * j] \in 1..U32Max
  <2> DEFINE fs == PayloadFractions(p)
  <2>1. /\ fs \in Seq(Written) /\ w \in Seq(Int) /\ Len(w) = 2 * Len(fs)
        /\ \A j \in 1..Len(fs) : w[2 * j] = fs[j].denominator
    BY <1>2 DEF Spells
  <2>2. Len(fs) = 2 + 5 * n
    BY <1>2
  <2> HIDE DEF fs
  <2>3. \A j \in 1..2 + 5 * n : fs[j].denominator \in 1..U32Max
    <3>1. \A j \in 1..2 + 5 * n : fs[j] \in Written
      BY <2>1, <2>2
    <3>2. QED
      BY <3>1 DEF Written
  <2>4. Len(w) = 4 + 10 * n
    BY <1>2, <2>1, <2>2
  <2>5. QED
    BY <2>1, <2>2, <2>3, <2>4
<1>11. ASSUME NEW k \in Denominators(f) PROVE f.words[k] \in 1..U32Max
  <2>1. k \in 1..(4 + 10 * n) /\ k % 2 = 0
    BY <1>8, <1>9 DEF Denominators
  <2>2. PICK j \in 1..2 + 5 * n : k = 2 * j
    <3>1. k \div 2 \in 1..2 + 5 * n /\ k = 2 * (k \div 2)
      BY <1>2, <2>1
    <3>2. QED
      BY <3>1
  <2>3. QED
    BY <1>7, <1>10, <2>2
<1>12. f \in Files
  BY <1>1, <1>3, <1>10 DEF Files
<1>13. IsFile(f)
  BY <1>11, <1>12, WidthsAssumption DEF IsFile
<1>14. f # ISO_21496_1_PRIMARY_APP2_BODY
  <2>1. ISO_21496_1_PRIMARY_APP2_BODY.words = <<>>
    BY DEF ISO_21496_1_PRIMARY_APP2_BODY
  <2>2. Len(w) # 0
    BY <1>2, <1>10
  <2>3. w # <<>>
    BY <1>10, <2>2, EmptySeq
  <2>4. QED
    BY <1>7, <2>1, <2>3
<1>15. Size(f) = serialized_size(p, format)
  <2>1. Size(f) = HeaderSize(format) + 4 * (4 + 10 * n)
    BY <1>6, <1>7, <1>10, <1>14 DEF Size
  <2>2. serialized_size(p, format) = HeaderSize(format) + 16 + n * 5 * 8
    BY DEF serialized_size, FRACTION_SIZE, n
  <2>3. HeaderSize(format) \in Nat
    BY <1>6, HeaderParts
  <2>4. QED
    BY <1>2, <2>1, <2>2, <2>3
<1>16. QED
  BY <1>6, <1>7, <1>8, <1>9, <1>10, <1>11, <1>13, <1>14, <1>15

(* The parse, straight: what is in the way, in this order, or the payload.    *)
BadUrn(f) == f.format = "JpegApp2BodyWithUrn" /\ f.urn # ISO_21496_1_URN
BadVersion(f) == (f.format = "AvifTmap" /\ f.version # 0) \/ f.minimum_version > 0

(* Every container's parse is this parse. *)
LEMMA ParseAnswer ==
  ASSUME NEW f, f.format \in AllFormats, NEW len \in Nat
  PROVE  parse_iso21496_fmt(f, len) =
           IF len < Behind(f) \/ BadUrn(f) THEN Refused("UrnMismatch")
           ELSE IF len - Behind(f) < Header(f) THEN TruncatedData(Header(f), len - Behind(f))
           ELSE IF BadVersion(f) THEN Refused("UnsupportedVersion")
           ELSE parse_payload(f, Header(f), len - Behind(f))
<1> DEFINE a == parse_iso21496_fmt(f, len)
<1>1. CASE f.format = "AvifTmap"
  <2>1. a = parse_avif(f, len)
    BY <1>1, Zenon DEF parse_iso21496_fmt
  <2>2. len - 0 = len /\ ~(len < 0)
    OBVIOUS
  <2>3. Behind(f) = 0 /\ Header(f) = AVIF_HEADER_SIZE /\ ~BadUrn(f)
    BY <1>1 DEF Behind, Header, BadUrn
  <2>4. BadVersion(f) <=> f.version # 0 \/ f.minimum_version > 0
    BY <1>1 DEF BadVersion
  <2>5. QED
    BY <2>1, <2>2, <2>3, <2>4, Zenon DEF parse_avif, parse_after_version
<1>2. CASE f.format \in {"JxlJhgm", "JpegApp2"}
  <2>1. a = parse_no_version(f, len)
    BY <1>2, Zenon DEF parse_iso21496_fmt
  <2>2. len - 0 = len /\ ~(len < 0)
    OBVIOUS
  <2>3. Behind(f) = 0 /\ Header(f) = JPEG_HEADER_SIZE /\ ~BadUrn(f)
    BY <1>2 DEF Behind, Header, BadUrn
  <2>4. BadVersion(f) <=> f.minimum_version > 0
    BY <1>2 DEF BadVersion
  <2>5. QED
    BY <2>1, <2>2, <2>3, <2>4, Zenon DEF parse_no_version, parse_after_version
<1>3. CASE f.format = "JpegApp2BodyWithUrn"
  <2>1. a = parse_with_urn(f, len)
    BY <1>3, Zenon DEF parse_iso21496_fmt
  <2>2. Behind(f) = UrnSize /\ Header(f) = JPEG_HEADER_SIZE
    BY <1>3 DEF Behind, Header
  <2>3. BadUrn(f) <=> f.urn # ISO_21496_1_URN
    BY <1>3, Zenon DEF BadUrn
  <2>4. BadVersion(f) <=> f.minimum_version > 0
    BY <1>3 DEF BadVersion
  <2>5. QED
    BY <2>1, <2>2, <2>3, <2>4, Zenon DEF parse_with_urn, parse_no_version, parse_after_version
<1>4. QED
  BY <1>1, <1>2, <1>3 DEF AllFormats

(* The words that end the parse of a payload, and the parameters that they     *)
(* make if there are none.                                                   *)
BadWords(f, header, len) ==
  {k \in 1..WordsNeeded(f) : header + 4 * k > len \/ (k \in Denominators(f) /\ f.words[k] = 0)}

Params(f) ==
  [channels |-> [c \in 1..3 |-> ChannelAt(f, IF Channels(f) = 1 THEN 1 ELSE c)],
   base_hdr_headroom |-> ValueAt(f, 1),
   alternate_hdr_headroom |-> ValueAt(f, 2),
   use_base_color_space |-> "use_base_colour_space" \in f.flags,
   backward_direction |-> "backward_direction" \in f.flags]

(* The first of these words decides what the payload is answered with. *)
LEMMA PayloadAnswer ==
  ASSUME NEW f, NEW header, NEW len
  PROVE  /\ BadWords(f, header, len) = {} => parse_payload(f, header, len) = Parsed(Params(f))
         /\ BadWords(f, header, len) # {} =>
              \E k \in BadWords(f, header, len) :
                /\ \A j \in BadWords(f, header, len) : k <= j
                /\ parse_payload(f, header, len) =
                     IF header + 4 * k > len THEN TruncatedData(header + 4 * k, len)
                     ELSE Refused("ZeroDenominator")
<1> DEFINE bad == BadWords(f, header, len)
           k == Min(bad)
<1>1. parse_payload(f, header, len) =
        IF bad # {}
        THEN IF header + 4 * k > len THEN TruncatedData(header + 4 * k, len)
             ELSE Refused("ZeroDenominator")
        ELSE Parsed(Params(f))
  BY Zenon DEF parse_payload, BadWords, Params
<1>2. bad # {} => k \in bad /\ \A j \in bad : k <= j
  <2>1. bad \in SUBSET Nat
    BY DEF BadWords
  <2> HIDE DEF bad
  <2>2. QED
    BY <2>1, LeastExists DEF Min
<1> HIDE DEF bad, k
<1>3. bad = {} => parse_payload(f, header, len) = Parsed(Params(f))
  BY <1>1, Zenon
<1>4. bad # {} =>
        \E j \in bad :
          /\ \A i \in bad : j <= i
          /\ parse_payload(f, header, len) =
               IF header + 4 * j > len THEN TruncatedData(header + 4 * j, len)
               ELSE Refused("ZeroDenominator")
  BY <1>1, <1>2, Zenon
<1>5. QED
  BY <1>3, <1>4, Zenon DEF bad

(* The kinds of answers differ. *)
LEMMA AnswerKinds ==
  /\ \A p : Parsed(p).is = "ok" /\ Parsed(p).params = p
  /\ \A e, a : /\ TruncatedData(e, a).is = "TruncatedData"
               /\ TruncatedData(e, a).expected = e /\ TruncatedData(e, a).actual = a
  /\ \A w : Refused(w).is = w
BY DEF Parsed, TruncatedData, Refused

(* A file that parses: nothing is in the way, and what it says is Params.     *)
LEMMA ParseOk ==
  ASSUME NEW f, f.format \in AllFormats, NEW len \in Nat
  PROVE  /\ parse_iso21496_fmt(f, len).is = "ok" <=>
              /\ len >= Behind(f) + Header(f) /\ ~BadUrn(f) /\ ~BadVersion(f)
              /\ BadWords(f, Header(f), len - Behind(f)) = {}
         /\ parse_iso21496_fmt(f, len).is = "ok" =>
              parse_iso21496_fmt(f, len) = Parsed(Params(f))
<1> DEFINE a == parse_iso21496_fmt(f, len)
           here == len - Behind(f)
           p == parse_payload(f, Header(f), here)
           bad == BadWords(f, Header(f), here)
<1>1. a = IF len < Behind(f) \/ BadUrn(f) THEN Refused("UrnMismatch")
          ELSE IF here < Header(f) THEN TruncatedData(Header(f), here)
          ELSE IF BadVersion(f) THEN Refused("UnsupportedVersion") ELSE p
  BY ParseAnswer
<1>2. bad = {} => p = Parsed(Params(f))
  BY PayloadAnswer, Zenon
<1>3. bad # {} => p.is \in {"TruncatedData", "ZeroDenominator"}
  <2> SUFFICES ASSUME bad # {} PROVE p.is \in {"TruncatedData", "ZeroDenominator"}
    OBVIOUS
  <2>1. PICK k \in bad :
          p = IF Header(f) + 4 * k > here THEN TruncatedData(Header(f) + 4 * k, here)
              ELSE Refused("ZeroDenominator")
    BY PayloadAnswer, Zenon
  <2>2. /\ TruncatedData(Header(f) + 4 * k, here).is = "TruncatedData"
        /\ Refused("ZeroDenominator").is = "ZeroDenominator"
    BY AnswerKinds
  <2> HIDE DEF p, here
  <2>3. QED
    BY <2>1, <2>2
<1>4. /\ len < Behind(f) + Header(f) <=> len < Behind(f) \/ here < Header(f)
      /\ len >= Behind(f) + Header(f) <=> ~(len < Behind(f) + Header(f))
  BY HeaderParts
<1> HIDE DEF a, p, bad, here
<1>5. Parsed(Params(f)).is = "ok"
  BY AnswerKinds, Zenon
<1>6. /\ Refused("UrnMismatch").is # "ok" /\ Refused("UnsupportedVersion").is # "ok"
      /\ TruncatedData(Header(f), here).is # "ok"
  BY AnswerKinds
<1>7. a.is = "ok" <=> /\ len >= Behind(f) + Header(f) /\ ~BadUrn(f) /\ ~BadVersion(f)
                      /\ bad = {}
  BY <1>1, <1>2, <1>3, <1>4, <1>5, <1>6
<1>8. a.is = "ok" => a = Parsed(Params(f))
  BY <1>1, <1>2, <1>3, <1>4, <1>6, <1>7
<1>9. QED
  BY <1>7, <1>8 DEF a, bad, here

(* What a prefix was refused for, the whole is refused for, and what a prefix  *)
(* made, the whole makes: only missing bytes are no answer.                  *)
LEMMA AnswerStays ==
  ASSUME NEW f, f.format \in AllFormats, NEW l \in Nat, NEW m \in Nat, l <= m,
         LET a == parse_iso21496_fmt(f, l)
         IN a.is # "TruncatedData" /\ ~(a.is = "UrnMismatch" /\ l < Behind(f))
  PROVE  parse_iso21496_fmt(f, m) = parse_iso21496_fmt(f, l)
<1> DEFINE a == parse_iso21496_fmt(f, l)
           b == parse_iso21496_fmt(f, m)
           h == Header(f)
           x == l - Behind(f)
           y == m - Behind(f)
           p == parse_payload(f, h, x)
           q == parse_payload(f, h, y)
<1>1. a = IF l < Behind(f) \/ BadUrn(f) THEN Refused("UrnMismatch")
          ELSE IF x < h THEN TruncatedData(h, x)
          ELSE IF BadVersion(f) THEN Refused("UnsupportedVersion") ELSE p
  BY ParseAnswer
<1>2. b = IF m < Behind(f) \/ BadUrn(f) THEN Refused("UrnMismatch")
          ELSE IF y < h THEN TruncatedData(h, y)
          ELSE IF BadVersion(f) THEN Refused("UnsupportedVersion") ELSE q
  BY ParseAnswer
<1>3. x \in Int /\ y \in Int /\ x <= y /\ h \in Int /\ (l >= Behind(f) => m >= Behind(f))
      /\ Behind(f) \in Int
  BY HeaderParts
<1>4. p.is # "TruncatedData" => q = p
  <2> DEFINE P == BadWords(f, h, x)
             Q == BadWords(f, h, y)
  <2>1. SUFFICES ASSUME p.is # "TruncatedData" PROVE q = p
    OBVIOUS
  <2>2. WordsNeeded(f) \in Nat
    BY LayoutSize
  <2>3. Q \subseteq P
    BY <1>3, <2>2 DEF BadWords
  <2>4. CASE P = {}
    <3>1. Q = {}
      BY <2>3, <2>4, Zenon
    <3>2. QED
      BY <2>4, <3>1, PayloadAnswer, Zenon
  <2>5. CASE P # {}
    <3>1. PICK k \in P :
            /\ \A j \in P : k <= j
            /\ p = IF h + 4 * k > x THEN TruncatedData(h + 4 * k, x)
                   ELSE Refused("ZeroDenominator")
      BY <2>5, PayloadAnswer, Zenon
    <3>2. TruncatedData(h + 4 * k, x).is = "TruncatedData"
      BY AnswerKinds, Zenon
    <3>3. ~(h + 4 * k > x) /\ p = Refused("ZeroDenominator")
      BY <2>1, <3>1, <3>2, Zenon
    <3>4. k \in 1..WordsNeeded(f) /\ k \in Denominators(f) /\ f.words[k] = 0
      BY <3>1, <3>3 DEF BadWords
    <3>5. k \in Q
      BY <3>4, Zenon DEF BadWords
    <3>6. PICK i \in Q :
            /\ \A j \in Q : i <= j
            /\ q = IF h + 4 * i > y THEN TruncatedData(h + 4 * i, y)
                   ELSE Refused("ZeroDenominator")
      BY <3>5, PayloadAnswer, Zenon
    <3>7. i <= k /\ k <= i /\ i \in Int /\ k \in Int
      BY <2>2, <2>3, <3>1, <3>5, <3>6 DEF BadWords
    <3>8. i = k
      BY <3>7
    <3>9. ~(h + 4 * k > y)
      BY <1>3, <2>2, <3>3, <3>4
    <3>10. QED
      BY <3>3, <3>6, <3>8, <3>9, Zenon
  <2>6. QED
    BY <2>4, <2>5
<1>5. a.is # "TruncatedData" /\ ~(a.is = "UrnMismatch" /\ l < Behind(f))
  OBVIOUS
<1>6. Refused("UrnMismatch").is = "UrnMismatch" /\ TruncatedData(h, x).is = "TruncatedData"
  BY AnswerKinds
<1> HIDE DEF a, b, p, q, x, y, h
<1>7. ~(l < Behind(f))
  BY <1>1, <1>5, <1>6
<1>8. ~(m < Behind(f))
  BY <1>3, <1>7
<1>9. BadUrn(f) \/ ~(x < h)
  BY <1>1, <1>5, <1>6
<1>10. ~(x < h) => ~(y < h)
  BY <1>3
<1>11. CASE BadUrn(f) \/ BadVersion(f)
  <2>1. b = a
    BY <1>1, <1>2, <1>7, <1>8, <1>9, <1>10, <1>11
  <2>2. QED
    BY <2>1, Zenon DEF a, b
<1>12. CASE ~BadUrn(f) /\ ~BadVersion(f)
  <2>1. a = p /\ b = q
    BY <1>1, <1>2, <1>7, <1>8, <1>9, <1>10, <1>12
  <2>2. QED
    BY <1>4, <1>5, <2>1 DEF a, b
<1>13. QED
  BY <1>11, <1>12

(* A file that parses has all the words its layout needs.                    *)
LEMMA EnoughWords ==
  ASSUME NEW f, IsFile(f), NEW len \in 0..Size(f), parse_iso21496_fmt(f, len).is = "ok"
  PROVE  /\ f # ISO_21496_1_PRIMARY_APP2_BODY
         /\ WordsNeeded(f) <= Len(f.words)
         /\ ~BadUrn(f) /\ ~BadVersion(f)
         /\ \A k \in Denominators(f) : k \in 1..WordsNeeded(f) /\ f.words[k] # 0
<1>1. f.format \in AllFormats /\ len \in Nat
  BY SizeParts DEF IsFile, Files
<1>2. /\ len >= Behind(f) + Header(f) /\ ~BadUrn(f) /\ ~BadVersion(f)
      /\ BadWords(f, Header(f), len - Behind(f)) = {}
  BY <1>1, ParseOk
<1>3. /\ Behind(f) \in {0, 28} /\ Header(f) \in {5, 6}
      /\ f.format = "JpegApp2BodyWithUrn" => Behind(f) = 28 /\ Header(f) = 5
  BY <1>1, HeaderParts
<1>4. f # ISO_21496_1_PRIMARY_APP2_BODY
  <2>1. f = ISO_21496_1_PRIMARY_APP2_BODY => Size(f) = 32 /\ Behind(f) + Header(f) = 33
    BY <1>3, SizeParts
  <2>2. QED
    BY <1>1, <1>2, <2>1
<1>5. Len(f.words) \in Nat /\ Size(f) = Behind(f) + Header(f) + 4 * Len(f.words)
  BY <1>4, SizeParts
<1>6. \A k \in 1..WordsNeeded(f) :
        /\ ~(Header(f) + 4 * k > len - Behind(f))
        /\ k \in Denominators(f) => f.words[k] # 0
  BY <1>2 DEF BadWords
<1>7. WordsNeeded(f) \in Nat /\ WordsNeeded(f) >= 1
  BY LayoutSize
<1>8. WordsNeeded(f) <= Len(f.words)
  <2>1. ~(Header(f) + 4 * WordsNeeded(f) > len - Behind(f))
    BY <1>6, <1>7
  <2>2. QED
    BY <1>1, <1>3, <1>5, <1>7, <2>1
<1>9. Denominators(f) \subseteq 1..WordsNeeded(f)
  <2>1. 1 \in 1..WordsNeeded(f)
    BY <1>7
  <2>2. QED
    BY <2>1 DEF Denominators
<1>10. QED
  BY <1>2, <1>4, <1>6, <1>8, <1>9

(* A value of a file that parses is a float. *)
LEMMA ValueType ==
  ASSUME NEW f, IsFile(f), WordsNeeded(f) <= Len(f.words),
         NEW i \in 1..2 + 5 * Channels(f)
  PROVE  ValueAt(f, i) \in Float
<1>1. Len(f.words) \in Nat /\ \A k \in 1..Len(f.words) : f.words[k] \in Int
  BY SizeParts DEF IsFile, Files
<1>2. Channels(f) \in {1, 3} /\ WordsNeeded(f) \in Nat
  BY LayoutSize
<1>3. \A k \in Denominators(f) \cap (1..Len(f.words)) : f.words[k] \in Nat
  <2>1. f.words \in Seq(Int)
    BY DEF IsFile, Files
  <2>2. DOMAIN f.words = 1..Len(f.words)
    BY <2>1
  <2>3. QED
    BY <2>2, WidthsAssumption DEF IsFile
<1>4. CASE Compact(f)
  <2> DEFINE fraction == [numerator |-> f.words[i + 1], denominator |-> f.words[1]]
  <2>1. WordsNeeded(f) = 3 + 5 * Channels(f)
    BY <1>4, LayoutSize
  <2>2. i + 1 \in 1..Len(f.words) /\ 1 \in 1..Len(f.words)
    BY <1>1, <1>2, <2>1
  <2>3. 1 \in Denominators(f)
    BY <1>4 DEF Denominators
  <2>4. fraction.numerator \in Int /\ fraction.denominator \in Nat
    BY <1>1, <1>3, <2>2, <2>3
  <2>5. ValueAt(f, i) = ToF64(fraction)
    BY <1>4 DEF ValueAt
  <2> HIDE DEF fraction
  <2>6. QED
    BY <2>4, <2>5, ToF64Type
<1>5. CASE ~Compact(f)
  <2> DEFINE n == 2 * i - 1
             d == 2 * i
             fraction == [numerator |-> f.words[n], denominator |-> f.words[d]]
  <2>1. WordsNeeded(f) = 4 + 10 * Channels(f)
    BY <1>5, LayoutSize
  <2>2. n \in 1..Len(f.words) /\ d \in 1..Len(f.words) /\ d \in 1..WordsNeeded(f) /\ d % 2 = 0
    BY <1>1, <1>2, <2>1
  <2>3. ValueAt(f, i) = ToF64(fraction)
    BY <1>5 DEF ValueAt
  <2> HIDE DEF n, d
  <2>4. d \in Denominators(f)
    BY <1>5, <2>2 DEF Denominators
  <2>5. fraction.numerator \in Int /\ fraction.denominator \in Nat
    BY <1>1, <1>3, <2>2, <2>4
  <2> HIDE DEF fraction
  <2>6. QED
    BY <2>3, <2>5, ToF64Type
<1>6. QED
  BY <1>4, <1>5

(* What is parsed are parameters. *)
LEMMA ParamsType ==
  ASSUME NEW f, IsFile(f), WordsNeeded(f) <= Len(f.words)
  PROVE  Params(f) \in GainMapParams
<1> DEFINE n == Channels(f)
<1>1. n \in {1, 3}
  BY LayoutSize
<1>2. ASSUME NEW c \in 1..n PROVE ChannelAt(f, c) \in GainMapChannel
  <2>1. /\ 5 * c - 2 \in 1..2 + 5 * n /\ 5 * c - 1 \in 1..2 + 5 * n /\ 5 * c \in 1..2 + 5 * n
        /\ 5 * c + 1 \in 1..2 + 5 * n /\ 5 * c + 2 \in 1..2 + 5 * n
    BY <1>1
  <2>2. /\ ValueAt(f, 5 * c - 2) \in Float /\ ValueAt(f, 5 * c - 1) \in Float
        /\ ValueAt(f, 5 * c) \in Float /\ ValueAt(f, 5 * c + 1) \in Float
        /\ ValueAt(f, 5 * c + 2) \in Float
    BY <2>1, ValueType, Zenon
  <2>3. QED
    BY <2>2 DEF ChannelAt, GainMapChannel, Fields
<1>3. 1 \in 1..2 + 5 * n /\ 2 \in 1..2 + 5 * n
  BY <1>1
<1>4. ValueAt(f, 1) \in Float /\ ValueAt(f, 2) \in Float
  BY <1>3, ValueType, Zenon
<1> DEFINE channels == [c \in 1..3 |-> ChannelAt(f, IF n = 1 THEN 1 ELSE c)]
<1>5. channels \in [1..3 -> GainMapChannel]
  <2>1. \A c \in 1..3 : (IF n = 1 THEN 1 ELSE c) \in 1..n
    BY <1>1
  <2> HIDE DEF n
  <2>2. \A c \in 1..3 : ChannelAt(f, IF n = 1 THEN 1 ELSE c) \in GainMapChannel
    BY <1>2, <2>1, Zenon
  <2>3. QED
    BY <2>2
<1>6. Params(f) = [channels |-> channels, base_hdr_headroom |-> ValueAt(f, 1),
                   alternate_hdr_headroom |-> ValueAt(f, 2),
                   use_base_color_space |-> "use_base_colour_space" \in f.flags,
                   backward_direction |-> "backward_direction" \in f.flags]
  BY DEF Params
<1> HIDE DEF channels
<1>7. QED
  BY <1>4, <1>5, <1>6 DEF GainMapParams

(* A compact file that parses means what the full one it abbreviates means.   *)
LEMMA CompactFile ==
  ASSUME NEW f, IsFile(f), NEW len \in 0..Size(f), Compact(f),
         parse_iso21496_fmt(f, len).is = "ok"
  PROVE  parse_iso21496_fmt(f, len) =
           parse_iso21496_fmt(Expanded(f), Size(Expanded(f)))
<1> DEFINE g == Expanded(f)
           n == Len(f.words)
           ch == Channels(f)
           full == [k \in 1..2 * (n - 1) |->
                      IF k % 2 = 1 THEN f.words[(k + 1) \div 2 + 1] ELSE f.words[1]]
<1>1. f.format \in AllFormats /\ len \in Nat /\ f \in Files /\ f.words \in Seq(Int)
  BY SizeParts DEF IsFile, Files
<1>2. WordsNeeded(f) <= n /\ ~BadUrn(f) /\ ~BadVersion(f)
  BY EnoughWords
<1>3. ch \in {1, 3} /\ WordsNeeded(f) = 3 + 5 * ch /\ n \in Nat
  BY LayoutSize, SizeParts
<1>4. f.words[1] # 0
  <2>1. 1 \in Denominators(f)
    BY DEF Denominators
  <2>2. QED
    BY <2>1, EnoughWords
<1>5. g = [f EXCEPT !.flags = @ \ {"common_denominator"}, !.words = full]
  BY DEF Expanded
<1>6. /\ g.format = f.format /\ g.urn = f.urn /\ g.version = f.version
      /\ g.minimum_version = f.minimum_version
      /\ g.flags = f.flags \ {"common_denominator"} /\ g.words = full
  BY <1>1, <1>5 DEF Files
<1>7. DOMAIN full = 1..2 * (n - 1) /\ 2 * (n - 1) \in Nat /\ Len(full) = 2 * (n - 1)
  <2>1. 2 * (n - 1) \in Nat
    BY <1>2, <1>3
  <2>2. QED
    BY <2>1
<1> HIDE DEF n, g
<1>8. ASSUME NEW i \in 1..n - 1
      PROVE  full[2 * i - 1] = f.words[i + 1] /\ full[2 * i] = f.words[1]
  <2>1. /\ 2 * i - 1 \in 1..2 * (n - 1) /\ 2 * i \in 1..2 * (n - 1)
        /\ (2 * i - 1) % 2 = 1 /\ (2 * i) % 2 = 0
        /\ ((2 * i - 1) + 1) \div 2 + 1 = i + 1
    BY <1>3
  <2>2. QED
    BY <2>1
<1> HIDE DEF full
<1>9. ~Compact(g) /\ Channels(g) = ch /\ WordsNeeded(g) = 4 + 10 * ch
  <2>1. ~Compact(g) /\ Channels(g) = ch
    BY <1>6 DEF Compact, Channels
  <2>2. QED
    BY <2>1, LayoutSize
<1>10. g # ISO_21496_1_PRIMARY_APP2_BODY
  <2>1. ISO_21496_1_PRIMARY_APP2_BODY.words = <<>>
    BY DEF ISO_21496_1_PRIMARY_APP2_BODY
  <2>2. Len(g.words) # 0
    BY <1>2, <1>3, <1>6, <1>7
  <2>3. g.words # <<>>
    BY <2>2
  <2>4. QED
    BY <2>1, <2>3
<1>11. Size(g) = HeaderSize(f.format) + 4 * (2 * (n - 1))
  BY <1>6, <1>7, <1>10 DEF Size
<1>12. Behind(g) = Behind(f) /\ Header(g) = Header(f) /\ ~BadUrn(g) /\ ~BadVersion(g)
  BY <1>2, <1>6 DEF Behind, Header, BadUrn, BadVersion
<1>13. HeaderSize(f.format) = Behind(f) + Header(f) /\ Behind(f) \in {0, 28} /\ Header(f) \in {5, 6}
  BY <1>1, HeaderParts
<1>14. BadWords(g, Header(g), Size(g) - Behind(g)) = {}
  <2> SUFFICES ASSUME NEW k \in 1..WordsNeeded(g)
               PROVE  /\ ~(Header(g) + 4 * k > Size(g) - Behind(g))
                      /\ k \in Denominators(g) => g.words[k] # 0
    BY DEF BadWords
  <2>1. k \in 1..4 + 10 * ch
    BY <1>9
  <2>2. k <= 2 * (n - 1)
    BY <1>2, <1>3, <2>1
  <2>3. ~(Header(g) + 4 * k > Size(g) - Behind(g))
    BY <1>3, <1>11, <1>12, <1>13, <2>1, <2>2
  <2>4. ASSUME k \in Denominators(g) PROVE g.words[k] # 0
    <3>1. k % 2 = 0
      BY <1>9, <2>4 DEF Denominators
    <3>2. PICK i \in 1..n - 1 : k = 2 * i
      <4>1. k \div 2 \in 1..n - 1 /\ k = 2 * (k \div 2)
        BY <1>3, <2>1, <2>2, <3>1
      <4>2. QED
        BY <4>1
    <3>3. full[2 * i] = f.words[1]
      BY <1>8
    <3>4. QED
      BY <1>4, <1>6, <3>2, <3>3
  <2>5. QED
    BY <2>3, <2>4
<1>15. parse_iso21496_fmt(g, Size(g)) = Parsed(Params(g))
  <2>1. Size(g) \in Nat /\ Size(g) >= Behind(g) + Header(g) /\ g.format \in AllFormats
    BY <1>1, <1>6, <1>7, <1>11, <1>12, <1>13
  <2>2. QED
    BY <1>12, <1>14, <2>1, ParseOk
<1>16. ASSUME NEW i \in 1..2 + 5 * ch PROVE ValueAt(g, i) = ValueAt(f, i)
  <2>1. i \in 1..n - 1
    BY <1>2, <1>3
  <2>2. g.words[2 * i - 1] = f.words[i + 1] /\ g.words[2 * i] = f.words[1]
    BY <1>6, <1>8, <2>1
  <2>3. QED
    BY <1>9, <2>2, Zenon DEF ValueAt
<1>17. Params(g) = Params(f)
  <2>1. ASSUME NEW c \in 1..ch PROVE ChannelAt(g, c) = ChannelAt(f, c)
    <3>1. /\ 5 * c - 2 \in 1..2 + 5 * ch /\ 5 * c - 1 \in 1..2 + 5 * ch /\ 5 * c \in 1..2 + 5 * ch
          /\ 5 * c + 1 \in 1..2 + 5 * ch /\ 5 * c + 2 \in 1..2 + 5 * ch
      BY <1>3
    <3>2. QED
      BY <1>16, <3>1, Zenon DEF ChannelAt
  <2>2. \A c \in 1..3 : (IF ch = 1 THEN 1 ELSE c) \in 1..ch
    BY <1>3
  <2>3. 1 \in 1..2 + 5 * ch /\ 2 \in 1..2 + 5 * ch
    BY <1>3
  <2>4. ValueAt(g, 1) = ValueAt(f, 1) /\ ValueAt(g, 2) = ValueAt(f, 2)
    BY <1>16, <2>3
  <2>5. /\ "use_base_colour_space" \in g.flags <=> "use_base_colour_space" \in f.flags
        /\ "backward_direction" \in g.flags <=> "backward_direction" \in f.flags
    BY <1>6
  <2> HIDE DEF ch
  <2>6. [c \in 1..3 |-> ChannelAt(g, IF ch = 1 THEN 1 ELSE c)]
          = [c \in 1..3 |-> ChannelAt(f, IF ch = 1 THEN 1 ELSE c)]
    BY <2>1, <2>2, Zenon
  <2>7. ("use_base_colour_space" \in g.flags) = ("use_base_colour_space" \in f.flags)
        /\ ("backward_direction" \in g.flags) = ("backward_direction" \in f.flags)
    BY <2>5
  <2>8. Channels(g) = ch /\ Channels(f) = ch
    BY <1>9 DEF ch
  <2>9. QED
    BY <2>4, <2>6, <2>7, <2>8, Zenon DEF Params
<1>18. parse_iso21496_fmt(f, len) = Parsed(Params(f))
  BY <1>1, ParseOk
<1>19. QED
  BY <1>15, <1>17, <1>18 DEF g

(* This crate's files parse when they are whole, and a prefix asks for more.   *)
LEMMA SerializedParses ==
  ASSUME NEW f, IsFile(f), f # ISO_21496_1_PRIMARY_APP2_BODY, ~BadUrn(f), ~BadVersion(f),
         Len(f.words) = WordsNeeded(f), \A k \in Denominators(f) : f.words[k] # 0,
         NEW len \in 0..Size(f)
  PROVE  LET a == parse_iso21496_fmt(f, len)
         IN /\ len = Size(f) => a.is = "ok"
            /\ len < Size(f) =>
                 IF len < Behind(f) THEN a = Refused("UrnMismatch")
                 ELSE /\ a.is = "TruncatedData"
                      /\ a.actual = len - Behind(f)
                      /\ a.expected > a.actual
                      /\ a.expected <= Size(f) - Behind(f)
<1> DEFINE a == parse_iso21496_fmt(f, len)
           h == Header(f)
           here == len - Behind(f)
           n == WordsNeeded(f)
           bad == BadWords(f, h, here)
<1>1. f.format \in AllFormats /\ len \in Nat /\ len <= Size(f) /\ n \in Nat
  BY SizeParts, LayoutSize DEF IsFile, Files
<1>2. Behind(f) \in {0, 28} /\ h \in {5, 6} /\ Size(f) = Behind(f) + h + 4 * n
  BY <1>1, HeaderParts, SizeParts
<1>3. bad = {k \in 1..n : h + 4 * k > here}
  BY DEF BadWords
<1>4. a = IF len < Behind(f) THEN Refused("UrnMismatch")
          ELSE IF here < h THEN TruncatedData(h, here)
          ELSE parse_payload(f, h, here)
  BY <1>1, ParseAnswer
<1>5. CASE len = Size(f)
  <2>1. bad = {} /\ len >= Behind(f) + Header(f)
    BY <1>1, <1>2, <1>3, <1>5
  <2>2. a.is = "ok"
    BY <1>1, <2>1, ParseOk
  <2>3. QED
    BY <1>5, <2>2
<1>6. CASE len < Size(f)
  <2>1. CASE len < Behind(f)
    <3>1. a = Refused("UrnMismatch")
      BY <1>4, <2>1
    <3>2. QED
      BY <1>6, <2>1, <3>1
  <2>2. CASE ~(len < Behind(f)) /\ here < h
    <3>1. a = TruncatedData(h, here)
      BY <1>4, <2>2
    <3>2. a.is = "TruncatedData" /\ a.expected = h /\ a.actual = here
      BY <3>1, AnswerKinds
    <3>3. here < h /\ h <= Size(f) - Behind(f)
      BY <1>1, <1>2, <2>2
    <3>4. QED
      BY <1>1, <1>2, <1>6, <2>2, <3>2, <3>3
  <2>3. CASE ~(len < Behind(f)) /\ ~(here < h)
    <3>1. a = parse_payload(f, h, here)
      BY <1>4, <2>3
    <3>2. n \in bad
      BY <1>1, <1>2, <1>3, <1>6, LayoutSize
    <3>3. PICK k \in bad :
            parse_payload(f, h, here) =
              IF h + 4 * k > here THEN TruncatedData(h + 4 * k, here)
              ELSE Refused("ZeroDenominator")
      BY <3>2, PayloadAnswer, Zenon
    <3>4. k \in 1..n /\ h + 4 * k > here
      BY <1>3
    <3>5. a = TruncatedData(h + 4 * k, here)
      BY <3>1, <3>3, <3>4
    <3>6. a.is = "TruncatedData" /\ a.expected = h + 4 * k /\ a.actual = here
      BY <3>5, AnswerKinds
    <3>7. h + 4 * k <= Size(f) - Behind(f)
      BY <1>1, <1>2, <3>4
    <3>8. QED
      BY <1>1, <1>6, <2>3, <3>4, <3>6, <3>7
  <2>4. QED
    BY <2>1, <2>2, <2>3
<1>7. QED
  BY <1>1, <1>5, <1>6

(* What an answer is reported as. *)
LEMMA PresenceParts ==
  ASSUME NEW a, NEW len
  PROVE  /\ is_absent(Presence(a, len)) =>
              a.is # "ok" /\ a.is # "TruncatedData" /\ ~(a.is = "UrnMismatch" /\ len < UrnSize)
         /\ is_present(Presence(a, len)) =>
              a.is = "ok" /\ Presence(a, len).info = GainMapInfo(a.params)
<1> DEFINE found == GainMapInfo(a.params)
           p == Presence(a, len)
<1>1. /\ Available(found).is = "Available" /\ Available(found).info = found
      /\ Unknown.is = "Unknown" /\ NoMap.is = "Absent"
  BY DEF Available, Unknown, NoMap
<1>2. /\ a.is = "ok" => p = Available(found)
      /\ a.is = "TruncatedData" => p = Unknown
      /\ a.is = "UrnMismatch" /\ len < UrnSize => p = Unknown
      /\ p = Available(found) \/ p = Unknown \/ p = NoMap
      /\ a.is # "ok" => p = Unknown \/ p = NoMap
  <2>1. CASE a.is = "ok"
    <3>1. p = Available(found)
      BY <2>1, Zenon DEF Presence
    <3>2. QED
      BY <2>1, <3>1
  <2>2. CASE a.is = "TruncatedData"
    <3>1. p = Unknown
      BY <2>2, Zenon DEF Presence
    <3>2. QED
      BY <2>2, <3>1
  <2>3. CASE a.is = "UrnMismatch" /\ len < UrnSize
    <3>1. p = Unknown
      BY <2>3, Zenon DEF Presence
    <3>2. QED
      BY <2>3, <3>1
  <2>4. CASE a.is # "ok" /\ a.is # "TruncatedData" /\ ~(a.is = "UrnMismatch" /\ len < UrnSize)
    <3>1. p = NoMap
      BY <2>4, Zenon DEF Presence
    <3>2. QED
      BY <2>4, <3>1
  <2>5. QED
    BY <2>1, <2>2, <2>3, <2>4
<1> HIDE DEF p, found
<1>3. /\ is_absent(p) =>
           a.is # "ok" /\ a.is # "TruncatedData" /\ ~(a.is = "UrnMismatch" /\ len < UrnSize)
      /\ is_present(p) => a.is = "ok" /\ p.info = found
  BY <1>1, <1>2 DEF is_absent, is_present
<1>4. QED
  BY <1>3 DEF p, found

(* What a reader has is a prefix of a file, its last answer is about that, and *)
(* what its last probe found is about that or less.                          *)
GainMapInv ==
  /\ IsFile(file)
  /\ received \in 0..Size(file)
  /\ outcome = None \/ outcome = parse_iso21496_fmt(file, received)
  /\ source # None => source \in GainMapParams /\ file = serialize(source, file.format)
  /\ \/ gain_map = Unknown
     \/ \E l \in 0..received : gain_map = Presence(parse_iso21496_fmt(file, l), l)

(* At first there are no bytes, no answer and no probe. *)
LEMMA GainMapInitInv == GainMapInit => GainMapInv
<1> SUFFICES ASSUME GainMapInit PROVE GainMapInv
  OBVIOUS
<1>1. received = 0 /\ outcome = None /\ gain_map = Unknown
  BY DEF GainMapInit
<1>2. /\ IsFile(file)
      /\ source # None => source \in GainMapParams /\ file = serialize(source, file.format)
  <2>1. CASE file \in Foreign /\ source = None
    BY <2>1, ForeignAssumption DEF IsFile
  <2>2. CASE \E p \in Originals, format \in Formats : file = serialize(p, format) /\ source = p
    <3>1. PICK p \in Originals, format \in Formats : file = serialize(p, format) /\ source = p
      BY <2>2
    <3>2. p \in GainMapParams /\ format \in AllFormats
      BY <3>1, ParamsAssumption, FormatsAssumption
    <3>3. IsFile(file) /\ file.format = format
      BY <3>1, <3>2, SerializedFile
    <3>4. QED
      BY <3>1, <3>2, <3>3
  <2>3. QED
    BY <2>1, <2>2 DEF GainMapInit
<1>3. received \in 0..Size(file)
  BY <1>1, <1>2, SizeParts
<1>4. QED
  BY <1>1, <1>2, <1>3 DEF GainMapInv

(* GainMapInv is inductive. *)
LEMMA GainMapStepKeeps ==
  ASSUME GainMapInv, [GainMapNext]_gainMapVars
  PROVE  GainMapInv'
<1>1. IsFile(file) /\ Size(file) \in Nat /\ received \in 0..Size(file) /\ file.format \in AllFormats
  BY SizeParts DEF GainMapInv, IsFile, Files
<1>2. ASSUME NEW n \in Chunks, Receive(n)
      PROVE  GainMapInv'
  <2>1. n \in Nat \ {0}
    BY FormatsAssumption
  <2> DEFINE more == {received + n, Size(file)}
  <2>2. received' \in more /\ \A x \in more : received' <= x
    <3>1. more \in SUBSET Nat /\ more # {}
      BY <1>1, <2>1
    <3>2. received' = Min(more)
      BY <1>2 DEF Receive
    <3> HIDE DEF more
    <3>3. QED
      BY <3>1, <3>2, LeastExists DEF Min
  <2>3. received' \in 0..Size(file) /\ received <= received'
    BY <1>1, <2>1, <2>2
  <2>4. /\ file' = file /\ source' = source /\ gain_map' = gain_map /\ outcome' = None
    BY <1>2 DEF Receive
  <2>5. 0..received \subseteq 0..received'
    BY <1>1, <2>3
  <2>6. QED
    BY <2>3, <2>4, <2>5 DEF GainMapInv, IsFile
<1>3. CASE Parse
  <2>1. /\ file' = file /\ source' = source /\ received' = received
        /\ outcome' = parse_iso21496_fmt(file, received)
        /\ gain_map' = Presence(parse_iso21496_fmt(file, received), received)
    BY <1>3 DEF Parse
  <2>2. received \in 0..received
    BY <1>1
  <2>3. QED
    BY <2>1, <2>2, Zenon DEF GainMapInv, IsFile
<1>4. ASSUME NEW format \in Formats, Rewrite(format)
      PROVE  GainMapInv'
  <2>1. /\ outcome # None /\ outcome.is = "ok"
        /\ file' = serialize(outcome.params, format) /\ source' = outcome.params
        /\ received' = 0 /\ outcome' = None /\ gain_map' = Unknown
    BY <1>4 DEF Rewrite
  <2>2. outcome = parse_iso21496_fmt(file, received)
    BY <2>1 DEF GainMapInv
  <2>3. parse_iso21496_fmt(file, received).is = "ok"
    BY <2>1, <2>2, Zenon
  <2>4. outcome = Parsed(Params(file))
    BY <1>1, <2>2, <2>3, ParseOk
  <2>5. WordsNeeded(file) <= Len(file.words)
    BY <1>1, <2>3, EnoughWords
  <2>6. outcome.params \in GainMapParams
    BY <1>1, <2>4, <2>5, ParamsType, AnswerKinds
  <2>7. format \in AllFormats
    BY FormatsAssumption
  <2> DEFINE p == outcome.params
             f == serialize(p, format)
  <2>8. IsFile(f) /\ f.format = format /\ f = serialize(p, f.format)
    BY <2>6, <2>7, SerializedFile
  <2>9. Size(f) \in Nat
    BY <2>8, SizeParts
  <2>10. file' = f /\ source' = p
    BY <2>1
  <2> HIDE DEF p, f
  <2>11. IsFile(file)' /\ Size(file)' \in Nat
    BY <2>8, <2>9, <2>10 DEF IsFile
  <2>12. (source # None => source \in GainMapParams /\ file = serialize(source, file.format))'
    BY <2>6, <2>8, <2>10 DEF p
  <2>13. QED
    BY <2>1, <2>11, <2>12 DEF GainMapInv
<1>5. CASE UNCHANGED gainMapVars
  BY <1>5 DEF gainMapVars, GainMapInv, IsFile
<1>6. QED
  BY <1>2, <1>3, <1>4, <1>5 DEF GainMapNext

(* GainMapInv holds in every state. *)
LEMMA GainMapInvariance == GainMapSpec => []GainMapInv
<1>1. GainMapInv /\ [GainMapNext]_gainMapVars => GainMapInv'
  BY GainMapStepKeeps
<1>2. QED
  BY <1>1, GainMapInitInv, PTL DEF GainMapSpec

(* What GainMapInv says of an arrival. *)
LEMMA ArrivalFromInv ==
  ASSUME GainMapInv
  PROVE  ArrivalIsAnswered
<1>1. IsFile(file) /\ Size(file) \in Nat /\ received \in 0..Size(file) /\ file.format \in AllFormats
  BY SizeParts DEF GainMapInv, IsFile, Files
<1>2. outcome # None => outcome = parse_iso21496_fmt(file, received)
  BY DEF GainMapInv
<1> DEFINE a == parse_iso21496_fmt(file, received)
<1>3. ASSUME source # None
      PROVE  /\ Size(file) = serialized_size(source, file.format)
             /\ received = Size(file) => a.is = "ok"
             /\ received < Size(file) =>
                  IF received < Behind(file) THEN a = Refused("UrnMismatch")
                  ELSE /\ a.is = "TruncatedData"
                       /\ a.actual = received - Behind(file)
                       /\ a.expected > a.actual
                       /\ a.expected <= Size(file) - Behind(file)
  <2>1. source \in GainMapParams /\ file = serialize(source, file.format)
    BY <1>3 DEF GainMapInv
  <2>2. /\ file.urn = ISO_21496_1_URN /\ file.version = 0 /\ file.minimum_version = 0
        /\ Len(file.words) = WordsNeeded(file)
        /\ \A k \in Denominators(file) : file.words[k] \in 1..U32Max
        /\ file # ISO_21496_1_PRIMARY_APP2_BODY
        /\ Size(file) = serialized_size(source, file.format)
    BY <1>1, <2>1, SerializedFile
  <2>3. ~BadUrn(file) /\ ~BadVersion(file)
    BY <2>2 DEF BadUrn, BadVersion
  <2>4. \A k \in Denominators(file) : file.words[k] # 0
    BY <2>2
  <2>5. QED
    BY <1>1, <2>2, <2>3, <2>4, SerializedParses
<1>4. WholeFileParses
  BY <1>2, <1>3 DEF WholeFileParses
<1>5. PrefixAsksForMore
  <2> SUFFICES ASSUME source # None, outcome # None, received < Size(file)
               PROVE  IF received < Behind(file) THEN outcome = Refused("UrnMismatch")
                      ELSE /\ outcome.is = "TruncatedData"
                           /\ outcome.actual = received - Behind(file)
                           /\ outcome.expected > outcome.actual
                           /\ outcome.expected <= Size(file) - Behind(file)
    BY DEF PrefixAsksForMore, Behind
  <2>1. outcome = a
    BY <1>2
  <2> HIDE DEF a
  <2>2. QED
    BY <1>3, <2>1
<1>6. SignalIsNoMap
  <2> SUFFICES ASSUME file = ISO_21496_1_PRIMARY_APP2_BODY, outcome # None
               PROVE  outcome = IF received < UrnSize THEN Refused("UrnMismatch")
                                ELSE TruncatedData(JPEG_HEADER_SIZE, received - UrnSize)
    BY DEF SignalIsNoMap
  <2>1. Size(file) = 32 /\ file.format = "JpegApp2BodyWithUrn"
    BY <1>1, SizeParts
  <2>2. file.urn = ISO_21496_1_URN
    BY Zenon DEF ISO_21496_1_PRIMARY_APP2_BODY
  <2>3. /\ Behind(file) = UrnSize /\ Header(file) = JPEG_HEADER_SIZE /\ ~BadUrn(file)
        /\ UrnSize = 28 /\ JPEG_HEADER_SIZE = 5
    BY <2>1, <2>2 DEF Behind, Header, BadUrn, UrnSize, JPEG_HEADER_SIZE
  <2>4. received \in Nat /\ received - UrnSize < JPEG_HEADER_SIZE
    BY <1>1, <2>1, <2>3
  <2>5. a = IF received < UrnSize THEN Refused("UrnMismatch")
            ELSE TruncatedData(JPEG_HEADER_SIZE, received - UrnSize)
    BY <1>1, <2>3, <2>4, ParseAnswer
  <2>6. QED
    BY <1>2, <2>5
<1>7. ProbeStaysTrue
  <2> DEFINE whole == parse_iso21496_fmt(file, Size(file))
  <2>1. CASE gain_map = Unknown
    <3>1. ~is_absent(gain_map) /\ ~is_present(gain_map)
      BY <2>1 DEF Unknown, is_absent, is_present
    <3>2. QED
      BY <3>1 DEF ProbeStaysTrue
  <2>2. CASE \E l \in 0..received : gain_map = Presence(parse_iso21496_fmt(file, l), l)
    <3>1. PICK l \in 0..received : gain_map = Presence(parse_iso21496_fmt(file, l), l)
      BY <2>2
    <3> DEFINE b == parse_iso21496_fmt(file, l)
    <3>2. l \in Nat /\ l <= Size(file)
      BY <1>1
    <3>3. /\ is_absent(gain_map) =>
               b.is # "ok" /\ b.is # "TruncatedData" /\ ~(b.is = "UrnMismatch" /\ l < UrnSize)
          /\ is_present(gain_map) => b.is = "ok" /\ gain_map.info = GainMapInfo(b.params)
      BY <3>1, PresenceParts
    <3>4. l < Behind(file) => l < UrnSize
      BY <3>2 DEF Behind, UrnSize
    <3>5. is_absent(gain_map) \/ is_present(gain_map) =>
            b.is # "TruncatedData" /\ ~(b.is = "UrnMismatch" /\ l < Behind(file))
      BY <3>3, <3>4
    <3>6. is_absent(gain_map) \/ is_present(gain_map) => whole = b
      BY <1>1, <3>2, <3>5, AnswerStays
    <3> HIDE DEF b, whole
    <3>7. /\ is_absent(gain_map) => whole.is # "ok"
          /\ is_present(gain_map) => whole.is = "ok" /\ gain_map.info = GainMapInfo(whole.params)
      BY <3>3, <3>6
    <3>8. QED
      BY <3>7 DEF ProbeStaysTrue, whole
  <2>3. QED
    BY <2>1, <2>2 DEF GainMapInv
<1>8. QED
  BY <1>4, <1>5, <1>6, <1>7 DEF ArrivalIsAnswered

(* For every map and every file of another writer: a reader of a prefix is    *)
(* told to get more and never more than there is, the whole of what this crate *)
(* wrote parses, the signal of a primary image is no map, and what a probe      *)
(* reported of a prefix is true of the whole file.                           *)
THEOREM ArrivalAnswered == GainMapSpec => []ArrivalIsAnswered
<1>1. GainMapInv => ArrivalIsAnswered
  BY ArrivalFromInv
<1>2. QED
  BY <1>1, GainMapInvariance, PTL

(* Whatever a compact file holds, of any length and with any denominator: if   *)
(* it parses, it means what the full file it abbreviates means.              *)
THEOREM CompactIsFull == GainMapSpec => []CompactMeansFull
<1>1. GainMapInv => CompactMeansFull
  <2> SUFFICES ASSUME GainMapInv, Compact(file), outcome # None, outcome.is = "ok"
               PROVE  outcome = parse_iso21496_fmt(Expanded(file), Size(Expanded(file)))
    BY DEF CompactMeansFull
  <2>1. /\ IsFile(file) /\ received \in 0..Size(file)
        /\ outcome = parse_iso21496_fmt(file, received)
    BY DEF GainMapInv
  <2>2. parse_iso21496_fmt(file, received).is = "ok"
    BY <2>1, Zenon
  <2>3. QED
    BY <2>1, <2>2, CompactFile
<1>2. QED
  BY <1>1, GainMapInvariance, PTL

(* What is read of parameters, whatever container they were written for.      *)
ReadChannel(ch) ==
  [min |-> ToF64(SignedFraction(ch.min)), max |-> ToF64(SignedFraction(ch.max)),
   gamma |-> ToF64(UnsignedFraction(ch.gamma)),
   base_offset |-> ToF64(SignedFraction(ch.base_offset)),
   alternate_offset |-> ToF64(SignedFraction(ch.alternate_offset))]

ReadBack(p) ==
  [channels |-> [c \in 1..3 |-> ReadChannel(p.channels[c])],
   base_hdr_headroom |-> ToF64(UnsignedFraction(p.base_hdr_headroom)),
   alternate_hdr_headroom |-> ToF64(UnsignedFraction(p.alternate_hdr_headroom)),
   use_base_color_space |-> p.use_base_color_space,
   backward_direction |-> p.backward_direction]

(* This crate's file says what is read of its parameters.                    *)
LEMMA SerializedReads ==
  ASSUME NEW p \in GainMapParams, NEW format \in AllFormats, NEW f, f = serialize(p, format)
  PROVE  Params(f) = ReadBack(p)
<1> DEFINE w == write_payload(p)
           n == NumChannels(p)
           flags == build_flags(p)
           fs == PayloadFractions(p)
<1>1. /\ f = [format |-> format, urn |-> ISO_21496_1_URN, version |-> 0,
              minimum_version |-> 0, flags |-> flags, words |-> w]
  BY DEF serialize
<1>2. n = IF is_single_channel(p) THEN 1 ELSE 3
  BY DEF NumChannels
<1>3. /\ "common_denominator" \notin flags
      /\ "multi_channel" \in flags <=> ~is_single_channel(p)
      /\ "use_base_colour_space" \in flags <=> p.use_base_color_space
      /\ "backward_direction" \in flags <=> p.backward_direction
  BY DEF build_flags, Flags
<1>4. /\ Spells(w, fs) /\ n \in {1, 3} /\ Len(fs) = 2 + 5 * n
      /\ fs[1] = UnsignedFraction(p.base_hdr_headroom)
      /\ fs[2] = UnsignedFraction(p.alternate_hdr_headroom)
      /\ \A c \in 1..n : \A k \in 1..5 : fs[5 * c - 3 + k] = ChannelFractions(p.channels[c])[k]
  BY PayloadSpelt, FractionsAt
<1> HIDE DEF w, n, flags, fs
<1>5. f.flags = flags /\ f.words = w /\ ~Compact(f) /\ Channels(f) = n
  BY <1>1, <1>2, <1>3 DEF Compact, Channels
<1>6. ASSUME NEW i \in 1..2 + 5 * n PROVE ValueAt(f, i) = ToF64(fs[i])
  <2>1. fs \in Seq(Written) /\ Len(fs) = 2 + 5 * n
    BY <1>4 DEF Spells
  <2>2. i \in 1..Len(fs)
    BY <2>1
  <2>3. fs[i] \in Written /\ w[2 * i - 1] = fs[i].numerator /\ w[2 * i] = fs[i].denominator
    <3>1. fs[i] \in Written
      BY <2>1, <2>2
    <3>2. \A j \in 1..Len(fs) : w[2 * j - 1] = fs[j].numerator /\ w[2 * j] = fs[j].denominator
      BY <1>4 DEF Spells
    <3>3. QED
      BY <2>2, <3>1, <3>2, Zenon
  <2>4. fs[i] = [numerator |-> w[2 * i - 1], denominator |-> w[2 * i]]
    BY <2>3 DEF Written
  <2>5. ValueAt(f, i) = ToF64([numerator |-> w[2 * i - 1], denominator |-> w[2 * i]])
    BY <1>5, Zenon DEF ValueAt
  <2>6. QED
    BY <2>4, <2>5, Zenon
<1>7. ASSUME NEW c \in 1..n PROVE ChannelAt(f, c) = ReadChannel(p.channels[c])
  <2> DEFINE F == ChannelFractions(p.channels[c])
  <2>1. /\ 5 * c - 2 \in 1..2 + 5 * n /\ 5 * c - 1 \in 1..2 + 5 * n /\ 5 * c \in 1..2 + 5 * n
        /\ 5 * c + 1 \in 1..2 + 5 * n /\ 5 * c + 2 \in 1..2 + 5 * n
    BY <1>4
  <2>2. /\ fs[5 * c - 2] = F[1] /\ fs[5 * c - 1] = F[2] /\ fs[5 * c] = F[3]
        /\ fs[5 * c + 1] = F[4] /\ fs[5 * c + 2] = F[5]
    <3> HIDE DEF F
    <3>1. /\ 5 * c - 3 + 1 = 5 * c - 2 /\ 5 * c - 3 + 2 = 5 * c - 1 /\ 5 * c - 3 + 3 = 5 * c
          /\ 5 * c - 3 + 4 = 5 * c + 1 /\ 5 * c - 3 + 5 = 5 * c + 2
      <4>1. n \in Int /\ c \in Int
        BY <1>4
      <4>2. QED
        BY <4>1
    <3>2. \A k \in 1..5 : fs[5 * c - 3 + k] = F[k]
      BY <1>4 DEF F
    <3>3. 1 \in 1..5 /\ 2 \in 1..5 /\ 3 \in 1..5 /\ 4 \in 1..5 /\ 5 \in 1..5
      OBVIOUS
    <3>4. /\ fs[5 * c - 3 + 1] = F[1] /\ fs[5 * c - 3 + 2] = F[2] /\ fs[5 * c - 3 + 3] = F[3]
          /\ fs[5 * c - 3 + 4] = F[4] /\ fs[5 * c - 3 + 5] = F[5]
      BY <3>2, <3>3, Zenon
    <3>5. QED
      BY <3>1, <3>4
  <2>3. /\ F[1] = SignedFraction(p.channels[c].min) /\ F[2] = SignedFraction(p.channels[c].max)
        /\ F[3] = UnsignedFraction(p.channels[c].gamma)
        /\ F[4] = SignedFraction(p.channels[c].base_offset)
        /\ F[5] = SignedFraction(p.channels[c].alternate_offset)
    BY DEF ChannelFractions
  <2>4. /\ ValueAt(f, 5 * c - 2) = ToF64(F[1]) /\ ValueAt(f, 5 * c - 1) = ToF64(F[2])
        /\ ValueAt(f, 5 * c) = ToF64(F[3]) /\ ValueAt(f, 5 * c + 1) = ToF64(F[4])
        /\ ValueAt(f, 5 * c + 2) = ToF64(F[5])
    BY <1>6, <2>1, <2>2, Zenon
  <2> HIDE DEF F
  <2>5. QED
    BY <2>3, <2>4, Zenon DEF ChannelAt, ReadChannel
<1>8. ASSUME NEW c \in 1..3
      PROVE  ChannelAt(f, IF n = 1 THEN 1 ELSE c) = ReadChannel(p.channels[c])
  <2>1. CASE n = 1
    <3>1. p.channels[c] = p.channels[1]
      <4>1. p.channels[1] = p.channels[2] /\ p.channels[2] = p.channels[3]
        BY <1>2, <2>1 DEF is_single_channel, SameChannel
      <4>2. c = 1 \/ c = 2 \/ c = 3
        OBVIOUS
      <4>3. QED
        BY <4>1, <4>2
    <3>2. 1 \in 1..n
      BY <2>1
    <3>3. QED
      BY <1>7, <2>1, <3>1, <3>2, Zenon
  <2>2. CASE n # 1
    <3>1. c \in 1..n
      BY <1>4, <2>2
    <3>2. QED
      BY <1>7, <2>2, <3>1, Zenon
  <2>3. QED
    BY <2>1, <2>2
<1>9. /\ ValueAt(f, 1) = ToF64(UnsignedFraction(p.base_hdr_headroom))
      /\ ValueAt(f, 2) = ToF64(UnsignedFraction(p.alternate_hdr_headroom))
  <2>1. 1 \in 1..2 + 5 * n /\ 2 \in 1..2 + 5 * n
    BY <1>4
  <2>2. QED
    BY <1>4, <1>6, <2>1, Zenon
<1>10. /\ ("use_base_colour_space" \in f.flags) = p.use_base_color_space
       /\ ("backward_direction" \in f.flags) = p.backward_direction
  <2>1. p.use_base_color_space \in BOOLEAN /\ p.backward_direction \in BOOLEAN
    BY DEF GainMapParams
  <2>2. QED
    BY <1>3, <1>5, <2>1
<1>11. [c \in 1..3 |-> ChannelAt(f, IF Channels(f) = 1 THEN 1 ELSE c)]
         = [c \in 1..3 |-> ReadChannel(p.channels[c])]
  BY <1>5, <1>8, Zenon
<1>12. QED
  BY <1>9, <1>10, <1>11, Zenon DEF Params, ReadBack

(* What GainMapInv says of a delivery: the parameters are what is read of the *)
(* source.                                                                   *)
LEMMA DeliveryFromInv ==
  ASSUME GainMapInv, Delivered
  PROVE  source \in GainMapParams /\ outcome.params = ReadBack(source)
<1>1. /\ source \in GainMapParams /\ file = serialize(source, file.format)
      /\ IsFile(file) /\ received \in 0..Size(file)
      /\ outcome = parse_iso21496_fmt(file, received)
  BY DEF GainMapInv, Delivered
<1>2. file.format \in AllFormats /\ received \in Nat
  BY <1>1, SizeParts DEF IsFile, Files
<1>3. parse_iso21496_fmt(file, received).is = "ok"
  BY <1>1, Zenon DEF Delivered
<1>4. outcome = Parsed(Params(file))
  BY <1>1, <1>2, <1>3, ParseOk
<1>5. outcome.params = Params(file)
  BY <1>4, AnswerKinds
<1>6. Params(file) = ReadBack(source)
  BY <1>1, <1>2, SerializedReads
<1>7. QED
  BY <1>1, <1>5, <1>6

(* For every map, container and width of the integers: a hop keeps all that an *)
(* f32 holds of a value in range, unless it is below the smallest step; all of  *)
(* one with a small denominator; and the flags.                              *)
THEOREM ValuesKept == GainMapSpec => []ValuesSurvive
<1>1. GainMapInv => ValuesSurvive
  <2> SUFFICES ASSUME GainMapInv, Delivered PROVE ValuesSurvive
    BY DEF ValuesSurvive
  <2> DEFINE p == outcome.params
  <2>1. source \in GainMapParams /\ p = ReadBack(source)
    BY DeliveryFromInv
  <2>2. ASSUME NEW c \in 1..3
        PROVE  /\ \A k \in Signed : Faithful(source.channels[c][k], p.channels[c][k], I32Max)
               /\ source.channels[c].gamma[1] >= 0 =>
                    Faithful(source.channels[c].gamma, p.channels[c].gamma, U32Max)
    <3> DEFINE ch == source.channels[c]
    <3>1. ch \in GainMapChannel
      BY <2>1 DEF GainMapParams
    <3>2. p.channels[c] = ReadChannel(ch)
      BY <2>1 DEF ReadBack
    <3> HIDE DEF ch, p
    <3>3. \A k \in Fields : ch[k] \in Float
      BY <3>1 DEF GainMapChannel
    <3>4. /\ ReadChannel(ch).gamma = ToF64(UnsignedFraction(ch.gamma))
          /\ \A k \in Signed : ReadChannel(ch)[k] = ToF64(SignedFraction(ch[k]))
      BY DEF ReadChannel, Signed, Fields
    <3>5. "gamma" \in Fields /\ Signed \subseteq Fields
      BY DEF Fields, Signed
    <3>6. QED
      BY <3>2, <3>3, <3>4, <3>5, FractionsAreFaithful DEF ch, SignedRead, UnsignedRead
  <2>3. ASSUME NEW k \in {"base_hdr_headroom", "alternate_hdr_headroom"}, source[k][1] >= 0
        PROVE  Faithful(source[k], p[k], U32Max)
    <3>1. source[k] \in Float
      BY <2>1 DEF GainMapParams
    <3>2. p[k] = ToF64(UnsignedFraction(source[k]))
      BY <2>1 DEF ReadBack
    <3>3. QED
      BY <2>3, <3>1, <3>2, FractionsAreFaithful DEF UnsignedRead
  <2>4. /\ p.backward_direction = source.backward_direction
        /\ p.use_base_color_space = source.use_base_color_space
    BY <2>1 DEF ReadBack
  <2>5. QED
    BY <2>2, <2>3, <2>4 DEF ValuesSurvive
<1>2. QED
  BY <1>1, GainMapInvariance, PTL

(* A channel that was read is read again as it is. *)
LEMMA ChannelTwice ==
  ASSUME NEW ch, \A k \in Fields : ch[k] \in Float
  PROVE  ReadChannel(ReadChannel(ch)) = ReadChannel(ch)
<1> DEFINE r == ReadChannel(ch)
<1>1. /\ ch["min"] \in Float /\ ch["max"] \in Float /\ ch["gamma"] \in Float
      /\ ch["base_offset"] \in Float /\ ch["alternate_offset"] \in Float
  BY DEF Fields
<1>2. /\ r.min = SignedRead(ch.min) /\ r.max = SignedRead(ch.max)
      /\ r.gamma = UnsignedRead(ch.gamma)
      /\ r.base_offset = SignedRead(ch.base_offset)
      /\ r.alternate_offset = SignedRead(ch.alternate_offset)
  BY DEF ReadChannel, SignedRead, UnsignedRead
<1> HIDE DEF r
<1>3. /\ SignedRead(r.min) = r.min /\ SignedRead(r.max) = r.max
      /\ UnsignedRead(r.gamma) = r.gamma
      /\ SignedRead(r.base_offset) = r.base_offset
      /\ SignedRead(r.alternate_offset) = r.alternate_offset
  BY <1>1, <1>2, ReadTwice
<1>4. ReadChannel(r) = [min |-> r.min, max |-> r.max, gamma |-> r.gamma,
                        base_offset |-> r.base_offset, alternate_offset |-> r.alternate_offset]
  BY <1>3 DEF ReadChannel, SignedRead, UnsignedRead
<1>5. ReadChannel(ch) = [min |-> r.min, max |-> r.max, gamma |-> r.gamma,
                         base_offset |-> r.base_offset, alternate_offset |-> r.alternate_offset]
  BY <1>2 DEF ReadChannel, SignedRead, UnsignedRead
<1>6. QED
  BY <1>4, <1>5 DEF r

(* Parameters that were read are read again as they are. *)
LEMMA BackTwice ==
  ASSUME NEW p \in GainMapParams
  PROVE  ReadBack(ReadBack(p)) = ReadBack(p)
<1> DEFINE r == ReadBack(p)
<1>1. /\ p.base_hdr_headroom \in Float /\ p.alternate_hdr_headroom \in Float
      /\ \A c \in 1..3 : \A k \in Fields : p.channels[c][k] \in Float
  BY DEF GainMapParams, GainMapChannel
<1>2. /\ r.channels = [c \in 1..3 |-> ReadChannel(p.channels[c])]
      /\ r.base_hdr_headroom = UnsignedRead(p.base_hdr_headroom)
      /\ r.alternate_hdr_headroom = UnsignedRead(p.alternate_hdr_headroom)
      /\ r.use_base_color_space = p.use_base_color_space
      /\ r.backward_direction = p.backward_direction
  BY DEF ReadBack, UnsignedRead
<1>3. r = [channels |-> r.channels, base_hdr_headroom |-> r.base_hdr_headroom,
           alternate_hdr_headroom |-> r.alternate_hdr_headroom,
           use_base_color_space |-> r.use_base_color_space,
           backward_direction |-> r.backward_direction]
  BY DEF ReadBack
<1> HIDE DEF r
<1>4. [c \in 1..3 |-> ReadChannel(r.channels[c])] = r.channels
  <2>1. \A c \in 1..3 : ReadChannel(r.channels[c]) = r.channels[c]
    BY <1>1, <1>2, ChannelTwice
  <2>2. [c \in 1..3 |-> ReadChannel(r.channels[c])] = [c \in 1..3 |-> r.channels[c]]
    BY <2>1
  <2>3. r.channels = [c \in 1..3 |-> r.channels[c]]
    BY <1>2
  <2>4. QED
    BY <2>2, <2>3
<1>5. /\ UnsignedRead(r.base_hdr_headroom) = r.base_hdr_headroom
      /\ UnsignedRead(r.alternate_hdr_headroom) = r.alternate_hdr_headroom
  BY <1>1, <1>2, ReadTwice
<1>6. ReadBack(r) = r
  BY <1>3, <1>4, <1>5 DEF ReadBack, UnsignedRead
<1>7. QED
  BY <1>6 DEF r

(* What was written more than once is what was read.                         *)
HopsInv ==
  /\ hops \in Nat
  /\ hops >= 1 => source \in GainMapParams /\ file = serialize(source, file.format)
  /\ hops >= 2 => \E p \in GainMapParams : source = ReadBack(p)

(* HopsInv is inductive, with GainMapInv. *)
LEMMA HopsKeep ==
  /\ GainMapInit => HopsInv
  /\ GainMapInv /\ HopsInv /\ [GainMapNext]_gainMapVars => HopsInv'
<1>1. ASSUME GainMapInit PROVE HopsInv
  <2>1. CASE file \in Foreign /\ source = None /\ hops = 0
    BY <2>1 DEF HopsInv
  <2>2. ASSUME NEW p \in Originals, NEW format \in Formats,
               file = serialize(p, format) /\ source = p /\ hops = 1
        PROVE  HopsInv
    <3>1. p \in GainMapParams /\ format \in AllFormats
      BY ParamsAssumption, FormatsAssumption
    <3>2. file.format = format
      BY <2>2, <3>1, SerializedFile
    <3>3. QED
      BY <2>2, <3>1, <3>2 DEF HopsInv
  <2>3. QED
    BY <1>1, <2>1, <2>2 DEF GainMapInit
<1>2. ASSUME GainMapInv, HopsInv, [GainMapNext]_gainMapVars PROVE HopsInv'
  <2>1. CASE UNCHANGED <<file, source, hops>>
    BY <1>2, <2>1 DEF HopsInv
  <2>2. ASSUME NEW format \in Formats, Rewrite(format) PROVE HopsInv'
    <3>1. /\ outcome # None /\ outcome.is = "ok"
          /\ file' = serialize(outcome.params, format) /\ source' = outcome.params
          /\ hops' = hops + 1
      BY <2>2 DEF Rewrite
    <3>2. /\ IsFile(file) /\ received \in 0..Size(file) /\ file.format \in AllFormats
          /\ outcome = parse_iso21496_fmt(file, received) /\ received \in Nat
      BY <1>2, <3>1, SizeParts DEF GainMapInv, IsFile, Files
    <3>3. parse_iso21496_fmt(file, received).is = "ok"
      BY <3>1, <3>2, Zenon
    <3>4. outcome.params = Params(file)
      BY <3>2, <3>3, ParseOk, AnswerKinds
    <3>5. WordsNeeded(file) <= Len(file.words)
      BY <3>2, <3>3, EnoughWords
    <3>6. outcome.params \in GainMapParams
      BY <3>2, <3>4, <3>5, ParamsType
    <3>7. hops >= 1 => \E p \in GainMapParams : outcome.params = ReadBack(p)
      <4> SUFFICES ASSUME hops >= 1 PROVE \E p \in GainMapParams : outcome.params = ReadBack(p)
        OBVIOUS
      <4>1. source \in GainMapParams /\ file = serialize(source, file.format)
        BY <1>2 DEF HopsInv
      <4>2. Params(file) = ReadBack(source)
        BY <3>2, <4>1, SerializedReads
      <4>3. QED
        BY <3>4, <4>1, <4>2
    <3>8. format \in AllFormats
      BY FormatsAssumption
    <3> DEFINE p == outcome.params
    <3>9. serialize(p, format).format = format
      BY <3>6, <3>8, SerializedFile
    <3>10. hops \in Nat
      BY <1>2 DEF HopsInv
    <3>11. source' = p /\ file' = serialize(p, format) /\ hops' = hops + 1 /\ p \in GainMapParams
           /\ (hops >= 1 => \E q \in GainMapParams : p = ReadBack(q))
      BY <3>1, <3>6, <3>7
    <3> HIDE DEF p
    <3>12. file' = serialize(source', file'.format)
      BY <3>9, <3>11
    <3>13. hops' \in Nat /\ (hops' >= 2 => hops >= 1)
      BY <3>10, <3>11
    <3>14. QED
      BY <3>11, <3>12, <3>13 DEF HopsInv
  <2>3. ASSUME NEW n \in Chunks, Receive(n) PROVE UNCHANGED <<file, source, hops>>
    BY <2>3 DEF Receive
  <2>4. Parse => UNCHANGED <<file, source, hops>>
    BY DEF Parse
  <2>5. UNCHANGED gainMapVars => UNCHANGED <<file, source, hops>>
    BY DEF gainMapVars
  <2>6. QED
    BY <1>2, <2>1, <2>2, <2>3, <2>4, <2>5 DEF GainMapNext
<1>3. QED
  BY <1>1, <1>2

(* For every map and every sequence of containers: what one hop loses is all    *)
(* that is lost.                                                             *)
THEOREM LossIsOnce == GainMapSpec => []LossHappensOnce
<1>1. GainMapInv /\ HopsInv => LossHappensOnce
  <2> SUFFICES ASSUME GainMapInv, HopsInv, Delivered, hops >= 2 PROVE outcome.params = source
    BY DEF LossHappensOnce
  <2>1. outcome.params = ReadBack(source)
    BY DeliveryFromInv
  <2>2. PICK p \in GainMapParams : source = ReadBack(p)
    BY DEF HopsInv
  <2>3. ReadBack(source) = source
    BY <2>2, BackTwice
  <2>4. QED
    BY <2>1, <2>3
<1>2. (GainMapInit => HopsInv) /\ (GainMapInv /\ HopsInv /\ [GainMapNext]_gainMapVars => HopsInv')
  BY HopsKeep
<1>3. QED
  BY <1>1, <1>2, GainMapInvariance, PTL DEF GainMapSpec

(* A channel that validates and is in range validates when it is read. *)
LEMMA ChannelStaysValid ==
  ASSUME NEW ch \in GainMapChannel, \A k \in DOMAIN ch : IsFinite(ch[k]), ch.gamma[1] > 0,
         AtMost(ch.min, ch.max), InRange(ch.min, I32Max), InRange(ch.max, I32Max),
         InRange(ch.gamma, U32Max), AtMost(Ratio(1, U32Max), AsF32(ch.gamma))
  PROVE  LET r == ReadChannel(ch)
         IN /\ \A k \in DOMAIN r : IsFinite(r[k])
            /\ r.gamma[1] > 0 /\ AtMost(r.min, r.max)
<1> DEFINE r == ReadChannel(ch)
<1>1. \A k \in Fields : ch[k] \in Float
  BY DEF GainMapChannel
<1>2. /\ ch["min"] \in Float /\ ch["max"] \in Float /\ ch["gamma"] \in Float
      /\ ch["base_offset"] \in Float /\ ch["alternate_offset"] \in Float
  BY <1>1 DEF Fields
<1>3. /\ r.min = SignedRead(ch.min) /\ r.max = SignedRead(ch.max)
      /\ r.gamma = UnsignedRead(ch.gamma)
      /\ r.base_offset = SignedRead(ch.base_offset)
      /\ r.alternate_offset = SignedRead(ch.alternate_offset)
      /\ DOMAIN r = {"min", "max", "gamma", "base_offset", "alternate_offset"}
  BY DEF ReadChannel, SignedRead, UnsignedRead
<1> HIDE DEF r
<1>4. /\ IsFinite(r.min) /\ IsFinite(r.max) /\ IsFinite(r.gamma)
      /\ IsFinite(r.base_offset) /\ IsFinite(r.alternate_offset)
  BY <1>2, <1>3, ReadTwice, ValueParts
<1>5. \A k \in DOMAIN r : IsFinite(r[k])
  BY <1>3, <1>4
<1>6. r.gamma[1] > 0
  BY <1>2, <1>3, GammaStays
<1>7. AtMost(r.min, r.max)
  BY <1>2, <1>3, SignedOrder
<1>8. QED
  BY <1>5, <1>6, <1>7 DEF r

(* For every map: what validates and is in range validates when it is read,    *)
(* and the headrooms do not turn the direction round.                        *)
THEOREM MapsStayValid == GainMapSpec => []StaysValid
<1>1. GainMapInv => StaysValid
  <2> SUFFICES ASSUME GainMapInv, Delivered, validate(source) PROVE StaysValid
    BY DEF StaysValid
  <2> DEFINE p == outcome.params
             b == source.base_hdr_headroom
             a == source.alternate_hdr_headroom
  <2>1. source \in GainMapParams /\ p = ReadBack(source)
    BY DeliveryFromInv
  <2>2. a \in Float /\ b \in Float /\ \A c \in 1..3 : source.channels[c] \in GainMapChannel
    BY <2>1 DEF GainMapParams
  <2>3. p.base_hdr_headroom = UnsignedRead(b) /\ p.alternate_hdr_headroom = UnsignedRead(a)
        /\ \A c \in 1..3 : p.channels[c] = ReadChannel(source.channels[c])
    BY <2>1 DEF ReadBack, UnsignedRead
  <2> HIDE DEF p
  <2>4. ASSUME \A c \in 1..3 : LET ch == source.channels[c] IN
                 /\ InRange(ch.min, I32Max) /\ InRange(ch.max, I32Max)
                 /\ InRange(ch.gamma, U32Max) /\ AtMost(Ratio(1, U32Max), AsF32(ch.gamma))
        PROVE  validate(p)
    <3>1. IsFinite(p.base_hdr_headroom) /\ IsFinite(p.alternate_hdr_headroom)
      BY <2>2, <2>3, ReadTwice, ValueParts
    <3>2. ASSUME NEW c \in 1..3
          PROVE  LET r == p.channels[c]
                 IN /\ \A k \in DOMAIN r : IsFinite(r[k])
                    /\ r.gamma[1] > 0 /\ AtMost(r.min, r.max)
      <4> DEFINE ch == source.channels[c]
      <4>1. /\ \A k \in DOMAIN ch : IsFinite(ch[k])
            /\ ch.gamma[1] > 0 /\ AtMost(ch.min, ch.max)
        BY DEF validate
      <4>2. /\ InRange(ch.min, I32Max) /\ InRange(ch.max, I32Max)
            /\ InRange(ch.gamma, U32Max) /\ AtMost(Ratio(1, U32Max), AsF32(ch.gamma))
        BY <2>4
      <4>3. ch \in GainMapChannel /\ p.channels[c] = ReadChannel(ch)
        BY <2>2, <2>3
      <4> HIDE DEF ch
      <4>4. QED
        BY <4>1, <4>2, <4>3, ChannelStaysValid
    <3>3. QED
      BY <3>1, <3>2 DEF validate
  <2>5. ASSUME InRange(b, U32Max), InRange(a, U32Max), direction(p) = "BaseIsHdr"
        PROVE  direction(source) = "BaseIsHdr"
    <3>1. Less(UnsignedRead(a), UnsignedRead(b))
      BY <2>3, <2>5 DEF direction
    <3>2. Less(a, b)
      BY <2>2, <2>5, <3>1, UnsignedOrder
    <3>3. QED
      BY <3>2 DEF direction
  <2>6. QED
    BY <2>4, <2>5 DEF StaysValid, p, a, b
<1>2. QED
  BY <1>1, GainMapInvariance, PTL
==============================================================================
