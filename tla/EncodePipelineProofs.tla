------------------------- MODULE EncodePipelineProofs -------------------------
(***************************************************************************)
(* Proofs about EncodePipeline, for any widths, descriptors and durations,   *)
(* images of any size in any strips, and any number of frames.               *)
(***************************************************************************)
EXTENDS EncodePipeline, DynJobShimProofs, WellFoundedInduction, SequenceTheorems,
        FiniteSetTheorems

-----------------------------------------------------------------------------
(* Arithmetic of rows and blocks                                            *)

(* A place counted in blocks of z, and the block and offset of the place. *)
LEMMA BlockAndOffset ==
  ASSUME NEW z \in Nat \ {0}, NEW x \in Nat, NEW r \in 0..z-1
  PROVE  (x * z + r) \div z = x /\ (x * z + r) % z = r
OBVIOUS

(* Every place is so many blocks and an offset into one. *)
LEMMA PlaceOfBlock ==
  ASSUME NEW z \in Nat \ {0}, NEW p \in Nat
  PROVE  /\ p \div z \in Nat /\ p % z \in 0..z-1
         /\ p = (p \div z) * z + (p % z)
OBVIOUS

(* A product of natural numbers is one. *)
LEMMA ProductType ==
  ASSUME NEW a \in Nat, NEW b \in Nat
  PROVE  a * b \in Nat
OBVIOUS

(* More blocks have no fewer places. *)
LEMMA ProductMonotone ==
  ASSUME NEW a \in Nat, NEW b \in Nat, NEW c \in Nat, a <= b
  PROVE  a * c <= b * c
OBVIOUS

(* A place before n blocks is in one of them. *)
LEMMA BlockInRange ==
  ASSUME NEW z \in Nat \ {0}, NEW n \in Nat, NEW p \in Nat, p < n * z
  PROVE  p \div z < n
<1> DEFINE q == p \div z
<1>1. q \in Nat /\ p >= q * z
  BY PlaceOfBlock
<1> HIDE DEF q
<1>2. ASSUME q >= n PROVE FALSE
  <2>1. q * z >= n * z
    BY <1>1, <1>2
  <2>2. q * z \in Nat /\ n * z \in Nat
    BY <1>1
  <2>3. QED
    BY <1>1, <2>1, <2>2
<1>3. QED
  BY <1>1, <1>2 DEF q

(* Every set of natural numbers that is not empty has a least one. *)
LEMMA LeastExists ==
  ASSUME NEW S \in SUBSET Nat, S # {}
  PROVE  \E i \in S : \A j \in S : i <= j
<1>1. PICK i \in S : \A j \in S : ~(<<j, i>> \in OpToRel(<, Nat))
  BY NatLessThanWellFounded, WFMin
<1>2. \A j \in S : ~(j < i)
  <2> SUFFICES ASSUME NEW j \in S, j < i PROVE FALSE
    OBVIOUS
  <2>1. <<j, i>> \in OpToRel(<, Nat)
    BY Zenon DEF OpToRel
  <2>2. QED
    BY <1>1, <2>1
<1>3. QED
  BY <1>2

-----------------------------------------------------------------------------
(* FlattenSeq                                                               *)

(* The recursive function FlattenSeq is defined by exists: of the lengths it   *)
(* does not exist for, the least would extend the function of one length less. *)
LEMMA RunExists ==
  ASSUME NEW S, NEW seqs \in Seq(Seq(S)), NEW n \in 1..Len(seqs)
  PROVE  \E f : f = [i \in 1..n |-> IF i = 1 THEN seqs[i] ELSE f[i - 1] \o seqs[i]]
<1> DEFINE Has(m) == \E f : f = [i \in 1..m |-> IF i = 1 THEN seqs[i] ELSE f[i - 1] \o seqs[i]]
           Lacking == {m \in Nat \ {0} : ~Has(m)}
<1>1. ASSUME NEW m \in Nat \ {0}, m = 1 \/ Has(m - 1) PROVE Has(m)
  <2>1. CASE m = 1
    <3> DEFINE g == [i \in 1..m |-> seqs[i]]
    <3>1. g = [i \in 1..m |-> IF i = 1 THEN seqs[i] ELSE g[i - 1] \o seqs[i]]
      BY <2>1
    <3> HIDE DEF g
    <3>2. QED
      BY <3>1
  <2>2. CASE m # 1
    <3>1. PICK f : f = [i \in 1..m-1 |-> IF i = 1 THEN seqs[i] ELSE f[i - 1] \o seqs[i]]
      BY <1>1, <2>2
    <3> DEFINE last_run == f[m - 1] \o seqs[m]
               g == [i \in 1..m |-> IF i = m THEN last_run ELSE f[i]]
    <3> HIDE DEF last_run
    <3>2. g[m] = last_run /\ \A i \in 1..m-1 : g[i] = f[i]
      OBVIOUS
    <3>3. DOMAIN g = 1..m /\ g = [i \in 1..m |-> g[i]]
      OBVIOUS
    <3> HIDE DEF g
    <3>4. \A i \in 1..m : g[i] = IF i = 1 THEN seqs[i] ELSE g[i - 1] \o seqs[i]
      <4> SUFFICES ASSUME NEW i \in 1..m
                   PROVE  g[i] = IF i = 1 THEN seqs[i] ELSE g[i - 1] \o seqs[i]
        OBVIOUS
      <4>1. CASE i = m
        <5>1. i # 1 /\ i - 1 \in 1..m-1
          BY <2>2, <4>1
        <5>2. g[i - 1] = f[m - 1]
          BY <3>2, <4>1, <5>1
        <5>3. QED
          BY <3>2, <4>1, <5>1, <5>2, Zenon DEF last_run
      <4>2. CASE i # m
        <5>1. i \in 1..m-1 /\ g[i] = f[i]
          BY <3>2, <4>2
        <5>2. f[i] = IF i = 1 THEN seqs[i] ELSE f[i - 1] \o seqs[i]
          BY <3>1, <5>1
        <5>3. i # 1 => g[i - 1] = f[i - 1]
          BY <3>2, <5>1
        <5>4. QED
          BY <5>1, <5>2, <5>3
      <4>3. QED
        BY <4>1, <4>2
    <3>5. g = [i \in 1..m |-> IF i = 1 THEN seqs[i] ELSE g[i - 1] \o seqs[i]]
      BY <3>3, <3>4
    <3>6. QED
      BY <3>5
  <2>3. QED
    BY <2>1, <2>2
<1> HIDE DEF Has
<1>2. SUFFICES ASSUME Lacking # {} PROVE FALSE
  <2>1. n \in Nat \ {0}
    BY LenProperties
  <2>2. Has(n)
    BY <1>2, <2>1
  <2>3. QED
    BY <2>2 DEF Has
<1>3. PICK m \in Lacking : \A j \in Lacking : m <= j
  BY <1>2, LeastExists
<1>4. m - 1 \in Nat \ {0} => Has(m - 1)
  BY <1>3
<1>5. QED
  BY <1>1, <1>3, <1>4

(* FlattenSeq is the last value of a run.                                   *)
LEMMA FlattenIsRun ==
  ASSUME NEW S, NEW seqs \in Seq(Seq(S)), seqs # <<>>
  PROVE  \E f : /\ f[1] = seqs[1]
                /\ \A i \in 2..Len(seqs) : f[i] = f[i - 1] \o seqs[i]
                /\ FlattenSeq(seqs) = f[Len(seqs)]
<1> DEFINE f == CHOOSE f : f = [i \in 1..Len(seqs) |->
                                  IF i = 1 THEN seqs[i] ELSE f[i - 1] \o seqs[i]]
<1>1. Len(seqs) \in Nat \ {0}
  BY EmptySeq
<1>2. f = [i \in 1..Len(seqs) |-> IF i = 1 THEN seqs[i] ELSE f[i - 1] \o seqs[i]]
  <2>1. Len(seqs) \in 1..Len(seqs)
    BY <1>1
  <2>2. \E g : g = [i \in 1..Len(seqs) |-> IF i = 1 THEN seqs[i] ELSE g[i - 1] \o seqs[i]]
    BY <2>1, RunExists
  <2>3. QED
    BY <2>2
<1>3. FlattenSeq(seqs) = f[Len(seqs)]
  BY <1>1 DEF FlattenSeq
<1> HIDE DEF f
<1>4. \A i \in 1..Len(seqs) : f[i] = IF i = 1 THEN seqs[i] ELSE f[i - 1] \o seqs[i]
  BY <1>2
<1>5. f[1] = seqs[1] /\ \A i \in 2..Len(seqs) : f[i] = f[i - 1] \o seqs[i]
  <2>1. 1 \in 1..Len(seqs) /\ \A i \in 2..Len(seqs) : i \in 1..Len(seqs) /\ i # 1
    BY <1>1
  <2>2. QED
    BY <1>4, <2>1, Zenon
<1>6. QED
  BY <1>3, <1>5

(* What is laid out first is read first.                                    *)
LEMMA FlattenBegins ==
  ASSUME NEW S, NEW seqs \in Seq(Seq(S)), seqs # <<>>
  PROVE  /\ FlattenSeq(seqs) \in Seq(S)
         /\ Len(FlattenSeq(seqs)) >= Len(seqs[1])
         /\ \A j \in 1..Len(seqs[1]) : FlattenSeq(seqs)[j] = seqs[1][j]
<1>1. PICK f : /\ f[1] = seqs[1]
               /\ \A i \in 2..Len(seqs) : f[i] = f[i - 1] \o seqs[i]
               /\ FlattenSeq(seqs) = f[Len(seqs)]
  BY FlattenIsRun
<1>2. Len(seqs) \in Nat \ {0} /\ \A i \in 1..Len(seqs) : seqs[i] \in Seq(S)
  BY EmptySeq, ElementOfSeq
<1> DEFINE Begins(i) == /\ f[i] \in Seq(S)
                        /\ Len(f[i]) >= Len(seqs[1])
                        /\ \A j \in 1..Len(seqs[1]) : f[i][j] = seqs[1][j]
           Failing == {i \in Nat : i \in 1..Len(seqs) /\ ~Begins(i)}
<1>3. Begins(1)
  BY <1>1, <1>2
<1>4. ASSUME NEW i \in 2..Len(seqs), Begins(i - 1) PROVE Begins(i)
  <2>1. /\ f[i - 1] \in Seq(S) /\ Len(f[i - 1]) >= Len(seqs[1])
        /\ \A j \in 1..Len(seqs[1]) : f[i - 1][j] = seqs[1][j]
    BY <1>4
  <2>2. seqs[i] \in Seq(S) /\ seqs[1] \in Seq(S) /\ f[i] = f[i - 1] \o seqs[i]
    <3>1. i \in 1..Len(seqs) /\ 1 \in 1..Len(seqs)
      BY <1>2
    <3>2. QED
      BY <1>1, <1>2, <3>1, Zenon
  <2> DEFINE so_far == f[i - 1]
             block == seqs[i]
             first == seqs[1]
  <2> HIDE DEF so_far, block, first
  <2>3. /\ so_far \in Seq(S) /\ block \in Seq(S) /\ first \in Seq(S)
        /\ Len(so_far) >= Len(first) /\ \A j \in 1..Len(first) : so_far[j] = first[j]
    BY <2>1, <2>2 DEF so_far, block, first
  <2>4. /\ so_far \o block \in Seq(S)
        /\ Len(so_far \o block) = Len(so_far) + Len(block)
        /\ \A j \in 1..Len(so_far) + Len(block) :
             (so_far \o block)[j] = IF j <= Len(so_far) THEN so_far[j] ELSE block[j - Len(so_far)]
    BY <2>3, ConcatProperties
  <2>5. Len(so_far) \in Nat /\ Len(block) \in Nat /\ Len(first) \in Nat
    BY <2>3, LenProperties
  <2>6. /\ Len(so_far \o block) >= Len(first)
        /\ \A j \in 1..Len(first) : (so_far \o block)[j] = first[j]
    BY <2>3, <2>4, <2>5
  <2>7. QED
    BY <2>2, <2>4, <2>6, Zenon DEF so_far, block, first
<1> HIDE DEF Begins
<1>5. Failing = {}
  <2> SUFFICES ASSUME Failing # {} PROVE FALSE
    OBVIOUS
  <2>1. PICK i \in Failing : \A j \in Failing : i <= j
    BY LeastExists
  <2>2. i \in 2..Len(seqs)
    BY <1>2, <1>3, <2>1
  <2>3. i - 1 \in 1..Len(seqs) /\ i - 1 \in Nat
    BY <1>2, <2>2
  <2>4. Begins(i - 1)
    BY <2>1, <2>2, <2>3
  <2>5. QED
    BY <1>4, <2>1, <2>2, <2>4
<1>6. Begins(Len(seqs))
  BY <1>2, <1>5
<1>7. QED
  BY <1>1, <1>6 DEF Begins

(* Sequences of one length. *)
AllOfSize(seqs, size) == \A i \in 1..Len(seqs) : Len(seqs[i]) = size

(* The k-th sequence stands k - 1 sizes after the start. *)
AtMultiples(whole, seqs, size) ==
  /\ Len(whole) = Len(seqs) * size
  /\ \A k \in 1..Len(seqs), j \in 1..size : whole[(k - 1) * size + j] = seqs[k][j]

(* Blocks of one length are found at its multiples.                         *)
LEMMA FlattenBlocks ==
  ASSUME NEW S, NEW seqs \in Seq(Seq(S)), seqs # <<>>, NEW size \in Nat,
         AllOfSize(seqs, size)
  PROVE  AtMultiples(FlattenSeq(seqs), seqs, size)
<1>1. PICK f : /\ f[1] = seqs[1]
               /\ \A i \in 2..Len(seqs) : f[i] = f[i - 1] \o seqs[i]
               /\ FlattenSeq(seqs) = f[Len(seqs)]
  BY FlattenIsRun
<1>2. /\ Len(seqs) \in Nat \ {0}
      /\ \A i \in 1..Len(seqs) : seqs[i] \in Seq(S) /\ Len(seqs[i]) = size
  BY EmptySeq, ElementOfSeq DEF AllOfSize
<1> DEFINE Holds(i) == /\ f[i] \in Seq(S)
                       /\ Len(f[i]) = i * size
                       /\ \A k \in 1..i, j \in 1..size :
                            f[i][(k - 1) * size + j] = seqs[k][j]
           Failing == {i \in Nat : i \in 1..Len(seqs) /\ ~Holds(i)}
<1>3. Holds(1)
  BY <1>1, <1>2
<1>4. ASSUME NEW i \in 2..Len(seqs), Holds(i - 1) PROVE Holds(i)
  <2>1. /\ f[i - 1] \in Seq(S) /\ Len(f[i - 1]) = (i - 1) * size
        /\ \A k \in 1..i-1, j \in 1..size : f[i - 1][(k - 1) * size + j] = seqs[k][j]
    BY <1>4
  <2>2. seqs[i] \in Seq(S) /\ Len(seqs[i]) = size /\ f[i] = f[i - 1] \o seqs[i]
    <3>1. i \in 1..Len(seqs)
      BY <1>2
    <3>2. QED
      BY <1>1, <1>2, <3>1, Zenon
  <2> DEFINE so_far == f[i - 1]
             block == seqs[i]
             low == (i - 1) * size
  <2>3. low \in Nat /\ low + size = i * size
    BY <1>2
  <2>4. \A k \in 1..i-1 : (k - 1) * size \in Nat /\ (k - 1) * size + size <= low
    <3> SUFFICES ASSUME NEW k \in 1..i-1
                 PROVE  (k - 1) * size \in Nat /\ (k - 1) * size + size <= low
      OBVIOUS
    <3>1. i \in Nat /\ k \in Nat \ {0} /\ k <= i - 1
      BY <1>2
    <3>2. k * size <= (i - 1) * size
      BY <3>1
    <3>3. (k - 1) * size \in Nat /\ (k - 1) * size + size = k * size
      BY <3>1
    <3>4. QED
      BY <3>2, <3>3
  <2> HIDE DEF so_far, block, low
  <2>5. /\ so_far \in Seq(S) /\ block \in Seq(S) /\ Len(so_far) = low /\ Len(block) = size
        /\ \A k \in 1..i-1, j \in 1..size : so_far[(k - 1) * size + j] = seqs[k][j]
    BY <2>1, <2>2, Zenon DEF so_far, block, low
  <2> DEFINE whole == so_far \o block
  <2> HIDE DEF whole
  <2>6. /\ whole \in Seq(S) /\ Len(whole) = low + size
        /\ \A j \in 1..low + size : whole[j] = IF j <= low THEN so_far[j] ELSE block[j - low]
    <3>1. /\ whole \in Seq(S) /\ Len(whole) = Len(so_far) + Len(block)
          /\ \A j \in 1..Len(so_far) + Len(block) :
               whole[j] = IF j <= Len(so_far) THEN so_far[j] ELSE block[j - Len(so_far)]
      BY <2>5, ConcatProperties DEF whole
    <3>2. QED
      BY <2>5, <3>1
  <2>7. ASSUME NEW k \in 1..i, NEW j \in 1..size
        PROVE  whole[(k - 1) * size + j] = seqs[k][j]
    <3>1. CASE k = i
      <4>1. (k - 1) * size = low
        BY <3>1 DEF low
      <4>2. whole[low + j] = block[j]
        BY <2>3, <2>6
      <4>3. QED
        BY <3>1, <4>1, <4>2, Zenon DEF block
    <3>2. CASE k # i
      <4> DEFINE before == (k - 1) * size
      <4>1. k \in 1..i-1
        BY <1>2, <3>2
      <4>2. before \in Nat /\ before + size <= low
        BY <2>4, <4>1
      <4>3. so_far[before + j] = seqs[k][j]
        BY <2>5, <4>1, Zenon
      <4> HIDE DEF before
      <4>4. whole[before + j] = so_far[before + j]
        BY <2>3, <2>6, <4>2
      <4>5. QED
        BY <4>3, <4>4, Zenon DEF before
    <3>3. QED
      BY <3>1, <3>2
  <2>8. f[i] = whole /\ Len(whole) = i * size
    BY <2>2, <2>3, <2>6, Zenon DEF so_far, block, whole
  <2>9. QED
    BY <2>6, <2>7, <2>8, Zenon
<1> HIDE DEF Holds
<1>5. Failing = {}
  <2> SUFFICES ASSUME Failing # {} PROVE FALSE
    OBVIOUS
  <2>1. PICK i \in Failing : \A j \in Failing : i <= j
    BY LeastExists
  <2>2. i \in 2..Len(seqs)
    BY <1>2, <1>3, <2>1
  <2>3. i - 1 \in 1..Len(seqs) /\ i - 1 \in Nat
    BY <1>2, <2>2
  <2>4. Holds(i - 1)
    BY <2>1, <2>2, <2>3
  <2>5. QED
    BY <1>4, <2>1, <2>2, <2>4
<1>6. Holds(Len(seqs))
  BY <1>2, <1>5
<1>7. QED
  BY <1>1, <1>6 DEF Holds, AtMultiples

-----------------------------------------------------------------------------
(* Rows of pixels                                                           *)

(* A row has at least a byte. *)
LEMMA RowBytesType ==
  ASSUME NEW w \in Nat \ {0}, NEW d \in Descs
  PROVE  RowBytes(w, d) \in Nat \ {0}
<1>1. BytesPerPixel[d] \in Nat \ {0}
  BY EncodeAssumption
<1>2. QED
  BY <1>1 DEF RowBytes

(* n rows have n times the bytes of a row. *)
LEMMA PixelsType ==
  ASSUME NEW f \in Nat, NEW first \in Nat, NEW n \in Nat, NEW w \in Nat \ {0}, NEW d \in Descs
  PROVE  /\ n * RowBytes(w, d) \in Nat
         /\ Pixels(f, first, n, w, d) \in Cells
         /\ Len(Pixels(f, first, n, w, d)) = n * RowBytes(w, d)
<1> DEFINE row == RowBytes(w, d)
           len == n * row
<1>1. row \in Nat \ {0}
  BY RowBytesType
<1>2. Pixels(f, first, n, w, d) =
        [k \in 1..len |-> <<f, first + (k - 1) \div row, (k - 1) % row>>]
  BY DEF Pixels
<1> HIDE DEF row
<1>3. len \in Nat
  BY <1>1
<1> HIDE DEF len
<1>4. \A k \in 1..len : first + (k - 1) \div row \in Nat /\ (k - 1) % row \in Nat
  <2> SUFFICES ASSUME NEW k \in 1..len
               PROVE  first + (k - 1) \div row \in Nat /\ (k - 1) % row \in Nat
    OBVIOUS
  <2> DEFINE p == k - 1
  <2>1. p \in Nat
    BY <1>3
  <2> HIDE DEF p
  <2>2. p \div row \in Nat /\ p % row \in 0..row-1
    BY <1>1, <2>1, PlaceOfBlock
  <2>3. p % row \in Nat
    BY <1>1, <2>2
  <2>4. QED
    BY <2>2, <2>3 DEF p
<1>5. Pixels(f, first, n, w, d) \in [1..len -> Nat \X Nat \X Nat]
  BY <1>2, <1>4
<1>6. /\ Pixels(f, first, n, w, d) \in Seq(Nat \X Nat \X Nat)
      /\ Len(Pixels(f, first, n, w, d)) = len
  BY <1>3, <1>5, SeqDef
<1>7. QED
  BY <1>3, <1>6 DEF len, row, Cells

(* The byte that stands at a place. *)
LEMMA PixelAt ==
  ASSUME NEW f, NEW first, NEW n, NEW w, NEW d, NEW k \in 1..n * RowBytes(w, d)
  PROVE  Pixels(f, first, n, w, d)[k] =
           <<f, first + (k - 1) \div RowBytes(w, d), (k - 1) % RowBytes(w, d)>>
BY DEF Pixels

(* Rows laid out after the rows before them.                                *)
LEMMA PixelsFollow ==
  ASSUME NEW f \in Nat, NEW first \in Nat, NEW n \in Nat, NEW m \in Nat,
         NEW w \in Nat \ {0}, NEW d \in Descs
  PROVE  Pixels(f, first, n, w, d) \o Pixels(f, first + n, m, w, d)
           = Pixels(f, first, n + m, w, d)
<1> DEFINE row == RowBytes(w, d)
           upper == n * row
           lower == m * row
<1>1. row \in Nat \ {0}
  BY RowBytesType
<1>a. \A from \in Nat, rows \in Nat :
        /\ Pixels(f, from, rows, w, d) \in Cells
        /\ Len(Pixels(f, from, rows, w, d)) = rows * row
        /\ \A k \in 1..rows * row :
             Pixels(f, from, rows, w, d)[k] = <<f, from + (k - 1) \div row, (k - 1) % row>>
  <2> TAKE from \in Nat, rows \in Nat
  <2>1. Pixels(f, from, rows, w, d) \in Cells
    BY PixelsType, Zenon
  <2>2. Len(Pixels(f, from, rows, w, d)) = rows * row
    BY PixelsType
  <2>3. ASSUME NEW k \in 1..rows * row
        PROVE  Pixels(f, from, rows, w, d)[k] = <<f, from + (k - 1) \div row, (k - 1) % row>>
    BY PixelAt
  <2>4. QED
    BY <2>1, <2>2, <2>3, Zenon
<1> HIDE DEF row
<1>b. first + n \in Nat /\ n + m \in Nat
  OBVIOUS
<1> DEFINE top == Pixels(f, first, n, w, d)
           bottom == Pixels(f, first + n, m, w, d)
           both == Pixels(f, first, n + m, w, d)
<1>2. /\ top \in Cells /\ Len(top) = upper
      /\ \A k \in 1..upper : top[k] = <<f, first + (k - 1) \div row, (k - 1) % row>>
  BY <1>a, Zenon
<1>3. /\ bottom \in Cells /\ Len(bottom) = lower
      /\ \A k \in 1..lower : bottom[k] = <<f, first + n + (k - 1) \div row, (k - 1) % row>>
  BY <1>a, <1>b, Zenon
<1>4. /\ both \in Cells /\ Len(both) = (n + m) * row
      /\ \A k \in 1..(n + m) * row : both[k] = <<f, first + (k - 1) \div row, (k - 1) % row>>
  BY <1>a, <1>b, Zenon
<1> HIDE DEF top, bottom, both
<1>5. (n + m) * row = upper + lower /\ upper \in Nat /\ lower \in Nat
  BY <1>1
<1>6. \A k \in 1..lower : /\ (upper + k - 1) \div row = n + (k - 1) \div row
                          /\ (upper + k - 1) % row = (k - 1) % row
  <2> SUFFICES ASSUME NEW k \in 1..lower
               PROVE  /\ (upper + k - 1) \div row = n + (k - 1) \div row
                      /\ (upper + k - 1) % row = (k - 1) % row
    OBVIOUS
  <2> DEFINE p == k - 1
             q == p \div row
             r == p % row
  <2>1. p \in Nat /\ upper + k - 1 = upper + p
    BY <1>5
  <2> HIDE DEF p
  <2>2. q \in Nat /\ r \in 0..row-1 /\ p = q * row + r
    BY <1>1, <2>1, PlaceOfBlock
  <2> HIDE DEF q, r
  <2>3. upper + p = (n + q) * row + r /\ n + q \in Nat
    BY <1>1, <2>2
  <2>4. ((n + q) * row + r) \div row = n + q /\ ((n + q) * row + r) % row = r
    BY <1>1, <2>2, <2>3, BlockAndOffset
  <2> HIDE DEF upper
  <2>5. (upper + k - 1) \div row = n + q /\ (upper + k - 1) % row = r
    BY <2>1, <2>3, <2>4
  <2>6. QED
    BY <2>5 DEF p, q, r
<1> HIDE DEF upper, lower
<1> DEFINE whole == top \o bottom
<1>7. /\ whole \in Cells /\ Len(whole) = upper + lower
      /\ \A k \in 1..upper + lower : whole[k] = IF k <= upper THEN top[k] ELSE bottom[k - upper]
  <2>1. /\ whole \in Cells /\ Len(whole) = Len(top) + Len(bottom)
        /\ \A k \in 1..Len(top) + Len(bottom) :
             whole[k] = IF k <= Len(top) THEN top[k] ELSE bottom[k - Len(top)]
    BY <1>2, <1>3, ConcatProperties DEF Cells
  <2>2. QED
    BY <1>2, <1>3, <2>1
<1> HIDE DEF whole
<1>8. ASSUME NEW k \in 1..upper + lower PROVE whole[k] = both[k]
  <2>1. both[k] = <<f, first + (k - 1) \div row, (k - 1) % row>>
    BY <1>4, <1>5
  <2>2. CASE k <= upper
    BY <1>2, <1>5, <1>7, <2>1, <2>2
  <2>3. CASE ~(k <= upper)
    <3> DEFINE j == k - upper
    <3>1. j \in 1..lower /\ k - 1 = upper + j - 1
      BY <1>5, <2>3
    <3>2. whole[k] = bottom[j]
      BY <1>7, <2>3
    <3> HIDE DEF j
    <3>3. bottom[j] = <<f, first + n + (j - 1) \div row, (j - 1) % row>>
      BY <1>3, <3>1
    <3>4. (k - 1) \div row = n + (j - 1) \div row /\ (k - 1) % row = (j - 1) % row
      BY <1>6, <3>1
    <3>5. (j - 1) \div row \in Int
      BY <1>1, <1>5, <3>1
    <3>6. first + n + (j - 1) \div row = first + (k - 1) \div row
      BY <3>4, <3>5
    <3>7. QED
      BY <2>1, <3>2, <3>3, <3>4, <3>6
  <2>4. QED
    BY <2>2, <2>3
<1>9. Len(whole) = Len(both)
  BY <1>4, <1>5, <1>7
<1>10. whole = both
  BY <1>4, <1>7, <1>8, <1>9, SeqEqual DEF Cells
<1>11. QED
  BY <1>10 DEF whole, top, bottom, both

(* Two buffers, one after the other. *)
Joined(top, bottom) == top \o bottom

(* PixelsFollow of any two runs of rows. *)
LEMMA RowsJoin ==
  \A f \in Nat, first \in Nat, n \in Nat, m \in Nat, w \in Nat \ {0}, d \in Descs :
    Joined(Pixels(f, first, n, w, d), Pixels(f, first + n, m, w, d))
      = Pixels(f, first, n + m, w, d)
BY PixelsFollow DEF Joined

(* Strips pushed or pulled: their rows stand after those of the image so far. *)
LEMMA RowsAfter ==
  ASSUME NEW rows \in Nat, NEW more \in Nat, NEW next, next = rows + 1,
         NEW all, all = rows + more, NEW w \in Nat \ {0}, NEW d \in Descs
  PROVE  Joined(Pixels(1, 1, rows, w, d), Pixels(1, next, more, w, d)) = Pixels(1, 1, all, w, d)
<1>1. 1 \in Nat /\ 1 + rows = next
  OBVIOUS
<1> DEFINE one == 1
<1>2. one \in Nat /\ one + rows = next
  BY <1>1
<1> HIDE DEF one
<1>3. Joined(Pixels(one, one, rows, w, d), Pixels(one, one + rows, more, w, d))
        = Pixels(one, one, rows + more, w, d)
  BY <1>2, RowsJoin
<1>4. QED
  BY <1>2, <1>3, Zenon DEF one

(* The rows of slices, counted one slice after another.                      *)
LEMMA RowsOfNone == RowsOf(<<>>) = 0
<1>1. UNION {{i} \X (1..(<<>>)[i].rows) : i \in DOMAIN <<>>} = {}
  OBVIOUS
<1>2. QED
  BY <1>1, FS_EmptySet DEF RowsOf

(* One slice more adds its rows. *)
LEMMA RowsOfAppend ==
  ASSUME NEW S, NEW most \in Nat, \A s \in S : s.rows \in 0..most,
         NEW g \in Seq(S), NEW s \in S
  PROVE  RowsOf(g) \in Nat /\ RowsOf(Append(g, s)) = RowsOf(g) + s.rows
<1> DEFINE h == Append(g, s)
           n == Len(g)
           old == UNION {{i} \X (1..g[i].rows) : i \in DOMAIN g}
           all == UNION {{i} \X (1..h[i].rows) : i \in DOMAIN h}
           new == {n + 1} \X (1..s.rows)
<1>1. /\ n \in Nat /\ DOMAIN g = 1..n /\ DOMAIN h = 1..n+1
      /\ \A i \in 1..n : h[i] = g[i] /\ g[i] \in S
      /\ h[n + 1] = s
  <2>1. n \in Nat /\ DOMAIN g = 1..n /\ \A i \in 1..n : g[i] \in S
    BY LenProperties, ElementOfSeq
  <2>2. h \in Seq(S) /\ Len(h) = n + 1 /\ h[n + 1] = s /\ \A i \in 1..n : h[i] = g[i]
    BY AppendProperties
  <2>3. DOMAIN h = 1..n+1
    BY <2>2, LenProperties
  <2>4. QED
    BY <2>1, <2>2, <2>3
<1>2. s.rows \in Nat
  OBVIOUS
<1> HIDE DEF h, n
<1>3. IsFiniteSet(old)
  <2>1. IsFiniteSet(1..n) /\ IsFiniteSet(1..most)
    BY <1>1, FS_Interval
  <2>2. IsFiniteSet((1..n) \X (1..most))
    BY <2>1, FS_Product
  <2>3. old \subseteq (1..n) \X (1..most)
    <3> SUFFICES ASSUME NEW i \in 1..n PROVE {i} \X (1..g[i].rows) \subseteq (1..n) \X (1..most)
      BY <1>1
    <3>1. g[i].rows \in 0..most
      BY <1>1
    <3>2. 1..g[i].rows \subseteq 1..most
      BY <3>1
    <3>3. QED
      BY <3>2
  <2>4. QED
    BY <2>2, <2>3, FS_Subset
<1>4. IsFiniteSet(new) /\ Cardinality(new) = s.rows
  <2>1. IsFiniteSet(1..s.rows) /\ Cardinality(1..s.rows) = s.rows
    <3> DEFINE r == s.rows
    <3>1. r \in Nat
      BY <1>2
    <3> HIDE DEF r
    <3>2. IsFiniteSet(1..r) /\ Cardinality(1..r) = IF 1 > r THEN 0 ELSE r - 1 + 1
      BY <3>1, FS_Interval
    <3>3. QED
      BY <3>1, <3>2 DEF r
  <2>2. IsFiniteSet({n + 1}) /\ Cardinality({n + 1}) = 1
    BY FS_Singleton
  <2>3. IsFiniteSet(new) /\ Cardinality(new) = Cardinality({n + 1}) * Cardinality(1..s.rows)
    BY <2>1, <2>2, FS_Product
  <2>4. QED
    BY <1>2, <2>1, <2>2, <2>3
<1>5. all = old \cup new
  <2>1. \A i \in 1..n : {i} \X (1..h[i].rows) = {i} \X (1..g[i].rows)
    BY <1>1
  <2>2. {n + 1} \X (1..h[n + 1].rows) = new
    BY <1>1
  <2>3. 1..n+1 = (1..n) \cup {n + 1}
    BY <1>1
  <2> DEFINE at(i) == {i} \X (1..h[i].rows)
             was(i) == {i} \X (1..g[i].rows)
  <2>4. all = UNION {at(i) : i \in (1..n) \cup {n + 1}} /\ old = UNION {was(i) : i \in 1..n}
    BY <1>1, <2>3
  <2>5. (\A i \in 1..n : at(i) = was(i)) /\ at(n + 1) = new
    BY <2>1, <2>2
  <2> HIDE DEF at, was, all, old, new
  <2>6. QED
    BY <2>4, <2>5
<1>6. old \cap new = {}
  BY <1>1
<1> HIDE DEF old, new, all
<1>7. Cardinality(all) = Cardinality(old) + s.rows /\ Cardinality(old) \in Nat
  <2>1. Cardinality(old \cup new) = Cardinality(old) + Cardinality(new) - Cardinality(old \cap new)
    BY <1>3, <1>4, FS_Union
  <2>2. Cardinality(old) \in Nat /\ Cardinality(old \cap new) = 0
    BY <1>3, <1>6, FS_CardinalityType, FS_EmptySet
  <2>3. QED
    BY <1>2, <1>4, <1>5, <2>1, <2>2
<1>8. QED
  BY <1>7 DEF RowsOf, old, all, h

-----------------------------------------------------------------------------
(* Strides                                                                  *)

(* Rows without padding are the bytes themselves. *)
LEMMA TightRows ==
  ASSUME NEW data \in Cells, NEW w \in Nat \ {0}, NEW h \in Nat, NEW d \in Descs,
         Len(data) = h * RowBytes(w, d)
  PROVE  SliceRows(PixelSlice(data, w, h, RowBytes(w, d), d)) = data
<1> DEFINE row == RowBytes(w, d)
           len == h * row
           rows == [k \in 1..len |-> data[((k - 1) \div row) * row + ((k - 1) % row) + 1]]
<1>1. row \in Nat \ {0}
  BY RowBytesType
<1>2. SliceRows(PixelSlice(data, w, h, RowBytes(w, d), d)) = rows
  BY DEF SliceRows, PixelSlice
<1> HIDE DEF row
<1>3. len \in Nat
  BY <1>1
<1>4. data = [k \in 1..len |-> data[k]]
  BY LenProperties DEF row, Cells
<1> HIDE DEF len
<1>5. ASSUME NEW k \in 1..len
      PROVE  ((k - 1) \div row) * row + ((k - 1) % row) + 1 = k
  <2> DEFINE p == k - 1
  <2>1. p \in Nat /\ p + 1 = k
    BY <1>3
  <2> HIDE DEF p
  <2>2. p \div row \in Nat /\ p % row \in 0..row-1 /\ p = (p \div row) * row + (p % row)
    BY <1>1, <2>1, PlaceOfBlock
  <2>3. (p \div row) * row + (p % row) + 1 = k
    BY <2>1, <2>2
  <2>4. QED
    BY <2>3 DEF p
<1>6. \A k \in 1..len : data[((k - 1) \div row) * row + ((k - 1) % row) + 1] = data[k]
  BY <1>5
<1>7. rows = [k \in 1..len |-> data[k]]
  BY <1>6, Zenon
<1>8. QED
  BY <1>2, <1>4, <1>7, Zenon

(* Of a caller's bitmap the padding is left out. *)
LEMMA BitmapRows ==
  ASSUME NEW s, s.rows \in Nat \ {0}, s.width \in Nat \ {0}, s.desc \in Descs,
         NEW stride \in Nat, stride >= RowBytes(s.width, s.desc),
         NEW len \in Int, len >= (s.rows - 1) * stride + RowBytes(s.width, s.desc)
  PROVE  SliceRows(PixelSlice(Bitmap(s, stride, len), s.width, s.rows, stride, s.desc))
           = Pixels(1, 1, s.rows, s.width, s.desc)
<1> DEFINE row == RowBytes(s.width, s.desc)
           n == s.rows
           all == n * row
           cell(k) == ((k - 1) \div row) * stride + ((k - 1) % row) + 1
           map == Bitmap(s, stride, len)
<1>1. row \in Nat \ {0} /\ n \in Nat \ {0} /\ stride >= row
      /\ len >= (n - 1) * stride + row
  BY RowBytesType
<1>2. SliceRows(PixelSlice(map, s.width, s.rows, stride, s.desc)) = [k \in 1..all |-> map[cell(k)]]
  BY DEF SliceRows, PixelSlice
<1>3. Pixels(1, 1, s.rows, s.width, s.desc)
        = [k \in 1..all |-> <<1, 1 + (k - 1) \div row, (k - 1) % row>>]
  BY DEF Pixels
<1>4. \A j \in 1..len : map[j] = IF (j - 1) % stride < row
                                 THEN <<1, (j - 1) \div stride + 1, (j - 1) % stride>>
                                 ELSE <<0, 0, 0>>
  BY DEF Bitmap
<1> HIDE DEF row, n, map
<1>5. all \in Nat
  BY <1>1
<1>6. ASSUME NEW k \in 1..all
      PROVE  map[cell(k)] = <<1, 1 + (k - 1) \div row, (k - 1) % row>>
  <2> DEFINE p == k - 1
             q == p \div row
             r == p % row
             low == q * stride
             j == low + r + 1
  <2>1. p \in Nat /\ p < n * row
    BY <1>5
  <2> HIDE DEF p
  <2>2. q \in Nat /\ r \in 0..row-1 /\ q < n
    BY <1>1, <2>1, PlaceOfBlock, BlockInRange
  <2> HIDE DEF q, r
  <2>3. low <= (n - 1) * stride /\ low \in Nat
    <3>1. q <= n - 1 /\ n - 1 \in Nat
      BY <1>1, <2>2
    <3>2. QED
      BY <2>2, <3>1
  <2>4. j \in 1..len /\ j - 1 = low + r
    <3> DEFINE high == (n - 1) * stride
    <3>1. low <= high /\ low \in Nat /\ high \in Int
      BY <1>1, <2>3
    <3>2. len >= high + row
      BY <1>1
    <3>3. row \in Int /\ r \in 0..row-1
      BY <1>1, <2>2
    <3> HIDE DEF low, high
    <3>4. QED
      BY <3>1, <3>2, <3>3
  <2>5. r \in 0..stride-1 /\ stride \in Nat \ {0}
    BY <1>1, <2>2
  <2>6. (low + r) \div stride = q /\ (low + r) % stride = r
    BY <2>2, <2>5, BlockAndOffset
  <2> HIDE DEF j
  <2>7. (j - 1) \div stride = q /\ (j - 1) % stride = r
    BY <2>4, <2>6
  <2>8. map[j] = <<1, q + 1, r>>
    <3>1. j \in 1..len /\ r < row
      BY <1>1, <2>2, <2>4
    <3>2. map[j] = IF (j - 1) % stride < row
                   THEN <<1, (j - 1) \div stride + 1, (j - 1) % stride>> ELSE <<0, 0, 0>>
      BY <1>4, <3>1, Zenon
    <3>3. QED
      BY <2>7, <3>1, <3>2
  <2>9. q + 1 = 1 + q
    BY <2>2
  <2>10. map[j] = <<1, 1 + q, r>>
    BY <2>8, <2>9
  <2>11. QED
    BY <2>10, Zenon DEF j, low, q, r, p
<1>7. QED
  BY <1>2, <1>3, <1>6, Zenon DEF map

-----------------------------------------------------------------------------
(* What is read back of a file                                              *)

(* Frames that have all the bytes of their rows. *)
WholeFrames ==
  {fr \in [data : Cells, width : Nat \ {0}, height : Nat, ms : Nat, desc : Descs] :
     Len(fr.data) = fr.height * RowBytes(fr.width, fr.desc)}

(* What stands in a payload for each frame: its duration, then its rows. *)
Blocks(fs) == [i \in DOMAIN fs |-> <<<<i, 0, fs[i].ms>>>> \o fs[i].data]

(* A block has its duration first and the bytes of its frame after it. *)
LEMMA BlockParts ==
  ASSUME NEW fs \in Seq(WholeFrames), fs # <<>>
  PROVE  /\ Blocks(fs) \in Seq(Cells) /\ Blocks(fs) # <<>> /\ Len(Blocks(fs)) = Len(fs)
         /\ Len(fs) \in Nat \ {0}
         /\ \A i \in 1..Len(fs) :
              /\ fs[i] \in WholeFrames /\ fs[i].data \in Cells /\ fs[i].ms \in Nat
              /\ Len(Blocks(fs)[i]) = 1 + Len(fs[i].data)
              /\ Blocks(fs)[i][1] = <<i, 0, fs[i].ms>>
              /\ \A j \in 1..Len(fs[i].data) : Blocks(fs)[i][1 + j] = fs[i].data[j]
<1>1. /\ Len(fs) \in Nat \ {0} /\ DOMAIN fs = 1..Len(fs)
      /\ \A i \in 1..Len(fs) : fs[i] \in WholeFrames
  BY EmptySeq, LenProperties, ElementOfSeq
<1>2. \A i \in 1..Len(fs) : Blocks(fs)[i] = <<<<i, 0, fs[i].ms>>>> \o fs[i].data
  BY <1>1 DEF Blocks
<1>3. ASSUME NEW i \in 1..Len(fs)
      PROVE  /\ fs[i].data \in Cells /\ fs[i].ms \in Nat /\ Blocks(fs)[i] \in Cells
             /\ Len(Blocks(fs)[i]) = 1 + Len(fs[i].data)
             /\ Blocks(fs)[i][1] = <<i, 0, fs[i].ms>>
             /\ \A j \in 1..Len(fs[i].data) : Blocks(fs)[i][1 + j] = fs[i].data[j]
  <2> DEFINE cell == <<i, 0, fs[i].ms>>
             data == fs[i].data
  <2>1. fs[i].data \in Cells /\ fs[i].ms \in Nat
    BY <1>1 DEF WholeFrames
  <2>2. cell \in Nat \X Nat \X Nat /\ i \in Nat
    BY <1>1, <2>1
  <2>3. Blocks(fs)[i] = <<cell>> \o data
    BY <1>2, Zenon
  <2>4. data \in Seq(Nat \X Nat \X Nat)
    BY <2>1 DEF Cells
  <2> HIDE DEF cell, data
  <2>5. <<cell>> \in Seq(Nat \X Nat \X Nat) /\ Len(<<cell>>) = 1 /\ <<cell>>[1] = cell
    BY <2>2
  <2> DEFINE block == <<cell>> \o data
  <2>6. /\ block \in Seq(Nat \X Nat \X Nat) /\ Len(block) = Len(<<cell>>) + Len(data)
        /\ \A j \in 1..Len(<<cell>>) + Len(data) :
             block[j] = IF j <= Len(<<cell>>) THEN <<cell>>[j] ELSE data[j - Len(<<cell>>)]
    BY <2>4, <2>5, ConcatProperties
  <2> HIDE DEF block
  <2>7. Len(data) \in Nat
    BY <2>4, LenProperties
  <2>8. Len(block) = 1 + Len(data) /\ block[1] = cell
    BY <2>5, <2>6, <2>7
  <2>9. ASSUME NEW j \in 1..Len(data) PROVE block[1 + j] = data[j]
    <3> DEFINE l == 1 + j
    <3>1. l \in 1..1 + Len(data) /\ ~(l <= 1) /\ l - 1 = j
      BY <2>7
    <3> HIDE DEF l
    <3>2. block[l] = IF l <= 1 THEN <<cell>>[l] ELSE data[l - 1]
      BY <2>5, <2>6, <3>1
    <3>3. block[l] = data[j]
      BY <3>1, <3>2
    <3>4. QED
      BY <3>3 DEF l
  <2>10. QED
    BY <2>1, <2>3, <2>6, <2>8, <2>9, Zenon DEF block, cell, data, Cells
<1>4. Blocks(fs) \in [1..Len(fs) -> Cells]
  <2>1. Blocks(fs) = [i \in 1..Len(fs) |-> Blocks(fs)[i]]
    BY <1>1 DEF Blocks
  <2>2. QED
    BY <1>3, <2>1
<1>5. Blocks(fs) \in Seq(Cells) /\ Len(Blocks(fs)) = Len(fs)
  BY <1>1, <1>4, SeqDef
<1>6. QED
  BY <1>1, <1>3, <1>5, EmptySeq

(* A decoder finds a descriptor of the file's pixels, if not the one encoded. *)
LEMMA DescriptorFound ==
  ASSUME NEW d \in Descs
  PROVE  /\ descriptor_for_bpp(BytesPerPixel[d]) \in Descs
         /\ BytesPerPixel[descriptor_for_bpp(BytesPerPixel[d])] = BytesPerPixel[d]
BY DEF descriptor_for_bpp

(* What a file's header says. *)
LEMMA HeaderSays ==
  ASSUME NEW fs \in Seq(WholeFrames), fs # <<>>
  PROVE  LET f == EncodeMockData(fs)
         IN  /\ f.width = fs[1].width /\ f.height = fs[1].height /\ f.frame_count = Len(fs)
             /\ f.bpp = BytesPerPixel[fs[1].desc] /\ f.payload = FlattenSeq(Blocks(fs))
             /\ fs[1].width \in Nat \ {0} /\ fs[1].height \in Nat /\ fs[1].desc \in Descs
             /\ f.bpp \in Nat \ {0}
             /\ FrameSize(f) = Len(fs[1].data) /\ FrameSize(f) \in Nat
<1> DEFINE f == EncodeMockData(fs)
           w == fs[1].width
           h == fs[1].height
           bpp == BytesPerPixel[fs[1].desc]
<1>1. fs[1] \in WholeFrames
  <2>1. 1 \in 1..Len(fs)
    BY EmptySeq
  <2>2. QED
    BY <2>1, ElementOfSeq
<1>2. /\ w \in Nat \ {0} /\ h \in Nat /\ fs[1].desc \in Descs
      /\ Len(fs[1].data) = h * (w * bpp)
  BY <1>1 DEF WholeFrames, RowBytes
<1>3. bpp \in Nat \ {0}
  BY <1>2, EncodeAssumption
<1>4. /\ f.width = w /\ f.height = h /\ f.frame_count = Len(fs) /\ f.bpp = bpp
      /\ f.payload = FlattenSeq(Blocks(fs))
  BY DEF EncodeMockData, Blocks
<1>5. FrameSize(f) = w * h * bpp
  BY <1>4, Zenon DEF FrameSize
<1> HIDE DEF f, w, h, bpp
<1>6. w * h * bpp = h * (w * bpp) /\ w * h * bpp \in Nat
  BY <1>2, <1>3
<1>7. QED
  BY <1>2, <1>3, <1>4, <1>5, <1>6 DEF f, w, h, bpp

(* The bytes that stand after a duration. *)
LEMMA SubSeqFound ==
  ASSUME NEW p \in Cells, NEW at \in Nat, NEW data \in Cells,
         at + 1 + Len(data) <= Len(p), \A j \in 1..Len(data) : p[at + 1 + j] = data[j]
  PROVE  SubSeq(p, at + 2, at + 1 + Len(data)) = data
<1> DEFINE a == at + 2
           b == at + 1 + Len(data)
           sub == SubSeq(p, a, b)
<1>1. Len(data) \in Nat /\ Len(p) \in Nat
  BY LenProperties DEF Cells
<1>2. a \in Nat /\ b \in Nat /\ b - a + 1 = Len(data)
  BY <1>1
<1>3. \A j \in a..b : p[j] \in Nat \X Nat \X Nat
  <2>1. \A j \in a..b : j \in 1..Len(p)
    BY <1>1
  <2>2. QED
    BY <2>1, ElementOfSeq DEF Cells
<1>4. \A j \in 1..Len(data) : a + j - 1 = at + 1 + j
  BY <1>1
<1> HIDE DEF a, b
<1>5. /\ sub \in Seq(Nat \X Nat \X Nat) /\ Len(sub) = IF a <= b THEN b - a + 1 ELSE 0
      /\ \A j \in 1..b - a + 1 : sub[j] = p[a + j - 1]
  BY <1>2, <1>3, SubSeqProperties
<1> HIDE DEF sub
<1>6. Len(sub) = Len(data)
  BY <1>1, <1>2, <1>5
<1>7. \A j \in 1..Len(data) : sub[j] = data[j]
  BY <1>2, <1>4, <1>5
<1>8. sub = data
  BY <1>5, <1>6, <1>7, SeqEqual DEF Cells
<1>9. QED
  BY <1>8 DEF sub, a, b

(* In the k-th place of a file stands a whole block: a duration and a frame. *)
Stands(f, k, ms, data) ==
  LET at == (k - 1) * (1 + FrameSize(f))
  IN  /\ at \in Nat
      /\ Len(data) = FrameSize(f)
      /\ at + 1 + Len(data) <= Len(f.payload)
      /\ f.payload[at + 1][3] = ms
      /\ \A j \in 1..Len(data) : f.payload[at + 1 + j] = data[j]

(* That frame is what a decoder shows. *)
LEMMA RenderBlock ==
  ASSUME NEW fs \in Seq(WholeFrames), fs # <<>>, NEW k \in Nat \ {0},
         NEW ms \in Nat, NEW data \in Cells, Stands(EncodeMockData(fs), k, ms, data)
  PROVE  /\ Render(EncodeMockData(fs), k) # None
         /\ Render(EncodeMockData(fs), k) =
              AnimationFrame(PixelSlice(data, fs[1].width, fs[1].height,
                                        fs[1].width * BytesPerPixel[fs[1].desc],
                                        descriptor_for_bpp(BytesPerPixel[fs[1].desc])),
                             ms, k - 1)
<1> DEFINE f == EncodeMockData(fs)
           size == FrameSize(f)
           p == f.payload
           bpp == BytesPerPixel[fs[1].desc]
           d == descriptor_for_bpp(bpp)
           at == (k - 1) * (1 + size)
<1>1. /\ f.width = fs[1].width /\ f.height = fs[1].height /\ f.bpp = bpp
      /\ fs[1].width \in Nat \ {0} /\ fs[1].height \in Nat /\ fs[1].desc \in Descs
      /\ bpp \in Nat \ {0} /\ size \in Nat
  BY HeaderSays
<1>2. p = FlattenSeq(Blocks(fs)) /\ p \in Cells
  BY HeaderSays, BlockParts, FlattenBegins DEF Cells
<1>3. /\ at \in Nat /\ Len(data) = size /\ at + 1 + Len(data) <= Len(p)
      /\ p[at + 1][3] = ms /\ \A j \in 1..Len(data) : p[at + 1 + j] = data[j]
  BY Zenon DEF Stands
<1>4. Render(f, k) =
        IF at + 1 + size > Len(p) THEN None
        ELSE AnimationFrame(PixelSlice(SubSeq(p, at + 2, at + 1 + size),
                                       f.width, f.height, f.width * f.bpp, descriptor_for_bpp(f.bpp)),
                            p[at + 1][3], k - 1)
  BY Zenon DEF Render
<1> HIDE DEF f, size, p, d, at
<1>5. Len(p) \in Nat /\ ~(at + 1 + size > Len(p))
  BY <1>1, <1>2, <1>3, LenProperties DEF Cells
<1>6. SubSeq(p, at + 2, at + 1 + size) = data
  <2>1. SubSeq(p, at + 2, at + 1 + Len(data)) = data
    BY <1>2, <1>3, SubSeqFound
  <2>2. QED
    BY <1>3, <2>1
<1>7. Render(f, k) =
        AnimationFrame(PixelSlice(data, fs[1].width, fs[1].height, fs[1].width * bpp, d), ms, k - 1)
  <2>1. p[at + 1][3] = ms
    BY <1>3
  <2>2. QED
    BY <1>1, <1>4, <1>5, <1>6, <2>1, Zenon DEF d
<1>8. Render(f, k) \in LentFrames
  <2> DEFINE w == fs[1].width
             stride == w * bpp
             n == k - 1
  <2>1. d \in Descs
    BY <1>1, DescriptorFound DEF d
  <2>2. w \in Nat \ {0} /\ bpp \in Nat \ {0} /\ fs[1].height \in Nat
    BY <1>1
  <2> HIDE DEF w, bpp
  <2>3. stride \in Nat
    <3>1. w \in Nat /\ bpp \in Nat
      BY <2>2
    <3>2. QED
      BY <3>1, ProductType, Zenon
  <2>4. n \in Nat
    OBVIOUS
  <2> HIDE DEF stride, n
  <2>5. PixelSlice(data, w, fs[1].height, stride, d) \in
          [data : Cells, width : Nat, rows : Nat, stride : Nat, desc : Descs]
    BY <2>1, <2>2, <2>3 DEF PixelSlice
  <2>6. AnimationFrame(PixelSlice(data, w, fs[1].height, stride, d), ms, n) \in LentFrames
    BY <2>4, <2>5 DEF AnimationFrame, LentFrames
  <2>7. QED
    BY <1>7, <2>6 DEF n, stride, bpp, w
<1>9. QED
  BY <1>7, <1>8, EncodeAssumption DEF f, d

(* Whatever the later frames are, the first is shown as it was.              *)
LEMMA FirstShown ==
  ASSUME NEW fs \in Seq(WholeFrames), fs # <<>>
  PROVE  Shown(Render(EncodeMockData(fs), 1)) = [ms |-> fs[1].ms, data |-> fs[1].data]
<1> DEFINE f == EncodeMockData(fs)
           size == FrameSize(f)
           blocks == Blocks(fs)
           data == fs[1].data
           ms == fs[1].ms
<1>1. f.payload = FlattenSeq(blocks) /\ size = Len(data) /\ size \in Nat
  BY HeaderSays
<1>2. /\ data \in Cells /\ ms \in Nat /\ blocks \in Seq(Cells) /\ blocks # <<>>
      /\ Len(blocks[1]) = 1 + Len(data) /\ blocks[1][1] = <<1, 0, ms>>
      /\ \A j \in 1..Len(data) : blocks[1][1 + j] = data[j]
  <2>1. 1 \in 1..Len(fs)
    BY BlockParts
  <2>2. QED
    BY <2>1, BlockParts
<1> DEFINE p == FlattenSeq(blocks)
<1>3. /\ p \in Cells /\ Len(p) >= Len(blocks[1])
      /\ \A j \in 1..Len(blocks[1]) : p[j] = blocks[1][j]
  BY <1>2, FlattenBegins DEF Cells
<1> HIDE DEF p, blocks, size, data, ms
<1>4. Len(data) \in Nat /\ Len(p) \in Nat
  BY <1>2, <1>3, LenProperties DEF Cells
<1>5. p[1] = <<1, 0, ms>> /\ \A j \in 1..Len(data) : p[1 + j] = data[j]
  <2>1. 1 \in 1..Len(blocks[1]) /\ \A j \in 1..Len(data) : 1 + j \in 1..Len(blocks[1])
    BY <1>2, <1>4
  <2>2. QED
    BY <1>2, <1>3, <2>1
<1> DEFINE at == 0
<1>6. at = (1 - 1) * (1 + size) /\ at \in Nat /\ at + 1 = 1 /\ at + 1 + Len(data) <= Len(p)
  BY <1>1, <1>2, <1>3, <1>4
<1>7. p[at + 1] = <<1, 0, ms>> /\ \A j \in 1..Len(data) : p[at + 1 + j] = data[j]
  BY <1>5, <1>6
<1> HIDE DEF at
<1>8. f.payload[at + 1][3] = ms
  BY <1>1, <1>7 DEF p
<1>9. Stands(f, 1, ms, data)
  BY <1>1, <1>6, <1>7, <1>8, Zenon DEF Stands, p, size, data
<1>10. /\ Render(f, 1) # None
       /\ Render(f, 1) =
            AnimationFrame(PixelSlice(data, fs[1].width, fs[1].height,
                                      fs[1].width * BytesPerPixel[fs[1].desc],
                                      descriptor_for_bpp(BytesPerPixel[fs[1].desc])),
                           ms, 1 - 1)
  <2>1. 1 \in Nat \ {0}
    OBVIOUS
  <2>2. QED
    BY <1>2, <1>9, <2>1, RenderBlock, Zenon
<1> HIDE DEF f
<1>11. QED
  BY <1>10 DEF f, data, ms, Shown, AnimationFrame, PixelSlice

(* Frames of one shape are all shown as they were. *)
LEMMA EachRendered ==
  ASSUME NEW fs \in Seq(WholeFrames), fs # <<>>,
         \A i \in 1..Len(fs) : Len(fs[i].data) = Len(fs[1].data), NEW k \in 1..Len(fs)
  PROVE  /\ Render(EncodeMockData(fs), k) # None
         /\ Render(EncodeMockData(fs), k) =
              AnimationFrame(PixelSlice(fs[k].data, fs[1].width, fs[1].height,
                                        fs[1].width * BytesPerPixel[fs[1].desc],
                                        descriptor_for_bpp(BytesPerPixel[fs[1].desc])),
                             fs[k].ms, k - 1)
<1> DEFINE f == EncodeMockData(fs)
           size == FrameSize(f)
           blocks == Blocks(fs)
           data == fs[k].data
           ms == fs[k].ms
           p == FlattenSeq(blocks)
           block == 1 + size
           at == (k - 1) * block
<1>1. f.payload = p /\ size = Len(fs[1].data) /\ size \in Nat
  BY HeaderSays
<1>2. /\ data \in Cells /\ ms \in Nat /\ blocks \in Seq(Cells) /\ blocks # <<>>
      /\ Len(blocks) = Len(fs) /\ Len(fs) \in Nat
      /\ \A i \in 1..Len(fs) : Len(blocks[i]) = 1 + Len(fs[i].data)
      /\ blocks[k][1] = <<k, 0, ms>>
      /\ \A j \in 1..Len(data) : blocks[k][1 + j] = data[j]
  BY BlockParts
<1>3. Len(data) = size /\ AllOfSize(blocks, block)
  BY <1>1, <1>2 DEF AllOfSize
<1>4. block \in Nat /\ k \in Nat \ {0} /\ k - 1 \in Nat /\ k <= Len(fs)
  BY <1>1, <1>2
<1>5. /\ p \in Cells /\ Len(p) = Len(fs) * block
      /\ \A l \in 1..Len(fs), j \in 1..block : p[(l - 1) * block + j] = blocks[l][j]
  <2>1. p \in Cells
    BY <1>2, FlattenBegins DEF Cells
  <2> HIDE DEF block, blocks
  <2>2. AtMultiples(p, blocks, block)
    BY <1>2, <1>3, <1>4, FlattenBlocks DEF Cells
  <2>3. QED
    BY <1>2, <2>1, <2>2, Zenon DEF AtMultiples
<1> HIDE DEF blocks, p, data, ms, f
<1>6. at \in Nat /\ at + block <= Len(p)
  <2> HIDE DEF block
  <2>1. k * block <= Len(fs) * block
    BY <1>2, <1>4, ProductMonotone
  <2>2. at \in Nat /\ at + block = k * block
    BY <1>4
  <2>3. QED
    BY <1>4, <1>5, <2>1, <2>2
<1>7. p[at + 1] = <<k, 0, ms>> /\ \A j \in 1..Len(data) : p[at + 1 + j] = data[j]
  <2> HIDE DEF size
  <2>1. 1 \in 1..block /\ \A j \in 1..Len(data) : 1 + j \in 1..block
    BY <1>1, <1>3
  <2> HIDE DEF block
  <2>2. \A j \in 1..block : p[at + j] = blocks[k][j]
    BY <1>5, Zenon
  <2> HIDE DEF at
  <2>3. p[at + 1] = <<k, 0, ms>>
    BY <1>2, <2>1, <2>2, Zenon
  <2>4. ASSUME NEW j \in 1..Len(data) PROVE p[at + 1 + j] = data[j]
    <3>1. at + 1 + j = at + (1 + j)
      BY <1>1, <1>3, <1>6
    <3>2. p[at + (1 + j)] = blocks[k][1 + j]
      BY <2>1, <2>2, Zenon
    <3>3. QED
      BY <1>2, <3>1, <3>2
  <2>5. QED
    BY <2>3, <2>4
<1> HIDE DEF at, block, size
<1>8. at = (k - 1) * (1 + size)
  BY Zenon DEF at, block
<1>9. at + 1 + Len(data) <= Len(p)
  <2>1. block = 1 + size
    BY DEF block
  <2>2. Len(p) \in Nat
    BY <1>5, LenProperties DEF Cells
  <2>3. at + block = at + 1 + Len(data)
    <3>1. at \in Nat /\ size \in Nat
      BY <1>1, <1>6
    <3>2. at + (1 + size) = at + 1 + size
      BY <3>1
    <3>3. QED
      BY <1>3, <2>1, <3>2, Zenon
  <2>4. QED
    BY <1>6, <2>3
<1>10. p[at + 1][3] = ms
  BY <1>7
<1>11. Stands(f, k, ms, data)
  BY <1>1, <1>3, <1>6, <1>7, <1>8, <1>9, <1>10, Zenon DEF Stands, size
<1>12. QED
  <2>1. k \in Nat \ {0}
    BY <1>4
  <2>2. QED
    BY <1>2, <1>11, <2>1, RenderBlock, Zenon DEF f, data, ms

(* Frames of one shape. *)
SameShape(fs) ==
  \A i \in 1..Len(fs) : /\ fs[i].width = fs[1].width /\ fs[i].height = fs[1].height
                        /\ fs[i].desc = fs[1].desc

(* A frame kept and pushed again has the bytes it was shown with.            *)
LEMMA KeptFrame ==
  ASSUME NEW data \in Cells, NEW w \in Nat \ {0}, NEW h \in Nat, NEW d \in Descs,
         Len(data) = h * RowBytes(w, d), NEW ms, NEW n
  PROVE  PushOwned(as_animation_frame(to_owned_frame(
           AnimationFrame(PixelSlice(data, w, h, RowBytes(w, d), d), ms, n))))
           = [data |-> data, width |-> w, height |-> h, ms |-> ms, desc |-> d]
<1> DEFINE ps == PixelSlice(data, w, h, RowBytes(w, d), d)
           lent == AnimationFrame(ps, ms, n)
           kept == to_owned_frame(lent)
           shown == as_animation_frame(kept)
<1>1. /\ ps.width = w /\ ps.rows = h /\ ps.desc = d
  BY DEF PixelSlice
<1>2. SliceRows(ps) = data
  BY TightRows
<1> HIDE DEF ps
<1>3. lent.pixels = ps /\ lent.duration_ms = ms /\ lent.frame_index = n
  BY DEF AnimationFrame
<1> HIDE DEF lent
<1>4. kept = OwnedAnimationFrame(PixelSlice(data, w, h, RowBytes(w, d), d), ms, n)
  BY <1>1, <1>2, <1>3, Zenon DEF to_owned_frame
<1>5. kept.pixels = ps /\ kept.duration_ms = ms
  BY <1>4 DEF OwnedAnimationFrame, ps
<1> HIDE DEF kept
<1>6. shown.pixels = ps /\ shown.duration_ms = ms
  BY <1>5 DEF as_animation_frame, AnimationFrame
<1> HIDE DEF shown
<1>7. PushOwned(shown) = [data |-> data, width |-> w, height |-> h, ms |-> ms, desc |-> d]
  BY <1>1, <1>2, <1>6, Zenon DEF PushOwned
<1>8. QED
  BY <1>7, Zenon DEF shown, kept, lent, ps

(* Of frames of one shape a decoder renders what was encoded, and what it    *)
(* renders gives the same file again.                                        *)
LEMMA ReadBack ==
  ASSUME NEW fs \in Seq(WholeFrames), fs # <<>>, SameShape(fs)
  PROVE  /\ Rendered(EncodeMockData(fs)) =
              [k \in 1..Len(fs) |-> [ms |-> fs[k].ms, data |-> fs[k].data]]
         /\ Reencoded(EncodeMockData(fs)) = EncodeMockData(fs)
<1> DEFINE f == EncodeMockData(fs)
           w == fs[1].width
           h == fs[1].height
           bpp == BytesPerPixel[fs[1].desc]
           d == descriptor_for_bpp(bpp)
           again == [k \in 1..f.frame_count |->
                       PushOwned(as_animation_frame(to_owned_frame(Render(f, k))))]
<1>1. /\ f.width = w /\ f.height = h /\ f.frame_count = Len(fs) /\ f.bpp = bpp
      /\ f.payload = FlattenSeq(Blocks(fs))
      /\ w \in Nat \ {0} /\ h \in Nat /\ fs[1].desc \in Descs
  BY HeaderSays
<1>2. d \in Descs /\ BytesPerPixel[d] = bpp
  BY <1>1, DescriptorFound
<1>3. RowBytes(w, fs[1].desc) = w * bpp /\ RowBytes(w, d) = w * bpp
  BY <1>2, Zenon DEF RowBytes
<1>4. \A k \in 1..Len(fs) : /\ fs[k] \in WholeFrames /\ fs[k].data \in Cells
                            /\ Len(fs[k].data) = h * RowBytes(w, d)
  <2>1. \A k \in 1..Len(fs) : fs[k] \in WholeFrames
    BY ElementOfSeq
  <2>2. QED
    BY <1>3, <2>1 DEF SameShape, WholeFrames
<1>5. Len(fs) \in Nat \ {0}
  BY EmptySeq
<1>6. \A i \in 1..Len(fs) : Len(fs[i].data) = Len(fs[1].data)
  BY <1>4, <1>5
<1>7. ASSUME NEW k \in 1..Len(fs)
      PROVE  /\ Render(f, k) # None
             /\ Render(f, k) =
                  AnimationFrame(PixelSlice(fs[k].data, w, h, RowBytes(w, d), d), fs[k].ms, k - 1)
  <2>1. /\ Render(f, k) # None
        /\ Render(f, k) = AnimationFrame(PixelSlice(fs[k].data, w, h, w * bpp, d), fs[k].ms, k - 1)
    BY <1>6, EachRendered, Zenon
  <2>2. QED
    BY <1>3, <2>1, Zenon
<1> HIDE DEF f, d, bpp, w, h
<1>8. \A k \in 1..Len(fs) : Shown(Render(f, k)) = [ms |-> fs[k].ms, data |-> fs[k].data]
  <2> TAKE k \in 1..Len(fs)
  <2> DEFINE frame == Render(f, k)
  <2>1. frame # None /\ frame.duration_ms = fs[k].ms /\ frame.pixels.data = fs[k].data
    BY <1>7 DEF AnimationFrame, PixelSlice
  <2> HIDE DEF frame
  <2>2. Shown(frame) = [ms |-> fs[k].ms, data |-> fs[k].data]
    BY <2>1 DEF Shown
  <2>3. QED
    BY <2>2 DEF frame
<1>9. Rendered(f) = [k \in 1..Len(fs) |-> [ms |-> fs[k].ms, data |-> fs[k].data]]
  BY <1>1, <1>8, Zenon DEF Rendered
<1>10. \A k \in 1..Len(fs) :
         again[k] = [data |-> fs[k].data, width |-> w, height |-> h, ms |-> fs[k].ms, desc |-> d]
  <2> TAKE k \in 1..Len(fs)
  <2>1. again[k] = PushOwned(as_animation_frame(to_owned_frame(Render(f, k))))
    BY <1>1
  <2>2. fs[k].data \in Cells /\ Len(fs[k].data) = h * RowBytes(w, d)
    BY <1>4, Zenon
  <2>3. PushOwned(as_animation_frame(to_owned_frame(
          AnimationFrame(PixelSlice(fs[k].data, w, h, RowBytes(w, d), d), fs[k].ms, k - 1))))
          = [data |-> fs[k].data, width |-> w, height |-> h, ms |-> fs[k].ms, desc |-> d]
    <3>1. w \in Nat \ {0} /\ h \in Nat /\ d \in Descs
      BY <1>1, <1>2
    <3> DEFINE data == fs[k].data
               ms == fs[k].ms
               n == k - 1
    <3>2. data \in Cells /\ Len(data) = h * RowBytes(w, d)
      BY <2>2
    <3> HIDE DEF data, ms, n
    <3>3. PushOwned(as_animation_frame(to_owned_frame(
            AnimationFrame(PixelSlice(data, w, h, RowBytes(w, d), d), ms, n))))
            = [data |-> data, width |-> w, height |-> h, ms |-> ms, desc |-> d]
      BY <3>1, <3>2, KeptFrame
    <3>4. QED
      BY <3>3, Zenon DEF data, ms, n
  <2>4. QED
    BY <1>7, <2>1, <2>3, Zenon
<1>11. DOMAIN again = 1..Len(fs) /\ Len(again) = Len(fs)
  <2>1. again = [k \in 1..Len(fs) |-> again[k]]
    BY <1>1, Zenon
  <2> HIDE DEF again
  <2>2. QED
    BY <1>5, <2>1
<1> HIDE DEF again
<1>12. Blocks(again) = Blocks(fs)
  <2>1. DOMAIN fs = 1..Len(fs)
    BY LenProperties
  <2>2. \A k \in 1..Len(fs) : <<<<k, 0, again[k].ms>>>> \o again[k].data
                               = <<<<k, 0, fs[k].ms>>>> \o fs[k].data
    <3> TAKE k \in 1..Len(fs)
    <3>1. again[k] = [data |-> fs[k].data, width |-> w, height |-> h, ms |-> fs[k].ms, desc |-> d]
      BY <1>10, Zenon
    <3>2. again[k].ms = fs[k].ms /\ again[k].data = fs[k].data
      BY <3>1
    <3>3. QED
      BY <3>2, Zenon
  <2>3. QED
    BY <1>11, <2>1, <2>2, Zenon DEF Blocks
<1>13. EncodeMockData(again) = f
  <2>1. again[1].width = w /\ again[1].height = h /\ again[1].desc = d
    <3>1. 1 \in 1..Len(fs)
      BY <1>5
    <3>2. again[1] = [data |-> fs[1].data, width |-> w, height |-> h, ms |-> fs[1].ms, desc |-> d]
      BY <1>10, <3>1, Zenon
    <3>3. QED
      BY <3>2
  <2>2. EncodeMockData(again) = [width |-> w, height |-> h, frame_count |-> Len(fs),
                                bpp |-> bpp, payload |-> FlattenSeq(Blocks(fs))]
    BY <1>2, <1>11, <1>12, <2>1, Zenon DEF EncodeMockData, Blocks
  <2>3. f = [width |-> w, height |-> h, frame_count |-> Len(fs),
             bpp |-> bpp, payload |-> FlattenSeq(Blocks(fs))]
    BY Zenon DEF f, w, h, bpp, EncodeMockData, Blocks
  <2>4. QED
    BY <2>2, <2>3
<1>14. Reencoded(f) = f
  BY <1>13, Zenon DEF Reencoded, again
<1>15. QED
  BY <1>9, <1>14 DEF f

-----------------------------------------------------------------------------
(* The invariant                                                            *)

(* The frame a slice becomes that is pushed as the i-th. *)
FrameOf(i, s) ==
  [data |-> Pixels(i, 1, s.rows, s.width, s.desc), width |-> s.width, height |-> s.rows,
   ms |-> s.ms, desc |-> s.desc]

(* The one image of all the rows of some slices. *)
ImageOf(g) ==
  [data |-> Pixels(1, 1, RowsOf(g), g[1].width, g[1].desc), width |-> g[1].width,
   height |-> RowsOf(g), ms |-> 0, desc |-> g[1].desc]

(* What a file has to hold of the slices accepted. *)
Accepted ==
  IF IsAnimation THEN [i \in DOMAIN given |-> FrameOf(i, given[i])] ELSE <<ImageOf(given)>>

(* Nothing is taken in before there is an encoder. *)
JobIsUntouched ==
  encoder = "job" =>
    /\ box = "held" /\ given = <<>> /\ frames = <<>> /\ accumulated = <<>>
    /\ width = None /\ ~pulling /\ file = None

(* An animation encoder holds the frames it accepted, and its loop count. *)
FramesAreGiven ==
  encoder = "animation" \/ IsAnimation =>
    /\ Len(frames) = Len(given) /\ Len(frames) <= MaxFrames
    /\ \A i \in DOMAIN given : frames[i] = FrameOf(i, given[i])

(* An animation encoder has the loop count of the job it was made from. *)
LoopCountIsAsked ==
  /\ requested["loop_count"] \in Arguments["loop_count"] \cup {Unset}
  /\ encoder = "animation" => job # NoJob /\ loop_count = Flatten(job["loop_count"])

(* An image encoder holds the rows of the strips it accepted. *)
RowsAreGiven ==
  encoder = "single" =>
    /\ frames = <<>>
    /\ ~pulling => IF width = None THEN given = <<>> /\ accumulated = <<>>
                   ELSE /\ given # <<>>
                        /\ width = given[1].width /\ desc = given[1].desc
                        /\ height = RowsOf(given)
                        /\ Uniform => accumulated = Pixels(1, 1, height, width, desc)

(* While it pulls, the local buffer holds the rows that came. *)
RowsArePulled ==
  pulling =>
    /\ encoder = "single"
    /\ y = RowsOf(given)
    /\ all_data = Pixels(1, 1, y, PullWidth, PullDesc)
    /\ \A i \in DOMAIN given : given[i].width = PullWidth /\ given[i].desc = PullDesc

(* A file is what encode_mock_data makes of what was accepted. *)
FileIsAccepted ==
  file # None =>
    /\ encoder = "consumed"
    /\ given # <<>>
    /\ IsAnimation \/ Uniform => file = EncodeMockData(Accepted)

(* The inductive invariant: RoundTrip says nothing of an encoder at work, so *)
(* what it holds of the slices given so far has to be said beside it. *)
EncodeInv ==
  /\ TypeOK
  /\ ShimInv
  /\ JobIsUntouched /\ FramesAreGiven /\ LoopCountIsAsked
  /\ RowsAreGiven /\ RowsArePulled /\ FileIsAccepted
-----------------------------------------------------------------------------
(* What the invariant says of a file                                        *)

(* The slices an encoder may have accepted: passed by the caller, or pulled. *)
Offered ==
  Slices \cup [rows : 1..StripHeight, width : {PullWidth}, desc : {PullDesc}, ms : {0}]

(* A slice offered has at least a row and a column. *)
LEMMA OfferedParts ==
  ASSUME NEW s \in Offered
  PROVE  /\ s.rows \in 1..MaxRows + StripHeight /\ s.rows \in Nat \ {0}
         /\ s.width \in Widths \cup {PullWidth} /\ s.width \in Nat \ {0}
         /\ s.desc \in Descs /\ s.ms \in Nat
<1>1. /\ Widths \subseteq Nat \ {0} /\ Durations \subseteq Nat
      /\ StripHeight \in Nat \ {0} /\ PullWidth \in Nat \ {0} /\ PullDesc \in Descs
      /\ MaxRows \in Nat
  BY EncodeAssumption
<1>2. CASE s \in Slices
  <2>1. s.rows \in 1..MaxRows /\ s.width \in Widths /\ s.desc \in Descs /\ s.ms \in Durations
    BY <1>2 DEF Slices
  <2> DEFINE n == s.rows
  <2>2. n \in 1..MaxRows
    BY <2>1
  <2> HIDE DEF n
  <2>3. n \in 1..MaxRows + StripHeight /\ n \in Nat \ {0}
    BY <1>1, <2>2
  <2>4. QED
    BY <1>1, <2>1, <2>3 DEF n
<1>3. CASE s \notin Slices
  <2>1. s.rows \in 1..StripHeight /\ s.width = PullWidth /\ s.desc = PullDesc /\ s.ms = 0
    BY <1>3 DEF Offered
  <2>2. QED
    BY <1>1, <2>1
<1>4. QED
  BY <1>2, <1>3

(* The rows of slices offered, one slice after another. *)
LEMMA OfferedRows ==
  ASSUME NEW g \in Seq(Offered), NEW s \in Offered
  PROVE  /\ RowsOf(g) \in Nat /\ RowsOf(Append(g, s)) = RowsOf(g) + s.rows
         /\ RowsOf(<<s>>) = s.rows
<1> DEFINE most == MaxRows + StripHeight
<1>1. most \in Nat
  BY EncodeAssumption
<1>2. \A r \in Offered : r.rows \in 0..most
  BY <1>1, OfferedParts
<1> HIDE DEF most
<1>3. RowsOf(g) \in Nat /\ RowsOf(Append(g, s)) = RowsOf(g) + s.rows
  BY <1>1, <1>2, RowsOfAppend
<1>4. <<>> \in Seq(Offered) /\ Append(<<>>, s) = <<s>>
  OBVIOUS
<1>5. RowsOf(<<s>>) = RowsOf(<<>>) + s.rows
  BY <1>1, <1>2, <1>4, RowsOfAppend
<1>6. s.rows \in Nat
  BY OfferedParts
<1>7. QED
  BY <1>3, <1>5, <1>6, RowsOfNone

(* A pushed frame has all the bytes of its rows. *)
LEMMA FrameIsWhole ==
  ASSUME NEW i \in Nat, NEW s \in Offered
  PROVE  FrameOf(i, s) \in WholeFrames
<1>1. /\ s.rows \in Nat /\ s.width \in Nat \ {0} /\ s.desc \in Descs /\ s.ms \in Nat
  BY OfferedParts
<1> DEFINE data == Pixels(i, 1, s.rows, s.width, s.desc)
<1>2. 1 \in Nat
  OBVIOUS
<1>3. data \in Cells
  BY <1>1, <1>2, PixelsType, Zenon
<1>4. Len(data) = s.rows * RowBytes(s.width, s.desc)
  <2> DEFINE w == s.width
             d == s.desc
             n == s.rows
  <2>1. w \in Nat \ {0} /\ d \in Descs /\ n \in Nat
    BY <1>1
  <2> HIDE DEF w, d, n
  <2>2. Len(Pixels(i, 1, n, w, d)) = n * RowBytes(w, d)
    BY <1>2, <2>1, PixelsType
  <2>3. QED
    BY <2>2, Zenon DEF w, d, n
<1> HIDE DEF data
<1> DEFINE fr == [data |-> data, width |-> s.width, height |-> s.rows, ms |-> s.ms, desc |-> s.desc]
<1>5. fr \in [data : Cells, width : Nat \ {0}, height : Nat, ms : Nat, desc : Descs]
  BY <1>1, <1>3
<1>6. Len(fr.data) = fr.height * RowBytes(fr.width, fr.desc)
  BY <1>4
<1>7. fr \in WholeFrames
  BY <1>5, <1>6, Zenon DEF WholeFrames
<1>8. QED
  BY <1>7 DEF FrameOf, data

(* So has the image of all the rows given. *)
LEMMA ImageIsWhole ==
  ASSUME NEW g \in Seq(Offered), g # <<>>
  PROVE  ImageOf(g) \in WholeFrames
<1>1. g[1] \in Offered
  BY EmptySeq, ElementOfSeq
<1> DEFINE s == g[1]
           n == RowsOf(g)
           data == Pixels(1, 1, n, s.width, s.desc)
<1>2. s.width \in Nat \ {0} /\ s.desc \in Descs
  BY <1>1, OfferedParts
<1>3. n \in Nat /\ 1 \in Nat
  BY <1>1, OfferedRows
<1> HIDE DEF n, s
<1>4. data \in Cells
  BY <1>2, <1>3, PixelsType, Zenon
<1>5. Len(data) = n * RowBytes(s.width, s.desc)
  <2> DEFINE w == s.width
             d == s.desc
  <2>1. w \in Nat \ {0} /\ d \in Descs
    BY <1>2
  <2> HIDE DEF w, d
  <2>2. Len(Pixels(1, 1, n, w, d)) = n * RowBytes(w, d)
    BY <1>3, <2>1, PixelsType
  <2>3. QED
    BY <2>2, Zenon DEF w, d
<1> HIDE DEF data
<1> DEFINE fr == [data |-> data, width |-> s.width, height |-> n, ms |-> 0, desc |-> s.desc]
<1>6. fr \in [data : Cells, width : Nat \ {0}, height : Nat, ms : Nat, desc : Descs]
  BY <1>2, <1>3, <1>4
<1>7. Len(fr.data) = fr.height * RowBytes(fr.width, fr.desc)
  BY <1>5
<1>8. fr \in WholeFrames
  BY <1>6, <1>7, Zenon DEF WholeFrames
<1>9. QED
  BY <1>8, Zenon DEF ImageOf, data, s, n

(* What was accepted is a sequence of whole frames, of one shape if the      *)
(* caller kept to one.                                                       *)
LEMMA AcceptedIsWhole ==
  ASSUME given \in Seq(Offered), given # <<>>
  PROVE  /\ Accepted \in Seq(WholeFrames) /\ Accepted # <<>>
         /\ Uniform => SameShape(Accepted)
<1>1. /\ Len(given) \in Nat \ {0} /\ DOMAIN given = 1..Len(given)
      /\ \A i \in 1..Len(given) : given[i] \in Offered
  BY EmptySeq, LenProperties, ElementOfSeq
<1>2. CASE IsAnimation
  <2> DEFINE fs == [i \in 1..Len(given) |-> FrameOf(i, given[i])]
  <2>1. Accepted = fs
    BY <1>1, <1>2 DEF Accepted
  <2>2. \A i \in 1..Len(given) : FrameOf(i, given[i]) \in WholeFrames
    BY <1>1, FrameIsWhole
  <2>3. fs \in Seq(WholeFrames) /\ Len(fs) = Len(given) /\ fs # <<>>
    BY <1>1, <2>2
  <2>4. ASSUME Uniform PROVE SameShape(fs)
    <3>1. \A i \in 1..Len(given) : /\ given[i].width = given[1].width
                                   /\ given[i].desc = given[1].desc
                                   /\ given[i].rows = given[1].rows
      BY <1>1, <1>2, <2>4 DEF Uniform
    <3>2. \A i \in 1..Len(given) : /\ fs[i].width = given[i].width /\ fs[i].height = given[i].rows
                                   /\ fs[i].desc = given[i].desc
      BY DEF FrameOf
    <3>3. 1 \in 1..Len(given)
      BY <1>1
    <3> HIDE DEF fs
    <3>4. QED
      BY <2>3, <3>1, <3>2, <3>3, Zenon DEF SameShape
  <2>5. QED
    BY <2>1, <2>3, <2>4
<1>3. CASE ~IsAnimation
  <2>1. Accepted = <<ImageOf(given)>>
    BY <1>3 DEF Accepted
  <2>2. ImageOf(given) \in WholeFrames
    BY ImageIsWhole
  <2>3. QED
    BY <2>1, <2>2 DEF SameShape
<1>4. QED
  BY <1>2, <1>3

(* What a decoder reads of a file of what was accepted is what was wanted.   *)
LEMMA FileReadsBack ==
  ASSUME EncodeInv
  PROVE  RoundTrip
<1> SUFFICES ASSUME file # None
             PROVE  /\ Uniform => Rendered(file) = Wanted /\ Reencoded(file) = file
                    /\ IsAnimation => Shown(Render(file, 1)) = Wanted[1]
  BY DEF RoundTrip
<1>1. /\ given \in Seq(Offered) /\ given # <<>>
      /\ IsAnimation \/ Uniform => file = EncodeMockData(Accepted)
  BY DEF EncodeInv, TypeOK, Offered, FileIsAccepted
<1>2. Accepted \in Seq(WholeFrames) /\ Accepted # <<>> /\ (Uniform => SameShape(Accepted))
  BY <1>1, AcceptedIsWhole
<1>3. Len(given) \in Nat \ {0} /\ DOMAIN given = 1..Len(given)
  BY <1>1, EmptySeq, LenProperties
<1> DEFINE fs == Accepted
           shown == [k \in 1..Len(fs) |-> [ms |-> fs[k].ms, data |-> fs[k].data]]
<1>4. shown = Wanted
  <2>1. CASE IsAnimation
    <3>1. Accepted = [i \in 1..Len(given) |-> FrameOf(i, given[i])]
      BY <1>3, <2>1 DEF Accepted
    <3>2. Len(Accepted) = Len(given)
      BY <1>3, <3>1
    <3>3. \A i \in 1..Len(given) :
            [ms |-> Accepted[i].ms, data |-> Accepted[i].data] =
            [ms |-> given[i].ms,
             data |-> Pixels(i, 1, given[i].rows, given[i].width, given[i].desc)]
      BY <3>1 DEF FrameOf
    <3>4. Wanted = [i \in 1..Len(given) |->
                      [ms |-> given[i].ms,
                       data |-> Pixels(i, 1, given[i].rows, given[i].width, given[i].desc)]]
      BY <1>3, <2>1 DEF Wanted
    <3>5. QED
      BY <3>2, <3>3, <3>4, Zenon
  <2>2. CASE ~IsAnimation
    <3>1. Accepted = <<ImageOf(given)>>
      BY <2>2 DEF Accepted
    <3> DEFINE image == [ms |-> 0, data |-> Pixels(1, 1, RowsOf(given), given[1].width, given[1].desc)]
    <3>2. Wanted = <<image>>
      BY <2>2 DEF Wanted, TotalRows
    <3>3. [ms |-> ImageOf(given).ms, data |-> ImageOf(given).data] = image
      BY DEF ImageOf
    <3> HIDE DEF image
    <3>4. Len(Accepted) = 1 /\ Accepted[1] = ImageOf(given)
      BY <3>1
    <3>5. shown = [k \in 1..1 |-> image]
      BY <3>3, <3>4
    <3>6. QED
      BY <3>2, <3>5
  <2>3. QED
    BY <2>1, <2>2
<1>5. ASSUME Uniform PROVE Rendered(file) = Wanted /\ Reencoded(file) = file
  <2>1. /\ Rendered(EncodeMockData(fs)) = shown
        /\ Reencoded(EncodeMockData(fs)) = EncodeMockData(fs)
    BY <1>2, <1>5, ReadBack, Zenon
  <2>2. QED
    BY <1>1, <1>4, <1>5, <2>1, Zenon
<1>6. ASSUME IsAnimation PROVE Shown(Render(file, 1)) = Wanted[1]
  <2>1. Shown(Render(EncodeMockData(fs), 1)) = [ms |-> fs[1].ms, data |-> fs[1].data]
    BY <1>2, FirstShown, Zenon
  <2>2. 1 \in 1..Len(fs)
    BY <1>2, EmptySeq
  <2>3. shown[1] = [ms |-> fs[1].ms, data |-> fs[1].data]
    BY <2>2
  <2>4. QED
    BY <1>1, <1>4, <1>6, <2>1, <2>3, Zenon
<1>7. QED
  BY <1>5, <1>6
-----------------------------------------------------------------------------
(* Every step keeps the invariant                                           *)

(* The type of a file, as TypeOK has it. *)
FileTyped(f) ==
  f = None \/ (/\ f.width \in Widths \cup {PullWidth}
               /\ f.height \in 1..MaxRows
               /\ f.frame_count \in 1..MaxFrames \cup {1}
               /\ f.bpp \in {BytesPerPixel[d] : d \in Descs}
               /\ f.payload \in Cells)

(* encode_mock_data writes a file of that type. *)
LEMMA WrittenType ==
  ASSUME NEW fs \in Seq(WholeFrames), fs # <<>>, Len(fs) \in 1..MaxFrames \cup {1},
         fs[1].width \in Widths \cup {PullWidth}, fs[1].height \in 1..MaxRows
  PROVE  FileTyped(EncodeMockData(fs))
<1> DEFINE f == EncodeMockData(fs)
<1>1. /\ f.width = fs[1].width /\ f.height = fs[1].height /\ f.frame_count = Len(fs)
      /\ f.bpp = BytesPerPixel[fs[1].desc] /\ f.payload = FlattenSeq(Blocks(fs))
      /\ fs[1].desc \in Descs
  BY HeaderSays
<1>2. f.payload \in Cells
  BY <1>1, BlockParts, FlattenBegins DEF Cells
<1> HIDE DEF f
<1>3. FileTyped(f)
  BY <1>1, <1>2 DEF FileTyped
<1>4. QED
  BY <1>3 DEF f

(* An encoder's buffer that has enough bytes becomes a whole frame, and rows *)
(* of pixels the image of those rows.                                        *)
LEMMA StillIsWhole ==
  ASSUME NEW data \in Cells, NEW w \in Nat \ {0}, NEW h \in Nat, NEW d \in Descs,
         Len(data) >= h * RowBytes(w, d)
  PROVE  Still(data, w, h, d) \in WholeFrames
<1> DEFINE size == h * RowBytes(w, d)
           sub == SubSeq(data, 1, size)
<1>1. size \in Nat
  <2>1. RowBytes(w, d) \in Nat
    BY RowBytesType
  <2>2. QED
    BY <2>1, ProductType
<1>2. Len(data) >= size
  OBVIOUS
<1> HIDE DEF size
<1>3. \A j \in 1..size : data[j] \in Nat \X Nat \X Nat
  <2>1. Len(data) \in Nat
    BY LenProperties DEF Cells
  <2>2. \A j \in 1..size : j \in 1..Len(data)
    BY <1>1, <1>2, <2>1
  <2>3. QED
    BY <2>2, ElementOfSeq DEF Cells
<1>4. sub \in Seq(Nat \X Nat \X Nat) /\ Len(sub) = IF 1 <= size THEN size - 1 + 1 ELSE 0
  <2> DEFINE from == 1
  <2>1. from \in Int /\ size \in Int /\ \A j \in from..size : data[j] \in Nat \X Nat \X Nat
    BY <1>1, <1>3
  <2> HIDE DEF from
  <2>2. /\ SubSeq(data, from, size) \in Seq(Nat \X Nat \X Nat)
        /\ Len(SubSeq(data, from, size)) = IF from <= size THEN size - from + 1 ELSE 0
    BY <2>1, SubSeqProperties
  <2>3. QED
    BY <2>2 DEF from
<1>5. sub \in Cells /\ Len(sub) = size
  BY <1>1, <1>4 DEF Cells
<1> DEFINE fr == [data |-> sub, width |-> w, height |-> h, ms |-> 0, desc |-> d]
<1>6. Still(data, w, h, d) = fr
  BY Zenon DEF Still, size
<1> HIDE DEF sub
<1>7. fr \in [data : Cells, width : Nat \ {0}, height : Nat, ms : Nat, desc : Descs]
  BY <1>5
<1>8. Len(fr.data) = fr.height * RowBytes(fr.width, fr.desc)
  <2>1. Len(fr.data) = size /\ fr.height = h /\ fr.width = w /\ fr.desc = d
    BY <1>5
  <2>2. QED
    BY <2>1, Zenon DEF size
<1>9. QED
  BY <1>6, <1>7, <1>8, Zenon DEF WholeFrames

(* Of a buffer of exactly its rows nothing is cut off. *)
LEMMA StillOfPixels ==
  ASSUME NEW n \in Nat, NEW w \in Nat \ {0}, NEW d \in Descs
  PROVE  /\ Len(Pixels(1, 1, n, w, d)) = n * RowBytes(w, d) /\ n * RowBytes(w, d) \in Nat
         /\ Pixels(1, 1, n, w, d) \in Cells
         /\ Still(Pixels(1, 1, n, w, d), w, n, d) =
              [data |-> Pixels(1, 1, n, w, d), width |-> w, height |-> n, ms |-> 0, desc |-> d]
<1> DEFINE data == Pixels(1, 1, n, w, d)
           size == n * RowBytes(w, d)
<1>1. 1 \in Nat
  OBVIOUS
<1>2. data \in Cells /\ size \in Nat
  BY <1>1, PixelsType, Zenon
<1>3. Len(data) = size
  BY <1>1, PixelsType
<1> HIDE DEF data, size
<1>4. SubSeq(data, 1, size) = data
  BY <1>2, <1>3, SubSeqFull DEF Cells
<1>5. QED
  BY <1>2, <1>3, <1>4, Zenon DEF Still, data, size

(* No rows have no bytes. *)
LEMMA NoPixels ==
  ASSUME NEW w \in Nat \ {0}, NEW d \in Descs
  PROVE  Pixels(1, 1, 0, w, d) = <<>>
<1> DEFINE none == Pixels(1, 1, 0, w, d)
<1>1. none \in Cells /\ Len(none) = 0 * RowBytes(w, d)
  <2>1. 0 \in Nat
    OBVIOUS
  <2>2. QED
    BY <2>1, StillOfPixels
<1>2. RowBytes(w, d) \in Nat
  BY RowBytesType
<1> HIDE DEF none
<1>3. Len(none) = 0
  BY <1>1, <1>2
<1>4. none = <<>>
  BY <1>1, <1>3, EmptySeq DEF Cells
<1>5. QED
  BY <1>4 DEF none

(* Slices have rows. *)
LEMMA SomeRows ==
  ASSUME NEW g \in Seq(Offered), g # <<>>
  PROVE  RowsOf(g) # 0
<1>1. PICK before \in Seq(Offered), s \in Offered : g = Append(before, s)
  BY SequenceEmptyOrAppend
<1>2. RowsOf(before) \in Nat /\ RowsOf(g) = RowsOf(before) + s.rows
  BY <1>1, OfferedRows
<1> DEFINE n == s.rows
<1>3. n \in Nat \ {0}
  BY OfferedParts
<1> HIDE DEF n
<1>4. RowsOf(before) + n # 0
  BY <1>2, <1>3
<1>5. QED
  BY <1>2, <1>4 DEF n

(* The invariant on the job's side, and on the pixels' side.                 *)
JobSide == ShimInv /\ LoopCountIsAsked

(* A step that leaves the shim and the loop count alone. *)
LEMMA JobSideKept ==
  ASSUME JobSide, UNCHANGED <<shimVars, loop_count>>, encoder' = encoder \/ encoder' # "animation"
  PROVE  JobSide'
<1>1. ShimInv'
  BY ShimStepKeeps DEF JobSide
<1>2. LoopCountIsAsked'
  BY DEF JobSide, LoopCountIsAsked, Flatten, shimVars
<1>3. QED
  BY <1>1, <1>2 DEF JobSide

(* Whatever is set, the loop count asked for is one a caller may ask for. *)
LEMMA ArgumentOfCount ==
  ASSUME NEW s \in Settings, NEW v \in Arguments[s], requested \in Jobs,
         requested["loop_count"] \in Arguments["loop_count"] \cup {Unset},
         requested' = [requested EXCEPT ![s] = v]
  PROVE  requested'["loop_count"] \in Arguments["loop_count"] \cup {Unset}
<1>1. "loop_count" \in Settings
  BY EncodeAssumption
<1>2. requested'["loop_count"] = IF s = "loop_count" THEN v ELSE requested["loop_count"]
  BY <1>1 DEF Jobs
<1>3. QED
  BY <1>2

(* Configuring a job, and moving it into an encoder.                         *)
LEMMA ConfigureKeeps ==
  ASSUME EncodeInv, Configure
  PROVE  EncodeInv'
<1>a. PICK s \in Settings : \E v \in Arguments[s] : Set(s, v)
  BY DEF Configure
<1>1. PICK v \in Arguments[s] : Set(s, v)
  BY <1>a
<1>2. ShimInv'
  BY <1>1, SetKeeps DEF EncodeInv
<1>3. LoopCountIsAsked'
  <2>1. requested \in Jobs /\ requested' = [requested EXCEPT ![s] = v]
    BY <1>1 DEF EncodeInv, ShimInv, ShimTypeOK, Set
  <2>2. requested'["loop_count"] \in Arguments["loop_count"] \cup {Unset}
    BY <2>1, ArgumentOfCount DEF EncodeInv, LoopCountIsAsked
  <2>3. encoder' # "animation"
    BY DEF Configure
  <2>4. QED
    BY <2>2, <2>3 DEF LoopCountIsAsked
<1>4. /\ encoder = "job" /\ encoder' = "job" /\ box' = box
      /\ UNCHANGED <<fields, frameFields, locals, cancelled, file, outcome, given>>
  BY <1>1 DEF Configure, Set
<1>5. TypeOK'
  BY <1>2, <1>4 DEF EncodeInv, TypeOK, ShimInv, fields, frameFields, locals
<1>6. JobIsUntouched' /\ FramesAreGiven' /\ RowsAreGiven' /\ RowsArePulled' /\ FileIsAccepted'
  BY <1>4 DEF EncodeInv, JobIsUntouched, FramesAreGiven, RowsAreGiven, RowsArePulled,
              FileIsAccepted, IsAnimation, fields, frameFields, locals
<1>7. QED
  BY <1>2, <1>3, <1>5, <1>6 DEF EncodeInv

(* Writing through extensions_mut. *)
LEMMA ExtensionsMutKeeps ==
  ASSUME EncodeInv, NEW v \in Arguments["extensions"], ExtensionsMut(v)
  PROVE  EncodeInv'
<1>1. /\ "extensions" \in Settings /\ Supported = Settings /\ v \in Values
  BY EncodeAssumption DEF Values
<1>2. /\ encoder = "job" /\ encoder' = "job" /\ box = "held" /\ job = NoJob
      /\ slot # NoJob /\ slot \in Jobs /\ requested \in Jobs
      /\ slot' = [slot EXCEPT !["extensions"] = v]
      /\ requested' = [requested EXCEPT !["extensions"] = v]
      /\ last' = "ok"
      /\ UNCHANGED <<box, job, fields, frameFields, locals, cancelled, file, outcome, given>>
  BY DEF ExtensionsMut, EncodeInv, JobIsUntouched, ShimInv, ShimTypeOK
<1>3. ShimInv'
  <2>1. slot' \in Jobs /\ requested' \in Jobs
    BY <1>1, <1>2 DEF Jobs
  <2>2. \A s \in Settings : slot'[s] = requested'[s]
    <3>1. \A s \in Settings : slot[s] = requested[s]
      BY <1>1, <1>2 DEF EncodeInv, ShimInv, Faithful
    <3>2. QED
      BY <1>2, <3>1 DEF Jobs
  <2>3. Faithful(slot)' /\ Faithful(job)'
    BY <1>1, <1>2, <2>2 DEF Faithful
  <2>4. QED
    BY <1>2, <2>1, <2>3 DEF ShimInv, ShimTypeOK
<1>4. LoopCountIsAsked'
  <2>1. requested'["loop_count"] \in Arguments["loop_count"] \cup {Unset}
    BY <1>1, <1>2, ArgumentOfCount DEF EncodeInv, LoopCountIsAsked
  <2>2. QED
    BY <1>2, <2>1 DEF LoopCountIsAsked
<1>5. TypeOK'
  BY <1>2, <1>3 DEF EncodeInv, TypeOK, ShimInv, fields, frameFields, locals
<1>6. JobIsUntouched' /\ FramesAreGiven' /\ RowsAreGiven' /\ RowsArePulled' /\ FileIsAccepted'
  BY <1>2 DEF EncodeInv, JobIsUntouched, FramesAreGiven, RowsAreGiven, RowsArePulled,
              FileIsAccepted, IsAnimation, fields, frameFields, locals
<1>7. QED
  BY <1>3, <1>4, <1>5, <1>6 DEF EncodeInv

(* The job becomes an encoder. *)
LEMMA IntoEncoderKeeps ==
  ASSUME EncodeInv, NEW kind \in {"single", "animation"}, IntoEncoder(kind)
  PROVE  EncodeInv'
<1>1. ShimInv'
  BY ShimStepKeeps DEF IntoEncoder, ShimNext, EncodeInv
<1>2. /\ encoder = "job" /\ given = <<>> /\ frames = <<>> /\ accumulated = <<>>
      /\ width = None /\ ~pulling /\ file = None
      /\ encoder' \in {"single", "animation", "consumed"}
      /\ outcome' \in {outcome, "double_take"}
      /\ job' = slot /\ requested' = requested
      /\ UNCHANGED <<fields, frames, locals, cancelled, file, given>>
  BY DEF EncodeInv, JobIsUntouched, IntoEncoder, Into
<1>3. slot # NoJob => slot["loop_count"] \in Nat \cup {None, Unset}
  <2>1. "loop_count" \in Settings /\ Supported = Settings
        /\ Arguments["loop_count"] \subseteq Nat \cup {None}
    BY EncodeAssumption
  <2>2. slot # NoJob => slot["loop_count"] = requested["loop_count"]
    BY <2>1 DEF EncodeInv, ShimInv, Faithful
  <2>3. requested["loop_count"] \in Arguments["loop_count"] \cup {Unset}
    BY DEF EncodeInv, LoopCountIsAsked
  <2>4. QED
    BY <2>1, <2>2, <2>3
<1>4. loop_count' \in Nat \cup {None}
  BY <1>3 DEF IntoEncoder, Flatten, EncodeInv, TypeOK
<1>5. LoopCountIsAsked'
  <2>1. requested'["loop_count"] \in Arguments["loop_count"] \cup {Unset}
    BY <1>2 DEF EncodeInv, LoopCountIsAsked
  <2>2. ASSUME encoder' = "animation"
        PROVE  job' # NoJob /\ loop_count' = Flatten(job'["loop_count"])
    BY <1>2, <2>2 DEF IntoEncoder
  <2>3. QED
    BY <2>1, <2>2 DEF LoopCountIsAsked, Flatten
<1>6. TypeOK'
  <2>1. ShimTypeOK'
    BY <1>1 DEF ShimInv
  <2>2. QED
    BY <1>2, <1>4, <2>1 DEF EncodeInv, TypeOK, fields, locals
<1>7. JobIsUntouched' /\ RowsAreGiven' /\ RowsArePulled' /\ FileIsAccepted'
  BY <1>2 DEF JobIsUntouched, RowsAreGiven, RowsArePulled, FileIsAccepted, fields, locals
<1>8. FramesAreGiven'
  <2>1. MaxFrames \in Nat
    BY EncodeAssumption
  <2>2. QED
    BY <1>2, <2>1 DEF FramesAreGiven, IsAnimation
<1>9. QED
  BY <1>1, <1>5, <1>6, <1>7, <1>8 DEF EncodeInv

(* An image encoder that is not pulling has no file yet, and is no job.      *)
LEMMA SingleState ==
  ASSUME EncodeInv, encoder = "single"
  PROVE  /\ frames = <<>> /\ file = None /\ JobSide /\ given \in Seq(Offered)
         /\ cancelled \in BOOLEAN /\ pulling \in BOOLEAN /\ MaxRows \in Nat
BY EncodeAssumption
   DEF EncodeInv, RowsAreGiven, FileIsAccepted, JobSide, TypeOK, Offered

(* An encoder that ends, with or without a file.                             *)
LEMMA EndKeeps ==
  ASSUME EncodeInv, encoder \in {"single", "animation"}, encoder' = "consumed",
         UNCHANGED <<shimVars, fields, frameFields, all_data, y, cancelled>>, pulling' = FALSE,
         outcome' \in {"ok", "stopped", "no_rows", "buffer", "no_frames", "panic"},
         given' \in Seq(Offered), IsAnimation => given' = given,
         FileTyped(file'), FileIsAccepted'
  PROVE  EncodeInv'
<1>1. JobSide'
  BY JobSideKept DEF EncodeInv, JobSide, frameFields
<1>2. TypeOK'
  <2>1. ShimTypeOK'
    BY <1>1 DEF JobSide, ShimInv
  <2>2. QED
    BY <2>1 DEF EncodeInv, TypeOK, FileTyped, Offered, fields, frameFields
<1>3. JobIsUntouched' /\ RowsAreGiven' /\ RowsArePulled'
  BY DEF JobIsUntouched, RowsAreGiven, RowsArePulled
<1>4. FramesAreGiven'
  BY DEF EncodeInv, FramesAreGiven, IsAnimation, frameFields
<1>5. QED
  BY <1>1, <1>2, <1>3, <1>4 DEF EncodeInv, JobSide

(* The file of an image is that of the rows accepted, if they have one shape. *)
LEMMA BufferedEnds ==
  ASSUME NEW data \in Cells, NEW w \in Widths \cup {PullWidth}, NEW h \in 1..MaxRows,
         NEW d \in Descs, given \in Seq(Offered), given # <<>>, frames = <<>>, file = None,
         Uniform => /\ data = Pixels(1, 1, h, w, d)
                    /\ w = given[1].width /\ d = given[1].desc /\ h = RowsOf(given),
         Buffered(data, w, h, d), UNCHANGED <<frames, given>>
  PROVE  /\ encoder' = "consumed" /\ outcome' \in {"ok", "buffer"}
         /\ FileTyped(file') /\ FileIsAccepted'
<1>1. w \in Nat \ {0} /\ h \in Nat
  <2>1. Widths \subseteq Nat \ {0} /\ PullWidth \in Nat \ {0} /\ MaxRows \in Nat
    BY EncodeAssumption
  <2>2. w \in Nat \ {0}
    BY <2>1
  <2>3. h \in Nat
    BY <2>1
  <2>4. QED
    BY <2>2, <2>3
<1>2. encoder' = "consumed" /\ outcome' \in {"ok", "buffer"}
  BY DEF Buffered, Consume
<1>3. CASE file' = file
  BY <1>2, <1>3 DEF FileTyped, FileIsAccepted
<1>4. CASE /\ Len(data) >= h * RowBytes(w, d)
           /\ file' = EncodeMockData(<<Still(data, w, h, d)>>)
  <2> DEFINE still == Still(data, w, h, d)
  <2>1. still \in WholeFrames
    BY <1>1, <1>4, StillIsWhole
  <2>2. still.width = w /\ still.height = h
    BY DEF Still
  <2>3. file' = EncodeMockData(<<still>>)
    BY <1>4
  <2> HIDE DEF still
  <2>4. FileTyped(EncodeMockData(<<still>>))
    <3>1. /\ <<still>> \in Seq(WholeFrames) /\ <<still>> # <<>> /\ Len(<<still>>) = 1
          /\ <<still>>[1] = still
      BY <2>1
    <3>2. QED
      BY <2>2, <3>1, WrittenType
  <2>5. ASSUME Uniform PROVE Accepted = <<still>>
    <3>1. still = [data |-> Pixels(1, 1, h, w, d), width |-> w, height |-> h, ms |-> 0, desc |-> d]
      BY <1>1, <2>5, StillOfPixels DEF still
    <3>2. still = ImageOf(given)
      BY <2>5, <3>1, Zenon DEF ImageOf
    <3>3. QED
      BY <3>2 DEF Accepted, IsAnimation
  <2>6. Accepted' = Accepted /\ (Uniform' => Uniform) /\ ~IsAnimation'
    BY DEF Accepted, ImageOf, Uniform, IsAnimation
  <2>7. FileIsAccepted'
    BY <1>2, <2>3, <2>5, <2>6, Zenon DEF FileIsAccepted
  <2>8. QED
    BY <1>2, <2>3, <2>4, <2>7
<1>5. QED
  BY <1>3, <1>4 DEF Buffered

(* One slice encoded whole. *)
LEMMA EncodeSliceKeeps ==
  ASSUME EncodeInv, encoder = "single", ~pulling, NEW s \in Stills,
         EncodeSlice(s, Pixels(1, 1, s.rows, s.width, s.desc)),
         UNCHANGED <<shimVars, fields, frameFields, locals, cancelled>>
  PROVE  EncodeInv'
<1> DEFINE w == s.width
           n == s.rows
           d == s.desc
           data == Pixels(1, 1, n, w, d)
           still == Still(data, w, n, d)
<1>1. s \in Slices /\ s \in Offered /\ s.ms = 0
  BY DEF Stills, Offered
<1>2. n \in 1..MaxRows /\ w \in Widths /\ d \in Descs /\ w \in Nat \ {0} /\ n \in Nat
  <2>1. n \in 1..MaxRows /\ w \in Widths /\ d \in Descs
    BY <1>1 DEF Slices
  <2>2. w \in Nat \ {0} /\ n \in Nat
    BY <1>1, OfferedParts
  <2>3. QED
    BY <2>1, <2>2
<1>3. frames = <<>> /\ frames' = <<>> /\ ~IsAnimation /\ ~IsAnimation'
  BY SingleState DEF frameFields, IsAnimation
<1>4. /\ file' = EncodeMockData(<<still>>) /\ encoder' = "consumed" /\ outcome' = "ok"
      /\ given' = <<s>>
  BY DEF EncodeSlice, Consume
<1> HIDE DEF w, n, d
<1>5. /\ still = [data |-> data, width |-> w, height |-> n, ms |-> 0, desc |-> d]
      /\ Len(data) = n * RowBytes(w, d) /\ n * RowBytes(w, d) \in Nat /\ data \in Cells
  BY <1>2, StillOfPixels
<1>6. still \in WholeFrames
  <2>1. Len(data) >= n * RowBytes(w, d)
    BY <1>5
  <2> HIDE DEF data
  <2>2. QED
    BY <1>2, <1>5, <2>1, StillIsWhole
<1> HIDE DEF still
<1>7. FileTyped(file')
  <2>1. /\ <<still>> \in Seq(WholeFrames) /\ <<still>> # <<>> /\ Len(<<still>>) = 1
        /\ <<still>>[1] = still
    BY <1>6
  <2>2. still.width = w /\ still.height = n
    BY <1>5
  <2>3. QED
    BY <1>2, <1>4, <2>1, <2>2, WrittenType
<1>8. ImageOf(<<s>>) = still
  <2>1. RowsOf(<<s>>) = n
    <3>1. <<>> \in Seq(Offered)
      OBVIOUS
    <3>2. QED
      BY <1>1, <3>1, OfferedRows DEF n
  <2>2. <<s>>[1] = s
    OBVIOUS
  <2>3. QED
    BY <1>5, <2>1, <2>2, Zenon DEF ImageOf, data, w, d, n
<1>9. FileIsAccepted'
  <2>1. Accepted' = <<ImageOf(<<s>>)>>
    BY <1>3, <1>4 DEF Accepted, ImageOf
  <2>2. given' # <<>>
    BY <1>4
  <2>3. QED
    BY <1>4, <1>8, <2>1, <2>2, Zenon DEF FileIsAccepted
<1>10. given' \in Seq(Offered) /\ pulling' = FALSE /\ UNCHANGED <<all_data, y>>
  BY <1>1, <1>4, SingleState DEF locals
<1>11. QED
  BY <1>3, <1>4, <1>7, <1>9, <1>10, EndKeeps

(* One slice encoded. *)
LEMMA EncodeKeeps ==
  ASSUME EncodeInv, NEW s \in Stills, Encode(s)
  PROVE  EncodeInv'
BY EncodeSliceKeeps DEF Encode

(* An encoder ends without a file. *)
LEMMA EndKeepsUnwritten ==
  ASSUME EncodeInv, encoder \in {"single", "animation"}, Consume(outcome'),
         UNCHANGED <<shimVars, fields, frameFields, all_data, y, cancelled, file, given>>,
         pulling' = FALSE,
         outcome' \in {"stopped", "no_rows", "buffer", "no_frames", "panic"}
  PROVE  EncodeInv'
<1>1. file = None /\ given \in Seq(Offered)
  BY DEF EncodeInv, FileIsAccepted, TypeOK, Offered
<1>2. FileTyped(file') /\ FileIsAccepted'
  BY <1>1 DEF FileTyped, FileIsAccepted
<1>3. QED
  BY <1>1, <1>2, EndKeeps DEF Consume

(* Bytes of a caller's own. *)
LEMMA EncodeSrgba8Keeps ==
  ASSUME EncodeInv, NEW s \in Stills, NEW stride_pixels \in Nat \ {0}, NEW missing \in Nat,
         EncodeSrgba8(s, stride_pixels, missing)
  PROVE  EncodeInv'
<1> DEFINE stride == StrideBytes(stride_pixels, s.desc)
           len == s.rows * stride_pixels * BytesPerPixel[s.desc] - missing
           row == RowBytes(s.width, s.desc)
<1>1. /\ s.rows \in Nat \ {0} /\ s.width \in Nat \ {0} /\ s.desc \in Descs
      /\ BytesPerPixel[s.desc] \in Nat \ {0}
  <2>1. s \in Offered
    BY DEF Stills, Offered
  <2>2. QED
    BY <2>1, OfferedParts, EncodeAssumption
<1>2. stride \in Nat /\ len \in Int
  <2> DEFINE b == BytesPerPixel[s.desc]
             n == s.rows
  <2>1. b \in Nat /\ n \in Nat
    BY <1>1
  <2> HIDE DEF b, n
  <2>2. stride_pixels * b \in Nat /\ n * stride_pixels * b - missing \in Int
    BY <2>1
  <2>3. QED
    BY <2>2, Zenon DEF b, n, StrideBytes
<1>3. /\ encoder = "single" /\ ~pulling
      /\ UNCHANGED <<shimVars, fields, frameFields, locals, cancelled>>
  BY DEF EncodeSrgba8
<1>4. CASE /\ stride >= row /\ len >= (s.rows - 1) * stride + row
           /\ EncodeSlice(s, SliceRows(PixelSlice(Bitmap(s, stride, len), s.width, s.rows,
                                                  stride, s.desc)))
  <2> HIDE DEF stride, len
  <2>1. SliceRows(PixelSlice(Bitmap(s, stride, len), s.width, s.rows, stride, s.desc))
          = Pixels(1, 1, s.rows, s.width, s.desc)
    BY <1>1, <1>2, <1>4, BitmapRows
  <2>2. EncodeSlice(s, Pixels(1, 1, s.rows, s.width, s.desc))
    BY <1>4, <2>1
  <2>3. QED
    BY <1>3, <2>2, EncodeSliceKeeps
<1>5. CASE Consume("panic") /\ UNCHANGED <<file, given>>
  <2>1. Consume(outcome') /\ outcome' = "panic" /\ pulling' = FALSE /\ UNCHANGED <<all_data, y>>
    BY <1>3, <1>5, SingleState DEF Consume, locals
  <2>2. QED
    BY <1>3, <1>5, <2>1, EndKeepsUnwritten
<1>6. QED
  BY <1>4, <1>5, Zenon DEF EncodeSrgba8, StrideBytes

(* A strip more. *)
LEMMA PushRowsKeeps ==
  ASSUME EncodeInv, NEW s \in Stills, PushRows(s)
  PROVE  EncodeInv'
<1> DEFINE rows == IF width = None THEN 0 ELSE height
           strip == Pixels(1, rows + 1, s.rows, s.width, s.desc)
<1>1. /\ encoder = "single" /\ ~pulling /\ encoder' = "single" /\ ~pulling'
      /\ rows + s.rows <= MaxRows
      /\ accumulated' = accumulated \o strip /\ height' = rows + s.rows
      /\ width' = IF width = None THEN s.width ELSE width
      /\ desc' = IF width = None THEN s.desc ELSE desc
      /\ outcome' = "ok" /\ given' = Append(given, s)
      /\ UNCHANGED <<shimVars, frameFields, locals, cancelled, file>>
  BY DEF PushRows, locals
<1>2. /\ frames = <<>> /\ frames' = <<>> /\ file = None /\ file' = None
      /\ JobSide /\ given \in Seq(Offered) /\ MaxRows \in Nat
  BY <1>1, SingleState DEF frameFields
<1>3. /\ s \in Offered /\ s \in Slices /\ s.rows \in Nat \ {0} /\ s.width \in Nat \ {0}
      /\ s.width \in Widths /\ s.desc \in Descs /\ s.ms = 0
  <2>1. s \in Offered /\ s \in Slices /\ s.ms = 0
    BY DEF Stills, Offered
  <2>2. QED
    BY <2>1, OfferedParts DEF Slices
<1>4. /\ rows \in Nat /\ rows = RowsOf(given)
      /\ (width = None => given = <<>> /\ accumulated = <<>>)
      /\ width # None =>
           /\ given # <<>> /\ width = given[1].width /\ desc = given[1].desc
           /\ height = RowsOf(given)
           /\ Uniform => accumulated = Pixels(1, 1, height, width, desc)
  <2>1. RowsOf(given) \in Nat
    BY <1>2, <1>3, OfferedRows
  <2>2. IF width = None THEN given = <<>> /\ accumulated = <<>>
        ELSE /\ given # <<>> /\ width = given[1].width /\ desc = given[1].desc
             /\ height = RowsOf(given)
             /\ Uniform => accumulated = Pixels(1, 1, height, width, desc)
    BY <1>1 DEF EncodeInv, RowsAreGiven
  <2>3. QED
    BY <2>1, <2>2, RowsOfNone
<1> HIDE DEF rows
<1>5. /\ given' \in Seq(Offered) /\ given' # <<>> /\ Len(given') = Len(given) + 1
      /\ Len(given) \in Nat
      /\ \A i \in 1..Len(given) : given'[i] = given[i]
      /\ given'[Len(given) + 1] = s /\ DOMAIN given' = 1..Len(given) + 1
      /\ DOMAIN given = 1..Len(given)
  <2> DEFINE g == Append(given, s)
  <2>1. /\ g \in Seq(Offered) /\ g # <<>> /\ Len(g) = Len(given) + 1
        /\ \A i \in 1..Len(given) : g[i] = given[i]
        /\ g[Len(given) + 1] = s
    BY <1>2, <1>3, AppendProperties
  <2> HIDE DEF g
  <2>2. DOMAIN g = 1..Len(given) + 1 /\ Len(given) \in Nat /\ DOMAIN given = 1..Len(given)
    BY <1>2, <2>1, LenProperties
  <2>3. g = given'
    BY <1>1 DEF g
  <2>4. QED
    BY <2>1, <2>2, <2>3
<1>6. height' = RowsOf(given') /\ height' \in 1..MaxRows
  <2>1. RowsOf(Append(given, s)) = RowsOf(given) + s.rows
    BY <1>2, <1>3, OfferedRows
  <2> DEFINE n == s.rows
  <2>2. n \in Nat \ {0} /\ height' = rows + n /\ rows + n <= MaxRows
    BY <1>1, <1>3
  <2> HIDE DEF n
  <2>3. height' \in 1..MaxRows
    BY <1>2, <1>4, <2>2
  <2>4. QED
    BY <1>1, <1>4, <2>1, <2>3
<1>7. width' = given'[1].width /\ desc' = given'[1].desc /\ width' \in Widths /\ desc' \in Descs
  <2>1. CASE width = None
    <3>1. Len(given) = 0
      BY <1>4, <2>1
    <3>2. given'[1] = s
      BY <1>5, <3>1
    <3>3. QED
      BY <1>1, <1>3, <2>1, <3>2
  <2>2. CASE width # None
    <3>1. given # <<>> /\ width = given[1].width /\ desc = given[1].desc
      BY <1>4, <2>2
    <3>2. 1 \in 1..Len(given)
      BY <1>2, <3>1, EmptySeq
    <3>3. given'[1] = given[1] /\ given[1] \in Offered
      BY <1>2, <1>5, <3>2, ElementOfSeq
    <3>4. width \in Widths /\ given[1].desc \in Descs
      BY <2>2, <3>3, OfferedParts DEF EncodeInv, TypeOK
    <3>5. width' = width /\ desc' = desc
      BY <1>1, <2>2
    <3>6. QED
      BY <3>1, <3>3, <3>4, <3>5
  <2>3. QED
    BY <2>1, <2>2
<1>8. strip \in Cells
  <2>1. 1 \in Nat /\ rows + 1 \in Nat /\ s.rows \in Nat
    BY <1>3, <1>4
  <2>2. QED
    BY <1>3, <2>1, PixelsType, Zenon
<1>9. accumulated \in Cells /\ accumulated' \in Cells
  <2>1. accumulated \in Cells
    BY DEF EncodeInv, TypeOK
  <2> HIDE DEF strip
  <2>2. QED
    BY <1>1, <1>8, <2>1, ConcatProperties DEF Cells
<1>10. ASSUME Uniform' PROVE accumulated' = Pixels(1, 1, height', width', desc')
  <2> DEFINE w == width'
             d == desc'
             n == s.rows
  <2>1. \A i, j \in 1..Len(given) + 1 : given'[i].width = given'[j].width
                                       /\ given'[i].desc = given'[j].desc
    BY <1>5, <1>10 DEF Uniform
  <2>2. s.width = w /\ s.desc = d
    <3>1. 1 \in 1..Len(given) + 1 /\ Len(given) + 1 \in 1..Len(given) + 1
      BY <1>5
    <3>2. QED
      BY <1>5, <1>7, <2>1, <3>1
  <2>3. accumulated = Pixels(1, 1, rows, w, d)
    <3>1. CASE width = None
      <4>1. rows = 0 /\ accumulated = <<>>
        BY <1>4, <3>1 DEF rows
      <4>2. Pixels(1, 1, 0, w, d) = <<>>
        BY <1>3, <2>2, NoPixels
      <4>3. QED
        BY <4>1, <4>2
    <3>2. CASE width # None
      <4>1. Uniform
        <5>1. \A i, j \in DOMAIN given : given[i].width = given[j].width
                                        /\ given[i].desc = given[j].desc
          BY <1>5, <2>1
        <5>2. QED
          BY <1>2, <5>1 DEF Uniform, IsAnimation
      <4>2. w = width /\ d = desc /\ rows = height
        BY <1>1, <3>2 DEF rows
      <4>3. QED
        BY <1>4, <3>2, <4>1, <4>2
    <3>3. QED
      BY <3>1, <3>2
  <2>4. strip = Pixels(1, 1 + rows, n, w, d)
    <3>1. 1 + rows = rows + 1
      BY <1>4
    <3>2. QED
      BY <2>2, <3>1, Zenon
  <2>5. height' = rows + n /\ n \in Nat /\ w \in Nat \ {0} /\ d \in Descs /\ 1 \in Nat
    BY <1>1, <1>3, <2>2
  <2> HIDE DEF w, d, n, strip
  <2>6. Pixels(1, 1, rows, w, d) \o Pixels(1, 1 + rows, n, w, d) = Pixels(1, 1, rows + n, w, d)
    <3> DEFINE m == 1 + rows
               all == rows + n
    <3>1. m = rows + 1 /\ all = rows + n
      BY <1>4
    <3> HIDE DEF m, all
    <3>2. Joined(Pixels(1, 1, rows, w, d), Pixels(1, m, n, w, d)) = Pixels(1, 1, all, w, d)
      BY <1>4, <2>5, <3>1, RowsAfter
    <3>3. QED
      BY <3>2, Zenon DEF m, all, Joined
  <2>7. QED
    BY <1>1, <2>3, <2>4, <2>5, <2>6, Zenon DEF w, d
<1>11. RowsAreGiven'
  <2>1. width' # None
    BY <1>7, EncodeAssumption
  <2>2. QED
    BY <1>1, <1>2, <1>5, <1>6, <1>7, <1>10, <2>1, Zenon DEF RowsAreGiven
<1>12. JobSide'
  BY <1>1, <1>2, JobSideKept DEF frameFields
<1>13. TypeOK'
  <2>1. ShimTypeOK'
    BY <1>12 DEF JobSide, ShimInv
  <2>2. height' \in 0..MaxRows
    BY <1>2, <1>6
  <2>3. QED
    BY <1>1, <1>5, <1>7, <1>9, <2>1, <2>2 DEF EncodeInv, TypeOK, Offered, frameFields, locals
<1>14. JobIsUntouched' /\ FramesAreGiven' /\ RowsArePulled' /\ FileIsAccepted'
  BY <1>1, <1>2 DEF JobIsUntouched, FramesAreGiven, RowsArePulled, FileIsAccepted, IsAnimation
<1>15. QED
  BY <1>11, <1>12, <1>13, <1>14 DEF EncodeInv, JobSide

(* The pushed strips become a file. *)
LEMMA FinishRowsKeeps ==
  ASSUME EncodeInv, FinishRows
  PROVE  EncodeInv'
<1>1. /\ encoder = "single" /\ ~pulling /\ pulling' = FALSE
      /\ UNCHANGED <<shimVars, fields, frameFields, locals, cancelled, given>>
  BY SingleState DEF FinishRows, locals
<1>2. CASE width = None
  <2>1. Consume(outcome') /\ outcome' = "no_rows" /\ UNCHANGED file
    BY <1>2 DEF FinishRows, Consume
  <2>2. QED
    BY <1>1, <2>1, EndKeepsUnwritten DEF locals
<1>3. CASE width # None
  <2>1. Buffered(accumulated, width, height, desc)
    BY <1>3 DEF FinishRows
  <2>2. /\ given # <<>> /\ width = given[1].width /\ desc = given[1].desc /\ height = RowsOf(given)
        /\ Uniform => accumulated = Pixels(1, 1, height, width, desc)
    BY <1>1, <1>3 DEF EncodeInv, RowsAreGiven
  <2>3. /\ frames = <<>> /\ file = None /\ given \in Seq(Offered)
        /\ accumulated \in Cells /\ width \in Widths \cup {PullWidth}
    BY <1>1, <1>3, SingleState DEF EncodeInv, TypeOK
  <2>4. height \in 1..MaxRows /\ desc \in Descs
    <3>1. 1 \in 1..Len(given) /\ given[1] \in Offered
      BY <2>2, <2>3, EmptySeq, ElementOfSeq
    <3>2. desc \in Descs
      BY <2>2, <3>1, OfferedParts
    <3>3. height # 0
      BY <2>2, <2>3, SomeRows
    <3>4. height \in 0..MaxRows
      <4>1. RowsOf(given) \in Nat
        BY <2>3, <3>1, OfferedRows
      <4>2. height # None
        BY <2>2, <4>1, EncodeAssumption
      <4>3. QED
        BY <4>2 DEF EncodeInv, TypeOK
    <3>5. QED
      BY <3>2, <3>3, <3>4
  <2>5. /\ encoder' = "consumed" /\ outcome' \in {"ok", "buffer"}
        /\ FileTyped(file') /\ FileIsAccepted'
    BY <1>1, <2>1, <2>2, <2>3, <2>4, BufferedEnds DEF frameFields
  <2>6. QED
    BY <1>1, <2>3, <2>5, EndKeeps DEF locals
<1>4. QED
  BY <1>2, <1>3

(* The callback is asked for rows. *)
LEMMA EncodeFromKeeps ==
  ASSUME EncodeInv, EncodeFrom
  PROVE  EncodeInv'
<1>1. /\ encoder = "single" /\ encoder' = "single" /\ pulling' = TRUE /\ all_data' = <<>>
      /\ y' = 0 /\ given' = <<>>
      /\ UNCHANGED <<shimVars, fields, frameFields, cancelled, file, outcome>>
  BY DEF EncodeFrom
<1>2. /\ frames = <<>> /\ frames' = <<>> /\ file = None /\ file' = None /\ JobSide
      /\ MaxRows \in Nat
  BY <1>1, SingleState DEF frameFields
<1>3. JobSide'
  BY <1>1, <1>2, JobSideKept DEF frameFields
<1>4. TypeOK'
  <2>1. ShimTypeOK'
    BY <1>3 DEF JobSide, ShimInv
  <2>2. <<>> \in Cells /\ 0 \in 0..MaxRows
    BY <1>2 DEF Cells
  <2>3. QED
    BY <1>1, <2>1, <2>2 DEF EncodeInv, TypeOK, fields, frameFields
<1>5. RowsArePulled'
  <2>1. PullWidth \in Nat \ {0} /\ PullDesc \in Descs /\ 0 \in Nat
    BY EncodeAssumption
  <2>2. Pixels(1, 1, 0, PullWidth, PullDesc) = <<>>
    BY <2>1, NoPixels
  <2>3. QED
    BY <1>1, <2>2, RowsOfNone DEF RowsArePulled
<1>6. JobIsUntouched' /\ FramesAreGiven' /\ RowsAreGiven' /\ FileIsAccepted'
  BY <1>1, <1>2 DEF JobIsUntouched, FramesAreGiven, RowsAreGiven, FileIsAccepted, IsAnimation
<1>7. QED
  BY <1>3, <1>4, <1>5, <1>6 DEF EncodeInv, JobSide

(* It writes some. *)
LEMMA PullStripKeeps ==
  ASSUME EncodeInv, NEW n \in 1..StripHeight, PullStrip(n)
  PROVE  EncodeInv'
<1> DEFINE s == [rows |-> n, width |-> PullWidth, desc |-> PullDesc, ms |-> 0]
           g == Append(given, s)
<1>1. /\ pulling /\ pulling' = pulling /\ y + n <= MaxRows
      /\ all_data' = all_data \o Pixels(1, y + 1, n, PullWidth, PullDesc)
      /\ y' = y + n /\ given' = g
      /\ UNCHANGED <<shimVars, encoder, fields, frameFields, cancelled, file, outcome>>
  BY DEF PullStrip
<1>2. /\ encoder = "single" /\ y = RowsOf(given)
      /\ all_data = Pixels(1, 1, y, PullWidth, PullDesc)
      /\ \A i \in DOMAIN given : given[i].width = PullWidth /\ given[i].desc = PullDesc
  BY <1>1 DEF EncodeInv, RowsArePulled
<1>3. /\ frames = <<>> /\ frames' = <<>> /\ file = None /\ file' = None /\ JobSide
      /\ given \in Seq(Offered) /\ MaxRows \in Nat
  BY <1>1, <1>2, SingleState DEF frameFields
<1>4. n \in Nat \ {0} /\ PullWidth \in Nat \ {0} /\ PullDesc \in Descs
  BY EncodeAssumption
<1>5. s \in Offered /\ s.rows = n /\ s.width = PullWidth /\ s.desc = PullDesc
  BY DEF Offered
<1> HIDE DEF s
<1>6. /\ g \in Seq(Offered) /\ DOMAIN g = 1..Len(given) + 1
      /\ \A i \in 1..Len(given) : g[i] = given[i]
      /\ g[Len(given) + 1] = s
      /\ DOMAIN given = 1..Len(given) /\ Len(given) \in Nat
  <2>1. /\ g \in Seq(Offered) /\ Len(g) = Len(given) + 1
        /\ \A i \in 1..Len(given) : g[i] = given[i]
        /\ g[Len(given) + 1] = s
    BY <1>3, <1>5, AppendProperties
  <2> HIDE DEF g
  <2>2. QED
    BY <1>3, <2>1, LenProperties
<1>7. RowsOf(given) \in Nat /\ RowsOf(g) = RowsOf(given) + n
  BY <1>3, <1>5, OfferedRows
<1> HIDE DEF g
<1>8. y \in Nat /\ y' = RowsOf(given') /\ y' \in 0..MaxRows
  BY <1>1, <1>2, <1>3, <1>4, <1>7
<1>9. all_data' = Pixels(1, 1, y', PullWidth, PullDesc)
  <2> DEFINE w == PullWidth
             d == PullDesc
             next == y + 1
             all == y + n
  <2>1. n \in Nat /\ w \in Nat \ {0} /\ d \in Descs /\ next = y + 1 /\ all = y + n
    BY <1>4, <1>8
  <2> HIDE DEF w, d, next, all
  <2>2. Joined(Pixels(1, 1, y, w, d), Pixels(1, next, n, w, d)) = Pixels(1, 1, all, w, d)
    BY <1>8, <2>1, RowsAfter
  <2>3. QED
    BY <1>1, <1>2, <2>2, Zenon DEF w, d, next, all, Joined
<1>10. all_data' \in Cells
  <2> DEFINE one == 1
             m == y'
             w == PullWidth
             d == PullDesc
  <2>1. one \in Nat /\ m \in Nat /\ w \in Nat \ {0} /\ d \in Descs
    BY <1>3, <1>4, <1>8
  <2> HIDE DEF one, m, w, d
  <2>2. Pixels(one, one, m, w, d) \in Cells
    BY <2>1, PixelsType, Zenon
  <2>3. QED
    BY <1>9, <2>2 DEF one, m, w, d
<1>11. RowsArePulled'
  <2>1. \A i \in DOMAIN given' : given'[i].width = PullWidth /\ given'[i].desc = PullDesc
    BY <1>1, <1>2, <1>5, <1>6
  <2>2. QED
    BY <1>1, <1>2, <1>8, <1>9, <2>1 DEF RowsArePulled
<1>12. JobSide'
  BY <1>1, <1>3, JobSideKept DEF frameFields
<1>13. TypeOK'
  <2>1. ShimTypeOK'
    BY <1>12 DEF JobSide, ShimInv
  <2>2. given' \in Seq(Offered)
    BY <1>1, <1>6
  <2>3. QED
    BY <1>1, <1>8, <1>10, <2>1, <2>2 DEF EncodeInv, TypeOK, Offered, fields, frameFields
<1>14. JobIsUntouched' /\ FramesAreGiven' /\ RowsAreGiven' /\ FileIsAccepted'
  BY <1>1, <1>2, <1>3 DEF JobIsUntouched, FramesAreGiven, RowsAreGiven, FileIsAccepted, IsAnimation
<1>15. QED
  BY <1>11, <1>12, <1>13, <1>14 DEF EncodeInv, JobSide

(* It is out of rows, or wrote more than there is room for.                  *)
LEMMA PullStopsKeeps ==
  ASSUME EncodeInv, PullOverrun \/ PullEnd
  PROVE  EncodeInv'
<1>1. /\ pulling /\ pulling' = FALSE
      /\ UNCHANGED <<shimVars, fields, frameFields, all_data, y, cancelled, given>>
  BY DEF PullOverrun, PullEnd
<1>2. /\ encoder = "single" /\ y = RowsOf(given)
      /\ all_data = Pixels(1, 1, y, PullWidth, PullDesc)
      /\ \A i \in DOMAIN given : given[i].width = PullWidth /\ given[i].desc = PullDesc
  BY <1>1 DEF EncodeInv, RowsArePulled
<1>3. CASE Consume(outcome') /\ outcome' \in {"panic", "no_rows"} /\ UNCHANGED file
  BY <1>1, <1>2, <1>3, EndKeepsUnwritten
<1>4. CASE y # 0 /\ Buffered(all_data, PullWidth, y, PullDesc)
  <2>1. /\ frames = <<>> /\ file = None /\ given \in Seq(Offered)
        /\ all_data \in Cells /\ y \in 0..MaxRows
    BY <1>2, SingleState DEF EncodeInv, TypeOK
  <2>2. given # <<>>
    BY <1>2, <1>4, RowsOfNone
  <2>3. y \in 1..MaxRows /\ PullDesc \in Descs /\ PullWidth \in Widths \cup {PullWidth}
    BY <1>4, <2>1, EncodeAssumption
  <2>4. PullWidth = given[1].width /\ PullDesc = given[1].desc
    <3>1. 1 \in DOMAIN given
      BY <2>1, <2>2, EmptySeq, LenProperties
    <3>2. QED
      BY <1>2, <3>1
  <2>5. /\ encoder' = "consumed" /\ outcome' \in {"ok", "buffer"}
        /\ FileTyped(file') /\ FileIsAccepted'
    BY <1>1, <1>2, <1>4, <2>1, <2>2, <2>3, <2>4, BufferedEnds DEF frameFields
  <2>6. QED
    BY <1>1, <1>2, <2>1, <2>5, EndKeeps
<1>5. QED
  BY <1>3, <1>4 DEF PullOverrun, PullEnd, Consume

(* The token is cancelled, or nothing happens. *)
LEMMA CancelKeeps ==
  ASSUME EncodeInv, Cancel \/ UNCHANGED vars
  PROVE  EncodeInv'
<1>1. /\ UNCHANGED <<shimVars, encoder, fields, frameFields, locals, file, outcome, given>>
      /\ cancelled' \in BOOLEAN
  BY DEF Cancel, vars, EncodeInv, TypeOK
<1>2. JobSide'
  BY <1>1, JobSideKept DEF EncodeInv, JobSide, frameFields
<1>3. TypeOK'
  <2>1. ShimTypeOK'
    BY <1>2 DEF JobSide, ShimInv
  <2>2. QED
    BY <1>1, <2>1 DEF EncodeInv, TypeOK, fields, frameFields, locals
<1>4. JobIsUntouched' /\ FramesAreGiven' /\ RowsAreGiven' /\ RowsArePulled'
  BY <1>1 DEF EncodeInv, shimVars, fields, frameFields, locals, JobIsUntouched, FramesAreGiven,
              RowsAreGiven, RowsArePulled, IsAnimation, Uniform
<1>5. FileIsAccepted'
  <2>1. Accepted' = Accepted /\ (IsAnimation' <=> IsAnimation) /\ (Uniform' <=> Uniform)
    BY <1>1 DEF Accepted, IsAnimation, Uniform, frameFields
  <2>2. QED
    BY <1>1, <2>1 DEF EncodeInv, FileIsAccepted
<1>6. QED
  BY <1>2, <1>3, <1>4, <1>5 DEF EncodeInv, JobSide

(* The frames a caller may push, as the encoder's type has them. *)
HeldFrames ==
  [data : Cells, width : Widths, height : 1..MaxRows, ms : Durations, desc : Descs]

(* A pushed frame is one the encoder may hold. *)
LEMMA FrameOfType ==
  ASSUME NEW s \in Slices, NEW i \in Nat
  PROVE  FrameOf(i, s) \in HeldFrames
<1> DEFINE n == s.rows
           w == s.width
           d == s.desc
           ms == s.ms
           one == 1
<1>1. n \in 1..MaxRows /\ w \in Widths /\ d \in Descs /\ ms \in Durations
  BY DEF Slices
<1>2. MaxRows \in Nat /\ Widths \subseteq Nat \ {0} /\ one \in Nat
  BY EncodeAssumption
<1> HIDE DEF n, w, d, ms, one
<1>3. n \in Nat /\ w \in Nat \ {0}
  BY <1>1, <1>2
<1>4. Pixels(i, one, n, w, d) \in Cells
  BY <1>1, <1>2, <1>3, PixelsType, Zenon
<1>5. [data |-> Pixels(i, one, n, w, d), width |-> w, height |-> n, ms |-> ms, desc |-> d]
        \in HeldFrames
  BY <1>1, <1>4 DEF HeldFrames
<1>6. QED
  BY <1>5, Zenon DEF FrameOf, n, w, d, ms, one

(* A frame more, or a stop that leaves the frames as they are. *)
LEMMA PushFrameKeeps ==
  ASSUME EncodeInv, NEW token \in BOOLEAN, NEW s \in Slices, PushFrame(s, token)
  PROVE  EncodeInv'
<1> DEFINE next == Len(frames) + 1
           new == FrameOf(next, s)
<1>1. /\ encoder = "animation" /\ encoder' = encoder
      /\ UNCHANGED <<shimVars, loop_count, fields, locals, cancelled, file>>
  BY DEF PushFrame
<1>2. JobSide'
  BY <1>1, JobSideKept DEF EncodeInv, JobSide
<1>3. /\ frames \in Seq(HeldFrames) /\ given \in Seq(Offered) /\ Len(frames) \in Nat
      /\ file = None /\ ~pulling /\ MaxFrames \in Nat
      /\ Len(frames) = Len(given) /\ Len(frames) <= MaxFrames
      /\ DOMAIN given = 1..Len(given)
      /\ \A i \in DOMAIN given : frames[i] = FrameOf(i, given[i])
  <2>1. frames \in Seq(HeldFrames) /\ given \in Seq(Offered)
    BY DEF EncodeInv, TypeOK, HeldFrames, Offered
  <2>2. file = None /\ ~pulling
    BY <1>1 DEF EncodeInv, TypeOK, FileIsAccepted, RowsArePulled
  <2>3. QED
    BY <1>1, <2>1, <2>2, EncodeAssumption DEF EncodeInv, FramesAreGiven
<1>4. /\ frames' \in Seq(HeldFrames) /\ given' \in Seq(Offered)
      /\ outcome' \in {"ok", "stopped"} /\ FramesAreGiven'
  <2>1. CASE UNCHANGED <<frames, given>> /\ outcome' = "stopped"
    <3>1. FramesAreGiven'
      BY <1>1, <2>1 DEF EncodeInv, FramesAreGiven, IsAnimation
    <3>2. QED
      BY <1>3, <2>1, <3>1
  <2>2. CASE /\ Len(frames) < MaxFrames /\ outcome' = "ok"
             /\ frames' = Append(frames, new) /\ given' = Append(given, s)
    <3>1. new \in HeldFrames /\ s \in Offered
      BY <1>3, FrameOfType DEF Offered
    <3> HIDE DEF new
    <3>2. /\ frames' \in Seq(HeldFrames) /\ Len(frames') = next
          /\ \A i \in 1..Len(frames) : frames'[i] = frames[i]
          /\ frames'[next] = new
      BY <1>3, <2>2, <3>1, AppendProperties
    <3>3. /\ given' \in Seq(Offered) /\ Len(given') = next
          /\ \A i \in 1..Len(given) : given'[i] = given[i]
          /\ given'[next] = s
      BY <1>3, <2>2, <3>1, AppendProperties
    <3>4. DOMAIN given' = 1..next /\ next <= MaxFrames
      BY <1>3, <2>2, <3>3, LenProperties
    <3>5. ASSUME NEW i \in 1..next PROVE frames'[i] = FrameOf(i, given'[i])
      <4>1. CASE i \in 1..Len(given)
        BY <1>3, <3>2, <3>3, <4>1
      <4>2. CASE i = next
        BY <3>2, <3>3, <4>2, Zenon DEF new
      <4>3. QED
        BY <1>3, <4>1, <4>2
    <3>6. FramesAreGiven'
      BY <3>2, <3>3, <3>4, <3>5, Zenon DEF FramesAreGiven
    <3>7. QED
      BY <2>2, <3>2, <3>3, <3>6
  <2>3. QED
    BY <1>1, <2>1, <2>2 DEF PushFrame, FrameOf, frameFields
<1>5. TypeOK'
  <2>1. ShimTypeOK'
    BY <1>2 DEF JobSide, ShimInv
  <2>2. QED
    BY <1>1, <1>4, <2>1 DEF EncodeInv, TypeOK, HeldFrames, Offered, fields, locals
<1>6. JobIsUntouched' /\ RowsAreGiven' /\ RowsArePulled' /\ FileIsAccepted'
  BY <1>1, <1>3 DEF JobIsUntouched, RowsAreGiven, RowsArePulled, FileIsAccepted, locals
<1>7. QED
  BY <1>2, <1>4, <1>5, <1>6 DEF EncodeInv, JobSide

(* The frames become a file, or go with an encoder that cannot write one. *)
LEMMA FinishFramesKeeps ==
  ASSUME EncodeInv, NEW token \in BOOLEAN, FinishFrames(token)
  PROVE  EncodeInv'
<1>1. /\ encoder = "animation" /\ pulling' = pulling
      /\ UNCHANGED <<shimVars, fields, frameFields, all_data, y, cancelled, given>>
  BY DEF FinishFrames, locals
<1>2. pulling' = FALSE /\ UNCHANGED <<frames, given>>
  BY <1>1 DEF EncodeInv, TypeOK, RowsArePulled, frameFields
<1>3. CASE Consume(outcome') /\ outcome' \in {"stopped", "no_frames"} /\ UNCHANGED file
  BY <1>1, <1>2, <1>3, EndKeepsUnwritten
<1>4. CASE frames # <<>> /\ file' = EncodeMockData(frames) /\ Consume("ok")
  <2>1. /\ frames \in Seq(HeldFrames) /\ given \in Seq(Offered)
        /\ Len(frames) \in 1..MaxFrames /\ Len(given) = Len(frames)
        /\ \A i \in DOMAIN given : frames[i] = FrameOf(i, given[i])
    <3>1. frames \in Seq(HeldFrames) /\ given \in Seq(Offered)
      BY DEF EncodeInv, TypeOK, HeldFrames, Offered
    <3>2. Len(frames) \in Nat \ {0}
      BY <1>4, <3>1, EmptySeq
    <3>3. QED
      BY <1>1, <3>1, <3>2, EncodeAssumption DEF EncodeInv, FramesAreGiven
  <2>2. given # <<>> /\ IsAnimation
    BY <1>4, <2>1 DEF IsAnimation
  <2>3. Accepted = frames
    <3>1. DOMAIN given = 1..Len(frames) /\ frames = [i \in 1..Len(frames) |-> frames[i]]
      BY <2>1
    <3>2. QED
      BY <2>1, <2>2, <3>1, Zenon DEF Accepted
  <2>4. frames \in Seq(WholeFrames)
    BY <2>1, <2>2, <2>3, AcceptedIsWhole
  <2>5. frames[1].width \in Widths \cup {PullWidth} /\ frames[1].height \in 1..MaxRows
    <3>1. frames[1] \in HeldFrames
      BY <2>1
    <3>2. QED
      BY <3>1 DEF HeldFrames
  <2>6. FileTyped(file')
    BY <1>4, <2>1, <2>4, <2>5, WrittenType
  <2>7. FileIsAccepted'
    <3>1. Accepted' = Accepted
      BY <1>2 DEF Accepted, IsAnimation
    <3>2. encoder' = "consumed" /\ given' # <<>>
      BY <1>2, <1>4, <2>2 DEF Consume
    <3>3. QED
      BY <1>4, <2>3, <3>1, <3>2, Zenon DEF FileIsAccepted
  <2>8. QED
    BY <1>1, <1>2, <1>4, <2>1, <2>6, <2>7, EndKeeps DEF Consume
<1>5. QED
  BY <1>3, <1>4 DEF FinishFrames, Consume

-----------------------------------------------------------------------------
(* What always holds                                                        *)

(* Before anything is configured. *)
LEMMA EncodeInitInv == Init => EncodeInv
<1> SUFFICES ASSUME Init PROVE EncodeInv
  OBVIOUS
<1>1. ShimInv
  BY ShimInitInv DEF Init
<1>2. LoopCountIsAsked
  <2>1. "loop_count" \in Settings
    BY EncodeAssumption
  <2>2. requested["loop_count"] = Unset
    BY <2>1 DEF Init, ShimInit, FreshJob
  <2>3. QED
    BY <2>2 DEF Init, LoopCountIsAsked
<1>3. TypeOK
  <2>1. <<>> \in Cells /\ 0 \in 0..MaxRows
    BY EncodeAssumption DEF Cells
  <2>2. ShimTypeOK
    BY <1>1 DEF ShimInv
  <2>3. frames \in Seq(HeldFrames) /\ given \in Seq(Offered)
    BY DEF Init
  <2>4. /\ encoder = "job" /\ width = None /\ height = None /\ desc = None /\ file = None
        /\ accumulated = <<>> /\ loop_count = None /\ all_data = <<>> /\ y = 0
        /\ pulling = FALSE /\ cancelled = FALSE /\ outcome = "none"
    BY DEF Init
  <2>5. QED
    BY <2>1, <2>2, <2>3, <2>4 DEF TypeOK, HeldFrames, Offered
<1>4. JobIsUntouched /\ RowsAreGiven /\ RowsArePulled /\ FileIsAccepted
  BY DEF Init, ShimInit, JobIsUntouched, RowsAreGiven, RowsArePulled, FileIsAccepted
<1>5. FramesAreGiven
  BY DEF Init, FramesAreGiven, IsAnimation
<1>6. QED
  BY <1>1, <1>2, <1>3, <1>4, <1>5 DEF EncodeInv

(* EncodeInv is inductive: one lemma for each action. *)
LEMMA EncodeNextInv ==
  ASSUME EncodeInv, [Next]_vars
  PROVE  EncodeInv'
<1>1. CASE Configure
  BY <1>1, ConfigureKeeps
<1>2. CASE \E v \in Arguments["extensions"] : ExtensionsMut(v)
  BY <1>2, ExtensionsMutKeeps
<1>3. CASE \E kind \in {"single", "animation"} : IntoEncoder(kind)
  BY <1>3, IntoEncoderKeeps
<1>4. CASE \E s \in Stills : Encode(s) \/ PushRows(s)
  BY <1>4, EncodeKeeps, PushRowsKeeps
<1>5. CASE \E s \in Stills, padding \in -1..MaxPadding, make_opaque \in BOOLEAN :
             \E missing \in 0..RowBytes(MaxPadding, s.desc) + 1 :
               /\ s.desc = Srgba8[make_opaque]
               /\ s.width + padding > 0
               /\ EncodeSrgba8(s, s.width + padding, missing)
  <2>1. PICK s \in Stills, padding \in -1..MaxPadding :
               \E missing \in 0..RowBytes(MaxPadding, s.desc) + 1 :
                 s.width + padding > 0 /\ EncodeSrgba8(s, s.width + padding, missing)
    BY <1>5
  <2>2. PICK missing \in 0..RowBytes(MaxPadding, s.desc) + 1 :
               s.width + padding > 0 /\ EncodeSrgba8(s, s.width + padding, missing)
    BY <2>1
  <2>3. s.width + padding \in Nat \ {0}
    <3>1. s \in Offered
      BY DEF Stills, Offered
    <3>2. s.width \in Nat \ {0} /\ MaxPadding \in Nat
      BY <3>1, OfferedParts, EncodeAssumption
    <3>3. QED
      BY <2>2, <3>2
  <2>4. missing \in Nat
    OBVIOUS
  <2>5. QED
    BY <2>2, <2>3, <2>4, EncodeSrgba8Keeps
<1>6. CASE FinishRows \/ EncodeFrom
  BY <1>6, FinishRowsKeeps, EncodeFromKeeps
<1>7. CASE Pull
  BY <1>7, PullStripKeeps, PullStopsKeeps DEF Pull
<1>8. CASE Cancel \/ UNCHANGED vars
  BY <1>8, CancelKeeps
<1>9. CASE \E token \in BOOLEAN : FinishFrames(token) \/ \E s \in Slices : PushFrame(s, token)
  BY <1>9, FinishFramesKeeps, PushFrameKeeps
<1>10. QED
  BY <1>1, <1>2, <1>3, <1>4, <1>5, <1>6, <1>7, <1>8, <1>9 DEF Next

(* And so it always holds. *)
LEMMA EncodeInvariance == Spec => []EncodeInv
<1>1. EncodeInv /\ [Next]_vars => EncodeInv'
  BY EncodeNextInv
<1>2. QED
  BY <1>1, EncodeInitInv, PTL DEF Spec

(* The encoders' fields, the locals of encode_from and the file written       *)
(* always hold what their types say.                                          *)
THEOREM EncodeTypeCorrect == Spec => []TypeOK
<1>1. EncodeInv => TypeOK
  BY DEF EncodeInv
<1>2. QED
  BY <1>1, EncodeInvariance, PTL

(* For any widths, descriptors, strips and frames, through encode,            *)
(* encode_srgba8, push_rows or encode_from, and whatever is stopped or        *)
(* panics between: a decoder renders of a file what the encoder accepted, of  *)
(* frames of several shapes at least the first, and frames it lends out, kept *)
(* with to_owned_frame and encoded again, give the same file.                 *)
THEOREM EncodeRoundTrip == Spec => []RoundTrip
<1>1. EncodeInv => RoundTrip
  BY FileReadsBack
<1>2. QED
  BY <1>1, EncodeInvariance, PTL

(* For any settings and arguments, and panics of the codec's with_* between:  *)
(* an encoder works on the job as it was last configured, an animation has    *)
(* the loop count last asked for, and holds exactly the frames that           *)
(* push_frame said Ok to, in their order.                                     *)
THEOREM EncoderAsAsked == Spec => []EncoderIsAsAsked
<1>1. ASSUME EncodeInv PROVE EncoderIsAsAsked
  <2>1. ExecutorGetsRequested
    BY <1>1 DEF EncodeInv, ShimInv, Faithful, ExecutorGetsRequested
  <2>2. encoder = "animation" => loop_count = Flatten(requested["loop_count"])
    <3>1. "loop_count" \in Settings /\ Supported = Settings
      BY EncodeAssumption
    <3>2. QED
      BY <1>1, <2>1, <3>1 DEF EncodeInv, LoopCountIsAsked, ExecutorGetsRequested
  <2>3. ASSUME IsAnimation
        PROVE  [i \in DOMAIN frames |-> [ms |-> frames[i].ms, data |-> frames[i].data]] = Wanted
    <3>1. DOMAIN frames = DOMAIN given
      <4>1. frames \in Seq(HeldFrames) /\ given \in Seq(Offered)
        BY <1>1 DEF EncodeInv, TypeOK, HeldFrames, Offered
      <4>2. QED
        BY <1>1, <2>3, <4>1, LenProperties DEF EncodeInv, FramesAreGiven
    <3>2. ASSUME NEW i \in DOMAIN given
          PROVE  /\ frames[i].ms = given[i].ms
                 /\ frames[i].data = Pixels(i, 1, given[i].rows, given[i].width, given[i].desc)
      <4>1. frames[i] = FrameOf(i, given[i])
        BY <1>1, <2>3 DEF EncodeInv, FramesAreGiven
      <4>2. QED
        BY <4>1 DEF FrameOf
    <3>3. QED
      BY <2>3, <3>1, <3>2, Zenon DEF Wanted
  <2>4. QED
    BY <2>1, <2>2, <2>3 DEF EncoderIsAsAsked
<1>2. QED
  BY <1>1, EncodeInvariance, PTL
=============================================================================
