------------------------ MODULE PatchReferenceProofs ------------------------
(***************************************************************************)
(* The engine comes to the answer of the reference for every set of        *)
(* patches, wherever chunks end and however far the decoder lags behind.   *)
(* The reference reads the whole stream a section at a time; the engine    *)
(* reads it in pieces and is always at a place in that reading: in a       *)
(* number, in a section, or where the reading ends.                        *)
(***************************************************************************)
EXTENDS PatchReference, ApplyPatchProofs, SequenceTheorems

-----------------------------------------------------------------------------
(***************************************************************************)
(* The numbers of a stream.                                                *)
(***************************************************************************)
LEMMA ByteParts ==
  ASSUME NEW b \in Byte
  PROVE  /\ b % 64 \in Nat /\ b % 128 \in Nat /\ b \in Nat
         /\ (b \div 64) % 2 = 1 <=> b % 128 >= 64
BY DEF Byte

(* Each byte adds to the number its seven bits, weighted as the engine     *)
(* weights them.                                                           *)
LEMMA MagnitudeSteps ==
  ASSUME NEW s \in Seq(Byte), NEW i \in Nat \ {0}
  PROVE  /\ i <= Len(s) => Magnitude(s, i, 1) = s[i] % 64
         /\ \A k \in 1 .. 3 : i + k <= Len(s) =>
              Magnitude(s, i, k + 1)
                = Magnitude(s, i, k) + (s[i + k] % 128) * Shift(7 * k - 1)
         /\ \A k \in 1 .. 4 : i + k - 1 <= Len(s) => Magnitude(s, i, k) \in Nat
<1>1. PICK l \in Nat : l = Len(s)
  BY LenProperties
<1> DEFINE B(k) == s[i + k] % 128
<1>2. \A k \in 1 .. 3 : i + k <= l => B(k) \in Nat
  <2>1. ASSUME NEW k \in 1 .. 3, i + k <= l
        PROVE  B(k) \in Nat
    <3>1. s[i + k] \in Byte
      BY <1>1, <2>1
    <3> QED
      BY <3>1, ByteParts
  <2> QED
    BY <2>1
<1>3. i <= l => s[i] % 64 \in Nat
  <2>1. ASSUME i <= l
        PROVE  s[i] % 64 \in Nat
    <3>1. s[i] \in Byte
      BY <1>1, <2>1
    <3> QED
      BY <3>1, ByteParts
  <2> QED
    BY <2>1
<1> DEFINE a == s[i] % 64
<1>4. \A k \in 1 .. 4 : Magnitude(s, i, k)
        = a + (IF k > 1 THEN 64 * B(1) ELSE 0) + (IF k > 2 THEN 8192 * B(2) ELSE 0)
            + (IF k > 3 THEN 1048576 * B(3) ELSE 0)
  BY DEF Magnitude
<1>5. Shift(6) = 64 /\ Shift(13) = 8192 /\ Shift(20) = 1048576
  BY DEF Shift
<1> HIDE DEF a, B
<1>6. i <= l => a \in Nat
  BY <1>3 DEF a
<1>7. ASSUME i <= l
      PROVE  Magnitude(s, i, 1) = a
  BY <1>4, <1>6, <1>7
<1>8. ASSUME i + 1 <= l
      PROVE  Magnitude(s, i, 2) = a + B(1) * 64 /\ a \in Nat /\ B(1) \in Nat
  <2>1. i <= l /\ a \in Nat /\ B(1) \in Nat
    BY <1>2, <1>6, <1>8
  <2> QED
    BY <1>4, <2>1
<1>9. ASSUME i + 2 <= l
      PROVE  Magnitude(s, i, 3) = a + B(1) * 64 + B(2) * 8192 /\ B(2) \in Nat
  <2>1. i + 1 <= l /\ B(2) \in Nat
    BY <1>2, <1>9
  <2> QED
    BY <1>4, <1>8, <2>1
<1>10. ASSUME i + 3 <= l
       PROVE  Magnitude(s, i, 4) = a + B(1) * 64 + B(2) * 8192 + B(3) * 1048576 /\ B(3) \in Nat
  <2>1. i + 1 <= l /\ i + 2 <= l /\ B(3) \in Nat
    BY <1>2, <1>10
  <2> QED
    BY <1>4, <1>8, <1>9, <2>1
<1>11. ASSUME NEW k \in 1 .. 3, i + k <= l
       PROVE  Magnitude(s, i, k + 1) = Magnitude(s, i, k) + B(k) * Shift(7 * k - 1)
  <2>1. CASE k = 1
    BY <1>5, <1>7, <1>8, <1>11, <2>1
  <2>2. CASE k = 2
    <3>1. i + 1 <= l /\ i + 2 <= l
      BY <1>11, <2>2
    <3> QED
      BY <1>5, <1>8, <1>9, <2>2, <3>1
  <2>3. CASE k = 3
    <3>1. i + 1 <= l /\ i + 2 <= l /\ i + 3 <= l
      BY <1>11, <2>3
    <3> QED
      BY <1>5, <1>8, <1>9, <1>10, <2>3, <3>1
  <2> QED
    BY <2>1, <2>2, <2>3
<1>12. ASSUME NEW k \in 1 .. 4, i + k - 1 <= l
       PROVE  Magnitude(s, i, k) \in Nat
  <2>1. CASE k = 1
    BY <1>6, <1>7, <1>12, <2>1
  <2>2. CASE k = 2
    BY <1>8, <1>12, <2>2
  <2>3. CASE k = 3
    <3>1. i + 1 <= l /\ i + 2 <= l
      BY <1>12, <2>3
    <3> QED
      BY <1>8, <1>9, <2>3, <3>1
  <2>4. CASE k = 4
    <3>1. i + 1 <= l /\ i + 2 <= l /\ i + 3 <= l
      BY <1>12, <2>4
    <3>2. PICK m \in Nat : m = a + B(1) * 64 + B(2) * 8192
      BY <1>8, <1>9, <3>1
    <3>3. PICK e \in Nat : e = B(3)
      BY <1>10, <3>1
    <3>4. Magnitude(s, i, k) = m + e * 1048576
      BY <1>10, <2>4, <3>1, <3>2, <3>3
    <3> QED
      BY <3>4
  <2> QED
    BY <2>1, <2>2, <2>3, <2>4
<1> QED
  BY <1>1, <1>7, <1>11, <1>12 DEF a, B

(* There is at most one number at a position.                              *)
LEMMA NumberFound ==
  ASSUME NEW s \in Seq(Byte), NEW i \in Nat \ {0}, NEW k \in 1 .. 4, IsNumber(s, i, k)
  PROVE  Number(s, i) = [ok |-> TRUE,
                         value |-> IF s[i] % 128 >= 64 THEN -Magnitude(s, i, k)
                                   ELSE Magnitude(s, i, k),
                         next |-> i + k]
<1>0. PICK n \in Nat : n = Len(s)
  BY LenProperties
<1>1. ASSUME NEW l \in 1 .. 4, IsNumber(s, i, l)
      PROVE  l = k
  <2>1. ASSUME NEW a \in 1 .. 4, NEW b \in 1 .. 4, a < b, IsNumber(s, i, a), IsNumber(s, i, b)
        PROVE  FALSE
    <3>1. i + a - 1 \in i .. i + b - 2 /\ i + a - 1 \in 1 .. n
      BY <1>0, <2>1 DEF IsNumber
    <3>2. PICK c \in 0 .. 255 : c = s[i + a - 1]
      <4>1. s[i + a - 1] \in Byte
        BY <1>0, <3>1, ElementOfSeq
      <4> QED
        BY <4>1 DEF Byte
    <3>3. s[i + a - 1] < 128 /\ s[i + a - 1] >= 128
      BY <2>1, <3>1 DEF IsNumber
    <3> QED
      BY <3>2, <3>3
  <2> QED
    BY <1>1, <2>1
<1>2. (CHOOSE l \in 1 .. 4 : IsNumber(s, i, l)) = k
  BY <1>1
<1>3. \E l \in 1 .. 4 : IsNumber(s, i, l)
  OBVIOUS
<1> QED
  BY <1>2, <1>3 DEF Number

(* Where no number starts, the error says whether bytes were missing.      *)
LEMMA NumberMissing ==
  ASSUME NEW s, NEW i, \A k \in 1 .. 4 : ~IsNumber(s, i, k)
  PROVE  Number(s, i) = [ok |-> FALSE,
                         value |-> IF i + 4 <= Len(s) THEN -DETOOLS_CORRUPT_PATCH_OVERFLOW
                                   ELSE -DETOOLS_NOT_ENOUGH_PATCH_DATA,
                         next |-> i]
BY DEF Number

(* A number ends inside of the stream, or is one of two errors.            *)
LEMMA NumberType ==
  ASSUME NEW s \in Seq(Byte), NEW i \in Nat \ {0}
  PROVE  /\ Number(s, i).ok \in BOOLEAN /\ Number(s, i).value \in Int
         /\ Number(s, i).ok => Number(s, i).next \in i + 1 .. Len(s) + 1
         /\ ~Number(s, i).ok => Number(s, i).value \in {-DETOOLS_CORRUPT_PATCH_OVERFLOW,
                                                        -DETOOLS_NOT_ENOUGH_PATCH_DATA}
<1>1. CASE \E k \in 1 .. 4 : IsNumber(s, i, k)
  <2>1. PICK k \in 1 .. 4 : IsNumber(s, i, k)
    BY <1>1
  <2>2. PICK l \in Nat : l = Len(s)
    BY LenProperties
  <2>3. i + k - 1 <= l
    BY <2>1, <2>2 DEF IsNumber
  <2>4. PICK m \in Nat : m = Magnitude(s, i, k)
    BY <2>2, <2>3, MagnitudeSteps
  <2>5. Number(s, i) = [ok |-> TRUE, value |-> IF s[i] % 128 >= 64 THEN -m ELSE m,
                        next |-> i + k]
    BY <2>1, <2>4, NumberFound
  <2>6. i + k \in i + 1 .. l + 1
    BY <2>3
  <2>7. (IF s[i] % 128 >= 64 THEN -m ELSE m) \in Int
    OBVIOUS
  <2> QED
    BY <2>2, <2>5, <2>6, <2>7
<1>2. CASE ~(\E k \in 1 .. 4 : IsNumber(s, i, k))
  <2>1. Number(s, i) = [ok |-> FALSE,
                        value |-> IF i + 4 <= Len(s) THEN -DETOOLS_CORRUPT_PATCH_OVERFLOW
                                  ELSE -DETOOLS_NOT_ENOUGH_PATCH_DATA,
                        next |-> i]
    BY <1>2, NumberMissing
  <2> QED
    BY <2>1 DEF DETOOLS_CORRUPT_PATCH_OVERFLOW, DETOOLS_NOT_ENOUGH_PATCH_DATA
<1> QED
  BY <1>1, <1>2
-----------------------------------------------------------------------------
(***************************************************************************)
(* The reference, one section at a time.                                   *)
(***************************************************************************)
Piece == [kind : {"dfpatch_size", "diff_size", "extra_size", "adjustment", "end"},
          next : Nat \ {0}, pos : Int, out : Seq(Byte), ret : Int]

(* a is how b starts. *)
Begins(a, b) == Len(a) <= Len(b) /\ \A i \in 1 .. Len(a) : a[i] = b[i]

(* How a sequence begins is how whatever it begins begins,                 *)
LEMMA BeginsOn ==
  ASSUME NEW a \in Seq(Byte), NEW b \in Seq(Byte), NEW c \in Seq(Byte),
         Begins(a, b), Begins(b, c)
  PROVE  Begins(a, c)
<1>1. PICK i \in Nat, j \in Nat, k \in Nat : i = Len(a) /\ j = Len(b) /\ k = Len(c)
  BY LenProperties
<1>2. i <= j /\ j <= k /\ (\A n \in 1 .. i : a[n] = b[n]) /\ (\A n \in 1 .. j : b[n] = c[n])
  BY <1>1 DEF Begins
<1>3. \A n \in 1 .. i : a[n] = c[n]
  BY <1>1, <1>2
<1> QED
  BY <1>1, <1>2, <1>3 DEF Begins

(* a sequence begins itself,                                               *)
LEMMA BeginsItself ==
  ASSUME NEW a \in Seq(Byte)
  PROVE  Begins(a, a)
<1>1. Len(a) \in Nat
  BY LenProperties
<1> QED
  BY <1>1 DEF Begins

(* and any longer one;                                                     *)
LEMMA BeginsConcat ==
  ASSUME NEW a \in Seq(Byte), NEW b \in Seq(Byte)
  PROVE  Begins(a, a \o b)
<1>1. PICK i \in Nat, j \in Nat : i = Len(a) /\ j = Len(b)
  BY LenProperties
<1>2. Len(a \o b) = i + j /\ \A n \in 1 .. i + j : (a \o b)[n] = IF n <= i THEN a[n] ELSE b[n - i]
  BY <1>1, ConcatProperties
<1> QED
  BY <1>1, <1>2 DEF Begins

(* and a common front makes no difference.                                 *)
LEMMA BeginsLonger ==
  ASSUME NEW a \in Seq(Byte), NEW b \in Seq(Byte), NEW c \in Seq(Byte), Begins(b, c)
  PROVE  Begins(a \o b, a \o c)
<1>1. PICK i \in Nat, j \in Nat, k \in Nat : i = Len(a) /\ j = Len(b) /\ k = Len(c)
  BY LenProperties
<1>2. j <= k /\ \A n \in 1 .. j : b[n] = c[n]
  BY <1>1 DEF Begins
<1>3. Len(a \o b) = i + j /\ \A n \in 1 .. i + j : (a \o b)[n] = IF n <= i THEN a[n] ELSE b[n - i]
  BY <1>1, ConcatProperties
<1>4. Len(a \o c) = i + k /\ \A n \in 1 .. i + k : (a \o c)[n] = IF n <= i THEN a[n] ELSE c[n - i]
  BY <1>1, ConcatProperties
<1>5. ASSUME NEW n \in 1 .. i + j
      PROVE  (a \o b)[n] = (a \o c)[n]
  <2>1. n \in 1 .. i + k /\ (n <= i \/ n - i \in 1 .. j)
    BY <1>2
  <2> QED
    BY <1>2, <1>3, <1>4, <2>1
<1> QED
  BY <1>2, <1>3, <1>4, <1>5 DEF Begins

(* The subsequence that MatchesReference compares with.                    *)
LEMMA BeginsSubSeq ==
  ASSUME NEW a \in Seq(Byte), NEW b \in Seq(Byte), Begins(a, b)
  PROVE  a = SubSeq(b, 1, Len(a))
<1>1. PICK i \in Nat, j \in Nat : i = Len(a) /\ j = Len(b)
  BY LenProperties
<1>2. i <= j /\ \A n \in 1 .. i : a[n] = b[n]
  BY <1>1 DEF Begins
<1>3. \A n \in 1 .. i : b[n] \in Byte
  BY <1>1, <1>2, ElementOfSeq
<1>4. /\ SubSeq(b, 1, i) \in Seq(Byte)
      /\ Len(SubSeq(b, 1, i)) = IF 1 <= i THEN i - 1 + 1 ELSE 0
      /\ \A n \in 1 .. i - 1 + 1 : SubSeq(b, 1, i)[n] = b[1 + n - 1]
  BY <1>3, SubSeqProperties
<1>5. Len(SubSeq(b, 1, i)) = i /\ \A n \in 1 .. i : SubSeq(b, 1, i)[n] = b[n]
  <2>1. i - 1 + 1 = i /\ \A n \in 1 .. i : 1 + n - 1 = n
    OBVIOUS
  <2>2. i = 0 \/ 1 <= i
    OBVIOUS
  <2>3. Len(SubSeq(b, 1, i)) = i
    BY <1>4, <2>1, <2>2
  <2> QED
    BY <1>4, <2>1, <2>3
<1> QED
  BY <1>1, <1>2, <1>4, <1>5, SeqEqual

(* The bytes of a section, which the source has and the stream has.        *)
SourceHas(r, n) == r.kind = "diff_size" => r.pos .. r.pos + n - 1 \subseteq DOMAIN From

(* They are that many bytes, one by one.                                   *)
LEMMA DataType ==
  ASSUME NEW s \in Seq(Byte), NEW r \in Piece, NEW i \in Nat \ {0}, NEW n \in Nat,
         i + n - 1 <= Len(s), SourceHas(r, n)
  PROVE  /\ Data(s, r, i, n) \in Seq(Byte) /\ Len(Data(s, r, i, n)) = n
         /\ \A j \in 1 .. n : Data(s, r, i, n)[j]
              = IF r.kind = "diff_size" THEN (s[i + j - 1] + From[r.pos + j - 1]) % 256
                ELSE s[i + j - 1]
<1>0. PICK l \in Nat : l = Len(s)
  BY LenProperties
<1>1. PICK p \in Int : p = r.pos
  BY DEF Piece
<1>2. ASSUME NEW j \in 1 .. n
      PROVE  (IF r.kind = "diff_size" THEN (s[i + j - 1] + From[r.pos + j - 1]) % 256
              ELSE s[i + j - 1]) \in Byte
  <2>1. i + j - 1 \in 1 .. l /\ p + j - 1 \in p .. p + n - 1
    BY <1>0
  <2>2. s[i + j - 1] \in Byte
    BY <1>0, <2>1, ElementOfSeq
  <2>3. r.kind = "diff_size" => From[p + j - 1] \in Byte
    BY <1>1, <2>1, FromAssumption DEF SourceHas
  <2> QED
    BY <1>1, <2>2, <2>3, ByteSum
<1> DEFINE e(j) == IF r.kind = "diff_size" THEN (s[i + j - 1] + From[r.pos + j - 1]) % 256
                   ELSE s[i + j - 1]
<1>3. Data(s, r, i, n) = [j \in 1 .. n |-> e(j)]
  BY DEF Data
<1>4. \A j \in 1 .. n : e(j) \in Byte
  BY <1>2
<1> HIDE DEF e
<1>5. Data(s, r, i, n) \in [1 .. n -> Byte]
  BY <1>3, <1>4
<1>6. Data(s, r, i, n) \in Seq(Byte) /\ Len(Data(s, r, i, n)) = n
  BY <1>5
<1>7. \A j \in 1 .. n : Data(s, r, i, n)[j] = e(j)
  BY <1>3
<1> QED
  BY <1>6, <1>7 DEF e

(* A reading that ends keeps its target and its place,                     *)
LEMMA EndedType ==
  ASSUME NEW r \in Piece, NEW a \in Int
  PROVE  /\ Ended(r, a) \in Piece
         /\ Ended(r, a).kind = "end" /\ Ended(r, a).ret = a
         /\ Ended(r, a).out = r.out /\ Ended(r, a).next = r.next
         /\ Ended(r, a).pos = r.pos
BY DEF Ended, Piece

(* What a step of the reading may do: keep to the types, go on by a byte   *)
(* or more, or end, and add to the target.                                 *)
Steps(s, r, q) ==
  /\ q \in Piece /\ Begins(r.out, q.out)
  /\ q.kind # "end" => r.next < q.next /\ q.next <= Len(s) + 1

(* which is a step.                                                        *)
LEMMA EndedSteps ==
  ASSUME NEW s, NEW r \in Piece, NEW q \in Piece, NEW a \in Int, Begins(r.out, q.out)
  PROVE  Steps(s, r, Ended(q, a))
BY EndedType DEF Steps

(* A section all of which is here, or part of it.                          *)
LEMMA SectionType ==
  ASSUME NEW s \in Seq(Byte), NEW size \in Nat, NEW r \in Piece, NEW num,
         r.kind \in {"diff_size", "extra_size"}, num.value \in Int,
         num.next \in r.next + 1 .. Len(s) + 1
  PROVE  Steps(s, r, Section(s, size, r, num))
<1>0. PICK l \in Nat : l = Len(s)
  BY LenProperties
<1>1. PICK p \in Int, o \in Seq(Byte), i \in Nat \ {0}, v \in Int, j \in Nat \ {0} :
        p = r.pos /\ o = r.out /\ j = r.next /\ v = num.value /\ i = num.next
        /\ j < i /\ i <= l + 1
  <2>1. r.pos \in Int /\ r.out \in Seq(Byte) /\ r.next \in Nat \ {0}
    BY DEF Piece
  <2>2. num.next \in Nat \ {0} /\ r.next < num.next /\ num.next <= l + 1
    BY <1>0, <2>1
  <2> QED
    BY <2>1, <2>2
<1> DEFINE len == v % SIZE_MOD
           here == l - i + 1
           n == IF len < here THEN len ELSE here
           d == Data(s, r, i, n)
<1>2. len \in Nat
  <2>1. v % SIZE_MOD \in 0 .. SIZE_MOD - 1
    BY <1>1, DivMod, SizeAssumption
  <2> QED
    BY <2>1, SizeAssumption
<1> HIDE DEF len
<1>3. n \in Nat /\ i + n - 1 <= l /\ i + n <= l + 1
  <2>1. i \in Nat \ {0} /\ i <= l + 1
    BY <1>1
  <2> QED
    BY <1>2, <2>1
<1>4. ASSUME SourceHas(r, n)
      PROVE  /\ o \o d \in Seq(Byte) /\ Begins(o, o \o d)
  <2>1. d \in Seq(Byte)
    BY <1>0, <1>3, <1>4, DataType
  <2> HIDE DEF d
  <2> QED
    BY <1>1, <2>1, ConcatProperties, BeginsConcat
<1>5. Section(s, size, r, num) =
        IF (Len(o) + v) % SIZE_MOD > size THEN Ended(r, -DETOOLS_CORRUPT_PATCH)
        ELSE IF ~SourceHas(r, n) THEN Ended(r, -DETOOLS_IO_FAILED)
        ELSE IF n < len THEN Ended([r EXCEPT !.out = o \o d], -DETOOLS_NOT_ENOUGH_PATCH_DATA)
        ELSE [kind |-> IF r.kind = "diff_size" THEN "extra_size" ELSE "adjustment",
              next |-> i + n, pos |-> IF r.kind = "diff_size" THEN p + n ELSE p,
              out |-> o \o d, ret |-> 0]
  BY <1>0, <1>1 DEF Section, SourceHas, len
<1> HIDE DEF n, d
<1>6. ASSUME NEW a \in Int, Section(s, size, r, num) = Ended(r, a)
      PROVE  Steps(s, r, Section(s, size, r, num))
  <2>1. Begins(r.out, r.out)
    BY <1>1, BeginsItself
  <2>2. Steps(s, r, Ended(r, a))
    BY <1>6, <2>1, EndedSteps
  <2> QED
    BY <1>6, <2>2
<1>7. CASE SourceHas(r, n) /\ Section(s, size, r, num)
             = Ended([r EXCEPT !.out = o \o d], -DETOOLS_NOT_ENOUGH_PATCH_DATA)
  <2>1. PICK q : q = [r EXCEPT !.out = o \o d]
    OBVIOUS
  <2>2. q \in Piece /\ q.out = o \o d
    BY <1>4, <1>7, <2>1 DEF Piece
  <2>3. -DETOOLS_NOT_ENOUGH_PATCH_DATA \in Int
    BY DEF DETOOLS_NOT_ENOUGH_PATCH_DATA
  <2> QED
    <3>1. Begins(r.out, q.out)
      BY <1>1, <1>4, <1>7, <2>2
    <3>2. Steps(s, r, Ended(q, -DETOOLS_NOT_ENOUGH_PATCH_DATA))
      BY <2>2, <2>3, <3>1, EndedSteps
    <3> QED
      BY <1>7, <2>1, <3>2
<1>8. CASE SourceHas(r, n) /\ Section(s, size, r, num)
             = [kind |-> IF r.kind = "diff_size" THEN "extra_size" ELSE "adjustment",
                next |-> i + n, pos |-> IF r.kind = "diff_size" THEN p + n ELSE p,
                out |-> o \o d, ret |-> 0]
  <2>1. i + n \in Nat \ {0} /\ p + n \in Int /\ j < i + n /\ i + n <= l + 1
    <3>1. i \in Nat \ {0} /\ p \in Int /\ j \in Nat /\ j < i
      BY <1>1
    <3> QED
      BY <1>3, <3>1
  <2> QED
    BY <1>0, <1>1, <1>4, <1>8, <2>1 DEF Steps, Piece
<1> QED
  <2>1. -DETOOLS_CORRUPT_PATCH \in Int /\ -DETOOLS_IO_FAILED \in Int
    BY DEF DETOOLS_CORRUPT_PATCH, DETOOLS_IO_FAILED
  <2> QED
    BY <1>5, <1>6, <1>7, <1>8, <2>1

(* Every section is a step, unless the reading had ended.                  *)
LEMMA NextSectionType ==
  ASSUME NEW s \in Seq(Byte), NEW size \in Nat, NEW r \in Piece
  PROVE  Steps(s, r, NextSection(s, size, r)) \/ (r.kind = "end" /\ NextSection(s, size, r) = r)
<1>1. CASE r.kind = "end"
  BY <1>1 DEF NextSection
<1>2. CASE r.kind # "end"
  <2>0. PICK i \in Nat \ {0}, o \in Seq(Byte), p \in Int : i = r.next /\ o = r.out /\ p = r.pos
    BY DEF Piece
  <2>1. PICK num : num = Number(s, r.next)
    OBVIOUS
  <2>2. /\ num.ok \in BOOLEAN /\ num.value \in Int
        /\ num.ok => num.next \in i + 1 .. Len(s) + 1
    BY <2>0, <2>1, NumberType
  <2>3. PICK v \in Int : v = num.value
    BY <2>2
  <2>4. CASE ~num.ok
    <3>1. NextSection(s, size, r) = Ended(r, v)
      BY <1>2, <2>1, <2>3, <2>4 DEF NextSection
    <3> QED
      BY <2>0, <2>3, <3>1, EndedSteps, BeginsItself
  <2>5. CASE num.ok /\ r.kind = "dfpatch_size"
    <3>1. NextSection(s, size, r) =
            IF v > 0 THEN Ended(r, -DETOOLS_NOT_IMPLEMENTED)
            ELSE [r EXCEPT !.kind = "diff_size", !.next = num.next]
      BY <2>1, <2>3, <2>5 DEF NextSection
    <3>2. -DETOOLS_NOT_IMPLEMENTED \in Int
      BY DEF DETOOLS_NOT_IMPLEMENTED
    <3>3. CASE v > 0
      <4>1. Steps(s, r, Ended(r, -DETOOLS_NOT_IMPLEMENTED))
        BY <2>0, <3>2, EndedSteps, BeginsItself
      <4> QED
        BY <3>1, <3>3, <4>1
    <3>4. CASE ~(v > 0)
      <4>1. PICK q : q = [r EXCEPT !.kind = "diff_size", !.next = num.next]
        OBVIOUS
      <4>2. num.next \in Nat \ {0} /\ i < num.next /\ num.next <= Len(s) + 1
        BY <2>2, <2>5, LenProperties
      <4>3. q \in Piece /\ q.out = o /\ q.next = num.next
        BY <2>0, <4>1, <4>2 DEF Piece
      <4> QED
        BY <2>0, <3>1, <3>4, <4>1, <4>2, <4>3, BeginsItself DEF Steps
    <3> QED
      BY <3>3, <3>4
  <2>6. CASE num.ok /\ r.kind = "adjustment"
    <3>1. NextSection(s, size, r) =
            IF Len(o) = size THEN Ended([r EXCEPT !.next = num.next], size)
            ELSE [r EXCEPT !.kind = "diff_size", !.next = num.next, !.pos = p + v]
      BY <2>0, <2>1, <2>3, <2>6 DEF NextSection
    <3>2. num.next \in Nat \ {0} /\ i < num.next /\ num.next <= Len(s) + 1
      BY <2>2, <2>6, LenProperties
    <3>3. CASE Len(o) = size
      <4>1. PICK q : q = [r EXCEPT !.next = num.next]
        OBVIOUS
      <4>2. q \in Piece /\ q.out = o /\ q.next = num.next
        BY <2>0, <3>2, <4>1 DEF Piece
      <4> QED
        <5>1. Steps(s, r, Ended(q, size))
          BY <2>0, <4>2, EndedSteps, BeginsItself
        <5> QED
          BY <3>1, <3>3, <4>1, <5>1
    <3>4. CASE Len(o) # size
      <4>1. PICK q : q = [r EXCEPT !.kind = "diff_size", !.next = num.next, !.pos = p + v]
        OBVIOUS
      <4>2. p + v \in Int
        OBVIOUS
      <4>3. q \in Piece /\ q.out = o /\ q.next = num.next
        BY <2>0, <3>2, <4>1, <4>2 DEF Piece
      <4> QED
        BY <2>0, <3>1, <3>2, <3>4, <4>1, <4>3, BeginsItself DEF Steps
    <3> QED
      BY <3>3, <3>4
  <2>7. CASE num.ok /\ r.kind \in {"diff_size", "extra_size"}
    <3>1. NextSection(s, size, r) = Section(s, size, r, num)
      BY <2>1, <2>7 DEF NextSection
    <3> QED
      BY <2>0, <2>2, <2>7, <3>1, SectionType
  <2>8. r.kind \in {"dfpatch_size", "diff_size", "extra_size", "adjustment", "end"}
    BY DEF Piece
  <2> QED
    BY <1>2, <2>2, <2>4, <2>5, <2>6, <2>7, <2>8
<1> QED
  BY <1>1, <1>2

(* The recursive function is what it says: Start, then section by section. *)
LEMMA AfterSteps ==
  ASSUME NEW s \in Seq(Byte), NEW size \in Nat
  PROVE  /\ AfterSections(s, size, 0) = Start
         /\ \A k \in Nat :
              /\ AfterSections(s, size, k) \in Piece
              /\ AfterSections(s, size, k + 1) = NextSection(s, size, AfterSections(s, size, k))
<1> DEFINE After == CHOOSE After :
                      After = [i \in Nat |-> IF i = 0 THEN Start
                                             ELSE NextSection(s, size, After[i - 1])]
<1>1. PICK F \in [Nat -> [Piece -> Piece]] :
        \A n \in Nat, r \in Piece : F[n][r] = NextSection(s, size, r)
  <2>1. \A r \in Piece : NextSection(s, size, r) \in Piece
    BY NextSectionType DEF Steps
  <2>2. [n \in Nat |-> [r \in Piece |-> NextSection(s, size, r)]] \in [Nat -> [Piece -> Piece]]
    BY <2>1
  <2> QED
    BY <2>2
<1>2. Start \in Piece
  BY EmptySeq DEF Start, Piece
<1>3. PICK g : Iterates(g, Piece, Start, F)
  BY <1>2, PrimitiveRecursion, Zenon
<1>4. g \in [Nat -> Piece] /\ g[0] = Start /\ \A n \in Nat : g[n + 1] = NextSection(s, size, g[n])
  BY <1>1, <1>3 DEF Iterates
<1>5. g = [i \in Nat |-> IF i = 0 THEN Start ELSE NextSection(s, size, g[i - 1])]
  <2>1. ASSUME NEW i \in Nat
        PROVE  g[i] = IF i = 0 THEN Start ELSE NextSection(s, size, g[i - 1])
    <3>1. CASE i = 0
      BY <1>4, <3>1
    <3>2. CASE i # 0
      <4>1. i - 1 \in Nat /\ (i - 1) + 1 = i
        BY <3>2
      <4>2. g[(i - 1) + 1] = NextSection(s, size, g[i - 1])
        BY <1>4, <4>1
      <4> QED
        BY <3>2, <4>1, <4>2
    <3> QED
      BY <3>1, <3>2
  <2> QED
    BY <1>4, <2>1
<1>6. After = [i \in Nat |-> IF i = 0 THEN Start ELSE NextSection(s, size, After[i - 1])]
  BY <1>5, Zenon
<1>7. \A k : AfterSections(s, size, k) = After[k]
  BY DEF AfterSections
<1> HIDE DEF After
<1>8. After[0] = Start /\ \A n \in Nat : After[n + 1] = NextSection(s, size, After[n])
  <2>1. ASSUME NEW n \in Nat
        PROVE  After[n + 1] = NextSection(s, size, After[n])
    <3>1. n + 1 \in Nat /\ n + 1 # 0 /\ (n + 1) - 1 = n
      OBVIOUS
    <3> QED
      BY <1>6, <3>1
  <2> QED
    BY <1>6, <2>1
<1> DEFINE S == {n \in Nat : After[n] \in Piece}
<1>9. 0 \in S
  BY <1>2, <1>8
<1>10. ASSUME NEW n \in Nat, n \in S
       PROVE  n + 1 \in S
  <2>1. PICK r \in Piece : r = After[n]
    BY <1>10
  <2>2. NextSection(s, size, r) \in Piece
    BY NextSectionType DEF Steps
  <2>3. After[n + 1] = NextSection(s, size, r)
    BY <1>8, <2>1
  <2> QED
    BY <2>2, <2>3
<1> HIDE DEF S
<1>11. Nat \subseteq S
  BY <1>9, <1>10, Induction
<1>12. \A n \in Nat : After[n] \in Piece
  BY <1>11 DEF S
<1> QED
  BY <1>7, <1>8, <1>12

(* The target only grows from section to section,                          *)
LEMMA TargetGrows ==
  ASSUME NEW s \in Seq(Byte), NEW size \in Nat, NEW k \in Nat, NEW j \in Nat, k <= j
  PROVE  Begins(AfterSections(s, size, k).out, AfterSections(s, size, j).out)
<1> DEFINE A(i) == AfterSections(s, size, i).out
           S == {i \in Nat : Begins(A(k), A(k + i))}
<1>1. \A i \in Nat : A(i) \in Seq(Byte) /\ Begins(A(i), A(i + 1))
  <2>1. ASSUME NEW i \in Nat
        PROVE  A(i) \in Seq(Byte) /\ Begins(A(i), A(i + 1))
    <3>1. PICK r \in Piece : r = AfterSections(s, size, i)
      BY AfterSteps
    <3>2. AfterSections(s, size, i + 1) = NextSection(s, size, r)
      BY <3>1, AfterSteps
    <3>3. r.out \in Seq(Byte) /\ Begins(r.out, NextSection(s, size, r).out)
      BY NextSectionType, BeginsItself DEF Piece, Steps
    <3> QED
      BY <3>1, <3>2, <3>3
  <2> QED
    BY <2>1
<1> HIDE DEF A
<1>2. 0 \in S
  BY <1>1, k + 0 = k, BeginsItself
<1>3. ASSUME NEW i \in Nat, i \in S
      PROVE  i + 1 \in S
  <2>1. k + i \in Nat /\ (k + i) + 1 = k + (i + 1) /\ k + (i + 1) \in Nat
    OBVIOUS
  <2>2. Begins(A(k), A(k + i)) /\ Begins(A(k + i), A(k + (i + 1)))
    BY <1>1, <1>3, <2>1
  <2>3. Begins(A(k), A(k + (i + 1)))
    <3>1. PICK a \in Seq(Byte), b \in Seq(Byte), c \in Seq(Byte) :
            a = A(k) /\ b = A(k + i) /\ c = A(k + (i + 1))
      BY <1>1, <2>1
    <3> QED
      BY <2>2, <3>1, BeginsOn
  <2> QED
    BY <2>3
<1> HIDE DEF S
<1>4. Nat \subseteq S
  BY <1>2, <1>3, Induction
<1>5. j - k \in S /\ k + (j - k) = j
  BY <1>4
<1> QED
  BY <1>5 DEF S, A

(* nothing changes once the reading has ended,                             *)
LEMMA EndStays ==
  ASSUME NEW s \in Seq(Byte), NEW size \in Nat, NEW k \in Nat, NEW j \in Nat, k <= j,
         AfterSections(s, size, k).kind = "end"
  PROVE  AfterSections(s, size, j) = AfterSections(s, size, k)
<1> DEFINE A(i) == AfterSections(s, size, i)
           S == {i \in Nat : A(k + i) = A(k)}
<1>1. NextSection(s, size, A(k)) = A(k) /\ \A i \in Nat : A(i + 1) = NextSection(s, size, A(i))
  BY AfterSteps DEF NextSection
<1> HIDE DEF A
<1>2. 0 \in S
  BY k + 0 = k
<1>3. ASSUME NEW i \in Nat, i \in S
      PROVE  i + 1 \in S
  BY <1>1, <1>3, k + i \in Nat, (k + i) + 1 = k + (i + 1)
<1> HIDE DEF S
<1>4. Nat \subseteq S
  BY <1>2, <1>3, Induction
<1>5. j - k \in S /\ k + (j - k) = j
  BY <1>4
<1> QED
  BY <1>5 DEF S, A

(* and it ends at last, since each section takes a byte or more.           *)
LEMMA ReadingEnds ==
  ASSUME NEW s \in Seq(Byte), NEW size \in Nat, NEW k \in Nat
  PROVE  \/ AfterSections(s, size, k).kind = "end"
         \/ /\ AfterSections(s, size, k).next \in k + 1 .. Len(s) + 1
            /\ k <= Len(s)
<1>0. PICK l \in Nat : l = Len(s)
  BY LenProperties
<1> DEFINE A(i) == AfterSections(s, size, i)
           S == {i \in Nat : A(i).kind = "end" \/ (i + 1 <= A(i).next /\ A(i).next <= l + 1)}
<1>1. \A i \in Nat : A(i) \in Piece /\ A(i + 1) = NextSection(s, size, A(i))
  BY AfterSteps
<1>2. A(0).next = 1
  BY AfterSteps DEF Start
<1> HIDE DEF A
<1>3. 0 \in S
  BY <1>2
<1>4. ASSUME NEW i \in Nat, i \in S
      PROVE  i + 1 \in S
  <2>1. PICK r \in Piece, q \in Piece : r = A(i) /\ q = A(i + 1)
    BY <1>1, i + 1 \in Nat
  <2>2. Steps(s, r, q) \/ (r.kind = "end" /\ q = r)
    BY <1>1, <2>1, NextSectionType
  <2>3. r.kind = "end" => q = r
    BY <1>1, <2>1 DEF NextSection
  <2>4. PICK m \in Nat, n \in Nat : m = r.next /\ n = q.next
    BY DEF Piece
  <2>5. CASE r.kind = "end"
    BY <2>1, <2>3, <2>5
  <2>6. CASE r.kind # "end"
    <3>1. i + 1 <= m /\ (q.kind = "end" \/ (m < n /\ n <= l + 1))
      BY <1>0, <1>4, <2>1, <2>2, <2>4, <2>6 DEF Steps
    <3>2. q.kind = "end" \/ ((i + 1) + 1 <= n /\ n <= l + 1)
      BY <3>1
    <3> QED
      BY <2>1, <2>4, <3>2
  <2> QED
    BY <2>5, <2>6
<1> HIDE DEF S
<1>5. k \in S
  BY <1>3, <1>4, Induction
<1>6. A(k).kind = "end" \/ (k + 1 <= A(k).next /\ A(k).next <= l + 1)
  BY <1>5 DEF S
<1>7. PICK m \in Nat : m = A(k).next
  BY <1>1 DEF Piece
<1>8. A(k).kind = "end" \/ (A(k).next \in k + 1 .. l + 1 /\ k <= l)
  BY <1>6, <1>7
<1> QED
  BY <1>0, <1>8 DEF A

-----------------------------------------------------------------------------
(***************************************************************************)
(* Where the reading of a stream gets to.                                  *)
(***************************************************************************)
Reached(s, size, r) == \E k \in 0 .. Len(s) + 1 : r = AfterSections(s, size, k)

(* A place of the reading is well typed;                                   *)
LEMMA ReachedType ==
  ASSUME NEW s \in Seq(Byte), NEW size \in Nat, NEW r, Reached(s, size, r)
  PROVE  r \in Piece /\ (r.kind # "end" => r.next \in 1 .. Len(s) + 1)
<1>1. PICK l \in Nat : l = Len(s)
  BY LenProperties
<1>2. PICK k \in 0 .. l + 1 : r = AfterSections(s, size, k)
  BY <1>1 DEF Reached
<1>3. r \in Piece
  BY <1>2, AfterSteps
<1>4. r.kind = "end" \/ r.next \in k + 1 .. l + 1
  BY <1>1, <1>2, ReadingEnds
<1> QED
  BY <1>1, <1>3, <1>4

(* the start is one,                                                       *)
LEMMA ReachedStart ==
  ASSUME NEW s \in Seq(Byte), NEW size \in Nat
  PROVE  Reached(s, size, Start)
<1>1. 0 \in 0 .. Len(s) + 1
  BY LenProperties
<1> QED
  BY <1>1, AfterSteps DEF Reached

(* what comes next is one if the reading goes on,                          *)
LEMMA ReachedNext ==
  ASSUME NEW s \in Seq(Byte), NEW size \in Nat, NEW r, Reached(s, size, r)
  PROVE  Reached(s, size, NextSection(s, size, r))
<1>1. PICK l \in Nat : l = Len(s)
  BY LenProperties
<1>2. PICK k \in 0 .. l + 1 : r = AfterSections(s, size, k)
  BY <1>1 DEF Reached
<1>3. CASE r.kind = "end"
  BY <1>3 DEF NextSection
<1>4. CASE r.kind # "end"
  <2>1. k + 1 \in 0 .. l + 1
    BY <1>1, <1>2, <1>4, ReadingEnds
  <2>2. AfterSections(s, size, k + 1) = NextSection(s, size, r)
    BY <1>2, AfterSteps
  <2> QED
    BY <1>1, <2>1, <2>2 DEF Reached
<1> QED
  BY <1>3, <1>4

(* and where it ends the answer is that of the stream.                     *)
LEMMA ReachedEnd ==
  ASSUME NEW s \in Seq(Byte), NEW size \in Nat, NEW r, Reached(s, size, r), r.kind = "end"
  PROVE  Stream(s, size) = [ret |-> r.ret, used |-> r.next - 1, out |-> r.out]
<1>1. PICK l \in Nat : l = Len(s)
  BY LenProperties
<1>2. PICK k \in 0 .. l + 1 : r = AfterSections(s, size, k)
  BY <1>1 DEF Reached
<1>3. AfterSections(s, size, l + 1) = r
  BY <1>2, EndStays
<1> QED
  BY <1>1, <1>3 DEF Stream

(* The target there is how the whole target begins.                        *)
LEMMA ReachedOut ==
  ASSUME NEW s \in Seq(Byte), NEW size \in Nat, NEW r, Reached(s, size, r)
  PROVE  Begins(r.out, Stream(s, size).out) /\ Stream(s, size).out \in Seq(Byte)
<1>1. PICK l \in Nat : l = Len(s)
  BY LenProperties
<1>2. PICK k \in 0 .. l + 1 : r = AfterSections(s, size, k)
  BY <1>1 DEF Reached
<1>3. PICK q \in Piece : q = AfterSections(s, size, l + 1)
  BY AfterSteps
<1>4. Begins(r.out, q.out)
  BY <1>2, <1>3, TargetGrows
<1>5. Stream(s, size).out = q.out
  BY <1>1, <1>3 DEF Stream
<1> QED
  BY <1>4, <1>5 DEF Piece

(* The first w bytes of a section: they are how the target goes on, unless *)
(* the source cannot be read, and they are all of it at the end of the     *)
(* stream.                                                                 *)
Inside(s, size, r, w) ==
  LET num == Number(s, r.next) IN
  /\ r.kind \in {"diff_size", "extra_size"} /\ num.ok
  /\ ~((Len(r.out) + num.value) % SIZE_MOD > size)
  /\ w <= num.value % SIZE_MOD /\ num.next + w - 1 <= Len(s) /\ SourceHas(r, w)

(* All that a part of a section tells of the whole (detools.c:489-538).    *)
LEMMA SectionPart ==
  ASSUME NEW s \in Seq(Byte), NEW size \in Nat, NEW r \in Piece, NEW w \in Nat,
         Inside(s, size, r, w)
  PROVE  LET num == Number(s, r.next)
             q == NextSection(s, size, r)
             o == r.out \o Data(s, r, num.next, w)
         IN  /\ (q.kind = "end" /\ q.ret = -DETOOLS_IO_FAILED) \/ Begins(o, q.out)
             /\ w < num.value % SIZE_MOD /\ num.next + w - 1 = Len(s) =>
                  q.kind = "end" /\ q.ret = -DETOOLS_NOT_ENOUGH_PATCH_DATA /\ q.out = o
             /\ w = num.value % SIZE_MOD =>
                  /\ q.kind = IF r.kind = "diff_size" THEN "extra_size" ELSE "adjustment"
                  /\ q.next = num.next + w
                  /\ q.pos = IF r.kind = "diff_size" THEN r.pos + w ELSE r.pos
                  /\ q.out = o
<1> DEFINE num == Number(s, r.next)
           q == NextSection(s, size, r)
<1> USE DEF Inside
<1>0. PICK l \in Nat, i \in Nat \ {0}, c \in Nat :
        l = Len(s) /\ i = num.next /\ c = num.value % SIZE_MOD
  <2>1. r.next \in Nat \ {0}
    BY DEF Piece
  <2>2. num.value \in Int /\ num.next \in r.next + 1 .. Len(s) + 1
    BY <2>1, NumberType
  <2>3. PICK a \in Nat, l \in Nat, i \in Int :
          a = r.next /\ l = Len(s) /\ i = num.next /\ i \in a + 1 .. l + 1
    BY <2>1, <2>2, LenProperties
  <2>4. i \in Nat \ {0}
    <3>1. a \in Nat /\ i \in Int /\ i >= a + 1
      BY <2>3
    <3> QED
      BY ONLY <3>1
  <2>5. num.value % SIZE_MOD \in Nat
    BY <2>2, SizeAssumption
  <2> QED
    BY <2>3, <2>4, <2>5
<1>1. r.out \in Seq(Byte) /\ r.pos \in Int
  BY DEF Piece
<1>2. ~((Len(r.out) + num.value) % SIZE_MOD > size) /\ w <= c /\ i + w - 1 <= l
  BY <1>0
<1> DEFINE here == l - i + 1
           n == IF c < here THEN c ELSE here
           D(m) == Data(s, r, i, m)
<1>3. q = Section(s, size, r, num)
  BY DEF NextSection
<1>4. q =
        IF ~SourceHas(r, n) THEN Ended(r, -DETOOLS_IO_FAILED)
        ELSE IF n < c THEN Ended([r EXCEPT !.out = r.out \o D(n)], -DETOOLS_NOT_ENOUGH_PATCH_DATA)
        ELSE [kind |-> IF r.kind = "diff_size" THEN "extra_size" ELSE "adjustment",
              next |-> i + n, pos |-> IF r.kind = "diff_size" THEN r.pos + n ELSE r.pos,
              out |-> r.out \o D(n), ret |-> 0]
  <2> HIDE DEF q, num
  <2> QED
    BY <1>0, <1>2, <1>3 DEF Section, SourceHas
<1> HIDE DEF num, D, q
<1>5. /\ c \in Nat /\ w \in Nat /\ w <= c /\ i + w - 1 <= l
      /\ n \in Nat /\ w <= n /\ n <= c /\ i + n - 1 <= l
      /\ w < c /\ i + w - 1 = l => w = n /\ n < c
      /\ w = c => w = n /\ ~(n < c)
  <2>1. c \in Nat /\ w \in Nat /\ w <= c /\ i + w - 1 <= l
    BY <1>0, <1>2
  <2>2. PICK h \in Int : h = l - i + 1
    OBVIOUS
  <2>3. n = IF c < h THEN c ELSE h
    BY <2>2
  <2>4. w <= h /\ (i + w - 1 = l <=> w = h) /\ i + h - 1 = l /\ (c < h => i + c - 1 <= l)
    <3>1. i \in Nat /\ l \in Nat
      OBVIOUS
    <3> QED
      BY ONLY <2>1, <2>2, <3>1, h \in Int
  <2> HIDE DEF n
  <2>5. CASE c < h
    BY <2>1, <2>3, <2>4, <2>5
  <2>6. CASE ~(c < h)
    BY <2>1, <2>3, <2>4, <2>6
  <2> QED
    BY <2>5, <2>6
<1> HIDE DEF n
<1>6. CASE ~SourceHas(r, n)
  <2>1. q = Ended(r, -DETOOLS_IO_FAILED)
    BY <1>4, <1>6
  <2>2. -DETOOLS_IO_FAILED \in Int
    BY DEF DETOOLS_IO_FAILED
  <2>3. q.kind = "end" /\ q.ret = -DETOOLS_IO_FAILED
    BY <2>1, <2>2, EndedType
  <2>4. w # n
    BY <1>6
  <2> QED
    BY <1>0, <1>5, <2>3, <2>4 DEF q, num
<1>7. CASE SourceHas(r, n)
  <2>1. /\ D(n) \in Seq(Byte) /\ D(w) \in Seq(Byte)
        /\ Begins(D(w), D(n))
    <3>1. /\ D(n) \in Seq(Byte) /\ Len(D(n)) = n
          /\ \A j \in 1 .. n : D(n)[j]
              = IF r.kind = "diff_size" THEN (s[i + j - 1] + From[r.pos + j - 1]) % 256
                ELSE s[i + j - 1]
      <4>1. n \in Nat /\ i + n - 1 <= Len(s)
        BY <1>0, <1>5
      <4> QED
        BY <1>7, <4>1, DataType DEF D
    <3>2. /\ D(w) \in Seq(Byte) /\ Len(D(w)) = w
          /\ \A j \in 1 .. w : D(w)[j]
              = IF r.kind = "diff_size" THEN (s[i + j - 1] + From[r.pos + j - 1]) % 256
                ELSE s[i + j - 1]
      <4>1. w \in Nat /\ i + w - 1 <= Len(s)
        BY <1>0, <1>5
      <4> QED
        BY <4>1, DataType DEF D
    <3>3. w <= n /\ \A j \in 1 .. w : j \in 1 .. n
      BY <1>5
    <3> QED
      BY <3>1, <3>2, <3>3, Zenon DEF Begins
  <2>2. Begins(r.out \o D(w), r.out \o D(n))
    BY <1>1, <2>1, BeginsLonger
  <2>3. CASE n < c
    <3>1. PICK z : z = [r EXCEPT !.out = r.out \o D(n)]
      OBVIOUS
    <3>2. z \in Piece /\ z.out = r.out \o D(n)
      BY <1>1, <2>1, <3>1, ConcatProperties DEF Piece
    <3>3. q = Ended(z, -DETOOLS_NOT_ENOUGH_PATCH_DATA)
      BY <1>4, <1>7, <2>3, <3>1
    <3>4. -DETOOLS_NOT_ENOUGH_PATCH_DATA \in Int
      BY DEF DETOOLS_NOT_ENOUGH_PATCH_DATA
    <3>5. q.kind = "end" /\ q.ret = -DETOOLS_NOT_ENOUGH_PATCH_DATA /\ q.out = r.out \o D(n)
      BY <3>2, <3>3, <3>4, EndedType
    <3> QED
      BY <1>0, <1>5, <2>2, <2>3, <3>5 DEF q, num, D
  <2>4. CASE ~(n < c)
    <3>1. q = [kind |-> IF r.kind = "diff_size" THEN "extra_size" ELSE "adjustment",
               next |-> i + n, pos |-> IF r.kind = "diff_size" THEN r.pos + n ELSE r.pos,
               out |-> r.out \o D(n), ret |-> 0]
      BY <1>4, <1>7, <2>4
    <3>2. /\ q.kind = IF r.kind = "diff_size" THEN "extra_size" ELSE "adjustment"
          /\ q.next = i + n /\ q.pos = IF r.kind = "diff_size" THEN r.pos + n ELSE r.pos
          /\ q.out = r.out \o D(n)
      BY <3>1
    <3> QED
      BY <1>0, <1>5, <2>2, <2>4, <3>2 DEF q, num, D
  <2> QED
    BY <2>3, <2>4
<1> QED
  BY <1>6, <1>7

(* Two cases of this: all of the section is here, or it is cut off.        *)
Passed(s, r, w, q) ==
  /\ q.kind = IF r.kind = "diff_size" THEN "extra_size" ELSE "adjustment"
  /\ q.next = Number(s, r.next).next + w
  /\ q.pos = IF r.kind = "diff_size" THEN r.pos + w ELSE r.pos
  /\ q.out = r.out \o Data(s, r, Number(s, r.next).next, w)

CutShort(s, r, w, q) ==
  /\ q.kind = "end" /\ q.ret = -DETOOLS_NOT_ENOUGH_PATCH_DATA
  /\ q.out = r.out \o Data(s, r, Number(s, r.next).next, w)

(* If it is all here, the next place is behind it;                         *)
LEMMA SectionWhole ==
  ASSUME NEW s \in Seq(Byte), NEW size \in Nat, NEW r \in Piece, NEW w \in Nat,
         Inside(s, size, r, w), w = Number(s, r.next).value % SIZE_MOD,
         NEW q, q = NextSection(s, size, r)
  PROVE  Passed(s, r, w, q)
BY SectionPart DEF Passed

(* if the stream ends inside of it, so does the reading.                   *)
LEMMA SectionCut ==
  ASSUME NEW s \in Seq(Byte), NEW size \in Nat, NEW r \in Piece, NEW w \in Nat,
         Inside(s, size, r, w), w < Number(s, r.next).value % SIZE_MOD,
         Number(s, r.next).next + w - 1 = Len(s),
         NEW q, q = NextSection(s, size, r)
  PROVE  CutShort(s, r, w, q)
BY SectionPart DEF CutShort

-----------------------------------------------------------------------------
(***************************************************************************)
(* A size that is being unpacked, bytes i .. t of stream s, is the number  *)
(* of the reference as far as it goes.                                     *)
(***************************************************************************)
NumberHeld(s, i, t, u) ==
  \E k \in 0 .. 4 :
    /\ t = i - 1 + k
    /\ u.state = IF k = 0 THEN "first" ELSE "consecutive"
    /\ k > 0 => /\ u.offset = 7 * k - 1
                /\ u.value = Magnitude(s, i, k)
                /\ u.is_signed <=> s[i] % 128 >= 64
    /\ \A m \in i .. i + k - 1 : s[m] >= 128

(* The byte that is taken up makes it longer, or ends it.                  *)
LEMMA NumberGrows ==
  ASSUME NEW s \in Seq(Byte), NEW i \in Nat \ {0}, NEW t \in Nat, NEW u \in UsizeType,
         NumberHeld(s, i, t, u), t + 1 <= Len(s),
         ~(u.state = "consecutive" /\ is_overflow(u.offset))
  PROVE  /\ s[t + 1] >= 128 => NumberHeld(s, i, t + 1, Extended(u, s[t + 1]))
         /\ ~(s[t + 1] >= 128) =>
              Number(s, i) = [ok |-> TRUE, value |-> Signed(Extended(u, s[t + 1])),
                              next |-> t + 2]
<1>0. PICK l \in Nat : l = Len(s)
  BY LenProperties
<1>1. PICK k \in 0 .. 4 :
        /\ t = i - 1 + k
        /\ u.state = IF k = 0 THEN "first" ELSE "consecutive"
        /\ k > 0 => /\ u.offset = 7 * k - 1
                    /\ u.value = Magnitude(s, i, k)
                    /\ u.is_signed <=> s[i] % 128 >= 64
        /\ \A m \in i .. i + k - 1 : s[m] >= 128
  BY DEF NumberHeld
<1>2. k \in 0 .. 3 /\ i + k <= l /\ t + 1 = i + k
  <2>1. k # 4
    BY <1>1 DEF is_overflow
  <2> QED
    BY <1>0, <1>1, <2>1
<1>3. PICK b \in Byte : b = s[t + 1] /\ b = s[i + k]
  <2>1. i + k \in 1 .. l
    BY <1>2
  <2> QED
    BY <1>0, <1>2, <2>1, ElementOfSeq
<1> DEFINE e == Extended(u, b)
<1>4. /\ e.state = "consecutive" /\ e.offset = 7 * (k + 1) - 1
      /\ e.value = Magnitude(s, i, k + 1)
      /\ e.is_signed <=> s[i] % 128 >= 64
  <2>1. CASE k = 0
    <3>1. e = [state |-> "consecutive", value |-> b % 64, offset |-> 6,
               is_signed |-> (b \div 64) % 2 = 1]
      BY <1>1, <2>1 DEF Extended
    <3>2. s[i] = b /\ Magnitude(s, i, 1) = b % 64
      BY <1>0, <1>2, <1>3, <2>1, MagnitudeSteps
    <3>3. (b \div 64) % 2 = 1 <=> b % 128 >= 64
      BY ByteParts
    <3> HIDE DEF e
    <3>4. e.state = "consecutive" /\ e.offset = 6 /\ e.value = b % 64
          /\ (e.is_signed <=> (b \div 64) % 2 = 1)
      BY <3>1
    <3> QED
      BY <2>1, <3>2, <3>3, <3>4
  <2>2. CASE k # 0
    <3>1. e = [u EXCEPT !.value = @ + (b % 128) * Shift(u.offset), !.offset = @ + 7]
      BY <1>1, <2>2 DEF Extended
    <3>2. u.offset = 7 * k - 1 /\ u.value = Magnitude(s, i, k)
      BY <1>1, <2>2
    <3>3. Magnitude(s, i, k + 1) = Magnitude(s, i, k) + (b % 128) * Shift(7 * k - 1)
      <4>1. k \in 1 .. 3 /\ i + k <= Len(s)
        BY <1>0, <1>2, <2>2
      <4>2. Magnitude(s, i, k + 1) = Magnitude(s, i, k) + (s[i + k] % 128) * Shift(7 * k - 1)
        BY <4>1, MagnitudeSteps
      <4> QED
        BY <1>3, <4>2
    <3> DEFINE v == u.value + (b % 128) * Shift(u.offset)
    <3>4. v = Magnitude(s, i, k + 1)
      BY <3>2, <3>3
    <3>5. e = [u EXCEPT !.value = v, !.offset = @ + 7]
      BY <3>1
    <3> HIDE DEF e, v
    <3>6. e.state = u.state /\ e.value = v /\ e.offset = u.offset + 7 /\ e.is_signed = u.is_signed
      BY <3>5 DEF UsizeType
    <3> QED
      BY <1>1, <2>2, <3>2, <3>4, <3>6
  <2> QED
    BY <2>1, <2>2
<1> HIDE DEF e
<1>5. ASSUME b >= 128
      PROVE  NumberHeld(s, i, t + 1, e)
  <2>1. k + 1 \in 0 .. 4 /\ k + 1 > 0 /\ k + 1 # 0
    BY <1>2
  <2>2. t + 1 = i - 1 + (k + 1)
    BY <1>1
  <2>3. \A m \in i .. i + (k + 1) - 1 : s[m] >= 128
    <3>1. ASSUME NEW m \in i .. i + (k + 1) - 1
          PROVE  s[m] >= 128
      <4>1. m \in i .. i + k - 1 \/ m = i + k
        BY <1>2
      <4> QED
        BY <1>1, <1>3, <1>5, <4>1
    <3> QED
      BY <3>1
  <2> QED
    BY <1>4, <2>1, <2>2, <2>3 DEF NumberHeld
<1>6. ASSUME ~(b >= 128)
      PROVE  Number(s, i) = [ok |-> TRUE, value |-> Signed(e), next |-> t + 2]
  <2>1. k + 1 \in 1 .. 4 /\ i + (k + 1) = t + 2
    BY <1>2
  <2>2. IsNumber(s, i, k + 1)
    <3>1. i + (k + 1) - 1 = i + k /\ i + (k + 1) - 2 = i + k - 1
      BY <1>2
    <3>2. b < 128
      BY <1>6 DEF Byte
    <3> QED
      BY <1>0, <1>1, <1>2, <1>3, <3>1, <3>2 DEF IsNumber
  <2>3. Number(s, i) = [ok |-> TRUE,
                        value |-> IF s[i] % 128 >= 64 THEN -Magnitude(s, i, k + 1)
                                  ELSE Magnitude(s, i, k + 1),
                        next |-> i + (k + 1)]
    BY <2>1, <2>2, NumberFound
  <2>4. Signed(e) = IF s[i] % 128 >= 64 THEN -Magnitude(s, i, k + 1)
                    ELSE Magnitude(s, i, k + 1)
    BY <1>4 DEF Signed
  <2> QED
    BY <2>1, <2>3, <2>4
<1> QED
  BY <1>3, <1>5, <1>6 DEF e

(* Where no byte is left, or there are four already, it is no number.      *)
LEMMA NumberStops ==
  ASSUME NEW s \in Seq(Byte), NEW i \in Nat \ {0}, NEW t \in Nat, NEW u \in UsizeType,
         NumberHeld(s, i, t, u)
  PROVE  /\ t = Len(s) => ~Number(s, i).ok /\ Number(s, i).value = -DETOOLS_NOT_ENOUGH_PATCH_DATA
         /\ t + 1 <= Len(s) /\ u.state = "consecutive" /\ is_overflow(u.offset) =>
              ~Number(s, i).ok /\ Number(s, i).value = -DETOOLS_CORRUPT_PATCH_OVERFLOW
<1>0. PICK l \in Nat : l = Len(s)
  BY LenProperties
<1>1. PICK k \in 0 .. 4 :
        /\ t = i - 1 + k
        /\ u.state = IF k = 0 THEN "first" ELSE "consecutive"
        /\ k > 0 => u.offset = 7 * k - 1
        /\ \A m \in i .. i + k - 1 : s[m] >= 128
  BY DEF NumberHeld
<1>2. ASSUME NEW n \in 1 .. 4, IsNumber(s, i, n), n <= k
      PROVE  FALSE
  <2>1. i + n - 1 \in i .. i + k - 1 /\ i + n - 1 \in 1 .. l
    BY <1>0, <1>2 DEF IsNumber
  <2>2. PICK c \in 0 .. 255 : c = s[i + n - 1]
    <3>1. s[i + n - 1] \in Byte
      BY <1>0, <2>1, ElementOfSeq
    <3> QED
      BY <3>1 DEF Byte
  <2>3. s[i + n - 1] < 128 /\ s[i + n - 1] >= 128
    BY <1>1, <1>2, <2>1 DEF IsNumber
  <2> QED
    BY <2>2, <2>3
<1>3. ASSUME t = l
      PROVE  ~Number(s, i).ok /\ Number(s, i).value = -DETOOLS_NOT_ENOUGH_PATCH_DATA
  <2>1. ASSUME NEW n \in 1 .. 4, IsNumber(s, i, n)
        PROVE  FALSE
    <3>1. i + n - 1 <= l
      BY <1>0, <2>1 DEF IsNumber
    <3>2. n <= k
      BY <1>1, <1>3, <3>1
    <3> QED
      BY <1>2, <2>1, <3>2
  <2>2. ~(i + 4 <= l)
    BY <1>1, <1>3
  <2> QED
    BY <1>0, <2>1, <2>2, NumberMissing
<1>4. ASSUME t + 1 <= l, u.state = "consecutive", is_overflow(u.offset)
      PROVE  ~Number(s, i).ok /\ Number(s, i).value = -DETOOLS_CORRUPT_PATCH_OVERFLOW
  <2>1. k = 4
    BY <1>1, <1>4 DEF is_overflow
  <2>2. \A n \in 1 .. 4 : ~IsNumber(s, i, n)
    BY <1>2, <2>1
  <2>3. i + 4 <= l
    BY <1>1, <1>4, <2>1
  <2> QED
    BY <1>0, <2>2, <2>3, NumberMissing
<1> QED
  BY <1>0, <1>3, <1>4

-----------------------------------------------------------------------------
(***************************************************************************)
(* The inductive invariant.  Plain is what there is of the stream and      *)
(* Expected the answer of the reference, which an answer of the engine     *)
(* Agrees with as MatchesReference says.                                   *)
(***************************************************************************)
Plain == IF patch_size <= patch.head_len THEN << >>
         ELSE SubSeq(patch.plain, 1, Upto(patch, patch_size - patch.head_len - 1))

Expected == Reference(patch, patch_size)

Agrees(answer) ==
  \/ answer = Expected.ret /\ out = Expected.out
  \/ answer = -DETOOLS_IO_FAILED /\ (Begins(out, Expected.out) \/ Expected.ret = -DETOOLS_IO_FAILED)

(* Reported: what the loops have been told agrees with the reference.     *)
Reported ==
  /\ Agrees(-DETOOLS_IO_FAILED)
  /\ cb_res # 0 => Agrees(cb_res) /\ (state # "failed" => cb_res = -DETOOLS_IO_FAILED)
  /\ pc = "process" /\ res < 0 => Agrees(res)
  /\ pc = "finalize" /\ cb_res = 0 =>
       /\ patch_offset = patch_size
       /\ state = "failed" => res # 0
       /\ call # "none" => res = 0
       /\ res # 0 => Agrees(FinalResult)
  /\ pc = "done" => Agrees(ret)

(* Begun: a good header has been read, from the first chunk as a whole.    *)
Begun ==
  /\ state = "init" =>
       /\ out = << >> /\ from_pos = 0 /\ usize.state = "first"
       /\ pc = "process" => chunk_left = IF patch_size < CHUNK_BUF THEN patch_size ELSE CHUNK_BUF
  /\ state \notin {"init", "failed"} =>
       /\ patch.type = PATCH_TYPE_SEQUENTIAL /\ patch.head_len <= 5
       /\ patch_size >= patch.head_len
       /\ state # "done" => to_size > 0
       /\ window_known => patch.heatshrink = HEATSHRINK_STATIC

(* No more has been sunk than the bytes polled needed; the last byte of a  *)
(* number needed all of it.                                                *)
Drained == \A i \in 0 .. sunk - 1 : Upto(patch, i) <= taken

NumberDrained == \A i \in 0 .. sunk - 1 : Upto(patch, i) < taken

InNumber(r) ==
  /\ r.kind = state /\ out = r.out /\ from_pos = r.pos
  /\ NumberHeld(Plain, r.next, taken, usize)

InSeek(r) ==
  LET num == Number(Plain, r.next) IN
  /\ r.kind = "adjustment" /\ out = r.out /\ from_pos = r.pos
  /\ usize.state = "first"
  /\ num.ok /\ seek = num.value /\ taken = num.next - 1 /\ NumberDrained

(* Bytes of the section at r that are in the target.                       *)
Written(num) == (num.value % SIZE_MOD) - chunk_size

InSection(r) ==
  LET num == Number(Plain, r.next)
      w   == Written(num)
  IN
  /\ r.kind = IF state = "diff_data" THEN "diff_size" ELSE "extra_size"
  /\ num.ok /\ usize.state = "first"
  /\ ~((Len(r.out) + num.value) % SIZE_MOD > to_size)
  /\ w \in Nat
  /\ taken = num.next - 1 + w + (IF call = "none" THEN 0 ELSE Len(buf))
  /\ from_pos = IF state # "diff_data" THEN r.pos
                ELSE r.pos + w + (IF call = "to_write" THEN Len(buf) ELSE 0)
  /\ SourceHas(r, IF call = "to_write" THEN w + Len(buf) ELSE w)
  /\ out = r.out \o Data(Plain, r, num.next, w)
  /\ call = "from_read" => \A m \in 1 .. Len(buf) : buf[m] = Plain[num.next + w + m - 1]
  /\ call = "to_write" =>
       out \o buf = r.out \o Data(Plain, r, num.next, w + Len(buf))

AtEnd(r) ==
  /\ r.kind = "end" /\ r.ret = to_size /\ out = r.out
  /\ taken = r.next - 1 /\ taken > 0 /\ NumberDrained

(* Follows: the engine is where the reading of the reference has got to.   *)
At(r) ==
  /\ state \in SizeStates /\ call # "from_seek" => InNumber(r)
  /\ state \in SizeStates /\ call = "from_seek" => InSeek(r)
  /\ state \in DataStates => InSection(r)
  /\ state = "done" => AtEnd(r)

Follows ==
  \/ state \in {"init", "failed"}
  \/ state = "done" /\ to_size = 0 /\ out = << >> /\ ~window_known
  \/ to_size > 0 /\ \E r : Reached(Plain, to_size, r) /\ At(r)

Matching == IInv /\ Processing /\ FailureKnown /\ Reported /\ Begun /\ Drained /\ Follows

-----------------------------------------------------------------------------
(***************************************************************************)
(* What the reference says of the patch.                                   *)
(***************************************************************************)
LEMMA InputFacts ==
  ASSUME InputTypeOK
  PROVE  /\ patch \in Patches /\ patch_size \in Nat /\ patch.head_len \in Nat
         /\ patch.to_size \in Nat /\ Len(patch.upto) \in Nat
         /\ patch_size - patch.head_len - 1 <= Len(patch.upto)
<1>1. patch \in Patches /\ patch_size \in 0 .. PatchLen(patch)
  BY DEF InputTypeOK
<1>2. /\ patch.head_len \in Nat /\ patch.to_size \in Nat /\ Len(patch.upto) \in Nat
      /\ PatchLen(patch) = patch.head_len + 1 + Len(patch.upto)
  BY <1>1, PatchFacts
<1>3. patch_size \in Nat /\ patch_size - patch.head_len - 1 <= Len(patch.upto)
  BY <1>1, <1>2
<1> QED
  BY <1>1, <1>2, <1>3

(* The plain stream of so many bytes of a patch, and its length.           *)
LEMMA PlainFacts ==
  ASSUME InputTypeOK
  PROVE  /\ Plain \in Seq(Byte)
         /\ patch_size <= patch.head_len => Len(Plain) = 0 /\ Plain = << >>
         /\ patch_size > patch.head_len =>
              Len(Plain) = Upto(patch, patch_size - patch.head_len - 1)
         /\ \A m \in 1 .. Len(Plain) : m <= Len(patch.plain) /\ Plain[m] = patch.plain[m]
<1>1. PICK n \in Nat, h \in Nat, l \in Nat :
        n = patch_size /\ h = patch.head_len /\ l = Len(patch.upto) /\ n - h - 1 <= l
  BY InputFacts
<1>2. CASE n <= h
  BY <1>1, <1>2, EmptySeq DEF Plain
<1>3. CASE n > h
  <2>1. n - h - 1 \in 0 .. l
    BY <1>1, <1>3
  <2>2. Upto(patch, n - h - 1) \in 0 .. Len(patch.plain)
    BY <1>1, <2>1, PatchFacts, InputFacts
  <2>3. PICK a \in Nat, b \in Nat : a = Upto(patch, n - h - 1) /\ b = Len(patch.plain) /\ a <= b
    BY <2>2, PatchFacts, InputFacts
  <2>4. Plain = SubSeq(patch.plain, 1, a)
    BY <1>1, <1>3, <2>3 DEF Plain
  <2>5. \A m \in 1 .. a : patch.plain[m] \in Byte
    <3>1. patch.plain \in Seq(Byte)
      BY PatchFacts, InputFacts
    <3> QED
      BY <2>3, <3>1, ElementOfSeq
  <2>6. /\ SubSeq(patch.plain, 1, a) \in Seq(Byte)
        /\ Len(SubSeq(patch.plain, 1, a)) = IF 1 <= a THEN a - 1 + 1 ELSE 0
        /\ \A m \in 1 .. a - 1 + 1 : SubSeq(patch.plain, 1, a)[m] = patch.plain[1 + m - 1]
    BY <2>5, SubSeqProperties
  <2>7. Len(Plain) = a /\ \A m \in 1 .. a : Plain[m] = patch.plain[m]
    <3>1. a - 1 + 1 = a /\ (a = 0 \/ 1 <= a) /\ \A m \in 1 .. a : 1 + m - 1 = m
      OBVIOUS
    <3>2. Len(Plain) = a
      BY <2>4, <2>6, <3>1
    <3> QED
      BY <2>4, <2>6, <3>1, <3>2
  <2> QED
    BY <1>1, <1>3, <2>3, <2>4, <2>6, <2>7
<1> QED
  BY <1>2, <1>3

(* Nothing can be read of a stream of which there is nothing.              *)
LEMMA NothingRead ==
  ASSUME NEW size \in Nat
  PROVE  Stream(<< >>, size) = [ret |-> -DETOOLS_NOT_ENOUGH_PATCH_DATA, used |-> 0, out |-> << >>]
<1>1. << >> \in Seq(Byte) /\ Len(<< >>) = 0
  BY EmptySeq
<1>2. PICK e : e = << >> /\ e \in Seq(Byte) /\ Len(e) = 0
  BY <1>1
<1>3. \A k \in 1 .. 4 : ~IsNumber(e, 1, k)
  BY <1>2 DEF IsNumber
<1>4. ~Number(e, 1).ok /\ Number(e, 1).value = -DETOOLS_NOT_ENOUGH_PATCH_DATA
  BY <1>2, <1>3, NumberMissing
<1>5. Start.kind = "dfpatch_size" /\ Start.next = 1 /\ Start.out = << >>
  BY DEF Start
<1>6. NextSection(e, size, Start) = Ended(Start, -DETOOLS_NOT_ENOUGH_PATCH_DATA)
  BY <1>4, <1>5 DEF NextSection
<1>7. Reached(e, size, Start) /\ Start \in Piece
  BY <1>2, ReachedStart, ReachedType
<1>8. PICK r : r = Ended(Start, -DETOOLS_NOT_ENOUGH_PATCH_DATA)
  OBVIOUS
<1>9. Reached(e, size, r)
  BY <1>2, <1>6, <1>7, <1>8, ReachedNext
<1>10. /\ r.kind = "end" /\ r.next = 1 /\ r.out = << >>
       /\ r.ret = -DETOOLS_NOT_ENOUGH_PATCH_DATA
  <2>1. -DETOOLS_NOT_ENOUGH_PATCH_DATA \in Int
    BY DEF DETOOLS_NOT_ENOUGH_PATCH_DATA
  <2> QED
    BY <1>5, <1>7, <1>8, <2>1, EndedType
<1>11. Stream(e, size) = [ret |-> r.ret, used |-> r.next - 1, out |-> r.out]
  BY <1>2, <1>9, <1>10, ReachedEnd
<1> QED
  BY <1>2, <1>10, <1>11

(* A header that the reference accepts.                                    *)
HeaderGood ==
  patch.type = PATCH_TYPE_SEQUENTIAL /\ patch.head_len <= 5 /\ patch_size >= patch.head_len

(* With a good header the answer is that of the stream, closed.            *)
LEMMA ExpectedClosed ==
  ASSUME InputTypeOK, HeaderGood, patch.to_size > 0,
         patch.heatshrink = HEATSHRINK_STATIC, patch_size > patch.head_len
  PROVE  Expected = Closed(patch, patch_size - patch.head_len - 1, Stream(Plain, patch.to_size))
<1>1. PICK n \in Nat, h \in Nat, z \in Nat :
        n = patch_size /\ h = patch.head_len /\ z = patch.to_size
  BY InputFacts
<1>2. Plain = SubSeq(patch.plain, 1, Upto(patch, n - h - 1))
  <2>1. ~(patch_size <= patch.head_len)
    BY <1>1
  <2> QED
    BY <1>1, <2>1 DEF Plain
<1>3. n > 0 /\ n # 0 /\ ~(n < h) /\ ~(h > 5) /\ z # 0 /\ ~(n - h - 1 < 0)
  BY <1>1 DEF HeaderGood
<1> QED
  BY <1>1, <1>2, <1>3 DEF Expected, Reference, HeaderGood

(* An error of the stream is the answer, and its target the target.        *)
LEMMA ExpectedIs ==
  ASSUME InputTypeOK, HeaderGood, patch.to_size > 0,
         patch.heatshrink = HEATSHRINK_STATIC \/ patch_size = patch.head_len
  PROVE  /\ Expected.out = Stream(Plain, patch.to_size).out
         /\ Stream(Plain, patch.to_size).ret < 0 => Expected.ret = Stream(Plain, patch.to_size).ret
<1>1. PICK n \in Nat, h \in Nat, z \in Nat :
        n = patch_size /\ h = patch.head_len /\ z = patch.to_size
  BY InputFacts
<1>2. CASE n > h
  <2>1. Expected = Closed(patch, n - h - 1, Stream(Plain, z))
    BY <1>1, <1>2, ExpectedClosed
  <2>2. \E a, b, c : Stream(Plain, z) = [ret |-> a, used |-> b, out |-> c]
    BY DEF Stream
  <2> QED
    BY <1>1, <2>1, <2>2 DEF Closed
<1>3. CASE ~(n > h)
  <2>1. Plain = << >>
    BY <1>1, <1>3, PlainFacts
  <2>2. Stream(Plain, z) = [ret |-> -DETOOLS_NOT_ENOUGH_PATCH_DATA, used |-> 0, out |-> << >>]
    BY <2>1, NothingRead
  <2>3. n > 0 /\ n # 0 /\ ~(n < h) /\ ~(h > 5) /\ z # 0 /\ n - h - 1 < 0
    BY <1>1, <1>3, InputFacts, PatchesAssumption DEF HeaderGood, Patch
  <2>4. Expected = Answer(-DETOOLS_NOT_ENOUGH_PATCH_DATA)
    BY <1>1, <2>3 DEF Expected, Reference, HeaderGood
  <2> QED
    BY <1>1, <2>2, <2>4 DEF Answer
<1> QED
  BY <1>2, <1>3

(* A stream has a target,                                                  *)
LEMMA StreamType ==
  ASSUME NEW s \in Seq(Byte), NEW size \in Nat
  PROVE  Stream(s, size).out \in Seq(Byte)
BY ReachedStart, ReachedOut

(* and so has every patch, which begins with nothing.                      *)
LEMMA ExpectedType ==
  ASSUME InputTypeOK
  PROVE  Expected.out \in Seq(Byte) /\ Begins(<< >>, Expected.out)
<1>1. Expected.out \in Seq(Byte)
  <2>1. << >> \in Seq(Byte)
    BY EmptySeq
  <2>2. \A e : Expected = Answer(e) => Expected.out = << >>
    BY DEF Answer
  <2> DEFINE s == SubSeq(patch.plain, 1, Upto(patch, patch_size - patch.head_len - 1))
             a == Stream(s, patch.to_size)
             c == Closed(patch, patch_size - patch.head_len - 1, a)
  <2>3. (\E e : Expected = Answer(e)) \/ (~(patch_size - patch.head_len - 1 < 0) /\ Expected = c)
    <3>1. patch_size = 0 \/ patch_size > 0
      BY InputFacts
    <3> HIDE DEF c
    <3>2. c = Closed(patch, patch_size - patch.head_len - 1, a)
      BY DEF c
    <3> QED
      BY <3>1, <3>2 DEF Expected, Reference
  <2>4. CASE ~(patch_size - patch.head_len - 1 < 0) /\ Expected = c
    <3>1. Plain = s
      <4>1. PICK n \in Nat, h \in Nat : n = patch_size /\ h = patch.head_len
        BY InputFacts
      <4>2. ~(n <= h)
        BY <2>4, <4>1
      <4> QED
        BY <4>1, <4>2 DEF Plain
    <3>2. a.out \in Seq(Byte)
      BY <3>1, PlainFacts, InputFacts, StreamType
    <3>3. \E x, y, z : a = [ret |-> x, used |-> y, out |-> z]
      BY DEF Stream
    <3> HIDE DEF a
    <3>4. c.out = a.out
      BY <3>3 DEF Closed
    <3> QED
      BY <2>4, <3>2, <3>4
  <2> QED
    BY <2>1, <2>2, <2>3, <2>4
<1>2. Len(Expected.out) \in Nat /\ Len(<< >>) = 0
  BY <1>1, LenProperties, EmptySeq
<1> QED
  BY <1>1, <1>2 DEF Begins

-----------------------------------------------------------------------------
(***************************************************************************)
(* What a step keeps, and what a call of decompress adds.                  *)
(***************************************************************************)
LEMMA ExpectedKept ==
  ASSUME UNCHANGED << patch, patch_size >>
  PROVE  Expected' = Expected /\ Plain' = Plain
BY DEF Expected, Plain

(* Agreement only depends on the patch and on the target.                  *)
LEMMA AgreesKept ==
  ASSUME UNCHANGED << patch, patch_size, out >>
  PROVE  \A e : Agrees(e)' <=> Agrees(e)
BY ExpectedKept DEF Agrees

(* Polled, as far as the plain stream is concerned.                        *)
LEMMA PolledMore ==
  ASSUME TypeOK, Drained, NEW n \in Nat \ {0}, NEW left \in Nat, NEW r, NEW got,
         Polled(n, left, r, got), sunk + left <= Len(patch.upto), UNCHANGED patch
  PROVE  /\ r = 1 => got = 0 /\ Upto(patch, sunk') = taken
         /\ r = 0 => \A i \in 0 .. sunk' - 1 : Upto(patch, i) < taken + n
         /\ Drained'
<1>1. PICK used \in 0 .. left :
        /\ \A j \in 0 .. used - 1 : ~Enough(n, j)
        /\ \/ Enough(n, used) /\ got = n
           \/ ~Enough(n, used) /\ used = left /\ got = Held(used)
        /\ r = PolledResult(got)
        /\ chunk_left' = left - used
        /\ sunk' = sunk + used
        /\ taken' = taken + got
  BY DEF Polled
<1>2. /\ patch \in Patches /\ sunk \in 0 .. Len(patch.upto)
      /\ taken \in 0 .. Upto(patch, sunk) /\ Len(patch.upto) \in Nat
  BY PatchFacts DEF TypeOK, InputTypeOK, ReaderTypeOK
<1>3. sunk + used \in 0 .. Len(patch.upto)
  BY <1>2
<1>4. \A i \in 0 .. sunk + used : Upto(patch, i) \in Nat /\ Upto(patch, i) <= Upto(patch, sunk + used)
  <2>1. ASSUME NEW i \in 0 .. sunk + used
        PROVE  Upto(patch, i) \in Nat /\ Upto(patch, i) <= Upto(patch, sunk + used)
    <3>1. i \in 0 .. Len(patch.upto) /\ i <= sunk + used
      BY <1>2, <1>3, <2>1
    <3> QED
      BY <1>2, <1>3, <3>1, UptoGrows, PatchFacts
  <2> QED
    BY <2>1
<1>5. PICK a \in Nat : a = Upto(patch, sunk + used)
  BY <1>2, <1>4
<1>6. PICK t \in Nat, s \in Nat : t = taken /\ s = sunk
  <2>1. sunk \in 0 .. sunk + used
    BY <1>2
  <2> QED
    BY <1>2, <1>4, <2>1
<1>7. \/ a - t >= n /\ got = n
      \/ ~(a - t >= n) /\ used = left /\ got = a - t
  BY <1>1, <1>5, <1>6 DEF Enough, Held
<1>8. got \in Nat /\ (r = 1 => got = 0) /\ t + got <= a
  <2>1. t <= Upto(patch, s) /\ Upto(patch, s) <= a /\ Upto(patch, s) \in Nat
    <3>1. s \in 0 .. sunk + used
      BY <1>2, <1>6
    <3>2. taken <= Upto(patch, sunk)
      <4> DEFINE u == Upto(patch, sunk)
      <4>1. u \in Nat /\ taken \in 0 .. u
        BY <1>2, <1>4, <1>6, <3>1
      <4> QED
        BY <4>1
    <3> QED
      BY <1>4, <1>5, <1>6, <3>1, <3>2
  <2>2. got \in Nat /\ t + got <= a
    BY <1>7, <2>1
  <2> QED
    BY <1>1, <2>2 DEF PolledResult
<1>9. r = 1 => a = t
  BY <1>7, <1>8
<1>10. \A i \in 0 .. s + used - 1 : Upto(patch, i) < t + n \/ Upto(patch, i) <= t
  <2>1. ASSUME NEW i \in 0 .. s + used - 1
        PROVE  Upto(patch, i) < t + n \/ Upto(patch, i) <= t
    <3>1. CASE i < s
      <4>1. i \in 0 .. sunk - 1
        BY <1>6, <3>1, <2>1
      <4> QED
        BY <1>6, <4>1 DEF Drained
    <3>2. CASE ~(i < s)
      <4>1. i - s \in 0 .. used - 1 /\ s + (i - s) = i
        BY <1>1, <1>6, <3>2, <2>1
      <4>2. ~(Upto(patch, i) - t >= n)
        BY <1>1, <1>6, <4>1 DEF Enough, Held
      <4>3. Upto(patch, i) \in Nat
        <5>1. i \in 0 .. sunk + used
          BY <1>2, <1>6
        <5> QED
          BY <1>4, <5>1
      <4> QED
        BY <4>2, <4>3
    <3> QED
      BY <3>1, <3>2
  <2> QED
    BY <2>1
<1>11. \A i \in 0 .. s + used - 1 : Upto(patch, i) \in Nat /\ Upto(patch, i) <= a
  BY <1>1, <1>4, <1>5, <1>6
<1>12. Drained'
  <2>1. sunk' = s + used /\ taken' = t + got /\ patch' = patch
    BY <1>1, <1>6
  <2>2. \A i \in 0 .. s + used - 1 : Upto(patch, i) <= t + got
    BY <1>7, <1>8, <1>10, <1>11
  <2>3. \A i \in 0 .. sunk' - 1 : Upto(patch', i) <= taken'
    BY <2>1, <2>2
  <2> QED
    BY <2>3 DEF Drained, Upto
<1>13. r = 0 => \A i \in 0 .. s + used - 1 : Upto(patch, i) < t + n
  BY <1>10, <1>11
<1> QED
  BY <1>1, <1>5, <1>6, <1>8, <1>9, <1>12, <1>13

(* The same of decompress.                                                 *)
LEMMA DecompressMore ==
  ASSUME IInv, Begun, Drained, state \notin {"init", "failed"},
         NEW n \in Nat \ {0}, NEW r, NEW got, Decompress(n, r, got),
         UNCHANGED << patch, patch_size, patch_offset >>
  PROVE  /\ r \in {0, 1, -DETOOLS_HEATSHRINK_HEADER} /\ taken' = taken + got
         /\ Drained'
         /\ r # -DETOOLS_HEATSHRINK_HEADER /\ window_known' => patch.heatshrink = HEATSHRINK_STATIC
         /\ r = 0 => /\ got \in 1 .. n /\ taken + got <= Len(Plain)
                     /\ patch.heatshrink = HEATSHRINK_STATIC
                     /\ \A i \in 0 .. sunk' - 1 : Upto(patch, i) < taken + n
         /\ r = 1 => got = 0
         /\ r = 1 /\ patch_offset = patch_size =>
              /\ taken = Len(Plain)
              /\ patch.heatshrink = HEATSHRINK_STATIC \/ patch_size = patch.head_len
         /\ r = -DETOOLS_HEATSHRINK_HEADER =>
              /\ patch.heatshrink # HEATSHRINK_STATIC
              /\ patch_size > patch.head_len
<1>1. TypeOK /\ Accounted /\ InputTypeOK
  BY DEF IInv, TypeOK
<1>2. PICK h \in Nat, z \in Nat, l \in Nat, c \in Nat, o \in Nat :
        /\ h = patch.head_len /\ z = patch_size /\ l = Len(patch.upto)
        /\ c = chunk_left /\ o = patch_offset /\ o <= z
  <2>1. patch.head_len \in Nat /\ patch_size \in Nat /\ Len(patch.upto) \in Nat
    BY <1>1, InputFacts
  <2>2. patch_offset \in Nat /\ patch_offset <= patch_size
    <3>1. patch_offset \in 0 .. patch_size
      BY <1>1 DEF InputTypeOK
    <3> QED
      BY <2>1, <3>1
  <2>3. chunk_left \in Nat
    BY <1>1, ChunkAssumption DEF TypeOK, ReaderTypeOK
  <2>4. PICK z \in Nat, o \in Nat : z = patch_size /\ o = patch_offset /\ o <= z
    BY <2>1, <2>2
  <2>5. PICK h \in Nat, l \in Nat, c \in Nat :
          h = patch.head_len /\ l = Len(patch.upto) /\ c = chunk_left
    BY <2>1, <2>3
  <2> QED
    BY <2>4, <2>5
<1>3. /\ Handed(n, r, got) /\ r \in {0, 1, -DETOOLS_HEATSHRINK_HEADER}
      /\ window_known' \in BOOLEAN /\ (~window_known' => sunk' = 0 /\ taken' = 0)
      /\ sunk' \in 0 .. l
      /\ taken + got \in 0 .. Upto(patch, sunk')
      /\ \E used \in 0 .. chunk_left :
           /\ chunk_left' = chunk_left - used
           /\ Compressed' = Compressed + used
           /\ r = 1 => used = chunk_left
  BY <1>1, <1>2, DecompressFacts
<1>4. window_known \in BOOLEAN /\ sunk \in 0 .. l /\ taken \in 0 .. Upto(patch, sunk)
  BY <1>1, <1>2 DEF TypeOK, ReaderTypeOK
<1>5. o = c + Compressed + h /\ Compressed \in Nat
  BY <1>1, <1>2, <1>4 DEF Accounted, Compressed
<1>6. sunk + (IF window_known THEN c ELSE c - 1) <= l /\ c + Compressed + h = o
      /\ (window_known => Compressed = 1 + sunk) /\ (~window_known => sunk = 0 /\ taken = 0 /\ Compressed = 0)
  <2>1. Compressed + c <= 1 + l
    BY <1>1, <1>2, SunkBound
  <2> QED
    BY <1>1, <1>2, <1>4, <1>5, <2>1 DEF Compressed, Accounted
<1>7. /\ Drained'
      /\ r # -DETOOLS_HEATSHRINK_HEADER /\ window_known' => patch.heatshrink = HEATSHRINK_STATIC
      /\ r = 0 => window_known' /\ \A i \in 0 .. sunk' - 1 : Upto(patch, i) < taken + n
      /\ r = 1 => got = 0 /\ (window_known' => Upto(patch, sunk') = taken)
      /\ r = -DETOOLS_HEATSHRINK_HEADER =>
           patch.heatshrink # HEATSHRINK_STATIC /\ c > 0 /\ ~window_known
  <2>1. CASE window_known /\ Polled(n, chunk_left, r, got) /\ UNCHANGED window_known
    <3>1. r # -DETOOLS_HEATSHRINK_HEADER
      BY <2>1 DEF Polled, PolledResult, DETOOLS_HEATSHRINK_HEADER
    <3>2. sunk + chunk_left <= Len(patch.upto) /\ chunk_left \in Nat
      BY <1>2, <1>6, <2>1
    <3>3. /\ r = 1 => got = 0 /\ Upto(patch, sunk') = taken
          /\ r = 0 => \A i \in 0 .. sunk' - 1 : Upto(patch, i) < taken + n
          /\ Drained'
      BY <1>1, <2>1, <3>2, PolledMore
    <3>4. patch.heatshrink = HEATSHRINK_STATIC /\ window_known'
      BY <2>1 DEF Begun
    <3> QED
      BY <3>1, <3>3, <3>4
  <2>2. CASE /\ ~window_known /\ chunk_left = 0
             /\ r = 1 /\ got = 0
             /\ UNCHANGED << window_known, chunk_left, sunk, taken >>
    <3>1. Drained'
      BY <2>2 DEF Drained, Upto
    <3> QED
      BY <2>2, <3>1 DEF DETOOLS_HEATSHRINK_HEADER
  <2>3. CASE /\ ~window_known /\ chunk_left > 0 /\ window_known' = TRUE
             /\ patch.heatshrink = HEATSHRINK_STATIC
             /\ Polled(n, chunk_left - 1, r, got)
    <3>1. r # -DETOOLS_HEATSHRINK_HEADER
      BY <2>3 DEF Polled, PolledResult, DETOOLS_HEATSHRINK_HEADER
    <3>2. sunk + (chunk_left - 1) <= Len(patch.upto) /\ chunk_left - 1 \in Nat
      BY <1>2, <1>6, <2>3
    <3>3. /\ r = 1 => got = 0 /\ Upto(patch, sunk') = taken
          /\ r = 0 => \A i \in 0 .. sunk' - 1 : Upto(patch, i) < taken + n
          /\ Drained'
      <4>1. PICK k \in Nat : k = chunk_left - 1
        BY <3>2
      <4> QED
        BY <1>1, <2>3, <3>2, <4>1, PolledMore
    <3> QED
      BY <2>3, <3>1, <3>3
  <2>4. CASE /\ ~window_known /\ chunk_left > 0 /\ window_known' = TRUE
             /\ patch.heatshrink # HEATSHRINK_STATIC
             /\ r = -DETOOLS_HEATSHRINK_HEADER /\ got = 0
             /\ UNCHANGED << sunk, taken >>
    <3>1. Drained'
      BY <2>4 DEF Drained, Upto
    <3> QED
      BY <1>2, <2>4, <3>1 DEF DETOOLS_HEATSHRINK_HEADER
  <2> QED
    BY <2>1, <2>2, <2>3, <2>4 DEF Decompress
<1>8. PICK s \in 0 .. l : s = sunk'
  BY <1>3
<1>9. PICK used \in 0 .. c : Compressed' = Compressed + used /\ (r = 1 => used = c)
  BY <1>2, <1>3
<1>10. window_known' => 1 + s = Compressed + used
  BY <1>8, <1>9 DEF Compressed
<1>11. window_known' => s <= z - h - 1 /\ z > h
  <2>1. PICK d \in Nat : d = Compressed
    BY <1>5
  <2> QED
    BY <1>2, <1>5, <1>9, <1>10, <2>1
<1>12. ASSUME r = 0
       PROVE  got \in 1 .. n /\ taken + got <= Len(Plain)
  <2>1. Len(Plain) = Upto(patch, z - h - 1)
    BY <1>1, <1>2, <1>7, <1>11, <1>12, PlainFacts
  <2>2. Upto(patch, s) <= Upto(patch, z - h - 1) /\ Upto(patch, s) \in Nat
        /\ Upto(patch, z - h - 1) \in Nat
    <3>1. z - h - 1 \in 0 .. l /\ s <= z - h - 1 /\ patch \in Patches
      BY <1>1, <1>2, <1>7, <1>11, <1>12, InputFacts
    <3>2. Upto(patch, s) <= Upto(patch, z - h - 1)
      BY <1>2, <3>1, UptoGrows
    <3>3. Upto(patch, s) \in Nat /\ Upto(patch, z - h - 1) \in Nat
      <4>1. /\ Len(patch.plain) \in Nat
            /\ \A j \in 0 .. l : Upto(patch, j) \in 0 .. Len(patch.plain)
        BY <1>2, <3>1, PatchFacts
      <4> QED
        BY <3>1, <4>1
    <3> QED
      BY <3>2, <3>3
  <2>3. PICK a \in Nat, b \in Nat : a = Upto(patch, s) /\ b = Len(Plain) /\ a <= b
    BY <2>1, <2>2
  <2>4. taken + got \in 0 .. a
    BY <1>3, <1>8, <2>3
  <2> QED
    BY <1>3, <1>12, <2>3, <2>4 DEF Handed
<1>13. ASSUME r = 1, patch_offset = patch_size
       PROVE  taken = Len(Plain) /\ (patch.heatshrink = HEATSHRINK_STATIC \/ patch_size = patch.head_len)
  <2>1. CASE window_known'
    <3>1. s = z - h - 1 /\ z > h
      <4>1. PICK d \in Nat : d = Compressed
        BY <1>5
      <4>2. 1 + s = d + c /\ z = c + d + h
        BY <1>2, <1>5, <1>9, <1>10, <1>13, <2>1, <4>1
      <4> QED
        BY <4>2
    <3>2. Len(Plain) = Upto(patch, z - h - 1)
      BY <1>1, <1>2, <3>1, PlainFacts
    <3> QED
      BY <1>7, <1>8, <1>13, <2>1, <3>1, <3>2 DEF DETOOLS_HEATSHRINK_HEADER
  <2>2. CASE ~window_known'
    <3>1. Compressed' = 0 /\ taken' = 0
      BY <1>3, <2>2 DEF Compressed
    <3>2. z = h
      <4>1. PICK d \in Nat : d = Compressed
        BY <1>5
      <4>2. 0 = d + c /\ z = c + d + h
        BY <1>2, <1>5, <1>9, <1>13, <3>1, <4>1
      <4> QED
        BY <4>2
    <3>3. Len(Plain) = 0
      BY <1>1, <1>2, <3>2, PlainFacts
    <3>4. taken = 0
      <4>1. ~window_known
        BY <2>2 DEF Decompress
      <4> QED
        BY <1>6, <4>1
    <3> QED
      BY <1>2, <3>2, <3>3, <3>4
  <2> QED
    BY <2>1, <2>2
<1>14. r = -DETOOLS_HEATSHRINK_HEADER => patch_size > patch.head_len
  BY <1>2, <1>5, <1>6, <1>7
<1> QED
  <2>1. r = 0 => window_known' /\ r # -DETOOLS_HEATSHRINK_HEADER
    BY <1>7 DEF DETOOLS_HEATSHRINK_HEADER
  <2>2. taken' = taken + got
    BY <1>3 DEF Handed
  <2>3. r = 0 => patch.heatshrink = HEATSHRINK_STATIC
    BY <1>7, <2>1
  <2> QED
    BY <1>3, <1>7, <1>12, <1>13, <1>14, <2>2, <2>3

(* What the engine knows once it has read a good header.                   *)
LEMMA BegunFacts ==
  ASSUME IInv, Begun, state \notin {"init", "failed", "done"}
  PROVE  /\ InputTypeOK /\ HeaderGood
         /\ to_size = patch.to_size /\ to_size \in Nat /\ patch.to_size > 0
         /\ Plain \in Seq(Byte) /\ Len(Plain) \in Nat
         /\ taken \in Nat /\ taken <= Len(Plain)
         /\ taken > 0 => patch.heatshrink = HEATSHRINK_STATIC
<1>1. InputTypeOK /\ TypeOK /\ Accounted
  BY DEF IInv, TypeOK
<1>2. to_size = patch.to_size /\ to_size \in Nat /\ patch.to_size > 0
  BY DEF IInv, Exact, TypeOK, TargetTypeOK, Begun
<1>3. HeaderGood
  BY DEF Begun, HeaderGood
<1>4. Plain \in Seq(Byte) /\ Len(Plain) \in Nat
  BY <1>1, PlainFacts, LenProperties
<1>5. PICK h \in Nat, z \in Nat, l \in Nat :
        /\ h = patch.head_len /\ z = patch_size /\ l = Len(patch.upto)
        /\ patch \in Patches /\ z - h - 1 <= l
  BY <1>1, InputFacts
<1>6. window_known \in BOOLEAN /\ sunk \in 0 .. l /\ taken \in 0 .. Upto(patch, sunk)
  BY <1>1, <1>5 DEF TypeOK, ReaderTypeOK
<1>7. PICK s \in 0 .. l, u \in Nat : s = sunk /\ u = Upto(patch, sunk)
  BY <1>5, <1>6, PatchFacts
<1>8. taken \in 0 .. u
  BY <1>6, <1>7
<1>9. CASE ~window_known
  <2>1. taken = 0
    BY <1>1, <1>9 DEF Accounted
  <2> QED
    BY <1>1, <1>2, <1>3, <1>4, <2>1
<1>10. CASE window_known
  <2>1. PICK o \in Nat, c \in Nat : o = patch_offset /\ c = chunk_left /\ o <= z
    <3>1. patch_offset \in 0 .. z
      BY <1>1, <1>5 DEF InputTypeOK
    <3>2. chunk_left \in 0 .. CHUNK_BUF
      BY <1>1 DEF TypeOK, ReaderTypeOK
    <3>3. CHUNK_BUF \in Nat
      BY ChunkAssumption
    <3> QED
      BY <1>5, <3>1, <3>2, <3>3
  <2>2. o = c + (1 + s) + h
    BY <1>1, <1>5, <1>7, <1>10, <2>1 DEF Accounted, Compressed
  <2>3. z > h /\ s <= z - h - 1 /\ z - h - 1 \in 0 .. l
    BY <1>5, <2>1, <2>2
  <2>4. Len(Plain) = Upto(patch, z - h - 1)
    BY <1>1, <1>5, <2>3, PlainFacts
  <2>5. Upto(patch, s) <= Upto(patch, z - h - 1)
    BY <1>5, <2>3, UptoGrows
  <2>6. PICK b \in Nat : b = Len(Plain) /\ u <= b
    BY <1>4, <1>7, <2>4, <2>5
  <2>7. taken \in Nat /\ taken <= b
    BY <1>8, <2>6
  <2>8. patch.heatshrink = HEATSHRINK_STATIC
    BY <1>10 DEF Begun
  <2> QED
    BY <1>1, <1>2, <1>3, <1>4, <2>6, <2>7, <2>8
<1> QED
  BY <1>6, <1>9, <1>10

(* Where the reading of the reference ends with an error, so does it.      *)
LEMMA EndAgrees ==
  ASSUME IInv, Begun, state \notin {"init", "failed", "done"},
         patch.heatshrink = HEATSHRINK_STATIC \/ patch_size = patch.head_len,
         NEW r, Reached(Plain, to_size, r), r.kind = "end", r.ret < 0, r.out = out
  PROVE  Agrees(r.ret)
<1>1. /\ InputTypeOK /\ HeaderGood
      /\ to_size = patch.to_size /\ to_size \in Nat /\ patch.to_size > 0
      /\ Plain \in Seq(Byte)
  BY BegunFacts
<1>2. Stream(Plain, to_size) = [ret |-> r.ret, used |-> r.next - 1, out |-> r.out]
  BY <1>1, ReachedEnd
<1>3. Stream(Plain, to_size).ret = r.ret /\ Stream(Plain, to_size).out = r.out
  BY <1>2
<1>4. /\ Expected.out = Stream(Plain, patch.to_size).out
      /\ Stream(Plain, patch.to_size).ret < 0 => Expected.ret = Stream(Plain, patch.to_size).ret
  BY <1>1, ExpectedIs
<1>5. Expected.ret = r.ret /\ Expected.out = r.out
  BY <1>1, <1>3, <1>4
<1> QED
  BY <1>5 DEF Agrees

(* What is written of a section agrees with a write that fails.            *)
LEMMA PartAgrees ==
  ASSUME IInv, Begun, state \notin {"init", "failed", "done"},
         patch.heatshrink = HEATSHRINK_STATIC \/ patch_size = patch.head_len,
         NEW r, Reached(Plain, to_size, r), NEW o \in Seq(Byte),
         LET q == NextSection(Plain, to_size, r)
         IN  (q.kind = "end" /\ q.ret = -DETOOLS_IO_FAILED) \/ Begins(o, q.out)
  PROVE  Begins(o, Expected.out) \/ Expected.ret = -DETOOLS_IO_FAILED
<1>1. /\ InputTypeOK /\ HeaderGood
      /\ to_size = patch.to_size /\ to_size \in Nat /\ patch.to_size > 0
      /\ Plain \in Seq(Byte)
  BY BegunFacts
<1>2. PICK q : q = NextSection(Plain, to_size, r)
  OBVIOUS
<1>3. Reached(Plain, to_size, q) /\ q \in Piece
  BY <1>1, <1>2, ReachedNext, ReachedType
<1>4. /\ Expected.out = Stream(Plain, patch.to_size).out
      /\ Stream(Plain, patch.to_size).ret < 0 => Expected.ret = Stream(Plain, patch.to_size).ret
  BY <1>1, ExpectedIs
<1>5. CASE q.kind = "end" /\ q.ret = -DETOOLS_IO_FAILED
  <2>1. Stream(Plain, to_size) = [ret |-> q.ret, used |-> q.next - 1, out |-> q.out]
    BY <1>1, <1>3, <1>5, ReachedEnd
  <2>2. Stream(Plain, to_size).ret = -DETOOLS_IO_FAILED
    BY <1>5, <2>1
  <2>3. -DETOOLS_IO_FAILED < 0
    BY DEF DETOOLS_IO_FAILED
  <2> QED
    BY <1>1, <1>4, <2>2, <2>3
<1>6. CASE Begins(o, q.out)
  <2>1. Begins(q.out, Stream(Plain, to_size).out) /\ Stream(Plain, to_size).out \in Seq(Byte)
    BY <1>1, <1>3, ReachedOut
  <2>2. q.out \in Seq(Byte)
    BY <1>3 DEF Piece
  <2>3. Begins(o, Stream(Plain, to_size).out)
    BY <1>6, <2>1, <2>2, BeginsOn
  <2> QED
    BY <1>1, <1>4, <2>3
<1> QED
  BY <1>2, <1>5, <1>6

(* A stream that is no heatshrink stream is refused before all of it.      *)
LEMMA RefusalAgrees ==
  ASSUME IInv, Begun, state \notin {"init", "failed", "done"}, Agrees(-DETOOLS_IO_FAILED),
         patch.heatshrink # HEATSHRINK_STATIC, patch_size > patch.head_len
  PROVE  Agrees(-DETOOLS_HEATSHRINK_HEADER)
<1>1. /\ InputTypeOK /\ HeaderGood /\ patch.to_size > 0
  BY BegunFacts
<1>2. PICK n \in Nat, h \in Nat, z \in Nat :
        n = patch_size /\ h = patch.head_len /\ z = patch.to_size
  BY <1>1, InputFacts
<1>3. n > 0 /\ n # 0 /\ ~(n < h) /\ ~(h > 5) /\ z # 0 /\ ~(n - h - 1 < 0)
  BY <1>1, <1>2 DEF HeaderGood
<1>4. Expected = Answer(-DETOOLS_HEATSHRINK_HEADER)
  BY <1>1, <1>2, <1>3 DEF Expected, Reference, HeaderGood
<1>5. Expected.out = << >> /\ Expected.ret = -DETOOLS_HEATSHRINK_HEADER
  BY <1>4 DEF Answer
<1>6. Begins(out, Expected.out)
  BY <1>5 DEF Agrees, DETOOLS_IO_FAILED, DETOOLS_HEATSHRINK_HEADER
<1>7. out \in Seq(Byte)
  BY DEF IInv, TypeOK, TargetTypeOK
<1>8. Len(out) = 0
  <2>1. Len(out) \in Nat /\ Len(<< >>) = 0
    BY <1>7, LenProperties, EmptySeq
  <2> QED
    BY <1>5, <1>6, <2>1 DEF Begins
<1>9. out = << >>
  BY <1>7, <1>8, EmptySeq
<1> QED
  BY <1>5, <1>9 DEF Agrees

-----------------------------------------------------------------------------
(***************************************************************************)
(* What the loops are told of a handler: it fails, goes on or stalls.      *)
(***************************************************************************)
LEMMA ReportedFails ==
  ASSUME Reported, Processing, pc \in {"process", "finalize"},
         UNCHANGED << patch, patch_size, patch_offset, pc, cb_res, out >>,
         NEW e \in Nat \ {0, DETOOLS_ALREADY_DONE}, Failed(e),
         cb_res = 0 => Agrees(-e)
  PROVE  Reported'
<1>1. \A a : Agrees(a)' <=> Agrees(a)
  BY AgreesKept
<1>2. PICK d \in Int : d = -e /\ d # 0 /\ d # 1 /\ d # -DETOOLS_ALREADY_DONE /\ res' = d
  BY DEF Failed, DETOOLS_ALREADY_DONE
<1>3. FinalResult' = d
  BY <1>2 DEF FinalResult
<1>4. /\ state' = "failed" /\ call' = "none" /\ pc' = pc /\ cb_res' = cb_res
      /\ patch_offset' = patch_offset /\ patch_size' = patch_size
  BY DEF Failed
<1>5. Agrees(-DETOOLS_IO_FAILED) /\ (cb_res # 0 => Agrees(cb_res))
      /\ (pc = "finalize" /\ cb_res = 0 => patch_offset = patch_size)
  BY DEF Reported
<1>6. cb_res = 0 => Agrees(d)
  BY <1>2
<1>7. Agrees(-DETOOLS_IO_FAILED)' /\ (cb_res # 0 => Agrees(cb_res)') /\ (cb_res = 0 => Agrees(d)')
  <2>1. Agrees(-DETOOLS_IO_FAILED)'
    BY <1>1, <1>5
  <2>2. cb_res # 0 => Agrees(cb_res)'
    <3>1. Expected' = Expected /\ out' = out
      BY ExpectedKept
    <3> QED
      BY <1>4, <1>5, <3>1 DEF Agrees
  <2>3. cb_res = 0 => Agrees(d)'
    BY <1>1, <1>6
  <2> QED
    BY <2>1, <2>2, <2>3
<1>8. pc = "process" => cb_res = 0
  BY DEF Processing
<1> QED
  BY <1>2, <1>3, <1>4, <1>5, <1>7, <1>8 DEF Reported

(* A step that goes well, with a target that is still how it begins,       *)
LEMMA ReportedGoes ==
  ASSUME Reported, IInv, pc \in {"process", "finalize"}, state # "failed",
         UNCHANGED << patch, patch_size, patch_offset, pc, cb_res >>,
         res' = 0 \/ (res' = res /\ (Once \/ call # "none")), state' # "failed",
         Begins(out', Expected.out) \/ Expected.ret = -DETOOLS_IO_FAILED
  PROVE  Reported'
<1>1. Expected' = Expected /\ patch_size' = patch_size /\ patch_offset' = patch_offset
      /\ pc' = pc /\ cb_res' = cb_res
  BY ExpectedKept
<1>2. Agrees(-DETOOLS_IO_FAILED)'
  BY <1>1 DEF Agrees
<1>3. cb_res # 0 => cb_res = -DETOOLS_IO_FAILED
  BY DEF Reported
<1>4. pc = "finalize" /\ cb_res = 0 => patch_offset = patch_size /\ res' = 0
  BY DEF Reported, Once
<1>5. ~(res' < 0)
  BY DEF IInv, Phases
<1>6. cb_res # 0 => Agrees(cb_res)'
  BY <1>1, <1>2, <1>3 DEF Agrees
<1> QED
  BY <1>1, <1>2, <1>3, <1>4, <1>5, <1>6 DEF Reported

(* and a stall, which is an error only when all of the patch was read.     *)
LEMMA ReportedStalls ==
  ASSUME Reported, IInv, pc \in {"process", "finalize"}, state # "failed",
         UNCHANGED << patch, patch_size, patch_offset, pc, cb_res, out >>,
         Stalled,
         patch_offset = patch_size => Agrees(-DETOOLS_NOT_ENOUGH_PATCH_DATA)
  PROVE  Reported'
<1>1. Expected' = Expected /\ patch_size' = patch_size /\ patch_offset' = patch_offset
      /\ pc' = pc /\ cb_res' = cb_res /\ out' = out
      /\ state' = state /\ call' = "none" /\ res' = 1
  BY ExpectedKept DEF Stalled
<1>2. Agrees(-DETOOLS_IO_FAILED)'
  BY <1>1 DEF Agrees, Reported
<1>3. cb_res # 0 => cb_res = -DETOOLS_IO_FAILED
  BY DEF Reported
<1>4. pc = "finalize" /\ cb_res = 0 => patch_offset = patch_size
  BY DEF Reported
<1>5. FinalResult' = -DETOOLS_NOT_ENOUGH_PATCH_DATA
  BY <1>1 DEF FinalResult, DETOOLS_ALREADY_DONE
<1>6. cb_res # 0 => Agrees(cb_res)'
  BY <1>1, <1>2, <1>3 DEF Agrees
<1>7. patch_offset = patch_size => Agrees(FinalResult)'
  BY <1>1, <1>5 DEF Agrees
<1> QED
  BY <1>1, <1>2, <1>3, <1>4, <1>6, <1>7 DEF Reported

-----------------------------------------------------------------------------
(***************************************************************************)
(* The outer loops: the engine stays where it is.                          *)
(***************************************************************************)
LEMMA PlaceKept ==
  ASSUME Follows, Drained,
         UNCHANGED << patch, patch_size, state, call, reader_vars, to_size, chunk_size,
                      out, seek, from_pos, buf >>
  PROVE  Follows' /\ Drained'
<1>1. Plain' = Plain
  BY ExpectedKept
<1>2. /\ patch' = patch /\ state' = state /\ call' = call /\ window_known' = window_known
      /\ sunk' = sunk /\ taken' = taken /\ usize' = usize /\ to_size' = to_size
      /\ chunk_size' = chunk_size /\ out' = out /\ seek' = seek /\ from_pos' = from_pos
      /\ buf' = buf
  BY DEF reader_vars
<1>3. Drained' /\ (NumberDrained' <=> NumberDrained)
  BY <1>2 DEF Drained, NumberDrained, Upto
<1>4. \A num : Written(num)' = Written(num)
  BY <1>2 DEF Written
<1>5. ASSUME NEW r, At(r)
      PROVE  At(r)'
  <2>1. InNumber(r) => InNumber(r)'
    BY <1>1, <1>2 DEF InNumber, NumberHeld
  <2>2. InSeek(r) => InSeek(r)'
    BY <1>1, <1>2, <1>3 DEF InSeek
  <2>3. InSection(r) => InSection(r)'
    BY <1>1, <1>2, <1>4 DEF InSection, Written
  <2>4. AtEnd(r) => AtEnd(r)'
    BY <1>2, <1>3 DEF AtEnd
  <2> QED
    BY <1>2, <1>5, <2>1, <2>2, <2>3, <2>4 DEF At
<1>6. Follows'
  BY <1>1, <1>2, <1>5 DEF Follows
<1> QED
  BY <1>3, <1>6

(* The loops of process and finalize (detools.c:759-836).                  *)
LEMMA LoopsMatch ==
  ASSUME Matching, (\E r : PatchRead(r)) \/ ProcessEnd \/ FinalizeStart \/ Finalize
  PROVE  (Reported /\ Begun /\ Drained /\ Follows)'
<1>1. IInv /\ Processing /\ FailureKnown /\ Reported /\ Begun /\ Drained /\ Follows
  BY DEF Matching
<1>2. /\ UNCHANGED << patch, patch_size, state, call, reader_vars, to_size, chunk_size,
                      out, seek, from_pos, buf, usize, window_known >>
  BY DEF PatchRead, ProcessEnd, FinalizeStart, Finalize, input_vars, reader_vars,
         target_vars, source_vars
<1>3. Follows' /\ Drained'
  BY <1>1, <1>2, PlaceKept
<1>4. \A a : Agrees(a)' <=> Agrees(a)
  BY <1>2, AgreesKept
<1>5. Expected' = Expected /\ out' = out /\ state' = state /\ call' = call
  BY <1>2, ExpectedKept
<1>6. patch_offset \in Int /\ patch_size \in Int /\ patch_offset <= patch_size
  <2>1. InputTypeOK
    BY <1>1 DEF IInv, TypeOK
  <2>2. patch_size \in Nat /\ patch_offset \in 0 .. patch_size
    BY <2>1, InputFacts DEF InputTypeOK
  <2> QED
    BY <2>2
<1>7. /\ Phases /\ Accounted
  BY <1>1 DEF IInv
<1>8. ASSUME NEW r, PatchRead(r)
      PROVE  Reported' /\ Begun'
  <2>1. state = "init" => patch_offset = 0
    <3>1. state = "init" => chunk_left = 0 /\ Compressed = 0
      BY <1>7, <1>8 DEF Phases, Accounted, Compressed, PatchRead
    <3>2. state = "init" => patch_offset = chunk_left + Compressed + 0
      BY <1>7 DEF Accounted
    <3> QED
      BY <3>1, <3>2
  <2>2. CASE r = 0
    <3>1. /\ pc' = "process" /\ chunk_left' = ChunkSize /\ res' = 0 /\ cb_res' = 0
      BY <1>8, <2>2 DEF PatchRead, Reading
    <3>2. Reported'
      BY <1>1, <1>4, <3>1 DEF Reported
    <3>3. Begun'
      BY <1>1, <1>2, <1>6, <2>1, <3>1 DEF Begun, ChunkSize
    <3> QED
      BY <3>2, <3>3
  <2>3. CASE r # 0
    <3>1. pc' = "read" /\ cb_res' = -DETOOLS_IO_FAILED
      BY <1>8, <2>3 DEF PatchRead
    <3>2. Agrees(-DETOOLS_IO_FAILED)'
      BY <1>1, <1>4 DEF Reported
    <3>3. Agrees(cb_res)'
      BY <3>1, <3>2 DEF Agrees
    <3>4. Reported'
      BY <3>1, <3>2, <3>3 DEF Reported
    <3>5. Begun'
      BY <1>1, <1>2, <3>1 DEF Begun
    <3> QED
      BY <3>4, <3>5
  <2> QED
    BY <2>2, <2>3
<1>9. ASSUME ProcessEnd
      PROVE  Reported' /\ Begun'
  <2>1. pc = "process" /\ pc' = "read" /\ cb_res' = IF res = 1 THEN 0 ELSE res
    BY <1>9 DEF ProcessEnd
  <2>2. res \in Int /\ res <= 1 /\ (res < 0 => state = "failed")
    BY <1>1 DEF IInv, Phases, TypeOK, ControlTypeOK
  <2>3. cb_res' # 0 => cb_res' = res /\ state = "failed" /\ Agrees(res)
    BY <1>1, <2>1, <2>2 DEF Reported
  <2>4. cb_res' # 0 => Agrees(cb_res)'
    BY <1>5, <2>3 DEF Agrees
  <2>5. Agrees(-DETOOLS_IO_FAILED)'
    BY <1>1, <1>4 DEF Reported
  <2>6. Reported'
    BY <1>5, <2>1, <2>3, <2>4, <2>5 DEF Reported
  <2>7. Begun'
    BY <1>1, <1>2, <2>1 DEF Begun
  <2> QED
    BY <2>6, <2>7
<1>10. ASSUME FinalizeStart
       PROVE  Reported' /\ Begun'
  <2>1. /\ pc = "read" /\ ~Reading /\ pc' = "finalize" /\ res' = 0 /\ cb_res' = cb_res
        /\ patch_offset' = patch_offset /\ patch_size' = patch_size
    BY <1>10 DEF FinalizeStart, input_vars
  <2>2. cb_res = 0 => patch_offset = patch_size /\ state # "failed"
    BY <1>1, <1>6, <2>1 DEF Reading, FailureKnown
  <2>3. cb_res # 0 => Agrees(cb_res)'
    BY <1>1, <1>5, <2>1 DEF Reported, Agrees
  <2>4. Agrees(-DETOOLS_IO_FAILED)'
    BY <1>1, <1>4 DEF Reported
  <2>5. cb_res # 0 /\ state # "failed" => cb_res = -DETOOLS_IO_FAILED
    BY <1>1 DEF Reported
  <2>6. Reported'
    BY <1>5, <2>1, <2>2, <2>3, <2>4, <2>5 DEF Reported
  <2>7. Begun'
    BY <1>1, <1>2, <2>1 DEF Begun
  <2> QED
    BY <2>6, <2>7
<1>11. ASSUME Finalize
       PROVE  Reported' /\ Begun'
  <2>1. /\ pc = "finalize" /\ pc' = "done" /\ cb_res' = cb_res /\ res # 0
        /\ ret' = IF cb_res = 0 THEN FinalResult ELSE cb_res
    BY <1>11 DEF Finalize
  <2>2. Agrees(IF cb_res = 0 THEN FinalResult ELSE cb_res)
    BY <1>1, <2>1 DEF Reported
  <2>3. Agrees(ret)'
    BY <1>5, <2>1, <2>2 DEF Agrees
  <2>4. cb_res # 0 => Agrees(cb_res)'
    BY <1>1, <1>5, <2>1 DEF Reported, Agrees
  <2>5. Agrees(-DETOOLS_IO_FAILED)'
    BY <1>1, <1>4 DEF Reported
  <2>6. cb_res # 0 /\ state # "failed" => cb_res = -DETOOLS_IO_FAILED
    BY <1>1 DEF Reported
  <2>7. Reported'
    BY <1>5, <2>1, <2>3, <2>4, <2>5, <2>6 DEF Reported
  <2>8. Begun'
    BY <1>1, <1>2, <2>1 DEF Begun
  <2> QED
    BY <2>7, <2>8
<1> QED
  BY <1>3, <1>8, <1>9, <1>10, <1>11

-----------------------------------------------------------------------------
(***************************************************************************)
(* A size is unpacked.                                                     *)
(***************************************************************************)
LEMMA BegunGoes ==
  ASSUME Begun, state \notin {"init", "failed", "done"}, state' # "init",
         UNCHANGED << patch, patch_size, to_size >>,
         state' # "failed" /\ window_known' => patch.heatshrink = HEATSHRINK_STATIC
  PROVE  Begun'
BY DEF Begun

(* What the invariant says of an engine that reads a number.               *)
LEMMA PlaceInNumber ==
  ASSUME Matching, Unpacking
  PROVE  /\ IInv /\ Processing /\ Reported /\ Begun /\ Drained
         /\ state \in SizeStates /\ state \notin {"init", "failed", "done"}
         /\ state \notin DataStates
         /\ pc \in {"process", "finalize"} /\ (Once \/ call # "none")
         /\ call \in {"none", "unpack"}
         /\ \E r \in Piece : Reached(Plain, to_size, r) /\ InNumber(r)
<1>1. IInv /\ Processing /\ Reported /\ Begun /\ Drained /\ Follows
  BY DEF Matching
<1>2. /\ state \in SizeStates /\ state \notin {"init", "failed", "done"}
      /\ pc \in {"process", "finalize"}
  BY <1>1, UnpackingFacts
<1>3. call \in {"none", "unpack"} /\ (Once \/ call # "none")
  BY DEF Unpacking, Once
<1>4. state \notin DataStates
  BY <1>2 DEF SizeStates, DataStates
<1>5. PICK r : Reached(Plain, to_size, r) /\ At(r)
  BY <1>1, <1>2 DEF Follows
<1>6. InNumber(r)
  BY <1>2, <1>3, <1>5 DEF At
<1>7. r \in Piece
  BY <1>1, <1>2, <1>5, BegunFacts, ReachedType
<1> QED
  BY <1>1, <1>2, <1>3, <1>4, <1>5, <1>6, <1>7

(* What a number that is no number makes of the engine's place.            *)
LEMMA NoNumber ==
  ASSUME IInv, Begun, state \notin {"init", "failed", "done"},
         patch.heatshrink = HEATSHRINK_STATIC \/ patch_size = patch.head_len,
         NEW r \in Piece, Reached(Plain, to_size, r), r.kind # "end", r.out = out,
         ~Number(Plain, r.next).ok
  PROVE  Agrees(Number(Plain, r.next).value)
<1>1. Plain \in Seq(Byte) /\ to_size \in Nat
  BY BegunFacts
<1>2. PICK v \in Int : v = Number(Plain, r.next).value
       /\ v \in {-DETOOLS_CORRUPT_PATCH_OVERFLOW, -DETOOLS_NOT_ENOUGH_PATCH_DATA}
  BY <1>1, NumberType DEF Piece
<1>3. NextSection(Plain, to_size, r) = Ended(r, v)
  BY <1>2 DEF NextSection
<1>4. PICK q : q = Ended(r, v) /\ q.kind = "end" /\ q.ret = v /\ q.out = r.out
  BY EndedType
<1>5. Reached(Plain, to_size, q)
  BY <1>1, <1>3, <1>4, ReachedNext
<1>6. v < 0
  BY <1>2 DEF DETOOLS_CORRUPT_PATCH_OVERFLOW, DETOOLS_NOT_ENOUGH_PATCH_DATA
<1>7. Agrees(q.ret)
  BY <1>4, <1>5, <1>6, EndAgrees
<1> QED
  BY <1>2, <1>4, <1>7

(* The bytes of a size run out (detools.c:316-372).                        *)
LEMMA UnpackStopsMatch ==
  ASSUME Matching, UnpackStops
  PROVE  (Reported /\ Begun /\ Drained /\ Follows)'
<1>0. Unpacking
  BY DEF UnpackStops
<1>1. /\ IInv /\ Processing /\ Reported /\ Begun /\ Drained
      /\ state \in SizeStates /\ state \notin {"init", "failed", "done"}
      /\ state \notin DataStates
      /\ pc \in {"process", "finalize"} /\ call \in {"none", "unpack"}
  BY <1>0, PlaceInNumber
<1>2. PICK r \in Piece : Reached(Plain, to_size, r) /\ InNumber(r)
  BY <1>0, PlaceInNumber
<1>3. PICK a \in {1, -DETOOLS_HEATSHRINK_HEADER} :
        Decompress(1, a, 0) /\ IF a = 1 THEN Stalled ELSE Failed(-a)
  BY DEF UnpackStops
<1>4. UNCHANGED << patch, patch_size, patch_offset, pc, cb_res, out, to_size, from_pos, usize >>
  BY DEF UnpackStops, input_vars, target_vars, source_vars
<1>5. /\ taken' = taken + 0 /\ Drained'
      /\ a # -DETOOLS_HEATSHRINK_HEADER /\ window_known' => patch.heatshrink = HEATSHRINK_STATIC
      /\ a = 1 /\ patch_offset = patch_size =>
           /\ taken = Len(Plain)
           /\ patch.heatshrink = HEATSHRINK_STATIC \/ patch_size = patch.head_len
      /\ a = -DETOOLS_HEATSHRINK_HEADER =>
           patch.heatshrink # HEATSHRINK_STATIC /\ patch_size > patch.head_len
  BY <1>1, <1>3, <1>4, DecompressMore
<1>6. /\ Plain \in Seq(Byte) /\ taken \in Nat /\ to_size \in Nat /\ to_size > 0
  BY <1>1, BegunFacts DEF Begun
<1>7. /\ r.next \in Nat \ {0} /\ r.out = out /\ r.kind = state
      /\ NumberHeld(Plain, r.next, taken, usize) /\ usize \in UsizeType
  BY <1>2, <1>1, <1>0, UnpackingFacts DEF Piece, InNumber
<1>8. CASE a = 1
  <2>1. Stalled
    BY <1>3, <1>8
  <2>2. patch_offset = patch_size => Agrees(-DETOOLS_NOT_ENOUGH_PATCH_DATA)
    <3>1. ASSUME patch_offset = patch_size
          PROVE  Agrees(-DETOOLS_NOT_ENOUGH_PATCH_DATA)
      <4>1. ~Number(Plain, r.next).ok /\ Number(Plain, r.next).value = -DETOOLS_NOT_ENOUGH_PATCH_DATA
        BY <1>5, <1>6, <1>7, <1>8, <3>1, NumberStops
      <4>2. r.kind # "end"
        BY <1>1, <1>7 DEF SizeStates
      <4>3. Agrees(Number(Plain, r.next).value)
        BY <1>1, <1>2, <1>5, <1>7, <1>8, <3>1, <4>1, <4>2, NoNumber
      <4> QED
        BY <4>1, <4>3
    <3> QED
      BY <3>1
  <2>3. Reported'
    BY <1>1, <1>4, <2>1, <2>2, ReportedStalls
  <2>4. state' = state /\ call' = "none" /\ taken' = taken
    BY <1>5, <1>6, <2>1 DEF Stalled
  <2>5. Begun'
    BY <1>1, <1>4, <1>5, <1>8, <2>4, BegunGoes DEF DETOOLS_HEATSHRINK_HEADER
  <2>6. Plain' = Plain
    BY <1>4, ExpectedKept
  <2>7. InNumber(r)'
    BY <1>2, <1>4, <2>4, <2>6 DEF InNumber, NumberHeld
  <2>8. At(r)'
    BY <1>1, <2>4, <2>7 DEF At
  <2>9. Follows'
    BY <1>2, <1>4, <1>6, <2>6, <2>8 DEF Follows
  <2> QED
    BY <1>5, <2>3, <2>5, <2>9
<1>9. CASE a = -DETOOLS_HEATSHRINK_HEADER
  <2>1. Failed(DETOOLS_HEATSHRINK_HEADER)
    <3>1. a # 1 /\ -a = DETOOLS_HEATSHRINK_HEADER
      <4>1. a \in Int /\ a # 1
        BY <1>9 DEF DETOOLS_HEATSHRINK_HEADER
      <4>2. \A x \in Int, y \in Int : x = -y => -x = y
        OBVIOUS
      <4>3. DETOOLS_HEATSHRINK_HEADER \in Int
        BY DEF DETOOLS_HEATSHRINK_HEADER
      <4> QED
        BY <1>9, <4>1, <4>2, <4>3
    <3>2. Failed(-a)
      BY <1>3, <3>1
    <3> QED
      BY <3>1, <3>2
  <2>2. DETOOLS_HEATSHRINK_HEADER \in Nat \ {0, DETOOLS_ALREADY_DONE}
    BY DEF DETOOLS_HEATSHRINK_HEADER, DETOOLS_ALREADY_DONE
  <2>3. Agrees(-DETOOLS_HEATSHRINK_HEADER)
    BY <1>1, <1>5, <1>9, RefusalAgrees DEF Reported
  <2>4. Reported'
    BY <1>1, <1>4, <2>1, <2>2, <2>3, ReportedFails
  <2>5. state' = "failed"
    BY <2>1 DEF Failed
  <2> QED
    BY <1>5, <2>4, <2>5 DEF Begun, Follows
<1> QED
  BY <1>3, <1>8, <1>9

(* A byte of a size is read.                                               *)
LEMMA UnpackReads ==
  ASSUME Matching, Unpacking, Decompress(1, 0, 1),
         UNCHANGED << patch, patch_size, patch_offset >>
  PROVE  /\ taken' = taken + 1 /\ taken \in Nat /\ taken + 1 <= Len(Plain)
         /\ patch.heatshrink = HEATSHRINK_STATIC
         /\ Drained' /\ NumberDrained'
         /\ NextByte = Plain[taken + 1]
<1>1. /\ IInv /\ Begun /\ Drained /\ state \notin {"init", "failed", "done"}
  BY PlaceInNumber
<1>2. /\ Plain \in Seq(Byte) /\ taken \in Nat /\ Len(Plain) \in Nat /\ InputTypeOK
  BY <1>1, BegunFacts
<1>3. /\ taken' = taken + 1 /\ Drained' /\ taken + 1 <= Len(Plain)
      /\ patch.heatshrink = HEATSHRINK_STATIC
      /\ \A i \in 0 .. sunk' - 1 : Upto(patch, i) < taken + 1
  BY <1>1, DecompressMore DEF DETOOLS_HEATSHRINK_HEADER
<1>4. NumberDrained'
  BY <1>3 DEF NumberDrained, Upto
<1>5. NextByte = Plain[taken + 1]
  <2>1. taken + 1 \in 1 .. Len(Plain)
    BY <1>2, <1>3
  <2> QED
    BY <1>2, <2>1, PlainFacts DEF NextByte
<1> QED
  BY <1>2, <1>3, <1>4, <1>5

(* A size of too many bytes (detools.c:84).                                *)
LEMMA UnpackOverflowsMatch ==
  ASSUME Matching, UnpackOverflows
  PROVE  (Reported /\ Begun /\ Drained /\ Follows)'
<1>1. Unpacking /\ Decompress(1, 0, 1) /\ Failed(DETOOLS_CORRUPT_PATCH_OVERFLOW)
      /\ usize.state = "consecutive" /\ is_overflow(usize.offset)
  BY DEF UnpackOverflows
<1>2. UNCHANGED << patch, patch_size, patch_offset, pc, cb_res, out >>
  BY DEF UnpackOverflows, input_vars, target_vars
<1>3. /\ IInv /\ Processing /\ Reported /\ Begun
      /\ state \in SizeStates /\ state \notin {"init", "failed", "done"}
      /\ pc \in {"process", "finalize"}
  BY <1>1, PlaceInNumber
<1>4. PICK r \in Piece : Reached(Plain, to_size, r) /\ InNumber(r)
  BY <1>1, PlaceInNumber
<1>5. /\ taken \in Nat /\ taken + 1 <= Len(Plain) /\ Drained'
      /\ patch.heatshrink = HEATSHRINK_STATIC
  BY <1>1, <1>2, UnpackReads
<1>6. /\ r.next \in Nat \ {0} /\ r.out = out /\ r.kind = state
      /\ NumberHeld(Plain, r.next, taken, usize) /\ usize \in UsizeType
      /\ Plain \in Seq(Byte)
  BY <1>1, <1>3, <1>4, UnpackingFacts, BegunFacts DEF Piece, InNumber
<1>7. /\ ~Number(Plain, r.next).ok
      /\ Number(Plain, r.next).value = -DETOOLS_CORRUPT_PATCH_OVERFLOW
  BY <1>1, <1>5, <1>6, NumberStops
<1>8. Agrees(-DETOOLS_CORRUPT_PATCH_OVERFLOW)
  <2>1. r.kind # "end"
    BY <1>3, <1>6 DEF SizeStates
  <2>2. Agrees(Number(Plain, r.next).value)
    BY <1>3, <1>4, <1>5, <1>6, <1>7, <2>1, NoNumber
  <2> QED
    BY <1>7, <2>2
<1>9. DETOOLS_CORRUPT_PATCH_OVERFLOW \in Nat \ {0, DETOOLS_ALREADY_DONE}
  BY DEF DETOOLS_CORRUPT_PATCH_OVERFLOW, DETOOLS_ALREADY_DONE
<1>10. Reported'
  BY <1>1, <1>2, <1>3, <1>8, <1>9, ReportedFails
<1>11. state' = "failed"
  BY <1>1 DEF Failed
<1> QED
  BY <1>5, <1>10, <1>11 DEF Begun, Follows

(* The target as it is agrees with a failed write, and goes on to.         *)
LEMMA SameTarget ==
  ASSUME Reported, UNCHANGED << patch, patch_size, out >>
  PROVE  Begins(out', Expected.out) \/ Expected.ret = -DETOOLS_IO_FAILED
BY DEF Reported, Agrees

(* One byte more of a size that goes on.                                   *)
LEMMA UnpackContinuesMatch ==
  ASSUME Matching, UnpackContinues
  PROVE  (Reported /\ Begun /\ Drained /\ Follows)'
<1>1. /\ Unpacking /\ Decompress(1, 0, 1) /\ Continued(NextByte)
      /\ ~(usize.state = "consecutive" /\ is_overflow(usize.offset))
      /\ usize' = Extended(usize, NextByte) /\ call' = "unpack"
  <2>1. Unpack(FALSE) /\ call' = "unpack"
    BY DEF UnpackContinues
  <2>2. /\ Unpacking /\ Decompress(1, 0, 1) /\ Continued(NextByte) # FALSE
        /\ ~(usize.state = "consecutive" /\ is_overflow(usize.offset))
        /\ usize' = Extended(usize, NextByte)
    BY <2>1 DEF Unpack
  <2>3. Continued(NextByte) \in BOOLEAN
    BY DEF Continued
  <2> QED
    BY <2>1, <2>2, <2>3
<1>2. /\ UNCHANGED << patch, patch_size, patch_offset, pc, cb_res, out, to_size,
                      state, res, from_pos >>
  BY DEF UnpackContinues, input_vars, target_vars, source_vars
<1>3. /\ IInv /\ Processing /\ Reported /\ Begun
      /\ state \in SizeStates /\ state \notin {"init", "failed", "done"}
      /\ state \notin DataStates
      /\ pc \in {"process", "finalize"} /\ (Once \/ call # "none")
  BY <1>1, PlaceInNumber
<1>4. PICK r \in Piece : Reached(Plain, to_size, r) /\ InNumber(r)
  BY <1>1, PlaceInNumber
<1>5. /\ taken' = taken + 1 /\ taken \in Nat /\ taken + 1 <= Len(Plain) /\ Drained'
      /\ patch.heatshrink = HEATSHRINK_STATIC /\ NextByte = Plain[taken + 1]
  BY <1>1, <1>2, UnpackReads
<1>6. /\ r.next \in Nat \ {0} /\ r.out = out /\ r.kind = state /\ from_pos = r.pos
      /\ NumberHeld(Plain, r.next, taken, usize) /\ usize \in UsizeType
      /\ Plain \in Seq(Byte) /\ to_size > 0
  BY <1>1, <1>3, <1>4, UnpackingFacts, BegunFacts DEF Piece, InNumber, Begun
<1>7. NumberHeld(Plain, r.next, taken + 1, Extended(usize, NextByte))
  BY <1>1, <1>5, <1>6, NumberGrows DEF Continued
<1>8. Plain' = Plain
  BY <1>2, ExpectedKept
<1>9. InNumber(r)'
  <2>1. NumberHeld(Plain', r.next, taken', usize')
    BY <1>1, <1>5, <1>7, <1>8
  <2> QED
    BY <1>2, <1>6, <2>1 DEF InNumber
<1>10. At(r)'
  BY <1>1, <1>2, <1>3, <1>9 DEF At
<1>11. Follows'
  BY <1>2, <1>4, <1>6, <1>8, <1>10 DEF Follows
<1>12. Reported'
  BY <1>2, <1>3, SameTarget, ReportedGoes
<1>13. Begun'
  BY <1>2, <1>3, <1>5, BegunGoes
<1> QED
  BY <1>5, <1>11, <1>12, <1>13

(* The last byte of a size is read.                                        *)
LEMMA UnpackEnds ==
  ASSUME Matching, Unpack(TRUE), UNCHANGED << patch, patch_size, patch_offset >>,
         NEW r \in Piece, InNumber(r)
  PROVE  /\ Unpacking /\ usize'.state = "first"
         /\ Number(Plain, r.next).ok /\ Number(Plain, r.next).next = taken + 2
         /\ Number(Plain, r.next).value = usize'.value
         /\ \E v \in Int : v = usize'.value
<1>1. /\ Unpacking /\ Decompress(1, 0, 1) /\ Continued(NextByte) # TRUE
      /\ ~(usize.state = "consecutive" /\ is_overflow(usize.offset))
      /\ usize' = [Extended(usize, NextByte) EXCEPT
                     !.state = "first", !.value = Signed(Extended(usize, NextByte))]
  BY DEF Unpack
<1>2. /\ taken \in Nat /\ taken + 1 <= Len(Plain) /\ NextByte = Plain[taken + 1]
  BY <1>1, UnpackReads
<1>3. /\ r.next \in Nat \ {0} /\ NumberHeld(Plain, r.next, taken, usize)
      /\ usize \in UsizeType /\ Plain \in Seq(Byte)
      /\ usize.state = "consecutive" => usize.offset # 0
  BY <1>1, PlaceInNumber, UnpackingFacts, BegunFacts DEF Piece, InNumber
<1>4. ~(Plain[taken + 1] >= 128)
  BY <1>1, <1>2 DEF Continued
<1>5. Number(Plain, r.next) = [ok |-> TRUE, value |-> Signed(Extended(usize, Plain[taken + 1])),
                               next |-> taken + 2]
  BY <1>1, <1>2, <1>3, <1>4, NumberGrows
<1>6. Extended(usize, NextByte) \in UsizeType
  <2>1. Plain[taken + 1] \in Byte
    <3>1. taken + 1 \in 1 .. Len(Plain) /\ Len(Plain) \in Nat
      BY <1>2, <1>3, LenProperties
    <3> QED
      BY <1>3, <3>1, ElementOfSeq
  <2> QED
    BY <1>1, <1>2, <1>3, <2>1, ExtendedTyped
<1>7. PICK u \in UsizeType : u = Extended(usize, NextByte)
  BY <1>6
<1>8. usize' = [u EXCEPT !.state = "first", !.value = Signed(u)]
  BY <1>1, <1>7
<1>9. usize'.state = "first" /\ usize'.value = Signed(u)
  BY <1>8 DEF UsizeType
<1>10. Signed(u) \in Int
  BY DEF Signed, UsizeType
<1> QED
  BY <1>1, <1>2, <1>5, <1>7, <1>9, <1>10

(* Between two numbers nothing of the next one is held.                    *)
LEMMA NumberBegun ==
  ASSUME NEW s, NEW t \in Nat, NEW i, i = t + 1, NEW u, u.state = "first"
  PROVE  NumberHeld(s, i, t, u)
<1>1. 0 \in 0 .. 4 /\ t = i - 1 + 0 /\ ~(0 > 0)
  OBVIOUS
<1>2. \A m \in i .. i + 0 - 1 : s[m] >= 128
  OBVIOUS
<1> QED
  BY <1>1, <1>2 DEF NumberHeld

(* The size of the data format part, which must be zero.                   *)
LEMMA ProcessDfpatchSizeMatch ==
  ASSUME Matching, ProcessDfpatchSize
  PROVE  (Reported /\ Begun /\ Drained /\ Follows)'
<1>1. /\ state = "dfpatch_size" /\ Unpack(TRUE)
      /\ IF usize'.value > 0 THEN Failed(DETOOLS_NOT_IMPLEMENTED) ELSE Goto("diff_size")
  BY DEF ProcessDfpatchSize
<1>2. /\ UNCHANGED << patch, patch_size, patch_offset, pc, cb_res, out, to_size, from_pos >>
  BY DEF ProcessDfpatchSize, input_vars, target_vars, source_vars
<1>3. Unpacking /\ Decompress(1, 0, 1)
  BY <1>1 DEF Unpack
<1>4. /\ IInv /\ Processing /\ Reported /\ Begun
      /\ state \in SizeStates /\ state \notin {"init", "failed", "done"}
      /\ pc \in {"process", "finalize"} /\ (Once \/ call # "none")
  BY <1>3, PlaceInNumber
<1>5. PICK r \in Piece : Reached(Plain, to_size, r) /\ InNumber(r)
  BY <1>3, PlaceInNumber
<1>6. /\ taken' = taken + 1 /\ taken \in Nat /\ Drained'
      /\ patch.heatshrink = HEATSHRINK_STATIC
  BY <1>2, <1>3, UnpackReads
<1>7. PICK v \in Int :
        /\ v = usize'.value /\ usize'.state = "first"
        /\ Number(Plain, r.next).ok /\ Number(Plain, r.next).next = taken + 2
        /\ Number(Plain, r.next).value = v
  BY <1>1, <1>2, <1>5, UnpackEnds
<1>8. /\ r.kind = "dfpatch_size" /\ r.out = out /\ from_pos = r.pos
      /\ Plain \in Seq(Byte) /\ to_size > 0 /\ to_size \in Nat
  BY <1>1, <1>4, <1>5, BegunFacts DEF InNumber, Begun
<1>9. PICK q : q = NextSection(Plain, to_size, r) /\ Reached(Plain, to_size, q)
  BY <1>5, <1>8, ReachedNext
<1>10. CASE v > 0
  <2>1. Failed(DETOOLS_NOT_IMPLEMENTED)
    BY <1>1, <1>7, <1>10
  <2>2. q = Ended(r, -DETOOLS_NOT_IMPLEMENTED)
    BY <1>7, <1>8, <1>9, <1>10 DEF NextSection
  <2>3. q.kind = "end" /\ q.ret = -DETOOLS_NOT_IMPLEMENTED /\ q.out = out /\ q.ret < 0
    <3>1. -DETOOLS_NOT_IMPLEMENTED \in Int /\ -DETOOLS_NOT_IMPLEMENTED < 0
      BY DEF DETOOLS_NOT_IMPLEMENTED
    <3> QED
      BY <1>8, <2>2, <3>1, EndedType
  <2>4. Agrees(q.ret)
    BY <1>4, <1>6, <1>9, <2>3, EndAgrees
  <2>5. DETOOLS_NOT_IMPLEMENTED \in Nat \ {0, DETOOLS_ALREADY_DONE}
    BY DEF DETOOLS_NOT_IMPLEMENTED, DETOOLS_ALREADY_DONE
  <2>6. Reported'
    BY <1>2, <1>4, <2>1, <2>3, <2>4, <2>5, ReportedFails
  <2>7. state' = "failed"
    BY <2>1 DEF Failed
  <2> QED
    BY <1>6, <2>6, <2>7 DEF Begun, Follows
<1>11. CASE ~(v > 0)
  <2>1. state' = "diff_size" /\ res' = 0 /\ call' = "none"
    BY <1>1, <1>7, <1>11 DEF Goto
  <2>2. q = [r EXCEPT !.kind = "diff_size", !.next = taken + 2]
    BY <1>7, <1>8, <1>9, <1>11 DEF NextSection
  <2>3. q.kind = "diff_size" /\ q.next = taken + 2 /\ q.out = out /\ q.pos = from_pos
    BY <1>8, <2>2 DEF Piece
  <2>4. Plain' = Plain
    BY <1>2, ExpectedKept
  <2>5. NumberHeld(Plain, q.next, taken + 1, usize')
    <3>1. taken + 1 \in Nat /\ q.next = taken + 1 + 1
      BY <1>6, <2>3
    <3>2. PICK u : u = usize' /\ u.state = "first"
      BY <1>7
    <3> QED
      BY <3>1, <3>2, NumberBegun
  <2>6. NumberHeld(Plain', q.next, taken', usize')
    BY <1>6, <2>4, <2>5
  <2>7. InNumber(q)'
    BY <1>2, <2>1, <2>3, <2>6 DEF InNumber
  <2>8. At(q)'
    BY <2>1, <2>7 DEF At, SizeStates, DataStates
  <2>9. Follows'
    BY <1>2, <1>8, <1>9, <2>4, <2>8 DEF Follows
  <2>10. Reported'
    BY <1>2, <1>4, <2>1, SameTarget, ReportedGoes
  <2>11. Begun'
    BY <1>2, <1>4, <1>6, <2>1, BegunGoes
  <2> QED
    BY <1>6, <2>9, <2>10, <2>11
<1> QED
  BY <1>10, <1>11

(* The size of a section, which must fit (detools.c:388).                  *)
LEMMA ProcessSizeMatch ==
  ASSUME Matching, ProcessSize
  PROVE  (Reported /\ Begun /\ Drained /\ Follows)'
<1>1. /\ state \in {"diff_size", "extra_size"} /\ Unpack(TRUE)
      /\ IF SizeFits(usize'.value)
         THEN /\ chunk_size' = usize'.value % SIZE_MOD
              /\ Goto(IF state = "diff_size" THEN "diff_data" ELSE "extra_data")
         ELSE Failed(DETOOLS_CORRUPT_PATCH)
  BY DEF ProcessSize
<1>2. /\ UNCHANGED << patch, patch_size, patch_offset, pc, cb_res, out, to_size, from_pos >>
  BY DEF ProcessSize, input_vars, target_vars, source_vars
<1>3. Unpacking /\ Decompress(1, 0, 1)
  BY <1>1 DEF Unpack
<1>4. /\ IInv /\ Processing /\ Reported /\ Begun
      /\ state \in SizeStates /\ state \notin {"init", "failed", "done"}
      /\ pc \in {"process", "finalize"} /\ (Once \/ call # "none")
  BY <1>3, PlaceInNumber
<1>5. PICK r \in Piece : Reached(Plain, to_size, r) /\ InNumber(r)
  BY <1>3, PlaceInNumber
<1>6. /\ taken' = taken + 1 /\ taken \in Nat /\ Drained'
      /\ patch.heatshrink = HEATSHRINK_STATIC
  BY <1>2, <1>3, UnpackReads
<1>7. PICK v \in Int :
        /\ v = usize'.value /\ usize'.state = "first"
        /\ Number(Plain, r.next).ok /\ Number(Plain, r.next).next = taken + 2
        /\ Number(Plain, r.next).value = v
  BY <1>1, <1>2, <1>5, UnpackEnds
<1>8. /\ r.kind = state /\ r.out = out /\ from_pos = r.pos
      /\ Plain \in Seq(Byte) /\ to_size > 0 /\ to_size \in Nat
  BY <1>4, <1>5, BegunFacts DEF InNumber, Begun
<1>9. Len(r.out) = to_offset
  BY <1>4, <1>8 DEF IInv, Exact
<1>10. SizeFits(v) <=> ~((Len(r.out) + v) % SIZE_MOD > to_size)
  <2>1. PICK m \in Nat \ {0}, a \in Nat, l \in Nat : m = SIZE_MOD /\ a = to_size /\ l = to_offset
    BY <1>4, SizeAssumption DEF IInv, TypeOK, TargetTypeOK
  <2>2. (l + v) % m \in Int
    BY <2>1, <1>7
  <2>3. (l + v) % m <= a <=> ~((l + v) % m > a)
    BY <2>1, <2>2
  <2> QED
    BY <1>9, <2>1, <2>3 DEF SizeFits
<1>11. Plain' = Plain
  BY <1>2, ExpectedKept
<1>12. CASE ~SizeFits(v)
  <2>1. Failed(DETOOLS_CORRUPT_PATCH)
    BY <1>1, <1>7, <1>12
  <2>2. PICK q : q = NextSection(Plain, to_size, r) /\ Reached(Plain, to_size, q)
    BY <1>5, <1>8, ReachedNext
  <2>3. q = Ended(r, -DETOOLS_CORRUPT_PATCH)
    <3>1. q = Section(Plain, to_size, r, Number(Plain, r.next))
      BY <1>1, <1>7, <1>8, <2>2 DEF NextSection
    <3>2. (Len(r.out) + Number(Plain, r.next).value) % SIZE_MOD > to_size
      BY <1>7, <1>10, <1>12
    <3> QED
      BY <3>1, <3>2 DEF Section
  <2>4. q.kind = "end" /\ q.ret = -DETOOLS_CORRUPT_PATCH /\ q.out = out /\ q.ret < 0
    <3>1. -DETOOLS_CORRUPT_PATCH \in Int /\ -DETOOLS_CORRUPT_PATCH < 0
      BY DEF DETOOLS_CORRUPT_PATCH
    <3> QED
      BY <1>8, <2>3, <3>1, EndedType
  <2>5. Agrees(q.ret)
    BY <1>4, <1>6, <2>2, <2>4, EndAgrees
  <2>6. DETOOLS_CORRUPT_PATCH \in Nat \ {0, DETOOLS_ALREADY_DONE}
    BY DEF DETOOLS_CORRUPT_PATCH, DETOOLS_ALREADY_DONE
  <2>7. Reported'
    BY <1>2, <1>4, <2>1, <2>4, <2>5, <2>6, ReportedFails
  <2>8. state' = "failed"
    BY <2>1 DEF Failed
  <2> QED
    BY <1>6, <2>7, <2>8 DEF Begun, Follows
<1>13. CASE SizeFits(v)
  <2>1. /\ state' = IF state = "diff_size" THEN "diff_data" ELSE "extra_data"
        /\ res' = 0 /\ call' = "none"
        /\ chunk_size' = v % SIZE_MOD
    BY <1>1, <1>7, <1>13 DEF Goto
  <2>2. v % SIZE_MOD \in Nat
    BY <1>7, SizeAssumption
  <2>3. Written(Number(Plain, r.next))' = 0
    <3>1. PICK c \in Nat : c = v % SIZE_MOD
      BY <2>2
    <3>2. Number(Plain, r.next)'.value = v
      BY <1>7, <1>11
    <3> QED
      BY <2>1, <3>1, <3>2 DEF Written
  <2>4. /\ SourceHas(r, 0)
        /\ out = r.out \o Data(Plain, r, Number(Plain, r.next).next, 0)
    <3>1. SourceHas(r, 0)
      <4>1. PICK p \in Int : p = r.pos
        BY DEF Piece
      <4>2. p .. p + 0 - 1 = {}
        OBVIOUS
      <4> QED
        BY <4>1, <4>2 DEF SourceHas
    <3>2. PICK i \in Nat \ {0} : i = Number(Plain, r.next).next /\ i + 0 - 1 <= Len(Plain)
      <4>1. r.next \in Nat \ {0} /\ Len(Plain) \in Nat
        BY <1>8, LenProperties DEF Piece
      <4>2. Number(Plain, r.next).next \in r.next + 1 .. Len(Plain) + 1
        BY <1>7, <1>8, <4>1, NumberType
      <4>3. PICK i \in r.next + 1 .. Len(Plain) + 1 : i = Number(Plain, r.next).next
        BY <4>2
      <4>4. i \in Nat \ {0} /\ i + 0 - 1 <= Len(Plain)
        BY <4>1, <4>3
      <4> QED
        BY <4>3, <4>4
    <3>3. Data(Plain, r, i, 0) \in Seq(Byte) /\ Len(Data(Plain, r, i, 0)) = 0
      BY <1>8, <3>1, <3>2, DataType
    <3>4. Data(Plain, r, i, 0) = << >>
      BY <3>3, EmptySeq
    <3>5. r.out \in Seq(Byte)
      BY DEF Piece
    <3>6. r.out \o << >> = r.out
      BY <3>5, ConcatEmptySeq
    <3> QED
      BY <1>8, <3>1, <3>2, <3>4, <3>6
  <2>5. InSection(r)'
    <3>1. r.kind = IF state' = "diff_data" THEN "diff_size" ELSE "extra_size"
      BY <1>1, <1>8, <2>1
    <3>2. taken' = Number(Plain', r.next).next - 1 + 0 + 0
      BY <1>6, <1>7, <1>11
    <3>3. from_pos' = (IF state' # "diff_data" THEN r.pos ELSE r.pos + 0 + 0)
      <4>1. r.pos \in Int
        BY DEF Piece
      <4> QED
        BY <1>2, <1>8, <4>1
    <3>4. ~((Len(r.out) + Number(Plain', r.next).value) % SIZE_MOD > to_size')
      BY <1>2, <1>7, <1>10, <1>11, <1>13
    <3>5. PICK w : w = Written(Number(Plain, r.next))' /\ w = 0
      BY <2>3
    <3>6. /\ Number(Plain', r.next).ok /\ usize'.state = "first"
          /\ w = (Written(Number(Plain, r.next)))'
          /\ w \in Nat
          /\ taken' = Number(Plain', r.next).next - 1 + w + 0
          /\ from_pos' = (IF state' # "diff_data" THEN r.pos ELSE r.pos + w + 0)
          /\ SourceHas(r, w)
          /\ out' = r.out \o Data(Plain', r, Number(Plain', r.next).next, w)
      <4>1. /\ taken' = Number(Plain', r.next).next - 1 + w + 0
            /\ from_pos' = (IF state' # "diff_data" THEN r.pos ELSE r.pos + w + 0)
        BY <3>2, <3>3, <3>5
      <4>2. SourceHas(r, w) /\ out' = r.out \o Data(Plain', r, Number(Plain', r.next).next, w)
        BY <1>2, <1>11, <2>4, <3>5
      <4>3. Number(Plain', r.next).ok /\ usize'.state = "first" /\ w \in Nat
        BY <1>7, <1>11, <3>5
      <4> QED
        BY <3>5, <4>1, <4>2, <4>3
    <3> QED
      BY <2>1, <3>1, <3>4, <3>6 DEF InSection
  <2>6. At(r)'
    BY <2>1, <2>5 DEF At, SizeStates, DataStates
  <2>7. Follows'
    BY <1>2, <1>5, <1>8, <1>11, <2>6 DEF Follows
  <2>8. state' \notin {"init", "failed"}
    BY <2>1
  <2>9. Reported'
    BY <1>2, <1>4, <2>1, <2>8, SameTarget, ReportedGoes
  <2>10. Begun'
    BY <1>2, <1>4, <1>6, <2>8, BegunGoes
  <2> QED
    BY <1>6, <2>7, <2>9, <2>10
<1> QED
  BY <1>12, <1>13

(* The adjustment that follows an extra section, or ends the target.       *)
LEMMA ProcessAdjustmentMatch ==
  ASSUME Matching, ProcessAdjustment
  PROVE  (Reported /\ Begun /\ Drained /\ Follows)'
<1>1. /\ state = "adjustment" /\ Unpack(TRUE) /\ seek' = usize'.value /\ call' = "from_seek"
  BY DEF ProcessAdjustment
<1>2. /\ UNCHANGED << patch, patch_size, patch_offset, pc, cb_res, out, to_size,
                      state, res, from_pos >>
  BY DEF ProcessAdjustment, input_vars, target_vars
<1>3. Unpacking /\ Decompress(1, 0, 1)
  BY <1>1 DEF Unpack
<1>4. /\ IInv /\ Processing /\ Reported /\ Begun
      /\ state \in SizeStates /\ state \notin {"init", "failed", "done"}
      /\ state \notin DataStates
      /\ pc \in {"process", "finalize"} /\ (Once \/ call # "none")
  BY <1>3, PlaceInNumber
<1>5. PICK r \in Piece : Reached(Plain, to_size, r) /\ InNumber(r)
  BY <1>3, PlaceInNumber
<1>6. /\ taken' = taken + 1 /\ taken \in Nat /\ Drained' /\ NumberDrained'
      /\ patch.heatshrink = HEATSHRINK_STATIC
  BY <1>2, <1>3, UnpackReads
<1>7. PICK v \in Int :
        /\ v = usize'.value /\ usize'.state = "first"
        /\ Number(Plain, r.next).ok /\ Number(Plain, r.next).next = taken + 2
        /\ Number(Plain, r.next).value = v
  BY <1>1, <1>2, <1>5, UnpackEnds
<1>8. /\ r.kind = "adjustment" /\ r.out = out /\ from_pos = r.pos /\ to_size > 0
  BY <1>1, <1>4, <1>5 DEF InNumber, Begun
<1>9. Plain' = Plain
  BY <1>2, ExpectedKept
<1>10. InSeek(r)'
  <2>1. taken' = Number(Plain', r.next).next - 1
    BY <1>6, <1>7, <1>9
  <2> QED
    BY <1>1, <1>2, <1>6, <1>7, <1>8, <1>9, <2>1 DEF InSeek
<1>11. At(r)'
  BY <1>1, <1>2, <1>4, <1>10 DEF At
<1>12. Follows'
  BY <1>2, <1>5, <1>8, <1>9, <1>11 DEF Follows
<1>13. Reported'
  BY <1>2, <1>4, SameTarget, ReportedGoes
<1>14. Begun'
  BY <1>2, <1>4, <1>6, BegunGoes
<1> QED
  BY <1>6, <1>12, <1>13, <1>14

(* A callback that fails agrees with any target that is a prefix.          *)
LEMMA FailedCallback ==
  ASSUME Reported, Processing, pc \in {"process", "finalize"},
         UNCHANGED << patch, patch_size, patch_offset, pc, cb_res, out, sunk, taken >>,
         Failed(DETOOLS_IO_FAILED), Drained
  PROVE  (Reported /\ Begun /\ Drained /\ Follows)'
<1>1. DETOOLS_IO_FAILED \in Nat \ {0, DETOOLS_ALREADY_DONE}
  BY DEF DETOOLS_IO_FAILED, DETOOLS_ALREADY_DONE
<1>2. Agrees(-DETOOLS_IO_FAILED)
  BY DEF Reported
<1>3. Reported'
  BY <1>1, <1>2, ReportedFails
<1>4. state' = "failed"
  BY DEF Failed
<1>5. Drained'
  BY DEF Drained, Upto
<1> QED
  BY <1>3, <1>4, <1>5 DEF Begun, Follows

(* The callback that an adjustment waits for.                              *)
LEMMA FromSeekMatch ==
  ASSUME Matching, NEW a, FromSeek(a)
  PROVE  (Reported /\ Begun /\ Drained /\ Follows)'
<1>1. IInv /\ Processing /\ Reported /\ Begun /\ Drained /\ Follows
  BY DEF Matching
<1>2. /\ call = "from_seek"
      /\ UNCHANGED << patch, patch_size, patch_offset, pc, cb_res, out, to_size,
                      sunk, taken, usize, window_known >>
  BY DEF FromSeek, input_vars, target_vars, reader_vars
<1>3. state = "adjustment" /\ pc \in {"process", "finalize"}
  BY <1>1, <1>2 DEF IInv, Phases
<1>4. CASE a # 0
  <2>1. Failed(DETOOLS_IO_FAILED)
    BY <1>4 DEF FromSeek
  <2> QED
    BY <1>1, <1>2, <1>3, <2>1, FailedCallback
<1>5. CASE a = 0
  <2>1. /\ from_pos' = from_pos + seek
        /\ state' = (IF to_offset = to_size THEN "done" ELSE "diff_size")
        /\ res' = 0 /\ call' = "none"
    BY <1>5 DEF FromSeek, Goto
  <2>2. PICK r : Reached(Plain, to_size, r) /\ At(r)
    BY <1>1, <1>3 DEF Follows
  <2>3. InSeek(r)
    BY <1>2, <1>3, <2>2 DEF At, SizeStates
  <2>4. /\ Plain \in Seq(Byte) /\ to_size \in Nat /\ to_size > 0 /\ taken \in Nat
    BY <1>1, <1>3, BegunFacts DEF Begun
  <2>5. r \in Piece
    BY <2>2, <2>4, ReachedType
  <2>6. PICK v \in Int, i \in Nat \ {0, 1} :
          /\ Number(Plain, r.next).ok /\ v = Number(Plain, r.next).value
          /\ i = Number(Plain, r.next).next /\ taken = i - 1 /\ seek = v
    <3>1. r.next \in Nat \ {0} /\ Number(Plain, r.next).ok
      BY <2>3, <2>5 DEF Piece, InSeek
    <3>2. /\ Number(Plain, r.next).value \in Int
          /\ Number(Plain, r.next).next \in r.next + 1 .. Len(Plain) + 1
      BY <2>4, <3>1, NumberType
    <3>3. PICK l \in Nat, i \in Int : l = Len(Plain) /\ i = Number(Plain, r.next).next
            /\ i \in r.next + 1 .. l + 1
      BY <2>4, <3>2, LenProperties
    <3>4. i \in Nat \ {0, 1}
      BY <3>1, <3>3
    <3> QED
      BY <2>3, <3>1, <3>2, <3>3, <3>4 DEF InSeek
  <2>7. /\ r.kind = "adjustment" /\ r.out = out /\ r.pos = from_pos /\ r.pos \in Int
        /\ usize.state = "first" /\ NumberDrained
    BY <2>3, <2>5 DEF InSeek, Piece
  <2>8. PICK q : q = NextSection(Plain, to_size, r) /\ Reached(Plain, to_size, q)
    BY <2>2, <2>4, ReachedNext
  <2>9. Len(r.out) = to_offset
    BY <1>1, <1>3, <2>7 DEF IInv, Exact
  <2>10. Plain' = Plain
    BY <1>2, ExpectedKept
  <2>11. Drained' /\ NumberDrained'
    BY <1>1, <1>2, <2>7 DEF Drained, NumberDrained, Upto
  <2>12. state' \notin {"init", "failed"}
    BY <2>1
  <2>13. Reported'
    BY <1>1, <1>2, <1>3, <2>1, <2>12, SameTarget, ReportedGoes
  <2>14. Begun'
    BY <1>1, <1>2, <1>3, <2>12, BegunGoes DEF Begun
  <2>15. At(q)'
    <3>1. CASE to_offset = to_size
      <4>1. q = Ended([r EXCEPT !.next = i], to_size)
        BY <2>6, <2>7, <2>8, <2>9, <3>1 DEF NextSection
      <4>2. PICK p : p = [r EXCEPT !.next = i]
        OBVIOUS
      <4>3. p \in Piece /\ p.next = i /\ p.out = out
        BY <2>5, <2>6, <2>7, <4>2 DEF Piece
      <4>4. to_size \in Int /\ q = Ended(p, to_size)
        BY <2>4, <4>1, <4>2
      <4>5. q.kind = "end" /\ q.ret = to_size /\ q.out = out /\ q.next = i
        BY <4>3, <4>4, EndedType
      <4>6. AtEnd(q)'
        BY <1>2, <2>6, <2>11, <4>5 DEF AtEnd
      <4>7. state' = "done"
        BY <2>1, <3>1
      <4> QED
        BY <4>6, <4>7 DEF At, SizeStates, DataStates
    <3>2. CASE to_offset # to_size
      <4>1. q = [r EXCEPT !.kind = "diff_size", !.next = i, !.pos = @ + v]
        BY <2>6, <2>7, <2>8, <2>9, <3>2 DEF NextSection
      <4>2. q.kind = "diff_size" /\ q.next = i /\ q.out = out /\ q.pos = from_pos + v
        BY <2>5, <2>7, <4>1 DEF Piece
      <4>3. NumberHeld(Plain, q.next, taken, usize)
        <5>1. taken \in Nat /\ i = taken + 1
          BY <2>4, <2>6
        <5> QED
          BY <2>7, <4>2, <5>1, NumberBegun
      <4>4. state' = "diff_size" /\ from_pos' = from_pos + v
        BY <2>1, <2>6, <3>2
      <4>5. InNumber(q)'
        BY <1>2, <2>10, <4>2, <4>3, <4>4 DEF InNumber
      <4> QED
        BY <4>4, <4>5, <2>1 DEF At, SizeStates, DataStates
    <3> QED
      BY <3>1, <3>2
  <2>16. Follows'
    BY <1>2, <2>4, <2>8, <2>10, <2>15 DEF Follows
  <2> QED
    BY <2>11, <2>13, <2>14, <2>16
<1> QED
  BY <1>4, <1>5

-----------------------------------------------------------------------------
(***************************************************************************)
(* A section is read, added to the source and written.                     *)
(***************************************************************************)
LEMMA ConcatBytes ==
  ASSUME NEW a \in Seq(Byte), NEW b \in Seq(Byte), NEW c \in Seq(Byte)
  PROVE  (a \o b) \o c = a \o (b \o c)
BY ConcatAssociative

(* The n bytes d are the bytes behind the first w of the section at r.     *)
Lengthens(s, r, i, w, n, d) ==
  /\ s \in Seq(Byte) /\ r \in Piece /\ i \in Nat \ {0} /\ w \in Nat /\ n \in Nat
  /\ i + w + n - 1 <= Len(s) /\ SourceHas(r, w) /\ SourceHas(r, w + n)
  /\ d \in Seq(Byte) /\ Len(d) = n
  /\ \A m \in 1 .. n : d[m] =
       IF r.kind = "diff_size" THEN (s[i + w + m - 1] + From[r.pos + w + m - 1]) % 256
       ELSE s[i + w + m - 1]

Longer(s, r, i, w, n, d) ==
  /\ (r.out \o Data(s, r, i, w)) \o d = r.out \o Data(s, r, i, w + n)
  /\ r.out \o Data(s, r, i, w) \in Seq(Byte)
  /\ r.out \o Data(s, r, i, w + n) \in Seq(Byte)

(* Then they are the longer part of that section.                          *)
LEMMA DataMore ==
  ASSUME NEW s, NEW r, NEW i, NEW w, NEW n, NEW d, Lengthens(s, r, i, w, n, d)
  PROVE  Longer(s, r, i, w, n, d)
<1> SUFFICES ASSUME s \in Seq(Byte), r \in Piece, i \in Nat \ {0},
                    w \in Nat, n \in Nat, d \in Seq(Byte)
             PROVE  Longer(s, r, i, w, n, d)
  BY DEF Lengthens
<1> USE DEF Lengthens
<1>0. PICK l \in Nat, p \in Int : l = Len(s) /\ p = r.pos
  BY LenProperties DEF Piece
<1> DEFINE e(x) == IF r.kind = "diff_size" THEN (s[i + x - 1] + From[r.pos + x - 1]) % 256
                   ELSE s[i + x - 1]
           A == Data(s, r, i, w)
           B == Data(s, r, i, w + n)
<1>1. PICK a \in Seq(Byte) : a = Data(s, r, i, w) /\ Len(a) = w /\ \A j \in 1 .. w : a[j] = e(j)
  <2>1. i + w - 1 <= Len(s)
    BY <1>0
  <2>2. A \in Seq(Byte) /\ Len(A) = w /\ \A j \in 1 .. w : A[j] = e(j)
    BY <2>1, DataType
  <2> QED
    BY <2>2
<1>2. PICK b \in Seq(Byte) :
        b = Data(s, r, i, w + n) /\ Len(b) = w + n /\ \A j \in 1 .. w + n : b[j] = e(j)
  <2>1. w + n \in Nat /\ i + (w + n) - 1 <= Len(s)
    BY <1>0
  <2>2. B \in Seq(Byte) /\ Len(B) = w + n /\ \A j \in 1 .. w + n : B[j] = e(j)
    BY <2>1, DataType
  <2> QED
    BY <2>2
<1>3. \A m \in 1 .. n : d[m] = e(w + m)
  <2>1. ASSUME NEW m \in 1 .. n
        PROVE  d[m] = e(w + m)
    <3>1. i + w + m - 1 = i + (w + m) - 1 /\ p + w + m - 1 = p + (w + m) - 1
      OBVIOUS
    <3>2. d[m] = IF r.kind = "diff_size"
                 THEN (s[i + w + m - 1] + From[p + w + m - 1]) % 256
                 ELSE s[i + w + m - 1]
      BY <1>0
    <3> QED
      BY <1>0, <3>1, <3>2
  <2> QED
    BY <2>1
<1>31. Len(d) = n
  OBVIOUS
<1> HIDE DEF e, A, B, Lengthens
<1>4. /\ a \o d \in Seq(Byte) /\ Len(a \o d) = w + n
      /\ \A j \in 1 .. w + n : (a \o d)[j] = IF j <= w THEN a[j] ELSE d[j - w]
  <2>1. /\ a \o d \in Seq(Byte) /\ Len(a \o d) = Len(a) + Len(d)
        /\ \A j \in 1 .. Len(a) + Len(d) : (a \o d)[j] = IF j <= Len(a) THEN a[j] ELSE d[j - Len(a)]
    BY ConcatProperties
  <2> QED
    BY <1>1, <1>31, <2>1
<1>5. \A j \in 1 .. w + n : (a \o d)[j] = b[j]
  <2>1. ASSUME NEW j \in 1 .. w + n
        PROVE  (a \o d)[j] = b[j]
    <3>1. CASE j <= w
      BY <1>1, <1>2, <1>4, <3>1
    <3>2. CASE ~(j <= w)
      <4>1. PICK m \in 1 .. n : m = j - w /\ w + m = j
        BY <3>2
      <4> QED
        BY <1>2, <1>3, <1>4, <3>2, <4>1
    <3> QED
      BY <3>1, <3>2
  <2> QED
    BY <2>1
<1>6. a \o d = b
  BY <1>2, <1>4, <1>5, SeqEqual
<1>7. r.out \in Seq(Byte)
  BY DEF Piece
<1>8. (r.out \o a) \o d = r.out \o (a \o d)
  BY <1>1, <1>7, ConcatBytes
<1>9. r.out \o a \in Seq(Byte) /\ r.out \o b \in Seq(Byte)
  BY <1>1, <1>2, <1>7, ConcatProperties
<1> QED
  BY <1>1, <1>2, <1>6, <1>8, <1>9 DEF Longer

(* Where the engine is inside of a section: w bytes of the v that start at *)
(* i are in the target, c are not, and n are in the buffer.                *)
InPart(r, v, i, w, c, n, l) ==
  /\ Reached(Plain, to_size, r)
  /\ r.kind = IF state = "diff_data" THEN "diff_size" ELSE "extra_size"
  /\ Number(Plain, r.next).ok
  /\ v = Number(Plain, r.next).value /\ i = Number(Plain, r.next).next
  /\ ~((Len(r.out) + v) % SIZE_MOD > to_size)
  /\ c = chunk_size /\ w + c = v % SIZE_MOD
  /\ n = Len(buf) /\ l = Len(Plain)
  /\ usize.state = "first"
  /\ taken = i - 1 + w + (IF call = "none" THEN 0 ELSE n) /\ taken <= l
  /\ from_pos = IF state # "diff_data" THEN r.pos
                ELSE r.pos + w + (IF call = "to_write" THEN n ELSE 0)
  /\ SourceHas(r, IF call = "to_write" THEN w + n ELSE w)
  /\ out = r.out \o Data(Plain, r, i, w)
  /\ call = "from_read" => \A m \in 1 .. n : buf[m] = Plain[i + w + m - 1]
  /\ call = "to_write" => out \o buf = r.out \o Data(Plain, r, i, w + n)

(* What the invariant says of an engine inside of a section.               *)
LEMMA PlaceInSection ==
  ASSUME Matching, state \in DataStates
  PROVE  /\ IInv /\ Processing /\ Reported /\ Begun /\ Drained
         /\ state \notin {"init", "failed", "done"} /\ state \notin SizeStates
         /\ Plain \in Seq(Byte) /\ to_size \in Nat /\ to_size > 0
         /\ \E r \in Piece, v \in Int, i \in Nat \ {0}, w \in Nat, c \in Nat, n \in Nat,
               l \in Nat : InPart(r, v, i, w, c, n, l)
<1>1. IInv /\ Processing /\ Reported /\ Begun /\ Drained /\ Follows
  BY DEF Matching
<1>2. state \notin {"init", "failed", "done"} /\ state \notin SizeStates
  BY DEF DataStates, SizeStates
<1>3. /\ Plain \in Seq(Byte) /\ to_size \in Nat /\ to_size > 0 /\ Len(Plain) \in Nat
      /\ taken <= Len(Plain)
  BY <1>1, <1>2, BegunFacts DEF Begun
<1>4. PICK r : Reached(Plain, to_size, r) /\ At(r)
  BY <1>1, <1>2 DEF Follows
<1>5. InSection(r)
  BY <1>4 DEF At
<1>6. r \in Piece
  BY <1>3, <1>4, ReachedType
<1>7. PICK num : num = Number(Plain, r.next)
  OBVIOUS
<1>8. num.ok /\ num.value \in Int /\ num.next \in Nat \ {0}
  <2>1. num.ok /\ r.next \in Nat \ {0}
    BY <1>5, <1>6, <1>7 DEF InSection, Piece
  <2>2. num.value \in Int /\ num.next \in r.next + 1 .. Len(Plain) + 1
    BY <1>3, <1>7, <2>1, NumberType
  <2>3. PICK a \in Nat, l \in Nat, i \in Int :
          a = r.next /\ l = Len(Plain) /\ i = num.next /\ i \in a + 1 .. l + 1
    BY <1>3, <2>1, <2>2
  <2>4. i \in Nat \ {0}
    BY <2>3
  <2> QED
    BY <2>1, <2>2, <2>3, <2>4
<1>9. PICK v \in Int, i \in Nat \ {0}, l \in Nat : v = num.value /\ i = num.next /\ l = Len(Plain)
  BY <1>3, <1>8
<1>10. PICK c \in Nat, n \in Nat, m \in Nat : c = chunk_size /\ n = Len(buf) /\ m = v % SIZE_MOD
  <2>1. buf \in Seq(Byte) /\ chunk_size \in 0 .. SIZE_MOD - 1
    BY <1>1 DEF IInv, TypeOK, SourceTypeOK, TargetTypeOK
  <2>2. Len(buf) \in Nat
    BY <2>1, LenProperties
  <2>3. v % SIZE_MOD \in Nat
    BY SizeAssumption
  <2>4. chunk_size \in Nat
    BY <2>1, SizeAssumption
  <2> QED
    BY <2>2, <2>3, <2>4
<1>11. PICK w \in Nat : w = Written(num)
  BY <1>5, <1>7 DEF InSection
<1>12. w + c = v % SIZE_MOD
  <2>1. w = m - c
    BY <1>9, <1>10, <1>11 DEF Written
  <2> QED
    BY <1>10, <2>1
<1>13. /\ r.kind = IF state = "diff_data" THEN "diff_size" ELSE "extra_size"
       /\ usize.state = "first"
       /\ ~((Len(r.out) + v) % SIZE_MOD > to_size)
       /\ taken = i - 1 + w + (IF call = "none" THEN 0 ELSE n)
       /\ from_pos = IF state # "diff_data" THEN r.pos
                     ELSE r.pos + w + (IF call = "to_write" THEN n ELSE 0)
       /\ SourceHas(r, IF call = "to_write" THEN w + n ELSE w)
       /\ out = r.out \o Data(Plain, r, i, w)
       /\ call = "from_read" => \A x \in 1 .. n : buf[x] = Plain[i + w + x - 1]
       /\ call = "to_write" => out \o buf = r.out \o Data(Plain, r, i, w + n)
  BY <1>5, <1>7, <1>9, <1>10, <1>11 DEF InSection
<1>14. InPart(r, v, i, w, c, n, l)
  BY <1>3, <1>4, <1>7, <1>8, <1>9, <1>10, <1>12, <1>13 DEF InPart
<1> QED
  BY <1>1, <1>2, <1>3, <1>6, <1>14

(* The same of the next state.                                             *)
LEMMA SectionHeld ==
  ASSUME to_size' > 0, state' = "diff_data" \/ state' = "extra_data",
         NEW r \in Piece, NEW v \in Int, NEW i \in Nat \ {0}, NEW w \in Nat, NEW c \in Nat,
         NEW n \in Nat, NEW l \in Nat, InPart(r, v, i, w, c, n, l)'
  PROVE  Follows'
<1>1. Written(Number(Plain, r.next))' = w
  <2>1. PICK m \in Nat : m = v % SIZE_MOD
    BY SizeAssumption
  <2>2. v = Number(Plain, r.next)'.value /\ c = chunk_size' /\ w + c = m
    BY <2>1 DEF InPart
  <2>3. Written(Number(Plain, r.next))' = m - c
    BY <2>1, <2>2 DEF Written
  <2>4. m - c = w
    <3>1. w + c = m
      BY <2>2
    <3> QED
      BY ONLY <3>1, w \in Nat, c \in Nat, m \in Nat
  <2> QED
    BY <2>3, <2>4
<1>2. InSection(r)'
  BY <1>1 DEF InSection, InPart
<1>3. At(r)'
  BY <1>2 DEF At, DataStates, SizeStates
<1>4. Reached(Plain, to_size, r)'
  BY DEF InPart
<1> QED
  BY <1>3, <1>4 DEF Follows

(* All of the section is in the target.                                    *)
LEMMA SectionEndMatch ==
  ASSUME Matching, SectionEnd
  PROVE  (Reported /\ Begun /\ Drained /\ Follows)'
<1>1. /\ Once /\ state \in DataStates /\ chunk_size = 0 /\ call = "none"
      /\ state' = (IF state = "diff_data" THEN "extra_size" ELSE "adjustment")
      /\ res' = 0 /\ call' = "none"
  BY DEF SectionEnd, Goto, Once
<1>2. UNCHANGED << patch, patch_size, patch_offset, pc, cb_res, out, to_size,
                   sunk, taken, usize, window_known, from_pos >>
  BY DEF SectionEnd, input_vars, target_vars, reader_vars, source_vars
<1>3. /\ IInv /\ Processing /\ Reported /\ Begun /\ Drained
      /\ state \notin {"init", "failed", "done"}
      /\ Plain \in Seq(Byte) /\ to_size \in Nat /\ to_size > 0
  BY <1>1, PlaceInSection
<1>4. PICK r \in Piece, v \in Int, i \in Nat \ {0}, w \in Nat, c \in Nat, n \in Nat,
           l \in Nat : InPart(r, v, i, w, c, n, l)
  BY <1>1, PlaceInSection
<1>5. /\ Reached(Plain, to_size, r)
      /\ r.kind = IF state = "diff_data" THEN "diff_size" ELSE "extra_size"
      /\ Number(Plain, r.next).ok
      /\ v = Number(Plain, r.next).value /\ i = Number(Plain, r.next).next
      /\ ~((Len(r.out) + v) % SIZE_MOD > to_size)
      /\ c = 0 /\ w + c = v % SIZE_MOD /\ l = Len(Plain) /\ usize.state = "first"
      /\ taken = i - 1 + w /\ taken <= l
      /\ from_pos = IF state # "diff_data" THEN r.pos ELSE r.pos + w
      /\ SourceHas(r, w) /\ out = r.out \o Data(Plain, r, i, w)
  <2>1. r.pos \in Int
    BY DEF Piece
  <2> QED
    BY <1>1, <1>4, <2>1 DEF InPart
<1>6. PICK q : q = NextSection(Plain, to_size, r) /\ Reached(Plain, to_size, q)
  BY <1>3, <1>5, ReachedNext
<1>7. /\ q.kind = IF r.kind = "diff_size" THEN "extra_size" ELSE "adjustment"
      /\ q.next = i + w
      /\ q.pos = IF r.kind = "diff_size" THEN r.pos + w ELSE r.pos
      /\ q.out = r.out \o Data(Plain, r, i, w)
  <2>1. w = Number(Plain, r.next).value % SIZE_MOD
    BY <1>5
  <2>2. w <= Number(Plain, r.next).value % SIZE_MOD
    BY <2>1
  <2>3. i + w - 1 <= l
    BY <1>5
  <2>4. Inside(Plain, to_size, r, w)
    BY <1>5, <2>2, <2>3 DEF Inside
  <2>5. /\ Plain \in Seq(Byte) /\ to_size \in Nat /\ r \in Piece /\ w \in Nat
        /\ q = NextSection(Plain, to_size, r)
    BY <1>3, <1>6
  <2>6. Passed(Plain, r, w, q)
    BY ONLY <2>1, <2>4, <2>5, SectionWhole
  <2> QED
    BY <1>5, <2>6 DEF Passed
<1>8. /\ q.kind = state' /\ q.next = taken + 1 /\ q.pos = from_pos /\ q.out = out
  <2>1. q.kind = state'
    BY <1>1, <1>5, <1>7 DEF DataStates
  <2>2. q.next = taken + 1
    BY <1>5, <1>7
  <2>3. q.pos = from_pos
    BY <1>1, <1>5, <1>7 DEF DataStates
  <2> QED
    BY <1>5, <1>7, <2>1, <2>2, <2>3
<1>9. Plain' = Plain
  BY <1>2, ExpectedKept
<1>10. NumberHeld(Plain, q.next, taken, usize)
  <2>1. taken \in Nat
    BY <1>5
  <2> QED
    BY <1>5, <1>8, <2>1, NumberBegun
<1>11. InNumber(q)'
  BY <1>2, <1>8, <1>9, <1>10 DEF InNumber
<1>12. At(q)'
  BY <1>1, <1>11 DEF At, SizeStates, DataStates
<1>13. Follows'
  BY <1>2, <1>3, <1>6, <1>9, <1>12 DEF Follows
<1>14. state' \notin {"init", "failed"} /\ pc \in {"process", "finalize"}
  BY <1>1 DEF Once
<1>15. Reported'
  BY <1>1, <1>2, <1>3, <1>14, SameTarget, ReportedGoes
<1>16. Begun'
  BY <1>2, <1>3, <1>14, BegunGoes DEF Begun
<1>17. Drained'
  BY <1>2, <1>3 DEF Drained, Upto
<1> QED
  BY <1>13, <1>15, <1>16, <1>17

(* A piece of the stream as it is handed over.                             *)
LEMMA PlainPiece ==
  ASSUME InputTypeOK, NEW t \in Nat, NEW n \in Nat, t + n <= Len(Plain)
  PROVE  /\ SubSeq(patch.plain, t + 1, t + n) \in Seq(Byte)
         /\ Len(SubSeq(patch.plain, t + 1, t + n)) = n
         /\ \A m \in 1 .. n : SubSeq(patch.plain, t + 1, t + n)[m] = Plain[t + m]
<1>1. /\ Plain \in Seq(Byte) /\ Len(Plain) \in Nat
      /\ \A m \in 1 .. Len(Plain) : m <= Len(patch.plain) /\ Plain[m] = patch.plain[m]
  BY PlainFacts, LenProperties
<1>2. PICK l \in Nat : l = Len(Plain)
  BY <1>1
<1>3. PICK p \in Seq(Byte), k \in Nat : p = patch.plain /\ k = Len(p)
  <2>1. patch.plain \in Seq(Byte) /\ Len(patch.plain) \in Nat
    BY PatchFacts, InputFacts, LenProperties
  <2> QED
    BY <2>1
<1>4. \A m \in t + 1 .. t + n : m \in 1 .. l /\ m \in 1 .. k
  BY <1>1, <1>2, <1>3
<1>5. \A m \in t + 1 .. t + n : p[m] \in Byte
  BY <1>3, <1>4, ElementOfSeq
<1>6. PICK a \in Nat, b \in Nat : a = t + 1 /\ b = t + n
  OBVIOUS
<1>7. /\ SubSeq(p, a, b) \in Seq(Byte)
      /\ Len(SubSeq(p, a, b)) = IF a <= b THEN b - a + 1 ELSE 0
      /\ \A m \in 1 .. b - a + 1 : SubSeq(p, a, b)[m] = p[a + m - 1]
  BY <1>5, <1>6, SubSeqProperties
<1>8. (IF a <= b THEN b - a + 1 ELSE 0) = n /\ b - a + 1 = n
      /\ \A m \in 1 .. n : a + m - 1 = t + m /\ t + m \in t + 1 .. t + n
  BY <1>6
<1>9. \A m \in 1 .. n : SubSeq(p, a, b)[m] = Plain[t + m]
  <2>1. ASSUME NEW m \in 1 .. n
        PROVE  SubSeq(p, a, b)[m] = Plain[t + m]
    <3>1. SubSeq(p, a, b)[m] = p[t + m]
      BY <1>7, <1>8
    <3>2. t + m \in 1 .. Len(Plain)
      BY <1>2, <1>4, <1>8
    <3> QED
      BY <1>1, <1>3, <3>1, <3>2
  <2> QED
    BY <2>1
<1> QED
  BY <1>3, <1>6, <1>7, <1>8, <1>9

(* Bytes of the section are had, or none: a stall (detools.c:489-538).     *)
LEMMA DecompressDataMatch ==
  ASSUME Matching, DecompressData
  PROVE  (Reported /\ Begun /\ Drained /\ Follows)'
<1> DEFINE most == IF chunk_size < TO_BUF THEN chunk_size ELSE TO_BUF
<1>1. /\ Once /\ state \in DataStates /\ chunk_size > 0 /\ call = "none"
      /\ pc \in {"process", "finalize"}
  BY DEF DecompressData, Once
<1>2. UNCHANGED << patch, patch_size, patch_offset, pc, cb_res, out, to_size, chunk_size,
                   usize, from_pos >>
  BY DEF DecompressData, input_vars, target_vars
<1>3. /\ IInv /\ Processing /\ Reported /\ Begun /\ Drained
      /\ state \notin {"init", "failed", "done"}
      /\ Plain \in Seq(Byte) /\ to_size \in Nat /\ to_size > 0
  BY <1>1, PlaceInSection
<1>4. PICK r \in Piece, v \in Int, i \in Nat \ {0}, w \in Nat, c \in Nat, n \in Nat,
           l \in Nat : InPart(r, v, i, w, c, n, l)
  BY <1>1, PlaceInSection
<1>5. /\ Reached(Plain, to_size, r)
      /\ r.kind = IF state = "diff_data" THEN "diff_size" ELSE "extra_size"
      /\ Number(Plain, r.next).ok
      /\ v = Number(Plain, r.next).value /\ i = Number(Plain, r.next).next
      /\ ~((Len(r.out) + v) % SIZE_MOD > to_size)
      /\ c = chunk_size /\ w + c = v % SIZE_MOD /\ n = Len(buf) /\ l = Len(Plain)
      /\ usize.state = "first" /\ taken = i - 1 + w
      /\ from_pos = IF state # "diff_data" THEN r.pos ELSE r.pos + w
      /\ SourceHas(r, w) /\ out = r.out \o Data(Plain, r, i, w)
  <2>1. r.pos \in Int
    BY DEF Piece
  <2> QED
    BY <1>1, <1>4, <2>1 DEF InPart
<1>6. PICK a \in {0, 1}, got \in 0 .. TO_BUF :
        /\ Decompress(most, a, got)
        /\ IF a = 1 THEN Stalled /\ UNCHANGED buf
           ELSE /\ buf' = SubSeq(patch.plain, taken + 1, taken + got)
                /\ call' = IF state = "diff_data" THEN "from_read" ELSE "to_write"
                /\ UNCHANGED << state, res >>
  BY DEF DecompressData
<1>7. most \in Nat \ {0}
  BY <1>1, <1>5, ChunkAssumption
<1> HIDE DEF most
<1>8. /\ taken' = taken + got /\ Drained'
      /\ a # -DETOOLS_HEATSHRINK_HEADER /\ window_known' => patch.heatshrink = HEATSHRINK_STATIC
      /\ a = 0 => /\ got \in 1 .. most /\ taken + got <= Len(Plain)
                  /\ patch.heatshrink = HEATSHRINK_STATIC
      /\ a = 1 => got = 0
      /\ a = 1 /\ patch_offset = patch_size =>
           /\ taken = Len(Plain)
           /\ patch.heatshrink = HEATSHRINK_STATIC \/ patch_size = patch.head_len
  BY <1>2, <1>3, <1>6, <1>7, DecompressMore
<1>9. a # -DETOOLS_HEATSHRINK_HEADER
  BY <1>6 DEF DETOOLS_HEATSHRINK_HEADER
<1>10. PICK t \in Nat : t = taken
  BY <1>5
<1>11. CASE a = 1
  <2>1. Stalled /\ UNCHANGED buf /\ state' = state /\ call' = "none" /\ taken' = taken
    BY <1>6, <1>8, <1>10, <1>11 DEF Stalled
  <2>2. ASSUME patch_offset = patch_size
        PROVE  Agrees(-DETOOLS_NOT_ENOUGH_PATCH_DATA)
    <3>1. PICK q : q = NextSection(Plain, to_size, r) /\ Reached(Plain, to_size, q)
      BY <1>3, <1>5, ReachedNext
    <3>2. Inside(Plain, to_size, r, w)
      <4>1. w <= v % SIZE_MOD /\ i + w - 1 <= Len(Plain)
        <5>1. i + w - 1 = l
          BY <1>5, <1>8, <1>11, <2>2
        <5>2. PICK k \in Int : k = v % SIZE_MOD /\ w + c = k
          BY <1>5
        <5>3. w <= k
          BY <5>2
        <5>4. i + w - 1 <= l
          BY <5>1
        <5> QED
          BY <1>5, <5>2, <5>3, <5>4
      <4> QED
        BY <1>5, <4>1 DEF Inside
    <3>3. w < Number(Plain, r.next).value % SIZE_MOD /\ Number(Plain, r.next).next + w - 1 = Len(Plain)
      BY <1>1, <1>5, <1>8, <1>11, <2>2
    <3>4. q.kind = "end" /\ q.ret = -DETOOLS_NOT_ENOUGH_PATCH_DATA /\ q.out = out
      <4>1. CutShort(Plain, r, w, q)
        <5>1. /\ Plain \in Seq(Byte) /\ to_size \in Nat /\ r \in Piece /\ w \in Nat
              /\ q = NextSection(Plain, to_size, r)
          BY <1>3, <3>1
        <5> QED
          BY ONLY <3>2, <3>3, <5>1, SectionCut
      <4> QED
        BY <1>5, <4>1 DEF CutShort
    <3>5. q.ret < 0
      BY <3>4 DEF DETOOLS_NOT_ENOUGH_PATCH_DATA
    <3>6. Agrees(q.ret)
      BY <1>3, <1>8, <1>11, <2>2, <3>1, <3>4, <3>5, EndAgrees
    <3> QED
      BY <3>4, <3>6
  <2>3. Reported'
    BY <1>1, <1>2, <1>3, <2>1, <2>2, ReportedStalls
  <2>4. Begun'
    BY <1>2, <1>3, <1>8, <1>9, <2>1, BegunGoes
  <2>5. Follows'
    <3>1. /\ state' = state /\ call' = call /\ taken' = taken /\ buf' = buf
      BY <1>1, <2>1
    <3>2. Plain' = Plain
      BY <1>2, ExpectedKept
    <3>3. InPart(r, v, i, w, c, n, l)'
      BY <1>2, <1>4, <3>1, <3>2 DEF InPart
    <3>4. to_size' > 0 /\ (state' = "diff_data" \/ state' = "extra_data")
      BY <1>1, <1>2, <1>3, <3>1 DEF DataStates
    <3> QED
      BY <3>3, <3>4, SectionHeld
  <2> QED
    BY <1>8, <2>3, <2>4, <2>5
<1>12. CASE a = 0
  <2>1. /\ buf' = SubSeq(patch.plain, taken + 1, taken + got)
        /\ call' = (IF state = "diff_data" THEN "from_read" ELSE "to_write")
        /\ state' = state /\ res' = res
    BY <1>6, <1>12
  <2>2. PICK g \in Nat : g = got /\ t + g <= l
    BY <1>5, <1>6, <1>7, <1>8, <1>10, <1>12
  <2>3. InputTypeOK
    BY <1>3 DEF IInv, TypeOK
  <2>4. PICK b \in Seq(Byte) :
          b = buf' /\ Len(b) = g /\ \A m \in 1 .. g : b[m] = Plain[t + m]
    <3>1. buf' = SubSeq(patch.plain, t + 1, t + g) /\ t + g <= Len(Plain)
      BY <1>5, <1>10, <2>1, <2>2
    <3> QED
      BY <2>3, <3>1, PlainPiece
  <2>5. t = i - 1 + w
    BY <1>5, <1>10
  <2>6. \A m \in 1 .. g : b[m] = Plain[i + w + m - 1]
    <3>1. \A m \in 1 .. g : t + m = i + w + m - 1
      BY <2>5
    <3> QED
      BY <2>4, <3>1
  <2>7. PICK k : k = call'
    OBVIOUS
  <2>8. k = (IF state = "diff_data" THEN "from_read" ELSE "to_write")
    BY <2>1, <2>7
  <2>9. k = "to_write" => out' \o b = r.out \o Data(Plain, r, i, w + g)
    <3>1. ASSUME k = "to_write"
          PROVE  out' \o b = r.out \o Data(Plain, r, i, w + g)
      <4>1. r.kind = "extra_size"
        BY <1>1, <1>5, <2>8, <3>1
      <4>2. SourceHas(r, w + g)
        BY <4>1 DEF SourceHas
      <4>3. i + w + g - 1 <= Len(Plain)
        <5>1. l = Len(Plain)
          BY <1>5
        <5> QED
          BY <2>2, <2>5, <5>1
      <4>4. \A m \in 1 .. g : b[m] =
              IF r.kind = "diff_size" THEN (Plain[i + w + m - 1] + From[r.pos + w + m - 1]) % 256
              ELSE Plain[i + w + m - 1]
        BY <2>6, <4>1
      <4>5. (r.out \o Data(Plain, r, i, w)) \o b = r.out \o Data(Plain, r, i, w + g)
        <5>1. /\ Plain \in Seq(Byte) /\ SourceHas(r, w) /\ b \in Seq(Byte) /\ Len(b) = g
              /\ r \in Piece /\ i \in Nat \ {0} /\ w \in Nat /\ g \in Nat
          BY <1>3, <1>5, <2>4
        <5> QED
          <6>1. Lengthens(Plain, r, i, w, g, b)
            BY ONLY <4>2, <4>3, <4>4, <5>1 DEF Lengthens
          <6>2. Longer(Plain, r, i, w, g, b)
            BY <6>1, DataMore
          <6> QED
            BY <6>2 DEF Longer
      <4> QED
        BY <1>2, <1>5, <4>5
    <3> QED
      BY <3>1
  <2>10. Follows'
    <3>1. /\ taken' = i - 1 + w + (IF k = "none" THEN 0 ELSE g)
      BY <1>8, <1>10, <2>2, <2>5, <2>8
    <3>2. from_pos' = IF state # "diff_data" THEN r.pos
                      ELSE r.pos + w + (IF k = "to_write" THEN g ELSE 0)
      <4>1. r.pos \in Int
        BY DEF Piece
      <4> QED
        BY <1>2, <1>5, <2>8, <4>1
    <3>3. SourceHas(r, IF k = "to_write" THEN w + g ELSE w)
      BY <1>1, <1>5, <2>8 DEF SourceHas, DataStates
    <3>4. /\ state' = state /\ call' = k /\ chunk_size' = c /\ Len(buf') = g
          /\ usize'.state = "first" /\ out' = r.out \o Data(Plain, r, i, w)
          /\ to_size' = to_size /\ Plain' = Plain
      BY <1>2, <1>5, <2>1, <2>4, <2>7, ExpectedKept
    <3>5. /\ k = "from_read" => \A m \in 1 .. g : buf'[m] = Plain[i + w + m - 1]
          /\ k = "to_write" => out' \o buf' = r.out \o Data(Plain, r, i, w + g)
      BY <2>4, <2>6, <2>9
    <3>6. taken' <= l
      BY <1>8, <1>10, <2>2
    <3>7. InPart(r, v, i, w, c, g, l)'
      BY <1>5, <3>1, <3>2, <3>3, <3>4, <3>5, <3>6 DEF InPart
    <3>8. to_size' > 0 /\ (state' = "diff_data" \/ state' = "extra_data")
      BY <1>1, <1>3, <3>4 DEF DataStates
    <3> QED
      BY <3>7, <3>8, SectionHeld
  <2>11. state \notin {"init", "failed"} /\ state' \notin {"init", "failed"}
    BY <1>3, <2>1
  <2>12. Reported'
    BY <1>1, <1>2, <1>3, <2>1, <2>11, SameTarget, ReportedGoes
  <2>13. Begun'
    BY <1>2, <1>3, <1>8, <1>12, <2>11, BegunGoes
  <2> QED
    BY <1>8, <2>10, <2>12, <2>13
<1> QED
  BY <1>6, <1>11, <1>12

-----------------------------------------------------------------------------
(***************************************************************************)
(* The rest of the data handlers: the source is added, the target is       *)
(* written.                                                                *)
(***************************************************************************)
LEMMA FromReadMatch ==
  ASSUME Matching, NEW a, FromRead(a)
  PROVE  (Reported /\ Begun /\ Drained /\ Follows)'
<1>1. /\ call = "from_read"
      /\ UNCHANGED << patch, patch_size, patch_offset, pc, cb_res, out, to_size,
                      chunk_size, sunk, taken, usize, window_known >>
  BY DEF FromRead, input_vars, target_vars, reader_vars
<1>2. IInv /\ state = "diff_data" /\ state \in DataStates /\ pc \in {"process", "finalize"}
  BY <1>1 DEF Matching, IInv, Phases, DataStates
<1>3. /\ Processing /\ Reported /\ Begun /\ Drained
      /\ state \notin {"init", "failed", "done"}
      /\ Plain \in Seq(Byte) /\ to_size \in Nat /\ to_size > 0
  BY <1>2, PlaceInSection
<1>4. CASE a # 0
  <2>1. Failed(DETOOLS_IO_FAILED)
    BY <1>4 DEF FromRead
  <2> QED
    BY <1>1, <1>2, <1>3, <2>1, FailedCallback
<1>5. CASE a = 0
  <2>1. PICK r \in Piece, v \in Int, i \in Nat \ {0}, w \in Nat, c \in Nat, n \in Nat,
             l \in Nat : InPart(r, v, i, w, c, n, l)
    BY <1>2, PlaceInSection
  <2>2. /\ Reached(Plain, to_size, r) /\ r.kind = "diff_size"
        /\ Number(Plain, r.next).ok
        /\ v = Number(Plain, r.next).value /\ i = Number(Plain, r.next).next
        /\ ~((Len(r.out) + v) % SIZE_MOD > to_size)
        /\ c = chunk_size /\ w + c = v % SIZE_MOD /\ n = Len(buf) /\ l = Len(Plain)
        /\ usize.state = "first" /\ taken = i - 1 + w + n /\ taken <= l
        /\ from_pos = r.pos + w + 0
        /\ SourceHas(r, w) /\ out = r.out \o Data(Plain, r, i, w)
        /\ \A m \in 1 .. n : buf[m] = Plain[i + w + m - 1]
    BY <1>1, <1>2, <2>1 DEF InPart
  <2>3. PICK p \in Int : p = r.pos
    BY DEF Piece
  <2>4. /\ from_pos .. from_pos + n - 1 \subseteq DOMAIN From
        /\ buf' = [m \in 1 .. n |-> (buf[m] + From[from_pos + m - 1]) % 256]
        /\ from_pos' = from_pos + n /\ call' = "to_write" /\ state' = state /\ res' = res
    BY <1>5, <2>2 DEF FromRead
  <2>5. from_pos = p + w
    BY <2>2, <2>3
  <2>6. SourceHas(r, w + n)
    <3>1. p .. p + w - 1 \subseteq DOMAIN From
      BY <2>2, <2>3 DEF SourceHas
    <3>2. p + w .. p + w + n - 1 \subseteq DOMAIN From
      BY <2>4, <2>5
    <3>3. \A x \in p .. p + (w + n) - 1 : x \in p .. p + w - 1 \/ x \in p + w .. p + w + n - 1
      OBVIOUS
    <3> QED
      BY <2>3, <3>1, <3>2, <3>3 DEF SourceHas
  <2>7. PICK b \in Seq(Byte) : b = buf'
    <3>1. buf' \in Seq(Byte)
      <4>1. IInv'
        BY <1>2, FromReadStep
      <4> QED
        BY <4>1 DEF IInv, TypeOK, SourceTypeOK
    <3> QED
      BY <3>1
  <2>8. Len(b) = n /\ \A m \in 1 .. n : b[m] = (Plain[i + w + m - 1] + From[p + w + m - 1]) % 256
    <3>1. b = [m \in 1 .. n |-> (buf[m] + From[p + w + m - 1]) % 256]
      BY <2>4, <2>5, <2>7
    <3>2. Len(b) = n
      <4>1. DOMAIN b = 1 .. n
        BY <3>1
      <4>2. Len(b) \in Nat /\ DOMAIN b = 1 .. Len(b)
        BY LenProperties
      <4> QED
        BY <4>1, <4>2
    <3>3. \A m \in 1 .. n : b[m] = (buf[m] + From[p + w + m - 1]) % 256
      BY <3>1
    <3> QED
      BY <2>2, <3>2, <3>3
  <2>9. out \o b = r.out \o Data(Plain, r, i, w + n)
    <3>1. Lengthens(Plain, r, i, w, n, b)
      <4>1. i + w + n - 1 <= Len(Plain)
        <5>1. taken = i - 1 + w + n /\ taken <= l /\ l = Len(Plain)
          BY <2>2
        <5> QED
          BY <5>1
      <4> QED
        BY <1>3, <2>2, <2>3, <2>6, <2>8, <4>1 DEF Lengthens
    <3>2. Longer(Plain, r, i, w, n, b)
      BY <3>1, DataMore
    <3> QED
      BY <2>2, <3>2 DEF Longer
  <2>10. Follows'
    <3>1. /\ state' = "diff_data" /\ call' = "to_write" /\ chunk_size' = c /\ Len(buf') = n
          /\ usize'.state = "first" /\ out' = r.out \o Data(Plain, r, i, w)
          /\ to_size' = to_size /\ Plain' = Plain /\ taken' = i - 1 + w + n /\ taken' <= l
          /\ from_pos' = r.pos + w + n
          /\ out' \o buf' = r.out \o Data(Plain, r, i, w + n)
      <4>1. from_pos' = r.pos + w + n
        BY <2>3, <2>4, <2>5
      <4> QED
        BY <1>1, <1>2, <2>2, <2>4, <2>7, <2>8, <2>9, <4>1, ExpectedKept
    <3>2. InPart(r, v, i, w, c, n, l)'
      BY <2>2, <2>6, <3>1 DEF InPart
    <3> QED
      BY <1>3, <3>1, <3>2, SectionHeld
  <2>11. Reported'
    <3>1. res' = res /\ (Once \/ call # "none") /\ state' # "failed" /\ state # "failed"
      BY <1>1, <1>2, <2>4
    <3> QED
      BY <1>1, <1>2, <1>3, <3>1, SameTarget, ReportedGoes
  <2>12. Begun'
    <3>1. state' \notin {"init", "failed"}
      BY <1>3, <2>4
    <3>2. window_known' => patch.heatshrink = HEATSHRINK_STATIC
      BY <1>1, <1>3 DEF Begun
    <3> QED
      BY <1>1, <1>3, <3>1, <3>2, BegunGoes
  <2>13. Drained'
    BY <1>1, <1>3 DEF Drained, Upto
  <2> QED
    BY <2>10, <2>11, <2>12, <2>13
<1> QED
  BY <1>4, <1>5

(* The bytes are written, or the update has failed.                        *)
LEMMA ToWriteMatch ==
  ASSUME Matching, NEW a, ToWrite(a)
  PROVE  (Reported /\ Begun /\ Drained /\ Follows)'
<1>1. /\ call = "to_write" /\ chunk_size' = chunk_size - Len(buf) /\ buf' = << >>
      /\ UNCHANGED << patch, patch_size, patch_offset, pc, cb_res, to_size,
                      sunk, taken, usize, window_known, from_pos >>
  BY DEF ToWrite, input_vars, reader_vars
<1>2. IInv /\ state \in DataStates /\ pc \in {"process", "finalize"}
  BY <1>1 DEF Matching, IInv, Phases
<1>3. /\ Processing /\ Reported /\ Begun /\ Drained
      /\ state \notin {"init", "failed", "done"}
      /\ Plain \in Seq(Byte) /\ to_size \in Nat /\ to_size > 0
  BY <1>2, PlaceInSection
<1>4. CASE a # 0
  <2>1. Failed(DETOOLS_IO_FAILED) /\ out' = out
    BY <1>4 DEF ToWrite
  <2> QED
    BY <1>1, <1>2, <1>3, <2>1, FailedCallback
<1>5. CASE a = 0
  <2>1. PICK r \in Piece, v \in Int, i \in Nat \ {0}, w \in Nat, c \in Nat, n \in Nat,
             l \in Nat : InPart(r, v, i, w, c, n, l)
    BY <1>2, PlaceInSection
  <2>2. /\ Reached(Plain, to_size, r)
        /\ r.kind = IF state = "diff_data" THEN "diff_size" ELSE "extra_size"
        /\ Number(Plain, r.next).ok
        /\ v = Number(Plain, r.next).value /\ i = Number(Plain, r.next).next
        /\ ~((Len(r.out) + v) % SIZE_MOD > to_size)
        /\ c = chunk_size /\ w + c = v % SIZE_MOD /\ n = Len(buf) /\ l = Len(Plain)
        /\ usize.state = "first" /\ taken = i - 1 + w + n /\ taken <= l
        /\ from_pos = IF state # "diff_data" THEN r.pos ELSE r.pos + w + n
        /\ SourceHas(r, w + n) /\ out \o buf = r.out \o Data(Plain, r, i, w + n)
    BY <1>1, <1>2, <2>1 DEF InPart
  <2>3. out' = out \o buf /\ state' = state /\ res' = 0 /\ call' = "none"
    BY <1>5 DEF ToWrite, Goto
  <2>4. 0 < n /\ n <= c
    <3>1. 0 < Len(buf) /\ Len(buf) <= chunk_size
      BY <1>1, <1>2 DEF IInv, Phases
    <3> QED
      BY <2>2, <3>1
  <2>5. PICK x \in Nat, y \in Nat : x = w + n /\ y = c - n
    BY <2>4
  <2>6. taken \in Nat /\ taken > 0 /\ taken = i - 1 + x + 0
    <3>1. taken = i - 1 + w + n
      BY <2>2
    <3> QED
      BY <2>4, <2>5, <3>1
  <2>7. patch.heatshrink = HEATSHRINK_STATIC
    BY <1>2, <1>3, <2>6, BegunFacts
  <2>8. x + y = v % SIZE_MOD /\ x <= v % SIZE_MOD /\ i + x - 1 <= l
    <3>1. PICK m \in Nat : m = v % SIZE_MOD
      BY SizeAssumption
    <3>2. w + c = m
      BY <2>2, <3>1
    <3>3. x + y = m /\ x <= m
      BY <2>5, <3>2
    <3>4. taken = i - 1 + w + n /\ taken <= l
      BY <2>2
    <3>5. i + x - 1 <= l
      BY <2>5, <3>4
    <3> QED
      BY <3>1, <3>3, <3>5
  <2>9. out' = r.out \o Data(Plain, r, i, x) /\ SourceHas(r, x)
    BY <2>2, <2>3, <2>5
  <2>10. out' \in Seq(Byte)
    <3>1. IInv'
      BY <1>2, ToWriteStep
    <3> QED
      BY <3>1 DEF IInv, TypeOK, TargetTypeOK
  <2>11. Begins(out', Expected.out) \/ Expected.ret = -DETOOLS_IO_FAILED
    <3>1. Inside(Plain, to_size, r, x)
      BY <1>2, <2>2, <2>8, <2>9 DEF Inside, DataStates
    <3>2. PICK o \in Seq(Byte) : o = out'
      BY <2>10
    <3>3. LET q == NextSection(Plain, to_size, r)
          IN  (q.kind = "end" /\ q.ret = -DETOOLS_IO_FAILED) \/ Begins(o, q.out)
      <4>1. Plain \in Seq(Byte) /\ to_size \in Nat /\ r \in Piece /\ x \in Nat
        BY <1>3
      <4>2. LET q == NextSection(Plain, to_size, r)
            IN  \/ q.kind = "end" /\ q.ret = -DETOOLS_IO_FAILED
                \/ Begins(r.out \o Data(Plain, r, Number(Plain, r.next).next, x), q.out)
        BY ONLY <3>1, <4>1, SectionPart
      <4> QED
        BY <2>2, <2>9, <3>2, <4>2
    <3>4. Begins(o, Expected.out) \/ Expected.ret = -DETOOLS_IO_FAILED
      BY <1>2, <1>3, <2>2, <2>7, <3>3, PartAgrees
    <3> QED
      BY <3>2, <3>4
  <2>12. Follows'
    <3>1. /\ state' = state /\ call' = "none" /\ chunk_size' = y /\ Len(buf') = 0
          /\ usize'.state = "first" /\ out' = r.out \o Data(Plain, r, i, x)
          /\ to_size' = to_size /\ Plain' = Plain /\ taken' = i - 1 + x + 0 /\ taken' <= l
          /\ SourceHas(r, x)
      <4>1. chunk_size' = y
        BY <1>1, <2>2, <2>5
      <4> QED
        BY <1>1, <2>2, <2>3, <2>6, <2>9, <4>1, ExpectedKept, EmptySeq
    <3>2. from_pos' = IF state # "diff_data" THEN r.pos ELSE r.pos + x + 0
      <4>1. PICK p \in Int : p = r.pos
        BY DEF Piece
      <4>2. from_pos = IF state # "diff_data" THEN p ELSE p + w + n
        BY <2>2, <4>1
      <4> QED
        BY <1>1, <2>5, <4>1, <4>2
    <3>3. InPart(r, v, i, x, y, 0, l)'
      BY <2>2, <2>8, <3>1, <3>2 DEF InPart
    <3>4. to_size' > 0 /\ (state' = "diff_data" \/ state' = "extra_data")
      BY <1>2, <1>3, <3>1 DEF DataStates
    <3> QED
      BY <3>3, <3>4, SectionHeld
  <2>13. Reported'
    <3>1. state' # "failed" /\ state # "failed"
      BY <1>3, <2>3
    <3> QED
      BY <1>1, <1>2, <1>3, <2>3, <2>11, <3>1, ReportedGoes
  <2>14. Begun'
    <3>1. state' \notin {"init", "failed"}
      BY <1>3, <2>3
    <3> QED
      BY <1>1, <1>3, <2>7, <3>1, BegunGoes
  <2>15. Drained'
    BY <1>1, <1>3 DEF Drained, Upto
  <2> QED
    BY <2>12, <2>13, <2>14, <2>15
<1> QED
  BY <1>4, <1>5

-----------------------------------------------------------------------------
(***************************************************************************)
(* The first chunk, and the answer at the end of the patch.                *)
(***************************************************************************)
LEMMA ProcessInitMatch ==
  ASSUME Matching, ProcessInit
  PROVE  (Reported /\ Begun /\ Drained /\ Follows)'
<1>1. IInv /\ Processing /\ Reported /\ Begun /\ Drained
  BY DEF Matching
<1>2. /\ state = "init" /\ Once /\ call = "none" /\ pc \in {"process", "finalize"}
      /\ pc = "process" => chunk_left > 0
      /\ UNCHANGED << patch, patch_size, patch_offset, pc, cb_res, out, from_pos,
                      sunk, taken, usize, window_known >>
  BY DEF ProcessInit, Once, input_vars, reader_vars, source_vars
<1>3. PICK n \in Nat, h \in Nat, z \in Nat, c \in Nat, k \in Nat :
        /\ n = patch_size /\ h = patch.head_len /\ z = patch.to_size
        /\ c = chunk_left /\ k = CHUNK_BUF
  <2>1. patch_size \in Nat /\ patch.head_len \in Nat /\ patch.to_size \in Nat
    BY <1>1, InputFacts DEF IInv, TypeOK
  <2>2. chunk_left \in 0 .. CHUNK_BUF
    BY <1>1 DEF IInv, TypeOK, ReaderTypeOK
  <2> QED
    BY <2>1, <2>2, ChunkAssumption
<1>4. /\ ~window_known /\ sunk = 0 /\ taken = 0 /\ patch_offset = c
      /\ out = << >> /\ from_pos = 0 /\ usize.state = "first"
      /\ pc = "process" => c = IF n < k THEN n ELSE k
      /\ pc = "finalize" => c = 0
  <2>1. ~window_known /\ sunk = 0 /\ taken = 0
    BY <1>1, <1>2 DEF IInv, Accounted
  <2>2. Compressed = 0 /\ patch_offset = chunk_left + Compressed + 0
    BY <1>1, <1>2, <2>1 DEF IInv, Accounted, Compressed
  <2>3. pc = "finalize" => chunk_left = 0
    BY <1>1 DEF IInv, Phases
  <2> QED
    BY <1>1, <1>2, <1>3, <2>1, <2>2, <2>3 DEF Begun
<1>5. InputTypeOK /\ patch \in Patches /\ h > 0
  BY <1>1, <1>3, PatchesAssumption DEF IInv, TypeOK, InputTypeOK, Patch
<1>6. Drained'
  BY <1>1, <1>2 DEF Drained, Upto
<1>7. ASSUME NEW e \in {DETOOLS_SHORT_HEADER, DETOOLS_BAD_PATCH_TYPE,
                        DETOOLS_CORRUPT_PATCH_OVERFLOW},
             Failed(e), cb_res = 0 => Expected = Answer(-e)
      PROVE  (Reported /\ Begun /\ Drained /\ Follows)'
  <2>1. e \in Nat \ {0, DETOOLS_ALREADY_DONE}
    BY <1>7 DEF DETOOLS_SHORT_HEADER, DETOOLS_BAD_PATCH_TYPE,
                DETOOLS_CORRUPT_PATCH_OVERFLOW, DETOOLS_ALREADY_DONE
  <2>2. cb_res = 0 => Agrees(-e)
    BY <1>4, <1>7 DEF Agrees, Answer
  <2>3. Reported'
    BY <1>1, <1>2, <1>7, <2>1, <2>2, ReportedFails
  <2>4. state' = "failed"
    BY <1>7 DEF Failed
  <2> QED
    BY <1>6, <2>3, <2>4 DEF Begun, Follows
<1>8. CASE c = 0
  <2>1. Failed(DETOOLS_SHORT_HEADER)
    BY <1>3, <1>8 DEF ProcessInit
  <2>2. cb_res = 0 => Expected = Answer(-DETOOLS_SHORT_HEADER)
    <3>1. cb_res = 0 => patch_offset = patch_size
      BY <1>1, <1>2, <1>3, <1>8 DEF Reported
    <3>2. cb_res = 0 => n = 0
      BY <1>3, <1>4, <1>8, <3>1
    <3> QED
      BY <1>3, <3>2 DEF Expected, Reference
  <2> QED
    BY <1>7, <2>1, <2>2
<1>9. CASE c > 0
  <2>1. pc = "process" /\ n > 0 /\ n # 0 /\ c = (IF n < k THEN n ELSE k) /\ c <= n
    BY <1>2, <1>4, <1>9
  <2>2. CASE patch.type # PATCH_TYPE_SEQUENTIAL
    <3>1. Failed(DETOOLS_BAD_PATCH_TYPE)
      BY <1>3, <1>9, <2>2 DEF ProcessInit
    <3>2. Expected = Answer(-DETOOLS_BAD_PATCH_TYPE)
      BY <1>3, <2>1, <2>2 DEF Expected, Reference
    <3> QED
      BY <1>7, <3>1, <3>2
  <2>3. CASE patch.type = PATCH_TYPE_SEQUENTIAL
    <3>0. ~(c = 0)
      BY <1>9
    <3>1. \/ c < h /\ c < 6 /\ Failed(DETOOLS_SHORT_HEADER)
          \/ h > 5 /\ c > 5 /\ Failed(DETOOLS_CORRUPT_PATCH_OVERFLOW)
          \/ /\ ~(c < h /\ c < 6) /\ ~(h > 5 /\ c > 5)
             /\ to_size' = z
             /\ Goto(IF z > 0 THEN "dfpatch_size" ELSE "done")
      BY <1>3, <2>3, <3>0 DEF ProcessInit, HeaderShort, HeaderOverflows
    <3>2. CASE c < h /\ c < 6 /\ Failed(DETOOLS_SHORT_HEADER)
      <4>1. k >= 6 \/ h <= k
        BY <1>3, <1>5, FirstChunkAssumption
      <4>2. n < h /\ n < 6
        BY <2>1, <3>2, <4>1
      <4>3. Expected = Answer(-DETOOLS_SHORT_HEADER)
        BY <1>3, <2>1, <2>3, <4>2 DEF Expected, Reference
      <4> QED
        BY <1>7, <3>2, <4>3
    <3>3. CASE h > 5 /\ c > 5 /\ Failed(DETOOLS_CORRUPT_PATCH_OVERFLOW)
      <4>1. ~(n < h /\ n < 6)
        BY <2>1, <3>3
      <4>2. Expected = Answer(-DETOOLS_CORRUPT_PATCH_OVERFLOW)
        BY <1>3, <2>1, <2>3, <3>3, <4>1 DEF Expected, Reference
      <4> QED
        BY <1>7, <3>3, <4>2
    <3>4. CASE /\ ~(c < h /\ c < 6) /\ ~(h > 5 /\ c > 5)
               /\ to_size' = z
               /\ Goto(IF z > 0 THEN "dfpatch_size" ELSE "done")
      <4>1. h <= 5 /\ n >= h
        BY <2>1, <3>4
      <4>2. /\ state' = (IF z > 0 THEN "dfpatch_size" ELSE "done")
            /\ res' = 0 /\ call' = "none" /\ to_size' = z
        BY <3>4 DEF Goto
      <4>3. Reported'
        <5>1. state # "failed" /\ state' # "failed"
          BY <1>2, <4>2
        <5> QED
          BY <1>1, <1>2, <4>2, <5>1, SameTarget, ReportedGoes
      <4>4. Begun'
        <5>1. state' = "done" \/ z > 0
          BY <4>2
        <5> QED
          BY <1>2, <1>3, <1>4, <2>3, <4>1, <4>2, <5>1 DEF Begun
      <4>5. Follows'
        <5>1. CASE z > 0
          <6>1. Plain' = Plain /\ Plain \in Seq(Byte)
            BY <1>2, <1>5, ExpectedKept, PlainFacts
          <6>2. Reached(Plain, z, Start)
            BY <1>3, <6>1, ReachedStart
          <6>3. NumberHeld(Plain, 1, 0, usize)
            <7>1. 0 \in Nat /\ 1 = 0 + 1
              OBVIOUS
            <7> QED
              BY <1>4, <7>1, NumberBegun
          <6>4. InNumber(Start)'
            BY <1>2, <1>4, <4>2, <5>1, <6>1, <6>3 DEF InNumber, Start
          <6>5. At(Start)'
            BY <4>2, <5>1, <6>4 DEF At, SizeStates, DataStates
          <6> QED
            BY <4>2, <5>1, <6>1, <6>2, <6>5 DEF Follows
        <5>2. CASE ~(z > 0)
          BY <1>2, <1>3, <1>4, <4>2, <5>2 DEF Follows
        <5> QED
          BY <5>1, <5>2
      <4> QED
        BY <1>6, <4>3, <4>4, <4>5
    <3> QED
      BY <3>1, <3>2, <3>3, <3>4
  <2> QED
    BY <2>2, <2>3
<1> QED
  BY <1>8, <1>9

(* The engine is done: what it is told now is what the patch deserves.     *)
LEMMA DoneAgrees ==
  ASSUME Matching, state = "done", patch_offset = patch_size \/ chunk_left > 0
  PROVE  /\ chunk_left > 0 => Agrees(-DETOOLS_ALREADY_DONE)
         /\ chunk_left = 0 =>
              Agrees(IF Finished THEN to_size ELSE -DETOOLS_CORRUPT_PATCH)
<1>1. IInv /\ Begun /\ Follows /\ InputTypeOK /\ Accounted
  BY DEF Matching, IInv, TypeOK
<1>2. PICK n \in Nat, h \in Nat, z \in Nat, c \in Nat, o \in Nat :
        /\ n = patch_size /\ h = patch.head_len /\ z = patch.to_size /\ z = to_size
        /\ c = chunk_left /\ o = patch_offset /\ o <= n /\ n - h - 1 <= Len(patch.upto)
  <2>1. /\ patch_size \in Nat /\ patch.head_len \in Nat /\ patch.to_size \in Nat
        /\ patch_size - patch.head_len - 1 <= Len(patch.upto)
    BY <1>1, InputFacts
  <2>2. chunk_left \in 0 .. CHUNK_BUF
    BY <1>1 DEF IInv, TypeOK, ReaderTypeOK
  <2>3. patch_offset \in 0 .. patch_size
    BY <1>1 DEF InputTypeOK
  <2>4. patch.to_size = to_size
    BY <1>1 DEF IInv, Exact
  <2> QED
    BY <2>1, <2>2, <2>3, <2>4, ChunkAssumption
<1>3. HeaderGood /\ h <= 5 /\ n >= h /\ h > 0
  <2>1. HeaderGood
    BY <1>1 DEF Begun, HeaderGood
  <2>2. h > 0
    BY <1>1, <1>2, PatchesAssumption DEF InputTypeOK, Patch
  <2> QED
    BY <1>2, <2>1, <2>2 DEF HeaderGood
<1>4. CASE z = 0
  <2>1. out = << >> /\ ~window_known
    <3>1. ~(to_size > 0)
      BY <1>2, <1>4
    <3> QED
      BY <1>1, <3>1 DEF Follows
  <2>2. sunk = 0 /\ taken = 0 /\ o = c + h
    <3>1. sunk = 0 /\ taken = 0 /\ Compressed = 0
      BY <1>1, <2>1 DEF Accounted, Compressed
    <3>2. patch_offset = chunk_left + Compressed + patch.head_len
      BY <1>1 DEF Accounted
    <3> QED
      BY <1>2, <3>1, <3>2
  <2>3. n > 0 /\ n # 0 /\ ~(n < h) /\ ~(h > 5)
    BY <1>3
  <2>4. Expected = Answer(IF n - h - 1 >= 0 THEN -DETOOLS_ALREADY_DONE ELSE 0)
    BY <1>2, <1>3, <1>4, <2>3 DEF Expected, Reference, HeaderGood
  <2>5. CASE c > 0
    <3>1. n - h - 1 >= 0
      BY <1>2, <2>2, <2>5
    <3>2. Expected.ret = -DETOOLS_ALREADY_DONE /\ Expected.out = << >>
      BY <2>4, <3>1 DEF Answer
    <3> QED
      BY <1>2, <2>1, <2>5, <3>2 DEF Agrees
  <2>6. CASE c = 0
    <3>1. ~(n - h - 1 >= 0)
      BY <1>2, <2>2, <2>6
    <3>2. Expected.ret = 0 /\ Expected.out = << >>
      BY <2>4, <3>1 DEF Answer
    <3>3. Finished /\ to_size = 0
      BY <1>2, <1>4, <2>2 DEF Finished, Upto
    <3> QED
      BY <1>2, <2>1, <2>6, <3>2, <3>3 DEF Agrees
  <2> QED
    BY <2>5, <2>6
<1>5. CASE z > 0
  <2>1. PICK r : Reached(Plain, to_size, r) /\ AtEnd(r)
    <3>1. to_size # 0
      BY <1>2, <1>5
    <3> QED
      BY <1>1, <3>1 DEF Follows, At
  <2>2. /\ r.kind = "end" /\ r.ret = z /\ out = r.out /\ taken = r.next - 1
        /\ NumberDrained /\ taken > 0
    BY <1>2, <2>1 DEF AtEnd
  <2>3. window_known
    BY <1>1, <2>2 DEF Accounted
  <2>4. patch.heatshrink = HEATSHRINK_STATIC
    BY <1>1, <2>3 DEF Begun
  <2>5. PICK l \in Nat, s \in Nat, t \in Nat, u \in Nat :
          /\ l = Len(patch.upto) /\ s = sunk /\ s <= l /\ t = taken /\ u = Upto(patch, s)
          /\ t <= u
    <3>1. Len(patch.upto) \in Nat /\ patch \in Patches
      BY <1>1, InputFacts
    <3>2. sunk \in 0 .. Len(patch.upto) /\ taken \in 0 .. Upto(patch, sunk)
      BY <1>1 DEF IInv, TypeOK, ReaderTypeOK
    <3>3. Upto(patch, sunk) \in 0 .. Len(patch.plain) /\ Len(patch.plain) \in Nat
      BY <3>1, <3>2, PatchFacts
    <3>4. PICK u \in Nat : u = Upto(patch, sunk) /\ taken \in 0 .. u
      BY <3>2, <3>3
    <3> QED
      BY <3>1, <3>2, <3>4
  <2>6. o = c + (1 + s) + h
    BY <1>1, <1>2, <2>3, <2>5 DEF Accounted, Compressed
  <2>7. PICK j \in Nat : j = n - h - 1 /\ j <= l /\ s + c <= j
    <3>1. o <= n /\ n - h - 1 <= l
      BY <1>2, <2>5
    <3>2. n - h - 1 \in Nat /\ s + c <= n - h - 1
      BY <2>6, <3>1
    <3> QED
      BY <3>1, <3>2
  <2>8. Stream(Plain, z) = [ret |-> z, used |-> t, out |-> out]
    <3>1. Plain \in Seq(Byte)
      BY <1>1, PlainFacts
    <3>2. Stream(Plain, to_size) = [ret |-> r.ret, used |-> r.next - 1, out |-> r.out]
      BY <1>2, <2>1, <2>2, <3>1, ReachedEnd
    <3> QED
      BY <1>2, <2>2, <2>5, <3>2
  <2>9. PICK a : a = [ret |-> z, used |-> t, out |-> out]
    OBVIOUS
  <2>10. Expected = Closed(patch, j, a)
    <3>1. n > h
      BY <2>7
    <3>2. Expected = Closed(patch, n - h - 1, Stream(Plain, z))
      BY <1>1, <1>2, <1>3, <1>5, <2>4, <3>1, ExpectedClosed
    <3> QED
      BY <2>7, <2>8, <2>9, <3>2
  <2>11. a.ret = z /\ a.used = t /\ a.out = out /\ ~(a.ret < 0)
    BY <1>5, <2>9
  <2>12. CASE c > 0
    <3>1. s \in 0 .. j - 1 /\ j # 0
      BY <2>7, <2>12
    <3>2. Upto(patch, j - 1) >= u
      <4>1. patch \in Patches /\ s \in 0 .. Len(patch.upto) /\ j - 1 \in 0 .. Len(patch.upto) /\ s <= j - 1
        BY <1>1, <2>5, <2>7, <3>1, InputFacts
      <4>2. Upto(patch, s) <= Upto(patch, j - 1)
        BY <4>1, UptoGrows
      <4>3. Upto(patch, j - 1) \in Nat
        BY <4>1, PatchFacts
      <4> QED
        BY <2>5, <4>2, <4>3
    <3>3. PICK x \in Nat : x = Upto(patch, j - 1)
      <4>1. patch \in Patches /\ j - 1 \in 0 .. Len(patch.upto)
        BY <1>1, <2>5, <2>7, <3>1, InputFacts
      <4>2. Upto(patch, j - 1) \in Nat
        BY <4>1, PatchFacts
      <4> QED
        BY <4>2
    <3>4. ~(Upto(patch, j - 1) < a.used)
      BY <2>5, <2>11, <3>2, <3>3
    <3>5. \E i \in 0 .. j - 1 : Upto(patch, i) >= a.used
      BY <2>5, <2>11, <3>1
    <3>6. Expected = [a EXCEPT !.ret = -DETOOLS_ALREADY_DONE]
      BY <2>10, <2>11, <3>1, <3>4, <3>5 DEF Closed
    <3>7. Expected.ret = -DETOOLS_ALREADY_DONE /\ Expected.out = out
      BY <2>9, <3>6
    <3> QED
      BY <1>2, <2>12, <3>7 DEF Agrees
  <2>13. CASE c = 0
    <3>1. j = s
      <4>1. o = n
        BY <1>2, <2>13
      <4> QED
        BY <2>6, <2>7, <2>13, <4>1
    <3>2. \A i \in 0 .. j - 1 : Upto(patch, i) < t
      BY <2>2, <2>5, <3>1 DEF NumberDrained
    <3>3. CASE Finished
      <4>1. u = t
        BY <2>5, <3>3 DEF Finished
      <4>2. j = 0 \/ Upto(patch, j - 1) < t
        BY <3>2
      <4>3. Expected = a
        BY <2>5, <2>10, <2>11, <3>1, <4>1, <4>2 DEF Closed
      <4> QED
        BY <1>2, <2>11, <2>13, <3>3, <4>3 DEF Agrees
    <3>4. CASE ~Finished
      <4>1. u # t
        BY <2>5, <3>4 DEF Finished
      <4>2. ~(a.used = Upto(patch, j))
        BY <2>5, <2>11, <3>1, <4>1
      <4>3. ~\E i \in 0 .. j - 1 : Upto(patch, i) >= a.used
        <5>1. ASSUME NEW i \in 0 .. j - 1
              PROVE  ~(Upto(patch, i) >= t)
          <6>1. patch \in Patches /\ i \in 0 .. Len(patch.upto)
            BY <1>1, <2>5, <2>7, <5>1, InputFacts
          <6>2. PICK x \in Nat : x = Upto(patch, i)
            BY <6>1, PatchFacts
          <6> QED
            BY <3>2, <6>2
        <5> QED
          BY <2>11, <5>1
      <4>4. Expected = [a EXCEPT !.ret = -DETOOLS_CORRUPT_PATCH]
        BY <2>10, <2>11, <4>2, <4>3 DEF Closed
      <4>5. Expected.ret = -DETOOLS_CORRUPT_PATCH /\ Expected.out = out
        BY <2>9, <4>4
      <4> QED
        BY <1>2, <2>13, <3>4, <4>5 DEF Agrees
    <3> QED
      BY <3>3, <3>4
  <2> QED
    BY <2>12, <2>13
<1> QED
  BY <1>2, <1>4, <1>5

(* An engine that is done, or has failed, is told of more or of the end.   *)
LEMMA ProcessNothingMatch ==
  ASSUME Matching, ProcessNothing
  PROVE  (Reported /\ Begun /\ Drained /\ Follows)'
<1>1. IInv /\ Processing /\ FailureKnown /\ Reported /\ Begun /\ Drained
  BY DEF Matching
<1>2. /\ Once /\ call = "none" /\ pc \in {"process", "finalize"}
      /\ state \in {"done", "failed"}
      /\ UNCHANGED << patch, patch_size, patch_offset, pc, cb_res, out, to_size, sunk, taken >>
  BY DEF ProcessNothing, Once, input_vars, reader_vars, target_vars
<1>3. Drained'
  BY <1>1, <1>2 DEF Drained, Upto
<1>4. state' = "failed" /\ call' = "none"
  BY DEF ProcessNothing, Failed
<1>5. Begun' /\ Follows'
  BY <1>4 DEF Begun, Follows
<1>6. CASE state = "failed"
  <2>1. Failed(DETOOLS_ALREADY_FAILED)
    BY <1>6 DEF ProcessNothing
  <2>2. DETOOLS_ALREADY_FAILED \in Nat \ {0, DETOOLS_ALREADY_DONE}
    BY DEF DETOOLS_ALREADY_FAILED, DETOOLS_ALREADY_DONE
  <2>3. cb_res # 0
    <3>1. pc # "process"
      BY <1>1, <1>2, <1>6 DEF FailureKnown, Once, IInv, TypeOK, ControlTypeOK
    <3>2. pc = "finalize" /\ res = 0
      BY <1>2, <3>1 DEF Once
    <3> QED
      BY <1>1, <1>6, <3>2 DEF Reported
  <2>4. cb_res = 0 => Agrees(-DETOOLS_ALREADY_FAILED)
    BY <2>3
  <2>5. Reported'
    BY <1>1, <1>2, <2>1, <2>2, <2>4, ReportedFails
  <2> QED
    BY <1>3, <1>5, <2>5
<1>7. CASE state = "done"
  <2>1. res' = -DETOOLS_ALREADY_DONE /\ res' # 0 /\ res' # 1
    BY <1>7 DEF ProcessNothing, Failed, DETOOLS_ALREADY_DONE
  <2>2. \A e : Agrees(e)' <=> Agrees(e)
    BY <1>2, AgreesKept
  <2>3. Expected' = Expected /\ out' = out
    BY <1>2, ExpectedKept
  <2>4. Agrees(-DETOOLS_IO_FAILED)'
    BY <1>1, <2>2 DEF Reported
  <2>5. cb_res # 0 => Agrees(cb_res)'
    BY <1>1, <1>2, <2>3 DEF Reported, Agrees
  <2>6. pc = "process" => Agrees(res)'
    <3>1. ASSUME pc = "process"
          PROVE  Agrees(res)'
      <4>1. chunk_left > 0
        BY <1>2, <3>1 DEF Once
      <4>2. Agrees(-DETOOLS_ALREADY_DONE)
        BY <1>7, <4>1, DoneAgrees
      <4> QED
        BY <2>1, <2>3, <4>2 DEF Agrees
    <3> QED
      BY <3>1
  <2>7. pc = "finalize" /\ cb_res = 0 => patch_offset = patch_size /\ Agrees(FinalResult)'
    <3>1. ASSUME pc = "finalize", cb_res = 0
          PROVE  patch_offset = patch_size /\ Agrees(FinalResult)'
      <4>1. chunk_left = 0 /\ patch_offset = patch_size
        BY <1>1, <3>1 DEF IInv, Phases, Reported
      <4>2. Agrees(IF Finished THEN to_size ELSE -DETOOLS_CORRUPT_PATCH)
        BY <1>7, <4>1, DoneAgrees
      <4>3. Finished' <=> Finished
        BY <1>2 DEF Finished, Upto
      <4>4. FinalResult' = IF Finished THEN to_size ELSE -DETOOLS_CORRUPT_PATCH
        BY <1>2, <2>1, <4>3 DEF FinalResult
      <4> QED
        BY <2>3, <4>1, <4>2, <4>4 DEF Agrees
    <3> QED
      BY <3>1
  <2>8. Reported'
    BY <1>2, <1>4, <2>1, <2>4, <2>5, <2>6, <2>7 DEF Reported
  <2> QED
    BY <1>3, <1>5, <2>8
<1> QED
  BY <1>2, <1>6, <1>7

-----------------------------------------------------------------------------
(***************************************************************************)
(* The reading of the reference is followed throughout.                    *)
(***************************************************************************)
LEMMA MatchingBegins ==
  ASSUME Init
  PROVE  Matching
<1>1. IInv
  BY InitEstablishes
<1>2. /\ pc = "read" /\ state = "init" /\ call = "none" /\ cb_res = 0 /\ sunk = 0
      /\ out = << >> /\ from_pos = 0 /\ usize.state = "first"
  BY DEF Init
<1>3. Begins(<< >>, Expected.out)
  BY <1>1, ExpectedType DEF IInv, TypeOK
<1>4. Reported
  BY <1>2, <1>3 DEF Reported, Agrees
<1>5. Processing /\ FailureKnown /\ Begun /\ Drained /\ Follows
  BY <1>2 DEF Processing, FailureKnown, Begun, Drained, Follows
<1> QED
  BY <1>1, <1>4, <1>5 DEF Matching

(* Nothing changes,                                                        *)
LEMMA StutterMatches ==
  ASSUME Matching, UNCHANGED vars
  PROVE  Matching'
<1>1. IInv /\ Processing /\ FailureKnown /\ Reported /\ Begun /\ Drained /\ Follows
  BY DEF Matching
<1>2. UNCHANGED << patch, patch_size, pc, state, call, res, cb_res, ret, patch_offset,
                   chunk_left, window_known, sunk, taken, usize, to_size, chunk_size, out,
                   seek, from_pos, buf >>
  BY DEF vars, input_vars, reader_vars, target_vars, source_vars
<1>3. IInv'
  BY <1>1, StutterStep
<1>4. Drained' /\ Follows'
  BY <1>1, <1>2, PlaceKept DEF reader_vars
<1>5. Processing' /\ FailureKnown' /\ Begun'
  BY <1>1, <1>2 DEF Processing, FailureKnown, Begun
<1>6. Reported'
  <2>1. Expected' = Expected
    BY <1>2, ExpectedKept
  <2>2. FinalResult' = FinalResult
    BY <1>2 DEF FinalResult, Finished, Upto
  <2> QED
    BY <1>1, <1>2, <2>1, <2>2 DEF Reported, Agrees
<1> QED
  BY <1>3, <1>4, <1>5, <1>6 DEF Matching

(* or the engine or a callback takes its step.                             *)
LEMMA MatchingKept ==
  ASSUME Matching, [Next]_vars
  PROVE  Matching'
<1>1. IInv /\ Processing /\ FailureKnown
  BY DEF Matching
<1>2. ASSUME Engine
      PROVE  Matching'
  <2>1. IInv'
    BY <1>1, <1>2, EngineStep
  <2>2. Processing' /\ FailureKnown'
    BY <1>1, <1>2, EngineQuiet DEF Quiet
  <2>3. (Reported /\ Begun /\ Drained /\ Follows)'
    BY <1>2, LoopsMatch, ProcessInitMatch, UnpackStopsMatch, UnpackOverflowsMatch,
       UnpackContinuesMatch, ProcessDfpatchSizeMatch, ProcessSizeMatch,
       ProcessAdjustmentMatch, SectionEndMatch, DecompressDataMatch,
       ProcessNothingMatch DEF Engine
  <2> QED
    BY <2>1, <2>2, <2>3 DEF Matching
<1>3. ASSUME NEW r \in {0, -1}, Callback(r)
      PROVE  Matching'
  <2>1. IInv'
    BY <1>1, <1>3, PatchReadStep, FromReadStep, FromSeekStep, ToWriteStep DEF Callback
  <2>2. Processing' /\ FailureKnown'
    BY <1>1, <1>3, CallbackQuiet
  <2>3. (Reported /\ Begun /\ Drained /\ Follows)'
    BY <1>3, LoopsMatch, FromReadMatch, FromSeekMatch, ToWriteMatch DEF Callback
  <2> QED
    BY <2>1, <2>2, <2>3 DEF Matching
<1>4. CASE UNCHANGED vars
  BY <1>4, StutterMatches
<1> QED
  BY <1>2, <1>3, <1>4 DEF Next

(* What the invariant says of the end is the property.                     *)
LEMMA AgreesMatches ==
  ASSUME InputTypeOK, out \in Seq(Byte), pc = "done" => Agrees(ret)
  PROVE  MatchesReference
<1>1. SUFFICES ASSUME pc = "done"
               PROVE  \/ ret = Expected.ret /\ out = Expected.out
                      \/ /\ ret = -DETOOLS_IO_FAILED /\ Len(out) <= Len(Expected.out)
                         /\ out = SubSeq(Expected.out, 1, Len(out))
                      \/ ret = -DETOOLS_IO_FAILED /\ Expected.ret = -DETOOLS_IO_FAILED
  BY DEF MatchesReference, Expected
<1>2. Agrees(ret)
  BY <1>1
<1>3. Expected.out \in Seq(Byte)
  BY ExpectedType
<1>4. Begins(out, Expected.out) => Len(out) <= Len(Expected.out) /\ out = SubSeq(Expected.out, 1, Len(out))
  BY <1>3, BeginsSubSeq DEF Begins
<1> QED
  BY <1>2, <1>4 DEF Agrees

(***************************************************************************)
(* However the chunks cut the patch and the decoder holds its output back, *)
(* the answer and the target are those of the reference, unless a callback *)
(* fails (detools.c:133-208, 316-372, 588-668, 759-836).                   *)
(***************************************************************************)
THEOREM AnswersMatch == Spec => []MatchesReference
<1>1. Init => Matching
  BY MatchingBegins
<1>2. Matching /\ [Next]_vars => Matching'
  BY MatchingKept
<1>3. Matching => MatchesReference
  BY AgreesMatches DEF Matching, Reported, IInv, TypeOK, TargetTypeOK
<1> QED
  BY <1>1, <1>2, <1>3, PTL DEF Spec

=============================================================================
