---------------------------- MODULE Settings_proofs ----------------------------
(***************************************************************************)
(* Proofs about the settings: that Base64 gives back what it took, that the *)
(* boxes of the dialog go together however it is opened and changed, and    *)
(* the invariants of the program with its dialog and its disk.              *)
(*                                                                         *)
(* The first part is about the codec of the login, the second about the     *)
(* boxes, the third about the file and the registry, the fourth about the   *)
(* program, the fifth about OK in a dialog nobody touched.  A record with   *)
(* several fields is taken apart and put together by DialogOf and           *)
(* SettingsOf, one field after the other.                                  *)
(***************************************************************************)
EXTENDS Settings, FiniteSetTheorems, SequenceTheorems, TLAPS

-----------------------------------------------------------------------------
(***************************************************************************)
(* Base64.                                                                 *)
(***************************************************************************)
\* A number of 24 bits is made of its four sextets ...
LEMMA Sextets ==
    ASSUME NEW x \in Int, 0 <= x, x <= 16777215
    PROVE  ((x \div 262144) % 64) * 262144 + ((x \div 4096) % 64) * 4096
               + ((x \div 64) % 64) * 64 + (x % 64) = x
<1>1. PICK y \in Int, r \in Int : x = 64 * y + r /\ 0 <= r /\ r < 64
  <2>1. x \div 64 \in Int /\ x % 64 \in Int
    BY SMT
  <2>2. x = 64 * (x \div 64) + (x % 64) /\ 0 <= x % 64 /\ x % 64 < 64
    BY SMT
  <2> QED
    BY <2>1, <2>2, SMT
<1>2. PICK z \in Int, s \in Int : y = 64 * z + s /\ 0 <= s /\ s < 64
  <2>1. y \div 64 \in Int /\ y % 64 \in Int
    BY SMT
  <2>2. y = 64 * (y \div 64) + (y % 64) /\ 0 <= y % 64 /\ y % 64 < 64
    BY SMT
  <2> QED
    BY <2>1, <2>2, SMT
<1>3. PICK w \in Int, t \in Int : z = 64 * w + t /\ 0 <= t /\ t < 64
  <2>1. z \div 64 \in Int /\ z % 64 \in Int
    BY SMT
  <2>2. z = 64 * (z \div 64) + (z % 64) /\ 0 <= z % 64 /\ z % 64 < 64
    BY SMT
  <2> QED
    BY <2>1, <2>2, SMT
<1>4. x \div 64 = y /\ x % 64 = r
  BY <1>1, SMT
<1>5. x \div 4096 = z
  BY <1>1, <1>2, SMT
<1>6. x \div 262144 = w
  BY <1>1, <1>2, <1>3, SMT
<1>7. 0 <= w /\ w < 64
  BY <1>1, <1>2, <1>3, SMT
<1>8. y % 64 = s /\ z % 64 = t /\ w % 64 = w
  BY <1>2, <1>3, <1>7, SMT
<1>9. w * 262144 + t * 4096 + s * 64 + r = x
  BY <1>1, <1>2, <1>3, SMT
<1> QED
  BY <1>4, <1>5, <1>6, <1>8, <1>9, SMT

\* ... and of its three bytes.
LEMMA Bytes ==
    ASSUME NEW a \in Int, NEW b \in Int, NEW c \in Int,
           0 <= a, a <= 255, 0 <= b, b <= 255, 0 <= c, c <= 255,
           NEW x \in Int, x = a * 65536 + b * 256 + c
    PROVE  /\ 0 <= x /\ x <= 16777215
           /\ (x \div 65536) % 256 = a
           /\ (x \div 256) % 256 = b
           /\ x % 256 = c
<1>1. 0 <= x /\ x <= 16777215
  BY SMT
<1>2. x \div 65536 = a
  BY SMT
<1>3. x \div 256 = 256 * a + b
  BY SMT
<1>4. x % 256 = c
  BY SMT
<1>5. (256 * a + b) % 256 = b /\ a % 256 = a
  BY SMT
<1> QED
  BY <1>1, <1>2, <1>3, <1>4, <1>5, SMT

LEMMA InByte ==
    ASSUME NEW x \in 0..255
    PROVE  x \in Int /\ 0 <= x /\ x <= 255
BY SMT

LEMMA ByteIs ==
    ASSUME NEW s \in Seq(0..255), NEW i \in Int
    PROVE  /\ ByteAt(s, i) \in Int /\ 0 <= ByteAt(s, i) /\ ByteAt(s, i) <= 255
           /\ i > Len(s) => ByteAt(s, i) = 0
           /\ i \in 1..Len(s) => ByteAt(s, i) = s[i]
<1>1. DOMAIN s = 1..Len(s) /\ Len(s) \in Nat
  BY SMT
<1>2. CASE i \in 1..Len(s)
  <2>1. ByteAt(s, i) = s[i] /\ s[i] \in 0..255 /\ ~(i > Len(s))
    BY <1>1, <1>2, SMT DEF ByteAt
  <2>2. s[i] \in Int /\ 0 <= s[i] /\ s[i] <= 255
    BY <2>1, InByte
  <2> HIDE DEF ByteAt
  <2> QED
    BY <1>2, <2>1, <2>2
<1>3. CASE i \notin 1..Len(s)
  <2>1. ByteAt(s, i) = 0
    BY <1>1, <1>3, SMT DEF ByteAt
  <2> QED
    BY <1>3, <2>1, SMT
<1> QED
  BY <1>2, <1>3

\* A number of 24 bits whose bytes are a, b and c
MadeOf(x, a, b, c) ==
    /\ 0 <= x /\ x <= 16777215
    /\ (x \div 65536) % 256 = a
    /\ (x \div 256) % 256 = b
    /\ x % 256 = c

LEMMA GroupIs ==
    ASSUME NEW s \in Seq(0..255), NEW g \in Nat
    PROVE  /\ BytesOf(s, g) \in Int
           /\ MadeOf(BytesOf(s, g), ByteAt(s, 3*g + 1), ByteAt(s, 3*g + 2), ByteAt(s, 3*g + 3))
           /\ 3*g + 3 > Len(s) => BytesOf(s, g) % 64 = 0
           /\ 3*g + 2 > Len(s) => (BytesOf(s, g) \div 64) % 64 = 0
<1> DEFINE a == ByteAt(s, 3*g + 1)
           b == ByteAt(s, 3*g + 2)
           c == ByteAt(s, 3*g + 3)
           x == BytesOf(s, g)
<1>1. /\ a \in Int /\ 0 <= a /\ a <= 255
      /\ b \in Int /\ 0 <= b /\ b <= 255
      /\ c \in Int /\ 0 <= c /\ c <= 255
  <2>1. 3*g + 1 \in Int /\ 3*g + 2 \in Int /\ 3*g + 3 \in Int
    BY SMT
  <2> QED
    BY <2>1, ByteIs, SMT
<1>2. x = a * 65536 + b * 256 + c
  BY SMT DEF BytesOf
<1>3. 3*g + 3 > Len(s) => c = 0
  BY ByteIs, SMT
<1>4. 3*g + 2 > Len(s) => b = 0 /\ c = 0
  <2>1. ASSUME 3*g + 2 > Len(s)
        PROVE  3*g + 2 > Len(s) /\ 3*g + 3 > Len(s)
    BY <2>1, SMT
  <2> QED
    BY <2>1, ByteIs, SMT
<1> HIDE DEF a, b, c, x
<1>5. x \in Int
  BY <1>1, <1>2, SMT
<1>6. /\ 0 <= x /\ x <= 16777215
      /\ (x \div 65536) % 256 = a
      /\ (x \div 256) % 256 = b
      /\ x % 256 = c
  BY <1>1, <1>2, <1>5, Bytes, SMT
<1>7. c = 0 => x % 64 = 0
  BY <1>1, <1>2, SMT
<1>8. b = 0 /\ c = 0 => (x \div 64) % 64 = 0
  <2> SUFFICES ASSUME b = 0, c = 0
               PROVE  (x \div 64) % 64 = 0
    OBVIOUS
  <2>1. x \div 64 = 1024 * a
    BY <1>1, <1>2, SMT
  <2>2. (1024 * a) % 64 = 0
    BY <1>1, SMT
  <2> QED
    BY <2>1, <2>2, SMT
<1> QED
  BY <1>3, <1>4, <1>5, <1>6, <1>7, <1>8, SMT DEF a, b, c, x, MadeOf

\* How many groups, digits and pads there are
LEMMA Lengths ==
    ASSUME NEW n \in Nat
    PROVE  \E q \in Nat :
             /\ (n + 2) \div 3 = q
             /\ (8*n + 5) \div 6 = q + n
             /\ 3*q - n \in {0, 1, 2}
<1>1. PICK q \in Nat, r \in {0, 1, 2} : n = 3*q - r
  <2>1. \/ n % 3 = 0 /\ n = 3 * (n \div 3)
        \/ n % 3 = 1 /\ n = 3 * (n \div 3 + 1) - 2
        \/ n % 3 = 2 /\ n = 3 * (n \div 3 + 1) - 1
    BY SMT
  <2>2. n \div 3 \in Nat
    BY SMT
  <2>3. CASE n = 3 * (n \div 3)
    <3>1. n = 3 * (n \div 3) - 0
      BY <2>2, <2>3, SMT
    <3> QED
      BY <2>2, <3>1
  <2>4. CASE n = 3 * (n \div 3 + 1) - 2
    <3>1. n \div 3 + 1 \in Nat
      BY <2>2, SMT
    <3> QED
      BY <2>4, <3>1
  <2>5. CASE n = 3 * (n \div 3 + 1) - 1
    <3>1. n \div 3 + 1 \in Nat
      BY <2>2, SMT
    <3> QED
      BY <2>5, <3>1
  <2> QED
    BY <2>1, <2>3, <2>4, <2>5
<1>2. (n + 2) \div 3 = q
  BY <1>1, SMT
<1>3. (8*n + 5) \div 6 = q + n
  BY <1>1, SMT
<1>4. 3*q - n \in {0, 1, 2}
  BY <1>1, SMT
<1> QED
  BY <1>2, <1>3, <1>4, SMT

\* What stands in a group, place by place
LEMMA SextetIs ==
    ASSUME NEW x \in Int
    PROVE  /\ Sextet(x, 0) = (x \div 262144) % 64
           /\ Sextet(x, 1) = (x \div 4096) % 64
           /\ Sextet(x, 2) = (x \div 64) % 64
           /\ Sextet(x, 3) = x % 64
<1>1. 64^(3 - 0) = 262144 /\ 64^(3 - 1) = 4096 /\ 64^(3 - 2) = 64 /\ 64^(3 - 3) = 1
  BY SMT
<1>2. x \div 1 = x
  BY SMT
<1> QED
  BY <1>1, <1>2, SMT DEF Sextet

LEMMA OctetIs ==
    ASSUME NEW x \in Int
    PROVE  /\ Octet(x, 0) = (x \div 65536) % 256
           /\ Octet(x, 1) = (x \div 256) % 256
           /\ Octet(x, 2) = x % 256
<1>1. 256^(2 - 0) = 65536 /\ 256^(2 - 1) = 256 /\ 256^(2 - 2) = 1
  BY SMT
<1>2. x \div 1 = x
  BY SMT
<1> QED
  BY <1>1, <1>2, SMT DEF Octet

LEMMA LastSextets ==
    ASSUME NEW x \in Int
    PROVE  Sextet(x, 2) = (x \div 64) % 64 /\ Sextet(x, 3) = x % 64
BY SextetIs, SMT

LEMMA SextetSmall ==
    ASSUME NEW x \in Int, NEW j \in {0, 1, 2, 3}
    PROVE  Sextet(x, j) \in Int /\ 0 <= Sextet(x, j) /\ Sextet(x, j) <= 63
<1>1. \A y \in Int : y % 64 \in Int /\ 0 <= y % 64 /\ y % 64 <= 63
  BY SMT
<1>2. x \div 262144 \in Int /\ x \div 4096 \in Int /\ x \div 64 \in Int
  BY SMT
<1>3. /\ Sextet(x, 0) = (x \div 262144) % 64
      /\ Sextet(x, 1) = (x \div 4096) % 64
      /\ Sextet(x, 2) = (x \div 64) % 64
      /\ Sextet(x, 3) = x % 64
  BY SextetIs, SMT
<1>4. \E y \in Int : Sextet(x, j) = y % 64
  <2>1. CASE j = 0
    BY <1>2, <1>3, <2>1, SMT
  <2>2. CASE j = 1
    BY <1>2, <1>3, <2>2, SMT
  <2>3. CASE j = 2
    BY <1>2, <1>3, <2>3, SMT
  <2>4. CASE j = 3
    BY <1>3, <2>4, SMT
  <2> QED
    BY <2>1, <2>2, <2>3, <2>4, SMT
<1> QED
  BY <1>1, <1>4, SMT

LEMMA FromSextets ==
    ASSUME NEW x \in Int, 0 <= x, x <= 16777215
    PROVE  Sextet(x, 0) * 262144 + Sextet(x, 1) * 4096 + Sextet(x, 2) * 64 + Sextet(x, 3) = x
<1>1. /\ Sextet(x, 0) = (x \div 262144) % 64
      /\ Sextet(x, 1) = (x \div 4096) % 64
      /\ Sextet(x, 2) = (x \div 64) % 64
      /\ Sextet(x, 3) = x % 64
  BY SextetIs, SMT
<1>2. ((x \div 262144) % 64) * 262144 + ((x \div 4096) % 64) * 4096
          + ((x \div 64) % 64) * 64 + (x % 64) = x
  BY Sextets, SMT
<1> HIDE DEF Sextet
<1> QED
  BY <1>1, <1>2, SMT

LEMMA GroupEnds ==
    ASSUME NEW s \in Seq(0..255), NEW g \in Nat
    PROVE  /\ BytesOf(s, g) \in Int
           /\ 3*g + 3 > Len(s) => BytesOf(s, g) % 64 = 0
           /\ 3*g + 2 > Len(s) => (BytesOf(s, g) \div 64) % 64 = 0
BY GroupIs, Zenon

\* Which digit stands where: the digits that pads stand for would be 0 anyway
LEMMA DigitIs ==
    ASSUME NEW s \in Seq(0..255), NEW q \in Nat,
           (Len(s) + 2) \div 3 = q, (8*Len(s) + 5) \div 6 = q + Len(s),
           3*q - Len(s) \in {0, 1, 2},
           NEW g \in Nat, g <= q - 1, NEW j \in {0, 1, 2, 3}
    PROVE  LET e == StringToBase64(s)
               k == 4*g + j + 1
           IN  /\ e[k] = IF k > q + Len(s) THEN Pad ELSE Sextet(BytesOf(s, g), j)
               /\ DigitAt(e, k) = Sextet(BytesOf(s, g), j)
<1> DEFINE e == StringToBase64(s)
           k == 4*g + j + 1
           n == Len(s)
           x == Sextet(BytesOf(s, g), j)
<1>1. n \in Nat
  BY SMT
<1>2. k \in 1..4*q /\ (k - 1) \div 4 = g /\ (k - 1) % 4 = j
  BY SMT
<1>3. e = [i \in 1..4*((n + 2) \div 3) |->
             IF i > (8*n + 5) \div 6 THEN Pad ELSE Sextet(BytesOf(s, (i - 1) \div 4), (i - 1) % 4)]
  BY DEF StringToBase64
<1>4. k \in DOMAIN e /\ e[k] = IF k > q + n THEN Pad ELSE x
  <2> HIDE DEF e, n, k, x
  <2>1. DOMAIN e = 1..4*((n + 2) \div 3)
    BY <1>3, Zenon
  <2>2. e[k] = IF k > (8*n + 5) \div 6 THEN Pad
               ELSE Sextet(BytesOf(s, (k - 1) \div 4), (k - 1) % 4)
    BY <1>2, <1>3, Zenon DEF n
  <2> QED
    BY <1>2, <2>1, <2>2, Zenon DEF n, x
<1>5. /\ BytesOf(s, g) \in Int
      /\ 3*g + 3 > n => BytesOf(s, g) % 64 = 0
      /\ 3*g + 2 > n => (BytesOf(s, g) \div 64) % 64 = 0
  BY GroupEnds, Zenon
<1>6. k > q + n => x = 0
  <2> SUFFICES ASSUME k > q + n
               PROVE  x = 0
    OBVIOUS
  <2>1. (j = 3 /\ 3*g + 3 > n) \/ (j = 2 /\ 3*g + 2 > n)
    <3>1. \A m, qq, gg, jj, kk \in Int :
             /\ 3*qq - m \in {0, 1, 2} /\ gg <= qq - 1 /\ jj \in {0, 1, 2, 3}
             /\ kk = 4*gg + jj + 1 /\ kk > qq + m
             => (jj = 3 /\ 3*gg + 3 > m) \/ (jj = 2 /\ 3*gg + 2 > m)
      BY SMT
    <3>2. n \in Int /\ q \in Int /\ g \in Int /\ j \in Int /\ k \in Int
      BY <1>1, SMT
    <3>3. 3*q - n \in {0, 1, 2} /\ k = 4*g + j + 1
      OBVIOUS
    <3> HIDE DEF n, k
    <3> QED
      BY <3>1, <3>2, <3>3, SMT
  <2>2. CASE j = 3 /\ 3*g + 3 > n
    BY <1>5, <2>2, LastSextets, Zenon
  <2>3. CASE j = 2 /\ 3*g + 2 > n
    BY <1>5, <2>3, LastSextets, Zenon
  <2> QED
    BY <2>1, <2>2, <2>3
<1>7. x # Pad
  <2>1. x \in Int /\ x <= 63
    BY <1>5, SextetSmall, Zenon
  <2> QED
    BY <2>1, SMT DEF Pad
<1>8. DigitAt(e, k) = x
  <2> HIDE DEF e, n, k, x
  <2> QED
    BY <1>4, <1>6, <1>7, Zenon DEF DigitAt
<1> QED
  BY <1>4, <1>8

\* Group by group: the digits of the encoded text are the bytes of the text
LEMMA GroupsAgree ==
    ASSUME NEW s \in Seq(0..255), NEW q \in Nat,
           (Len(s) + 2) \div 3 = q, (8*Len(s) + 5) \div 6 = q + Len(s),
           3*q - Len(s) \in {0, 1, 2},
           NEW g \in Nat, g <= q - 1
    PROVE  DigitsOf(StringToBase64(s), g) = BytesOf(s, g)
<1> DEFINE e == StringToBase64(s)
           x == BytesOf(s, g)
<1>1. x \in Int /\ 0 <= x /\ x <= 16777215
  <2>1. x \in Int /\ MadeOf(x, ByteAt(s, 3*g + 1), ByteAt(s, 3*g + 2), ByteAt(s, 3*g + 3))
    BY GroupIs, Zenon
  <2> HIDE DEF x
  <2> QED
    BY <2>1, SMT DEF MadeOf
<1>2. /\ DigitAt(e, 4*g + 0 + 1) = Sextet(x, 0)
      /\ DigitAt(e, 4*g + 1 + 1) = Sextet(x, 1)
      /\ DigitAt(e, 4*g + 2 + 1) = Sextet(x, 2)
      /\ DigitAt(e, 4*g + 3 + 1) = Sextet(x, 3)
  <2>1. 0 \in {0, 1, 2, 3} /\ 1 \in {0, 1, 2, 3} /\ 2 \in {0, 1, 2, 3} /\ 3 \in {0, 1, 2, 3}
    OBVIOUS
  <2> QED
    BY <2>1, DigitIs, Zenon
<1>3. /\ 4*g + 0 + 1 = 4*g + 1 /\ 4*g + 1 + 1 = 4*g + 2 /\ 4*g + 2 + 1 = 4*g + 3
      /\ 4*g + 3 + 1 = 4*g + 4
  BY SMT
<1>4. Sextet(x, 0) * 262144 + Sextet(x, 1) * 4096 + Sextet(x, 2) * 64 + Sextet(x, 3) = x
  BY <1>1, FromSextets, SMT
<1> HIDE DEF e, x
<1> QED
  BY <1>2, <1>3, <1>4, SMT DEF DigitsOf, e, x

\* The pads are the digits that the bits do not need
LEMMA PadsAre ==
    ASSUME NEW s \in Seq(0..255), NEW q \in Nat,
           (Len(s) + 2) \div 3 = q, (8*Len(s) + 5) \div 6 = q + Len(s),
           3*q - Len(s) \in {0, 1, 2}
    PROVE  LET e == StringToBase64(s)
           IN  /\ e \in Seq(0..64) /\ Len(e) = 4*q
               /\ {i \in DOMAIN e : e[i] = Pad} = (q + Len(s) + 1)..(4*q)
<1> DEFINE e == StringToBase64(s)
           n == Len(s)
<1>1. n \in Nat /\ 4*q \in Nat /\ q + n \in Int
  BY SMT
<1>2. DOMAIN e = 1..4*q
  <2>1. DOMAIN e = 1..4*((n + 2) \div 3)
    BY DEF StringToBase64
  <2> QED
    BY <2>1
<1>3. ASSUME NEW k \in 1..4*q
      PROVE  /\ k > q + n => e[k] = Pad
             /\ ~(k > q + n) => e[k] \in Int /\ 0 <= e[k] /\ e[k] <= 63
  <2>1. PICK g \in Nat, j \in {0, 1, 2, 3} : k = 4*g + j + 1 /\ g <= q - 1
    <3>1. (k - 1) \div 4 \in Nat /\ (k - 1) % 4 \in {0, 1, 2, 3}
      BY SMT
    <3>2. k \in Int /\ 1 <= k /\ k <= 4*q
      BY SMT
    <3>3. k = 4*((k - 1) \div 4) + ((k - 1) % 4) + 1
      BY <3>2, SMT
    <3>4. (k - 1) \div 4 <= q - 1
      BY <3>2, SMT
    <3> QED
      BY <3>1, <3>3, <3>4
  <2>2. e[k] = IF k > q + n THEN Pad ELSE Sextet(BytesOf(s, g), j)
    BY <2>1, DigitIs, Zenon
  <2>3. BytesOf(s, g) \in Int
    BY GroupEnds, Zenon
  <2>4. /\ Sextet(BytesOf(s, g), j) \in Int /\ 0 <= Sextet(BytesOf(s, g), j)
        /\ Sextet(BytesOf(s, g), j) <= 63
    BY <2>3, SextetSmall, Zenon
  <2> QED
    BY <2>2, <2>4, Zenon
<1>4. \A k \in 1..4*q : e[k] \in 0..64
  <2> SUFFICES ASSUME NEW k \in 1..4*q
               PROVE  e[k] \in 0..64
    OBVIOUS
  <2>1. e[k] = 64 \/ (e[k] \in Int /\ 0 <= e[k] /\ e[k] <= 63)
    BY <1>3, Zenon DEF Pad
  <2>2. 64 \in 0..64 /\ \A v \in Int : 0 <= v /\ v <= 63 => v \in 0..64
    BY SMT
  <2> HIDE DEF e
  <2> QED
    BY <2>1, <2>2
<1>5. e \in [1..4*q -> 0..64]
  <2>1. e = [k \in 1..4*q |-> e[k]]
    BY DEF StringToBase64
  <2> HIDE DEF e
  <2> QED
    BY <1>4, <2>1, Zenon
<1>6. e \in Seq(0..64) /\ Len(e) = 4*q
  <2> HIDE DEF e
  <2> QED
    BY <1>1, <1>5, SMT
<1>7. ASSUME NEW k \in 1..4*q
      PROVE  e[k] = Pad <=> k > q + n
  <2>1. ~(k > q + n) => e[k] # 64
    <3>1. ~(k > q + n) => e[k] \in Int /\ e[k] <= 63
      BY <1>3
    <3> HIDE DEF e
    <3> QED
      BY <3>1, SMT
  <2> QED
    BY <1>3, <2>1, Zenon DEF Pad
<1>8. \A k \in Int : k \in (q + n + 1)..(4*q) <=> k \in 1..4*q /\ k > q + n
  BY <1>1, SMT
<1>9. {i \in DOMAIN e : e[i] = Pad} = (q + n + 1)..(4*q)
  <2> HIDE DEF e, n
  <2>1. \A k \in 1..4*q : k \in Int
    BY SMT
  <2>2. \A k \in (q + n + 1)..(4*q) : k \in Int
    BY SMT
  <2> QED
    BY <1>2, <1>7, <1>8, <2>1, <2>2, Zenon
<1> QED
  BY <1>6, <1>9

\* Base64 gives a text back, whatever its bytes and however many, so that a login that is
\* stored is the one that is read (netconf.cpp:331-437).
THEOREM Base64RoundTrip ==
    ASSUME NEW s \in Seq(0..255)
    PROVE  Base64ToString(StringToBase64(s)) = s
<1> DEFINE e == StringToBase64(s)
           n == Len(s)
           t == Base64ToString(e)
<1>1. n \in Nat /\ DOMAIN s = 1..n /\ s = [k \in 1..n |-> s[k]]
  BY SMT
<1>2. PICK q \in Nat :
        /\ (n + 2) \div 3 = q /\ (8*n + 5) \div 6 = q + n /\ 3*q - n \in {0, 1, 2}
  BY <1>1, Lengths, Zenon
<1>3. /\ Len(e) = 4*q
      /\ {i \in DOMAIN e : e[i] = Pad} = (q + n + 1)..(4*q)
  BY <1>2, PadsAre, Zenon
<1>4. Cardinality((q + n + 1)..(4*q)) = 3*q - n
  <2>1. \A m \in Int : q + m + 1 \in Int /\ 4*q \in Int
                        /\ 4*q - (q + m + 1) + 1 = 3*q - m
                        /\ (3*q - m \in {1, 2} => ~(q + m + 1 > 4*q))
    BY SMT
  <2>2. n \in Int
    BY <1>1, SMT
  <2> HIDE DEF n
  <2>3. Cardinality((q + n + 1)..(4*q)) =
          IF q + n + 1 > 4*q THEN 0 ELSE 4*q - (q + n + 1) + 1
    BY <2>1, <2>2, FS_Interval, Zenon
  <2>4. CASE 3*q - n = 0
    <3>1. q + n + 1 > 4*q
      BY <2>2, <2>4, SMT
    <3> QED
      BY <2>3, <2>4, <3>1, Zenon
  <2>5. CASE 3*q - n \in {1, 2}
    BY <2>1, <2>2, <2>3, <2>5, Zenon
  <2>6. 3*q - n \in {0, 1, 2} => 3*q - n = 0 \/ 3*q - n \in {1, 2}
    BY Zenon
  <2> QED
    BY <1>2, <2>4, <2>5, <2>6, Zenon
<1>5. 3 * (Len(e) \div 4) - (3*q - n) = n /\ ~(3*q - n > 2)
  <2>1. \A m \in Int : /\ 3 * ((4*q) \div 4) - (3*q - m) = m
                        /\ 3*q - m \in {0, 1, 2} => ~(3*q - m > 2)
    BY SMT
  <2>2. n \in Int
    BY <1>1, SMT
  <2> HIDE DEF e, n
  <2>3. 3 * ((4*q) \div 4) - (3*q - n) = n
    BY <2>1, <2>2
  <2>4. ~(3*q - n > 2)
    BY <1>2, <2>1, <2>2
  <2> QED
    BY <1>3, <2>3, <2>4, Zenon
<1>6. t = [k \in 1..n |-> Octet(DigitsOf(e, (k - 1) \div 3), (k - 1) % 3)]
  <2>1. t = IF Cardinality({i \in DOMAIN e : e[i] = Pad}) > 2 THEN <<>>
            ELSE [k \in 1..3 * (Len(e) \div 4)
                           - Cardinality({i \in DOMAIN e : e[i] = Pad}) |->
                    Octet(DigitsOf(e, (k - 1) \div 3), (k - 1) % 3)]
    BY DEF Base64ToString
  <2> HIDE DEF e, t, n
  <2> QED
    BY <1>3, <1>4, <1>5, <2>1, Zenon
<1>7. ASSUME NEW k \in 1..n
      PROVE  Octet(DigitsOf(e, (k - 1) \div 3), (k - 1) % 3) = s[k]
  <2> DEFINE g == (k - 1) \div 3
             j == (k - 1) % 3
             x == BytesOf(s, g)
  <2>1. k \in Int /\ 1 <= k /\ k <= n
    BY <1>1, SMT
  <2>2. g \in Nat /\ j \in {0, 1, 2} /\ k = 3*g + j + 1
    <3>1. \A m \in Int : 1 <= m => /\ (m - 1) \div 3 \in Nat /\ (m - 1) % 3 \in {0, 1, 2}
                                   /\ m = 3 * ((m - 1) \div 3) + ((m - 1) % 3) + 1
      BY SMT
    <3> QED
      BY <2>1, <3>1, Zenon
  <2>3. g <= q - 1
    BY <1>1, <1>2, <2>1, SMT
  <2> HIDE DEF g, j
  <2>4. DigitsOf(e, g) = x
    BY <1>2, <2>2, <2>3, GroupsAgree, Zenon
  <2>5. x \in Int /\ MadeOf(x, ByteAt(s, 3*g + 1), ByteAt(s, 3*g + 2), ByteAt(s, 3*g + 3))
    BY <2>2, GroupIs, Zenon
  <2> HIDE DEF x
  <2>6. Octet(x, j) = ByteAt(s, k)
    <3>1. /\ Octet(x, 0) = ByteAt(s, 3*g + 1)
          /\ Octet(x, 1) = ByteAt(s, 3*g + 2)
          /\ Octet(x, 2) = ByteAt(s, 3*g + 3)
      <4>1. /\ (x \div 65536) % 256 = ByteAt(s, 3*g + 1)
            /\ (x \div 256) % 256 = ByteAt(s, 3*g + 2)
            /\ x % 256 = ByteAt(s, 3*g + 3)
        BY <2>5, SMT DEF MadeOf
      <4>2. /\ Octet(x, 0) = (x \div 65536) % 256
            /\ Octet(x, 1) = (x \div 256) % 256
            /\ Octet(x, 2) = x % 256
        BY <2>5, OctetIs, SMT
      <4> QED
        BY <4>1, <4>2, SMT
    <3>2. 3*g + 0 + 1 = 3*g + 1 /\ 3*g + 1 + 1 = 3*g + 2 /\ 3*g + 2 + 1 = 3*g + 3
      BY <2>2, SMT
    <3> QED
      BY <2>2, <3>1, <3>2
  <2>7. ByteAt(s, k) = s[k]
    BY <1>1, <2>1, ByteIs, SMT
  <2> QED
    BY <2>4, <2>6, <2>7, Zenon DEF g, j
<1> HIDE DEF e, t
<1>8. t = [k \in 1..n |-> s[k]]
  BY <1>6, <1>7, Zenon
<1> QED
  BY <1>1, <1>8, Zenon DEF e, t

-----------------------------------------------------------------------------
(***************************************************************************)
(* The boxes of the dialog.                                                *)
(***************************************************************************)
ThreeFormats == {"Layer3", "Speex", "Vorbis"}

IsList(items) == items \in Seq(Int) /\ items # <<>>

IsBox(box) ==
    /\ box = [items |-> box.items, at |-> box.at]
    /\ box.items \in Seq(Int) /\ box.at \in Int

IsDialog(d) ==
    /\ d = [format |-> d.format, channels |-> d.channels, sampleRate |-> d.sampleRate,
            bitRate |-> d.bitRate, username |-> d.username, password |-> d.password,
            name |-> d.name, touched |-> d.touched]
    /\ d.format \in [Directions -> ThreeFormats \union {"NoFormat", "Empty"}]
    /\ d.channels = [dir \in Directions |-> d.channels[dir]]
    /\ d.bitRate = [dir \in Directions |-> d.bitRate[dir]]
    /\ IsBox(d.sampleRate)
    /\ \A dir \in Directions : IsBox(d.channels[dir]) /\ IsBox(d.bitRate[dir])

\* A box in which something is chosen
Chosen(box) == IsBox(box) /\ box.at \in DOMAIN box.items

LEMMA SelectedIs ==
    ASSUME NEW items, NEW value, IsList(items),
           NEW box, box = Selected(Box(items), value)
    PROVE  /\ Chosen(box) /\ box.items = items
           /\ (\E i \in DOMAIN items : items[i] = value) => box.items[box.at] = value
<1> DEFINE i == CHOOSE k \in DOMAIN items : items[k] = value
<1>1. items \in Seq(Int) /\ 1 \in DOMAIN items /\ DOMAIN items \subseteq Int
  BY SMT DEF IsList
<1>2. CASE \E k \in DOMAIN items : items[k] = value
  <2>1. i \in DOMAIN items /\ items[i] = value
    BY <1>2, Zenon
  <2>2. box = [[items |-> items, at |-> 1] EXCEPT !.at = i]
    BY <1>2, Zenon DEF Selected, Box
  <2> HIDE DEF i
  <2>3. box = [items |-> items, at |-> i]
    BY <2>2
  <2> QED
    BY <1>1, <2>1, <2>3 DEF Chosen, IsBox
<1>3. CASE ~\E k \in DOMAIN items : items[k] = value
  <2>1. box = [items |-> items, at |-> 1]
    BY <1>3, Zenon DEF Selected, Box
  <2> QED
    BY <1>1, <1>3, <2>1 DEF Chosen, IsBox
<1> QED
  BY <1>2, <1>3

\* The lists are lists
LEMMA RatesAre ==
    ASSUME NEW format \in ThreeFormats, NEW sampleRate \in {32000, 48000},
           NEW channels \in {1, 2}
    PROVE  IsList(BitRateItems(format, sampleRate, channels))
<1>1. VorbisRates \in Seq(Int) /\ VorbisRates # <<>>
  BY SMT DEF VorbisRates
<1>2. SpeexQualities \in Seq(Int) /\ SpeexQualities # <<>>
  BY SMT DEF SpeexQualities
<1>3. /\ Layer3Rates32(channels) \in Seq(Int)
      /\ channels \in {1, 2} => Layer3Rates32(channels) # <<>>
  BY SMT DEF Layer3Rates32
<1>4. /\ Layer3Rates48(channels) \in Seq(Int)
      /\ channels \in {1, 2} => Layer3Rates48(channels) # <<>>
  BY SMT DEF Layer3Rates48
<1>5. /\ Layer3Rates(sampleRate, channels) \in Seq(Int)
      /\ sampleRate \in {32000, 48000} /\ channels \in {1, 2}
         => Layer3Rates(sampleRate, channels) # <<>>
  BY <1>3, <1>4, SMT DEF Layer3Rates
<1> QED
  BY <1>1, <1>2, <1>5 DEF BitRateItems, ThreeFormats, IsList

\* The bit rates of the higher sample rate are among those of the lower
LEMMA LowerRatesToo ==
    ASSUME NEW format \in ThreeFormats, NEW channels \in {1, 2},
           NEW i \in DOMAIN BitRateItems(format, 48000, channels)
    PROVE  \E j \in DOMAIN BitRateItems(format, 32000, channels) :
             BitRateItems(format, 32000, channels)[j] = BitRateItems(format, 48000, channels)[i]
<1>1. CASE format # "Layer3"
  BY <1>1, SMT DEF BitRateItems, ThreeFormats
<1>2. CASE format = "Layer3"
  <2>1. /\ BitRateItems(format, 32000, channels) = Layer3Rates32(channels)
        /\ BitRateItems(format, 48000, channels) = Layer3Rates48(channels)
    BY <1>2, SMT DEF BitRateItems, Layer3Rates
  <2>2. CASE channels = 2
    BY <2>1, <2>2, SMT DEF Layer3Rates32, Layer3Rates48
  <2>3. CASE channels = 1
    <3>1. /\ Layer3Rates48(1) = <<64, 80, 96, 112, 128, 160, 192, 224, 256, 320>>
          /\ Layer3Rates32(1) = <<48, 56, 64, 80, 96, 112, 128, 160, 192, 224, 256, 320>>
      BY SMT DEF Layer3Rates32, Layer3Rates48
    <3>2. i \in 1..10
      BY <2>1, <2>3, <3>1, SMT
    <3>3. i + 2 \in 1..12 /\ Layer3Rates32(1)[i + 2] = Layer3Rates48(1)[i]
      BY <3>1, <3>2, SMTT(20)
    <3>4. DOMAIN Layer3Rates32(1) = 1..12
      BY <3>1, SMT
    <3> QED
      BY <2>1, <2>3, <3>3, <3>4
  <2> QED
    BY <2>2, <2>3
<1> QED
  BY <1>1, <1>2

SpeexRead(d) == \E dir \in Directions : ReadFormat(d, dir) = "Speex"

\* The sample rates there are, of which one is chosen
IsRates(box) == Chosen(box) /\ box.items \in {<< 32000 >>, <<32000, 48000>>}

LEMMA FixedRates ==
    /\ IsRates([items |-> << 32000 >>, at |-> 1]) /\ Text([items |-> << 32000 >>, at |-> 1]) = 32000
    /\ IsRates([items |-> <<32000, 48000>>, at |-> 1])
    /\ Text([items |-> <<32000, 48000>>, at |-> 1]) = 32000
BY SMT DEF IsRates, Chosen, IsBox, Text

LEMMA SampleRatesAre ==
    ASSUME NEW d, NEW box, IsRates(box), NEW r, r = SampleRates(d, box)
    PROVE  /\ IsRates(r)
           /\ r.items = IF SpeexRead(d) THEN << 32000 >> ELSE <<32000, 48000>>
           /\ r.items = box.items => r = box
           /\ Text(r) \in {32000, 48000}
<1>1. /\ box = [items |-> box.items, at |-> box.at] /\ box.at \in Int
      /\ box.at \in DOMAIN box.items
      /\ box.items = << 32000 >> \/ box.items = <<32000, 48000>>
  BY DEF IsRates, Chosen, IsBox
<1>2. r = IF SpeexRead(d) /\ Len(box.items) = 2 THEN Box(<<box.items[1]>>)
          ELSE IF ~SpeexRead(d) /\ Len(box.items) = 1
          THEN [box EXCEPT !.items = Append(@, 48000)]
          ELSE box
  BY DEF SampleRates, SpeexRead
<1>3. CASE box.items = << 32000 >>
  <2>1. box.at = 1 /\ Len(box.items) = 1 /\ box = [items |-> << 32000 >>, at |-> 1]
    BY <1>1, <1>3, SMT
  <2>2. CASE SpeexRead(d)
    <3>1. r = [items |-> << 32000 >>, at |-> 1]
      BY <1>2, <2>1, <2>2, SMT
    <3> QED
      BY <1>3, <2>1, <2>2, <3>1, FixedRates, SMT
  <2>3. CASE ~SpeexRead(d)
    <3>1. r = [[items |-> << 32000 >>, at |-> 1] EXCEPT !.items = Append(<< 32000 >>, 48000)]
      BY <1>2, <2>1, <2>3, SMT
    <3>2. r = [items |-> <<32000, 48000>>, at |-> 1]
      BY <3>1, SMT
    <3>3. r.items # box.items
      BY <1>3, <3>2, SMT
    <3> QED
      BY <2>3, <3>2, <3>3, FixedRates, SMT
  <2> QED
    BY <2>2, <2>3
<1>4. CASE box.items = <<32000, 48000>>
  <2>1. Len(box.items) = 2 /\ box.items[1] = 32000 /\ box.at \in {1, 2}
    BY <1>1, <1>4, SMT
  <2>2. CASE SpeexRead(d)
    <3>1. r = [items |-> << 32000 >>, at |-> 1]
      BY <1>2, <2>1, <2>2, SMT DEF Box
    <3>2. r.items # box.items
      BY <1>4, <3>1, SMT
    <3> QED
      BY <2>2, <3>1, <3>2, FixedRates, SMT
  <2>3. CASE ~SpeexRead(d)
    <3>1. r = box
      BY <1>2, <2>1, <2>3, SMT
    <3>2. Text(box) \in {32000, 48000}
      BY <1>1, <1>4, <2>1, SMT DEF Text
    <3> QED
      BY <1>4, <2>3, <3>1, <3>2
  <2> QED
    BY <2>2, <2>3
<1> QED
  BY <1>1, <1>3, <1>4

-----------------------------------------------------------------------------
\* What CheckSettings leaves in the boxes of a direction
Checked(r, dir, format, sampleRate, channels) ==
    /\ Chosen(r.channels[dir])
    /\ r.channels[dir].items = IF format = "Speex" THEN << 1 >> ELSE <<1, 2>>
    /\ format # "Speex" => r.channels[dir].at = channels
    /\ Chosen(r.bitRate[dir])
    /\ r.bitRate[dir].items = BitRateItems(format, sampleRate, channels)

\* What the dialogs d and r have in common when only the boxes changed
SameEntries(d, r) ==
    /\ r.format = d.format /\ r.username = d.username /\ r.password = d.password
    /\ r.name = d.name /\ r.touched = d.touched

LEMMA ChannelsAre ==
    ASSUME NEW format \in ThreeFormats, NEW channels \in {1, 2},
           NEW box, box = Selected(Box(ChannelItems(format)), channels)
    PROVE  /\ Chosen(box)
           /\ box.items = IF format = "Speex" THEN << 1 >> ELSE <<1, 2>>
           /\ format # "Speex" => box.at = channels
<1> DEFINE items == ChannelItems(format)
<1>1. IsList(items)
  BY SMT DEF ChannelItems, IsList
<1>2. /\ Chosen(box) /\ box.items = items
      /\ (\E i \in DOMAIN items : items[i] = channels) => items[box.at] = channels
  <2> HIDE DEF items
  <2>1. box = Selected(Box(items), channels)
    BY Zenon DEF items
  <2> QED
    BY <1>1, <2>1, SelectedIs
<1>3. ASSUME format # "Speex"
      PROVE  box.at = channels
  <2>1. items = <<1, 2>>
    BY <1>3 DEF ChannelItems
  <2> HIDE DEF items
  <2>2. DOMAIN items = {1, 2} /\ items[1] = 1 /\ items[2] = 2
    BY <2>1, SMT
  <2>3. box.at \in {1, 2} /\ items[box.at] = channels
    BY <1>2, <2>2 DEF Chosen
  <2> QED
    BY <2>2, <2>3
<1> QED
  BY <1>2, <1>3 DEF ChannelItems

\* The boxes there must be, and what CheckSettings makes of them
MayCheck(d, dir, format, sampleRate) ==
    /\ IsDialog(d) /\ dir \in Directions /\ format \in ThreeFormats
    /\ sampleRate \in {32000, 48000} /\ Text(d.channels[dir]) \in {1, 2}
    /\ IsBox(SampleRates(d, RateChoice(d, dir, format, sampleRate)))

Checks(d, dir, format, sampleRate, r) ==
    /\ IsDialog(r)
    /\ SameEntries(d, r)
    /\ Checked(r, dir, format, sampleRate, Text(d.channels[dir]))
    /\ \A other \in Directions \ {dir} :
         r.channels[other] = d.channels[other] /\ r.bitRate[other] = d.bitRate[other]
    /\ r.sampleRate = SampleRates(d, RateChoice(d, dir, format, sampleRate))

\* The bit rate that is looked for in the list, and that the list was looked through
RateStored(s, dir, format) ==
    s.bitRate[IF format = "Speex" THEN dir ELSE AutoVector(s, dir)]
RateLooked(s, d, dir, format, sampleRate, r) ==
    r.bitRate[dir] = Selected(Box(BitRateItems(format, sampleRate, Text(d.channels[dir]))),
                              RateStored(s, dir, format))

LEMMA CheckSettingsDoes ==
    ASSUME NEW s, NEW d, NEW dir, NEW format, NEW sampleRate,
           MayCheck(d, dir, format, sampleRate)
    PROVE  /\ Checks(d, dir, format, sampleRate, CheckSettings(s, d, dir, format, sampleRate))
           /\ RateLooked(s, d, dir, format, sampleRate,
                         CheckSettings(s, d, dir, format, sampleRate))
<1> USE DEF MayCheck
<1> DEFINE channels == Text(d.channels[dir])
           r == CheckSettings(s, d, dir, format, sampleRate)
           stored == s.bitRate[IF format = "Speex" THEN dir ELSE AutoVector(s, dir)]
           cbox == Selected(Box(ChannelItems(format)), channels)
           bbox == Selected(Box(BitRateItems(format, sampleRate, channels)), stored)
           rates == SampleRates(d, RateChoice(d, dir, format, sampleRate))
<1>1. r = [d EXCEPT !.channels[dir] = cbox, !.bitRate[dir] = bbox, !.sampleRate = rates]
  BY DEF CheckSettings
<1> HIDE DEF r
<1>2. /\ Chosen(cbox)
      /\ cbox.items = IF format = "Speex" THEN << 1 >> ELSE <<1, 2>>
      /\ format # "Speex" => cbox.at = channels
  BY ChannelsAre
<1>3. Chosen(bbox) /\ bbox.items = BitRateItems(format, sampleRate, channels)
  <2>1. channels \in {1, 2}
    OBVIOUS
  <2> DEFINE items == BitRateItems(format, sampleRate, channels)
  <2> HIDE DEF channels
  <2>2. IsList(items)
    BY <2>1, RatesAre
  <2>3. bbox = Selected(Box(items), stored)
    OBVIOUS
  <2> HIDE DEF items, bbox, stored
  <2> QED
    BY <2>2, <2>3, SelectedIs DEF items
<1>0. bbox = Selected(Box(BitRateItems(format, sampleRate, Text(d.channels[dir]))),
                      RateStored(s, dir, format))
  BY DEF RateStored
<1> HIDE DEF cbox, bbox, rates, channels
<1>4. r = [format |-> d.format, channels |-> [d.channels EXCEPT ![dir] = cbox],
           sampleRate |-> rates, bitRate |-> [d.bitRate EXCEPT ![dir] = bbox],
           username |-> d.username, password |-> d.password, name |-> d.name,
           touched |-> d.touched]
  <2> DEFINE f == d.format
             c == d.channels
             rate == d.sampleRate
             b == d.bitRate
             u == d.username
             p == d.password
             n == d.name
             t == d.touched
  <2>1. d = [format |-> f, channels |-> c, sampleRate |-> rate, bitRate |-> b,
             username |-> u, password |-> p, name |-> n, touched |-> t]
    BY DEF IsDialog
  <2> DEFINE r1 == [d EXCEPT !.channels[dir] = cbox]
             r2 == [r1 EXCEPT !.bitRate[dir] = bbox]
  <2>3. r = [r2 EXCEPT !.sampleRate = rates]
    BY <1>1
  <2> HIDE DEF f, c, rate, b, u, p, n, t, r1, r2
  <2>4. r1 = [format |-> f, channels |-> [c EXCEPT ![dir] = cbox],
              sampleRate |-> rate, bitRate |-> b,
              username |-> u, password |-> p, name |-> n, touched |-> t]
    BY <2>1 DEF r1
  <2>5. r2 = [format |-> f, channels |-> [c EXCEPT ![dir] = cbox],
              sampleRate |-> rate, bitRate |-> [b EXCEPT ![dir] = bbox],
              username |-> u, password |-> p, name |-> n, touched |-> t]
    BY <2>4 DEF r2
  <2>2. r = [format |-> f, channels |-> [c EXCEPT ![dir] = cbox],
             sampleRate |-> rates, bitRate |-> [b EXCEPT ![dir] = bbox],
             username |-> u, password |-> p, name |-> n, touched |-> t]
    BY <2>3, <2>5
  <2> QED
    BY <2>2 DEF f, c, rate, b, u, p, n, t
<1>5. /\ r.channels = [o \in Directions |-> IF o = dir THEN cbox ELSE d.channels[o]]
      /\ r.bitRate = [o \in Directions |-> IF o = dir THEN bbox ELSE d.bitRate[o]]
  BY <1>4 DEF IsDialog
<1>6. SameEntries(d, r) /\ r.sampleRate = rates
  BY <1>4 DEF SameEntries
<1>7. IsDialog(r)
  BY <1>2, <1>3, <1>4, <1>5, <1>6 DEF IsDialog, Chosen, SameEntries, rates
<1>8. Checked(r, dir, format, sampleRate, channels)
  BY <1>2, <1>3, <1>5 DEF Checked
<1>9. r.bitRate[dir] = bbox
  BY <1>5
<1>10. RateLooked(s, d, dir, format, sampleRate, r)
  BY <1>0, <1>9 DEF RateLooked
<1>11. Checks(d, dir, format, sampleRate, r)
  BY <1>5, <1>6, <1>7, <1>8 DEF rates, channels, Checks
<1> QED
  BY <1>10, <1>11 DEF r

\* A dialog whose boxes settingsChangedData can go by
Ready(d) ==
    /\ IsDialog(d)
    /\ d.format["Transmit"] \in ThreeFormats
    /\ d.format["Receive"] \in ThreeFormats \union {"NoFormat"}
    /\ \A dir \in Directions : /\ Chosen(d.channels[dir])
                               /\ d.channels[dir].items \in {<< 1 >>, <<1, 2>>}
    /\ Text(d.sampleRate) \in {32000, 48000}

\* A list of bit rates of which every one can be played
Among(items, format, sampleRate, channels) ==
    LET rates == BitRateItems(format, sampleRate, channels)
    IN  \A i \in DOMAIN items : \E j \in DOMAIN rates : rates[j] = items[i]

\* A direction that can be played with whatever is chosen of its boxes
Fits(d, dir) ==
    /\ d.format[dir] = "Speex" => d.channels[dir].items = << 1 >>
    /\ Chosen(d.bitRate[dir])
    /\ Among(d.bitRate[dir].items, d.format[dir], Text(d.sampleRate), d.channels[dir].at)

\* A dialog whose boxes go together
DialogFits(d) ==
    /\ Ready(d)
    /\ IsRates(d.sampleRate)
    /\ SpeexRead(d) => d.sampleRate.items = << 32000 >>
    /\ \A dir \in Directions : d.format[dir] # "NoFormat" => Fits(d, dir)

LEMMA ChannelText ==
    ASSUME NEW box, Chosen(box), box.items \in {<< 1 >>, <<1, 2>>}
    PROVE  Text(box) = box.at /\ box.at \in {1, 2}
<1>1. box.at \in DOMAIN box.items
  BY DEF Chosen
<1>2. CASE box.items = << 1 >>
  <2>1. box.at = 1
    BY <1>1, <1>2, SMT
  <2> QED
    BY <1>1, <1>2, <2>1, SMT DEF Text
<1>3. CASE box.items = <<1, 2>>
  <2>1. box.at \in {1, 2}
    BY <1>1, <1>3, SMT
  <2>2. CASE box.at = 1
    BY <1>1, <1>3, <2>2, SMT DEF Text
  <2>3. CASE box.at = 2
    BY <1>1, <1>3, <2>3, SMT DEF Text
  <2> QED
    BY <2>1, <2>2, <2>3
<1> QED
  BY <1>2, <1>3

LEMMA AmongItself ==
    ASSUME NEW format \in ThreeFormats, NEW channels \in {1, 2},
           NEW used \in {32000, 48000}, NEW now \in {32000, 48000}, now = used \/ now = 32000,
           NEW items, items = BitRateItems(format, used, channels)
    PROVE  Among(items, format, now, channels)
<1>1. CASE now = used
  BY <1>1 DEF Among
<1>2. CASE now = 32000 /\ used = 48000
  BY <1>2, LowerRatesToo DEF Among
<1> QED
  BY <1>1, <1>2

\* The transmitter's choice of sample rate
LEMMA ChoiceIs ==
    ASSUME NEW d, NEW format \in ThreeFormats, NEW sampleRate \in {32000, 48000},
           NEW box, box = RateChoice(d, "Transmit", format, sampleRate)
    PROVE  /\ IsRates(box)
           /\ format # "Speex" => box.items = <<32000, 48000>> /\ Text(box) = sampleRate
<1>1. CASE format = "Speex"
  <2> DEFINE items == << 32000 >>
  <2>1. box = Selected(Box(items), sampleRate)
    BY <1>1 DEF RateChoice
  <2>2. IsList(items)
    BY SMT DEF IsList
  <2> HIDE DEF items
  <2>3. Chosen(box) /\ box.items = items
    BY <2>1, <2>2, SelectedIs
  <2> QED
    BY <1>1, <2>3 DEF IsRates, items
<1>2. CASE format # "Speex"
  <2> DEFINE items == <<32000, 48000>>
  <2>1. box = Selected(Box(items), sampleRate)
    BY <1>2 DEF RateChoice
  <2>2. IsList(items) /\ \E i \in DOMAIN items : items[i] = sampleRate
    <3>1. IsList(items)
      BY SMT DEF IsList
    <3>2. 1 \in DOMAIN items /\ 2 \in DOMAIN items /\ items[1] = 32000 /\ items[2] = 48000
      BY SMT
    <3> QED
      BY <3>1, <3>2
  <2> HIDE DEF items
  <2>3. Chosen(box) /\ box.items = items /\ box.items[box.at] = sampleRate
    BY <2>1, <2>2, SelectedIs
  <2>4. Text(box) = sampleRate
    BY <2>3 DEF Text, Chosen
  <2> QED
    BY <2>3, <2>4 DEF IsRates, items
<1> QED
  BY <1>1, <1>2

LEMMA FormatRead ==
    ASSUME NEW d, NEW dir \in Directions, d.format[dir] # "Empty"
    PROVE  ReadFormat(d, dir) = d.format[dir]
BY DEF ReadFormat

\* The transmitter's boxes, in a dialog whose receiver's need not be filled yet
LEMMA TransmitChecked ==
    ASSUME NEW s, NEW d, IsDialog(d), NEW format \in ThreeFormats,
           NEW used \in {32000, 48000}, Text(d.channels["Transmit"]) \in {1, 2},
           NEW t, t = CheckSettings(s, d, "Transmit", format, used)
    PROVE  /\ IsDialog(t) /\ SameEntries(d, t)
           /\ Checked(t, "Transmit", format, used, Text(d.channels["Transmit"]))
           /\ t.channels["Receive"] = d.channels["Receive"]
           /\ t.bitRate["Receive"] = d.bitRate["Receive"]
           /\ IsRates(t.sampleRate)
           /\ t.sampleRate.items = IF SpeexRead(d) THEN << 32000 >> ELSE <<32000, 48000>>
           /\ ~SpeexRead(d) /\ format # "Speex" => Text(t.sampleRate) = used
<1> DEFINE box == RateChoice(d, "Transmit", format, used)
           rates == SampleRates(d, box)
<1>1. "Transmit" \in Directions /\ Directions \ {"Transmit"} = {"Receive"}
  BY DEF Directions
<1>2. /\ IsRates(box)
      /\ format # "Speex" => box.items = <<32000, 48000>> /\ Text(box) = used
  BY ChoiceIs
<1> HIDE DEF box
<1>3. /\ IsRates(rates)
      /\ rates.items = IF SpeexRead(d) THEN << 32000 >> ELSE <<32000, 48000>>
      /\ rates.items = box.items => rates = box
  BY <1>2, SampleRatesAre
<1>4. IsBox(rates)
  BY <1>3 DEF IsRates, Chosen
<1>5. /\ IsDialog(t) /\ SameEntries(d, t)
      /\ Checked(t, "Transmit", format, used, Text(d.channels["Transmit"]))
      /\ \A other \in Directions \ {"Transmit"} :
           t.channels[other] = d.channels[other] /\ t.bitRate[other] = d.bitRate[other]
      /\ t.sampleRate = rates
  <2>1. IsBox(SampleRates(d, RateChoice(d, "Transmit", format, used)))
    BY <1>4 DEF box
  <2>2. MayCheck(d, "Transmit", format, used)
    BY <1>1, <2>1 DEF MayCheck
  <2>3. Checks(d, "Transmit", format, used, t)
    BY <2>2, CheckSettingsDoes
  <2> QED
    BY <2>3 DEF Checks, box
<1> HIDE DEF rates
<1> QED
  BY <1>1, <1>2, <1>3, <1>5

LEMMA ReceiveChecked ==
    ASSUME NEW s, NEW t, IsDialog(t), NEW format \in ThreeFormats,
           NEW used \in {32000, 48000}, Text(t.channels["Receive"]) \in {1, 2},
           IsRates(t.sampleRate),
           t.sampleRate.items = (IF SpeexRead(t) THEN << 32000 >> ELSE <<32000, 48000>>),
           NEW r, r = CheckSettings(s, t, "Receive", format, used)
    PROVE  /\ IsDialog(r) /\ SameEntries(t, r)
           /\ Checked(r, "Receive", format, used, Text(t.channels["Receive"]))
           /\ r.channels["Transmit"] = t.channels["Transmit"]
           /\ r.bitRate["Transmit"] = t.bitRate["Transmit"]
           /\ r.sampleRate = t.sampleRate
<1> DEFINE rates == SampleRates(t, t.sampleRate)
<1>1. "Receive" \in Directions /\ Directions \ {"Receive"} = {"Transmit"}
  BY DEF Directions
<1>2. rates = t.sampleRate
  BY SampleRatesAre
<1>3. RateChoice(t, "Receive", format, used) = t.sampleRate
  BY DEF RateChoice
<1>4. IsBox(rates)
  BY <1>2 DEF IsRates, Chosen
<1>5. /\ IsDialog(r) /\ SameEntries(t, r)
      /\ Checked(r, "Receive", format, used, Text(t.channels["Receive"]))
      /\ \A other \in Directions \ {"Receive"} :
           r.channels[other] = t.channels[other] /\ r.bitRate[other] = t.bitRate[other]
      /\ r.sampleRate = rates
  <2>1. MayCheck(t, "Receive", format, used)
    BY <1>1, <1>3, <1>4 DEF MayCheck
  <2>2. Checks(t, "Receive", format, used, r)
    BY <2>1, CheckSettingsDoes
  <2> QED
    BY <1>3, <2>2 DEF Checks
<1> QED
  BY <1>1, <1>2, <1>5

\* A direction that was checked fits, whatever the sample rate became
LEMMA CheckedFits ==
    ASSUME NEW r, NEW dir \in Directions, NEW used \in {32000, 48000},
           NEW channels \in {1, 2}, r.format[dir] \in ThreeFormats,
           Checked(r, dir, r.format[dir], used, channels),
           Text(r.sampleRate) \in {32000, 48000},
           r.format[dir] = "Layer3" => Text(r.sampleRate) = used \/ Text(r.sampleRate) = 32000
    PROVE  Fits(r, dir)
<1> DEFINE format == r.format[dir]
           items == r.bitRate[dir].items
           now == Text(r.sampleRate)
<1>1. items = BitRateItems(format, used, channels)
  BY DEF Checked
<1>2. CASE format = "Layer3"
  <2>1. r.channels[dir].at = channels
    BY <1>2 DEF Checked
  <2>2. Among(items, format, now, channels)
    BY <1>1, <1>2, AmongItself
  <2> QED
    BY <1>2, <2>1, <2>2 DEF Fits, Checked
<1>3. CASE format \in {"Speex", "Vorbis"}
  <2>1. r.channels[dir].at \in {1, 2}
    BY ChannelText DEF Checked
  <2>2. BitRateItems(format, used, channels) = BitRateItems(format, now, r.channels[dir].at)
    BY <1>3, <2>1 DEF BitRateItems
  <2>3. Among(items, format, now, r.channels[dir].at)
    BY <1>1, <2>2 DEF Among
  <2> QED
    BY <1>3, <2>3 DEF Fits, Checked
<1> QED
  BY <1>2, <1>3 DEF ThreeFormats

LEMMA SameReads ==
    ASSUME NEW d, NEW r, SameEntries(d, r)
    PROVE  SpeexRead(r) = SpeexRead(d)
BY DEF SpeexRead, ReadFormat, SameEntries

\* Whatever was chosen before of boxes that settingsChangedData can go by, the boxes go
\* together again: what any item of them says can be played
\* (audiosettings_dialog.cpp:665-1070).
THEOREM SettingsChangedFits ==
    ASSUME NEW s, NEW d, Ready(d), NEW r, r = SettingsChanged(s, d)
    PROVE  DialogFits(r) /\ SameEntries(d, r)
<1> DEFINE used == Text(d.sampleRate)
           sends == ReadFormat(d, "Transmit")
           receives == ReadFormat(d, "Receive")
           t == CheckSettings(s, d, "Transmit", sends, used)
           now == Text(t.sampleRate)
<1>1. "Transmit" \in Directions /\ "Receive" \in Directions
      /\ \A dir \in Directions : dir = "Transmit" \/ dir = "Receive"
  BY DEF Directions
<1>2. /\ sends = d.format["Transmit"] /\ sends \in ThreeFormats
      /\ receives = d.format["Receive"] /\ receives \in ThreeFormats \union {"NoFormat"}
  BY <1>1, FormatRead DEF Ready, ThreeFormats
<1>3. used \in {32000, 48000} /\ IsDialog(d)
  BY DEF Ready
<1>4. /\ Text(d.channels["Transmit"]) \in {1, 2} /\ Text(d.channels["Receive"]) \in {1, 2}
  BY <1>1, ChannelText DEF Ready
<1>5. r = IF receives = "NoFormat" THEN t ELSE CheckSettings(s, t, "Receive", receives, now)
  BY DEF SettingsChanged
<1> HIDE DEF used, sends, receives
<1>6. /\ IsDialog(t) /\ SameEntries(d, t)
      /\ Checked(t, "Transmit", sends, used, Text(d.channels["Transmit"]))
      /\ t.channels["Receive"] = d.channels["Receive"]
      /\ t.bitRate["Receive"] = d.bitRate["Receive"]
      /\ IsRates(t.sampleRate)
      /\ t.sampleRate.items = IF SpeexRead(d) THEN << 32000 >> ELSE <<32000, 48000>>
      /\ ~SpeexRead(d) /\ sends # "Speex" => Text(t.sampleRate) = used
  BY <1>2, <1>3, <1>4, TransmitChecked
<1> HIDE DEF t, now
<1>7. SpeexRead(t) = SpeexRead(d)
  BY <1>6, SameReads
<1>8. now \in {32000, 48000} /\ (SpeexRead(d) => now = 32000)
  <2>1. /\ t.sampleRate.at \in DOMAIN t.sampleRate.items
        /\ t.sampleRate.items = << 32000 >> \/ t.sampleRate.items = <<32000, 48000>>
    BY <1>6 DEF IsRates, Chosen
  <2>2. CASE t.sampleRate.items = << 32000 >>
    <3>1. now = 32000
      BY <2>1, <2>2, SMT DEF now, Text
    <3> QED
      BY <3>1
  <2>3. CASE t.sampleRate.items = <<32000, 48000>>
    <3>1. now \in {32000, 48000}
      BY <2>1, <2>3, SMT DEF now, Text
    <3>2. <<32000, 48000>> # << 32000 >>
      BY SMT
    <3> QED
      BY <1>6, <2>3, <3>1, <3>2
  <2> QED
    BY <2>1, <2>2, <2>3
<1>9. sends # "Speex" => now = used \/ now = 32000
  BY <1>6, <1>8 DEF now
\* Whatever becomes of the receiver's boxes, the transmitter's fit ...
<1>10. ASSUME IsDialog(r), SameEntries(t, r), r.sampleRate = t.sampleRate,
              r.channels["Transmit"] = t.channels["Transmit"],
              r.bitRate["Transmit"] = t.bitRate["Transmit"]
       PROVE  Fits(r, "Transmit")
  <2>1. r.format["Transmit"] = sends
    BY <1>2, <1>6, <1>10 DEF SameEntries
  <2>2. Checked(r, "Transmit", r.format["Transmit"], used, Text(d.channels["Transmit"]))
    BY <1>6, <1>10, <2>1 DEF Checked
  <2>3. Text(r.sampleRate) = now
    BY <1>10 DEF now
  <2> QED
    BY <1>1, <1>2, <1>3, <1>4, <1>8, <1>9, <2>1, <2>2, <2>3, CheckedFits
\* ... and so do those of both
<1>11. ASSUME IsDialog(r), SameEntries(t, r), r.sampleRate = t.sampleRate,
              Fits(r, "Transmit"), r.format["Receive"] # "NoFormat" => Fits(r, "Receive"),
              \A dir \in Directions : /\ Chosen(r.channels[dir])
                                      /\ r.channels[dir].items \in {<< 1 >>, <<1, 2>>}
       PROVE  DialogFits(r) /\ SameEntries(d, r)
  <2>1. SameEntries(d, r)
    BY <1>6, <1>11 DEF SameEntries
  <2>2. Ready(r)
    BY <1>2, <1>8, <1>11, <2>1 DEF Ready, SameEntries, now
  <2>3. SpeexRead(r) => r.sampleRate.items = << 32000 >>
    BY <1>6, <1>11, <2>1, SameReads
  <2> QED
    BY <1>1, <1>6, <1>11, <2>1, <2>2, <2>3 DEF DialogFits
<1>12. /\ Chosen(t.channels["Transmit"])
       /\ t.channels["Transmit"].items \in {<< 1 >>, <<1, 2>>}
       /\ Chosen(d.channels["Receive"])
       /\ d.channels["Receive"].items \in {<< 1 >>, <<1, 2>>}
  BY <1>1, <1>6 DEF Checked, Ready
<1>13. CASE receives = "NoFormat"
  <2>1. r = t
    BY <1>5, <1>13
  <2>2. r.format["Receive"] = "NoFormat"
    <3>1. t.format = d.format
      BY <1>6 DEF SameEntries
    <3> QED
      BY <1>2, <1>13, <2>1, <3>1
  <2>3. SameEntries(t, r)
    BY <2>1 DEF SameEntries
  <2> QED
    BY <1>1, <1>6, <1>10, <1>11, <1>12, <2>1, <2>2, <2>3
<1>14. CASE receives # "NoFormat"
  <2>1. r = CheckSettings(s, t, "Receive", receives, now)
    BY <1>5, <1>14
  <2>2. receives \in ThreeFormats /\ Text(t.channels["Receive"]) \in {1, 2}
        /\ t.sampleRate.items = IF SpeexRead(t) THEN << 32000 >> ELSE <<32000, 48000>>
    BY <1>2, <1>4, <1>6, <1>7, <1>14
  <2>3. /\ IsDialog(r) /\ SameEntries(t, r)
        /\ Checked(r, "Receive", receives, now, Text(t.channels["Receive"]))
        /\ r.channels["Transmit"] = t.channels["Transmit"]
        /\ r.bitRate["Transmit"] = t.bitRate["Transmit"]
        /\ r.sampleRate = t.sampleRate
    BY <1>6, <1>8, <2>1, <2>2, ReceiveChecked
  <2>4. r.format["Receive"] = receives
    BY <1>2, <1>6, <2>3 DEF SameEntries
  <2>5. Text(r.sampleRate) = now
    BY <2>3 DEF now
  <2>6. Fits(r, "Receive")
    BY <1>1, <1>8, <2>2, <2>3, <2>4, <2>5, CheckedFits
  <2>7. Chosen(r.channels["Receive"]) /\ r.channels["Receive"].items \in {<< 1 >>, <<1, 2>>}
    BY <2>3 DEF Checked
  <2> QED
    BY <1>1, <1>10, <1>11, <1>12, <2>3, <2>6, <2>7
<1> QED
  BY <1>13, <1>14

-----------------------------------------------------------------------------
\* Settings that can be opened: those that were read, or were taken from a dialog
SettingsFit(s) ==
    /\ s.format["Transmit"] \in ThreeFormats
    /\ s.format["Receive"] \in ThreeFormats \union {"NoFormat"}

\* The dialog with its boxes and its entries
DialogOf(f, c, rate, b, u, p, n, t) ==
    [format |-> f, channels |-> c, sampleRate |-> rate, bitRate |-> b,
     username |-> u, password |-> p, name |-> n, touched |-> t]

LEMMA EntriesOf ==
    ASSUME NEW f, NEW c, NEW rate, NEW b, NEW u, NEW p, NEW n, NEW t,
           NEW d, d = DialogOf(f, c, rate, b, u, p, n, t)
    PROVE  /\ d.format = f /\ d.channels = c /\ d.sampleRate = rate /\ d.bitRate = b
           /\ d.username = u /\ d.password = p /\ d.name = n /\ d.touched = t
BY DEF DialogOf

LEMMA DialogIs ==
    ASSUME NEW f, NEW c, NEW rate, NEW b, NEW u, NEW p, NEW n, NEW t,
           f \in [Directions -> ThreeFormats \union {"NoFormat", "Empty"}],
           c = [dir \in Directions |-> c[dir]], b = [dir \in Directions |-> b[dir]],
           IsBox(rate), \A dir \in Directions : IsBox(c[dir]) /\ IsBox(b[dir]),
           NEW d, d = DialogOf(f, c, rate, b, u, p, n, t)
    PROVE  IsDialog(d)
<1>1. /\ d.format = f /\ d.channels = c /\ d.sampleRate = rate /\ d.bitRate = b
      /\ d.username = u /\ d.password = p /\ d.name = n /\ d.touched = t
  BY DEF DialogOf
<1>2. d = [format |-> d.format, channels |-> d.channels, sampleRate |-> d.sampleRate,
           bitRate |-> d.bitRate, username |-> d.username, password |-> d.password,
           name |-> d.name, touched |-> d.touched]
  BY <1>1, Zenon DEF DialogOf
<1> QED
  BY <1>1, <1>2, Zenon DEF IsDialog

LEMMA BuiltFormat ==
    ASSUME NEW format \in ThreeFormats
    PROVE  FormatItem(format, FirstBuilt) \in ThreeFormats
BY DEF FormatItem, FirstBuilt, ThreeFormats

\* The boxes of a new dialog before they are checked for the first time
FormatsAtFirst(x) == [dir \in Directions |-> IF dir = "Transmit" THEN x ELSE "Empty"]
NoBoxes == [dir \in Directions |-> Box(<<>>)]
ChannelsAtFirst(y) == [dir \in Directions |-> IF dir = "Transmit" THEN y ELSE Box(<<>>)]
AtFirst(s, x, y, z) ==
    DialogOf(FormatsAtFirst(x), ChannelsAtFirst(y), z, NoBoxes,
             s.username, s.password, s.name, FALSE)

LEMMA FilledWhole ==
    ASSUME NEW s, NEW x, NEW y, NEW z,
           NEW d, d = [NewDialog(s) EXCEPT !.format["Transmit"] = x,
                                           !.channels["Transmit"] = y, !.sampleRate = z]
    PROVE  d = AtFirst(s, x, y, z)
<1> DEFINE f == [dir \in Directions |-> "Empty"]
           c == NoBoxes
           u == s.username
           p == s.password
           n == s.name
           t == FALSE
           new == NewDialog(s)
           d1 == [new EXCEPT !.format["Transmit"] = x]
           d2 == [d1 EXCEPT !.channels["Transmit"] = y]
<1>1. new = DialogOf(f, c, Box(<<>>), c, u, p, n, t)
  BY DEF NewDialog, DialogOf, NoBoxes
<1>2. /\ [f EXCEPT !["Transmit"] = x] = FormatsAtFirst(x)
      /\ [c EXCEPT !["Transmit"] = y] = ChannelsAtFirst(y)
  BY DEF Directions, FormatsAtFirst, ChannelsAtFirst, NoBoxes
<1>3. d = [d2 EXCEPT !.sampleRate = z]
  OBVIOUS
<1> HIDE DEF f, c, u, p, n, t, new
<1>4. d1 = DialogOf([f EXCEPT !["Transmit"] = x], c, Box(<<>>), c, u, p, n, t)
  BY <1>1 DEF DialogOf
<1> HIDE DEF d1
<1>5. d2 = DialogOf([f EXCEPT !["Transmit"] = x], [c EXCEPT !["Transmit"] = y],
                    Box(<<>>), c, u, p, n, t)
  BY <1>4 DEF DialogOf
<1> HIDE DEF d2
<1>6. d = DialogOf([f EXCEPT !["Transmit"] = x], [c EXCEPT !["Transmit"] = y],
                   z, c, u, p, n, t)
  BY <1>3, <1>5 DEF DialogOf
<1> QED
  BY <1>2, <1>6 DEF AtFirst, c, u, p, n, t

AsFilled(d, s, x, y, z) ==
    /\ IsDialog(d) /\ d.channels["Transmit"] = y /\ d.sampleRate = z
    /\ d.format = FormatsAtFirst(x) /\ d.bitRate = NoBoxes
    /\ d.username = s.username /\ d.password = s.password /\ d.name = s.name
    /\ d.touched = FALSE

LEMMA FilledIs ==
    ASSUME NEW s, NEW x \in ThreeFormats, NEW y, Chosen(y), NEW z, IsRates(z),
           NEW d, d = AtFirst(s, x, y, z)
    PROVE  AsFilled(d, s, x, y, z)
<1> DEFINE f == FormatsAtFirst(x)
           c == ChannelsAtFirst(y)
           b == NoBoxes
           u == s.username
           p == s.password
           n == s.name
           t == FALSE
<1>1. IsBox(Box(<<>>)) /\ IsBox(y) /\ IsBox(z)
  BY DEF IsBox, Box, Chosen, IsRates
<1>2. /\ f \in [Directions -> ThreeFormats \union {"NoFormat", "Empty"}]
      /\ c = [dir \in Directions |-> c[dir]] /\ b = [dir \in Directions |-> b[dir]]
      /\ \A dir \in Directions : IsBox(c[dir]) /\ IsBox(b[dir])
  BY <1>1 DEF FormatsAtFirst, ChannelsAtFirst, NoBoxes
<1>3. c["Transmit"] = y
  BY DEF ChannelsAtFirst, Directions
<1>4. d = DialogOf(f, c, z, b, u, p, n, t)
  BY Zenon DEF AtFirst
<1> HIDE DEF f, c, b, u, p, n, t
<1>5. IsDialog(d)
  BY <1>1, <1>2, <1>4, DialogIs
<1>6. /\ d.format = f /\ d.channels = c /\ d.sampleRate = z /\ d.bitRate = b
      /\ d.username = u /\ d.password = p /\ d.name = n /\ d.touched = t
  BY <1>4 DEF DialogOf
<1> QED
  BY <1>3, <1>5, <1>6, Zenon DEF AsFilled, f, b, u, p, n, t

\* The receiver's boxes are filled
LEMMA ReceiverWhole ==
    ASSUME NEW d, IsDialog(d), NEW x, NEW y, NEW items,
           NEW r, r = [d EXCEPT !.format["Receive"] = x, !.channels["Receive"] = y,
                                !.sampleRate.items = items]
    PROVE  r = DialogOf([d.format EXCEPT !["Receive"] = x],
                        [d.channels EXCEPT !["Receive"] = y],
                        [d.sampleRate EXCEPT !.items = items], d.bitRate,
                        d.username, d.password, d.name, d.touched)
<1> DEFINE f == d.format
           c == d.channels
           rate == d.sampleRate
           b == d.bitRate
           u == d.username
           p == d.password
           n == d.name
           t == d.touched
           d1 == [d EXCEPT !.format["Receive"] = x]
           d2 == [d1 EXCEPT !.channels["Receive"] = y]
<1>1. d = DialogOf(f, c, rate, b, u, p, n, t)
  BY DEF IsDialog, DialogOf
<1>2. r = [d2 EXCEPT !.sampleRate.items = items]
  OBVIOUS
<1> HIDE DEF f, c, rate, b, u, p, n, t
<1>3. d1 = DialogOf([f EXCEPT !["Receive"] = x], c, rate, b, u, p, n, t)
  BY <1>1 DEF DialogOf
<1> HIDE DEF d1
<1>4. d2 = DialogOf([f EXCEPT !["Receive"] = x], [c EXCEPT !["Receive"] = y], rate, b,
                    u, p, n, t)
  BY <1>3 DEF DialogOf
<1> HIDE DEF d2
<1>5. r = DialogOf([f EXCEPT !["Receive"] = x], [c EXCEPT !["Receive"] = y],
                   [rate EXCEPT !.items = items], b, u, p, n, t)
  BY <1>2, <1>4 DEF DialogOf
<1> QED
  BY <1>5 DEF f, c, rate, b, u, p, n, t

MayFill(d) ==
    /\ IsDialog(d) /\ d.format = FormatsAtFirst(d.format["Transmit"])
    /\ d.format["Transmit"] \in ThreeFormats
    /\ Chosen(d.channels["Transmit"])
    /\ d.channels["Transmit"].items \in {<< 1 >>, <<1, 2>>}
    /\ IsRates(d.sampleRate)
MoreRates(d, items) ==
    items \in {d.sampleRate.items, d.sampleRate.items \o <<32000, 48000>>}
WithReceiver(d, x, y, items) ==
    DialogOf([d.format EXCEPT !["Receive"] = x], [d.channels EXCEPT !["Receive"] = y],
             [d.sampleRate EXCEPT !.items = items], d.bitRate,
             d.username, d.password, d.name, d.touched)
ReadyAs(d, r) ==
    /\ Ready(r)
    /\ r.username = d.username /\ r.password = d.password /\ r.name = d.name
    /\ r.touched = d.touched

LEMMA ReceiverFilled ==
    ASSUME NEW d, MayFill(d), NEW x \in ThreeFormats \union {"NoFormat"},
           NEW y, Chosen(y), y.items \in {<< 1 >>, <<1, 2>>},
           NEW items, MoreRates(d, items),
           NEW r, r = WithReceiver(d, x, y, items)
    PROVE  ReadyAs(d, r)
<1> USE DEF MayFill, MoreRates, WithReceiver, ReadyAs
<1> DEFINE f == [d.format EXCEPT !["Receive"] = x]
           c == [d.channels EXCEPT !["Receive"] = y]
           rate == [d.sampleRate EXCEPT !.items = items]
<1>1. f = [dir \in Directions |-> IF dir = "Receive" THEN x ELSE d.format[dir]]
  BY DEF IsDialog, Directions
<1>2. c = [dir \in Directions |-> IF dir = "Receive" THEN y ELSE d.channels[dir]]
  BY DEF IsDialog, Directions
<1>3. rate = [items |-> items, at |-> d.sampleRate.at]
  <2> DEFINE old == d.sampleRate.items
             i == d.sampleRate.at
             box == d.sampleRate
  <2>1. box = [items |-> old, at |-> i]
    BY DEF IsRates, Chosen, IsBox
  <2>2. rate = [box EXCEPT !.items = items]
    OBVIOUS
  <2> HIDE DEF old, i, box, rate
  <2>3. rate = [items |-> items, at |-> i]
    BY <2>1, <2>2
  <2> QED
    BY <2>3 DEF i
<1>4. items \in Seq(Int) /\ rate.at \in Int /\ Text(rate) \in {32000, 48000}
  <2> DEFINE old == d.sampleRate.items
             i == d.sampleRate.at
  <2>10. i \in Int /\ i \in DOMAIN old
    BY DEF IsRates, Chosen, IsBox
  <2>11. old = << 32000 >> \/ old = <<32000, 48000>>
    BY DEF IsRates
  <2>12. items = old \/ items = old \o <<32000, 48000>>
    BY SMT
  <2>1. /\ i \in Int /\ i \in DOMAIN old
        /\ old = << 32000 >> \/ old = <<32000, 48000>>
        /\ items = old \/ items = old \o <<32000, 48000>>
    BY <2>10, <2>11, <2>12, SMT
  <2>9. old \in Seq(Int)
    BY DEF IsRates, Chosen, IsBox
  <2>2. rate.at = i /\ Text(rate) = IF i \in DOMAIN items THEN items[i] ELSE 0
    BY <1>3 DEF Text
  <2> HIDE DEF old, i
  <2>3. <<32000, 48000>> \in Seq(Int)
    BY SMT
  <2>4. items \in Seq(Int) /\ Len(old) <= Len(items)
        /\ \A k \in 1..Len(old) : items[k] = old[k]
    <3> DEFINE more == <<32000, 48000>>
    <3>1. more \in Seq(Int) /\ (items = old \/ items = old \o more)
      BY <2>1, <2>3, SMT
    <3> HIDE DEF more
    <3>2. CASE items = old
      BY <2>9, <3>2
    <3>3. CASE items = old \o more
      BY <2>9, <3>1, <3>3, ConcatProperties
    <3> QED
      BY <3>1, <3>2, <3>3
  <2>6. old[i] \in {32000, 48000}
    BY <2>1, SMT
  <2>7. i \in DOMAIN items /\ items[i] = old[i]
    <3>1. i \in 1..Len(old)
      BY <2>1, <2>9, SMT
    <3> QED
      BY <2>4, <3>1
  <2>8. Text(rate) = items[i]
    BY <2>2, <2>7
  <2> QED
    BY <2>1, <2>2, <2>4, <2>6, <2>7, <2>8, SMT
<1>5. /\ r.format = f /\ r.channels = c /\ r.sampleRate = rate /\ r.bitRate = d.bitRate
      /\ r.username = d.username /\ r.password = d.password /\ r.name = d.name
      /\ r.touched = d.touched
  BY DEF DialogOf
<1>6. IsDialog(r)
  <2>1. f \in [Directions -> ThreeFormats \union {"NoFormat", "Empty"}]
    <3>1. \A dir \in Directions : d.format[dir] \in ThreeFormats \union {"NoFormat", "Empty"}
      BY DEF IsDialog
    <3>2. x \in ThreeFormats \union {"NoFormat", "Empty"}
      OBVIOUS
    <3> HIDE DEF f
    <3> QED
      BY <1>1, <3>1, <3>2
  <2>2. IsBox(rate)
    BY <1>3, <1>4 DEF IsBox
  <2>3. c = [dir \in Directions |-> c[dir]]
    BY <1>2
  <2>4. \A dir \in Directions : IsBox(c[dir]) /\ IsBox(d.bitRate[dir])
    BY <1>2 DEF IsDialog, Chosen
  <2>5. d.bitRate = [dir \in Directions |-> d.bitRate[dir]]
    BY DEF IsDialog
  <2>6. r = DialogOf(f, c, rate, d.bitRate, d.username, d.password, d.name, d.touched)
    OBVIOUS
  <2> HIDE DEF f, c, rate
  <2> QED
    BY <2>1, <2>2, <2>3, <2>4, <2>5, <2>6, DialogIs
<1> HIDE DEF f, c, rate
<1>7. \A dir \in Directions : Chosen(c[dir]) /\ c[dir].items \in {<< 1 >>, <<1, 2>>}
  BY <1>2 DEF Directions
<1>8. f["Transmit"] = d.format["Transmit"] /\ f["Receive"] = x
  BY <1>1 DEF Directions
<1> QED
  BY <1>4, <1>5, <1>6, <1>7, <1>8 DEF Ready

\* A box of channels, as it is filled
LEMMA TwoChannels ==
    ASSUME NEW value, NEW box, box = Selected(Box(<<1, 2>>), value)
    PROVE  Chosen(box) /\ box.items = <<1, 2>> /\ Text(box) \in {1, 2}
<1> DEFINE items == <<1, 2>>
<1>1. IsList(items)
  BY DEF IsList
<1> HIDE DEF items
<1>2. Chosen(box) /\ box.items = items
  BY <1>1, SelectedIs DEF items
<1>3. Chosen(box) /\ box.items = <<1, 2>>
  BY <1>2 DEF items
<1> QED
  BY <1>3, ChannelText

\* The box of sample rates, as it is filled
LEMMA RatesFilled ==
    ASSUME NEW format, NEW value,
           NEW box, box = Selected(Box(IF format = "Speex" THEN << 32000 >>
                                       ELSE <<32000, 48000>>), value)
    PROVE  IsRates(box) /\ Text(box) \in {32000, 48000}
<1> DEFINE items == IF format = "Speex" THEN << 32000 >> ELSE <<32000, 48000>>
<1>1. IsList(items)
  BY SMT DEF IsList
<1>2. items \in {<< 32000 >>, <<32000, 48000>>}
  BY SMT
<1>3. box = Selected(Box(items), value)
  BY SMT
<1> HIDE DEF items
<1>4. Chosen(box) /\ box.items = items
  BY <1>1, <1>3, SelectedIs
<1>5. IsRates(box)
  BY <1>2, <1>4, SMT DEF IsRates
<1>6. Text(box) = box.items[box.at] /\ box.at \in DOMAIN items
  BY <1>4 DEF Chosen, Text
<1>7. items[box.at] \in {32000, 48000}
  BY <1>2, <1>6, SMT
<1> QED
  BY <1>4, <1>5, <1>6, <1>7

\* The boxes when all are filled and settingsChangedData runs over them for the last time:
\* the transmitter's were checked, with Speex read of the receiver's formats, which takes
\* the sample rate to 32000
Filled(s, d) ==
    /\ Ready(d)
    /\ d.username = s.username /\ d.password = s.password /\ d.name = s.name
    /\ d.touched = FALSE
FilledFormats(s, d) ==
    /\ d.format["Transmit"] = FormatItem(s.format["Transmit"], FirstBuilt)
    /\ d.format["Receive"] = FormatItem(s.format["Receive"], "NoFormat")
FilledChannels(s, d) ==
    /\ d.channels["Receive"] = Selected(Box(<<1, 2>>), s.channels["Receive"])
    /\ s.format["Transmit"] = "Speex" => d.channels["Transmit"].items = << 1 >>
    /\ s.format["Transmit"] # "Speex" =>
          d.channels["Transmit"].at = Text(Selected(Box(<<1, 2>>), s.channels["Transmit"]))
FilledRates(d) == d.bitRate["Receive"] = Box(<<>>) /\ Text(d.sampleRate) = 32000
IsFilled(s, d) == Filled(s, d) /\ FilledFormats(s, d) /\ FilledChannels(s, d) /\ FilledRates(d)

LEMMA OpenedIs ==
    ASSUME NEW s, SettingsFit(s)
    PROVE  \E d : Opened(s) = SettingsChanged(s, d) /\ IsFilled(s, d)
<1> DEFINE x == FormatItem(s.format["Transmit"], FirstBuilt)
           y == Selected(Box(<<1, 2>>), s.channels["Transmit"])
           rates == IF s.format["Transmit"] = "Speex" THEN << 32000 >> ELSE <<32000, 48000>>
           z == Selected(Box(rates), s.sampleRate)
           filled == [NewDialog(s) EXCEPT !.format["Transmit"] = x,
                                          !.channels["Transmit"] = y, !.sampleRate = z]
           used == Text(filled.sampleRate)
           checked == CheckSettings(s, filled, "Transmit", s.format["Transmit"], used)
           v == FormatItem(s.format["Receive"], "NoFormat")
           w == Selected(Box(<<1, 2>>), s.channels["Receive"])
           items == IF s.format["Receive"] = "Vorbis"
                    THEN checked.sampleRate.items \o <<32000, 48000>>
                    ELSE checked.sampleRate.items
           d == [checked EXCEPT !.format["Receive"] = v, !.channels["Receive"] = w,
                                !.sampleRate.items = items]
<1>1. Opened(s) = SettingsChanged(s, d)
  BY DEF Opened
<1>2. /\ x \in ThreeFormats /\ v \in ThreeFormats \union {"NoFormat"}
      /\ s.format["Transmit"] \in ThreeFormats
  BY BuiltFormat DEF SettingsFit, FormatItem
<1>3. /\ Chosen(y) /\ y.items = <<1, 2>> /\ Text(y) \in {1, 2}
      /\ Chosen(w) /\ w.items = <<1, 2>>
  BY TwoChannels
<1>4. IsRates(z) /\ Text(z) \in {32000, 48000}
  BY RatesFilled
<1>5. filled = [NewDialog(s) EXCEPT !.format["Transmit"] = x,
                                   !.channels["Transmit"] = y, !.sampleRate = z]
  OBVIOUS
<1>6. items \in {checked.sampleRate.items, checked.sampleRate.items \o <<32000, 48000>>}
  BY SMT
<1>7. checked = CheckSettings(s, filled, "Transmit", s.format["Transmit"], used)
  OBVIOUS
<1>8. d = [checked EXCEPT !.format["Receive"] = v, !.channels["Receive"] = w,
                          !.sampleRate.items = items]
  OBVIOUS
<1> HIDE DEF x, y, z, v, w, items, filled, checked, d, rates, used
<1>9. /\ IsDialog(filled) /\ filled.channels["Transmit"] = y /\ filled.sampleRate = z
      /\ filled.format = FormatsAtFirst(x)
      /\ filled.username = s.username /\ filled.password = s.password
      /\ filled.name = s.name /\ filled.touched = FALSE /\ filled.bitRate = NoBoxes
  <2>1. filled = AtFirst(s, x, y, z)
    BY <1>5, FilledWhole
  <2>2. x \in ThreeFormats /\ Chosen(y) /\ IsRates(z)
    BY <1>2, <1>3, <1>4
  <2>3. AsFilled(filled, s, x, y, z)
    BY <2>1, <2>2, FilledIs
  <2> QED
    BY <2>3 DEF AsFilled
<1>10. used \in {32000, 48000}
  BY <1>4, <1>9 DEF used

<1>11. /\ IsDialog(checked) /\ SameEntries(filled, checked)
       /\ Checked(checked, "Transmit", s.format["Transmit"], used,
                  Text(filled.channels["Transmit"]))
       /\ IsRates(checked.sampleRate)
  BY <1>2, <1>3, <1>7, <1>9, <1>10, TransmitChecked
<1>12. /\ checked.format = FormatsAtFirst(x) /\ checked.format["Transmit"] = x
       /\ checked.username = s.username /\ checked.password = s.password
       /\ checked.name = s.name /\ checked.touched = FALSE
  BY <1>9, <1>11 DEF SameEntries, FormatsAtFirst, Directions
<1>13. /\ Chosen(checked.channels["Transmit"])
       /\ checked.channels["Transmit"].items \in {<< 1 >>, <<1, 2>>}
  BY <1>11 DEF Checked
<1>14. d = DialogOf([checked.format EXCEPT !["Receive"] = v],
                    [checked.channels EXCEPT !["Receive"] = w],
                    [checked.sampleRate EXCEPT !.items = items], checked.bitRate,
                    checked.username, checked.password, checked.name, checked.touched)
  BY <1>8, <1>11, ReceiverWhole
<1>15. w.items \in {<< 1 >>, <<1, 2>>}
  BY <1>3
<1>16. /\ Ready(d)
       /\ d.username = checked.username /\ d.password = checked.password
       /\ d.name = checked.name /\ d.touched = checked.touched
  <2>1. MayFill(checked)
    BY <1>2, <1>11, <1>12, <1>13, Zenon DEF MayFill
  <2>2. MoreRates(checked, items)
    BY <1>6, SMT DEF MoreRates
  <2>3. d = WithReceiver(checked, v, w, items)
    BY <1>14, Zenon DEF WithReceiver
  <2>4. ReadyAs(checked, d)
    BY <1>2, <1>3, <1>15, <2>1, <2>2, <2>3, ReceiverFilled
  <2> QED
    BY <2>4 DEF ReadyAs
<1>17. Filled(s, d)
  BY <1>12, <1>16 DEF Filled
<1>18. /\ d.format = [checked.format EXCEPT !["Receive"] = v]
       /\ d.channels = [checked.channels EXCEPT !["Receive"] = w]
       /\ d.sampleRate = [checked.sampleRate EXCEPT !.items = items]
       /\ d.bitRate = checked.bitRate
  BY <1>14, EntriesOf
<1>19. FilledFormats(s, d)
  <2>1. d.format["Transmit"] = x /\ d.format["Receive"] = v
    BY <1>12, <1>18 DEF FormatsAtFirst, Directions
  <2> QED
    BY <2>1, Zenon DEF FilledFormats, x, v
<1>20. FilledChannels(s, d)
  <2>1. d.channels["Receive"] = w /\ d.channels["Transmit"] = checked.channels["Transmit"]
    BY <1>11, <1>18 DEF IsDialog, Directions
  <2>2. /\ s.format["Transmit"] = "Speex" => d.channels["Transmit"].items = << 1 >>
        /\ s.format["Transmit"] # "Speex" => d.channels["Transmit"].at = Text(y)
    BY <1>9, <1>11, <2>1 DEF Checked
  <2> QED
    BY <2>1, <2>2, Zenon DEF FilledChannels, w, y
<1>21. FilledRates(d)
  <2>9. /\ checked.bitRate["Receive"] = filled.bitRate["Receive"]
        /\ checked.sampleRate.items = IF SpeexRead(filled) THEN << 32000 >> ELSE <<32000, 48000>>
    BY <1>2, <1>3, <1>7, <1>9, <1>10, TransmitChecked
  <2>1. d.bitRate["Receive"] = Box(<<>>)
    BY <1>9, <1>18, <2>9 DEF NoBoxes, Directions
  <2>2. SpeexRead(filled)
    <3>1. ReadFormat(filled, "Receive") = "Speex" /\ "Receive" \in Directions
      BY <1>9 DEF ReadFormat, FormatsAtFirst, Directions
    <3> QED
      BY <3>1 DEF SpeexRead
  <2> DEFINE i == checked.sampleRate.at
             box == checked.sampleRate
  <2>3. box = [items |-> << 32000 >>, at |-> i] /\ i \in DOMAIN << 32000 >>
    BY <1>11, <2>2, <2>9 DEF IsRates, Chosen, IsBox
  <2>4. i = 1
    BY <2>3
  <2>5. items = << 32000 >> \/ items = << 32000 >> \o <<32000, 48000>>
    BY <2>2, <2>9, SMT DEF items
  <2> HIDE DEF i, box
  <2>6. d.sampleRate = [items |-> items, at |-> 1]
    BY <1>18, <2>3, <2>4 DEF box
  <2>7. 1 \in DOMAIN items /\ items[1] = 32000
    BY <2>5, SMT
  <2>8. Text(d.sampleRate) = 32000
    BY <2>6, <2>7 DEF Text
  <2> QED
    BY <2>1, <2>8 DEF FilledRates
<1> QED
  BY <1>1, <1>17, <1>19, <1>20, <1>21 DEF IsFilled

\* Whatever settings were read, the dialog opens with boxes that go together and with the
\* login of the settings (audiosettings_dialog.cpp:365-508).
THEOREM OpenedFits ==
    ASSUME NEW s, SettingsFit(s), NEW r, r = Opened(s)
    PROVE  /\ DialogFits(r)
           /\ r.username = s.username /\ r.password = s.password /\ r.name = s.name
           /\ r.touched = FALSE
<1>1. PICK d : r = SettingsChanged(s, d) /\ IsFilled(s, d)
  BY OpenedIs
<1>2. Filled(s, d)
  BY <1>1 DEF IsFilled
<1>3. DialogFits(r) /\ SameEntries(d, r)
  BY <1>1, <1>2, SettingsChangedFits DEF Filled
<1> QED
  BY <1>2, <1>3 DEF SameEntries, Filled

-----------------------------------------------------------------------------
(***************************************************************************)
(* The file and the registry.                                              *)
(***************************************************************************)
\* A line that was written whole, and after which no other has its tag
WrittenLast(lines, n, cut, k, tag) ==
    /\ k \in 1..n /\ lines[k][1] = tag /\ \A j \in k+1..n : lines[j][1] # tag
    /\ cut => lines[n + 1][1] # tag

LEMMA StoredLine ==
    ASSUME NEW there, NEW lines, NEW n \in Nat, NEW cut \in BOOLEAN, NEW k, NEW tag,
           WrittenLast(lines, n, cut, k, tag),
           NEW now, now = Stored(there, lines, n, cut)
    PROVE  tag \in DOMAIN now /\ now[tag] = lines[k][2]
<1> USE DEF WrittenLast
<1> DEFINE last == CHOOSE i \in 1..n :
                      lines[i][1] = tag /\ \A j \in i+1..n : lines[j][1] # tag
<1>1. \E i \in 1..n : lines[i][1] = tag /\ \A j \in i+1..n : lines[j][1] # tag
  OBVIOUS
<1>2. /\ last \in 1..n /\ lines[last][1] = tag
      /\ \A j \in last+1..n : lines[j][1] # tag
  BY <1>1
<1> HIDE DEF last
<1>3. last = k
  BY <1>2
<1>4. tag \in {lines[i][1] : i \in 1..n} /\ tag \notin IF cut THEN {lines[n + 1][1]} ELSE {}
  OBVIOUS
<1>5. tag \in DOMAIN now /\ now[tag] = lines[last][2]
  BY <1>4 DEF Stored, last
<1> QED
  BY <1>3, <1>5

\* A tag that no line has, whole or cut
NotWritten(lines, n, cut, tag) ==
    (\A k \in 1..n : lines[k][1] # tag) /\ (cut => lines[n + 1][1] # tag)

LEMMA StoredOther ==
    ASSUME NEW there, NEW lines, NEW n \in Nat, NEW cut \in BOOLEAN, NEW tag,
           NotWritten(lines, n, cut, tag),
           NEW now, now = Stored(there, lines, n, cut)
    PROVE  /\ tag \in DOMAIN now <=> tag \in DOMAIN there
           /\ tag \in DOMAIN there => now[tag] = there[tag]
<1> USE DEF NotWritten
<1>1. tag \notin {lines[i][1] : i \in 1..n} /\ tag \notin IF cut THEN {lines[n + 1][1]} ELSE {}
  OBVIOUS
<1> QED
  BY <1>1 DEF Stored

\* The lines
UnixTags == <<"Login", "Format", "Channels", "SampleRate", "BitRate", "ReceiveFormat",
              "ReceiveChannels", "ReceiveBitRate", "Advanced", "Name", "OffCommand",
              "OnCommand", "OffAddress", "OnAddress">>
LinesAre(s, lines) ==
    /\ DOMAIN lines = 1..14 /\ Len(lines) = 14
    /\ \A k \in (1..14) \ {8} : lines[k][1] = UnixTags[k]
    /\ lines[1][2] = StringToBase64(s.username \o << 58 >> \o s.password)
    /\ lines[2][2] = s.format["Transmit"] /\ lines[3][2] = s.channels["Transmit"]
    /\ lines[4][2] = s.sampleRate
    /\ lines[6][2] = s.format["Receive"] /\ lines[7][2] = s.channels["Receive"]
    /\ lines[8][2] = s.bitRate["Receive"] /\ lines[5][2] = s.bitRate["Transmit"]
    /\ lines[9][2] = s.advanced /\ lines[10][2] = s.name
    /\ lines[11][2] = s.command[Off] /\ lines[12][2] = s.command[On]
    /\ lines[13][2] = s.address[Off]

LEMMA UnixLinesAre ==
    ASSUME NEW s
    PROVE  /\ LinesAre(s, UnixLines(s))
           /\ UnixLines(s)[8][1] = "ReceiveBitRate" /\ UnixLines(s)[14][2] = s.address[On]
BY DEF UnixLines, LinesAre, UnixTags

LEMMA WindowsLinesAre ==
    ASSUME NEW s
    PROVE  /\ LinesAre(s, WindowsLines(s))
           /\ WindowsLines(s)[8][1] = "BitRate" /\ WindowsLines(s)[14][2] \in {"", "x"}
<1> DEFINE lines == UnixLines(s)
           w == WindowsLines(s)
           text == IF s.command[On] = "" THEN "" ELSE "x"
           rate == <<"BitRate", s.bitRate["Receive"]>>
<1>1. /\ LinesAre(s, lines)
      /\ lines[8][1] = "ReceiveBitRate"
  BY UnixLinesAre
<1>2. /\ DOMAIN w = DOMAIN lines
      /\ \A k \in DOMAIN lines :
           /\ lines[k][1] = "ReceiveBitRate" => w[k] = rate
           /\ lines[k][1] = "OnAddress" =>
                w[k] = <<"OnAddress", text>>
           /\ lines[k][1] \notin {"ReceiveBitRate", "OnAddress"} => w[k] = lines[k]
  BY DEF WindowsLines
<1>0. text \in {"", "x"}
  OBVIOUS
<1> HIDE DEF lines, w, text, rate
<1>3. DOMAIN lines = 1..14 /\ \A k \in (1..14) \ {8} : lines[k][1] = UnixTags[k]
  BY <1>1 DEF LinesAre
<1>4. \A k \in (1..14) \ {8} :
         /\ lines[k][1] # "ReceiveBitRate"
         /\ lines[k][1] = "OnAddress" => k = 14
  BY <1>3 DEF UnixTags
<1>5. \A k \in (1..14) \ {8, 14} : w[k] = lines[k]
  <2> TAKE k \in (1..14) \ {8, 14}
  <2>1. k \in (1..14) \ {8} /\ k # 14 /\ k \in DOMAIN lines
    BY <1>3
  <2>2. lines[k][1] # "ReceiveBitRate" /\ lines[k][1] # "OnAddress"
    BY <1>4, <2>1
  <2> QED
    BY <1>2, <2>1, <2>2
<1>6. w[8] = rate
  BY <1>1, <1>2, <1>3
<1>7. w[14] = <<"OnAddress", text>>
  <2>1. lines[14][1] = "OnAddress"
    BY <1>3 DEF UnixTags
  <2> QED
    BY <1>2, <1>3, <2>1
<1>8. w[14][1] = UnixTags[14] /\ w[14][2] \in {"", "x"}
  <2>1. UnixTags[14] = "OnAddress"
    BY DEF UnixTags
  <2>2. w[14][1] = "OnAddress" /\ w[14][2] = text
    BY <1>7
  <2> QED
    BY <1>0, <2>1, <2>2
<1>9. DOMAIN w = 1..14 /\ Len(w) = 14
  <2>1. w = [k \in DOMAIN lines |-> w[k]]
    BY DEF w, lines, WindowsLines
  <2>2. w \in Seq({w[k] : k \in 1..14})
    BY <1>3, <2>1
  <2> QED
    BY <1>2, <1>3, <2>2
<1>10. \A k \in (1..14) \ {8} : w[k][1] = UnixTags[k]
  BY <1>3, <1>5, <1>8
<1>11. /\ w[8][1] = "BitRate" /\ w[8][2] = s.bitRate["Receive"]
  BY <1>6 DEF rate
<1>12. LinesAre(s, w)
  BY <1>1, <1>5, <1>9, <1>10, <1>11 DEF LinesAre
<1> QED
  BY <1>8, <1>11, <1>12 DEF w

LEMMA TagsDiffer ==
    ASSUME NEW j \in 1..14, NEW k \in 1..14, UnixTags[j] = UnixTags[k]
    PROVE  j = k
BY DEF UnixTags

-----------------------------------------------------------------------------
(***************************************************************************)
(* The login.                                                              *)
(***************************************************************************)
PartOf(S, s, m, n, part) ==
    /\ part \in Seq(S) /\ Len(part) = IF m <= n THEN n - m + 1 ELSE 0
    /\ \A i \in 1..n - m + 1 : part[i] = s[m + i - 1]
Within(S, s, m, n) == \A i \in m..n : s[i] \in S

LEMMA SubSeqIs ==
    ASSUME NEW S, NEW s, NEW m \in Int, NEW n \in Int, Within(S, s, m, n)
    PROVE  PartOf(S, s, m, n, SubSeq(s, m, n))
BY SubSeqProperties DEF Within, PartOf

NoColon(u) == \A i \in DOMAIN u : u[i] # 58
Parts(u, p, enc) ==
    /\ enc \in Seq(0..255) /\ Len(u) \in Nat
    /\ Colon(enc) = Len(u) + 1
    /\ SubSeq(enc, 1, Len(u)) = u
    /\ SubSeq(enc, Len(u) + 2, Len(enc)) = p

LEMMA LoginParts ==
    ASSUME NEW u \in Seq(0..255), NEW p \in Seq(0..255), NoColon(u),
           NEW enc, enc = u \o << 58 >> \o p
    PROVE  Parts(u, p, enc)
<1>1. /\ enc \in Seq(0..255) /\ Len(enc) = Len(u) + 1 + Len(p)
      /\ enc[Len(u) + 1] = 58
      /\ \A i \in 1..Len(u) : enc[i] = u[i]
      /\ \A i \in 1..Len(p) : enc[Len(u) + 1 + i] = p[i]
  OBVIOUS
<1>2. Colon(enc) = Len(u) + 1
  <2> DEFINE colons == {i \in DOMAIN enc : enc[i] = 58}
             least == CHOOSE i \in colons : \A j \in colons : i <= j
  <2>1. Len(u) + 1 \in colons /\ \A j \in colons : Len(u) + 1 <= j
    BY <1>1 DEF NoColon
  <2>2. least \in colons /\ \A j \in colons : least <= j
    BY <2>1
  <2>3. least = Len(u) + 1
    BY <1>1, <2>1, <2>2
  <2>4. Colon(enc) = least
    BY <2>1 DEF Colon
  <2> QED
    BY <2>3, <2>4
<1>5. /\ Len(u) \in Nat /\ Len(p) \in Nat
      /\ \A i \in 1..Len(enc) : enc[i] \in 0..255
  <2>1. enc \in Seq(0..255)
    BY <1>1
  <2>2. \A i \in 1..Len(enc) : enc[i] \in 0..255
    BY <2>1, ElementOfSeq, Zenon
  <2> QED
    BY <2>2
<1>3. SubSeq(enc, 1, Len(u)) = u
  <2> DEFINE n == Len(u)
             front == SubSeq(enc, 1, n)
  <2>1. 1 \in Int /\ n \in Nat /\ Within(0..255, enc, 1, n)
    BY <1>1, <1>5 DEF Within
  <2> HIDE DEF n
  <2>2. PartOf(0..255, enc, 1, n, front)
    BY <2>1, SubSeqIs
  <2> HIDE DEF front
  <2>3. Len(front) = n /\ front \in Seq(0..255) /\ \A i \in 1..n : front[i] = enc[i]
    <3>1. n - 1 + 1 = n /\ (1 <= n \/ n = 0) /\ \A i \in 1..n : 1 + i - 1 = i
      BY <2>1
    <3>2. front \in Seq(0..255)
      BY <2>2 DEF PartOf
    <3>3. Len(front) = n
      BY <2>1, <2>2, <3>1 DEF PartOf
    <3>4. \A i \in 1..n : front[i] = enc[i]
      BY <2>2, <3>1 DEF PartOf
    <3> QED
      BY <3>2, <3>3, <3>4
  <2>4. Len(front) = Len(u) /\ \A i \in 1..Len(front) : front[i] = u[i]
    BY <1>1, <2>3 DEF n
  <2>5. front = u
    BY <2>3, <2>4, SeqEqual
  <2> QED
    BY <2>5 DEF front, n
<1>4. SubSeq(enc, Len(u) + 2, Len(enc)) = p
  <2> DEFINE m == Len(u) + 2
             n == Len(enc)
             rest == SubSeq(enc, m, n)
  <2>1. m \in Int /\ n \in Int /\ Within(0..255, enc, m, n)
    BY <1>1, <1>5 DEF Within
  <2>2. n = m + Len(p) - 1 /\ \A i \in 1..Len(p) : enc[m + i - 1] = p[i]
    <3>1. n = m + Len(p) - 1 /\ \A i \in 1..Len(p) : m + i - 1 = Len(u) + 1 + i
      BY <1>1, <1>5
    <3> HIDE DEF m, n
    <3> QED
      BY <1>1, <3>1
  <2> HIDE DEF m, n
  <2>3. PartOf(0..255, enc, m, n, rest)
    BY <2>1, SubSeqIs
  <2> HIDE DEF rest
  <2>4. rest \in Seq(0..255) /\ Len(rest) = Len(p) /\ \A i \in 1..Len(rest) : rest[i] = p[i]
    <3>1. rest \in Seq(0..255)
      BY <2>3 DEF PartOf
    <3>2. n - m + 1 = Len(p) /\ Len(p) \in Nat /\ (m <= n \/ Len(p) = 0)
      BY <1>5, <2>1, <2>2
    <3>3. Len(rest) = Len(p)
      BY <1>5, <2>1, <2>3, <3>2 DEF PartOf
    <3>4. \A i \in 1..Len(p) : rest[i] = enc[m + i - 1]
      BY <2>3, <3>2 DEF PartOf
    <3> QED
      BY <2>2, <3>1, <3>3, <3>4
  <2>5. rest = p
    BY <2>4, SeqEqual
  <2> QED
    BY <2>5 DEF rest, m, n
<1> QED
  BY <1>1, <1>2, <1>3, <1>4 DEF Parts

-----------------------------------------------------------------------------
(***************************************************************************)
(* The settings.                                                           *)
(***************************************************************************)
SettingsOf(f, c, b, r, u, p, n, a, m, h) ==
    [format |-> f, channels |-> c, bitRate |-> b, sampleRate |-> r, username |-> u,
     password |-> p, name |-> n, advanced |-> a, command |-> m, address |-> h]

Whole(s) ==
    s = SettingsOf(s.format, s.channels, s.bitRate, s.sampleRate, s.username,
                   s.password, s.name, s.advanced, s.command, s.address)

Real(text) == text \notin {"", "x"}

\* The settings of the program: the receiver may have no format, the addresses are
\* addresses
IsSettings(s) ==
    /\ Whole(s)
    /\ s.format = [dir \in Directions |-> s.format[dir]] /\ SettingsFit(s)
    /\ s.channels = [dir \in Directions |-> s.channels[dir]]
    /\ s.bitRate = [dir \in Directions |-> s.bitRate[dir]]
    /\ s.command = <<s.command[Off], s.command[On]>>
    /\ s.address = <<s.address[Off], s.address[On]>>
    /\ Real(s.address[Off]) /\ Real(s.address[On])

\* What ReadConfig finds
Both(x, y) == [dir \in Directions |-> IF dir = "Transmit" THEN x ELSE y]

LEMMA BothAre ==
    ASSUME NEW x, NEW y
    PROVE  [Transmit |-> x, Receive |-> y] = Both(x, y)
BY DEF Both, Directions

LEMMA ParsedIs ==
    ASSUME NEW texts, NEW h, h = Parsed(texts)
    PROVE  /\ h = <<h[Off], h[On]>> /\ Real(h[Off]) /\ Real(h[On])
           /\ Real(texts[Off]) => h[Off] = texts[Off]
           /\ Real(texts[On]) => h[On] = texts[On]
           /\ ~Real(texts[On]) => h[On] = h[Off]
<1> DEFINE first == IF Real(texts[Off]) THEN texts[Off] ELSE "0.0.0.0"
           second == IF Real(texts[On]) THEN texts[On] ELSE first
<1>1. h = <<first, second>>
  BY DEF Parsed, Real
<1>2. Real(first) /\ Real(second)
  BY DEF Real
<1> HIDE DEF first, second
<1>3. h = <<h[Off], h[On]>> /\ h[Off] = first /\ h[On] = second
  BY <1>1 DEF Off, On
<1> QED
  BY <1>2, <1>3 DEF first, second

ReadLogin(there, r) ==
    LET enc == LoginRead(there)
    IN  /\ r.username = SubSeq(enc, 1, Colon(enc) - 1)
        /\ Colon(enc) = 0 => r.password = <<>>
        /\ Colon(enc) # 0 => r.password = SubSeq(enc, Colon(enc) + 1, Len(enc))
ReadBoxes(there, r) ==
    /\ r.format = Both(Value(there, "Format", "Speex"), Value(there, "ReceiveFormat", "Speex"))
    /\ r.channels = Both(Value(there, "Channels", 1), Value(there, "ReceiveChannels", 1))
    /\ r.bitRate = Both(Value(there, "BitRate", 48), Value(there, "ReceiveBitRate", 48))
SampleOf(there) == Value(there, "SampleRate", 32000)
ReadRate(there, r) == r.sampleRate = SampleOf(there)
ReadRest(there, r) ==
    /\ r.name = NameRead(there)
    /\ r.advanced = Value(there, "Advanced", 0)
    /\ r.command = <<Value(there, "OffCommand", ""), Value(there, "OnCommand", "")>>
    /\ r.address = Parsed(<<Value(there, "OffAddress", Missing),
                            Value(there, "OnAddress", Missing)>>)

LEMMA FieldsOf ==
    ASSUME NEW f, NEW c, NEW b, NEW r, NEW u, NEW p, NEW n, NEW a, NEW m, NEW h,
           NEW s, s = SettingsOf(f, c, b, r, u, p, n, a, m, h)
    PROVE  /\ Whole(s)
           /\ s.format = f /\ s.channels = c /\ s.bitRate = b /\ s.sampleRate = r
           /\ s.username = u /\ s.password = p /\ s.name = n /\ s.advanced = a
           /\ s.command = m /\ s.address = h
BY DEF SettingsOf, Whole

LEMMA ReadIs ==
    ASSUME NEW there
    PROVE  /\ Whole(ReadConfig(there)) /\ ReadLogin(there, ReadConfig(there))
           /\ ReadBoxes(there, ReadConfig(there)) /\ ReadRate(there, ReadConfig(there))
           /\ ReadRest(there, ReadConfig(there))
<1> DEFINE f == [Transmit |-> Value(there, "Format", "Speex"),
                Receive |-> Value(there, "ReceiveFormat", "Speex")]
           c == [Transmit |-> Value(there, "Channels", 1),
                Receive |-> Value(there, "ReceiveChannels", 1)]
           b == [Transmit |-> Value(there, "BitRate", 48),
                Receive |-> Value(there, "ReceiveBitRate", 48)]
           enc == LoginRead(there)
           rate == Value(there, "SampleRate", 32000)
           u == SubSeq(enc, 1, Colon(enc) - 1)
           p == IF Colon(enc) = 0 THEN <<>> ELSE SubSeq(enc, Colon(enc) + 1, Len(enc))
           n == NameRead(there)
           a == Value(there, "Advanced", 0)
           m == <<Value(there, "OffCommand", ""), Value(there, "OnCommand", "")>>
           h == Parsed(<<Value(there, "OffAddress", Missing),
                         Value(there, "OnAddress", Missing)>>)
<1>1. ReadConfig(there) = SettingsOf(f, c, b, rate, u, p, n, a, m, h)
  BY SMT DEF ReadConfig, SettingsOf
<1>2. /\ f = Both(Value(there, "Format", "Speex"), Value(there, "ReceiveFormat", "Speex"))
      /\ c = Both(Value(there, "Channels", 1), Value(there, "ReceiveChannels", 1))
      /\ b = Both(Value(there, "BitRate", 48), Value(there, "ReceiveBitRate", 48))
  BY BothAre
<1> DEFINE r == ReadConfig(there)
<1> HIDE DEF f, c, b, rate, u, p, n, a, m, h, r
<1>3. /\ Whole(r)
      /\ r.format = f /\ r.channels = c /\ r.bitRate = b /\ r.sampleRate = rate
      /\ r.username = u /\ r.password = p /\ r.name = n /\ r.advanced = a
      /\ r.command = m /\ r.address = h
  BY <1>1, FieldsOf DEF r
<1>4. r.sampleRate = Value(there, "SampleRate", 32000)
  BY <1>3, SMT DEF rate
<1>5. /\ r.username = SubSeq(enc, 1, Colon(enc) - 1)
      /\ Colon(enc) = 0 => r.password = <<>>
      /\ Colon(enc) # 0 => r.password = SubSeq(enc, Colon(enc) + 1, Len(enc))
  BY <1>3, Zenon DEF u, p
<1>6. /\ r.command = <<Value(there, "OffCommand", ""), Value(there, "OnCommand", "")>>
      /\ r.address = Parsed(<<Value(there, "OffAddress", Missing),
                              Value(there, "OnAddress", Missing)>>)
      /\ r.name = NameRead(there) /\ r.advanced = Value(there, "Advanced", 0)
  BY <1>3, Zenon DEF m, h, n, a
<1> HIDE DEF enc
<1>7. ReadLogin(there, r)
  BY <1>5, Zenon DEF ReadLogin, enc
<1>8. ReadBoxes(there, r) /\ ReadRate(there, r)
  BY <1>2, <1>3, <1>4, SMT DEF ReadBoxes, ReadRate, SampleOf
<1>9. ReadRest(there, r)
  BY <1>6, Zenon DEF ReadRest
<1> QED
  BY <1>3, <1>7, <1>8, <1>9 DEF r

-----------------------------------------------------------------------------
\* What a save writes under each tag
SavedLines(s, lines) ==
    LinesAre(s, lines) /\ lines[8][1] \in {"ReceiveBitRate", "BitRate"}

\* A save that may end within a line of the addresses
SaveEnds(n, cut) == n \in 0..14 /\ cut \in BOOLEAN /\ (cut => n \in {12, 13})

\* One that reached the bit rates, and one that reached its end
Sounds(n, cut) == SaveEnds(n, cut) /\ n >= 8
Ends(n, cut) == SaveEnds(n, cut) /\ n = 14 /\ ~cut

LEMMA TagStored ==
    ASSUME NEW s, NEW lines, SavedLines(s, lines), NEW n, NEW cut, SaveEnds(n, cut),
           NEW k \in (1..n) \ {5, 8},
           NEW there, NEW now, now = Stored(there, lines, n, cut)
    PROVE  UnixTags[k] \in DOMAIN now /\ now[UnixTags[k]] = lines[k][2]
<1>1. /\ \A j \in (1..14) \ {8} : lines[j][1] = UnixTags[j]
      /\ n \in Nat /\ k \in 1..14 /\ k \in 1..n /\ cut \in BOOLEAN
  BY DEF SavedLines, LinesAre, SaveEnds
<1>2. UnixTags[8] = "ReceiveBitRate" /\ UnixTags[5] = "BitRate"
  BY DEF UnixTags
<1>3. lines[8][1] \in {UnixTags[8], UnixTags[5]}
  BY <1>2 DEF SavedLines
<1>4. lines[k][1] = UnixTags[k]
  BY <1>1
<1>5. ASSUME NEW j \in (1..14) \ {k}
      PROVE  lines[j][1] # UnixTags[k]
  <2>1. CASE j = 8
    BY <1>1, <1>3, <2>1, TagsDiffer
  <2>2. CASE j # 8
    BY <1>1, <2>2, TagsDiffer
  <2> QED
    BY <2>1, <2>2
<1>6. \A j \in k+1..n : lines[j][1] # UnixTags[k]
  BY <1>1, <1>5 DEF SaveEnds
<1>7. cut => lines[n + 1][1] # UnixTags[k]
  BY <1>1, <1>5 DEF SaveEnds
<1>8. WrittenLast(lines, n, cut, k, UnixTags[k])
  BY <1>1, <1>4, <1>6, <1>7 DEF WrittenLast
<1> QED
  BY <1>1, <1>8, StoredLine

\* A tag that the save did not reach keeps what was there
LEMMA TagKept ==
    ASSUME NEW s, NEW lines, SavedLines(s, lines), NEW n, NEW cut, SaveEnds(n, cut),
           NEW k \in (n+1..14) \ {5, 8}, ~cut,
           NEW there, NEW now, now = Stored(there, lines, n, cut)
    PROVE  /\ UnixTags[k] \in DOMAIN now <=> UnixTags[k] \in DOMAIN there
           /\ UnixTags[k] \in DOMAIN there => now[UnixTags[k]] = there[UnixTags[k]]
<1>1. /\ \A j \in (1..14) \ {8} : lines[j][1] = UnixTags[j]
      /\ n \in Nat /\ k \in 1..14 /\ k > n /\ cut \in BOOLEAN /\ n \in 0..14
  BY DEF SavedLines, LinesAre, SaveEnds
<1>2. UnixTags[8] = "ReceiveBitRate" /\ UnixTags[5] = "BitRate"
  BY DEF UnixTags
<1>3. lines[8][1] \in {UnixTags[8], UnixTags[5]}
  BY <1>2 DEF SavedLines
<1>4. ASSUME NEW j \in 1..n
      PROVE  lines[j][1] # UnixTags[k]
  <2>1. CASE j = 8
    BY <1>1, <1>3, <2>1, TagsDiffer
  <2>2. CASE j # 8
    BY <1>1, <2>2, TagsDiffer
  <2> QED
    BY <2>1, <2>2
<1>5. NotWritten(lines, n, cut, UnixTags[k])
  BY <1>4 DEF NotWritten
<1> QED
  BY <1>1, <1>5, StoredOther

\* The bit rates, in the file ...
LEMMA FileRates ==
    ASSUME NEW s, NEW n, NEW cut, Sounds(n, cut),
           NEW there, NEW now, now = Stored(there, UnixLines(s), n, cut)
    PROVE  /\ "BitRate" \in DOMAIN now /\ now["BitRate"] = s.bitRate["Transmit"]
           /\ "ReceiveBitRate" \in DOMAIN now /\ now["ReceiveBitRate"] = s.bitRate["Receive"]
<1> DEFINE lines == UnixLines(s)
<1>1. LinesAre(s, lines) /\ lines[8][1] = "ReceiveBitRate"
  BY UnixLinesAre
<1>0. now = Stored(there, lines, n, cut)
  OBVIOUS
<1> HIDE DEF lines
<1>2. UnixTags[8] = "ReceiveBitRate" /\ UnixTags[5] = "BitRate"
  BY DEF UnixTags
<1>3. /\ \A j \in 1..14 : lines[j][1] = UnixTags[j]
      /\ n \in Nat /\ n \in 8..14 /\ 8 \in 1..n /\ 5 \in 1..n /\ cut \in BOOLEAN
      /\ cut => n + 1 \in 13..14
  BY <1>1, <1>2 DEF LinesAre, SaveEnds, Sounds
<1>4. \A j \in 1..14 : (j # 5 => lines[j][1] # "BitRate")
                       /\ (j # 8 => lines[j][1] # "ReceiveBitRate")
  BY <1>2, <1>3, TagsDiffer
<1>5. "BitRate" \in DOMAIN now /\ now["BitRate"] = lines[5][2]
  <2>1. WrittenLast(lines, n, cut, 5, "BitRate")
    BY <1>2, <1>3, <1>4 DEF WrittenLast
  <2> QED
    BY <1>0, <1>3, <2>1, StoredLine
<1>6. "ReceiveBitRate" \in DOMAIN now /\ now["ReceiveBitRate"] = lines[8][2]
  <2>1. WrittenLast(lines, n, cut, 8, "ReceiveBitRate")
    BY <1>2, <1>3, <1>4 DEF WrittenLast
  <2> QED
    BY <1>0, <1>3, <2>1, StoredLine
<1> QED
  BY <1>1, <1>5, <1>6 DEF LinesAre

\* ... and in the registry
LEMMA RegistryRates ==
    ASSUME NEW s, NEW n, NEW cut, Ends(n, cut),
           NEW there, NEW now, now = Stored(there, WindowsLines(s), n, cut)
    PROVE  "BitRate" \in DOMAIN now /\ now["BitRate"] = s.bitRate["Receive"]
<1> DEFINE lines == WindowsLines(s)
<1>1. LinesAre(s, lines) /\ lines[8][1] = "BitRate"
  BY WindowsLinesAre
<1>0. now = Stored(there, lines, n, cut)
  OBVIOUS
<1> HIDE DEF lines
<1>2. UnixTags[8] = "ReceiveBitRate" /\ UnixTags[5] = "BitRate"
  BY DEF UnixTags
<1>3. /\ \A j \in (1..14) \ {8} : lines[j][1] = UnixTags[j]
      /\ n \in Nat /\ n \in 0..14 /\ cut \in BOOLEAN /\ 8 \in 1..n /\ ~cut
  BY <1>1 DEF LinesAre, SaveEnds, Ends
<1>4. \A j \in (1..14) \ {8} : (j # 5 => lines[j][1] # "BitRate")
                               /\ lines[j][1] # "ReceiveBitRate"
  BY <1>2, <1>3, TagsDiffer
<1>5. "BitRate" \in DOMAIN now /\ now["BitRate"] = lines[8][2]
  <2>1. WrittenLast(lines, n, cut, 8, "BitRate")
    BY <1>1, <1>3, <1>4 DEF WrittenLast
  <2> QED
    BY <1>0, <1>3, <2>1, StoredLine
<1> QED
  BY <1>1, <1>5 DEF LinesAre

\* The receiver's is never there
LEMMA RegistryLacks ==
    ASSUME NEW s, NEW n, NEW cut, SaveEnds(n, cut), ~cut,
           NEW there, NEW now, now = Stored(there, WindowsLines(s), n, cut)
    PROVE  "ReceiveBitRate" \in DOMAIN now <=> "ReceiveBitRate" \in DOMAIN there
<1> DEFINE lines == WindowsLines(s)
<1>1. LinesAre(s, lines) /\ lines[8][1] = "BitRate"
  BY WindowsLinesAre
<1>0. now = Stored(there, lines, n, cut)
  OBVIOUS
<1> HIDE DEF lines
<1>2. UnixTags[8] = "ReceiveBitRate"
  BY DEF UnixTags
<1>3. /\ \A j \in (1..14) \ {8} : lines[j][1] = UnixTags[j]
      /\ n \in Nat /\ n \in 0..14 /\ cut \in BOOLEAN
  BY <1>1 DEF LinesAre, SaveEnds
<1>4. \A j \in (1..14) \ {8} : lines[j][1] # "ReceiveBitRate"
  BY <1>2, <1>3, TagsDiffer
<1>6. NotWritten(lines, n, cut, "ReceiveBitRate")
  BY <1>1, <1>3, <1>4 DEF NotWritten
<1> QED
  BY <1>0, <1>3, <1>6, StoredOther

-----------------------------------------------------------------------------
\* The login that is read
Enciphered(l) == StringToBase64(l[1] \o << 58 >> \o l[2])

Named == {l \in Logins : l[1] # <<>>}
SomeLogin == Named \union {Nobody}

LEMMA LoginsAre ==
    ASSUME NEW l \in Logins \union {Nobody}
    PROVE  /\ l = <<l[1], l[2]>> /\ l[1] \in Seq(0..255) /\ l[2] \in Seq(0..255)
           /\ NoColon(l[1])
<1>1. CASE l \in Logins
  BY <1>1, SettingsAssumption DEF SettingsAssumption, NoColon
<1>2. CASE l = Nobody
  <2>1. l = << <<>>, <<>> >> /\ <<>> \in Seq(0..255)
    BY <1>2 DEF Nobody
  <2> QED
    BY <2>1 DEF NoColon
<1> QED
  BY <1>1, <1>2

LEMMA LoginReads ==
    ASSUME NEW l \in SomeLogin, NEW there, "Login" \in DOMAIN there,
           there["Login"] = Enciphered(l), NEW r, r = ReadConfig(there)
    PROVE  r.username = l[1] /\ r.password = l[2]
<1> DEFINE u == l[1]
           p == l[2]
           enc == u \o << 58 >> \o p
<1>1. u \in Seq(0..255) /\ p \in Seq(0..255) /\ NoColon(u)
  BY LoginsAre DEF SomeLogin, Named
<1>2. there["Login"] = StringToBase64(enc)
  BY DEF Enciphered
<1>0. enc = u \o << 58 >> \o p
  OBVIOUS
<1> HIDE DEF u, p, enc
<1>3. /\ enc \in Seq(0..255) /\ Colon(enc) = Len(u) + 1
      /\ SubSeq(enc, 1, Len(u)) = u /\ SubSeq(enc, Len(u) + 2, Len(enc)) = p
      /\ Len(u) \in Nat
  <2>1. Parts(u, p, enc)
    BY <1>0, <1>1, LoginParts
  <2> QED
    BY <2>1 DEF Parts
<1>4. LoginRead(there) = enc
  <2>1. Base64ToString(StringToBase64(enc)) = enc
    BY <1>3, Base64RoundTrip
  <2>2. Value(there, "Login", <<>>) = StringToBase64(enc)
    BY <1>2 DEF Value
  <2> QED
    BY <2>1, <2>2 DEF LoginRead
<1>5. ReadLogin(there, r)
  BY ReadIs
<1>6. r.username = SubSeq(enc, 1, Colon(enc) - 1)
      /\ (Colon(enc) # 0 => r.password = SubSeq(enc, Colon(enc) + 1, Len(enc)))
  BY <1>4, <1>5 DEF ReadLogin
<1>7. Colon(enc) - 1 = Len(u) /\ Colon(enc) # 0 /\ Colon(enc) + 1 = Len(u) + 2
  BY <1>3
<1>8. r.username = u /\ r.password = p
  BY <1>3, <1>6, <1>7
<1> QED
  BY <1>8 DEF u, p

LEMMA NoLoginReads ==
    ASSUME NEW there, "Login" \notin DOMAIN there, NEW r, r = ReadConfig(there)
    PROVE  r.username = <<>> /\ r.password = <<>>
<1>1. Value(there, "Login", <<>>) = <<>>
  BY DEF Value
<1>2. Base64ToString(<<>>) = <<>>
  <2> DEFINE s == <<>>
  <2>1. s \in Seq(0..255)
    OBVIOUS
  <2>2. StringToBase64(s) = <<>>
    <3>1. Len(s) = 0 /\ 4 * ((Len(s) + 2) \div 3) = 0
      OBVIOUS
    <3>2. DOMAIN StringToBase64(s) = 1..0
      BY <3>1 DEF StringToBase64
    <3> QED
      BY <3>1 DEF StringToBase64
  <2>3. Base64ToString(StringToBase64(s)) = s
    BY <2>1, Base64RoundTrip
  <2> QED
    BY <2>2, <2>3
<1>3. LoginRead(there) = <<>>
  BY <1>1, <1>2 DEF LoginRead
<1>4. Colon(<<>>) = 0
  BY DEF Colon
<1>5. r.username = SubSeq(<<>>, 1, 0 - 1) /\ r.password = <<>>
  BY <1>3, <1>4, ReadIs DEF ReadLogin
<1> QED
  BY <1>5, SubSeqEmpty

-----------------------------------------------------------------------------
LEMMA BothIs ==
    ASSUME NEW f, f = [dir \in Directions |-> f[dir]]
    PROVE  Both(f["Transmit"], f["Receive"]) = f
BY DEF Both, Directions

LEMMA SameSettings ==
    ASSUME NEW r, NEW s, Whole(r), Whole(s),
           r.format = s.format, r.channels = s.channels, r.bitRate = s.bitRate,
           r.sampleRate = s.sampleRate, r.username = s.username, r.password = s.password,
           r.name = s.name, r.advanced = s.advanced, r.command = s.command,
           r.address = s.address
    PROVE  r = s
BY DEF Whole

LEMMA LinesSaved ==
    ASSUME NEW s, NEW lines, lines = Lines(s)
    PROVE  /\ SavedLines(s, lines) /\ Len(lines) = 14
           /\ system = "unix" => lines = UnixLines(s) /\ lines[14][2] = s.address[On]
           /\ system # "unix" => lines = WindowsLines(s) /\ lines[14][2] \in {"", "x"}
<1>1. CASE system = "unix"
  <2>1. lines = UnixLines(s)
    BY <1>1 DEF Lines
  <2>2. LinesAre(s, lines) /\ lines[8][1] = "ReceiveBitRate" /\ lines[14][2] = s.address[On]
    BY <2>1, UnixLinesAre
  <2> QED
    BY <1>1, <2>1, <2>2 DEF SavedLines, LinesAre
<1>2. CASE system # "unix"
  <2>1. lines = WindowsLines(s)
    BY <1>2 DEF Lines
  <2>2. LinesAre(s, lines) /\ lines[8][1] = "BitRate" /\ lines[14][2] \in {"", "x"}
    BY <2>1, WindowsLinesAre
  <2> QED
    BY <1>2, <2>1, <2>2 DEF SavedLines, LinesAre
<1> QED
  BY <1>1, <1>2

LEMMA StoredValue ==
    ASSUME NEW there, NEW tag, tag \in DOMAIN there, NEW default
    PROVE  Value(there, tag, default) = there[tag]
BY DEF Value

\* The settings of the codec, except for the bit rates, in the file and the registry
SoundLines(s, now) ==
    /\ Value(now, "Format", "Speex") = s.format["Transmit"]
    /\ Value(now, "ReceiveFormat", "Speex") = s.format["Receive"]
    /\ Value(now, "Channels", 1) = s.channels["Transmit"]
    /\ Value(now, "ReceiveChannels", 1) = s.channels["Receive"]
SampleLine(s, now) == SampleOf(now) = s.sampleRate

LEMMA SoundSaved ==
    ASSUME NEW s, NEW lines, SavedLines(s, lines), NEW n, NEW cut, Sounds(n, cut),
           NEW there, NEW now, now = Stored(there, lines, n, cut)
    PROVE  SoundLines(s, now) /\ SampleLine(s, now)
<1>1. \A k \in {2, 3, 4, 6, 7} : k \in (1..n) \ {5, 8}
  BY DEF SaveEnds, Sounds
<1>2. \A k \in {2, 3, 4, 6, 7} :
         UnixTags[k] \in DOMAIN now /\ now[UnixTags[k]] = lines[k][2]
  BY <1>1, TagStored DEF Sounds
<1>3. /\ UnixTags[2] = "Format" /\ UnixTags[3] = "Channels" /\ UnixTags[4] = "SampleRate"
      /\ UnixTags[6] = "ReceiveFormat" /\ UnixTags[7] = "ReceiveChannels"
  BY DEF UnixTags
<1>4. /\ lines[2][2] = s.format["Transmit"] /\ lines[3][2] = s.channels["Transmit"]
      /\ lines[4][2] = s.sampleRate /\ lines[6][2] = s.format["Receive"]
      /\ lines[7][2] = s.channels["Receive"]
  BY DEF SavedLines, LinesAre
<1>5. /\ "Format" \in DOMAIN now /\ now["Format"] = s.format["Transmit"]
      /\ "Channels" \in DOMAIN now /\ now["Channels"] = s.channels["Transmit"]
      /\ "SampleRate" \in DOMAIN now /\ now["SampleRate"] = s.sampleRate
      /\ "ReceiveFormat" \in DOMAIN now /\ now["ReceiveFormat"] = s.format["Receive"]
      /\ "ReceiveChannels" \in DOMAIN now /\ now["ReceiveChannels"] = s.channels["Receive"]
  BY <1>2, <1>3, <1>4
<1> QED
  BY <1>5, StoredValue, SMT DEF SoundLines, SampleLine, SampleOf

\* The rest of them, when they were all written
RestLines(s, now) ==
    /\ Value(now, "Name", <<>>) = s.name /\ Value(now, "Advanced", 0) = s.advanced
    /\ Value(now, "OffCommand", "") = s.command[Off]
    /\ Value(now, "OnCommand", "") = s.command[On]
    /\ Value(now, "OffAddress", Missing) = s.address[Off]

LastLine(lines, now) == Value(now, "OnAddress", Missing) = lines[14][2]

LEMMA RestSaved ==
    ASSUME NEW s, NEW lines, SavedLines(s, lines),
           NEW n, NEW cut, Ends(n, cut),
           NEW there, NEW now, now = Stored(there, lines, n, cut)
    PROVE  RestLines(s, now) /\ LastLine(lines, now)
<1>1. \A k \in {9, 10, 11, 12, 13, 14} : k \in (1..n) \ {5, 8}
  BY DEF Ends
<1>3. \A k \in {9, 10, 11, 12, 13, 14} :
         UnixTags[k] \in DOMAIN now /\ now[UnixTags[k]] = lines[k][2]
  BY <1>1, TagStored DEF Ends
<1>4. /\ UnixTags[9] = "Advanced" /\ UnixTags[10] = "Name" /\ UnixTags[11] = "OffCommand"
      /\ UnixTags[12] = "OnCommand" /\ UnixTags[13] = "OffAddress"
      /\ UnixTags[14] = "OnAddress"
  BY DEF UnixTags
<1>5. /\ lines[9][2] = s.advanced /\ lines[10][2] = s.name
      /\ lines[11][2] = s.command[Off] /\ lines[12][2] = s.command[On]
      /\ lines[13][2] = s.address[Off]
  BY DEF SavedLines, LinesAre
<1>6. /\ "Advanced" \in DOMAIN now /\ now["Advanced"] = s.advanced
      /\ "Name" \in DOMAIN now /\ now["Name"] = s.name
      /\ "OffCommand" \in DOMAIN now /\ now["OffCommand"] = s.command[Off]
      /\ "OnCommand" \in DOMAIN now /\ now["OnCommand"] = s.command[On]
      /\ "OffAddress" \in DOMAIN now /\ now["OffAddress"] = s.address[Off]
      /\ "OnAddress" \in DOMAIN now /\ now["OnAddress"] = lines[14][2]
  BY <1>3, <1>4, <1>5
<1> QED
  <2>1. /\ Value(now, "Advanced", 0) = s.advanced /\ Value(now, "Name", <<>>) = s.name
        /\ Value(now, "OffCommand", "") = s.command[Off]
    BY <1>6 DEF Value
  <2>2. Value(now, "OnCommand", "") = s.command[On]
        /\ Value(now, "OffAddress", Missing) = s.address[Off]
    BY <1>6 DEF Value
  <2>3. Value(now, "OnAddress", Missing) = lines[14][2]
    BY <1>6 DEF Value
  <2> QED
    BY <2>1, <2>2, <2>3 DEF RestLines, LastLine

\* The login, when at least a line was written
Begins(n, cut) == SaveEnds(n, cut) /\ n # 0
LoginIs(s, l) == s.username = l[1] /\ s.password = l[2]
LoginThere(now, l) == "Login" \in DOMAIN now /\ now["Login"] = Enciphered(l)

LEMMA LoginSaved ==
    ASSUME NEW s, NEW lines, SavedLines(s, lines), NEW l, LoginIs(s, l),
           NEW n, NEW cut, Begins(n, cut),
           NEW there, NEW now, now = Stored(there, lines, n, cut)
    PROVE  LoginThere(now, l)
<1>1. UnixTags[1] = "Login"
  BY DEF UnixTags
<1>2. lines[1][2] = Enciphered(l)
  BY DEF SavedLines, LinesAre, Enciphered, LoginIs
<1>3. SaveEnds(n, cut) /\ 1 \in (1..n) \ {5, 8}
  BY DEF Begins, SaveEnds
<1>4. UnixTags[1] \in DOMAIN now /\ now[UnixTags[1]] = lines[1][2]
  BY <1>3, TagStored
<1> QED
  BY <1>1, <1>2, <1>4 DEF LoginThere

-----------------------------------------------------------------------------
\* Settings of the same sound can be played alike
LEMMA SamePlay ==
    ASSUME NEW r, NEW s, r.format = s.format, r.channels = s.channels,
           r.bitRate = s.bitRate, r.sampleRate = s.sampleRate, NEW dir, CanPlay(s, dir)
    PROVE  CanPlay(r, dir)
BY Zenon DEF CanPlay, AutoVector

\* What OK makes of the settings
AcceptedAs(r) ==
    /\ Whole(r)
    /\ r.format = [dir \in Directions |-> ReadFormat(dialog, dir)]
    /\ r.channels = [dir \in Directions |-> dialog.channels[dir].at]
    /\ r.bitRate = [dir \in Directions |-> Text(dialog.bitRate[dir])]
    /\ r.sampleRate = Text(dialog.sampleRate)
    /\ r.username = dialog.username /\ r.password = dialog.password /\ r.name = dialog.name
    /\ r.advanced = set.advanced /\ r.command = set.command /\ r.address = set.address

LEMMA AcceptedWhole ==
    ASSUME Whole(set)
    PROVE  AcceptedAs(Accepted)
<1> DEFINE f == [dir \in Directions |-> ReadFormat(dialog, dir)]
           c == [dir \in Directions |-> dialog.channels[dir].at]
           b == [dir \in Directions |-> Text(dialog.bitRate[dir])]
           rate == Text(dialog.sampleRate)
           u == dialog.username
           p == dialog.password
           n == dialog.name
           f0 == set.format
           c0 == set.channels
           b0 == set.bitRate
           r0 == set.sampleRate
           u0 == set.username
           p0 == set.password
           n0 == set.name
           a == set.advanced
           m == set.command
           h == set.address
           s1 == [set EXCEPT !.format = f]
           s2 == [s1 EXCEPT !.channels = c]
           s3 == [s2 EXCEPT !.bitRate = b]
           s4 == [s3 EXCEPT !.sampleRate = rate]
           s5 == [s4 EXCEPT !.username = u]
           s6 == [s5 EXCEPT !.password = p]
           r == [s6 EXCEPT !.name = n]
<1>1. set = SettingsOf(f0, c0, b0, r0, u0, p0, n0, a, m, h)
  BY DEF Whole
<1>2. Accepted = r
  BY DEF Accepted
<1> HIDE DEF f, c, b, rate, u, p, n, f0, c0, b0, r0, u0, p0, n0, a, m, h
<1>3. s1 = SettingsOf(f, c0, b0, r0, u0, p0, n0, a, m, h)
  BY <1>1 DEF SettingsOf
<1> HIDE DEF s1
<1>4. s2 = SettingsOf(f, c, b0, r0, u0, p0, n0, a, m, h)
  BY <1>3 DEF SettingsOf
<1> HIDE DEF s2
<1>5. s3 = SettingsOf(f, c, b, r0, u0, p0, n0, a, m, h)
  BY <1>4 DEF SettingsOf
<1> HIDE DEF s3
<1>6. s4 = SettingsOf(f, c, b, rate, u0, p0, n0, a, m, h)
  BY <1>5 DEF SettingsOf
<1> HIDE DEF s4
<1>7. s5 = SettingsOf(f, c, b, rate, u, p0, n0, a, m, h)
  BY <1>6 DEF SettingsOf
<1> HIDE DEF s5
<1>8. s6 = SettingsOf(f, c, b, rate, u, p, n0, a, m, h)
  BY <1>7 DEF SettingsOf
<1> HIDE DEF s6
<1>9. r = SettingsOf(f, c, b, rate, u, p, n, a, m, h)
  BY <1>8 DEF SettingsOf
<1> HIDE DEF r
<1>10. /\ Whole(r)
       /\ r.format = f /\ r.channels = c /\ r.bitRate = b /\ r.sampleRate = rate
       /\ r.username = u /\ r.password = p /\ r.name = n /\ r.advanced = a
       /\ r.command = m /\ r.address = h
  BY <1>9, FieldsOf
<1>11. AcceptedAs(r)
  BY <1>10 DEF AcceptedAs, f, c, b, rate, u, p, n, a, m, h
<1> QED
  BY <1>2, <1>11

\* What the Advanced dialog makes of the settings
Advanced(texts) ==
    [set EXCEPT !.advanced = 1, !.command[On] = "on", !.address = Parsed(texts)]

LEMMA AdvancedWhole ==
    ASSUME IsSettings(set), NEW texts, NEW r, r = Advanced(texts)
    PROVE  /\ IsSettings(r)
           /\ r.format = set.format /\ r.channels = set.channels
           /\ r.bitRate = set.bitRate /\ r.sampleRate = set.sampleRate
           /\ r.username = set.username /\ r.password = set.password /\ r.name = set.name
<1> DEFINE f == set.format
           c == set.channels
           b == set.bitRate
           rate == set.sampleRate
           u == set.username
           p == set.password
           n == set.name
           a0 == set.advanced
           m0 == set.command
           h0 == set.address
           a == 1
           m == [m0 EXCEPT ![On] = "on"]
           h == Parsed(texts)
           s1 == [set EXCEPT !.advanced = a]
           s2 == [s1 EXCEPT !.command[On] = "on"]
<1>1. set = SettingsOf(f, c, b, rate, u, p, n, a0, m0, h0)
  BY DEF IsSettings, Whole
<1>2. r = [s2 EXCEPT !.address = h]
  BY DEF Advanced
<1>3. m0 = <<m0[Off], m0[On]>>
  BY DEF IsSettings
<1> HIDE DEF f, c, b, rate, u, p, n, a, a0, m0, h0, h
<1>4. s1 = SettingsOf(f, c, b, rate, u, p, n, a, m0, h0)
  BY <1>1 DEF SettingsOf
<1> HIDE DEF s1
<1>5. s2 = SettingsOf(f, c, b, rate, u, p, n, a, m, h0)
  BY <1>4 DEF SettingsOf
<1> HIDE DEF s2
<1>6. m = <<m[Off], m[On]>>
  BY <1>3 DEF Off, On
<1> HIDE DEF m
<1>7. r = SettingsOf(f, c, b, rate, u, p, n, a, m, h)
  BY <1>2, <1>5 DEF SettingsOf
<1>8. /\ Whole(r)
      /\ r.format = f /\ r.channels = c /\ r.bitRate = b /\ r.sampleRate = rate
      /\ r.username = u /\ r.password = p /\ r.name = n /\ r.command = m /\ r.address = h
  BY <1>7, FieldsOf
<1>9. h = <<h[Off], h[On]>> /\ Real(h[Off]) /\ Real(h[On])
  BY ParsedIs DEF h
<1>10. /\ f = [dir \in Directions |-> f[dir]] /\ c = [dir \in Directions |-> c[dir]]
       /\ b = [dir \in Directions |-> b[dir]]
       /\ f["Transmit"] \in ThreeFormats /\ f["Receive"] \in ThreeFormats \union {"NoFormat"}
  BY DEF IsSettings, SettingsFit, f, c, b
<1>11. IsSettings(r)
  BY <1>6, <1>8, <1>9, <1>10 DEF IsSettings, SettingsFit
<1> QED
  BY <1>8, <1>11 DEF f, c, b, rate, u, p, n

-----------------------------------------------------------------------------
\* What is chosen in a dialog whose boxes go together can be played
LEMMA AcceptedFits ==
    ASSUME IsSettings(set), DialogFits(dialog), NEW r, r = Accepted
    PROVE  /\ IsSettings(r) /\ \A dir \in Directions : CanPlay(r, dir)
           /\ r.username = dialog.username /\ r.password = dialog.password
<1>1. AcceptedAs(r)
  BY AcceptedWhole DEF IsSettings
<1>2. \A dir \in Directions : dir = "Transmit" \/ dir = "Receive"
  BY DEF Directions
<1>3. /\ dialog.format["Transmit"] \in ThreeFormats
      /\ dialog.format["Receive"] \in ThreeFormats \union {"NoFormat"}
      /\ \A dir \in Directions : /\ Chosen(dialog.channels[dir])
                                 /\ dialog.channels[dir].items \in {<< 1 >>, <<1, 2>>}
  BY DEF DialogFits, Ready
<1>4. \A dir \in Directions : r.format[dir] = dialog.format[dir]
  <2> SUFFICES ASSUME NEW dir \in Directions
               PROVE  r.format[dir] = dialog.format[dir]
    OBVIOUS
  <2>1. dialog.format[dir] # "Empty"
    BY <1>2, <1>3 DEF ThreeFormats
  <2> QED
    BY <1>1, <2>1, FormatRead DEF AcceptedAs
<1>5. IsSettings(r)
  <2>1. SettingsFit(r)
    BY <1>3, <1>4 DEF SettingsFit, Directions
  <2>2. /\ r.format = [dir \in Directions |-> r.format[dir]]
        /\ r.channels = [dir \in Directions |-> r.channels[dir]]
        /\ r.bitRate = [dir \in Directions |-> r.bitRate[dir]]
    BY <1>1 DEF AcceptedAs
  <2>3. /\ r.command = <<r.command[Off], r.command[On]>>
        /\ r.address = <<r.address[Off], r.address[On]>>
        /\ Real(r.address[Off]) /\ Real(r.address[On])
    BY <1>1 DEF AcceptedAs, IsSettings
  <2> QED
    BY <1>1, <2>1, <2>2, <2>3 DEF AcceptedAs, IsSettings
<1>6. ASSUME NEW dir \in Directions, dialog.format[dir] # "NoFormat"
      PROVE  Plays(r.format[dir], r.channels[dir], r.sampleRate, r.bitRate[dir])
  <2> DEFINE format == dialog.format[dir]
             channels == dialog.channels[dir].at
             rate == Text(dialog.sampleRate)
             chosen == Text(dialog.bitRate[dir])
             items == dialog.bitRate[dir].items
             at == dialog.bitRate[dir].at
  <2>1. /\ r.format[dir] = format /\ r.channels[dir] = channels
        /\ r.sampleRate = rate /\ r.bitRate[dir] = chosen
    BY <1>1, <1>4 DEF AcceptedAs
  <2>2. Fits(dialog, dir)
    BY <1>6 DEF DialogFits
  <2>3. channels \in 1..2
    <3>1. channels \in {1, 2}
      BY <1>3, ChannelText
    <3> QED
      BY <3>1
  <2>4. /\ chosen = items[at] /\ at \in DOMAIN items
        /\ Among(items, format, rate, channels)
    BY <2>2 DEF Fits, Chosen, Text
  <2>5. format = "Speex" => channels = 1
    <3>1. ASSUME format = "Speex"
          PROVE  channels = 1
      <4>1. dialog.channels[dir].items = << 1 >> /\ channels \in DOMAIN dialog.channels[dir].items
        BY <1>3, <2>2, <3>1 DEF Fits, Chosen
      <4> QED
        BY <4>1
    <3> QED
      BY <3>1
  <2>6. format = "Speex" => rate = 32000
    <3>1. ASSUME format = "Speex"
          PROVE  SpeexRead(dialog)
      BY <3>1 DEF SpeexRead, ReadFormat
    <3>2. ASSUME SpeexRead(dialog)
          PROVE  rate = 32000
      <4> DEFINE box == dialog.sampleRate
      <4>1. box.items = << 32000 >> /\ box.at \in DOMAIN box.items
        BY <3>2 DEF DialogFits, IsRates, Chosen
      <4>2. Text(box) = 32000
        BY <4>1, SMT DEF Text
      <4> QED
        BY <4>2
    <3> QED
      BY <3>1, <3>2
  <2> HIDE DEF format, channels, rate, chosen, items, at
  <2>7. \E j \in DOMAIN BitRateItems(format, rate, channels) :
          BitRateItems(format, rate, channels)[j] = chosen
    BY <2>4 DEF Among
  <2>8. Plays(format, channels, rate, chosen)
    BY <2>3, <2>5, <2>6, <2>7 DEF Plays
  <2> QED
    BY <2>1, <2>8
<1>7. ASSUME NEW dir \in Directions
      PROVE  CanPlay(r, dir)
  <2> DEFINE from == AutoVector(r, dir)
  <2>1. from \in Directions /\ dialog.format[from] # "NoFormat"
    BY <1>2, <1>3, <1>4 DEF AutoVector, Directions, ThreeFormats
  <2>2. Plays(r.format[from], r.channels[from], r.sampleRate, r.bitRate[from])
    BY <1>6, <2>1
  <2> QED
    BY <2>2 DEF CanPlay
<1>8. r.username = dialog.username /\ r.password = dialog.password
  BY <1>1 DEF AcceptedAs
<1> QED
  BY <1>5, <1>7, <1>8

-----------------------------------------------------------------------------
\* The user's changes of the boxes
LEMMA DialogParts ==
    ASSUME NEW d, IsDialog(d)
    PROVE  d = DialogOf(d.format, d.channels, d.sampleRate, d.bitRate, d.username,
                        d.password, d.name, d.touched)
BY DEF IsDialog, DialogOf

LEMMA SameBoxes ==
    ASSUME NEW d, DialogFits(d), NEW u, NEW p, NEW n, NEW t,
           NEW r, r = DialogOf(d.format, d.channels, d.sampleRate, d.bitRate, u, p, n, t)
    PROVE  DialogFits(r) /\ r.username = u /\ r.password = p /\ r.name = n /\ r.touched = t
           /\ r.format = d.format
<1> DEFINE f == d.format
           c == d.channels
           rate == d.sampleRate
           b == d.bitRate
<1>1. /\ f \in [Directions -> ThreeFormats \union {"NoFormat", "Empty"}]
      /\ c = [dir \in Directions |-> c[dir]] /\ b = [dir \in Directions |-> b[dir]]
      /\ IsBox(rate) /\ \A dir \in Directions : IsBox(c[dir]) /\ IsBox(b[dir])
  BY DEF DialogFits, Ready, IsDialog
<1>2. /\ r.format = f /\ r.channels = c /\ r.sampleRate = rate /\ r.bitRate = b
      /\ r.username = u /\ r.password = p /\ r.name = n /\ r.touched = t
  BY EntriesOf
<1>3. r = DialogOf(f, c, rate, b, u, p, n, t)
  OBVIOUS
<1> HIDE DEF f, c, rate, b
<1>4. IsDialog(r)
  BY <1>1, <1>3, DialogIs
<1>5. /\ r.format = d.format /\ r.channels = d.channels
      /\ r.sampleRate = d.sampleRate /\ r.bitRate = d.bitRate
  BY <1>2 DEF f, c, rate, b
<1>6. SpeexRead(r) = SpeexRead(d)
  BY <1>5 DEF SpeexRead, ReadFormat
<1>7. \A dir \in Directions : Fits(d, dir) => Fits(r, dir)
  BY <1>5, Zenon DEF Fits
<1>8. Ready(r)
  BY <1>4, <1>5, SMT DEF DialogFits, Ready
<1>9. DialogFits(r)
  BY <1>5, <1>6, <1>7, <1>8, SMT DEF DialogFits
<1> QED
  BY <1>2, <1>5, <1>9

\* settingsChangedData ran: the dialog was touched
LEMMA TouchedFits ==
    ASSUME NEW d, DialogFits(d)
    PROVE  /\ DialogFits([d EXCEPT !.touched = TRUE])
           /\ [d EXCEPT !.touched = TRUE].username = d.username
           /\ [d EXCEPT !.touched = TRUE].password = d.password
           /\ [d EXCEPT !.touched = TRUE].format = d.format
           /\ [d EXCEPT !.touched = TRUE].touched = TRUE
<1> DEFINE r == [d EXCEPT !.touched = TRUE]
           f == d.format
           c == d.channels
           rate == d.sampleRate
           b == d.bitRate
           u == d.username
           p == d.password
           n == d.name
           t == d.touched
           y == TRUE
<1>1. d = DialogOf(f, c, rate, b, u, p, n, t)
  BY DialogParts DEF DialogFits, Ready
<1>2. r = [d EXCEPT !.touched = y]
  OBVIOUS
<1> HIDE DEF f, c, rate, b, u, p, n, t, y
<1>3. r = DialogOf(f, c, rate, b, u, p, n, y)
  BY <1>1, <1>2 DEF DialogOf
<1> HIDE DEF r
<1>4. /\ DialogFits(r) /\ r.username = u /\ r.password = p
      /\ r.format = d.format /\ r.touched = y
  BY <1>3, SameBoxes DEF f, c, rate, b
<1> QED
  BY <1>4 DEF r, u, p, y

\* A login or a name is typed
TypedLogin(d, l) == [d EXCEPT !.username = l[1], !.password = l[2], !.touched = TRUE]

LEMMA LoginTyped ==
    ASSUME NEW d, DialogFits(d), NEW l, NEW r, r = TypedLogin(d, l)
    PROVE  /\ DialogFits(r) /\ r.username = l[1] /\ r.password = l[2]
           /\ r.format = d.format /\ r.touched = TRUE
<1> DEFINE f == d.format
           c == d.channels
           rate == d.sampleRate
           b == d.bitRate
           u == d.username
           p == d.password
           n == d.name
           t == d.touched
           y == TRUE
           v == l[1]
           w == l[2]
           d1 == [d EXCEPT !.username = v]
           d2 == [d1 EXCEPT !.password = w]
<1>1. d = DialogOf(f, c, rate, b, u, p, n, t)
  BY DialogParts DEF DialogFits, Ready
<1>2. r = [d2 EXCEPT !.touched = y]
  BY DEF TypedLogin
<1> HIDE DEF f, c, rate, b, u, p, n, t, y, v, w
<1>3. d1 = DialogOf(f, c, rate, b, v, p, n, t)
  BY <1>1 DEF DialogOf
<1> HIDE DEF d1
<1>4. d2 = DialogOf(f, c, rate, b, v, w, n, t)
  BY <1>3 DEF DialogOf
<1> HIDE DEF d2
<1>5. r = DialogOf(f, c, rate, b, v, w, n, y)
  BY <1>2, <1>4 DEF DialogOf
<1>6. /\ DialogFits(r) /\ r.username = v /\ r.password = w
      /\ r.format = d.format /\ r.touched = y
  BY <1>5, SameBoxes DEF f, c, rate, b
<1> QED
  BY <1>6 DEF v, w, y

TypedName(d, m) == [d EXCEPT !.name = m, !.touched = TRUE]

LEMMA NameTyped ==
    ASSUME NEW d, DialogFits(d), NEW m, NEW r, r = TypedName(d, m)
    PROVE  /\ DialogFits(r) /\ r.username = d.username /\ r.password = d.password
           /\ r.format = d.format /\ r.touched = TRUE
<1> DEFINE f == d.format
           c == d.channels
           rate == d.sampleRate
           b == d.bitRate
           u == d.username
           p == d.password
           n == d.name
           t == d.touched
           y == TRUE
           d1 == [d EXCEPT !.name = m]
<1>1. d = DialogOf(f, c, rate, b, u, p, n, t)
  BY DialogParts DEF DialogFits, Ready
<1>2. r = [d1 EXCEPT !.touched = y]
  BY DEF TypedName
<1> HIDE DEF f, c, rate, b, u, p, n, t, y
<1>3. d1 = DialogOf(f, c, rate, b, u, p, m, t)
  BY <1>1 DEF DialogOf
<1> HIDE DEF d1
<1>4. r = DialogOf(f, c, rate, b, u, p, m, y)
  BY <1>2, <1>3 DEF DialogOf
<1>5. /\ DialogFits(r) /\ r.username = u /\ r.password = p
      /\ r.format = d.format /\ r.touched = y
  BY <1>4, SameBoxes DEF f, c, rate, b
<1> QED
  BY <1>5 DEF u, p, y

\* Another of the items is chosen
LEMMA ChosenAt ==
    ASSUME NEW box, IsBox(box), NEW i \in DOMAIN box.items
    PROVE  /\ Chosen([box EXCEPT !.at = i])
           /\ [box EXCEPT !.at = i].items = box.items /\ [box EXCEPT !.at = i].at = i
<1> DEFINE items == box.items
           at == box.at
           r == [box EXCEPT !.at = i]
<1>1. box = [items |-> items, at |-> at] /\ items \in Seq(Int) /\ i \in Int
  BY DEF IsBox
<1>2. i \in DOMAIN items
  OBVIOUS
<1> HIDE DEF items, at
<1>3. r = [items |-> items, at |-> i]
  BY <1>1
<1> HIDE DEF r
<1>4. r.items = items /\ r.at = i /\ r = [items |-> r.items, at |-> r.at]
  BY <1>3
<1>5. Chosen(r) /\ r.items = items /\ r.at = i
  BY <1>1, <1>2, <1>4 DEF Chosen, IsBox
<1> QED
  BY <1>5 DEF r, items

\* A box of the one direction is replaced
LEMMA BoxReplaced ==
    ASSUME NEW b, b = [dir \in Directions |-> b[dir]], NEW dir \in Directions, NEW box
    PROVE  /\ [b EXCEPT ![dir] = box] = [o \in Directions |-> IF o = dir THEN box ELSE b[o]]
           /\ [b EXCEPT ![dir] = box][dir] = box
           /\ \A o \in Directions \ {dir} : [b EXCEPT ![dir] = box][o] = b[o]
OBVIOUS

\* The first or the last bit rate, or any other, is chosen
RateChosen(d, dir, i) == [d EXCEPT !.bitRate[dir].at = i, !.touched = TRUE]

LEMMA RateChosenFits ==
    ASSUME NEW d, DialogFits(d), NEW dir \in Directions, NEW i \in DOMAIN d.bitRate[dir].items,
           NEW r, r = RateChosen(d, dir, i)
    PROVE  /\ DialogFits(r) /\ r.username = d.username /\ r.password = d.password
           /\ r.format = d.format /\ r.touched = TRUE
<1> DEFINE f == d.format
           c == d.channels
           rate == d.sampleRate
           b == d.bitRate
           u == d.username
           p == d.password
           n == d.name
           t == d.touched
           y == TRUE
           box == [b[dir] EXCEPT !.at = i]
           b1 == [b EXCEPT ![dir] = box]
           d1 == [d EXCEPT !.bitRate[dir].at = i]
<1>1. d = DialogOf(f, c, rate, b, u, p, n, t)
  BY DialogParts DEF DialogFits, Ready
<1>2. r = [d1 EXCEPT !.touched = y]
  BY DEF RateChosen
<1>3. /\ f \in [Directions -> ThreeFormats \union {"NoFormat", "Empty"}]
      /\ c = [o \in Directions |-> c[o]] /\ b = [o \in Directions |-> b[o]]
      /\ IsBox(rate) /\ \A o \in Directions : IsBox(c[o]) /\ IsBox(b[o])
  BY DEF DialogFits, Ready, IsDialog
<1>4. Chosen(box) /\ box.items = b[dir].items
  BY <1>3, ChosenAt
<1>5. b1[dir] = box /\ b1 = [o \in Directions |-> b1[o]]
      /\ \A o \in Directions \ {dir} : b1[o] = b[o]
  BY <1>3, BoxReplaced
<1>6. [b EXCEPT ![dir].at = i] = b1
  BY <1>3
<1> HIDE DEF f, c, rate, b, u, p, n, t, y
<1>7. d1 = DialogOf(f, c, rate, [b EXCEPT ![dir].at = i], u, p, n, t)
  BY <1>1 DEF DialogOf
<1>8. d1 = DialogOf(f, c, rate, b1, u, p, n, t)
  BY <1>6, <1>7
<1> HIDE DEF d1, b1, box
<1>9. r = DialogOf(f, c, rate, b1, u, p, n, y)
  BY <1>2, <1>8 DEF DialogOf
<1>10. /\ r.format = d.format /\ r.channels = d.channels /\ r.sampleRate = d.sampleRate
       /\ r.bitRate = b1 /\ r.username = d.username /\ r.password = d.password
       /\ r.touched = y
  BY <1>9, EntriesOf DEF f, c, rate, u, p
<1>11. IsDialog(r)
  <2>1. \A o \in Directions : IsBox(c[o]) /\ IsBox(b1[o])
    BY <1>3, <1>4, <1>5 DEF Chosen
  <2> QED
    BY <1>3, <1>5, <1>9, <2>1, DialogIs
<1>12. Ready(r)
  BY <1>10, <1>11, SMT DEF DialogFits, Ready
<1>13. ASSUME NEW o \in Directions, Fits(d, o)
       PROVE  Fits(r, o)
  <2>1. b1[o].items = d.bitRate[o].items /\ Chosen(b1[o])
    BY <1>4, <1>5, <1>13 DEF b, Fits
  <2> QED
    BY <1>10, <1>13, <2>1, Zenon DEF Fits
<1>14. SpeexRead(r) = SpeexRead(d)
  BY <1>10 DEF SpeexRead, ReadFormat
<1>15. DialogFits(r)
  BY <1>10, <1>12, <1>13, <1>14, SMT DEF DialogFits
<1> QED
  BY <1>10, <1>15 DEF y

-----------------------------------------------------------------------------
\* A choice that settingsChangedData follows
LEMMA ChoiceReady ==
    ASSUME NEW d, DialogFits(d), NEW f, NEW c, NEW rate,
           f \in [Directions -> ThreeFormats \union {"NoFormat", "Empty"}],
           f["Transmit"] \in ThreeFormats, f["Receive"] \in ThreeFormats \union {"NoFormat"},
           c = [dir \in Directions |-> c[dir]],
           \A dir \in Directions : Chosen(c[dir]) /\ c[dir].items \in {<< 1 >>, <<1, 2>>},
           IsRates(rate),
           NEW r, r = DialogOf(f, c, rate, d.bitRate, d.username, d.password, d.name, d.touched)
    PROVE  Ready(r) /\ r.username = d.username /\ r.password = d.password
<1> DEFINE b == d.bitRate
           u == d.username
           p == d.password
           n == d.name
           t == d.touched
<1>1. /\ b = [dir \in Directions |-> b[dir]]
      /\ \A dir \in Directions : IsBox(c[dir]) /\ IsBox(b[dir])
      /\ IsBox(rate)
  BY DEF DialogFits, Ready, IsDialog, Chosen, IsRates
<1>2. r = DialogOf(f, c, rate, b, u, p, n, t)
  OBVIOUS
<1> HIDE DEF b, u, p, n, t
<1>3. IsDialog(r)
  BY <1>1, <1>2, DialogIs
<1>4. r.format = f /\ r.channels = c /\ r.sampleRate = rate /\ r.username = u /\ r.password = p
  BY <1>2, EntriesOf
<1>5. Text(rate) \in {32000, 48000}
  <2>1. rate.at \in DOMAIN rate.items /\ rate.items \in {<< 32000 >>, <<32000, 48000>>}
    BY DEF IsRates, Chosen
  <2> QED
    BY <2>1, SMT DEF Text
<1>6. Ready(r)
  BY <1>3, <1>4, <1>5, SMT DEF Ready
<1> QED
  BY <1>4, <1>6 DEF u, p

FormatChosen(d, dir, x) == [d EXCEPT !.format[dir] = x]
LEMMA FormatChosenReady ==
    ASSUME NEW d, DialogFits(d), NEW dir \in Directions,
           NEW x \in ThreeFormats \union {"NoFormat"}, dir = "Transmit" => x \in ThreeFormats,
           NEW r, r = FormatChosen(d, dir, x)
    PROVE  Ready(r) /\ r.username = d.username /\ r.password = d.password
<1> DEFINE f == d.format
           c == d.channels
           rate == d.sampleRate
           b == d.bitRate
           u == d.username
           p == d.password
           n == d.name
           t == d.touched
           f1 == [f EXCEPT ![dir] = x]
<1>1. d = DialogOf(f, c, rate, b, u, p, n, t)
  BY DialogParts DEF DialogFits, Ready
<1>2. /\ f1 \in [Directions -> ThreeFormats \union {"NoFormat", "Empty"}]
      /\ f1["Transmit"] \in ThreeFormats /\ f1["Receive"] \in ThreeFormats \union {"NoFormat"}
  <2>1. /\ f \in [Directions -> ThreeFormats \union {"NoFormat", "Empty"}]
        /\ f["Transmit"] \in ThreeFormats /\ f["Receive"] \in ThreeFormats \union {"NoFormat"}
    BY DEF DialogFits, Ready, IsDialog
  <2> HIDE DEF f
  <2> QED
    BY <2>1 DEF Directions
<1>3. /\ c = [o \in Directions |-> c[o]]
      /\ \A o \in Directions : Chosen(c[o]) /\ c[o].items \in {<< 1 >>, <<1, 2>>}
      /\ IsRates(rate)
  BY DEF DialogFits, Ready, IsDialog
<1>4. r = [d EXCEPT !.format[dir] = x]
  BY DEF FormatChosen
<1> HIDE DEF f, c, rate, b, u, p, n, t
<1>5. r = DialogOf(f1, c, rate, b, u, p, n, t)
  BY <1>1, <1>4 DEF DialogOf
<1> HIDE DEF f1
<1> QED
  BY <1>2, <1>3, <1>5, ChoiceReady DEF b, u, p, n, t

LEMMA FormatChosenIs ==
    ASSUME NEW d, DialogFits(d), NEW dir \in Directions, NEW x,
           NEW r, r = FormatChosen(d, dir, x)
    PROVE  r.format[dir] = x /\ \A o \in Directions \ {dir} : r.format[o] = d.format[o]
<1> DEFINE f == d.format
           f1 == [f EXCEPT ![dir] = x]
<1>1. d = DialogOf(f, d.channels, d.sampleRate, d.bitRate, d.username, d.password, d.name,
                   d.touched)
      /\ f = [o \in Directions |-> f[o]]
  BY DialogParts DEF DialogFits, Ready, IsDialog
<1>2. r = [d EXCEPT !.format[dir] = x]
  BY DEF FormatChosen
<1>3. r.format = f1
  BY <1>1, <1>2 DEF DialogOf
<1>4. f1[dir] = x /\ \A o \in Directions \ {dir} : f1[o] = f[o]
  BY <1>1
<1> HIDE DEF f1
<1> QED
  BY <1>3, <1>4

ChannelsChosen(d, dir, i) == [d EXCEPT !.channels[dir].at = i]
LEMMA ChannelsChosenReady ==
    ASSUME NEW d, DialogFits(d), NEW dir \in Directions, NEW i \in DOMAIN d.channels[dir].items,
           NEW r, r = ChannelsChosen(d, dir, i)
    PROVE  Ready(r) /\ r.username = d.username /\ r.password = d.password /\ r.format = d.format
<1> DEFINE f == d.format
           c == d.channels
           rate == d.sampleRate
           b == d.bitRate
           u == d.username
           p == d.password
           n == d.name
           t == d.touched
           box == [c[dir] EXCEPT !.at = i]
           c1 == [c EXCEPT ![dir] = box]
<1>1. d = DialogOf(f, c, rate, b, u, p, n, t)
  BY DialogParts DEF DialogFits, Ready
<1>2. /\ f \in [Directions -> ThreeFormats \union {"NoFormat", "Empty"}]
      /\ f["Transmit"] \in ThreeFormats /\ f["Receive"] \in ThreeFormats \union {"NoFormat"}
      /\ c = [o \in Directions |-> c[o]]
      /\ \A o \in Directions : Chosen(c[o]) /\ c[o].items \in {<< 1 >>, <<1, 2>>}
      /\ IsRates(rate)
  BY DEF DialogFits, Ready, IsDialog
<1>3. Chosen(box) /\ box.items = c[dir].items
  BY <1>2, ChosenAt DEF Chosen
<1>4. c1[dir] = box /\ c1 = [o \in Directions |-> c1[o]]
      /\ \A o \in Directions \ {dir} : c1[o] = c[o]
  BY <1>2, BoxReplaced
<1>5. [c EXCEPT ![dir].at = i] = c1
  BY <1>2
<1>6. r = [d EXCEPT !.channels[dir].at = i]
  BY DEF ChannelsChosen
<1> HIDE DEF f, c, rate, b, u, p, n, t
<1>7. r = DialogOf(f, [c EXCEPT ![dir].at = i], rate, b, u, p, n, t)
  BY <1>1, <1>6 DEF DialogOf
<1>8. r = DialogOf(f, c1, rate, b, u, p, n, t)
  BY <1>5, <1>7
<1> HIDE DEF c1, box
<1>9. \A o \in Directions : Chosen(c1[o]) /\ c1[o].items \in {<< 1 >>, <<1, 2>>}
  BY <1>2, <1>3, <1>4
<1>10. r.format = f
  BY <1>8, EntriesOf
<1> QED
  BY <1>2, <1>4, <1>8, <1>9, <1>10, ChoiceReady DEF f, b, u, p, n, t

SampleRateChosen(d, i) == [d EXCEPT !.sampleRate.at = i]
LEMMA SampleRateChosenReady ==
    ASSUME NEW d, DialogFits(d), NEW i \in DOMAIN d.sampleRate.items,
           NEW r, r = SampleRateChosen(d, i)
    PROVE  Ready(r) /\ r.username = d.username /\ r.password = d.password /\ r.format = d.format
<1> DEFINE f == d.format
           c == d.channels
           rate == d.sampleRate
           b == d.bitRate
           u == d.username
           p == d.password
           n == d.name
           t == d.touched
           box == [rate EXCEPT !.at = i]
<1>1. d = DialogOf(f, c, rate, b, u, p, n, t)
  BY DialogParts DEF DialogFits, Ready
<1>2. /\ f \in [Directions -> ThreeFormats \union {"NoFormat", "Empty"}]
      /\ f["Transmit"] \in ThreeFormats /\ f["Receive"] \in ThreeFormats \union {"NoFormat"}
      /\ c = [o \in Directions |-> c[o]]
      /\ \A o \in Directions : Chosen(c[o]) /\ c[o].items \in {<< 1 >>, <<1, 2>>}
      /\ IsRates(rate)
  BY DEF DialogFits, Ready, IsDialog
<1>3. Chosen(box) /\ box.items = rate.items
  <2>1. IsBox(rate)
    BY <1>2 DEF Chosen, IsRates
  <2>2. i \in DOMAIN rate.items
    OBVIOUS
  <2> HIDE DEF rate
  <2> QED
    BY <2>1, <2>2, ChosenAt
<1>4. IsRates(box)
  BY <1>2, <1>3, SMT DEF IsRates
<1>5. r = [d EXCEPT !.sampleRate.at = i]
  BY DEF SampleRateChosen
<1> HIDE DEF f, c, rate, b, u, p, n, t
<1>6. r = DialogOf(f, c, box, b, u, p, n, t)
  BY <1>1, <1>5 DEF DialogOf
<1> HIDE DEF box
<1>7. r.format = f
  BY <1>6, EntriesOf
<1> QED
  BY <1>2, <1>4, <1>6, <1>7, ChoiceReady DEF f, b, u, p, n, t

-----------------------------------------------------------------------------
\* What is kept of the settings
LEMMA KeptInFile ==
    ASSUME NEW s, IsSettings(s), system = "unix", NEW r, r = Kept(s)
    PROVE  /\ Whole(r) /\ r.name = Strip(s.name)
           /\ r.format = s.format /\ r.channels = s.channels /\ r.bitRate = s.bitRate
           /\ r.sampleRate = s.sampleRate /\ r.username = s.username
           /\ r.password = s.password /\ r.advanced = s.advanced
           /\ r.command = s.command /\ r.address = s.address
<1> DEFINE f == s.format
           c == s.channels
           b == s.bitRate
           rate == s.sampleRate
           u == s.username
           p == s.password
           n == s.name
           a == s.advanced
           m == s.command
           h == s.address
           n1 == Strip(n)
<1>1. s = SettingsOf(f, c, b, rate, u, p, n, a, m, h)
  BY DEF IsSettings, Whole
<1>2. r = [s EXCEPT !.name = n1]
  BY DEF Kept
<1> HIDE DEF f, c, b, rate, u, p, n, a, m, h, n1
<1>3. r = SettingsOf(f, c, b, rate, u, p, n1, a, m, h)
  BY <1>1, <1>2 DEF SettingsOf
<1>4. /\ Whole(r)
      /\ r.format = f /\ r.channels = c /\ r.bitRate = b /\ r.sampleRate = rate
      /\ r.username = u /\ r.password = p /\ r.name = n1 /\ r.advanced = a
      /\ r.command = m /\ r.address = h
  BY <1>3, FieldsOf
<1> QED
  BY <1>4, Zenon DEF f, c, b, rate, u, p, n, a, m, h, n1

LEMMA KeptInRegistry ==
    ASSUME NEW s, IsSettings(s), system # "unix", NEW r, r = Kept(s)
    PROVE  /\ Whole(r) /\ r.name = s.name
           /\ r.format = s.format /\ r.channels = s.channels
           /\ r.bitRate = Both(s.bitRate["Receive"], 48)
           /\ r.sampleRate = s.sampleRate /\ r.username = s.username
           /\ r.password = s.password /\ r.advanced = s.advanced
           /\ r.command = s.command /\ r.address = <<s.address[Off], s.address[Off]>>
<1> DEFINE f == s.format
           c == s.channels
           b == s.bitRate
           rate == s.sampleRate
           u == s.username
           p == s.password
           n == s.name
           a == s.advanced
           m == s.command
           h == s.address
           b1 == [Transmit |-> b["Receive"], Receive |-> 48]
           h1 == [h EXCEPT ![On] = h[Off]]
           s2 == [s EXCEPT !.bitRate = b1]
<1>1. s = SettingsOf(f, c, b, rate, u, p, n, a, m, h)
  BY DEF IsSettings, Whole
<1>2. r = [s2 EXCEPT !.address[On] = h[Off]]
  BY DEF Kept
<1>3. h = <<h[Off], h[On]>>
  BY DEF IsSettings
<1>4. b1 = Both(b["Receive"], 48)
  BY BothAre
<1> HIDE DEF f, c, b, rate, u, p, n, a, m, h, b1
<1>6. s2 = SettingsOf(f, c, b1, rate, u, p, n, a, m, h)
  BY <1>1 DEF SettingsOf
<1> HIDE DEF s2
<1>7. r = SettingsOf(f, c, b1, rate, u, p, n, a, m, h1)
  BY <1>2, <1>6 DEF SettingsOf
<1>8. h1 = <<h[Off], h[Off]>>
  BY <1>3 DEF Off, On
<1> HIDE DEF h1
<1>9. /\ Whole(r)
      /\ r.format = f /\ r.channels = c /\ r.bitRate = b1 /\ r.sampleRate = rate
      /\ r.username = u /\ r.password = p /\ r.name = n /\ r.advanced = a
      /\ r.command = m /\ r.address = h1
  BY <1>7, FieldsOf
<1> QED
  BY <1>4, <1>8, <1>9, Zenon DEF f, c, b, rate, u, p, n, a, m, h

-----------------------------------------------------------------------------
\* What is read after a save that reached its end is what was kept
RegistryThere(there) == system = "windows" => "ReceiveBitRate" \notin DOMAIN there
StoredWhole(there, s, now) == now = Stored(there, Lines(s), Len(Lines(s)), FALSE)

LEMMA SaveReads ==
    ASSUME NEW s, IsSettings(s), NEW l \in SomeLogin, LoginIs(s, l),
           NEW there, system \in {"unix", "windows"}, RegistryThere(there),
           NEW now, StoredWhole(there, s, now)
    PROVE  ReadConfig(now) = Kept(s)
<1> DEFINE lines == Lines(s)
           n == 14
           cut == FALSE
           r == ReadConfig(now)
           k == Kept(s)
<1>1. /\ SavedLines(s, lines) /\ Len(lines) = n
      /\ system = "unix" => lines = UnixLines(s) /\ lines[14][2] = s.address[On]
      /\ system # "unix" => lines = WindowsLines(s) /\ lines[14][2] \in {"", "x"}
  <2> HIDE DEF lines
  <2>1. lines = Lines(s)
    BY DEF lines
  <2> QED
    BY <2>1, LinesSaved
<1>2. SaveEnds(n, cut) /\ Begins(n, cut) /\ Sounds(n, cut) /\ Ends(n, cut)
  BY DEF SaveEnds, Begins, Sounds, Ends
<1>3. now = Stored(there, lines, n, cut)
  <2>1. now = Stored(there, lines, Len(lines), cut)
    BY DEF StoredWhole
  <2> HIDE DEF lines, n, cut
  <2> QED
    BY <1>1, <2>1
<1> HIDE DEF lines, n, cut, r, k
<1>14. SavedLines(s, lines)
  BY <1>1
<1>15. Sounds(n, cut)
  BY <1>2
<1>16. Ends(n, cut)
  BY <1>2
<1>17. Begins(n, cut)
  BY <1>2
<1>18. SaveEnds(n, cut)
  BY <1>2
<1>19. SoundLines(s, now) /\ SampleLine(s, now)
  BY <1>14, <1>15, <1>3, SoundSaved
<1>20. RestLines(s, now) /\ LastLine(lines, now)
  BY <1>14, <1>16, <1>3, RestSaved
<1>4. SoundLines(s, now) /\ SampleLine(s, now) /\ RestLines(s, now)
      /\ Value(now, "OnAddress", Missing) = lines[14][2]
  BY <1>19, <1>20 DEF LastLine
<1>5. "Login" \in DOMAIN now /\ now["Login"] = Enciphered(l)
  <2>2. LoginThere(now, l)
    BY <1>14, <1>17, <1>3, LoginSaved
  <2> QED
    BY <2>2 DEF LoginThere
<1>6. r.username = s.username /\ r.password = s.password
  BY <1>5, LoginReads DEF r, LoginIs
<1>7. Whole(r) /\ ReadBoxes(now, r) /\ ReadRate(now, r) /\ ReadRest(now, r)
  BY ReadIs DEF r
<1>8. /\ s.format = Both(s.format["Transmit"], s.format["Receive"])
      /\ s.channels = Both(s.channels["Transmit"], s.channels["Receive"])
      /\ s.bitRate = Both(s.bitRate["Transmit"], s.bitRate["Receive"])
  BY BothIs DEF IsSettings
<1>9. r.format = s.format /\ r.channels = s.channels /\ r.sampleRate = s.sampleRate
  <2>1. r.format = s.format /\ r.channels = s.channels
    BY <1>4, <1>7, <1>8, Zenon DEF SoundLines, ReadBoxes
  <2>2. r.sampleRate = s.sampleRate
    BY <1>4, <1>7, Zenon DEF SampleLine, ReadRate
  <2> QED
    BY <2>1, <2>2
<1>10. /\ r.name = NameRead(now) /\ r.advanced = s.advanced /\ r.command = s.command
       /\ r.address = Parsed(<<s.address[Off], lines[14][2]>>)
  <2>1. s.command = <<s.command[Off], s.command[On]>>
    BY DEF IsSettings
  <2> QED
    BY <1>4, <1>7, <2>1, Zenon DEF RestLines, ReadRest
<1>21. /\ system = "unix" => r.name = Strip(s.name)
       /\ system # "unix" => r.name = s.name
  BY <1>4, <1>10 DEF RestLines, NameRead
<1>11. Real(s.address[Off]) /\ Real(s.address[On])
       /\ s.address = <<s.address[Off], s.address[On]>>
  BY DEF IsSettings
<1>12. CASE system = "unix"
  <2>1. /\ Value(now, "BitRate", 48) = s.bitRate["Transmit"]
        /\ Value(now, "ReceiveBitRate", 48) = s.bitRate["Receive"]
    <3>1. now = Stored(there, UnixLines(s), n, cut)
      BY <1>1, <1>3, <1>12
    <3>2. /\ "BitRate" \in DOMAIN now /\ now["BitRate"] = s.bitRate["Transmit"]
          /\ "ReceiveBitRate" \in DOMAIN now /\ now["ReceiveBitRate"] = s.bitRate["Receive"]
      BY <1>2, <3>1, FileRates
    <3> QED
      BY <3>2, StoredValue
  <2>2. r.bitRate = s.bitRate
    BY <1>7, <1>8, <2>1, Zenon DEF ReadBoxes
  <2>3. r.address = s.address
    <3> DEFINE h == Parsed(<<s.address[Off], s.address[On]>>)
    <3>1. r.address = h
      BY <1>1, <1>10, <1>12
    <3>2. h = <<h[Off], h[On]>> /\ h[Off] = s.address[Off] /\ h[On] = s.address[On]
      BY <1>11, ParsedIs DEF Off, On
    <3> HIDE DEF h
    <3> QED
      BY <1>11, <3>1, <3>2
  <2>4. r = k
    BY <1>6, <1>7, <1>9, <1>10, <1>12, <1>21, <2>2, <2>3, KeptInFile, SameSettings DEF k
  <2> QED
    BY <2>4 DEF r, k
<1>13. CASE system # "unix"
  <2>1. /\ Value(now, "BitRate", 48) = s.bitRate["Receive"]
        /\ Value(now, "ReceiveBitRate", 48) = 48
    <3>1. /\ "BitRate" \in DOMAIN now /\ now["BitRate"] = s.bitRate["Receive"]
          /\ "ReceiveBitRate" \notin DOMAIN now
      <4>1. now = Stored(there, WindowsLines(s), n, cut)
        BY <1>1, <1>3, <1>13
      <4>2. /\ "BitRate" \in DOMAIN now /\ now["BitRate"] = s.bitRate["Receive"]
        BY <1>2, <4>1, RegistryRates
      <4>5. ~cut
        BY <1>16 DEF Ends
      <4>3. "ReceiveBitRate" \in DOMAIN now <=> "ReceiveBitRate" \in DOMAIN there
        BY <1>18, <4>1, <4>5, RegistryLacks
      <4> QED
        BY <1>13, <4>2, <4>3 DEF RegistryThere
    <3> QED
      BY <3>1, StoredValue DEF Value
  <2>2. r.bitRate = Both(s.bitRate["Receive"], 48)
    BY <1>7, <2>1, Zenon DEF ReadBoxes
  <2>3. r.address = <<s.address[Off], s.address[Off]>>
    <3> DEFINE h == Parsed(<<s.address[Off], lines[14][2]>>)
    <3>1. ~Real(lines[14][2])
      BY <1>1, <1>13 DEF Real
    <3>2. h = <<h[Off], h[On]>> /\ h[Off] = s.address[Off] /\ h[On] = h[Off]
      BY <1>11, <3>1, ParsedIs DEF Off, On
    <3> HIDE DEF h
    <3> QED
      BY <1>10, <3>2 DEF h
  <2>4. r = k
    BY <1>6, <1>7, <1>9, <1>10, <1>13, <1>21, <2>2, <2>3, KeptInRegistry, SameSettings DEF k
  <2> QED
    BY <2>4 DEF r, k
<1> QED
  BY <1>12, <1>13

-----------------------------------------------------------------------------
\* What the program finds on the disk whenever it starts: the login of some save, formats
\* that can be opened and, in the file, a sound that can be played
FormatsThere(there) ==
    /\ Value(there, "Format", "Speex") \in ThreeFormats
    /\ Value(there, "ReceiveFormat", "Speex") \in ThreeFormats \union {"NoFormat"}
LoginsThere(there) ==
    "Login" \in DOMAIN there => \E l \in SomeLogin : LoginThere(there, l)
SoundThere(there) ==
    (system = "unix" /\ ReadConfig(there).username # <<>>) =>
        \A dir \in Directions : CanPlay(ReadConfig(there), dir)
DiskFits(there) ==
    FormatsThere(there) /\ LoginsThere(there) /\ RegistryThere(there) /\ SoundThere(there)

LEMMA NothingThere == DiskFits(<<>>)
<1> DEFINE there == <<>>
<1>1. \A tag : tag \notin DOMAIN there
  OBVIOUS
<1> HIDE DEF there
<1>2. Value(there, "Format", "Speex") = "Speex" /\ Value(there, "ReceiveFormat", "Speex") = "Speex"
  BY <1>1 DEF Value
<1>3. FormatsThere(there)
  BY <1>2 DEF FormatsThere, ThreeFormats
<1>4. LoginsThere(there) /\ RegistryThere(there) /\ SoundThere(there)
  BY <1>1, NoLoginReads, Zenon DEF LoginsThere, RegistryThere, SoundThere
<1>5. DiskFits(there)
  BY <1>3, <1>4 DEF DiskFits
<1> QED
  BY <1>5 DEF there

\* What is read of it
LEMMA DiskReads ==
    ASSUME NEW there, DiskFits(there), NEW r, r = ReadConfig(there)
    PROVE  /\ IsSettings(r)
           /\ \E l \in SomeLogin : LoginIs(r, l)
<1>1. Whole(r) /\ ReadBoxes(there, r) /\ ReadRest(there, r)
  BY ReadIs
<1>2. /\ r.format = [dir \in Directions |-> r.format[dir]]
      /\ r.channels = [dir \in Directions |-> r.channels[dir]]
      /\ r.bitRate = [dir \in Directions |-> r.bitRate[dir]]
      /\ r.format["Transmit"] = Value(there, "Format", "Speex")
      /\ r.format["Receive"] = Value(there, "ReceiveFormat", "Speex")
  <2> DEFINE f1 == Value(there, "Format", "Speex")
             f2 == Value(there, "ReceiveFormat", "Speex")
             c1 == Value(there, "Channels", 1)
             c2 == Value(there, "ReceiveChannels", 1)
             b1 == Value(there, "BitRate", 48)
             b2 == Value(there, "ReceiveBitRate", 48)
  <2>1. r.format = Both(f1, f2) /\ r.channels = Both(c1, c2) /\ r.bitRate = Both(b1, b2)
    BY <1>1, Zenon DEF ReadBoxes
  <2> HIDE DEF f1, f2, c1, c2, b1, b2
  <2>2. r.channels = [dir \in Directions |-> r.channels[dir]]
        /\ r.bitRate = [dir \in Directions |-> r.bitRate[dir]]
    BY <2>1 DEF Both
  <2>3. /\ r.format = [dir \in Directions |-> r.format[dir]]
        /\ r.format["Transmit"] = f1 /\ r.format["Receive"] = f2
    BY <2>1 DEF Both, Directions
  <2> QED
    BY <2>2, <2>3, Zenon DEF f1, f2
<1>3. SettingsFit(r)
  BY <1>2, Zenon DEF DiskFits, FormatsThere, SettingsFit
<1>4. r.command = <<r.command[Off], r.command[On]>>
  <2> DEFINE x == Value(there, "OffCommand", "")
             y == Value(there, "OnCommand", "")
  <2>1. r.command = <<x, y>>
    BY <1>1, Zenon DEF ReadRest
  <2> HIDE DEF x, y
  <2> QED
    BY <2>1 DEF Off, On
<1>5. r.address = <<r.address[Off], r.address[On]>>
      /\ Real(r.address[Off]) /\ Real(r.address[On])
  BY <1>1, ParsedIs, Zenon DEF ReadRest
<1>6. IsSettings(r)
  BY <1>1, <1>2, <1>3, <1>4, <1>5, Zenon DEF IsSettings
<1>7. CASE "Login" \in DOMAIN there
  <2>1. PICK l \in SomeLogin : LoginThere(there, l)
    BY <1>7, Zenon DEF DiskFits, LoginsThere
  <2>2. there["Login"] = Enciphered(l)
    BY <2>1 DEF LoginThere
  <2>3. LoginIs(r, l)
    BY <1>7, <2>2, LoginReads DEF LoginIs
  <2> QED
    BY <1>6, <2>3
<1>8. CASE "Login" \notin DOMAIN there
  <2>1. r.username = <<>> /\ r.password = <<>>
    BY <1>8, NoLoginReads
  <2>2. LoginIs(r, Nobody) /\ Nobody \in SomeLogin
    BY <2>1 DEF LoginIs, Nobody, SomeLogin
  <2> QED
    BY <1>6, <2>2
<1> QED
  BY <1>7, <1>8

-----------------------------------------------------------------------------
\* What a save leaves, whether it reaches its end or not
LEMMA FormatsSaved ==
    ASSUME NEW s, SettingsFit(s), NEW lines, SavedLines(s, lines),
           NEW n, NEW cut, SaveEnds(n, cut),
           NEW there, FormatsThere(there), NEW now, now = Stored(there, lines, n, cut)
    PROVE  FormatsThere(now)
<1>1. n \in 0..14 /\ cut \in BOOLEAN /\ (cut => n \in {12, 13})
  BY DEF SaveEnds
<1>2. /\ UnixTags[2] = "Format" /\ UnixTags[6] = "ReceiveFormat"
      /\ lines[2][2] = s.format["Transmit"] /\ lines[6][2] = s.format["Receive"]
  BY DEF UnixTags, SavedLines, LinesAre
<1>3. \A k \in {2, 6} :
        \/ UnixTags[k] \in DOMAIN now /\ now[UnixTags[k]] = lines[k][2]
        \/ /\ UnixTags[k] \in DOMAIN now <=> UnixTags[k] \in DOMAIN there
           /\ UnixTags[k] \in DOMAIN there => now[UnixTags[k]] = there[UnixTags[k]]
  <2>1. ASSUME NEW k \in {2, 6}, k <= n
        PROVE  UnixTags[k] \in DOMAIN now /\ now[UnixTags[k]] = lines[k][2]
    <3>1. k \in (1..n) \ {5, 8}
      BY <1>1, <2>1
    <3> QED
      BY <3>1, TagStored
  <2>2. ASSUME NEW k \in {2, 6}, ~(k <= n)
        PROVE  /\ UnixTags[k] \in DOMAIN now <=> UnixTags[k] \in DOMAIN there
               /\ UnixTags[k] \in DOMAIN there => now[UnixTags[k]] = there[UnixTags[k]]
    <3>1. k \in (n+1..14) \ {5, 8} /\ ~cut
      BY <1>1, <2>2
    <3> QED
      BY <3>1, TagKept
  <2> QED
    BY <2>1, <2>2
<1>4. \/ Value(now, "Format", "Speex") = s.format["Transmit"]
      \/ Value(now, "Format", "Speex") = Value(there, "Format", "Speex")
  BY <1>2, <1>3 DEF Value
<1>5. \/ Value(now, "ReceiveFormat", "Speex") = s.format["Receive"]
      \/ Value(now, "ReceiveFormat", "Speex") = Value(there, "ReceiveFormat", "Speex")
  BY <1>2, <1>3 DEF Value
<1> QED
  BY <1>4, <1>5, Zenon DEF FormatsThere, SettingsFit

\* A save in the file starts it anew, and is lost whole or reaches the GPIO lines; one in
\* the registry reaches some entry
InFile(n, cut, there) == SaveEnds(n, cut) /\ there = <<>> /\ ((n = 0 /\ ~cut) \/ Sounds(n, cut))
InRegistry(n, cut) == Begins(n, cut) /\ ~cut

LEMMA FileFits ==
    ASSUME NEW s, IsSettings(s), NEW l \in SomeLogin, LoginIs(s, l),
           s.username # <<>> => \A dir \in Directions : CanPlay(s, dir), system = "unix",
           NEW n, NEW cut, NEW there, InFile(n, cut, there),
           NEW now, now = Stored(there, Lines(s), n, cut)
    PROVE  DiskFits(now) /\ (s.username = <<>> => ReadConfig(now).username = <<>>)
<1> DEFINE lines == Lines(s)
<1>1. SavedLines(s, lines) /\ lines = UnixLines(s)
  <2> HIDE DEF lines
  <2>1. lines = Lines(s)
    BY DEF lines
  <2> QED
    BY <2>1, LinesSaved
<1>2. now = Stored(there, lines, n, cut)
  OBVIOUS
<1> HIDE DEF lines
<1>3. FormatsThere(now)
  <2>1. SettingsFit(s) /\ SaveEnds(n, cut) /\ FormatsThere(there)
    BY NothingThere DEF IsSettings, InFile, DiskFits
  <2> QED
    BY <1>1, <1>2, <2>1, FormatsSaved
<1>4. RegistryThere(now)
  BY DEF RegistryThere
<1>5. CASE n = 0 /\ ~cut
  <2>1. "Login" \notin DOMAIN now
    <3>1. DOMAIN there = {} /\ UnixTags[1] = "Login"
      BY DEF InFile, UnixTags
    <3>2. SaveEnds(n, cut) /\ 1 \in (n+1..14) \ {5, 8} /\ ~cut
      BY <1>5 DEF InFile
    <3>3. UnixTags[1] \in DOMAIN now <=> UnixTags[1] \in DOMAIN there
      BY <1>1, <1>2, <3>2, TagKept
    <3> QED
      BY <3>1, <3>3
  <2> QED
    BY <1>3, <1>4, <2>1, NoLoginReads, Zenon DEF DiskFits, LoginsThere, SoundThere
<1>6. CASE Sounds(n, cut)
  <2>1. Begins(n, cut)
    BY <1>6 DEF Sounds, Begins, SaveEnds
  <2>2. LoginThere(now, l)
    BY <1>1, <1>2, <2>1, LoginSaved
  <2>3. LoginsThere(now)
    BY <2>2, Zenon DEF LoginsThere
  <2>4. SoundLines(s, now) /\ SampleLine(s, now)
    BY <1>1, <1>2, <1>6, SoundSaved
  <2>5. /\ Value(now, "BitRate", 48) = s.bitRate["Transmit"]
        /\ Value(now, "ReceiveBitRate", 48) = s.bitRate["Receive"]
    <3>1. now = Stored(there, UnixLines(s), n, cut)
      BY <1>1, <1>2
    <3>2. /\ "BitRate" \in DOMAIN now /\ now["BitRate"] = s.bitRate["Transmit"]
          /\ "ReceiveBitRate" \in DOMAIN now /\ now["ReceiveBitRate"] = s.bitRate["Receive"]
      BY <1>6, <3>1, FileRates
    <3> QED
      BY <3>2, StoredValue
  <2> DEFINE r == ReadConfig(now)
  <2>6. ReadBoxes(now, r) /\ ReadRate(now, r)
    BY ReadIs
  <2> HIDE DEF r
  <2>7. /\ s.format = Both(s.format["Transmit"], s.format["Receive"])
        /\ s.channels = Both(s.channels["Transmit"], s.channels["Receive"])
        /\ s.bitRate = Both(s.bitRate["Transmit"], s.bitRate["Receive"])
    BY BothIs DEF IsSettings
  <2>8. r.format = s.format /\ r.channels = s.channels
    BY <2>4, <2>6, <2>7, Zenon DEF SoundLines, ReadBoxes
  <2>9. r.sampleRate = s.sampleRate
    BY <2>4, <2>6, Zenon DEF SampleLine, ReadRate
  <2>10. r.bitRate = s.bitRate
    BY <2>5, <2>6, <2>7, Zenon DEF ReadBoxes
  <2>13. r.username = s.username
    BY <2>2, LoginReads DEF LoginThere, LoginIs, r
  <2>11. r.username # <<>> => \A dir \in Directions : CanPlay(r, dir)
    BY <2>8, <2>9, <2>10, <2>13, SamePlay
  <2>12. SoundThere(now)
    BY <2>11, Zenon DEF SoundThere, r
  <2> QED
    BY <1>3, <1>4, <2>3, <2>12, <2>13, Zenon DEF DiskFits, r
<1> QED
  BY <1>5, <1>6 DEF InFile

LEMMA RegistryFits ==
    ASSUME NEW s, IsSettings(s), NEW l \in SomeLogin, LoginIs(s, l),
           system = "windows", NEW n, NEW cut, InRegistry(n, cut),
           NEW there, DiskFits(there), NEW now, now = Stored(there, Lines(s), n, cut)
    PROVE  DiskFits(now) /\ (s.username = <<>> => ReadConfig(now).username = <<>>)
<1> DEFINE lines == Lines(s)
<1>1. SavedLines(s, lines) /\ lines = WindowsLines(s)
  <2> HIDE DEF lines
  <2>1. lines = Lines(s)
    BY DEF lines
  <2> QED
    BY <2>1, LinesSaved
<1>2. now = Stored(there, lines, n, cut)
  OBVIOUS
<1> HIDE DEF lines
<1>3. SettingsFit(s) /\ SaveEnds(n, cut) /\ FormatsThere(there) /\ Begins(n, cut) /\ ~cut
      /\ RegistryThere(there)
  BY DEF IsSettings, InRegistry, DiskFits, Begins
<1>4. FormatsThere(now)
  BY <1>1, <1>2, <1>3, FormatsSaved
<1>5. LoginThere(now, l)
  BY <1>1, <1>2, <1>3, LoginSaved
<1>6. LoginsThere(now)
  BY <1>5, Zenon DEF LoginsThere
<1>7. RegistryThere(now)
  <2>1. now = Stored(there, WindowsLines(s), n, cut)
    BY <1>1, <1>2
  <2>2. "ReceiveBitRate" \in DOMAIN now <=> "ReceiveBitRate" \in DOMAIN there
    BY <1>3, <2>1, RegistryLacks
  <2> QED
    BY <1>3, <2>2 DEF RegistryThere
<1>8. SoundThere(now)
  BY DEF SoundThere
<1>9. ReadConfig(now).username = s.username
  BY <1>5, LoginReads DEF LoginThere, LoginIs
<1> QED
  BY <1>4, <1>6, <1>7, <1>8, <1>9 DEF DiskFits

-----------------------------------------------------------------------------
(***************************************************************************)
(* The program: what every step keeps.                                     *)
(***************************************************************************)
StateInv ==
    /\ up \in BOOLEAN /\ entered \in BOOLEAN
    /\ since \in {"start", "save", "cut", "advanced"}
    /\ system \in {"unix", "windows"}
    /\ IsSettings(set)
    /\ dialog = Closed \/ DialogFits(dialog)

\* Whoever is registered is so under the login of the settings; whoever was never told to go
\* on has none and is asked; nobody's settings leave nobody's login to the next start; and
\* what is in the dialog is some login or none
LoginInv ==
    /\ up => /\ \E l \in SomeLogin : LoginIs(set, l)
             /\ set.username = <<>> => ReadConfig(disk).username = <<>>
    /\ (up /\ entered) => login = <<set.username, set.password>>
    /\ (up /\ ~entered) => dialog # Closed /\ login = <<>> /\ set.username = <<>>
    /\ (dialog # Closed /\ dialog.username # <<>>) => \E l \in Logins : LoginIs(dialog, l)
    /\ ~up => dialog = Closed /\ login = <<>>

DiskInv == DiskFits(disk)

KeptInv ==
    up => /\ since = "start" => ReadConfig(disk) = set
          /\ since = "save" => ReadConfig(disk) = Kept(set)

SettingsInv == StateInv /\ LoginInv /\ DiskInv /\ Playable /\ KeptInv

\* What is read of the disk depends on the system, which stays
LEMMA ReadThen ==
    ASSUME system' = system
    PROVE  ReadConfig(disk)' = ReadConfig(disk')
BY DEF ReadConfig, NameRead, Missing

\* A login of the settings that is not nobody's was typed
LEMMA LoginTold ==
    ASSUME NEW s, NEW l \in SomeLogin, LoginIs(s, l)
    PROVE  /\ l = <<s.username, s.password>>
           /\ s.username # <<>> => l \in Logins
           /\ s.username = <<>> => l = Nobody
<1>1. l = <<l[1], l[2]>>
  BY LoginsAre DEF SomeLogin, Named
<1> QED
  BY <1>1 DEF LoginIs, SomeLogin, Named, Nobody

LEMMA FitsIsOpen ==
    ASSUME NEW d, DialogFits(d)
    PROVE  d # Closed /\ \A dir \in Directions : d.format[dir] # "Empty"
                                                 /\ d.channels[dir].at \in 1..2
<1>1. d.format["Transmit"] \in ThreeFormats
      /\ d.format["Receive"] \in ThreeFormats \union {"NoFormat"}
      /\ \A dir \in Directions : /\ Chosen(d.channels[dir])
                                 /\ d.channels[dir].items \in {<< 1 >>, <<1, 2>>}
  BY DEF DialogFits, Ready
<1>2. Closed.format["Transmit"] = "Empty"
  BY DEF Closed, NewDialog, Directions
<1>3. \A dir \in Directions : d.channels[dir].at \in {1, 2}
  BY <1>1, ChannelText
<1> QED
  BY <1>1, <1>2, <1>3 DEF ThreeFormats, Directions

LEMMA ClosedChannels == \A dir \in Directions : Closed.channels[dir].at = 1
BY DEF Closed, NewDialog, Box

LEMMA ClearedIs == IsSettings(Cleared)
<1> DEFINE f == [dir \in Directions |-> "Speex"]
           c == [dir \in Directions |-> 0]
           e == <<>>
           m == <<"", "">>
           h == <<"0.0.0.0", "0.0.0.0">>
           s == Cleared
<1>1. s = SettingsOf(f, c, c, 0, e, e, e, 0, m, h)
  BY DEF Cleared, SettingsOf
<1> HIDE DEF s
<1>2. /\ Whole(s) /\ s.format = f /\ s.channels = c /\ s.bitRate = c
      /\ s.command = m /\ s.address = h
  <2> HIDE DEF f, c, e, m, h
  <2> QED
    BY <1>1, FieldsOf
<1>3. f = [dir \in Directions |-> f[dir]] /\ c = [dir \in Directions |-> c[dir]]
      /\ f["Transmit"] \in ThreeFormats /\ f["Receive"] \in ThreeFormats
  BY DEF ThreeFormats, Directions
<1>4. m = <<m[Off], m[On]>> /\ h = <<h[Off], h[On]>> /\ Real(h[Off]) /\ Real(h[On])
  BY DEF Off, On, Real
<1> HIDE DEF f, c, m, h
<1>5. IsSettings(s)
  BY <1>2, <1>3, <1>4 DEF IsSettings, SettingsFit
<1> QED
  BY <1>5 DEF s

LEMMA InitInv == Init => SettingsInv
<1> SUFFICES ASSUME Init
             PROVE  SettingsInv
  OBVIOUS
<1> USE DEF Init
<1>1. StateInv
  BY ClearedIs, SettingsAssumption DEF StateInv, SettingsAssumption
<1>2. LoginInv
  BY DEF LoginInv
<1>3. DiskInv
  BY NothingThere DEF DiskInv
<1>4. Playable /\ KeptInv
  BY DEF Playable, KeptInv
<1> QED
  BY <1>1, <1>2, <1>3, <1>4 DEF SettingsInv

\* Steps that leave the disk alone
LEMMA DiskStays ==
    ASSUME DiskInv, UNCHANGED <<system, disk>>
    PROVE  DiskInv'
<1>1. FormatsThere(disk)' /\ LoginsThere(disk)' /\ RegistryThere(disk)' /\ SoundThere(disk)'
  <2>1. FormatsThere(disk)'
    BY DEF DiskInv, DiskFits
  <2>2. LoginsThere(disk)'
    BY DEF DiskInv, DiskFits
  <2>3. RegistryThere(disk)'
    BY DEF DiskInv, DiskFits, RegistryThere
  <2>4. SoundThere(disk)'
    BY ReadThen DEF DiskInv, DiskFits, SoundThere
  <2> QED
    BY <2>1, <2>2, <2>3, <2>4
<1> QED
  BY <1>1 DEF DiskInv, DiskFits

LEMMA KeptStays ==
    ASSUME KeptInv, UNCHANGED <<system, disk, set, since>>, up' => up
    PROVE  KeptInv'
<1>1. Kept(set)' = Kept(set)
  BY DEF Kept
<1>2. ReadConfig(disk)' = ReadConfig(disk)
  BY ReadThen
<1> QED
  BY <1>1, <1>2 DEF KeptInv

LEMMA PlayableStays ==
    ASSUME Playable, UNCHANGED <<system, set>>, login' = login \/ login' = <<>>
    PROVE  Playable'
BY DEF Playable

-----------------------------------------------------------------------------
LEMMA StartInv == SettingsInv /\ Start => SettingsInv'
<1> SUFFICES ASSUME SettingsInv, Start
             PROVE  SettingsInv'
  OBVIOUS
<1>1. /\ StateInv /\ LoginInv /\ DiskInv /\ up' = TRUE /\ set' = ReadConfig(disk)
      /\ since' = "start" /\ entered' = (set'.username # <<>>)
      /\ dialog' = (IF entered' THEN Closed ELSE Opened(set'))
      /\ login' = (IF entered' THEN <<set'.username, set'.password>> ELSE <<>>)
      /\ UNCHANGED <<system, disk>>
  BY DEF SettingsInv, Start
<1>2. IsSettings(set') /\ \E l \in SomeLogin : LoginIs(set', l)
  BY <1>1, DiskReads DEF DiskInv
<1>5. /\ ReadConfig(disk)' = set' /\ StateInv' /\ DiskInv'
      /\ dialog' # Closed <=> ~entered'
      /\ dialog' # Closed => dialog'.username = <<>>
  <2>1. SettingsFit(set')
    BY <1>2 DEF IsSettings
  <2>2. DialogFits(Opened(set')) /\ Opened(set').username = set'.username
    BY <2>1, OpenedFits
  <2>3. Opened(set') # Closed
    BY <2>2, FitsIsOpen
  <2>4. ReadConfig(disk)' = set'
    BY <1>1, ReadThen
  <2> QED
    BY <1>1, <1>2, <2>2, <2>3, <2>4, DiskStays DEF StateInv
<1>3. LoginInv'
  BY <1>1, <1>2, <1>5 DEF LoginInv
<1>4. Playable'
  <2>1. (system = "unix" /\ set'.username # <<>>) => \A dir \in Directions : CanPlay(set', dir)
    BY <1>1 DEF DiskInv, DiskFits, SoundThere
  <2> QED
    BY <1>1, <2>1 DEF Playable
<1>6. KeptInv'
  BY <1>1, <1>5 DEF KeptInv
<1> QED
  BY <1>3, <1>4, <1>5, <1>6 DEF SettingsInv

LEMMA StopInv == SettingsInv /\ Stop => SettingsInv'
<1> SUFFICES ASSUME SettingsInv, Stop
             PROVE  SettingsInv'
  OBVIOUS
<1>1. /\ StateInv /\ LoginInv /\ DiskInv /\ Playable /\ KeptInv
      /\ up' = FALSE /\ dialog' = Closed /\ login' = <<>>
      /\ UNCHANGED <<system, set, disk, entered, since>>
  BY DEF SettingsInv, Stop, Down
<1>2. StateInv' /\ LoginInv'
  BY <1>1 DEF StateInv, LoginInv
<1>3. Playable' /\ KeptInv'
  BY <1>1 DEF Playable, KeptInv
<1> QED
  BY <1>1, <1>2, <1>3, DiskStays DEF SettingsInv

\* Steps that only put another dialog in the place of the one there is, or open one
DialogOnly ==
    /\ up /\ UNCHANGED <<system, up, set, disk, entered, login, since>>
    /\ DialogFits(dialog')
    /\ dialog'.username # <<>> => \E l \in Logins : LoginIs(dialog', l)

LEMMA DialogInv == SettingsInv /\ DialogOnly => SettingsInv'
<1> SUFFICES ASSUME SettingsInv, DialogOnly
             PROVE  SettingsInv'
  OBVIOUS
<1>1. /\ StateInv /\ LoginInv /\ DiskInv /\ Playable /\ KeptInv /\ up /\ up'
      /\ UNCHANGED <<system, up, set, disk, entered, login, since>>
  BY DEF SettingsInv, DialogOnly
<1>2. dialog' # Closed
  BY FitsIsOpen DEF DialogOnly
<1>3. StateInv'
  BY <1>1 DEF StateInv, DialogOnly
<1>5. ReadConfig(disk)' = ReadConfig(disk)
  BY <1>1, ReadThen
<1>4. LoginInv'
  BY <1>1, <1>2, <1>5 DEF LoginInv, DialogOnly
<1> QED
  BY <1>1, <1>3, <1>4, DiskStays, KeptStays, PlayableStays DEF SettingsInv

LEMMA ClickedInv == SettingsInv /\ SettingsClicked => SettingsInv'
<1> SUFFICES ASSUME SettingsInv, SettingsClicked
             PROVE  SettingsInv'
  OBVIOUS
<1>1. /\ StateInv /\ LoginInv /\ up /\ dialog = Closed /\ dialog' = Opened(set)
      /\ UNCHANGED <<system, up, set, disk, entered, login, since>>
  BY DEF SettingsInv, SettingsClicked, IsOpen
<1>2. set.username # <<>> => \E l \in Logins : LoginIs(set, l)
  BY <1>1, LoginTold DEF LoginInv
<1>3. SettingsFit(set)
  BY <1>1 DEF StateInv, IsSettings
<1>4. DialogFits(dialog') /\ dialog'.username = set.username /\ dialog'.password = set.password
  BY <1>1, <1>3, OpenedFits
<1>5. dialog'.username # <<>> => \E l \in Logins : LoginIs(dialog', l)
  BY <1>2, <1>4 DEF LoginIs
<1> QED
  BY <1>1, <1>2, <1>4, <1>5, DialogInv DEF DialogOnly

\* Of a dialog that is open
LEMMA OpenIs ==
    ASSUME SettingsInv, IsOpen
    PROVE  /\ up /\ dialog # Closed /\ DialogFits(dialog)
           /\ dialog.username # <<>> => \E l \in Logins : LoginIs(dialog, l)
BY DEF SettingsInv, StateInv, LoginInv, IsOpen

LEMMA SameLogin ==
    ASSUME NEW d, NEW r, d.username # <<>> => \E l \in Logins : LoginIs(d, l),
           r.username = d.username, r.password = d.password
    PROVE  r.username # <<>> => \E l \in Logins : LoginIs(r, l)
BY DEF LoginIs

LEMMA ActivateInv == SettingsInv /\ Activate => SettingsInv'
<1> SUFFICES ASSUME SettingsInv, Activate
             PROVE  SettingsInv'
  OBVIOUS
<1>1. /\ IsOpen /\ UNCHANGED <<system, up, set, disk, entered, login, since>>
  BY DEF Activate, Touch
<1>2. /\ up /\ DialogFits(dialog)
      /\ dialog.username # <<>> => \E l \in Logins : LoginIs(dialog, l)
  BY <1>1, OpenIs
<1> DEFINE may(d) ==
              \/ \E f \in Built : d = FormatChosen(dialog, "Transmit", f)
              \/ \E f \in Built \union {"NoFormat"} : d = FormatChosen(dialog, "Receive", f)
              \/ \E dir \in Directions : \E i \in DOMAIN dialog.channels[dir].items :
                    d = ChannelsChosen(dialog, dir, i)
              \/ \E i \in DOMAIN dialog.sampleRate.items : d = SampleRateChosen(dialog, i)
           touched(d) == [SettingsChanged(set, d) EXCEPT !.touched = TRUE]
<1>3. PICK d : may(d) /\ dialog' = touched(d)
  BY Zenon DEF Activate, Directions, FormatChosen, ChannelsChosen, SampleRateChosen
<1> HIDE DEF touched
<1>4. Ready(d) /\ d.username = dialog.username /\ d.password = dialog.password
  <2>1. Built \subseteq ThreeFormats /\ "Transmit" \in Directions /\ "Receive" \in Directions
    BY SettingsAssumption DEF SettingsAssumption, ThreeFormats, Directions
  <2>2. ASSUME NEW f \in Built, d = FormatChosen(dialog, "Transmit", f)
        PROVE  Ready(d) /\ d.username = dialog.username /\ d.password = dialog.password
    BY <1>2, <2>1, <2>2, FormatChosenReady
  <2>3. ASSUME NEW f \in Built \union {"NoFormat"}, d = FormatChosen(dialog, "Receive", f)
        PROVE  Ready(d) /\ d.username = dialog.username /\ d.password = dialog.password
    BY <1>2, <2>1, <2>3, FormatChosenReady
  <2>4. ASSUME NEW dir \in Directions, NEW i \in DOMAIN dialog.channels[dir].items,
               d = ChannelsChosen(dialog, dir, i)
        PROVE  Ready(d) /\ d.username = dialog.username /\ d.password = dialog.password
    BY <1>2, <2>4, ChannelsChosenReady
  <2>5. ASSUME NEW i \in DOMAIN dialog.sampleRate.items, d = SampleRateChosen(dialog, i)
        PROVE  Ready(d) /\ d.username = dialog.username /\ d.password = dialog.password
    BY <1>2, <2>5, SampleRateChosenReady
  <2> QED
    BY <1>3, <2>2, <2>3, <2>4, <2>5
<1> HIDE DEF may
<1>5. DialogFits(SettingsChanged(set, d)) /\ SameEntries(d, SettingsChanged(set, d))
  BY <1>4, SettingsChangedFits
<1>6. DialogFits(dialog') /\ dialog'.username = dialog.username
      /\ dialog'.password = dialog.password
  <2> DEFINE r == SettingsChanged(set, d)
  <2>1. dialog' = [r EXCEPT !.touched = TRUE]
    BY <1>3 DEF touched
  <2>2. r.username = dialog.username /\ r.password = dialog.password /\ DialogFits(r)
    BY <1>4, <1>5 DEF SameEntries
  <2> HIDE DEF r
  <2> QED
    BY <2>1, <2>2, TouchedFits
<1> QED
  BY <1>1, <1>2, <1>6, SameLogin, DialogInv DEF DialogOnly

LEMMA FirstOrLast ==
    ASSUME NEW d, DialogFits(d), NEW dir \in Directions,
           dir = "Receive" => d.format[dir] # "NoFormat",
           NEW i \in {1, Len(d.bitRate[dir].items)} \ {0}
    PROVE  i \in DOMAIN d.bitRate[dir].items
<1> DEFINE box == d.bitRate[dir]
<1>1. d.format[dir] # "NoFormat"
  BY DEF DialogFits, Ready, ThreeFormats, Directions
<1>2. Chosen(box)
  BY <1>1 DEF DialogFits, Fits
<1>3. i \in {1, Len(box.items)}
  OBVIOUS
<1> HIDE DEF box
<1>4. i \in DOMAIN box.items
  BY <1>2, <1>3 DEF Chosen, IsBox
<1> QED
  BY <1>4 DEF box

LEMMA ChooseBitRateInv == SettingsInv /\ ChooseBitRate => SettingsInv'
<1> SUFFICES ASSUME SettingsInv, ChooseBitRate
             PROVE  SettingsInv'
  OBVIOUS
<1>1. /\ IsOpen /\ UNCHANGED <<system, up, set, disk, entered, login, since>>
  BY DEF ChooseBitRate, Touch
<1>2. /\ up /\ DialogFits(dialog)
      /\ dialog.username # <<>> => \E l \in Logins : LoginIs(dialog, l)
  BY <1>1, OpenIs
<1>6. PICK dir \in Directions :
         /\ dir = "Receive" => dialog.format[dir] # "NoFormat"
         /\ \E i \in {1, Len(dialog.bitRate[dir].items)} \ {0} :
            dialog' = RateChosen(dialog, dir, i)
  BY DEF ChooseBitRate, RateChosen
<1>3. PICK i \in {1, Len(dialog.bitRate[dir].items)} \ {0} :
         dialog' = RateChosen(dialog, dir, i)
  BY <1>6
<1>4. i \in DOMAIN dialog.bitRate[dir].items
  BY <1>2, <1>3, <1>6, FirstOrLast
<1>5. DialogFits(dialog') /\ dialog'.username = dialog.username
      /\ dialog'.password = dialog.password
  BY <1>2, <1>3, <1>4, RateChosenFits
<1> QED
  BY <1>1, <1>2, <1>5, SameLogin, DialogInv DEF DialogOnly

LEMMA TypedInv == SettingsInv /\ Type => SettingsInv'
<1> SUFFICES ASSUME SettingsInv, Type
             PROVE  SettingsInv'
  OBVIOUS
<1>1. /\ IsOpen /\ UNCHANGED <<system, up, set, disk, entered, login, since>>
  BY DEF Type, Touch
<1>2. /\ up /\ DialogFits(dialog)
      /\ dialog.username # <<>> => \E l \in Logins : LoginIs(dialog, l)
  BY <1>1, OpenIs
<1>3. \/ \E l \in Logins : dialog' = TypedLogin(dialog, l)
      \/ \E n \in Names : dialog' = TypedName(dialog, n)
  BY DEF Type, TypedLogin, TypedName
<1>4. ASSUME NEW l \in Logins, dialog' = TypedLogin(dialog, l)
      PROVE  DialogFits(dialog') /\ LoginIs(dialog', l)
  BY <1>2, <1>4, LoginTyped DEF LoginIs
<1>5. ASSUME NEW n \in Names, dialog' = TypedName(dialog, n)
      PROVE  DialogFits(dialog') /\ dialog'.username = dialog.username
             /\ dialog'.password = dialog.password
  BY <1>2, <1>5, NameTyped
<1>6. DialogFits(dialog') /\ (dialog'.username # <<>> => \E l \in Logins : LoginIs(dialog', l))
  BY <1>2, <1>3, <1>4, <1>5, SameLogin
<1> QED
  BY <1>1, <1>2, <1>6, DialogInv DEF DialogOnly

LEMMA AdvancedInv ==
    ASSUME SettingsInv, NEW texts, AdvancedOk(texts)
    PROVE  SettingsInv'
<1>1. /\ IsOpen /\ UNCHANGED <<system, up, disk, entered, login, dialog>>
      /\ since' = "advanced" /\ set' = Advanced(texts)
  BY DEF AdvancedOk, Touch, Advanced
<1>2. StateInv /\ LoginInv /\ DiskInv /\ Playable /\ up
  BY <1>1 DEF SettingsInv, IsOpen
<1>3. /\ IsSettings(set')
      /\ set'.format = set.format /\ set'.channels = set.channels
      /\ set'.bitRate = set.bitRate /\ set'.sampleRate = set.sampleRate
      /\ set'.username = set.username /\ set'.password = set.password
  BY <1>1, <1>2, AdvancedWhole DEF StateInv
<1>4. StateInv'
  BY <1>1, <1>2, <1>3 DEF StateInv
<1>5. LoginInv'
  <2>1. ReadConfig(disk)' = ReadConfig(disk)
    BY <1>1, ReadThen
  <2>2. \A l : LoginIs(set', l) <=> LoginIs(set, l)
    BY <1>3 DEF LoginIs
  <2> QED
    BY <1>1, <1>2, <1>3, <2>1, <2>2 DEF LoginInv
<1>6. Playable'
  <2>1. \A dir \in Directions : CanPlay(set, dir) => CanPlay(set', dir)
    BY <1>3, SamePlay
  <2> QED
    BY <1>1, <1>2, <1>3, <2>1 DEF Playable
<1>7. KeptInv'
  BY <1>1 DEF KeptInv
<1> QED
  BY <1>1, <1>2, <1>4, <1>5, <1>6, <1>7, DiskStays DEF SettingsInv

LEMMA CancelInv == SettingsInv /\ Cancel => SettingsInv'
<1> SUFFICES ASSUME SettingsInv, Cancel
             PROVE  SettingsInv'
  OBVIOUS
<1>1. /\ IsOpen /\ dialog' = Closed /\ up' = entered
      /\ UNCHANGED <<system, set, disk, entered, login, since>>
  BY DEF Cancel
<1>2. StateInv /\ LoginInv /\ DiskInv /\ Playable /\ KeptInv /\ up
  BY <1>1 DEF SettingsInv, IsOpen
<1>3. StateInv'
  BY <1>1, <1>2 DEF StateInv
<1>5. ReadConfig(disk)' = ReadConfig(disk)
  BY <1>1, ReadThen
<1>4. LoginInv'
  BY <1>1, <1>2, <1>5 DEF LoginInv, StateInv
<1> QED
  BY <1>1, <1>2, <1>3, <1>4, DiskStays, KeptStays, PlayableStays DEF SettingsInv

-----------------------------------------------------------------------------
\* A save leaves on the disk what its lines make of it
LEMMA DiskLeft ==
    ASSUME system' = system, DiskFits(disk')
    PROVE  DiskInv'
<1>1. FormatsThere(disk)' /\ LoginsThere(disk)' /\ RegistryThere(disk)' /\ SoundThere(disk)'
  <2>1. FormatsThere(disk)'
    BY DEF DiskFits
  <2>2. LoginsThere(disk)'
    BY DEF DiskFits
  <2>3. RegistryThere(disk)'
    BY DEF DiskFits, RegistryThere
  <2>4. SoundThere(disk)'
    BY ReadThen DEF DiskFits, SoundThere
  <2> QED
    BY <2>1, <2>2, <2>3, <2>4
<1> QED
  BY <1>1 DEF DiskInv, DiskFits

\* What the file and the registry were before
Before == IF system = "unix" THEN <<>> ELSE disk

\* What the dialog leaves, by OK or by Escape: settings that can be played, unless they
\* are nobody's
Left == IsOpen /\ ((dialog.username # <<>> /\ set' = Accepted) \/ set' = set)

LEMMA SetLeft ==
    ASSUME SettingsInv, Left
    PROVE  /\ up /\ system \in {"unix", "windows"} /\ DiskFits(disk) /\ IsSettings(set')
           /\ system = "unix" =>
                (set'.username # <<>> => \A dir \in Directions : CanPlay(set', dir))
           /\ \E l \in SomeLogin : LoginIs(set', l)
           /\ set'.username = <<>> => ReadConfig(disk).username = <<>>
<1>1. /\ up /\ DialogFits(dialog)
      /\ dialog.username # <<>> => \E l \in Logins : LoginIs(dialog, l)
  BY OpenIs DEF Left
<1>2. /\ IsSettings(set) /\ system \in {"unix", "windows"} /\ DiskFits(disk)
      /\ LoginInv /\ Playable /\ StateInv
  BY DEF SettingsInv, StateInv, DiskInv
<1>3. CASE dialog.username # <<>> /\ set' = Accepted
  <2>1. /\ IsSettings(set') /\ \A dir \in Directions : CanPlay(set', dir)
        /\ set'.username = dialog.username /\ set'.password = dialog.password
    BY <1>1, <1>2, <1>3, AcceptedFits DEF Left
  <2>2. PICK l \in Logins : LoginIs(dialog, l)
    BY <1>1, <1>3
  <2>3. l \in SomeLogin /\ LoginIs(set', l) /\ set'.username # <<>>
    BY <1>3, <2>1, <2>2 DEF LoginIs, SomeLogin, Named
  <2> QED
    BY <1>1, <1>2, <2>1, <2>3
<1>4. CASE set' = set
  <2>1. /\ \E l \in SomeLogin : LoginIs(set, l)
        /\ set.username = <<>> => ReadConfig(disk).username = <<>>
        /\ set.username # <<>> => login # <<>>
    BY <1>1, <1>2 DEF LoginInv, StateInv
  <2>2. system = "unix" => (set.username # <<>> => \A dir \in Directions : CanPlay(set, dir))
    BY <1>2, <2>1 DEF Playable
  <2> QED
    BY <1>1, <1>2, <1>4, <2>1, <2>2
<1> QED
  BY <1>3, <1>4 DEF Left

\* What every end of a save does but for the disk
LEMMA SavedInv ==
    ASSUME SettingsInv, Left, since' \in {"save", "cut"}, entered' = TRUE, dialog' = Closed,
           system' = system, set'.username = <<>> => ReadConfig(disk').username = <<>>,
           \/ up' = up /\ login' = <<set'.username, set'.password>>
           \/ up' = FALSE /\ login' = <<>>
    PROVE  StateInv' /\ LoginInv' /\ Playable'
<1>1. /\ up /\ system \in {"unix", "windows"} /\ IsSettings(set')
      /\ system = "unix" =>
           (set'.username # <<>> => \A dir \in Directions : CanPlay(set', dir))
      /\ \E l \in SomeLogin : LoginIs(set', l)
  BY SetLeft
<1>2. StateInv'
  BY <1>1 DEF StateInv
<1>3. LoginInv'
  <2>1. ReadConfig(disk)' = ReadConfig(disk')
    BY ReadThen
  <2> QED
    BY <1>1, <2>1 DEF LoginInv
<1>4. Playable'
  BY <1>1 DEF Playable
<1> QED
  BY <1>2, <1>3, <1>4

\* How much of the lines a save may write, and what the disk is then
Writes(n, cut) ==
    /\ disk' = Stored(Before, Lines(set'), n, cut)
    /\ system = "unix" => InFile(n, cut, <<>>)
    /\ system = "windows" => InRegistry(n, cut)

LEMMA DiskWritten ==
    ASSUME SettingsInv, Left, system' = system, NEW n, NEW cut, Writes(n, cut)
    PROVE  DiskInv' /\ (set'.username = <<>> => ReadConfig(disk').username = <<>>)
<1> DEFINE s == set'
           now == disk'
<1>1. /\ system \in {"unix", "windows"} /\ DiskFits(disk) /\ IsSettings(s)
      /\ system = "unix" => (s.username # <<>> => \A dir \in Directions : CanPlay(s, dir))
  BY SetLeft
<1>2. PICK l \in SomeLogin : LoginIs(s, l)
  BY SetLeft
<1>3. DiskFits(now) /\ (s.username = <<>> => ReadConfig(now).username = <<>>)
  <2>1. CASE system = "unix"
    <3>1. now = Stored(<<>>, Lines(s), n, cut) /\ InFile(n, cut, <<>>)
      BY <2>1 DEF Before, Writes
    <3> HIDE DEF s, now
    <3> QED
      BY <1>1, <1>2, <2>1, <3>1, FileFits
  <2>2. CASE system = "windows"
    <3>1. now = Stored(disk, Lines(s), n, cut) /\ InRegistry(n, cut)
      BY <2>2 DEF Before, Writes
    <3> HIDE DEF s, now
    <3> QED
      BY <1>1, <1>2, <2>2, <3>1, RegistryFits
  <2> QED
    BY <1>1, <2>1, <2>2
<1> QED
  BY <1>3, DiskLeft

\* WriteConfig writes all the lines, or some
LEMMA LinesLeft == Len(Lines(set')) = 14
<1> DEFINE s == set'
           lines == Lines(s)
<1>1. lines = Lines(s)
  BY DEF lines
<1> HIDE DEF lines, s
<1>2. Len(lines) = 14
  BY <1>1, LinesSaved
<1> QED
  BY <1>2 DEF lines, s

LEMMA WholeWrites ==
    ASSUME system \in {"unix", "windows"}, WriteConfig
    PROVE  Writes(14, FALSE) /\ SaveEnds(14, FALSE)
<1>1. disk' = Stored(Before, Lines(set'), 14, FALSE)
  BY LinesLeft DEF WriteConfig, Before
<1>2. SaveEnds(14, FALSE) /\ InFile(14, FALSE, <<>>) /\ InRegistry(14, FALSE)
  BY DEF SaveEnds, InFile, Sounds, InRegistry, Begins
<1> QED
  BY <1>1, <1>2 DEF Writes

LEMMA CutWrites ==
    ASSUME system \in {"unix", "windows"}, NEW n, WriteConfigCut(n)
    PROVE  \E cut \in BOOLEAN : Writes(n, cut) /\ SaveEnds(n, cut)
<1> DEFINE cut == system = "unix" /\ n > 0
<1>1. /\ disk' = Stored(Before, Lines(set'), n, cut)
      /\ system = "unix" => n \in {0, 12, 13}
      /\ system # "unix" => n \in 1..Len(Lines(set')) - 1
  BY DEF WriteConfigCut, Before
<1>2. CASE system = "unix"
  <2>1. n \in {0, 12, 13} /\ cut \in BOOLEAN /\ (cut <=> n # 0)
    BY <1>1, <1>2
  <2> HIDE DEF cut
  <2>2. SaveEnds(n, cut) /\ InFile(n, cut, <<>>)
    BY <2>1 DEF InFile, SaveEnds, Sounds
  <2> QED
    BY <1>1, <1>2, <2>1, <2>2 DEF Writes
<1>3. CASE system = "windows"
  <2>1. n \in 1..13 /\ ~cut /\ cut \in BOOLEAN
    BY <1>1, <1>3, LinesLeft
  <2> HIDE DEF cut
  <2>2. SaveEnds(n, cut) /\ InRegistry(n, cut)
    BY <2>1 DEF InRegistry, Begins, SaveEnds
  <2> QED
    BY <1>1, <1>3, <2>1, <2>2 DEF Writes
<1> QED
  BY <1>2, <1>3

\* A save that reached its end keeps the settings
LEMMA WholeKept ==
    ASSUME SettingsInv, Left, system' = system, WriteConfig
    PROVE  KeptInv'
<1> DEFINE s == set'
           now == disk'
<1>1. /\ system \in {"unix", "windows"} /\ DiskFits(disk) /\ IsSettings(s)
  BY SetLeft
<1>2. PICK l \in SomeLogin : LoginIs(s, l)
  BY SetLeft
<1>3. StoredWhole(Before, s, now)
  BY DEF StoredWhole, WriteConfig, Before
<1>4. RegistryThere(Before)
  BY <1>1 DEF Before, DiskFits, RegistryThere
<1>5. ReadConfig(now) = Kept(s)
  <2> HIDE DEF s, now
  <2> QED
    BY <1>1, <1>2, <1>3, <1>4, SaveReads
<1>6. ReadConfig(disk)' = ReadConfig(now) /\ Kept(set)' = Kept(s)
  BY ReadThen DEF Kept
<1> QED
  BY <1>5, <1>6 DEF KeptInv, WriteConfig

\* How a save may end
Ending ==
    \/ WriteConfig /\ since' = "save"
    \/ (\E n \in 0..13 : WriteConfigCut(n)) /\ since' = "cut"
    \/ disk' = disk /\ since' = "cut"

LEMMA SavesDo ==
    ASSUME Saves
    PROVE  /\ IsOpen /\ system' = system /\ entered' = TRUE /\ dialog' = Closed
           /\ saves' = saves + 1 /\ Ending
           /\ \/ up' = up /\ login' = <<set'.username, set'.password>>
              \/ up' = FALSE /\ login' = <<>>
BY DEF Saves, Ending, Down, WriteConfig, WriteConfigCut, WriteConfigFails

LEMMA SavesInv ==
    ASSUME SettingsInv, OkData \/ Reject
    PROVE  SettingsInv'
<1>1. Saves /\ Left
  BY DEF OkData, Reject, Left
<1>2. /\ system' = system /\ entered' = TRUE /\ dialog' = Closed /\ Ending
      /\ \/ up' = up /\ login' = <<set'.username, set'.password>>
         \/ up' = FALSE /\ login' = <<>>
  BY <1>1, SavesDo
<1>3. /\ system \in {"unix", "windows"}
      /\ set'.username = <<>> => ReadConfig(disk).username = <<>>
  BY <1>1, SetLeft
<1>4. /\ DiskInv' /\ (set'.username = <<>> => ReadConfig(disk').username = <<>>)
      /\ KeptInv' /\ since' \in {"save", "cut"}
  <2>1. CASE WriteConfig /\ since' = "save"
    BY <1>1, <1>2, <1>3, <2>1, WholeWrites, DiskWritten, WholeKept
  <2>2. CASE (\E n \in 0..13 : WriteConfigCut(n)) /\ since' = "cut"
    <3>1. PICK n \in 0..13 : WriteConfigCut(n)
      BY <2>2
    <3>2. PICK cut \in BOOLEAN : Writes(n, cut)
      BY <1>3, <3>1, CutWrites
    <3> QED
      BY <1>1, <1>2, <2>2, <3>2, DiskWritten DEF KeptInv
  <2>3. CASE disk' = disk /\ since' = "cut"
    BY <1>2, <1>3, <2>3, DiskStays DEF SettingsInv, KeptInv
  <2> QED
    BY <1>2, <2>1, <2>2, <2>3 DEF Ending
<1>5. StateInv' /\ LoginInv' /\ Playable'
  BY <1>1, <1>2, <1>4, SavedInv
<1> QED
  BY <1>4, <1>5 DEF SettingsInv

-----------------------------------------------------------------------------
LEMMA SettingsInvNext == SettingsInv /\ [Next]_vars => SettingsInv'
<1> SUFFICES ASSUME SettingsInv, [Next]_vars
             PROVE  SettingsInv'
  OBVIOUS
<1>1. CASE Start \/ Stop \/ SettingsClicked
  BY <1>1, StartInv, StopInv, ClickedInv
<1>2. CASE Activate \/ ChooseBitRate \/ Type
  BY <1>2, ActivateInv, ChooseBitRateInv, TypedInv
<1>3. CASE \E off, on \in Texts : AdvancedOk(<<off, on>>)
  BY <1>3, AdvancedInv
<1>4. CASE Cancel
  BY <1>4, CancelInv
<1>5. CASE OkData \/ Reject
  BY <1>5, SavesInv
<1>6. CASE UNCHANGED vars
  <2>1. /\ StateInv /\ LoginInv /\ DiskInv /\ Playable /\ KeptInv
        /\ UNCHANGED <<system, up, set, disk, dialog, entered, login, since>>
    BY <1>6 DEF SettingsInv, vars
  <2>3. ReadConfig(disk)' = ReadConfig(disk)
    BY <2>1, ReadThen
  <2>2. StateInv' /\ LoginInv'
    BY <2>1, <2>3 DEF StateInv, LoginInv
  <2> QED
    BY <2>1, <2>2, DiskStays, KeptStays, PlayableStays DEF SettingsInv
<1> QED
  BY <1>1, <1>2, <1>3, <1>4, <1>5, <1>6 DEF Next

LEMMA AlwaysSettingsInv == Spec => []SettingsInv
BY InitInv, SettingsInvNext, PTL DEF Spec

\* For every set of formats, logins, names and addresses: the boxes of the dialog always
\* hold one of their items, and one that is open has formats in it (TypeOK,
\* audiosettings_dialog.cpp:365-430).
THEOREM SettingsTypeCorrect == Spec => []TypeOK
<1>1. SettingsInv => TypeOK
  <2> SUFFICES ASSUME SettingsInv
               PROVE  TypeOK
    OBVIOUS
  <2>1. StateInv /\ LoginInv
    BY DEF SettingsInv
  <2>2. login \in Logins \union {<<>>, Nobody}
    BY <2>1, LoginTold DEF StateInv, LoginInv
  <2>3. CASE dialog = Closed
    <3>1. \A dir \in Directions : dialog.channels[dir].at \in 1..2
      BY <2>3, ClosedChannels
    <3> QED
      BY <2>1, <2>2, <2>3, <3>1 DEF TypeOK, StateInv, IsOpen
  <2>4. CASE DialogFits(dialog)
    <3>1. \A dir \in Directions : /\ dialog.channels[dir].at \in 1..2
                                  /\ dialog.format[dir] # "Empty"
      BY <2>4, FitsIsOpen
    <3> QED
      BY <2>1, <2>2, <3>1 DEF TypeOK, StateInv
  <2> QED
    BY <2>1, <2>3, <2>4 DEF StateInv
<1> QED
  BY <1>1, AlwaysSettingsInv, PTL

\* Whatever boxes were changed in whatever order, and wherever a save was cut, settings kept
\* in a file that are registered with a username can be played both ways (Playable,
\* audiosettings_dialog.cpp:665-1070).
THEOREM AlwaysPlayable == Spec => []Playable
<1>1. SettingsInv => Playable
  BY DEF SettingsInv
<1> QED
  BY <1>1, AlwaysSettingsInv, PTL

\* What the program goes by after a save that reached its end is what the next start will
\* find: in the file but for the spaces around the name, and in the registry but for the
\* bit rates and an address (Remembered, netisdn.cpp:756-1068).
THEOREM AlwaysRemembered == Spec => []Remembered
<1>1. SettingsInv => Remembered
  BY DEF SettingsInv, KeptInv, Remembered
<1> QED
  BY <1>1, AlwaysSettingsInv, PTL

\* Out of the dialog the program is registered, under the login of the settings, which is
\* one that was typed: no save, whole or cut, mixes two; or it is nobody's, when the dialog
\* was closed without OK, and then the next start asks again (Registered,
\* netisdn.cpp:319-332, 527-543).
THEOREM AlwaysRegistered == Spec => []Registered
<1>1. SettingsInv => Registered
  <2> SUFFICES ASSUME SettingsInv, up, ~IsOpen
               PROVE  /\ login = <<set.username, set.password>>
                      /\ \/ login \in Logins
                         \/ login = Nobody /\ ReadConfig(disk).username = <<>>
    BY DEF Registered
  <2>1. StateInv /\ LoginInv
    BY DEF SettingsInv
  <2>2. login = <<set.username, set.password>>
    BY <2>1 DEF StateInv, LoginInv, IsOpen
  <2>3. PICK l \in SomeLogin : LoginIs(set, l)
    BY <2>1 DEF LoginInv
  <2>4. /\ l = login /\ (set.username # <<>> => l \in Logins)
        /\ (set.username = <<>> => l = Nobody)
    BY <2>2, <2>3, LoginTold
  <2> QED
    BY <2>1, <2>2, <2>4 DEF LoginInv
<1> QED
  BY <1>1, AlwaysSettingsInv, PTL

-----------------------------------------------------------------------------
(***************************************************************************)
(* OK at once: what the dialog makes of settings that it was opened with.   *)
(***************************************************************************)
\* Formats that are compiled in; those of the settings may be Speex for want of any, but
\* then with the bit rate there is for want of any, which is none of Speex's
BuiltFormats(format) ==
    format["Transmit"] \in Built /\ format["Receive"] \in Built \union {"NoFormat"}
DefaultOf(s, dir) == s.format[dir] = "Speex" /\ s.bitRate[dir] = 48
BuiltSettings(s) ==
    /\ \/ s.format["Transmit"] \in Built
       \/ DefaultOf(s, "Transmit") /\ s.bitRate["Receive"] = 48
    /\ s.format["Receive"] \in Built \union {"NoFormat"} \/ DefaultOf(s, "Receive")
    /\ s.channels["Receive"] \in {1, 2}

LEMMA BuiltAre == Built \subseteq ThreeFormats /\ FirstBuilt \in Built
BY SettingsAssumption DEF SettingsAssumption, ThreeFormats, FirstBuilt

LEMMA DefaultSilent ==
    ASSUME NEW channels, NEW sampleRate
    PROVE  ~Plays("Speex", channels, sampleRate, 48)
<1>1. /\ BitRateItems("Speex", sampleRate, channels) = SpeexQualities
      /\ DOMAIN SpeexQualities = 1..11
      /\ \A i \in 1..11 : SpeexQualities[i] = i - 1
  BY SMT DEF BitRateItems, SpeexQualities
<1>2. \A i \in DOMAIN SpeexQualities : SpeexQualities[i] # 48
  BY <1>1
<1> QED
  BY <1>1, <1>2 DEF Plays

\* Settings that can be played both ways have formats that are compiled in
LEMMA PlayableBuilt ==
    ASSUME NEW s, BuiltSettings(s), \A dir \in Directions : CanPlay(s, dir)
    PROVE  /\ BuiltFormats(s.format)
           /\ Plays(s.format["Transmit"], s.channels["Transmit"], s.sampleRate,
                    s.bitRate["Transmit"])
           /\ s.format["Receive"] # "NoFormat" =>
                Plays(s.format["Receive"], s.channels["Receive"], s.sampleRate,
                      s.bitRate["Receive"])
<1>1. CanPlay(s, "Transmit") /\ CanPlay(s, "Receive")
  BY DEF Directions
<1>2. Plays(s.format["Transmit"], s.channels["Transmit"], s.sampleRate,
            s.bitRate["Transmit"])
  BY <1>1 DEF CanPlay, AutoVector
<1>3. s.format["Receive"] # "NoFormat" =>
        Plays(s.format["Receive"], s.channels["Receive"], s.sampleRate,
              s.bitRate["Receive"])
  BY <1>1 DEF CanPlay, AutoVector
<1>4. ~DefaultOf(s, "Transmit")
  BY <1>2, DefaultSilent DEF DefaultOf
<1>5. ~DefaultOf(s, "Receive")
  BY <1>3, DefaultSilent DEF DefaultOf
<1> QED
  BY <1>2, <1>3, <1>4, <1>5 DEF BuiltSettings, BuiltFormats

\* A bit rate that can be played is in the list for 32000 as well
LEMMA RateThere ==
    ASSUME NEW format \in ThreeFormats, NEW channels, NEW sampleRate, NEW bitRate,
           Plays(format, channels, sampleRate, bitRate)
    PROVE  /\ channels \in {1, 2} /\ (format = "Speex" => channels = 1)
           /\ \E i \in DOMAIN BitRateItems(format, 32000, channels) :
                BitRateItems(format, 32000, channels)[i] = bitRate
<1>1. channels \in {1, 2} /\ (format = "Speex" => channels = 1)
  BY DEF Plays
<1>2. PICK i \in DOMAIN BitRateItems(format, sampleRate, channels) :
         BitRateItems(format, sampleRate, channels)[i] = bitRate
  BY DEF Plays
<1>3. CASE format # "Layer3"
  <2>1. BitRateItems(format, sampleRate, channels) = BitRateItems(format, 32000, channels)
    BY <1>3, SMT DEF BitRateItems, ThreeFormats
  <2> QED
    BY <1>1, <1>2, <2>1
<1>4. CASE format = "Layer3"
  <2>1. CASE sampleRate = 32000
    BY <1>1, <1>2, <2>1
  <2>2. CASE sampleRate = 48000
    BY <1>1, <1>2, <2>2, LowerRatesToo
  <2>3. CASE sampleRate \notin {32000, 48000}
    <3>1. BitRateItems(format, sampleRate, channels) = <<>>
      BY <1>4, <2>3, SMT DEF BitRateItems, Layer3Rates
    <3>2. DOMAIN BitRateItems(format, sampleRate, channels) = {}
      BY <3>1
    <3> QED
      BY <1>2, <3>2
  <2> QED
    BY <2>1, <2>2, <2>3
<1> QED
  BY <1>3, <1>4

\* A direction whose list was looked through for a bit rate that can be played
Looked(box, format, channels, bitRate) ==
    box = Selected(Box(BitRateItems(format, 32000, channels)), bitRate)

LEMMA KeepsSound ==
    ASSUME NEW format \in ThreeFormats, NEW channels, NEW sampleRate, NEW bitRate,
           Plays(format, channels, sampleRate, bitRate),
           NEW r, NEW dir, Checked(r, dir, format, 32000, channels),
           Looked(r.bitRate[dir], format, channels, bitRate)
    PROVE  r.channels[dir].at = channels /\ Text(r.bitRate[dir]) = bitRate
<1> DEFINE items == BitRateItems(format, 32000, channels)
           box == r.bitRate[dir]
<1>1. /\ channels \in {1, 2} /\ (format = "Speex" => channels = 1)
      /\ \E i \in DOMAIN items : items[i] = bitRate
  BY RateThere
<1>2. r.channels[dir].at = channels
  <2>1. CASE format = "Speex"
    <3>1. r.channels[dir].items = << 1 >>
          /\ r.channels[dir].at \in DOMAIN r.channels[dir].items
      BY <2>1 DEF Checked, Chosen
    <3>2. r.channels[dir].at = 1
      BY <3>1
    <3> QED
      BY <1>1, <2>1, <3>2
  <2>2. CASE format # "Speex"
    BY <2>2 DEF Checked
  <2> QED
    BY <2>1, <2>2
<1>3. box = Selected(Box(items), bitRate)
  BY DEF Looked
<1>4. IsList(items)
  BY <1>1, RatesAre
<1> HIDE DEF items, box
<1>5. Chosen(box) /\ box.items = items /\ box.items[box.at] = bitRate
  BY <1>1, <1>3, <1>4, SelectedIs
<1>6. Text(box) = bitRate
  BY <1>5 DEF Text, Chosen
<1> QED
  BY <1>2, <1>6 DEF box

\* A number of channels is found
LEMMA ChannelsFound ==
    ASSUME NEW channels \in {1, 2}, NEW box, box = Selected(Box(<<1, 2>>), channels)
    PROVE  box.at = channels /\ Text(box) = channels
<1> DEFINE items == <<1, 2>>
<1>1. IsList(items) /\ DOMAIN items = {1, 2} /\ items[1] = 1 /\ items[2] = 2
  BY DEF IsList
<1> HIDE DEF items
<1>2. box = Selected(Box(items), channels)
  BY DEF items
<1>3. Chosen(box) /\ box.items = items /\ box.items[box.at] = channels
  BY <1>1, <1>2, SelectedIs
<1>4. box.at \in {1, 2}
  BY <1>1, <1>3 DEF Chosen
<1>5. box.at = channels
  BY <1>1, <1>3, <1>4
<1> QED
  BY <1>3, <1>5 DEF Text, Chosen

\* The lists of bit rates are looked through
LEMMA TransmitLooked ==
    ASSUME NEW s, NEW d, IsDialog(d), NEW format \in ThreeFormats,
           NEW used \in {32000, 48000}, Text(d.channels["Transmit"]) \in {1, 2},
           NEW t, t = CheckSettings(s, d, "Transmit", format, used)
    PROVE  RateLooked(s, d, "Transmit", format, used, t)
<1> DEFINE box == RateChoice(d, "Transmit", format, used)
<1>1. IsRates(box)
  BY ChoiceIs
<1> HIDE DEF box
<1>2. IsRates(SampleRates(d, box))
  BY <1>1, SampleRatesAre
<1>3. MayCheck(d, "Transmit", format, used)
  BY <1>2 DEF MayCheck, IsRates, Chosen, Directions, box
<1> QED
  BY <1>3, CheckSettingsDoes

LEMMA ReceiveLooked ==
    ASSUME NEW s, NEW t, IsDialog(t), NEW format \in ThreeFormats,
           NEW used \in {32000, 48000}, Text(t.channels["Receive"]) \in {1, 2},
           IsRates(t.sampleRate),
           NEW r, r = CheckSettings(s, t, "Receive", format, used)
    PROVE  RateLooked(s, t, "Receive", format, used, r)
<1>1. RateChoice(t, "Receive", format, used) = t.sampleRate
  BY DEF RateChoice
<1>2. IsRates(SampleRates(t, t.sampleRate))
  BY SampleRatesAre
<1>3. MayCheck(t, "Receive", format, used)
  BY <1>1, <1>2 DEF MayCheck, IsRates, Chosen, Directions
<1> QED
  BY <1>3, CheckSettingsDoes

\* What the dialog says when it was opened with the settings s
SaysFormats(r, s) ==
    r.format["Transmit"] = s.format["Transmit"] /\ r.format["Receive"] = s.format["Receive"]
SaysSound(r, s, dir) ==
    r.channels[dir].at = s.channels[dir] /\ Text(r.bitRate[dir]) = s.bitRate[dir]
SaysSilence(r, s) ==
    r.channels["Receive"].at = s.channels["Receive"] /\ Text(r.bitRate["Receive"]) = 0
Says(r, s) ==
    /\ SaysFormats(r, s) /\ Text(r.sampleRate) = 32000
    /\ SaysSound(r, s, "Transmit")
    /\ IF s.format["Receive"] = "NoFormat" THEN SaysSilence(r, s)
       ELSE SaysSound(r, s, "Receive")

\* Settings that can be played both ways are all in the boxes, but for the sample rate and
\* the bit rate of a receiver without a format
LEMMA OpenedSays ==
    ASSUME NEW s, SettingsFit(s), BuiltSettings(s), \A dir \in Directions : CanPlay(s, dir),
           NEW r, r = Opened(s)
    PROVE  Says(r, s)
<1> DEFINE f == s.format["Transmit"]
           g == s.format["Receive"]
           c == s.channels["Transmit"]
           e == s.channels["Receive"]
<1>1. PICK d : r = SettingsChanged(s, d) /\ IsFilled(s, d)
  BY OpenedIs
<1>2. Filled(s, d) /\ FilledFormats(s, d) /\ FilledChannels(s, d) /\ FilledRates(d)
  BY <1>1 DEF IsFilled
<1>3. /\ f \in Built /\ g \in Built \union {"NoFormat"}
      /\ Plays(f, c, s.sampleRate, s.bitRate["Transmit"])
      /\ g # "NoFormat" => Plays(g, e, s.sampleRate, s.bitRate["Receive"])
  BY PlayableBuilt DEF BuiltFormats
<1>4. f \in ThreeFormats /\ g \in ThreeFormats \union {"NoFormat"}
  BY DEF SettingsFit
<1>5. d.format["Transmit"] = f /\ d.format["Receive"] = g
  BY <1>2, <1>3 DEF FilledFormats, FormatItem
<1>6. ReadFormat(d, "Transmit") = f /\ ReadFormat(d, "Receive") = g
  BY <1>4, <1>5, FormatRead DEF Directions, ThreeFormats
<1>7. /\ IsDialog(d) /\ Text(d.sampleRate) = 32000 /\ d.bitRate["Receive"] = Box(<<>>)
      /\ \A dir \in Directions : /\ Chosen(d.channels[dir])
                                 /\ d.channels[dir].items \in {<< 1 >>, <<1, 2>>}
  BY <1>2 DEF Filled, FilledRates, Ready
<1>8. e \in {1, 2} /\ c \in {1, 2} /\ (f = "Speex" => c = 1)
  BY <1>3, <1>4, RateThere DEF BuiltSettings
<1>9. d.channels["Receive"].at = e /\ Text(d.channels["Receive"]) = e
  <2>1. d.channels["Receive"] = Selected(Box(<<1, 2>>), e)
    BY <1>2 DEF FilledChannels
  <2> HIDE DEF e
  <2> QED
    BY <1>8, <2>1, ChannelsFound
<1>10. Text(d.channels["Transmit"]) = c
  <2> DEFINE box == d.channels["Transmit"]
  <2>1. Chosen(box) /\ box.items \in {<< 1 >>, <<1, 2>>}
    BY <1>7 DEF Directions
  <2>2. Text(box) = box.at
    BY <2>1, ChannelText
  <2>3. CASE f = "Speex"
    <3>1. box.items = << 1 >> /\ box.at \in DOMAIN box.items
      BY <1>2, <2>1, <2>3 DEF FilledChannels, Chosen
    <3>2. box.at = 1
      BY <3>1
    <3> QED
      BY <1>8, <2>2, <2>3, <3>2
  <2>4. CASE f # "Speex"
    <3>1. box.at = Text(Selected(Box(<<1, 2>>), c))
      BY <1>2, <2>4 DEF FilledChannels
    <3>2. Text(Selected(Box(<<1, 2>>), c)) = c
      BY <1>8, ChannelsFound
    <3> QED
      BY <2>2, <3>1, <3>2
  <2> QED
    BY <2>3, <2>4
<1> DEFINE t == CheckSettings(s, d, "Transmit", f, 32000)
<1>11. r = IF g = "NoFormat" THEN t ELSE CheckSettings(s, t, "Receive", g, Text(t.sampleRate))
  BY <1>1, <1>6, <1>7 DEF SettingsChanged
<1>12. RateStored(s, "Transmit", f) = s.bitRate["Transmit"]
       /\ (g # "NoFormat" => RateStored(s, "Receive", g) = s.bitRate["Receive"])
  BY DEF RateStored, AutoVector
<1>13. t = CheckSettings(s, d, "Transmit", f, 32000)
  OBVIOUS
<1> HIDE DEF f, g, c, e, t
<1>14. Text(d.channels["Transmit"]) \in {1, 2} /\ Text(d.channels["Receive"]) \in {1, 2}
  BY <1>8, <1>9, <1>10
<1>15. /\ IsDialog(t) /\ SameEntries(d, t)
       /\ Checked(t, "Transmit", f, 32000, Text(d.channels["Transmit"]))
       /\ t.channels["Receive"] = d.channels["Receive"]
       /\ t.bitRate["Receive"] = d.bitRate["Receive"]
       /\ IsRates(t.sampleRate)
       /\ t.sampleRate.items = IF SpeexRead(d) THEN << 32000 >> ELSE <<32000, 48000>>
       /\ ~SpeexRead(d) /\ f # "Speex" => Text(t.sampleRate) = 32000
  BY <1>4, <1>7, <1>13, <1>14, TransmitChecked
<1>16. RateLooked(s, d, "Transmit", f, 32000, t)
  BY <1>4, <1>7, <1>13, <1>14, TransmitLooked
<1>17. SaysSound(t, s, "Transmit")
  <2>1. Looked(t.bitRate["Transmit"], f, c, s.bitRate["Transmit"])
    BY <1>10, <1>12, <1>16 DEF RateLooked, Looked
  <2>2. Checked(t, "Transmit", f, 32000, c)
    BY <1>10, <1>15
  <2>3. t.channels["Transmit"].at = c /\ Text(t.bitRate["Transmit"]) = s.bitRate["Transmit"]
    BY <1>3, <1>4, <2>1, <2>2, KeepsSound
  <2> QED
    BY <2>3 DEF SaysSound, c
<1>18. Text(t.sampleRate) = 32000
  <2>1. CASE SpeexRead(d)
    <3> DEFINE box == t.sampleRate
    <3>1. box.items = << 32000 >> /\ box.at \in DOMAIN box.items
      BY <1>15, <2>1 DEF IsRates, Chosen
    <3>2. Text(box) = 32000
      BY <3>1, SMT DEF Text
    <3> QED
      BY <3>2
  <2>2. CASE ~SpeexRead(d)
    <3>1. f # "Speex"
      BY <1>6, <2>2 DEF SpeexRead, Directions
    <3> QED
      BY <1>15, <2>2, <3>1
  <2> QED
    BY <2>1, <2>2
<1>19. t.format["Transmit"] = f /\ t.format["Receive"] = g
  BY <1>5, <1>15 DEF SameEntries
<1>20. CASE g = "NoFormat"
  <2>1. r = t
    BY <1>11, <1>20
  <2>2. r.channels["Receive"].at = e
    BY <1>9, <1>15, <2>1
  <2>3. Text(Box(<<>>)) = 0
    BY DEF Text, Box
  <2>4. Text(r.bitRate["Receive"]) = 0
    BY <1>7, <1>15, <2>1, <2>3
  <2> QED
    BY <1>17, <1>18, <1>19, <1>20, <2>1, <2>2, <2>4 DEF Says, SaysFormats, SaysSilence, f, g, e
<1>21. CASE g # "NoFormat"
  <2>1. r = CheckSettings(s, t, "Receive", g, 32000)
    BY <1>11, <1>18, <1>21
  <2>2. /\ g \in ThreeFormats /\ Text(t.channels["Receive"]) \in {1, 2}
        /\ Text(t.channels["Receive"]) = e
        /\ t.sampleRate.items = IF SpeexRead(t) THEN << 32000 >> ELSE <<32000, 48000>>
    BY <1>4, <1>9, <1>14, <1>15, <1>21, SameReads
  <2>3. /\ IsDialog(r) /\ SameEntries(t, r)
        /\ Checked(r, "Receive", g, 32000, Text(t.channels["Receive"]))
        /\ r.channels["Transmit"] = t.channels["Transmit"]
        /\ r.bitRate["Transmit"] = t.bitRate["Transmit"]
        /\ r.sampleRate = t.sampleRate
    BY <1>15, <2>1, <2>2, ReceiveChecked
  <2>4. RateLooked(s, t, "Receive", g, 32000, r)
    BY <1>15, <2>1, <2>2, ReceiveLooked
  <2>5. SaysSound(r, s, "Receive")
    <3>1. Looked(r.bitRate["Receive"], g, e, s.bitRate["Receive"])
      BY <1>12, <1>21, <2>2, <2>4 DEF RateLooked, Looked
    <3>2. Checked(r, "Receive", g, 32000, e)
      BY <2>2, <2>3
    <3>3. r.channels["Receive"].at = e /\ Text(r.bitRate["Receive"]) = s.bitRate["Receive"]
      BY <1>3, <1>21, <2>2, <3>1, <3>2, KeepsSound
    <3> QED
      BY <3>3 DEF SaysSound, e
  <2>6. SaysSound(r, s, "Transmit")
    BY <1>17, <2>3 DEF SaysSound
  <2>7. r.format["Transmit"] = f /\ r.format["Receive"] = g
    BY <1>19, <2>3 DEF SameEntries
  <2> QED
    BY <1>18, <1>21, <2>3, <2>5, <2>6, <2>7 DEF Says, SaysFormats, f, g
<1> QED
  BY <1>20, <1>21

LEMMA SameOpened ==
    ASSUME NEW r, NEW s, r.format = s.format, r.channels = s.channels,
           r.bitRate = s.bitRate, r.sampleRate = s.sampleRate, r.username = s.username,
           r.password = s.password, r.name = s.name
    PROVE  Opened(r) = Opened(s)
<1> DEFINE with(d, dir, format, sampleRate, stored) ==
              [d EXCEPT !.channels[dir] = Selected(Box(ChannelItems(format)), Text(d.channels[dir])),
                        !.bitRate[dir] = Selected(Box(BitRateItems(format, sampleRate,
                                                          Text(d.channels[dir]))), stored),
                        !.sampleRate = SampleRates(d, RateChoice(d, dir, format, sampleRate))]
           rates(q) == IF q.format["Transmit"] = "Speex" THEN << 32000 >> ELSE <<32000, 48000>>
           filled(q) == [NewDialog(q) EXCEPT
                           !.format["Transmit"] = FormatItem(q.format["Transmit"], FirstBuilt),
                           !.channels["Transmit"] =
                               Selected(Box(<<1, 2>>), q.channels["Transmit"]),
                           !.sampleRate = Selected(Box(rates(q)), q.sampleRate)]
           last(q, d) == [d EXCEPT
                !.format["Receive"] = FormatItem(q.format["Receive"], "NoFormat"),
                !.channels["Receive"] = Selected(Box(<<1, 2>>), q.channels["Receive"]),
                !.sampleRate.items = IF q.format["Receive"] = "Vorbis"
                                     THEN @ \o <<32000, 48000>> ELSE @]
           checked(q, d) == CheckSettings(q, d, "Transmit", q.format["Transmit"],
                                          Text(d.sampleRate))
<1>1. NewDialog(r) = NewDialog(s)
  BY DEF NewDialog
<1>2. \A d, dir, format, sampleRate :
        CheckSettings(r, d, dir, format, sampleRate) = CheckSettings(s, d, dir, format, sampleRate)
  <2> SUFFICES ASSUME NEW d, NEW dir, NEW format, NEW sampleRate
               PROVE  CheckSettings(r, d, dir, format, sampleRate)
                      = CheckSettings(s, d, dir, format, sampleRate)
    OBVIOUS
  <2>1. RateStored(r, dir, format) = RateStored(s, dir, format)
    BY DEF RateStored, AutoVector
  <2>2. \A q : CheckSettings(q, d, dir, format, sampleRate)
               = with(d, dir, format, sampleRate, RateStored(q, dir, format))
    BY DEF CheckSettings, RateStored
  <2> HIDE DEF with
  <2> QED
    BY <2>1, <2>2
<1>3. \A d : SettingsChanged(r, d) = SettingsChanged(s, d)
  BY <1>2, SMT DEF SettingsChanged
<1>4. filled(r) = filled(s)
  BY <1>1
<1>5. \A d : checked(r, d) = checked(s, d)
  BY <1>2
<1>6. \A d : last(r, d) = last(s, d)
  OBVIOUS
<1>7. \A q : Opened(q) = SettingsChanged(q, last(q, checked(q, filled(q))))
  BY DEF Opened
<1> HIDE DEF filled, checked, last
<1> QED
  BY <1>3, <1>4, <1>5, <1>6, <1>7

\* The dialog opens with formats that are compiled in
LEMMA OpenedBuilt ==
    ASSUME NEW s, SettingsFit(s)
    PROVE  BuiltFormats(Opened(s).format)
<1>1. PICK d : Opened(s) = SettingsChanged(s, d) /\ IsFilled(s, d)
  BY OpenedIs
<1>2. Ready(d) /\ FilledFormats(s, d)
  BY <1>1 DEF IsFilled, Filled
<1>3. BuiltFormats(d.format)
  BY <1>2, BuiltAre DEF FilledFormats, FormatItem, BuiltFormats
<1>4. SameEntries(d, Opened(s))
  BY <1>1, <1>2, SettingsChangedFits
<1> QED
  BY <1>3, <1>4 DEF SameEntries

\* What OK makes of them
Untouched(s) ==
    [s EXCEPT !.sampleRate = 32000,
              !.bitRate["Receive"] = IF s.format["Receive"] = "NoFormat" THEN 0 ELSE @]

LEMMA UntouchedIs ==
    ASSUME NEW s, IsSettings(s), NEW q, q = Untouched(s)
    PROVE  /\ Whole(q)
           /\ q.format = s.format /\ q.channels = s.channels /\ q.sampleRate = 32000
           /\ q.username = s.username /\ q.password = s.password /\ q.name = s.name
           /\ q.advanced = s.advanced /\ q.command = s.command /\ q.address = s.address
           /\ q.bitRate = Both(s.bitRate["Transmit"],
                               IF s.format["Receive"] = "NoFormat" THEN 0
                               ELSE s.bitRate["Receive"])
<1> DEFINE f == s.format
           c == s.channels
           b == s.bitRate
           r == s.sampleRate
           u == s.username
           p == s.password
           n == s.name
           a == s.advanced
           m == s.command
           h == s.address
           x == IF s.format["Receive"] = "NoFormat" THEN 0 ELSE s.bitRate["Receive"]
           b1 == [b EXCEPT !["Receive"] = x]
           rate == 32000
           s1 == [s EXCEPT !.sampleRate = rate]
<1>1. s = SettingsOf(f, c, b, r, u, p, n, a, m, h)
  BY DEF IsSettings, Whole
<1>2. q = [s1 EXCEPT !.bitRate["Receive"] = x]
  BY DEF Untouched
<1>3. b1 = Both(b["Transmit"], x)
  BY DEF IsSettings, Both, Directions
<1> HIDE DEF f, c, b, r, u, p, n, a, m, h, x, rate
<1>4. s1 = SettingsOf(f, c, b, rate, u, p, n, a, m, h)
  BY <1>1 DEF SettingsOf
<1> HIDE DEF s1
<1>5. q = SettingsOf(f, c, b1, rate, u, p, n, a, m, h)
  BY <1>2, <1>4 DEF SettingsOf
<1> HIDE DEF b1
<1>6. /\ Whole(q)
      /\ q.format = f /\ q.channels = c /\ q.bitRate = b1 /\ q.sampleRate = rate
      /\ q.username = u /\ q.password = p /\ q.name = n /\ q.advanced = a
      /\ q.command = m /\ q.address = h
  BY <1>5, FieldsOf
<1> QED
  BY <1>3, <1>6 DEF f, c, b, u, p, n, a, m, h, x, rate

LEMMA AcceptedUntouched ==
    ASSUME IsSettings(set), BuiltSettings(set), \A dir \in Directions : CanPlay(set, dir),
           dialog = Opened(set)
    PROVE  Accepted = Untouched(set)
<1> DEFINE r == Accepted
           q == Untouched(set)
<1>1. /\ Whole(q)
      /\ q.format = set.format /\ q.channels = set.channels /\ q.sampleRate = 32000
      /\ q.username = set.username /\ q.password = set.password /\ q.name = set.name
      /\ q.advanced = set.advanced /\ q.command = set.command /\ q.address = set.address
      /\ q.bitRate = Both(set.bitRate["Transmit"],
                          IF set.format["Receive"] = "NoFormat" THEN 0
                          ELSE set.bitRate["Receive"])
  BY UntouchedIs
<1>2. AcceptedAs(r)
  BY AcceptedWhole DEF IsSettings
<1> HIDE DEF r, q
<1>3. SettingsFit(set) /\ Whole(set)
  BY DEF IsSettings
<1>4. Says(dialog, set)
  BY <1>3, OpenedSays
<1>5. /\ dialog.username = set.username /\ dialog.password = set.password
      /\ dialog.name = set.name
  BY <1>3, OpenedFits
<1>6. r.format = set.format
  <2>1. /\ dialog.format["Transmit"] = set.format["Transmit"]
        /\ dialog.format["Receive"] = set.format["Receive"]
    BY <1>4 DEF Says, SaysFormats
  <2>2. /\ ReadFormat(dialog, "Transmit") = set.format["Transmit"]
        /\ ReadFormat(dialog, "Receive") = set.format["Receive"]
    BY <1>3, <2>1, FormatRead DEF SettingsFit, ThreeFormats, Directions
  <2> QED
    BY <1>2, <2>2 DEF AcceptedAs, IsSettings, Directions
<1>7. r.channels = set.channels
  <2>1. /\ dialog.channels["Transmit"].at = set.channels["Transmit"]
        /\ dialog.channels["Receive"].at = set.channels["Receive"]
    BY <1>4 DEF Says, SaysSound, SaysSilence
  <2> QED
    BY <1>2, <2>1 DEF AcceptedAs, IsSettings, Directions
<1>8. r.bitRate = q.bitRate
  <2>1. /\ Text(dialog.bitRate["Transmit"]) = set.bitRate["Transmit"]
        /\ Text(dialog.bitRate["Receive"]) = IF set.format["Receive"] = "NoFormat" THEN 0
                                             ELSE set.bitRate["Receive"]
    BY <1>4 DEF Says, SaysSound, SaysSilence
  <2> DEFINE x == IF set.format["Receive"] = "NoFormat" THEN 0 ELSE set.bitRate["Receive"]
  <2>2. q.bitRate = Both(set.bitRate["Transmit"], x)
    BY <1>1
  <2>3. r.bitRate = [dir \in Directions |-> Text(dialog.bitRate[dir])]
    BY <1>2 DEF AcceptedAs
  <2>4. Text(dialog.bitRate["Receive"]) = x
    BY <2>1
  <2> HIDE DEF x
  <2> QED
    BY <2>1, <2>2, <2>3, <2>4 DEF Both, Directions
<1>9. /\ Whole(r) /\ r.sampleRate = 32000
      /\ r.username = set.username /\ r.password = set.password /\ r.name = set.name
      /\ r.advanced = set.advanced /\ r.command = set.command /\ r.address = set.address
  BY <1>2, <1>4, <1>5 DEF AcceptedAs, Says
<1>10. r = q
  BY <1>1, <1>6, <1>7, <1>8, <1>9, SameSettings
<1> QED
  BY <1>10 DEF r, q

-----------------------------------------------------------------------------
\* What the disk says of the formats, and of the receiver's channels
RateThen(there) == Value(there, "BitRate", 48)
ReceiverRate(there) == Value(there, "ReceiveBitRate", 48)

FormatThere(there) ==
    \/ Value(there, "Format", "Speex") \in Built
    \/ /\ Value(there, "Format", "Speex") = "Speex"
       /\ RateThen(there) = 48 /\ ReceiverRate(there) = 48
ReceiverThere(there) ==
    \/ Value(there, "ReceiveFormat", "Speex") \in Built \union {"NoFormat"}
    \/ Value(there, "ReceiveFormat", "Speex") = "Speex" /\ ReceiverRate(there) = 48
BuiltThere(there) ==
    /\ FormatThere(there) /\ ReceiverThere(there)
    /\ Value(there, "ReceiveChannels", 1) \in {1, 2}

\* Settings for want of any stand beside bit rates for want of any on the disk
Linked(s, there) ==
    /\ s.format["Transmit"] \notin Built => RateThen(there) = 48 /\ ReceiverRate(there) = 48
    /\ s.format["Receive"] \notin Built \union {"NoFormat"} => ReceiverRate(there) = 48

LEMMA NothingBuilt == BuiltThere(<<>>) /\ \A s : Linked(s, <<>>)
<1> DEFINE there == <<>>
<1>1. \A tag, default : Value(there, tag, default) = default
  BY DEF Value
<1> HIDE DEF there
<1>3. RateThen(there) = 48 /\ ReceiverRate(there) = 48
  BY <1>1 DEF RateThen, ReceiverRate
<1>2. BuiltThere(there) /\ \A s : Linked(s, there)
  BY <1>1, <1>3 DEF BuiltThere, FormatThere, ReceiverThere, Linked
<1> QED
  BY <1>2 DEF there

LEMMA BuiltRead ==
    ASSUME NEW there, BuiltThere(there), NEW r, r = ReadConfig(there)
    PROVE  BuiltSettings(r) /\ Linked(r, there)
<1> DEFINE f1 == Value(there, "Format", "Speex")
           f2 == Value(there, "ReceiveFormat", "Speex")
           c1 == Value(there, "Channels", 1)
           c2 == Value(there, "ReceiveChannels", 1)
           b1 == Value(there, "BitRate", 48)
           b2 == Value(there, "ReceiveBitRate", 48)
<1>1. ReadBoxes(there, r)
  BY ReadIs
<1>2. r.format = Both(f1, f2) /\ r.channels = Both(c1, c2) /\ r.bitRate = Both(b1, b2)
  BY <1>1, Zenon DEF ReadBoxes
<1>3. /\ f1 \in Built \/ (f1 = "Speex" /\ b1 = 48 /\ b2 = 48)
      /\ f2 \in Built \union {"NoFormat"} \/ (f2 = "Speex" /\ b2 = 48)
      /\ c2 \in {1, 2}
  BY DEF BuiltThere, FormatThere, ReceiverThere, RateThen, ReceiverRate
<1>5. b1 = RateThen(there) /\ b2 = ReceiverRate(there)
  BY DEF RateThen, ReceiverRate
<1> HIDE DEF f1, f2, c1, c2, b1, b2
<1>4. /\ r.format["Transmit"] = f1 /\ r.format["Receive"] = f2 /\ r.channels["Receive"] = c2
      /\ r.bitRate["Transmit"] = b1 /\ r.bitRate["Receive"] = b2
  BY <1>2 DEF Both, Directions
<1>6. BuiltSettings(r)
  BY <1>3, <1>4 DEF BuiltSettings, DefaultOf
<1>7. Linked(r, there)
  BY <1>3, <1>4, <1>5 DEF Linked
<1> QED
  BY <1>6, <1>7

\* The bit rates keep what was there when the save reached neither of their lines ...
LEMMA RateTagKept ==
    ASSUME NEW s, NEW lines, SavedLines(s, lines), NEW n, NEW cut, SaveEnds(n, cut),
           n < 8, ~cut, NEW k \in {5, 8}, n < k,
           NEW there, NEW now, now = Stored(there, lines, n, cut)
    PROVE  /\ UnixTags[k] \in DOMAIN now <=> UnixTags[k] \in DOMAIN there
           /\ UnixTags[k] \in DOMAIN there => now[UnixTags[k]] = there[UnixTags[k]]
<1>1. \A j \in (1..14) \ {8} : lines[j][1] = UnixTags[j]
  BY DEF SavedLines, LinesAre
<1>4. n \in 0..7 /\ n \in Nat /\ cut \in BOOLEAN
  BY DEF SaveEnds
<1>2. ASSUME NEW j \in 1..n
      PROVE  lines[j][1] # UnixTags[k]
  <2>1. j \in (1..14) \ {8} /\ k \in 1..14 /\ j # k
    BY <1>4
  <2> QED
    BY <1>1, <2>1, TagsDiffer
<1>3. NotWritten(lines, n, cut, UnixTags[k])
  BY <1>2 DEF NotWritten
<1> QED
  BY <1>3, <1>4, StoredOther

\* ... and so does what is read of them
LEMMA SameValue ==
    ASSUME NEW there, NEW now, NEW tag, tag \in DOMAIN now <=> tag \in DOMAIN there,
           tag \in DOMAIN there => now[tag] = there[tag], NEW default
    PROVE  Value(now, tag, default) = Value(there, tag, default)
BY DEF Value

\* A bit rate on the disk is one that was there or one of the settings that were saved
LEMMA RateAmong ==
    ASSUME NEW s, NEW lines, SavedLines(s, lines), NEW n, NEW cut, SaveEnds(n, cut),
           NEW there, NEW now, now = Stored(there, lines, n, cut)
    PROVE  /\ RateThen(now) \in {RateThen(there), s.bitRate["Transmit"], s.bitRate["Receive"]}
           /\ ReceiverRate(now) \in {ReceiverRate(there), s.bitRate["Receive"]}
           /\ n < 5 => RateThen(now) = RateThen(there)
           /\ n < 8 => ReceiverRate(now) = ReceiverRate(there)
<1>1. /\ \A j \in (1..14) \ {8} : lines[j][1] = UnixTags[j]
      /\ lines[8][1] \in {"ReceiveBitRate", "BitRate"}
      /\ lines[5][2] = s.bitRate["Transmit"] /\ lines[8][2] = s.bitRate["Receive"]
      /\ n \in 0..14 /\ n \in Nat /\ cut \in BOOLEAN /\ (cut => n \in {12, 13})
      /\ UnixTags[8] = "ReceiveBitRate" /\ UnixTags[5] = "BitRate"
  BY DEF SavedLines, LinesAre, SaveEnds, UnixTags
<1>2. \A j \in (1..14) \ {8} : (j # 5 => lines[j][1] # "BitRate")
                               /\ lines[j][1] # "ReceiveBitRate"
  BY <1>1, TagsDiffer
<1>3. n < 5 => RateThen(now) = RateThen(there)
  <2>1. SUFFICES ASSUME n < 5 PROVE RateThen(now) = RateThen(there)
    OBVIOUS
  <2>2. ~cut /\ n < 8
    BY <1>1, <2>1
  <2>3. /\ "BitRate" \in DOMAIN now <=> "BitRate" \in DOMAIN there
        /\ "BitRate" \in DOMAIN there => now["BitRate"] = there["BitRate"]
    BY <1>1, <2>1, <2>2, RateTagKept
  <2> QED
    BY <2>3 DEF RateThen, Value
<1>4. n < 8 => ReceiverRate(now) = ReceiverRate(there)
  <2>1. SUFFICES ASSUME n < 8 PROVE ReceiverRate(now) = ReceiverRate(there)
    OBVIOUS
  <2>2. ~cut
    BY <1>1, <2>1
  <2>3. /\ "ReceiveBitRate" \in DOMAIN now <=> "ReceiveBitRate" \in DOMAIN there
        /\ "ReceiveBitRate" \in DOMAIN there
              => now["ReceiveBitRate"] = there["ReceiveBitRate"]
    BY <1>1, <2>1, <2>2, RateTagKept
  <2> QED
    BY <2>3 DEF ReceiverRate, Value
<1>5. ASSUME n >= 5
      PROVE  RateThen(now) \in {s.bitRate["Transmit"], s.bitRate["Receive"]}
  <2>1. \E k \in {5, 8} : WrittenLast(lines, n, cut, k, "BitRate")
    <3>1. CASE n >= 8 /\ lines[8][1] = "BitRate"
      <4>1. /\ 8 \in 1..n /\ \A j \in 9..n : j \in (1..14) \ {8} /\ j # 5
            /\ cut => n + 1 \in (1..14) \ {8} /\ n + 1 # 5
        BY <1>1, <3>1
      <4>2. WrittenLast(lines, n, cut, 8, "BitRate")
        BY <1>2, <3>1, <4>1 DEF WrittenLast
      <4> QED
        BY <4>2
    <3>2. CASE ~(n >= 8 /\ lines[8][1] = "BitRate")
      <4>1. /\ 5 \in 1..n /\ lines[5][1] = "BitRate"
            /\ \A j \in 6..n : j # 5 /\ (j \in (1..14) \ {8} \/ (j = 8 /\ n >= 8))
            /\ cut => n + 1 \in (1..14) \ {8} /\ n + 1 # 5
        BY <1>1, <1>5
      <4>2. WrittenLast(lines, n, cut, 5, "BitRate")
        BY <1>1, <1>2, <3>2, <4>1 DEF WrittenLast
      <4> QED
        BY <4>2
    <3> QED
      BY <3>1, <3>2
  <2>2. PICK k \in {5, 8} : WrittenLast(lines, n, cut, k, "BitRate")
    BY <2>1
  <2>3. "BitRate" \in DOMAIN now /\ now["BitRate"] = lines[k][2]
    BY <1>1, <2>2, StoredLine
  <2> QED
    BY <1>1, <2>3 DEF RateThen, Value
<1>6. ASSUME n >= 8
      PROVE  ReceiverRate(now) \in {ReceiverRate(there), s.bitRate["Receive"]}
  <2>0. /\ 8 \in 1..n /\ \A j \in 9..n : j \in (1..14) \ {8}
        /\ \A j \in 1..n : j = 8 \/ j \in (1..14) \ {8}
        /\ cut => n + 1 \in (1..14) \ {8}
    BY <1>1, <1>6
  <2>1. CASE lines[8][1] = "ReceiveBitRate"
    <3>1. WrittenLast(lines, n, cut, 8, "ReceiveBitRate")
      BY <1>2, <2>0, <2>1 DEF WrittenLast
    <3>2. "ReceiveBitRate" \in DOMAIN now /\ now["ReceiveBitRate"] = lines[8][2]
      BY <1>1, <3>1, StoredLine
    <3> QED
      BY <1>1, <3>2 DEF ReceiverRate, Value
  <2>2. CASE lines[8][1] = "BitRate"
    <3>1. NotWritten(lines, n, cut, "ReceiveBitRate")
      BY <1>2, <2>0, <2>2 DEF NotWritten
    <3>2. /\ "ReceiveBitRate" \in DOMAIN now <=> "ReceiveBitRate" \in DOMAIN there
          /\ "ReceiveBitRate" \in DOMAIN there
                => now["ReceiveBitRate"] = there["ReceiveBitRate"]
      BY <1>1, <3>1, StoredOther
    <3> QED
      BY <3>2 DEF ReceiverRate, Value
  <2> QED
    BY <1>1, <2>1, <2>2
<1> QED
  BY <1>1, <1>3, <1>4, <1>5, <1>6

\* What a save leaves, wherever it ends: formats that are compiled in, or none but for want
\* of any
LEMMA BuiltSaved ==
    ASSUME NEW s, BuiltSettings(s),
           NEW lines, SavedLines(s, lines), NEW n, NEW cut, SaveEnds(n, cut),
           NEW there, BuiltThere(there), Linked(s, there),
           NEW now, now = Stored(there, lines, n, cut)
    PROVE  BuiltThere(now) /\ Linked(s, now)
<1>1. n \in 0..14 /\ cut \in BOOLEAN /\ (cut => n \in {12, 13})
  BY DEF SaveEnds
<1>2. /\ UnixTags[2] = "Format" /\ UnixTags[5] = "BitRate" /\ UnixTags[6] = "ReceiveFormat"
      /\ UnixTags[7] = "ReceiveChannels" /\ UnixTags[8] = "ReceiveBitRate"
      /\ lines[2][2] = s.format["Transmit"] /\ lines[6][2] = s.format["Receive"]
      /\ lines[7][2] = s.channels["Receive"]
  BY DEF UnixTags, SavedLines, LinesAre
<1>3. ASSUME NEW k \in {2, 6, 7}, k <= n, NEW default
      PROVE  Value(now, UnixTags[k], default) = lines[k][2]
  <2>1. k \in (1..n) \ {5, 8}
    BY <1>1, <1>3
  <2>2. UnixTags[k] \in DOMAIN now /\ now[UnixTags[k]] = lines[k][2]
    BY <2>1, TagStored
  <2> QED
    BY <2>2, StoredValue
<1>4. ASSUME NEW k \in {2, 6, 7}, ~(k <= n), NEW default
      PROVE  Value(now, UnixTags[k], default) = Value(there, UnixTags[k], default)
  <2>1. k \in (n+1..14) \ {5, 8} /\ ~cut
    BY <1>1, <1>4
  <2>2. /\ UnixTags[k] \in DOMAIN now <=> UnixTags[k] \in DOMAIN there
        /\ UnixTags[k] \in DOMAIN there => now[UnixTags[k]] = there[UnixTags[k]]
    BY <2>1, TagKept
  <2> QED
    BY <2>2, SameValue
<1>5. /\ RateThen(now) \in {RateThen(there), s.bitRate["Transmit"], s.bitRate["Receive"]}
      /\ ReceiverRate(now) \in {ReceiverRate(there), s.bitRate["Receive"]}
      /\ n < 5 => RateThen(now) = RateThen(there)
      /\ n < 8 => ReceiverRate(now) = ReceiverRate(there)
  BY RateAmong
<1>9. Linked(s, now)
  BY <1>5 DEF Linked, BuiltSettings, DefaultOf
<1>6. FormatThere(now)
  <2>1. CASE 2 <= n
    <3>1. Value(now, "Format", "Speex") = s.format["Transmit"]
      BY <1>2, <1>3, <2>1
    <3> QED
      BY <1>9, <3>1 DEF FormatThere, BuiltSettings, DefaultOf, Linked
  <2>2. CASE ~(2 <= n)
    <3>1. Value(now, "Format", "Speex") = Value(there, "Format", "Speex")
      BY <1>2, <1>4, <2>2
    <3>2. n < 5 /\ n < 8
      BY <1>1, <2>2
    <3> QED
      BY <1>5, <3>1, <3>2 DEF BuiltThere, FormatThere
  <2> QED
    BY <2>1, <2>2
<1>7. ReceiverThere(now)
  <2>1. CASE 6 <= n
    <3>1. Value(now, "ReceiveFormat", "Speex") = s.format["Receive"]
      BY <1>2, <1>3, <2>1
    <3> QED
      BY <1>9, <3>1 DEF ReceiverThere, BuiltSettings, DefaultOf, Linked
  <2>2. CASE ~(6 <= n)
    <3>1. Value(now, "ReceiveFormat", "Speex") = Value(there, "ReceiveFormat", "Speex")
      BY <1>2, <1>4, <2>2
    <3>2. n < 8
      BY <1>1, <2>2
    <3> QED
      BY <1>5, <3>1, <3>2 DEF BuiltThere, ReceiverThere
  <2> QED
    BY <2>1, <2>2
<1>8. Value(now, "ReceiveChannels", 1) \in {1, 2}
  BY <1>2, <1>3, <1>4 DEF BuiltThere, BuiltSettings
<1> QED
  BY <1>6, <1>7, <1>8, <1>9 DEF BuiltThere

-----------------------------------------------------------------------------
\* A dialog nobody touched says what it was opened with, and only formats that are
\* compiled in are chosen, saved and read
DiskBuilt == BuiltThere(disk)
SetBuilt == up => BuiltSettings(set) /\ Linked(set, disk)
DialogBuilt ==
    dialog # Closed => /\ BuiltFormats(dialog.format)
                       /\ ~dialog.touched => dialog = Opened(set)
UntouchedInv == saves \in Nat /\ DiskBuilt /\ SetBuilt /\ DialogBuilt

LEMMA UntouchedInit ==
    ASSUME Init
    PROVE  UntouchedInv
BY NothingBuilt DEF Init, UntouchedInv, DiskBuilt, SetBuilt, DialogBuilt

\* Steps that touch the dialog
DialogTouched ==
    /\ UNCHANGED <<up, set, disk, saves>>
    /\ BuiltFormats(dialog'.format) /\ dialog'.touched = TRUE

LEMMA TouchedUntouched == UntouchedInv /\ DialogTouched => UntouchedInv'
BY DEF UntouchedInv, DialogTouched, DiskBuilt, SetBuilt, DialogBuilt

LEMMA StartUntouched ==
    ASSUME SettingsInv, UntouchedInv, Start
    PROVE  UntouchedInv'
<1>1. /\ set' = ReadConfig(disk)
      /\ dialog' = Closed \/ dialog' = Opened(set')
      /\ UNCHANGED <<disk, saves>> /\ saves \in Nat /\ DiskBuilt
  BY DEF Start, UntouchedInv
<1>2. BuiltSettings(set') /\ Linked(set', disk)
  BY <1>1, BuiltRead DEF DiskBuilt
<1>3. SettingsFit(set')
  <2>1. IsSettings(set')
    BY <1>1, DiskReads DEF SettingsInv, DiskInv
  <2> QED
    BY <2>1 DEF IsSettings
<1>4. BuiltFormats(Opened(set').format)
  BY <1>3, OpenedBuilt
<1>5. DialogBuilt'
  BY <1>1, <1>4 DEF DialogBuilt
<1>6. DiskBuilt' /\ SetBuilt'
  BY <1>1, <1>2 DEF DiskBuilt, SetBuilt
<1> QED
  BY <1>1, <1>5, <1>6 DEF UntouchedInv

LEMMA ClickedUntouched ==
    ASSUME SettingsInv, UntouchedInv, SettingsClicked
    PROVE  UntouchedInv'
<1>1. dialog' = Opened(set) /\ UNCHANGED <<up, set, disk, saves>>
  BY DEF SettingsClicked
<1>2. SettingsFit(set)
  BY DEF SettingsInv, StateInv, IsSettings
<1>3. DialogBuilt'
  BY <1>1, <1>2, OpenedBuilt DEF DialogBuilt
<1> QED
  BY <1>1, <1>3 DEF UntouchedInv, DiskBuilt, SetBuilt

LEMMA ClosedUntouched ==
    ASSUME UntouchedInv, Stop \/ Cancel
    PROVE  UntouchedInv'
<1>1. dialog' = Closed /\ (up' => up) /\ UNCHANGED <<set, disk, saves>>
  BY DEF Stop, Down, Cancel, IsOpen
<1> QED
  BY <1>1 DEF UntouchedInv, DiskBuilt, SetBuilt, DialogBuilt

LEMMA ActivateUntouched ==
    ASSUME SettingsInv, UntouchedInv, Activate
    PROVE  UntouchedInv'
<1>1. /\ IsOpen /\ UNCHANGED <<up, set, disk, saves>>
  BY DEF Activate, Touch
<1>2. /\ DialogFits(dialog) /\ BuiltFormats(dialog.format)
  BY <1>1, OpenIs DEF UntouchedInv, DialogBuilt
<1> DEFINE may(d) ==
              \/ \E f \in Built : d = FormatChosen(dialog, "Transmit", f)
              \/ \E f \in Built \union {"NoFormat"} : d = FormatChosen(dialog, "Receive", f)
              \/ \E dir \in Directions : \E i \in DOMAIN dialog.channels[dir].items :
                    d = ChannelsChosen(dialog, dir, i)
              \/ \E i \in DOMAIN dialog.sampleRate.items : d = SampleRateChosen(dialog, i)
           touched(d) == [SettingsChanged(set, d) EXCEPT !.touched = TRUE]
<1>3. PICK d : may(d) /\ dialog' = touched(d)
  BY Zenon DEF Activate, Directions, FormatChosen, ChannelsChosen, SampleRateChosen
<1> HIDE DEF touched
<1>4. Ready(d) /\ BuiltFormats(d.format)
  <2>1. Built \subseteq ThreeFormats /\ "Transmit" \in Directions /\ "Receive" \in Directions
    BY BuiltAre DEF Directions
  <2>2. ASSUME NEW f \in Built, d = FormatChosen(dialog, "Transmit", f)
        PROVE  Ready(d) /\ BuiltFormats(d.format)
    <3>1. Ready(d)
      BY <1>2, <2>1, <2>2, FormatChosenReady
    <3>2. d.format["Transmit"] = f /\ d.format["Receive"] = dialog.format["Receive"]
      BY <1>2, <2>1, <2>2, FormatChosenIs
    <3> QED
      BY <1>2, <3>1, <3>2 DEF BuiltFormats
  <2>3. ASSUME NEW f \in Built \union {"NoFormat"}, d = FormatChosen(dialog, "Receive", f)
        PROVE  Ready(d) /\ BuiltFormats(d.format)
    <3>1. Ready(d)
      BY <1>2, <2>1, <2>3, FormatChosenReady
    <3>2. d.format["Receive"] = f /\ d.format["Transmit"] = dialog.format["Transmit"]
      BY <1>2, <2>1, <2>3, FormatChosenIs
    <3> QED
      BY <1>2, <3>1, <3>2 DEF BuiltFormats
  <2>4. ASSUME NEW dir \in Directions, NEW i \in DOMAIN dialog.channels[dir].items,
               d = ChannelsChosen(dialog, dir, i)
        PROVE  Ready(d) /\ BuiltFormats(d.format)
    BY <1>2, <2>4, ChannelsChosenReady
  <2>5. ASSUME NEW i \in DOMAIN dialog.sampleRate.items, d = SampleRateChosen(dialog, i)
        PROVE  Ready(d) /\ BuiltFormats(d.format)
    BY <1>2, <2>5, SampleRateChosenReady
  <2> QED
    BY <1>3, <2>2, <2>3, <2>4, <2>5
<1> HIDE DEF may
<1>5. DialogFits(SettingsChanged(set, d)) /\ SameEntries(d, SettingsChanged(set, d))
  BY <1>4, SettingsChangedFits
<1>6. DialogTouched
  <2> DEFINE r == SettingsChanged(set, d)
  <2>1. dialog' = [r EXCEPT !.touched = TRUE]
    BY <1>3 DEF touched
  <2>2. DialogFits(r) /\ BuiltFormats(r.format)
    BY <1>4, <1>5 DEF SameEntries
  <2> HIDE DEF r
  <2>3. dialog'.format = r.format /\ dialog'.touched = TRUE
    BY <2>1, <2>2, TouchedFits
  <2> QED
    BY <1>1, <2>2, <2>3 DEF DialogTouched
<1> QED
  BY <1>6, TouchedUntouched

LEMMA EntryUntouched ==
    ASSUME SettingsInv, UntouchedInv, ChooseBitRate \/ Type
    PROVE  UntouchedInv'
<1>1. /\ IsOpen /\ UNCHANGED <<up, set, disk, saves>>
  BY DEF ChooseBitRate, Type, Touch
<1>2. DialogFits(dialog) /\ BuiltFormats(dialog.format)
  BY <1>1, OpenIs DEF UntouchedInv, DialogBuilt
<1>3. ASSUME ChooseBitRate
      PROVE  dialog'.format = dialog.format /\ dialog'.touched = TRUE
  <2>6. PICK dir \in Directions :
           /\ dir = "Receive" => dialog.format[dir] # "NoFormat"
           /\ \E i \in {1, Len(dialog.bitRate[dir].items)} \ {0} :
              dialog' = RateChosen(dialog, dir, i)
    BY <1>3 DEF ChooseBitRate, RateChosen
  <2>3. PICK i \in {1, Len(dialog.bitRate[dir].items)} \ {0} :
           dialog' = RateChosen(dialog, dir, i)
    BY <2>6
  <2>4. i \in DOMAIN dialog.bitRate[dir].items
    BY <1>2, <2>3, <2>6, FirstOrLast
  <2> QED
    BY <1>2, <2>3, <2>4, RateChosenFits
<1>4. ASSUME Type
      PROVE  dialog'.format = dialog.format /\ dialog'.touched = TRUE
  <2>1. \/ \E l \in Logins : dialog' = TypedLogin(dialog, l)
        \/ \E n \in Names : dialog' = TypedName(dialog, n)
    BY <1>4 DEF Type, TypedLogin, TypedName
  <2>2. ASSUME NEW l \in Logins, dialog' = TypedLogin(dialog, l)
        PROVE  dialog'.format = dialog.format /\ dialog'.touched = TRUE
    BY <1>2, <2>2, LoginTyped
  <2>3. ASSUME NEW n \in Names, dialog' = TypedName(dialog, n)
        PROVE  dialog'.format = dialog.format /\ dialog'.touched = TRUE
    BY <1>2, <2>3, NameTyped
  <2> QED
    BY <2>1, <2>2, <2>3
<1> QED
  BY <1>1, <1>2, <1>3, <1>4, TouchedUntouched DEF DialogTouched

LEMMA AdvancedUntouched ==
    ASSUME SettingsInv, UntouchedInv, NEW texts, AdvancedOk(texts)
    PROVE  UntouchedInv'
<1>1. /\ UNCHANGED <<up, disk, saves, dialog>> /\ set' = Advanced(texts)
  BY DEF AdvancedOk, Touch, Advanced
<1>2. /\ set'.format = set.format /\ set'.channels = set.channels
      /\ set'.bitRate = set.bitRate /\ set'.sampleRate = set.sampleRate
      /\ set'.username = set.username /\ set'.password = set.password
      /\ set'.name = set.name
  BY <1>1, AdvancedWhole DEF SettingsInv, StateInv
<1>3. Opened(set') = Opened(set)
  BY <1>2, SameOpened
<1>4. /\ BuiltSettings(set) => BuiltSettings(set')
      /\ Linked(set, disk) => Linked(set', disk)
  BY <1>2 DEF BuiltSettings, DefaultOf, Linked
<1> QED
  BY <1>1, <1>3, <1>4 DEF UntouchedInv, DiskBuilt, SetBuilt, DialogBuilt

\* What is accepted are formats that are compiled in
LEMMA AcceptedBuilt ==
    ASSUME SettingsInv, UntouchedInv, IsOpen
    PROVE  /\ BuiltFormats(Accepted.format) /\ Accepted.channels["Receive"] \in {1, 2}
           /\ BuiltSettings(Accepted) /\ \A there : Linked(Accepted, there)
<1>1. DialogFits(dialog) /\ BuiltFormats(dialog.format) /\ Ready(dialog)
  BY OpenIs DEF UntouchedInv, DialogBuilt, DialogFits
<1>2. AcceptedAs(Accepted)
  BY AcceptedWhole DEF SettingsInv, StateInv, IsSettings
<1>3. /\ ReadFormat(dialog, "Transmit") = dialog.format["Transmit"]
      /\ ReadFormat(dialog, "Receive") = dialog.format["Receive"]
  BY <1>1, FormatRead DEF Ready, ThreeFormats, Directions
<1>4. dialog.channels["Receive"].at \in {1, 2}
  BY <1>1, ChannelText DEF Ready, Directions
<1>5. BuiltFormats(Accepted.format)
  <2>1. Accepted.format = [dir \in Directions |-> ReadFormat(dialog, dir)]
    BY <1>2 DEF AcceptedAs
  <2> QED
    BY <1>1, <1>3, <2>1 DEF BuiltFormats, Directions
<1>6. Accepted.channels["Receive"] \in {1, 2}
  <2>1. Accepted.channels = [dir \in Directions |-> dialog.channels[dir].at]
    BY <1>2 DEF AcceptedAs
  <2> QED
    BY <1>4, <2>1 DEF Directions
<1> DEFINE r == Accepted
<1> HIDE DEF r
<1>7. BuiltFormats(r.format) /\ r.channels["Receive"] \in {1, 2}
  BY <1>5, <1>6 DEF r
<1>8. BuiltSettings(r) /\ \A there : Linked(r, there)
  BY <1>7 DEF BuiltSettings, BuiltFormats, Linked
<1> QED
  BY <1>7, <1>8 DEF r

LEMMA LeftBuilt ==
    ASSUME SettingsInv, UntouchedInv, Left
    PROVE  BuiltSettings(set') /\ Linked(set', Before) /\ Linked(set', disk)
<1>1. CASE set' = Accepted
  BY <1>1, AcceptedBuilt DEF Left
<1>2. CASE set' = set
  BY <1>2, NothingBuilt DEF Left, IsOpen, UntouchedInv, SetBuilt, Before
<1> QED
  BY <1>1, <1>2 DEF Left

LEMMA SaveUntouched ==
    ASSUME SettingsInv, UntouchedInv, OkData \/ Reject
    PROVE  UntouchedInv'
<1>1. Saves /\ Left
  BY DEF OkData, Reject, Left
<1>2. system' = system /\ dialog' = Closed /\ saves' = saves + 1 /\ Ending
  BY <1>1, SavesDo
<1>3. /\ BuiltSettings(set') /\ Linked(set', Before) /\ Linked(set', disk)
      /\ system \in {"unix", "windows"}
  BY <1>1, LeftBuilt, SetLeft
<1>4. BuiltThere(Before) /\ BuiltThere(disk)
  BY NothingBuilt DEF Before, UntouchedInv, DiskBuilt
<1>5. ASSUME NEW n, NEW cut, SaveEnds(n, cut), Writes(n, cut)
      PROVE  BuiltThere(disk') /\ Linked(set', disk')
  <2> DEFINE s == set'
             lines == Lines(s)
             there == Before
             now == disk'
  <2>1. SavedLines(s, lines)
    <3> HIDE DEF lines, s
    <3>1. lines = Lines(s)
      BY DEF lines
    <3> QED
      BY <3>1, LinesSaved
  <2>2. /\ BuiltSettings(s) /\ BuiltThere(there) /\ Linked(s, there)
        /\ now = Stored(there, lines, n, cut)
    BY <1>3, <1>4, <1>5 DEF Writes
  <2> HIDE DEF s, lines, there, now
  <2>3. BuiltThere(now) /\ Linked(s, now)
    BY <1>5, <2>1, <2>2, BuiltSaved
  <2> QED
    BY <2>3 DEF now, s
<1>6. BuiltThere(disk') /\ Linked(set', disk')
  <2>1. CASE WriteConfig
    BY <1>3, <1>5, <2>1, WholeWrites
  <2>2. CASE \E n \in 0..13 : WriteConfigCut(n)
    <3>1. PICK n \in 0..13 : WriteConfigCut(n)
      BY <2>2
    <3>2. PICK cut \in BOOLEAN : Writes(n, cut) /\ SaveEnds(n, cut)
      BY <1>3, <3>1, CutWrites
    <3> QED
      BY <1>5, <3>2
  <2>3. CASE disk' = disk
    BY <1>3, <1>4, <2>3
  <2> QED
    BY <1>2, <2>1, <2>2, <2>3 DEF Ending
<1>7. DiskBuilt' /\ SetBuilt' /\ DialogBuilt'
  BY <1>2, <1>3, <1>6 DEF DiskBuilt, SetBuilt, DialogBuilt
<1> QED
  BY <1>2, <1>7 DEF UntouchedInv

LEMMA UntouchedNext == SettingsInv /\ UntouchedInv /\ [Next]_vars => UntouchedInv'
<1> SUFFICES ASSUME SettingsInv, UntouchedInv, [Next]_vars
             PROVE  UntouchedInv'
  OBVIOUS
<1>1. CASE Start \/ SettingsClicked
  BY <1>1, StartUntouched, ClickedUntouched
<1>2. CASE Stop \/ Cancel
  BY <1>2, ClosedUntouched
<1>3. CASE Activate \/ ChooseBitRate \/ Type
  BY <1>3, ActivateUntouched, EntryUntouched
<1>4. CASE \E off, on \in Texts : AdvancedOk(<<off, on>>)
  BY <1>4, AdvancedUntouched
<1>5. CASE OkData \/ Reject
  BY <1>5, SaveUntouched
<1>6. CASE UNCHANGED vars
  BY <1>6 DEF vars, UntouchedInv, DiskBuilt, SetBuilt, DialogBuilt
<1> QED
  BY <1>1, <1>2, <1>3, <1>4, <1>5, <1>6 DEF Next

\* A save of a dialog nobody touched
OkStep ==
    /\ IsOpen /\ ~dialog.touched /\ saves' > saves
    /\ \A dir \in Directions : CanPlay(set, dir)

LEMMA OkStepKeeps ==
    ASSUME SettingsInv, UntouchedInv, Next, OkStep
    PROVE  set' \in {set, Untouched(set)}
<1>1. IsOpen /\ ~dialog.touched /\ saves' > saves /\ saves \in Nat
      /\ \A dir \in Directions : CanPlay(set, dir)
  BY DEF OkStep, UntouchedInv
<1>2. saves' # saves
  BY <1>1
<1>3. set' \in {set, Accepted}
  <2>1. OkData \/ Reject
    BY <1>2 DEF Next, Start, Stop, SettingsClicked, Activate, ChooseBitRate, Type,
                AdvancedOk, Touch, Cancel
  <2> QED
    BY <2>1 DEF OkData, Reject
<1>4. dialog = Opened(set) /\ BuiltSettings(set) /\ IsSettings(set)
  BY <1>1 DEF UntouchedInv, DialogBuilt, SetBuilt, IsOpen, SettingsInv, StateInv
<1> QED
  BY <1>1, <1>3, <1>4, AcceptedUntouched

\* OK with nothing changed keeps settings that can be played, except that the sample rate
\* becomes 32000 and the bit rate of a receiver without a format 0, and closing it keeps
\* all, for every set of formats that is compiled in, wherever earlier saves were cut (OkKeeps,
\* audiosettings_dialog.cpp:419-428, 1057-1069).
THEOREM OkKeepsSettings == Spec => OkKeeps
<1>1. Init => UntouchedInv
  BY UntouchedInit
<1>2. SettingsInv /\ UntouchedInv /\ [Next]_vars
        => [ /\ IsOpen /\ ~dialog.touched /\ saves' > saves
             /\ \A dir \in Directions : CanPlay(set, dir)
             => set' \in {set,
                          [set EXCEPT !.sampleRate = 32000,
                                      !.bitRate["Receive"] =
                                          IF set.format["Receive"] = "NoFormat" THEN 0
                                          ELSE @]} ]_vars
  BY OkStepKeeps DEF OkStep, Untouched
<1> QED
  BY <1>1, <1>2, UntouchedNext, AlwaysSettingsInv, PTL DEF Spec, OkKeeps

=============================================================================
