----------------------------- MODULE Rtcp_proofs -----------------------------
(***************************************************************************)
(* A report of a codec arrives as it was written, for a name of any bytes   *)
(* and length, any mask and any numbers: from the bits of a header over     *)
(* the words of a report to the packet and its readers.                    *)
(***************************************************************************)
EXTENDS Rtcp, SequenceTheorems, WellFoundedInduction, TLAPS

-----------------------------------------------------------------------------
(* Induction, and the bytes of a row of words *)

\* A set of numbers that is not empty has a least one
LEMMA Least ==
    ASSUME NEW T \in SUBSET Nat, T # {}
    PROVE  \E x \in T : \A y \in T : x <= y
<1>1. PICK x \in T : \A y \in T : ~ (<< y, x >> \in OpToRel(<, Nat))
  BY NatLessThanWellFounded, WFMin
<1>2. \A y \in T : ~(y < x)
  BY <1>1 DEF OpToRel
<1> QED BY <1>2

\* Induction on a set of numbers
LEMMA SetInduction ==
    ASSUME NEW T, 0 \in T, \A n \in Nat : n \in T => n + 1 \in T
    PROVE  Nat \subseteq T
<1> SUFFICES ASSUME Nat \ T # {} PROVE FALSE
  OBVIOUS
<1>1. PICK x \in Nat \ T : \A y \in Nat \ T : x <= y
  BY Least
<1>2. x - 1 \in Nat /\ x - 1 \notin Nat \ T
  BY <1>1
<1> QED BY <1>1, <1>2

\* The most words a header tells
MaxWords == 256 * 256

\* What a header says is read again
LEMMA HeaderReads ==
    ASSUME NEW count \in 0..31, NEW pt \in Byte, NEW words \in 1..MaxWords
    PROVE  /\ Header(count, pt, words) \in Word /\ Version(Header(count, pt, words)) = 2
           /\ Count(Header(count, pt, words)) = count
           /\ PacketType(Header(count, pt, words)) = pt
           /\ Size(Header(count, pt, words)) = words
<1> DEFINE h == Header(count, pt, words)
           a == 2 * 64 + (count % 32)
           hi == (words - 1) \div 256
           lo == (words - 1) % 256
<1>0. words \in Nat
  BY DEF MaxWords
<1>1. a \in Byte /\ a \div 64 = 2 /\ a % 32 = count
  <2>1. count % 32 = count
    OBVIOUS
  <2>2. (128 + count) \div 64 = 2
    OBVIOUS
  <2>3. (128 + count) % 32 = count
    OBVIOUS
  <2> QED BY <2>1, <2>2, <2>3 DEF Byte
<1>2. hi \in Byte /\ lo \in Byte /\ 256 * hi + lo + 1 = words
  <2> DEFINE x == words - 1
  <2>1. x \in Nat /\ x <= 65535
    BY DEF MaxWords
  <2> HIDE DEF x
  <2>2. /\ x = 256 * (x \div 256) + (x % 256) /\ x % 256 \in 0..255 /\ x \div 256 \in Nat
    BY <2>1
  <2>3. x \div 256 <= 255
    BY <2>1, <2>2
  <2> QED BY <1>0, <2>2, <2>3 DEF x, Byte
<1>3. h = << a, pt, hi, lo >>
  BY DEF Header
<1> HIDE DEF a, hi, lo
<1>4. h \in Word
  BY <1>1, <1>2, <1>3 DEF Word
<1>5. h[1] = a /\ h[2] = pt /\ h[3] = hi /\ h[4] = lo
  BY <1>3
<1> HIDE DEF h
<1> QED BY <1>1, <1>2, <1>4, <1>5 DEF Version, Count, PacketType, Size, h

\* FlattenSeq of one part
LEMMA FlattenOne ==
    ASSUME NEW A, NEW q \in Seq(A), Len(q) = 1
    PROVE  FlattenSeq(q) = q[1]
<1> DEFINE P(f) == f = [i \in 1..Len(q) |-> IF i = 1 THEN q[i] ELSE f[i - 1] \o q[i]]
           g == [i \in 1..1 |-> q[1]]
<1>1. FlattenSeq(q) = (CHOOSE f : P(f))[Len(q)]
  BY DEF FlattenSeq
<1>2. P(g)
  <2>1. \A i \in 1..1 : g[i] = IF i = 1 THEN q[i] ELSE g[i - 1] \o q[i]
    OBVIOUS
  <2> QED BY <2>1
<1>3. P(CHOOSE f : P(f))
  <2> HIDE DEF P
  <2> QED BY <1>2
<1> QED BY <1>1, <1>3

\* FlattenSeq of two parts
LEMMA FlattenTwo ==
    ASSUME NEW A, NEW q \in Seq(A), Len(q) = 2
    PROVE  FlattenSeq(q) = q[1] \o q[2]
<1> DEFINE P(f) == f = [i \in 1..Len(q) |-> IF i = 1 THEN q[i] ELSE f[i - 1] \o q[i]]
           g == [i \in 1..2 |-> IF i = 1 THEN q[1] ELSE q[1] \o q[2]]
<1>1. FlattenSeq(q) = (CHOOSE f : P(f))[Len(q)]
  BY DEF FlattenSeq
<1>2. P(g)
  <2>1. g[1] = q[1] /\ g[2] = q[1] \o q[2]
    OBVIOUS
  <2>2. \A i \in 1..2 : g[i] = IF i = 1 THEN q[i] ELSE g[i - 1] \o q[i]
    BY <2>1
  <2> QED BY <2>2
<1>3. P(CHOOSE f : P(f))
  <2> HIDE DEF P
  <2> QED BY <1>2
<1> DEFINE f == CHOOSE f : P(f)
<1>4. f[1] = q[1] /\ f[2] = f[1] \o q[2]
  <2> HIDE DEF f
  <2> SUFFICES ASSUME P(f) PROVE f[1] = q[1] /\ f[2] = f[1] \o q[2]
    BY <1>3 DEF f
  <2> QED OBVIOUS
<1> QED BY <1>1, <1>4

\* A function from the first numbers is a sequence
LEMMA FunctionIsSeq ==
    ASSUME NEW S, NEW n \in Nat, NEW w \in [1..n -> S]
    PROVE  w \in Seq(S) /\ Len(w) = n
<1>1. w \in Seq(S)
  BY SeqDef, Zenon
<1>2. DOMAIN w = 1..n /\ DOMAIN w = 1..Len(w) /\ Len(w) \in Nat
  BY <1>1, LenProperties
<1> QED BY <1>1, <1>2

\* A word is a sequence of four bytes
LEMMA WordIs ==
    ASSUME NEW w \in Word
    PROVE  w \in [1..4 -> Byte] /\ w \in Seq(Byte) /\ Len(w) = 4
<1>1. w \in [1..4 -> Byte]
  BY DEF Word
<1> QED BY <1>1, FunctionIsSeq

\* The bytes of a row of words
LEMMA FlattenWords ==
    ASSUME NEW ws \in Seq(Word), Len(ws) # 0
    PROVE  /\ FlattenSeq(ws) \in Seq(Byte) /\ Len(FlattenSeq(ws)) = 4 * Len(ws)
           /\ \A w \in 1..Len(ws), b \in 1..4 : FlattenSeq(ws)[4 * (w - 1) + b] = ws[w][b]
<1> DEFINE n == Len(ws)
           Q(f, m) == f = [i \in 1..m |-> IF i = 1 THEN ws[i] ELSE f[i - 1] \o ws[i]]
<1>1. n \in Nat /\ n >= 1
  OBVIOUS
<1>2. FlattenSeq(ws) = (CHOOSE f : Q(f, n))[n]
  BY DEF FlattenSeq
<1>3. \E f : Q(f, n)
  <2> DEFINE T == {m \in Nat : \E f : Q(f, m)}
  <2>1. 0 \in T
    <3>1. Q([i \in 1..0 |-> 0], 0)
      OBVIOUS
    <3> QED BY <3>1
  <2>2. ASSUME NEW m \in Nat, m \in T PROVE m + 1 \in T
    <3>1. PICK f : Q(f, m)
      BY <2>2
    <3> DEFINE g == [i \in 1..(m + 1) |->
                       IF i <= m THEN f[i] ELSE IF i = 1 THEN ws[i] ELSE f[m] \o ws[i]]
    <3>2. ASSUME NEW i \in 1..(m + 1)
          PROVE  g[i] = IF i = 1 THEN ws[i] ELSE g[i - 1] \o ws[i]
      <4>1. CASE i <= m
        <5>1. i \in 1..m
          BY <4>1
        <5>3. f[i] = IF i = 1 THEN ws[i] ELSE f[i - 1] \o ws[i]
          BY <3>1, <5>1
        <5>2. i # 1 => g[i - 1] = f[i - 1]
          BY <4>1
        <5> QED BY <4>1, <5>2, <5>3
      <4>2. CASE i = m + 1
        <5>1. i # 1 => g[i - 1] = f[m]
          BY <4>2
        <5> QED BY <4>2, <5>1
      <4> QED BY <4>1, <4>2
    <3>3. Q(g, m + 1)
      <4>1. g = [i \in 1..(m + 1) |-> g[i]]
        OBVIOUS
      <4> HIDE DEF g
      <4> QED BY <3>2, <4>1
    <3> HIDE DEF Q
    <3> QED BY <3>3
  <2> HIDE DEF T
  <2>3. n \in T
    BY <1>1, <2>1, <2>2, SetInduction
  <2> QED BY <2>3 DEF T
<1>4. PICK f : FlattenSeq(ws) = f[n] /\ Q(f, n)
  <2> DEFINE f == CHOOSE f : Q(f, n)
  <2>1. Q(f, n)
    <3> HIDE DEF Q
    <3> QED BY <1>3
  <2> QED BY <1>2, <2>1
<1>5. /\ f[1] = ws[1]
      /\ \A i \in 1..(n - 1) : f[i + 1] = f[i] \o ws[i + 1]
  <2>1. \A i \in 1..n : f[i] = IF i = 1 THEN ws[i] ELSE f[i - 1] \o ws[i]
    BY <1>4
  <2>2. ASSUME NEW i \in 1..(n - 1) PROVE f[i + 1] = f[i] \o ws[i + 1]
    <3>1. i + 1 \in 1..n /\ i + 1 # 1 /\ (i + 1) - 1 = i
      BY <1>1
    <3> QED BY <2>1, <3>1
  <2>3. f[1] = ws[1]
    BY <1>1, <2>1
  <2> HIDE DEF Q
  <2> QED BY <2>2, <2>3
<1> DEFINE Right(q, m) == /\ q \in Seq(Byte) /\ Len(q) = 4 * m
                          /\ \A w \in 1..m, b \in 1..4 : q[4 * (w - 1) + b] = ws[w][b]
           T == {m \in Nat : m + 1 <= n => Right(f[m + 1], m + 1)}
<1>6. \A w \in 1..n : ws[w] \in [1..4 -> Byte] /\ ws[w] \in Seq(Byte) /\ Len(ws[w]) = 4
  <2> SUFFICES ASSUME NEW w \in 1..n
               PROVE  ws[w] \in [1..4 -> Byte] /\ ws[w] \in Seq(Byte) /\ Len(ws[w]) = 4
    OBVIOUS
  <2>1. ws[w] \in Word
    OBVIOUS
  <2> QED BY <2>1, WordIs
<1>7. 0 \in T
  <2>1. Right(ws[1], 1)
    BY <1>1, <1>6
  <2> HIDE DEF Right
  <2> QED BY <1>5, <2>1
<1>8. ASSUME NEW m \in Nat, m \in T PROVE m + 1 \in T
  <2> SUFFICES ASSUME m + 2 <= n PROVE Right(f[m + 2], m + 2)
    BY DEF T
  <2>1. Right(f[m + 1], m + 1) /\ f[m + 2] = f[m + 1] \o ws[m + 2]
    <3> HIDE DEF Right
    <3>1. m + 1 <= n /\ m + 1 \in 1..(n - 1) /\ (m + 1) + 1 = m + 2
      BY <1>1
    <3> QED BY <1>5, <1>8, <3>1
  <2> DEFINE q == f[m + 1]
             v == ws[m + 2]
  <2>2. /\ q \in Seq(Byte) /\ Len(q) = 4 * (m + 1) /\ v \in Seq(Byte) /\ Len(v) = 4
        /\ f[m + 2] = q \o v
    BY <1>6, <2>1
  <2>3. \A w \in 1..(m + 1), b \in 1..4 : q[4 * (w - 1) + b] = ws[w][b]
    BY <2>1
  <2> HIDE DEF q
  <2>4. ASSUME NEW w \in 1..(m + 2), NEW b \in 1..4
        PROVE  (q \o v)[4 * (w - 1) + b] = ws[w][b]
    <3>1. CASE w = m + 2
      <4>1. 4 * (w - 1) + b = Len(q) + b /\ b \in 1..Len(v)
        BY <2>2, <3>1
      <4>2. (q \o v)[Len(q) + b] = v[b]
        BY <2>2, <4>1, ConcatProperties
      <4>3. ws[w] = v
        BY <3>1 DEF v
      <4> QED BY <4>1, <4>2, <4>3
    <3>2. CASE w \in 1..(m + 1)
      <4>1. 4 * (w - 1) + b \in 1..Len(q)
        BY <2>2, <3>2
      <4>2. (q \o v)[4 * (w - 1) + b] = q[4 * (w - 1) + b]
        BY <2>2, <4>1, ConcatProperties
      <4>3. q[4 * (w - 1) + b] = ws[w][b]
        BY <2>3, <2>4, <3>2
      <4> QED BY <4>2, <4>3
    <3>3. w = m + 2 \/ w \in 1..(m + 1)
      BY <1>8, <2>4
    <3> QED BY <3>1, <3>2, <3>3
  <2> HIDE DEF v
  <2>5. q \o v \in Seq(Byte) /\ Len(q \o v) = Len(q) + Len(v)
    BY <2>2, ConcatProperties
  <2>6. Len(q) + Len(v) = 4 * (m + 2)
    BY <2>2, <1>8
  <2> QED BY <2>2, <2>4, <2>5, <2>6
<1>9. Right(f[n], n)
  <2> HIDE DEF T
  <2>1. n - 1 \in T
    BY <1>1, <1>7, <1>8, SetInduction
  <2> HIDE DEF Right
  <2> QED BY <1>1, <2>1 DEF T
<1> QED BY <1>4, <1>9

-----------------------------------------------------------------------------
(* What is written *)

\* One sequence after another
LEMMA Joined ==
    ASSUME NEW S, NEW a \in Seq(S), NEW b \in Seq(S)
    PROVE  /\ a \o b \in Seq(S) /\ Len(a \o b) = Len(a) + Len(b)
           /\ Len(a) \in Nat /\ Len(b) \in Nat
           /\ \A i \in 1..Len(a) : (a \o b)[i] = a[i]
           /\ \A i \in 1..Len(b) : (a \o b)[Len(a) + i] = b[i]
<1>1. Len(a) \in Nat /\ Len(b) \in Nat
  BY LenProperties
<1>2. /\ a \o b \in Seq(S) /\ Len(a \o b) = Len(a) + Len(b)
      /\ \A i \in 1..(Len(a) + Len(b)) :
           (a \o b)[i] = IF i <= Len(a) THEN a[i] ELSE b[i - Len(a)]
  BY ConcatProperties
<1>3. ASSUME NEW i \in 1..Len(a) PROVE (a \o b)[i] = a[i]
  <2>1. i \in 1..(Len(a) + Len(b)) /\ i <= Len(a)
    BY <1>1
  <2> QED BY <1>2, <2>1
<1>4. ASSUME NEW i \in 1..Len(b) PROVE (a \o b)[Len(a) + i] = b[i]
  <2>1. /\ Len(a) + i \in 1..(Len(a) + Len(b)) /\ ~(Len(a) + i <= Len(a))
        /\ (Len(a) + i) - Len(a) = i
    BY <1>1
  <2> QED BY <1>2, <2>1
<1> QED BY <1>1, <1>2, <1>3, <1>4

\* A reception block and a sender report as they are written
LEMMA BlockWritten ==
    ASSUME NEW b \in Blocks
    PROVE  /\ WriteBlock(b) \in Seq(Word) /\ Len(WriteBlock(b)) = 6
           /\ WriteBlock(b)[1] = b.ssrc /\ WriteBlock(b)[3] = b.highest
           /\ WriteBlock(b)[4] = b.jitter /\ WriteBlock(b)[5] = b.lsr
           /\ WriteBlock(b)[6] = b.delay
           /\ WriteBlock(b)[2] = << b.fraction % 16, 0, b.lost[1] % 8, b.lost[2] >>
<1> DEFINE w == << b.fraction % 16, 0, b.lost[1] % 8, b.lost[2] >>
<1>1. /\ b.ssrc \in Word /\ b.highest \in Word /\ b.jitter \in Word /\ b.lsr \in Word
      /\ b.delay \in Word /\ b.fraction \in Byte /\ b.lost \in Byte \X Byte
  BY DEF Blocks
<1>2. w \in Word
  <2>1. b.fraction % 16 \in Byte /\ 0 \in Byte /\ b.lost[1] % 8 \in Byte /\ b.lost[2] \in Byte
    BY <1>1 DEF Byte
  <2> QED BY <2>1 DEF Word
<1>3. WriteBlock(b) = << b.ssrc, w, b.highest, b.jitter, b.lsr, b.delay >>
  BY DEF WriteBlock
<1> HIDE DEF w
<1>4. WriteBlock(b)[2] = w
  BY <1>3
<1>5. /\ WriteBlock(b) \in Seq(Word) /\ Len(WriteBlock(b)) = 6
      /\ WriteBlock(b)[1] = b.ssrc /\ WriteBlock(b)[3] = b.highest
      /\ WriteBlock(b)[4] = b.jitter /\ WriteBlock(b)[5] = b.lsr
      /\ WriteBlock(b)[6] = b.delay
  BY <1>1, <1>2, <1>3
<1> QED BY <1>4, <1>5 DEF w

\* The block that is written where there is none
LEMMA NullWritten == NullBlock \in Seq(Word) /\ Len(NullBlock) = 6
<1>1. Zero \in Word
  <2>1. 0 \in Byte
    BY DEF Byte
  <2> QED BY <2>1 DEF Zero, Word
<1>2. NullBlock \in [1..6 -> Word]
  BY <1>1 DEF NullBlock, BlockSize
<1> QED BY <1>2, FunctionIsSeq

\* The fields of a report, and its one block
LEMMA ReportTypes ==
    ASSUME NEW r \in Reports
    PROVE  /\ r.ssrc \in Word /\ r.ntp \in Word \X Word /\ r.rtp \in Word
           /\ r.packets \in Word /\ r.octets \in Word
           /\ r.blocks \in Seq(Blocks) /\ Len(r.blocks) \in {0, 1}
           /\ Len(r.blocks) = 1 => r.blocks[1] \in Blocks
<1>1. /\ r \in [ssrc : Word, ntp : Word \X Word, rtp : Word, packets : Word, octets : Word,
                blocks : Seq(Blocks)]
      /\ Len(r.blocks) <= 1
  BY DEF Reports
<1>2. Len(r.blocks) \in Nat
  BY <1>1, LenProperties
<1>3. Len(r.blocks) = 1 => r.blocks[1] \in Blocks
  <2> DEFINE q == r.blocks
  <2>1. q \in Seq(Blocks)
    BY <1>1
  <2> HIDE DEF q
  <2>2. Len(q) = 1 => q[1] \in Blocks
    BY <2>1, ElementOfSeq
  <2> QED BY <2>2 DEF q
<1>4. Len(r.blocks) \in {0, 1}
  <2> DEFINE k == Len(r.blocks)
  <2>1. k \in Nat /\ k <= 1
    BY <1>1, <1>2
  <2> HIDE DEF k
  <2>2. k \in {0, 1}
    BY <2>1
  <2> QED BY <2>2 DEF k
<1> QED BY <1>1, <1>3, <1>4

\* sr is r as it is written
ReportIn(sr, r) ==
    /\ sr \in Seq(Word) /\ Len(sr) = 13
    /\ sr[1] = Header(Len(r.blocks), PacketSenderReport, 13)
    /\ sr[2] = r.ssrc /\ sr[3] = r.ntp[1] /\ sr[4] = r.ntp[2] /\ sr[5] = r.rtp
    /\ sr[6] = r.packets /\ sr[7] = r.octets
    /\ Len(r.blocks) = 1 => \A i \in 1..6 : sr[7 + i] = WriteBlock(r.blocks[1])[i]

\* WriteReport: thirteen words, with a block or with none
LEMMA ReportWritten ==
    ASSUME NEW r \in Reports
    PROVE  ReportIn(WriteReport(r), r)
<1> DEFINE blocks == IF r.blocks = <<>> THEN <<NullBlock>>
                     ELSE [i \in DOMAIN r.blocks |-> WriteBlock(r.blocks[i])]
           h == Header(Len(r.blocks), PacketSenderReport, 13)
           base == << h, r.ssrc, r.ntp[1], r.ntp[2], r.rtp, r.packets, r.octets >>
<1>1. /\ r.ssrc \in Word /\ r.ntp \in Word \X Word /\ r.rtp \in Word
      /\ r.packets \in Word /\ r.octets \in Word
      /\ r.blocks \in Seq(Blocks) /\ Len(r.blocks) \in {0, 1}
      /\ Len(r.blocks) = 1 => r.blocks[1] \in Blocks
  BY ReportTypes
<1>2. /\ blocks \in Seq(Seq(Word)) /\ Len(blocks) = 1 /\ Len(blocks[1]) = 6
      /\ Len(r.blocks) = 1 => blocks[1] = WriteBlock(r.blocks[1])
  <2>1. CASE Len(r.blocks) = 0
    <3>1. blocks = <<NullBlock>>
      BY <1>1, <2>1
    <3> HIDE DEF blocks
    <3> QED BY <2>1, <3>1, NullWritten
  <2>2. CASE Len(r.blocks) = 1
    <3>1. r.blocks # <<>> /\ DOMAIN r.blocks = 1..1
      BY <1>1, <2>2
    <3>2. blocks = [i \in 1..1 |-> WriteBlock(r.blocks[i])]
      BY <3>1
    <3>3. WriteBlock(r.blocks[1]) \in Seq(Word) /\ Len(WriteBlock(r.blocks[1])) = 6
      BY <1>1, <2>2, BlockWritten
    <3>4. blocks \in [1..1 -> Seq(Word)] /\ blocks[1] = WriteBlock(r.blocks[1])
      BY <3>2, <3>3
    <3> HIDE DEF blocks
    <3> QED BY <3>3, <3>4, FunctionIsSeq
  <2> QED BY <1>1, <2>1, <2>2
<1> HIDE DEF blocks
<1>3. FlattenSeq(blocks) = blocks[1] /\ blocks[1] \in Seq(Word)
  BY <1>2, FlattenOne
<1>4. h \in Word
  <2> DEFINE k == Len(r.blocks)
  <2>1. k \in 0..31 /\ PacketSenderReport \in Byte /\ 13 \in 1..MaxWords
    BY <1>1 DEF PacketSenderReport, Byte, MaxWords
  <2> HIDE DEF k
  <2>2. Header(k, PacketSenderReport, 13) \in Word
    BY <2>1, HeaderReads, Zenon
  <2> QED BY <2>2 DEF k
<1>5. WriteReport(r) = base \o blocks[1]
  <2>1. ReportBase + BlockSize * Len(blocks) = 13
    BY <1>2 DEF ReportBase, BlockSize
  <2>2. WriteReport(r) =
          << Header(Len(r.blocks), PacketSenderReport, ReportBase + BlockSize * Len(blocks)),
             r.ssrc, r.ntp[1], r.ntp[2], r.rtp, r.packets, r.octets >> \o FlattenSeq(blocks)
    BY DEF WriteReport, blocks
  <2> QED BY <1>3, <2>1, <2>2
<1> HIDE DEF h
<1>6. /\ base \in Seq(Word) /\ Len(base) = 7 /\ base[1] = h /\ base[2] = r.ssrc
      /\ base[3] = r.ntp[1] /\ base[4] = r.ntp[2] /\ base[5] = r.rtp
      /\ base[6] = r.packets /\ base[7] = r.octets
  BY <1>1, <1>4
<1> HIDE DEF base
<1>7. /\ WriteReport(r) \in Seq(Word) /\ Len(WriteReport(r)) = Len(base) + Len(blocks[1])
      /\ \A i \in 1..Len(base) : WriteReport(r)[i] = base[i]
      /\ \A i \in 1..Len(blocks[1]) : WriteReport(r)[Len(base) + i] = blocks[1][i]
  <2> DEFINE more == blocks[1]
  <2>1. base \in Seq(Word) /\ more \in Seq(Word) /\ WriteReport(r) = base \o more
    BY <1>3, <1>5, <1>6
  <2> HIDE DEF more
  <2>2. /\ base \o more \in Seq(Word) /\ Len(base \o more) = Len(base) + Len(more)
        /\ \A i \in 1..Len(base) : (base \o more)[i] = base[i]
        /\ \A i \in 1..Len(more) : (base \o more)[Len(base) + i] = more[i]
    BY <2>1, Joined
  <2> QED BY <2>1, <2>2 DEF more
<1>8. \A i \in 1..6 : WriteReport(r)[7 + i] = blocks[1][i]
  BY <1>2, <1>6, <1>7
<1>9. Len(WriteReport(r)) = 13 /\ \A i \in 1..7 : WriteReport(r)[i] = base[i]
  BY <1>2, <1>6, <1>7
<1>10. Len(r.blocks) = 1
         => \A i \in 1..6 : WriteReport(r)[7 + i] = WriteBlock(r.blocks[1])[i]
  BY <1>2, <1>8
<1> HIDE DEF h
<1>11. /\ WriteReport(r)[1] = h
       /\ WriteReport(r)[2] = r.ssrc /\ WriteReport(r)[3] = r.ntp[1]
       /\ WriteReport(r)[4] = r.ntp[2] /\ WriteReport(r)[5] = r.rtp
       /\ WriteReport(r)[6] = r.packets /\ WriteReport(r)[7] = r.octets
  <2>1. \A i \in {1, 2, 3, 4, 5, 6, 7} : WriteReport(r)[i] = base[i]
    BY <1>9
  <2> QED BY <1>6, <2>1
<1> QED BY <1>7, <1>9, <1>10, <1>11 DEF h, ReportIn

\* The chunks of a report: a name of at most 255 bytes, and the mask
LEMMA NameCut ==
    ASSUME NEW name \in Seq(Byte)
    PROVE  Cut(name) \in Seq(Byte) /\ Len(Cut(name)) \in 0..255
<1> DEFINE l == Len(name)
           n == IF l > 255 THEN 255 ELSE l
<1>0. l \in Nat
  BY LenProperties
<1>3. Cut(name) = SubSeq(name, 1, n)
  BY DEF Cut
<1> HIDE DEF l
<1>1. n \in 0..255 /\ n <= l
  BY <1>0
<1>2. \A i \in 1..n : name[i] \in Byte
  <2> TAKE i \in 1..n
  <2>1. i \in 1..Len(name)
    BY <1>0, <1>1 DEF l
  <2> QED BY <2>1, ElementOfSeq
<1> HIDE DEF n
<1>4. /\ SubSeq(name, 1, n) \in Seq(Byte)
      /\ Len(SubSeq(name, 1, n)) = IF 1 <= n THEN n - 1 + 1 ELSE 0
  <2>1. 1 \in Int /\ n \in Int
    BY <1>1
  <2> QED BY <1>2, <2>1, SubSeqProperties
<1> QED BY <1>1, <1>3, <1>4

\* A short text is not cut
LEMMA ShortUncut ==
    ASSUME NEW name \in Seq(Byte), Len(name) <= 255
    PROVE  Cut(name) = name
<1>1. Len(name) \in Nat
  BY LenProperties
<1>2. Cut(name) = SubSeq(name, 1, Len(name))
  BY <1>1 DEF Cut
<1> QED BY <1>2, SubSeqFull

\* The data of a GPIO chunk
LEMMA MaskTagged ==
    ASSUME NEW w \in Word
    PROVE  /\ GpioTag \o w \in Seq(Byte) /\ Len(GpioTag \o w) = 9
           /\ \A i \in 1..5 : (GpioTag \o w)[i] = GpioTag[i]
           /\ \A i \in 1..4 : (GpioTag \o w)[5 + i] = w[i]
<1>1. GpioTag \in Seq(Byte) /\ Len(GpioTag) = 5
  <2>1. 4 \in Byte /\ 71 \in Byte /\ 80 \in Byte /\ 73 \in Byte /\ 79 \in Byte
    BY DEF Byte
  <2> QED BY <2>1 DEF GpioTag
<1>2. w \in Seq(Byte) /\ Len(w) = 4
  BY WordIs
<1>3. /\ GpioTag \o w \in Seq(Byte) /\ Len(GpioTag \o w) = Len(GpioTag) + Len(w)
      /\ \A i \in 1..Len(GpioTag) : (GpioTag \o w)[i] = GpioTag[i]
      /\ \A i \in 1..Len(w) : (GpioTag \o w)[Len(GpioTag) + i] = w[i]
  <2>1. GpioTag \in Seq(Byte) /\ w \in Seq(Byte)
    BY <1>1, <1>2
  <2> QED BY <2>1, Joined
<1> QED BY <1>1, <1>2, <1>3

\* AddChunk twice: the name and the mask
LEMMA ChunksAre ==
    ASSUME NEW c, c.cname \in Seq(Byte), c.gpio \in Word
    PROVE  ChunksOf(c) = << [type |-> 1, data |-> Cut(c.cname)],
                            [type |-> 8, data |-> GpioTag \o c.gpio] >>
<1> DEFINE one == << [type |-> 1, data |-> Cut(c.cname)] >>
<1>1. AddChunk(<<>>, ChunkCname, c.cname) = one
  BY DEF AddChunk, ChunkCname
<1>2. Cut(GpioTag \o c.gpio) = GpioTag \o c.gpio
  <2> DEFINE m == GpioTag \o c.gpio
             w == c.gpio
  <2>1. w \in Word /\ m = GpioTag \o w
    OBVIOUS
  <2> HIDE DEF w, m
  <2>2. m \in Seq(Byte) /\ Len(m) = 9
    BY <2>1, MaskTagged
  <2>3. Len(m) <= 255
    BY <2>2
  <2>4. Cut(m) = m
    BY <2>2, <2>3, ShortUncut, Zenon
  <2> QED BY <2>4 DEF m
<1>3. ~ \E i \in DOMAIN one : one[i].type = ChunkPriv
  BY DEF ChunkPriv
<1>4. AddChunk(one, ChunkPriv, GpioTag \o c.gpio)
        = Append(one, [type |-> 8, data |-> GpioTag \o c.gpio])
  BY <1>2, <1>3 DEF AddChunk, ChunkPriv
<1> QED BY <1>1, <1>4 DEF ChunksOf

-----------------------------------------------------------------------------
(* The chunks of a description *)

\* A sum of two numbers
LEMMA SumOfTwo ==
    ASSUME NEW q, DOMAIN q = 1..2, q[1] \in Nat, q[2] \in Nat
    PROVE  FoldLeft(Add, 0, q) = q[1] + q[2]
<1> DEFINE P(h) == h = [s \in SUBSET (1..2) |-> IF s = {} THEN 0
                            ELSE Add(h[s \ {Max(s)}], q[Max(s)])]
           g == [s \in SUBSET (1..2) |-> IF s = {} THEN 0 ELSE IF s = {1} THEN q[1]
                                         ELSE IF s = {2} THEN q[2] ELSE q[1] + q[2]]
           f == CHOOSE h : P(h)
<1>1. FoldLeft(Add, 0, q) = f[1..2]
  BY DEF FoldLeft, MapThenFoldSet
<1>2. Max({1}) = 1 /\ Max({2}) = 2 /\ Max({1, 2}) = 2
  BY DEF Max
<1>3. P(g)
  <2>1. g[{}] = 0 /\ g[{1}] = q[1] /\ g[{2}] = q[2] /\ g[{1, 2}] = q[1] + q[2]
    OBVIOUS
  <2>2. ASSUME NEW s \in SUBSET (1..2)
        PROVE  g[s] = IF s = {} THEN 0 ELSE Add(g[s \ {Max(s)}], q[Max(s)])
    <3> HIDE DEF g
    <3>1. s = {} \/ s = {1} \/ s = {2} \/ s = {1, 2}
      <4>1. \A x \in s : x = 1 \/ x = 2
        BY <2>2
      <4>2. CASE 1 \in s /\ 2 \in s
        BY <4>1, <4>2
      <4>3. CASE 1 \in s /\ 2 \notin s
        BY <4>1, <4>3
      <4>4. CASE 1 \notin s /\ 2 \in s
        BY <4>1, <4>4
      <4>5. CASE 1 \notin s /\ 2 \notin s
        BY <4>1, <4>5
      <4> QED BY <4>2, <4>3, <4>4, <4>5
    <3>2. CASE s = {}
      BY <2>1, <3>2
    <3>3. CASE s = {1}
      <4>1. s # {} /\ s \ {Max(s)} = {} /\ Max(s) = 1
        BY <1>2, <3>3
      <4>2. g[s] = q[1] /\ Add(g[{}], q[1]) = q[1]
        BY <2>1, <3>3 DEF Add
      <4> QED BY <4>1, <4>2
    <3>4. CASE s = {2}
      <4>1. s # {} /\ s \ {Max(s)} = {} /\ Max(s) = 2
        BY <1>2, <3>4
      <4>2. g[s] = q[2] /\ Add(g[{}], q[2]) = q[2]
        BY <2>1, <3>4 DEF Add
      <4> QED BY <4>1, <4>2
    <3>5. CASE s = {1, 2}
      <4>1. s \ {Max(s)} = {1} /\ Max(s) = 2
        BY <1>2, <3>5
      <4> QED BY <2>1, <3>5, <4>1 DEF Add
    <3> QED BY <3>1, <3>2, <3>3, <3>4, <3>5
  <2>3. g = [s \in SUBSET (1..2) |-> g[s]]
    OBVIOUS
  <2> HIDE DEF g
  <2> QED BY <2>2, <2>3
<1>4. P(f)
  <2> HIDE DEF P
  <2> QED BY <1>3
<1> HIDE DEF f
<1>5. \A s \in SUBSET (1..2) : f[s] = IF s = {} THEN 0 ELSE Add(f[s \ {Max(s)}], q[Max(s)])
  BY <1>4
<1>6. f[{}] = 0
  BY <1>5
<1>7. f[{1}] = q[1]
  <2>1. {1} \ {1} = {} /\ {1} \in SUBSET (1..2) /\ {1} # {}
    OBVIOUS
  <2>2. f[{1}] = Add(f[{}], q[1])
    BY <1>2, <1>5, <2>1
  <2> QED BY <1>6, <2>2 DEF Add
<1>8. f[{1, 2}] = q[1] + q[2]
  <2>1. {1, 2} \ {2} = {1} /\ {1, 2} \in SUBSET (1..2) /\ {1, 2} # {}
    OBVIOUS
  <2>2. f[{1, 2}] = Add(f[{1}], q[2])
    BY <1>2, <1>5, <2>1
  <2> QED BY <1>7, <2>2 DEF Add
<1>9. 1..2 = {1, 2}
  OBVIOUS
<1> QED BY <1>1, <1>8, <1>9

\* The chunks of a report, their size, and their bytes
TwoChunks(name, mask) == << [type |-> 1, data |-> name], [type |-> 8, data |-> mask] >>

\* GetTotalSize of these two chunks
LEMMA SizeIs ==
    ASSUME NEW name \in Seq(Byte), NEW mask \in Seq(Byte), Len(mask) = 9
    PROVE  TotalSize(TwoChunks(name, mask)) = 7 + ((2 + Len(name)) \div 4)
<1> DEFINE chunks == TwoChunks(name, mask)
           q == [i \in DOMAIN chunks |-> 2 + ((2 + Len(chunks[i].data)) \div 4)]
           l == Len(name)
<1>1. l \in Nat
  BY LenProperties
<1>2. DOMAIN chunks = 1..2 /\ chunks[1].data = name /\ chunks[2].data = mask
  BY DEF TwoChunks
<1>3. TotalSize(chunks) = 1 + FoldLeft(Add, 0, q)
  BY DEF TotalSize
<1> HIDE DEF chunks
<1>4. DOMAIN q = 1..2 /\ q[1] = 2 + ((2 + l) \div 4) /\ q[2] = 2 + ((2 + 9) \div 4)
  <2>1. 1 \in DOMAIN chunks /\ 2 \in DOMAIN chunks
    BY <1>2
  <2>2. /\ q[1] = 2 + ((2 + Len(chunks[1].data)) \div 4)
        /\ q[2] = 2 + ((2 + Len(chunks[2].data)) \div 4)
    BY <2>1
  <2>3. DOMAIN q = 1..2
    BY <1>2
  <2> HIDE DEF q
  <2>4. Len(chunks[1].data) = l /\ Len(chunks[2].data) = 9
    BY <1>2
  <2> QED BY <2>2, <2>3, <2>4
<1> HIDE DEF q, l
<1>5. q[1] \in Nat /\ q[2] = 4 /\ (2 + l) \div 4 \in Nat
  BY <1>1, <1>4
<1>6. FoldLeft(Add, 0, q) = q[1] + q[2]
  BY <1>4, <1>5, SumOfTwo
<1>7. TotalSize(chunks) = 7 + ((2 + l) \div 4)
  BY <1>3, <1>4, <1>5, <1>6
<1> QED BY <1>7 DEF chunks, l

ChunkIn(b, type, data) ==
    /\ b \in Seq(Byte) /\ Len(b) = 2 + Len(data) /\ b[1] = type /\ b[2] = Len(data)
    /\ \A i \in 1..Len(data) : b[2 + i] = data[i]

\* A chunk is its type, its length and its data
LEMMA ChunkIs ==
    ASSUME NEW type \in Byte, NEW data \in Seq(Byte), Len(data) \in Byte
    PROVE  ChunkIn(<< type, Len(data) % 256 >> \o data, type, data)
<1> DEFINE h == << type, Len(data) % 256 >>
<1>1. Len(data) % 256 = Len(data)
  <2> DEFINE l == Len(data)
  <2>1. l \in 0..255
    BY DEF Byte
  <2> HIDE DEF l
  <2>2. l % 256 = l
    BY <2>1
  <2> QED BY <2>2 DEF l
<1>2. h \in Seq(Byte) /\ Len(h) = 2 /\ h[1] = type /\ h[2] = Len(data)
  BY <1>1
<1> HIDE DEF h
<1>3. /\ h \o data \in Seq(Byte) /\ Len(h \o data) = Len(h) + Len(data)
      /\ \A i \in 1..Len(h) : (h \o data)[i] = h[i]
      /\ \A i \in 1..Len(data) : (h \o data)[Len(h) + i] = data[i]
  <2>1. h \in Seq(Byte) /\ data \in Seq(Byte)
    BY <1>2
  <2> QED BY <2>1, Joined
<1>4. 1 \in 1..Len(h) /\ 2 \in 1..Len(h)
  BY <1>2
<1>5. ChunkIn(h \o data, type, data)
  BY <1>2, <1>3, <1>4 DEF ChunkIn
<1> QED BY <1>5 DEF h

\* What the bytes of the two chunks are
ChunksIn(cb, name, mask) ==
    /\ cb \in Seq(Byte) /\ Len(cb) = 13 + Len(name)
    /\ cb[1] = 1 /\ cb[2] = Len(name) /\ cb[3 + Len(name)] = 8 /\ cb[4 + Len(name)] = 9
    /\ \A i \in 1..Len(name) : cb[2 + i] = name[i]
    /\ \A i \in 1..9 : cb[4 + Len(name) + i] = mask[i]

\* Byte after byte of both chunks
LEMMA ChunkBytesAre ==
    ASSUME NEW name \in Seq(Byte), Len(name) \in Byte, NEW mask \in Seq(Byte), Len(mask) = 9
    PROVE  ChunksIn(ChunkBytes(TwoChunks(name, mask)), name, mask)
<1> DEFINE chunks == TwoChunks(name, mask)
           q == [i \in DOMAIN chunks |->
                  <<chunks[i].type, Len(chunks[i].data) % 256>> \o chunks[i].data]
           one == << 1, Len(name) % 256 >> \o name
           two == << 8, Len(mask) % 256 >> \o mask
           l == Len(name)
<1>1. l \in Nat /\ l \in Byte /\ 9 \in Byte /\ 1 \in Byte /\ 8 \in Byte
  BY LenProperties DEF Byte
<1>2. ChunkIn(one, 1, name)
  BY <1>1, ChunkIs
<1>3. ChunkIn(two, 8, mask)
  BY <1>1, ChunkIs
<1>4. /\ DOMAIN chunks = 1..2 /\ chunks[1].data = name /\ chunks[2].data = mask
      /\ chunks[1].type = 1 /\ chunks[2].type = 8
  BY DEF TwoChunks
<1>5. ChunkBytes(chunks) = FlattenSeq(q)
  BY DEF ChunkBytes
<1> HIDE DEF chunks, one, two
<1>6. q = [i \in 1..2 |-> q[i]] /\ q[1] = one /\ q[2] = two
  <2>1. 1 \in DOMAIN chunks /\ 2 \in DOMAIN chunks
    BY <1>4
  <2>2. /\ q[1] = <<chunks[1].type, Len(chunks[1].data) % 256>> \o chunks[1].data
        /\ q[2] = <<chunks[2].type, Len(chunks[2].data) % 256>> \o chunks[2].data
    BY <2>1
  <2>3. q = [i \in 1..2 |-> q[i]]
    BY <1>4
  <2> HIDE DEF q
  <2>4. q[1] = one /\ q[2] = two
    BY <1>4, <2>2 DEF one, two
  <2> QED BY <2>3, <2>4
<1> HIDE DEF q
<1>7. one \in Seq(Byte) /\ two \in Seq(Byte)
  BY <1>2, <1>3 DEF ChunkIn
<1>8. FlattenSeq(q) = one \o two
  <2>1. q \in [1..2 -> Seq(Byte)]
    BY <1>6, <1>7
  <2>2. q \in Seq(Seq(Byte)) /\ Len(q) = 2
    BY <2>1, FunctionIsSeq
  <2>3. FlattenSeq(q) = q[1] \o q[2]
    BY <2>2, FlattenTwo
  <2> QED BY <1>6, <2>3
<1> DEFINE cb == one \o two
<1>9. /\ cb \in Seq(Byte) /\ Len(cb) = Len(one) + Len(two)
      /\ \A i \in 1..Len(one) : cb[i] = one[i]
      /\ \A i \in 1..Len(two) : cb[Len(one) + i] = two[i]
  BY <1>7, Joined
<1> HIDE DEF cb, l
<1>10. /\ Len(one) = 2 + l /\ one[1] = 1 /\ one[2] = l /\ \A i \in 1..l : one[2 + i] = name[i]
       /\ Len(two) = 11 /\ two[1] = 8 /\ two[2] = 9 /\ \A i \in 1..9 : two[2 + i] = mask[i]
  BY <1>2, <1>3 DEF ChunkIn, l
<1>11. cb[1] = 1 /\ cb[2] = l
  <2>1. 1 \in 1..Len(one) /\ 2 \in 1..Len(one)
    BY <1>1, <1>10
  <2> QED BY <1>9, <1>10, <2>1
<1>12. ASSUME NEW i \in 1..l PROVE cb[2 + i] = name[i]
  <2>1. 2 + i \in 1..Len(one)
    BY <1>1, <1>10
  <2> QED BY <1>9, <1>10, <2>1
<1>13. cb[3 + l] = 8 /\ cb[4 + l] = 9
  <2>1. 1 \in 1..Len(two) /\ 2 \in 1..Len(two) /\ Len(one) + 1 = 3 + l /\ Len(one) + 2 = 4 + l
    BY <1>1, <1>10
  <2>2. cb[Len(one) + 1] = two[1] /\ cb[Len(one) + 2] = two[2]
    BY <1>9, <2>1
  <2> QED BY <1>10, <2>1, <2>2
<1>14. ASSUME NEW i \in 1..9 PROVE cb[4 + l + i] = mask[i]
  <2>1. 2 + i \in 1..Len(two) /\ Len(one) + (2 + i) = 4 + l + i
    BY <1>1, <1>10
  <2>2. cb[Len(one) + (2 + i)] = two[2 + i]
    BY <1>9, <2>1
  <2> QED BY <1>10, <2>1, <2>2
<1>15. Len(cb) = 13 + l
  BY <1>1, <1>9, <1>10
<1>16. ChunkBytes(chunks) = cb
  BY <1>5, <1>8 DEF cb
<1>17. ChunksIn(cb, name, mask)
  BY <1>9, <1>11, <1>12, <1>13, <1>14, <1>15 DEF ChunksIn, l
<1> QED BY <1>16, <1>17 DEF chunks

-----------------------------------------------------------------------------
(* Bytes in words *)

\* Where byte i stands in a row of words
At(i) == ((i - 1) \div 4) + 1
In(i) == ((i - 1) % 4) + 1

\* Each byte has its place, and that place is its own
LEMMA Places ==
    ASSUME NEW i \in Nat, i # 0
    PROVE  At(i) \in Nat /\ At(i) >= 1 /\ In(i) \in 1..4 /\ i = 4 * (At(i) - 1) + In(i)
<1> DEFINE x == i - 1
           a == x \div 4
           b == x % 4
<1>1. x \in Nat
  OBVIOUS
<1> HIDE DEF x
<1>2. a \in Nat /\ b \in 0..3 /\ x = 4 * a + b
  BY <1>1
<1> HIDE DEF a, b
<1>3. At(i) = a + 1 /\ In(i) = b + 1 /\ i = x + 1
  BY DEF At, In, a, b, x
<1> QED BY <1>2, <1>3

\* The first 4 * n bytes are within n words
LEMMA PlaceWithin ==
    ASSUME NEW n \in Nat, NEW i \in 1..(4 * n)
    PROVE  At(i) \in 1..n
<1>1. /\ At(i) \in Nat /\ At(i) >= 1 /\ In(i) \in 1..4 /\ i = 4 * (At(i) - 1) + In(i)
      /\ i <= 4 * n
  BY Places
<1>2. 4 * (At(i) - 1) < 4 * n
  BY <1>1
<1> QED BY <1>1, <1>2

\* Bytes laid into words are found at their places
LEMMA WordsAre ==
    ASSUME NEW bytes \in Seq(Byte), NEW n \in Nat
    PROVE  /\ Words(bytes, n) \in Seq(Word) /\ Len(Words(bytes, n)) = n
           /\ \A i \in 1..Len(bytes) :
                i <= 4 * n => Words(bytes, n)[At(i)][In(i)] = bytes[i]
<1> DEFINE ws == Words(bytes, n)
           It(w, b) == IF 4 * (w - 1) + b <= Len(bytes) THEN bytes[4 * (w - 1) + b] ELSE 0
<1>1. Len(bytes) \in Nat /\ DOMAIN bytes = 1..Len(bytes)
  BY LenProperties
<1>2. ws = [w \in 1..n |-> [b \in 1..4 |-> It(w, b)]]
  BY DEF Words
<1>3. ASSUME NEW w \in 1..n, NEW b \in 1..4 PROVE It(w, b) \in Byte
  <2>1. CASE 4 * (w - 1) + b <= Len(bytes)
    <3>1. 4 * (w - 1) + b \in 1..Len(bytes)
      BY <1>1, <2>1
    <3>2. bytes[4 * (w - 1) + b] \in Byte
      BY <3>1, ElementOfSeq
    <3> QED BY <2>1, <3>2
  <2>2. CASE ~(4 * (w - 1) + b <= Len(bytes))
    BY <2>2 DEF Byte
  <2> QED BY <2>1, <2>2
<1> HIDE DEF It
<1>4. ws \in [1..n -> Word]
  BY <1>2, <1>3 DEF Word
<1> HIDE DEF ws
<1>5. ws \in Seq(Word) /\ Len(ws) = n
  BY <1>4, FunctionIsSeq
<1>6. ASSUME NEW i \in 1..Len(bytes), i <= 4 * n PROVE ws[At(i)][In(i)] = bytes[i]
  <2>1. i \in 1..(4 * n) /\ i \in Nat /\ i # 0
    BY <1>1, <1>6
  <2>2. At(i) \in 1..n /\ In(i) \in 1..4 /\ i = 4 * (At(i) - 1) + In(i)
    BY <2>1, Places, PlaceWithin
  <2>3. ws[At(i)][In(i)] = It(At(i), In(i))
    BY <1>2, <2>2
  <2>4. It(At(i), In(i)) = bytes[i]
    BY <1>1, <1>6, <2>2 DEF It
  <2> QED BY <2>3, <2>4
<1> QED BY <1>5, <1>6 DEF ws

\* ... and read from there
LEMMA BytesAre ==
    ASSUME NEW ws \in Seq(Word), Len(ws) # 0, NEW i \in 1..(4 * Len(ws))
    PROVE  FlattenSeq(ws)[i] = ws[At(i)][In(i)]
<1> DEFINE n == Len(ws)
<1>1. n \in Nat
  BY LenProperties
<1> HIDE DEF n
<1>2. i \in 1..(4 * n) /\ i \in Nat /\ i # 0
  BY <1>1 DEF n
<1>3. At(i) \in 1..n /\ In(i) \in 1..4 /\ i = 4 * (At(i) - 1) + In(i)
  BY <1>1, <1>2, Places, PlaceWithin
<1>4. \A w \in 1..n, b \in 1..4 : FlattenSeq(ws)[4 * (w - 1) + b] = ws[w][b]
  BY FlattenWords DEF n
<1> QED BY <1>3, <1>4

\* A description of two chunks as it is written
DescriptionIn(sd, name, mask) ==
    /\ sd \in Seq(Word) /\ Len(sd) = 7 + ((2 + Len(name)) \div 4)
    /\ sd[1] = Header(2, PacketSourceDescription, Len(sd))
    /\ \A i \in 1..(13 + Len(name)) :
         /\ i <= 4 * (Len(sd) - 2)
         /\ sd[2 + At(i)][In(i)] = ChunkBytes(TwoChunks(name, mask))[i]

\* GetTotalSize is enough for the bytes, and less than a header can tell
LEMMA SizeWithin ==
    ASSUME NEW l \in Byte
    PROVE  /\ 7 + ((2 + l) \div 4) \in 7..71
           /\ 13 + l <= 4 * (7 + ((2 + l) \div 4) - 2)
<1> DEFINE x == 2 + l
<1>1. x \in Nat /\ x <= 257
  BY DEF Byte
<1> HIDE DEF x
<1>2. x \div 4 \in Nat /\ x % 4 \in 0..3 /\ x = 4 * (x \div 4) + (x % 4)
  BY <1>1
<1> DEFINE d == x \div 4
           m == x % 4
<1>3. d \in Nat /\ m \in 0..3 /\ x = 4 * d + m
  BY <1>2
<1> HIDE DEF d, m
<1>4. d <= 64
  BY <1>1, <1>3
<1>5. 7 + d \in 7..71 /\ 13 + l <= 4 * (7 + d - 2)
  BY <1>1, <1>3, <1>4 DEF x, Byte
<1> QED BY <1>5 DEF d, x

\* WriteDescription: header, source, and the bytes at their places
LEMMA DescriptionWritten ==
    ASSUME NEW ssrc \in Word, NEW name \in Seq(Byte), Len(name) \in Byte,
           NEW mask \in Seq(Byte), Len(mask) = 9
    PROVE  DescriptionIn(WriteDescription(ssrc, TwoChunks(name, mask)), name, mask)
<1> DEFINE chunks == TwoChunks(name, mask)
           l == Len(name)
           size == 7 + ((2 + l) \div 4)
           cb == ChunkBytes(chunks)
           h == Header(2, PacketSourceDescription, size)
           ws == Words(cb, size - 2)
           base == << h, ssrc >>
           sd == WriteDescription(ssrc, chunks)
<1>1. l \in Byte /\ l \in Nat
  BY LenProperties
<1>2. TotalSize(chunks) = size
  BY SizeIs
<1>3. cb \in Seq(Byte) /\ Len(cb) = 13 + l
  BY ChunkBytesAre DEF ChunksIn
<1>4. Len(chunks) = 2
  BY DEF TwoChunks
<1>5. sd = base \o ws
  BY <1>2, <1>4 DEF WriteDescription
<1> HIDE DEF l, chunks, cb, sd
<1>6. size \in 7..71 /\ size \in Nat /\ 13 + l <= 4 * (size - 2) /\ size - 2 \in Nat
  <2>1. size \in 7..71 /\ 13 + l <= 4 * (size - 2)
    BY <1>1, SizeWithin
  <2> HIDE DEF size
  <2> QED BY <2>1
<1> HIDE DEF size
<1>7. h \in Word
  <2>1. 2 \in 0..31 /\ PacketSourceDescription \in Byte /\ size \in 1..MaxWords
    BY <1>6 DEF PacketSourceDescription, Byte, MaxWords
  <2> QED BY <2>1, HeaderReads
<1> HIDE DEF h, ws
<1>8. /\ ws \in Seq(Word) /\ Len(ws) = size - 2
      /\ \A i \in 1..Len(cb) : i <= 4 * (size - 2) => ws[At(i)][In(i)] = cb[i]
  BY <1>3, <1>6, WordsAre DEF ws
<1>9. base \in Seq(Word) /\ Len(base) = 2 /\ base[1] = h
  BY <1>7
<1> HIDE DEF base
<1>10. /\ base \o ws \in Seq(Word) /\ Len(base \o ws) = Len(base) + Len(ws)
       /\ \A i \in 1..Len(base) : (base \o ws)[i] = base[i]
       /\ \A i \in 1..Len(ws) : (base \o ws)[Len(base) + i] = ws[i]
  <2>1. base \in Seq(Word) /\ ws \in Seq(Word)
    BY <1>8, <1>9
  <2> QED BY <2>1, Joined
<1>11. Len(sd) = size /\ sd[1] = h /\ sd \in Seq(Word)
  <2>1. 1 \in 1..Len(base)
    BY <1>9
  <2> QED BY <1>5, <1>6, <1>8, <1>9, <1>10, <2>1
<1>12. ASSUME NEW i \in 1..(13 + l)
       PROVE  i <= 4 * (size - 2) /\ sd[2 + At(i)][In(i)] = cb[i]
  <2>1. i <= 4 * (size - 2) /\ i \in 1..Len(cb) /\ i \in 1..(4 * (size - 2))
    BY <1>1, <1>3, <1>6
  <2>2. At(i) \in 1..(size - 2)
    BY <1>6, <2>1, PlaceWithin
  <2>3. sd[2 + At(i)] = ws[At(i)]
    BY <1>5, <1>8, <1>9, <1>10, <2>2
  <2>4. ws[At(i)][In(i)] = cb[i]
    BY <1>8, <2>1
  <2> QED BY <2>1, <2>3, <2>4
<1>13. DescriptionIn(sd, name, mask)
  BY <1>11, <1>12 DEF DescriptionIn, h, size, cb, chunks, l
<1> QED BY <1>13 DEF sd, chunks

-----------------------------------------------------------------------------
(* Starts, and the packet *)

(* Starts: from header to header *)
Hops(f, d, lo) ==
    f = [i \in lo..Len(d) |->
           IF Version(d[i]) # 2 THEN {}
           ELSE {i} \union (IF i + Size(d[i]) <= Len(d) THEN f[i + Size(d[i])] ELSE {})]

\* A header tells one word at least
LEMMA SizePositive ==
    ASSUME NEW w \in Word
    PROVE  Size(w) \in Nat /\ Size(w) >= 1
<1>1. w[3] \in Byte /\ w[4] \in Byte
  BY DEF Word
<1> DEFINE a == w[3]
           b == w[4]
<1>2. a \in 0..255 /\ b \in 0..255 /\ Size(w) = 256 * a + b + 1
  BY <1>1 DEF Size, Byte
<1> HIDE DEF a, b
<1>3. 256 * a \in Nat
  BY <1>2
<1> QED BY <1>2, <1>3

\* The recursion ends: each report is a word long at least
LEMMA HopsExist ==
    ASSUME NEW d \in Seq(Word)
    PROVE  \E f : Hops(f, d, 1)
<1> DEFINE n == Len(d)
           T == {k \in Nat : k <= n => \E f : Hops(f, d, n + 1 - k)}
<1>1. n \in Nat
  BY LenProperties
<1>2. \A i \in 1..n : Size(d[i]) \in Nat /\ Size(d[i]) >= 1
  <2> TAKE i \in 1..n
  <2>1. d[i] \in Word
    BY ElementOfSeq
  <2> QED BY <2>1, SizePositive
<1> HIDE DEF n
<1>3. 0 \in T
  <2>1. Hops([i \in (n + 1)..n |-> {}], d, n + 1)
    <3>1. (n + 1)..n = {}
      BY <1>1
    <3> QED BY <3>1 DEF Hops, n
  <2> QED BY <1>1, <2>1
<1>4. ASSUME NEW k \in Nat, k \in T PROVE k + 1 \in T
  <2> SUFFICES ASSUME k + 1 <= n PROVE \E f : Hops(f, d, n - k)
    BY <1>1, <1>4
  <2> DEFINE lo == n - k
  <2>1. lo \in 1..n /\ lo + 1 = n + 1 - k /\ k <= n
    BY <1>1, <1>4
  <2> HIDE DEF lo
  <2>2. PICK f : Hops(f, d, lo + 1)
    BY <1>4, <2>1
  <2> DEFINE Hop(g, i) == IF Version(d[i]) # 2 THEN {}
                          ELSE {i} \union (IF i + Size(d[i]) <= n THEN g[i + Size(d[i])] ELSE {})
             g == [i \in lo..n |-> IF i = lo THEN Hop(f, lo) ELSE f[i]]
  <2>3. \A i \in (lo + 1)..n : f[i] = Hop(f, i)
    BY <2>2 DEF Hops, n
  <2>4. ASSUME NEW i \in lo..n PROVE Hop(g, i) = Hop(f, i)
    <3>1. ASSUME i + Size(d[i]) <= n PROVE g[i + Size(d[i])] = f[i + Size(d[i])]
      <4>1. i + Size(d[i]) \in lo..n /\ i + Size(d[i]) # lo
        BY <1>1, <1>2, <2>1, <3>1
      <4> QED BY <4>1
    <3> HIDE DEF g
    <3> QED BY <3>1
  <2> HIDE DEF Hop
  <2>5. \A i \in lo..n : g[i] = Hop(g, i)
    <3> TAKE i \in lo..n
    <3>1. CASE i = lo
      BY <2>4, <3>1
    <3>2. CASE i # lo
      <4>1. i \in (lo + 1)..n
        BY <1>1, <2>1, <3>2
      <4> QED BY <2>3, <2>4, <3>2, <4>1
    <3> QED BY <3>1, <3>2
  <2>6. g = [i \in lo..n |-> g[i]]
    OBVIOUS
  <2> HIDE DEF g
  <2>7. g = [i \in lo..n |-> Hop(g, i)]
    BY <2>5, <2>6
  <2>8. Hops(g, d, lo)
    BY <2>7 DEF Hops, Hop, n
  <2> QED BY <2>8 DEF lo
<1> HIDE DEF T
<1>5. n \in T
  BY <1>1, <1>3, <1>4, SetInduction
<1>6. n + 1 - n = 1
  BY <1>1
<1> QED BY <1>1, <1>5, <1>6 DEF T

\* Starts is such a function
LEMMA StartsHop ==
    ASSUME NEW d \in Seq(Word)
    PROVE  \E f : Starts(d) = f[1] /\ Hops(f, d, 1)
<1> DEFINE P(f) == f = [i \in 1..Len(d) |->
                          IF Version(d[i]) # 2 THEN {}
                          ELSE {i} \union (IF i + Size(d[i]) <= Len(d)
                                           THEN f[i + Size(d[i])] ELSE {})]
<1>1. Starts(d) = (CHOOSE f : P(f))[1]
  BY DEF Starts
<1>2. \A f : P(f) <=> Hops(f, d, 1)
  BY DEF Hops
<1>3. \E f : P(f)
  BY <1>2, HopsExist
<1>4. P(CHOOSE f : P(f))
  <2> HIDE DEF P
  <2> QED BY <1>3
<1> HIDE DEF P
<1> QED BY <1>1, <1>2, <1>4

-----------------------------------------------------------------------------
(* The packet *)
Reported == [report : Reports, cname : Seq(Byte), gpio : Word, leaving : BOOLEAN]
Report(c) == WriteReport(c.report)
Description(c) == WriteDescription(c.report.ssrc, ChunksOf(c))

PacketIn(d, c) ==
    /\ d \in Seq(Word)
    /\ Len(d) = 13 + Len(Description(c)) + (IF c.leaving THEN 2 ELSE 0)
    /\ \A i \in 1..13 : d[i] = Report(c)[i]
    /\ \A i \in 1..Len(Description(c)) : d[13 + i] = Description(c)[i]
    /\ c.leaving => d[13 + Len(Description(c)) + 1] = Header(1, PacketBye, 2)

\* The description in a packet is one of the name and the mask
LEMMA DescribedAs ==
    ASSUME NEW c \in Reported
    PROVE  /\ DescriptionIn(Description(c), Cut(c.cname), GpioTag \o c.gpio)
           /\ Cut(c.cname) \in Seq(Byte) /\ Len(Cut(c.cname)) \in Byte
           /\ GpioTag \o c.gpio \in Seq(Byte) /\ Len(GpioTag \o c.gpio) = 9
<1> DEFINE name == Cut(c.cname)
           w == c.gpio
           mask == GpioTag \o w
           ssrc == c.report.ssrc
<1>1. c.cname \in Seq(Byte) /\ w \in Word /\ c.report \in Reports
  BY DEF Reported
<1>2. ssrc \in Word
  BY <1>1, ReportTypes
<1>3. name \in Seq(Byte) /\ Len(name) \in Byte
  BY <1>1, NameCut DEF Byte
<1>4. mask \in Seq(Byte) /\ Len(mask) = 9
  BY <1>1, MaskTagged
<1>5. ChunksOf(c) = TwoChunks(name, mask)
  BY <1>1, ChunksAre DEF TwoChunks
<1>6. Description(c) = WriteDescription(ssrc, TwoChunks(name, mask))
  BY <1>5 DEF Description
<1> HIDE DEF name, mask, ssrc
<1>7. DescriptionIn(WriteDescription(ssrc, TwoChunks(name, mask)), name, mask)
  BY <1>2, <1>3, <1>4, DescriptionWritten
<1> QED BY <1>3, <1>4, <1>6, <1>7 DEF name, mask

\* GenerateRtcpPacket: report, description, and the BYE of one who leaves
LEMMA PacketWritten ==
    ASSUME NEW c \in Reported
    PROVE  PacketIn(GenerateRtcpPacket(c), c)
<1> DEFINE sr == Report(c)
           sd == Description(c)
           ssrc == c.report.ssrc
           h == Header(1, PacketBye, 2)
           rest == IF c.leaving THEN << h, ssrc >> ELSE << >>
           both == sr \o sd
<1>1. c.report \in Reports /\ c.leaving \in BOOLEAN
  BY DEF Reported
<1>2. ssrc \in Word
  BY <1>1, ReportTypes
<1>3. sr \in Seq(Word) /\ Len(sr) = 13
  BY <1>1, ReportWritten DEF ReportIn, Report
<1>4. sd \in Seq(Word)
  BY DescribedAs DEF DescriptionIn
<1>5. h \in Word
  <2>1. 1 \in 0..31 /\ PacketBye \in Byte /\ 2 \in 1..MaxWords
    BY DEF PacketBye, Byte, MaxWords
  <2> QED BY <2>1, HeaderReads
<1>6. WriteBye(<< ssrc >>) = << h, ssrc >>
  <2>1. Len(<< ssrc >>) = 1 /\ 1 + 1 = 2
    OBVIOUS
  <2>2. WriteBye(<< ssrc >>) = << h >> \o << ssrc >>
    BY <2>1 DEF WriteBye
  <2>6. << h >> \in Seq(Word) /\ << ssrc >> \in Seq(Word) /\ << h, ssrc >> \in Seq(Word)
    BY <1>2, <1>5
  <2> HIDE DEF h, ssrc
  <2> DEFINE a == << h >>
             b == << ssrc >>
             e == << h, ssrc >>
  <2>3. a \in Seq(Word) /\ b \in Seq(Word)
    BY <2>6
  <2>4. /\ Len(a) = 1 /\ Len(b) = 1 /\ a[1] = h /\ b[1] = ssrc
        /\ e \in Seq(Word) /\ Len(e) = 2 /\ e[1] = h /\ e[2] = ssrc
    BY <2>6
  <2> HIDE DEF a, b, e
  <2>5. /\ a \o b \in Seq(Word) /\ Len(a \o b) = Len(a) + Len(b)
        /\ \A i \in 1..Len(a) : (a \o b)[i] = a[i]
        /\ \A i \in 1..Len(b) : (a \o b)[Len(a) + i] = b[i]
    BY <2>3, Joined
  <2>7. Len(a \o b) = 2 /\ (a \o b)[1] = h /\ (a \o b)[2] = ssrc
    BY <2>4, <2>5
  <2>8. \A i \in 1..2 : (a \o b)[i] = e[i]
    BY <2>4, <2>7
  <2>9. a \o b = e
    BY <2>4, <2>5, <2>7, <2>8, SeqEqual
  <2> QED BY <2>2, <2>9 DEF a, b, e
<1>7. GenerateRtcpPacket(c) = both \o rest
  BY <1>6 DEF GenerateRtcpPacket, Report, Description
<1> HIDE DEF sr, sd, ssrc, h
<1>8. /\ rest \in Seq(Word) /\ Len(rest) = IF c.leaving THEN 2 ELSE 0
      /\ c.leaving => rest[1] = h
  BY <1>1, <1>2, <1>5
<1> HIDE DEF rest
<1>9. /\ sr \o sd \in Seq(Word) /\ Len(sr \o sd) = Len(sr) + Len(sd)
      /\ Len(sr) \in Nat /\ Len(sd) \in Nat
      /\ \A i \in 1..Len(sr) : (sr \o sd)[i] = sr[i]
      /\ \A i \in 1..Len(sd) : (sr \o sd)[Len(sr) + i] = sd[i]
  <2>1. sr \in Seq(Word) /\ sd \in Seq(Word)
    BY <1>3, <1>4
  <2> QED BY <2>1, Joined
<1> HIDE DEF both
<1>10. /\ both \o rest \in Seq(Word) /\ Len(both \o rest) = Len(both) + Len(rest)
       /\ \A i \in 1..Len(both) : (both \o rest)[i] = both[i]
       /\ \A i \in 1..Len(rest) : (both \o rest)[Len(both) + i] = rest[i]
  <2>1. both \in Seq(Word) /\ rest \in Seq(Word)
    BY <1>8, <1>9 DEF both
  <2> QED BY <2>1, Joined
<1> DEFINE d == both \o rest
<1>11. Len(both) = 13 + Len(sd) /\ Len(sd) \in Nat
  BY <1>3, <1>9 DEF both
<1>12. Len(d) = 13 + Len(sd) + (IF c.leaving THEN 2 ELSE 0)
  BY <1>8, <1>10, <1>11
<1>13. ASSUME NEW i \in 1..13 PROVE d[i] = sr[i]
  <2>1. i \in 1..Len(both) /\ i \in 1..Len(sr)
    BY <1>3, <1>11
  <2>2. both[i] = sr[i]
    BY <1>9, <2>1 DEF both
  <2> QED BY <1>10, <2>1, <2>2
<1>14. ASSUME NEW i \in 1..Len(sd) PROVE d[13 + i] = sd[i]
  <2>1. 13 + i \in 1..Len(both)
    BY <1>11
  <2>2. both[13 + i] = sd[i]
    BY <1>3, <1>9 DEF both
  <2> QED BY <1>10, <2>1, <2>2
<1>15. c.leaving => d[13 + Len(sd) + 1] = h
  <2> SUFFICES ASSUME c.leaving PROVE d[13 + Len(sd) + 1] = h
    OBVIOUS
  <2>1. 1 \in 1..Len(rest) /\ rest[1] = h
    BY <1>8
  <2> QED BY <1>10, <1>11, <2>1
<1>16. d \in Seq(Word)
  BY <1>10
<1> HIDE DEF d
<1>17. PacketIn(d, c)
  BY <1>12, <1>13, <1>14, <1>15, <1>16 DEF PacketIn, sd, sr, h
<1> QED BY <1>7, <1>17 DEF d

-----------------------------------------------------------------------------
(* What starts where *)

\* The headers in a packet of which the description has s words
HeadersIn(d, c, s) ==
    /\ Version(d[1]) = 2 /\ PacketType(d[1]) = PacketSenderReport /\ Size(d[1]) = 13
    /\ Count(d[1]) = Len(c.report.blocks)
    /\ Version(d[14]) = 2 /\ PacketType(d[14]) = PacketSourceDescription /\ Size(d[14]) = s
    /\ Count(d[14]) = 2
    /\ c.leaving => /\ Version(d[14 + s]) = 2 /\ PacketType(d[14 + s]) = PacketBye
                    /\ Size(d[14 + s]) = 2

\* They are there
LEMMA HeadersAre ==
    ASSUME NEW c \in Reported, NEW d, PacketIn(d, c)
    PROVE  /\ Len(Description(c)) \in 7..71
           /\ HeadersIn(d, c, Len(Description(c)))
<1> DEFINE s == Len(Description(c))
           n == Len(c.report.blocks)
           h1 == Header(n, PacketSenderReport, 13)
           h2 == Header(2, PacketSourceDescription, s)
           h3 == Header(1, PacketBye, 2)
<1>1. n \in 0..31
  <2>1. c.report \in Reports
    BY DEF Reported
  <2>2. n \in {0, 1}
    BY <2>1, ReportTypes
  <2> QED BY <2>2
<1>2. s \in 7..71
  <2>1. s = 7 + ((2 + Len(Cut(c.cname))) \div 4) /\ Len(Cut(c.cname)) \in Byte
    BY DescribedAs DEF DescriptionIn
  <2> DEFINE l == Len(Cut(c.cname))
  <2> HIDE DEF l, s
  <2>2. s = 7 + ((2 + l) \div 4) /\ l \in Byte
    BY <2>1 DEF l
  <2> QED BY <2>2, SizeWithin
<1>3. d[1] = h1
  <2>1. c.report \in Reports
    BY DEF Reported
  <2>2. Report(c)[1] = h1
    BY <2>1, ReportWritten DEF ReportIn, Report
  <2>3. 1 \in 1..13
    OBVIOUS
  <2> QED BY <2>2, <2>3 DEF PacketIn
<1>4. d[14] = h2
  <2>1. Description(c)[1] = h2
    BY DescribedAs DEF DescriptionIn
  <2>2. 1 \in 1..Len(Description(c))
    <3> HIDE DEF s
    <3>1. 1 \in 1..s
      BY <1>2
    <3> QED BY <3>1 DEF s
  <2>3. d[13 + 1] = Description(c)[1]
    BY <2>2 DEF PacketIn
  <2> QED BY <2>1, <2>3
<1>5. c.leaving => d[14 + s] = h3
  <2>1. 13 + s + 1 = 14 + s
    BY <1>2
  <2> QED BY <2>1 DEF PacketIn
<1> HIDE DEF n, s
<1>6. /\ PacketSenderReport \in Byte /\ PacketSourceDescription \in Byte /\ PacketBye \in Byte
      /\ 13 \in 1..MaxWords /\ s \in 1..MaxWords /\ 2 \in 1..MaxWords
      /\ 1 \in 0..31 /\ 2 \in 0..31
  BY <1>2 DEF PacketSenderReport, PacketSourceDescription, PacketBye, Byte, MaxWords
<1>7. /\ Version(h1) = 2 /\ PacketType(h1) = PacketSenderReport /\ Size(h1) = 13
      /\ Count(h1) = n
  BY <1>1, <1>6, HeaderReads
<1>8. /\ Version(h2) = 2 /\ PacketType(h2) = PacketSourceDescription /\ Size(h2) = s
      /\ Count(h2) = 2
  BY <1>6, HeaderReads
<1>9. Version(h3) = 2 /\ PacketType(h3) = PacketBye /\ Size(h3) = 2
  BY <1>6, HeaderReads
<1> HIDE DEF h1, h2, h3
<1>10. HeadersIn(d, c, s)
  BY <1>3, <1>4, <1>5, <1>7, <1>8, <1>9 DEF HeadersIn, n
<1> QED BY <1>2, <1>10 DEF s

\* The reports start where they were written
LEMMA StartsAre ==
    ASSUME NEW c \in Reported, NEW d, PacketIn(d, c)
    PROVE  Starts(d) = {1, 14} \union (IF c.leaving THEN {14 + Len(Description(c))} ELSE {})
<1> DEFINE s == Len(Description(c))
           n == Len(d)
           Hop(f, i) == IF Version(d[i]) # 2 THEN {}
                        ELSE {i} \union (IF i + Size(d[i]) <= n THEN f[i + Size(d[i])] ELSE {})
<1>1. /\ s \in 7..71
      /\ n = 13 + s + (IF c.leaving THEN 2 ELSE 0)
      /\ HeadersIn(d, c, s)
  BY HeadersAre DEF PacketIn
<1>2. PICK f : Starts(d) = f[1] /\ Hops(f, d, 1)
  <2>1. d \in Seq(Word)
    BY DEF PacketIn
  <2> QED BY <2>1, StartsHop
<1> HIDE DEF s
<1>3. \A i \in 1..n : f[i] = Hop(f, i)
  BY <1>2 DEF Hops
<1>4. c.leaving \in BOOLEAN
  BY DEF Reported
<1> HIDE DEF n, Hop
<1>5. n \in Nat /\ 1 \in 1..n /\ 14 \in 1..n
  BY <1>1, <1>4
<1>6. f[1] = {1} \union f[14]
  <2>1. Version(d[1]) = 2 /\ Size(d[1]) = 13
    BY <1>1 DEF HeadersIn
  <2>2. f[1] = Hop(f, 1)
    BY <1>3, <1>5
  <2>3. 1 + Size(d[1]) = 14 /\ 14 <= n
    BY <1>5, <2>1
  <2> QED BY <2>1, <2>2, <2>3 DEF Hop
<1>7. Version(d[14]) = 2 /\ Size(d[14]) = s /\ f[14] = Hop(f, 14)
  BY <1>1, <1>3, <1>5 DEF HeadersIn
<1>8. CASE c.leaving
  <2>1. n = 15 + s /\ 14 + s \in 1..n /\ 14 + s <= n
    BY <1>1, <1>8
  <2>2. f[14] = {14} \union f[14 + s]
    BY <1>7, <2>1 DEF Hop
  <2>3. f[14 + s] = Hop(f, 14 + s)
    BY <1>3, <2>1
  <2>4. Version(d[14 + s]) = 2 /\ Size(d[14 + s]) = 2
    BY <1>1, <1>8 DEF HeadersIn
  <2>5. ~(14 + s + 2 <= n)
    BY <1>1, <2>1
  <2>6. f[14 + s] = {14 + s}
    BY <2>3, <2>4, <2>5 DEF Hop
  <2> QED BY <1>2, <1>6, <1>8, <2>2, <2>6 DEF s
<1>9. CASE ~c.leaving
  <2>1. ~(14 + s <= n)
    BY <1>1, <1>9
  <2>2. f[14] = {14}
    BY <1>7, <2>1 DEF Hop
  <2> QED BY <1>2, <1>6, <1>9, <2>2
<1> QED BY <1>8, <1>9

\* NothingMistaken, of any packet
LEMMA NothingMistakenIn ==
    ASSUME sent \in Reported
    PROVE  NothingMistaken
<1> DEFINE d == GenerateRtcpPacket(sent)
           s == Len(Description(sent))
<1>1. PacketIn(d, sent)
  BY PacketWritten
<1> HIDE DEF d
<1>2. s \in 7..71 /\ HeadersIn(d, sent, s)
  BY <1>1, HeadersAre
<1>3. Starts(d) = {1, 14} \union (IF sent.leaving THEN {14 + s} ELSE {})
  BY <1>1, StartsAre
<1>4. Len(WriteReport(sent.report)) = 13
  <2>1. sent.report \in Reports
    BY DEF Reported
  <2> QED BY <2>1, ReportWritten DEF ReportIn
<1>5. Len(WriteReport(sent.report)) + 1 = 14
  BY <1>4
<1> DEFINE start == Len(WriteReport(sent.report)) + 1
           Found == {<< i, PacketType(d[i]) >> : i \in Starts(d)}
<1> HIDE DEF s
<1>6. Found = {<< 1, PacketSenderReport >>, << 14, PacketSourceDescription >>}
              \union (IF sent.leaving THEN {<< 14 + s, PacketBye >>} ELSE {})
  <2>1. PacketType(d[1]) = PacketSenderReport /\ PacketType(d[14]) = PacketSourceDescription
    BY <1>2 DEF HeadersIn
  <2>2. sent.leaving => PacketType(d[14 + s]) = PacketBye
    BY <1>2 DEF HeadersIn
  <2>3. CASE sent.leaving
    <3>1. Starts(d) = {1, 14, 14 + s}
      BY <1>3, <2>3
    <3>2. Found = {<< 1, PacketType(d[1]) >>, << 14, PacketType(d[14]) >>,
                   << 14 + s, PacketType(d[14 + s]) >>}
      BY <3>1
    <3> HIDE DEF Found
    <3> QED BY <2>1, <2>2, <2>3, <3>2
  <2>4. CASE ~sent.leaving
    <3>1. Starts(d) = {1, 14}
      BY <1>3, <2>4
    <3>2. Found = {<< 1, PacketType(d[1]) >>, << 14, PacketType(d[14]) >>}
      BY <3>1
    <3> HIDE DEF Found
    <3> QED BY <2>1, <2>4, <3>2
  <2> QED BY <2>3, <2>4
<1>7. start + Len(WriteDescription(sent.report.ssrc, ChunksOf(sent))) = 14 + s
  BY <1>5 DEF s, Description
<1> QED BY <1>5, <1>6, <1>7 DEF NothingMistaken, d

-----------------------------------------------------------------------------
(* What is read: the sender report *)

\* FirstOf, where one report is of the type, and where none is
LEMMA FirstIs ==
    ASSUME NEW d, NEW pt, NEW k \in Nat, {i \in Starts(d) : PacketType(d[i]) = pt} = {k}
    PROVE  FirstOf(d, pt) = SubSeq(d, k, Len(d))
<1> DEFINE S == {i \in Starts(d) : PacketType(d[i]) = pt}
<1>1. S = {k}
  OBVIOUS
<1>2. FirstOf(d, pt) = IF S = {} THEN << >>
                       ELSE SubSeq(d, CHOOSE i \in S : \A j \in S : i <= j, Len(d))
  BY DEF FirstOf
<1> HIDE DEF S
<1>3. (CHOOSE i \in S : \A j \in S : i <= j) = k
  BY <1>1
<1>4. S # {}
  BY <1>1
<1> QED BY <1>2, <1>3, <1>4

\* FirstOf, for each type
LEMMA FirstsAre ==
    ASSUME NEW c \in Reported, NEW d, PacketIn(d, c)
    PROVE  /\ FirstOf(d, PacketSenderReport) = SubSeq(d, 1, Len(d))
           /\ FirstOf(d, PacketSourceDescription) = SubSeq(d, 14, Len(d))
           /\ c.leaving => FirstOf(d, PacketBye)
                             = SubSeq(d, 14 + Len(Description(c)), Len(d))
           /\ ~c.leaving => FirstOf(d, PacketBye) = << >>
<1> DEFINE s == Len(Description(c))
           Of(pt) == {i \in Starts(d) : PacketType(d[i]) = pt}
<1>1. s \in 7..71 /\ HeadersIn(d, c, s)
  BY HeadersAre
<1>2. Starts(d) = {1, 14} \union (IF c.leaving THEN {14 + s} ELSE {})
  BY StartsAre
<1> HIDE DEF s
<1>3. /\ PacketType(d[1]) = PacketSenderReport
      /\ PacketType(d[14]) = PacketSourceDescription
      /\ c.leaving => PacketType(d[14 + s]) = PacketBye
  BY <1>1 DEF HeadersIn
<1>4. /\ PacketSenderReport # PacketSourceDescription /\ PacketSenderReport # PacketBye
      /\ PacketSourceDescription # PacketBye
  BY DEF PacketSenderReport, PacketSourceDescription, PacketBye
<1>5. Of(PacketSenderReport) = {1}
  BY <1>2, <1>3, <1>4
<1>6. Of(PacketSourceDescription) = {14}
  BY <1>2, <1>3, <1>4
<1>7. c.leaving => Of(PacketBye) = {14 + s}
  BY <1>2, <1>3, <1>4
<1>8. ~c.leaving => Of(PacketBye) = {}
  BY <1>2, <1>3, <1>4
<1>9. FirstOf(d, PacketSenderReport) = SubSeq(d, 1, Len(d))
  BY <1>5, FirstIs
<1>10. FirstOf(d, PacketSourceDescription) = SubSeq(d, 14, Len(d))
  BY <1>6, FirstIs
<1>11. c.leaving => FirstOf(d, PacketBye) = SubSeq(d, 14 + s, Len(d))
  <2>1. 14 + s \in Nat
    BY <1>1
  <2> QED BY <1>7, <2>1, FirstIs
<1>12. ~c.leaving => FirstOf(d, PacketBye) = << >>
  BY <1>8 DEF FirstOf
<1> QED BY <1>9, <1>10, <1>11, <1>12 DEF s

\* What follows a place in a packet
LEMMA TailAt ==
    ASSUME NEW S, NEW d \in Seq(S), NEW k \in 1..Len(d)
    PROVE  /\ SubSeq(d, k, Len(d)) \in Seq(S) /\ Len(SubSeq(d, k, Len(d))) = Len(d) - k + 1
           /\ \A i \in 1..(Len(d) - k + 1) : SubSeq(d, k, Len(d))[i] = d[k + i - 1]
<1> DEFINE n == Len(d)
<1>1. n \in Nat
  BY LenProperties
<1>2. \A i \in 1..n : d[i] \in S
  BY ElementOfSeq
<1>3. \A i \in k..n : d[i] \in S
  BY <1>1, <1>2
<1>4. k \in Int /\ n \in Int /\ k <= n
  BY <1>1
<1> HIDE DEF n
<1>5. /\ SubSeq(d, k, n) \in Seq(S)
      /\ Len(SubSeq(d, k, n)) = IF k <= n THEN n - k + 1 ELSE 0
      /\ \A i \in 1 .. n - k + 1 : SubSeq(d, k, n)[i] = d[k + i - 1]
  BY <1>3, <1>4, SubSeqProperties
<1> QED BY <1>4, <1>5 DEF n

\* A block is read as it was
LEMMA BlockRead ==
    ASSUME NEW b \in Blocks, Exact(b), NEW e, \A i \in 1..6 : e[i] = WriteBlock(b)[i]
    PROVE  ReadBlock(e) = b
<1>1. /\ e[1] = b.ssrc /\ e[2] = << b.fraction % 16, 0, b.lost[1] % 8, b.lost[2] >>
      /\ e[3] = b.highest /\ e[4] = b.jitter /\ e[5] = b.lsr /\ e[6] = b.delay
  <2>1. \A i \in {1, 2, 3, 4, 5, 6} : e[i] = WriteBlock(b)[i]
    OBVIOUS
  <2> QED BY <2>1, BlockWritten
<1>2. b.fraction \in Byte /\ b.lost \in Byte \X Byte
  BY DEF Blocks
<1>3. b.fraction % 16 = b.fraction
  <2> DEFINE f == b.fraction
  <2>1. f \in 0..15
    BY <1>2 DEF Exact, Byte
  <2> HIDE DEF f
  <2>2. f % 16 = f
    BY <2>1
  <2> QED BY <2>2 DEF f
<1>4. (b.lost[1] % 8) % 8 = b.lost[1]
  <2> DEFINE f == b.lost[1]
  <2>1. f \in 0..7
    BY <1>2 DEF Exact, Byte
  <2> HIDE DEF f
  <2>2. f % 8 = f
    BY <2>1
  <2> QED BY <2>2 DEF f
<1>5. << (b.lost[1] % 8) % 8, b.lost[2] >> = b.lost
  BY <1>2, <1>4
<1>6. /\ e[2][1] = b.fraction % 16 /\ e[2][3] = b.lost[1] % 8 /\ e[2][4] = b.lost[2]
  BY <1>1
<1>7. << e[2][3] % 8, e[2][4] >> = b.lost
  BY <1>5, <1>6
<1>8. ReadBlock(e) = [ssrc |-> b.ssrc, fraction |-> b.fraction, lost |-> b.lost,
                      highest |-> b.highest, jitter |-> b.jitter, lsr |-> b.lsr,
                      delay |-> b.delay]
  BY <1>1, <1>3, <1>6, <1>7 DEF ReadBlock
<1>9. b = [ssrc |-> b.ssrc, fraction |-> b.fraction, lost |-> b.lost,
           highest |-> b.highest, jitter |-> b.jitter, lsr |-> b.lsr, delay |-> b.delay]
  BY DEF Blocks
<1> QED BY <1>8, <1>9

\* A sender report is read as it was
ReadRight(got, r) ==
    /\ \A f \in DOMAIN r \ {"blocks"} : got[f] = r[f]
    /\ DOMAIN got.blocks = DOMAIN r.blocks
    /\ \A i \in DOMAIN r.blocks : Exact(r.blocks[i]) => got.blocks[i] = r.blocks[i]

\* ReadReport, of what WriteReport wrote
LEMMA ReportRead ==
    ASSUME NEW r \in Reports, NEW d \in Seq(Word), Len(d) >= 13,
           \A i \in 1..13 : d[i] = WriteReport(r)[i], Count(d[1]) = Len(r.blocks)
    PROVE  ReadRight(ReadReport(d), r)
<1> DEFINE n == Len(r.blocks)
           got == ReadReport(d)
           Tl(i) == SubSeq(d, ReportBase + BlockSize * (i - 1) + 1, Len(d))
<1>1. /\ r.ntp \in Word \X Word /\ r.blocks \in Seq(Blocks) /\ n \in {0, 1}
      /\ n = 1 => r.blocks[1] \in Blocks
  BY ReportTypes
<1>2. /\ d[2] = r.ssrc /\ d[3] = r.ntp[1] /\ d[4] = r.ntp[2] /\ d[5] = r.rtp
      /\ d[6] = r.packets /\ d[7] = r.octets
  <2>1. \A i \in {2, 3, 4, 5, 6, 7} : d[i] = WriteReport(r)[i]
    OBVIOUS
  <2> QED BY <2>1, ReportWritten DEF ReportIn
<1>3. /\ got.ssrc = d[2] /\ got.ntp = << d[3], d[4] >> /\ got.rtp = d[5]
      /\ got.packets = d[6] /\ got.octets = d[7]
      /\ got.blocks = [i \in 1..n |-> ReadBlock(Tl(i))]
  BY DEF ReadReport
<1> HIDE DEF got, n, Tl
<1>4. << d[3], d[4] >> = r.ntp
  BY <1>1, <1>2
<1>5. DOMAIN r = {"ssrc", "ntp", "rtp", "packets", "octets", "blocks"}
  BY DEF Reports
<1>6. \A f \in DOMAIN r \ {"blocks"} : got[f] = r[f]
  BY <1>2, <1>3, <1>4, <1>5
<1>7. DOMAIN r.blocks = 1..n
  BY <1>1, LenProperties DEF n
<1>8. DOMAIN got.blocks = 1..n
  BY <1>3
<1>9. ASSUME NEW i \in 1..n, Exact(r.blocks[i]) PROVE got.blocks[i] = r.blocks[i]
  <2>1. i = 1 /\ n = 1
    BY <1>1
  <2> DEFINE b == r.blocks[1]
             m == Len(d)
             e == SubSeq(d, 8, m)
  <2>2. b \in Blocks /\ Exact(b)
    BY <1>1, <1>9, <2>1
  <2>3. m \in Nat /\ 8 \in 1..m /\ m >= 13
    BY LenProperties
  <2>4. \A k \in 1..(m - 8 + 1) : e[k] = d[8 + k - 1]
    BY <2>3, TailAt
  <2> HIDE DEF m, e, b
  <2>5. ASSUME NEW k \in 1..6 PROVE e[k] = WriteBlock(b)[k]
    <3>1. k \in 1..(m - 8 + 1) /\ 8 + k - 1 = 7 + k /\ 7 + k \in 1..13
      BY <2>3
    <3>2. e[k] = d[7 + k]
      BY <2>4, <3>1
    <3>3. d[7 + k] = WriteReport(r)[7 + k]
      BY <3>1
    <3>4. WriteReport(r)[7 + k] = WriteBlock(b)[k]
      BY <2>1, ReportWritten DEF ReportIn, b, n
    <3> QED BY <3>2, <3>3, <3>4
  <2>6. ReadBlock(e) = b
    BY <2>2, <2>5, BlockRead
  <2>7. Tl(1) = e
    BY DEF Tl, e, m, ReportBase, BlockSize
  <2>8. got.blocks[1] = ReadBlock(Tl(1))
    BY <1>3, <2>1
  <2> QED BY <2>1, <2>6, <2>7, <2>8 DEF b
<1> QED BY <1>6, <1>7, <1>8, <1>9 DEF ReadRight, got

-----------------------------------------------------------------------------
(* What is read: the description *)

\* What ReadDescription works on: the bytes of the words after the header and the source
\* begin with the chunks, whatever follows the description
LEMMA BytesFollow ==
    ASSUME NEW name \in Seq(Byte), Len(name) \in Byte, NEW mask \in Seq(Byte), Len(mask) = 9,
           NEW sd, DescriptionIn(sd, name, mask),
           NEW e \in Seq(Word), Len(e) >= Len(sd), \A i \in 1..Len(sd) : e[i] = sd[i]
    PROVE  LET bytes == FlattenSeq(SubSeq(e, 3, Len(e))) IN
           \A i \in 1..(13 + Len(name)) : bytes[i] = ChunkBytes(TwoChunks(name, mask))[i]
<1> DEFINE l == Len(name)
           s == Len(sd)
           m == Len(e)
           ws == SubSeq(e, 3, m)
           cb == ChunkBytes(TwoChunks(name, mask))
<1>1. s = 7 + ((2 + l) \div 4) /\ l \in Byte
  BY DEF DescriptionIn
<1>2. \A i \in 1..(13 + l) : i <= 4 * (s - 2) /\ sd[2 + At(i)][In(i)] = cb[i]
  BY DEF DescriptionIn
<1>3. m \in Nat /\ m >= s /\ \A i \in 1..s : e[i] = sd[i]
  BY LenProperties
<1> HIDE DEF l, s, cb
<1>4. s \in 7..71
  BY <1>1, SizeWithin
<1>5. 3 \in 1..Len(e)
  <2>1. 3 \in 1..m
    BY <1>3, <1>4
  <2> QED BY <2>1
<1>6. /\ ws \in Seq(Word) /\ Len(ws) = m - 3 + 1
      /\ \A i \in 1..(m - 3 + 1) : ws[i] = e[3 + i - 1]
  BY <1>5, TailAt
<1> HIDE DEF m, ws
<1>7. ASSUME NEW i \in 1..(13 + l) PROVE FlattenSeq(ws)[i] = cb[i]
  <2>1. i \in 1..(4 * (s - 2)) /\ s - 2 \in Nat /\ s - 2 <= m - 3 + 1
    BY <1>1, <1>2, <1>3, <1>4 DEF Byte
  <2>2. At(i) \in 1..(s - 2)
    BY <2>1, PlaceWithin
  <2>3. i \in 1..(4 * Len(ws)) /\ Len(ws) # 0
    BY <1>3, <1>4, <1>6, <2>1
  <2>4. FlattenSeq(ws)[i] = ws[At(i)][In(i)]
    BY <1>6, <2>3, BytesAre
  <2>5. ws[At(i)] = e[2 + At(i)]
    <3>1. At(i) \in 1..(m - 3 + 1) /\ 3 + At(i) - 1 = 2 + At(i)
      BY <1>3, <1>4, <2>1, <2>2
    <3> QED BY <1>6, <3>1
  <2>6. e[2 + At(i)] = sd[2 + At(i)]
    <3> DEFINE a == At(i)
    <3>1. a \in 1..(s - 2) /\ s \in Nat
      BY <1>4, <2>2
    <3> HIDE DEF a
    <3>2. 2 + a \in 1..s
      BY <3>1
    <3>3. e[2 + a] = sd[2 + a]
      BY <1>3, <3>2
    <3> QED BY <3>3 DEF a
  <2> QED BY <1>2, <2>4, <2>5, <2>6
<1> QED BY <1>7 DEF m, ws, cb, l

\* Where the two chunks are
ChunksAt(bytes, at) ==
    at = [i \in 1..3 |-> IF i = 1 THEN 1 ELSE at[i - 1] + 2 + bytes[at[i - 1] + 1]]

\* ReadDescription goes by such places, where there are any
LEMMA ReadAt ==
    ASSUME NEW e, Count(e[1]) = 2
    PROVE  \A bytes : bytes = FlattenSeq(SubSeq(e, 3, Len(e)))
             => \E at : /\ (\E f : ChunksAt(bytes, f)) => ChunksAt(bytes, at)
                        /\ ReadDescription(e) =
                             [i \in 1..2 |-> [type |-> bytes[at[i]],
                                              data |-> SubSeq(bytes, at[i] + 2, at[i + 1] - 1)]]
<1> TAKE bytes
<1> HAVE bytes = FlattenSeq(SubSeq(e, 3, Len(e)))
<1> DEFINE P(at) == at = [i \in 1..(2 + 1) |-> IF i = 1 THEN 1
                                             ELSE at[i - 1] + 2 + bytes[at[i - 1] + 1]]
           at0 == CHOOSE at : P(at)
<1>1. ReadDescription(e) =
        [i \in 1..2 |-> [type |-> bytes[at0[i]],
                         data |-> SubSeq(bytes, at0[i] + 2, at0[i + 1] - 1)]]
  BY DEF ReadDescription
<1>2. \A f : P(f) <=> ChunksAt(bytes, f)
  <2>1. 1..(2 + 1) = 1..3
    OBVIOUS
  <2> QED BY <2>1 DEF ChunksAt
<1>3. (\E f : P(f)) => P(at0)
  <2> HIDE DEF P
  <2> QED OBVIOUS
<1> HIDE DEF P, at0
<1> QED BY <1>1, <1>2, <1>3

\* There are, and they are those of the two chunks
LEMMA AtIs ==
    ASSUME NEW bytes, NEW l \in Nat, bytes[2] = l, bytes[4 + l] = 9
    PROVE  /\ \E f : ChunksAt(bytes, f)
           /\ \A at : ChunksAt(bytes, at) => at[1] = 1 /\ at[2] = 3 + l /\ at[3] = 14 + l
<1> DEFINE f == [i \in 1..3 |-> IF i = 1 THEN 1 ELSE IF i = 2 THEN 3 + l ELSE 14 + l]
<1>1. ChunksAt(bytes, f)
  <2>1. f[1] = 1 /\ f[2] = 3 + l /\ f[3] = 14 + l
    OBVIOUS
  <2>2. f = [i \in 1..3 |-> f[i]]
    OBVIOUS
  <2> HIDE DEF f
  <2>3. f[2] = f[1] + 2 + bytes[f[1] + 1]
    BY <2>1
  <2>4. f[3] = f[2] + 2 + bytes[f[2] + 1]
    <3>1. 3 + l + 1 = 4 + l /\ 3 + l + 2 + 9 = 14 + l
      OBVIOUS
    <3> QED BY <2>1, <3>1
  <2>5. \A i \in 1..3 : f[i] = IF i = 1 THEN 1 ELSE f[i - 1] + 2 + bytes[f[i - 1] + 1]
    <3> TAKE i \in 1..3
    <3>1. i = 1 \/ i = 2 \/ i = 3
      OBVIOUS
    <3>2. CASE i = 1
      BY <2>1, <3>2
    <3>3. CASE i = 2
      <4>1. i - 1 = 1 /\ i # 1
        BY <3>3
      <4> QED BY <2>3, <3>3, <4>1
    <3>4. CASE i = 3
      <4>1. i - 1 = 2 /\ i # 1
        BY <3>4
      <4> QED BY <2>4, <3>4, <4>1
    <3> QED BY <3>1, <3>2, <3>3, <3>4
  <2> QED BY <2>2, <2>5 DEF ChunksAt
<1>2. ASSUME NEW at, ChunksAt(bytes, at)
      PROVE  at[1] = 1 /\ at[2] = 3 + l /\ at[3] = 14 + l
  <2>1. \A i \in 1..3 : at[i] = IF i = 1 THEN 1 ELSE at[i - 1] + 2 + bytes[at[i - 1] + 1]
    BY <1>2 DEF ChunksAt
  <2>2. 1 \in 1..3 /\ 2 \in 1..3 /\ 3 \in 1..3 /\ 2 - 1 = 1 /\ 3 - 1 = 2 /\ 2 # 1 /\ 3 # 1
    OBVIOUS
  <2>3. at[1] = 1
    BY <2>1
  <2>4. at[2] = at[1] + 2 + bytes[at[1] + 1]
    BY <2>1, <2>2
  <2>5. at[2] = 3 + l
    BY <2>3, <2>4
  <2>6. at[3] = at[2] + 2 + bytes[at[2] + 1]
    BY <2>1, <2>2
  <2>7. 3 + l + 1 = 4 + l /\ 3 + l + 2 + 9 = 14 + l
    OBVIOUS
  <2>8. at[3] = 14 + l
    BY <2>5, <2>6, <2>7
  <2> QED BY <2>3, <2>5, <2>8
<1> QED BY <1>1, <1>2

\* A run of bytes read from where it was written
LEMMA RunRead ==
    ASSUME NEW bytes, NEW k \in Nat, NEW data \in Seq(Byte),
           \A i \in 1..Len(data) : bytes[k + i] = data[i]
    PROVE  SubSeq(bytes, k + 1, k + Len(data)) = data
<1> DEFINE n == Len(data)
           got == SubSeq(bytes, k + 1, k + n)
<1>1. n \in Nat /\ \A i \in 1..n : data[i] \in Byte /\ bytes[k + i] = data[i]
  BY LenProperties, ElementOfSeq
<1> HIDE DEF n
<1>2. ASSUME NEW j \in (k + 1)..(k + n) PROVE bytes[j] \in Byte
  <2>1. j - k \in 1..n /\ k + (j - k) = j
    BY <1>1
  <2>2. bytes[k + (j - k)] = data[j - k] /\ data[j - k] \in Byte
    BY <1>1, <2>1
  <2> QED BY <2>1, <2>2
<1>3. /\ k + 1 \in Int /\ k + n \in Int /\ (k + n) - (k + 1) + 1 = n
      /\ k + 1 <= k + n <=> n # 0
  BY <1>1
<1>4. /\ got \in Seq(Byte)
      /\ Len(got) = IF k + 1 <= k + n THEN (k + n) - (k + 1) + 1 ELSE 0
      /\ \A i \in 1..((k + n) - (k + 1) + 1) : got[i] = bytes[(k + 1) + i - 1]
  <2> DEFINE p == k + 1
             q == k + n
  <2>1. p \in Int /\ q \in Int /\ \A j \in p..q : bytes[j] \in Byte
    BY <1>2, <1>3
  <2> HIDE DEF p, q
  <2>2. /\ SubSeq(bytes, p, q) \in Seq(Byte)
        /\ Len(SubSeq(bytes, p, q)) = IF p <= q THEN q - p + 1 ELSE 0
        /\ \A i \in 1..(q - p + 1) : SubSeq(bytes, p, q)[i] = bytes[p + i - 1]
    BY <2>1, SubSeqProperties
  <2> QED BY <2>2 DEF p, q
<1> HIDE DEF got
<1>5. Len(got) = n
  BY <1>1, <1>3, <1>4
<1>6. ASSUME NEW i \in 1..n PROVE got[i] = data[i]
  <2>1. (k + 1) + i - 1 = k + i
    BY <1>1
  <2> QED BY <1>1, <1>3, <1>4, <2>1
<1>7. got = data
  <2>1. Len(got) = Len(data) /\ \A i \in 1..Len(got) : got[i] = data[i]
    BY <1>5, <1>6 DEF n
  <2>2. got \in Seq(Byte) /\ data \in Seq(Byte)
    BY <1>4
  <2> QED BY <2>1, <2>2, SeqEqual
<1> QED BY <1>7 DEF got, n

-----------------------------------------------------------------------------
(* The round trip *)

\* A description is read as its two chunks
LEMMA DescriptionRead ==
    ASSUME NEW name \in Seq(Byte), Len(name) \in Byte, NEW mask \in Seq(Byte), Len(mask) = 9,
           NEW sd, DescriptionIn(sd, name, mask), Count(sd[1]) = 2,
           NEW e \in Seq(Word), Len(e) >= Len(sd), \A i \in 1..Len(sd) : e[i] = sd[i]
    PROVE  ReadDescription(e)
             = [i \in 1..2 |-> IF i = 1 THEN [type |-> 1, data |-> name]
                                        ELSE [type |-> 8, data |-> mask]]
<1> DEFINE l == Len(name)
           cb == ChunkBytes(TwoChunks(name, mask))
           bytes == FlattenSeq(SubSeq(e, 3, Len(e)))
<1>1. l \in Nat
  BY LenProperties
<1>2. \A i \in 1..(13 + l) : bytes[i] = cb[i]
  BY BytesFollow
<1>3. /\ cb[1] = 1 /\ cb[2] = l /\ cb[3 + l] = 8 /\ cb[4 + l] = 9
      /\ \A i \in 1..l : cb[2 + i] = name[i]
      /\ \A i \in 1..9 : cb[4 + l + i] = mask[i]
  BY ChunkBytesAre DEF ChunksIn
<1>4. Count(e[1]) = 2
  <2>1. 1 \in 1..Len(sd)
    <3> DEFINE s == Len(sd)
    <3>1. s = 7 + ((2 + l) \div 4) /\ l \in Byte
      BY DEF DescriptionIn
    <3> HIDE DEF l, s
    <3>2. s \in 7..71
      BY <3>1, SizeWithin
    <3>3. 1 \in 1..s
      BY <3>2
    <3> QED BY <3>3 DEF s
  <2>2. e[1] = sd[1]
    BY <2>1
  <2> QED BY <2>2
<1>5. PICK at : /\ (\E f : ChunksAt(bytes, f)) => ChunksAt(bytes, at)
                /\ ReadDescription(e) =
                     [i \in 1..2 |-> [type |-> bytes[at[i]],
                                      data |-> SubSeq(bytes, at[i] + 2, at[i + 1] - 1)]]
  BY <1>4, ReadAt
<1> HIDE DEF l, cb, bytes
<1>6. bytes[1] = 1 /\ bytes[2] = l /\ bytes[3 + l] = 8 /\ bytes[4 + l] = 9
  <2>1. /\ 1 \in 1..(13 + l) /\ 2 \in 1..(13 + l) /\ 3 + l \in 1..(13 + l)
        /\ 4 + l \in 1..(13 + l)
    BY <1>1
  <2> QED BY <1>2, <1>3, <2>1
<1>7. at[1] = 1 /\ at[2] = 3 + l /\ at[3] = 14 + l
  BY <1>1, <1>5, <1>6, AtIs
<1>8. SubSeq(bytes, 3, 2 + l) = name
  <2>1. ASSUME NEW i \in 1..l PROVE bytes[2 + i] = name[i]
    <3>1. 2 + i \in 1..(13 + l)
      BY <1>1
    <3> QED BY <1>2, <1>3, <3>1
  <2>2. \A i \in 1..Len(name) : bytes[2 + i] = name[i]
    BY <2>1 DEF l
  <2>3. SubSeq(bytes, 2 + 1, 2 + Len(name)) = name
    BY <2>2, RunRead
  <2> QED BY <2>3 DEF l
<1>9. SubSeq(bytes, 5 + l, 13 + l) = mask
  <2>1. ASSUME NEW i \in 1..9 PROVE bytes[(4 + l) + i] = mask[i]
    <3>1. 4 + l + i \in 1..(13 + l)
      BY <1>1
    <3> QED BY <1>2, <1>3, <3>1
  <2>2. \A i \in 1..Len(mask) : bytes[(4 + l) + i] = mask[i]
    BY <2>1
  <2> DEFINE k == 4 + l
  <2>3. k \in Nat /\ k + 1 = 5 + l /\ k + Len(mask) = 13 + l
    BY <1>1
  <2> HIDE DEF k
  <2>4. \A i \in 1..Len(mask) : bytes[k + i] = mask[i]
    BY <2>2 DEF k
  <2>5. SubSeq(bytes, k + 1, k + Len(mask)) = mask
    BY <2>3, <2>4, RunRead
  <2> QED BY <2>3, <2>5
<1> DEFINE Chunk(i) == [type |-> bytes[at[i]],
                        data |-> SubSeq(bytes, at[i] + 2, at[i + 1] - 1)]
<1>10. Chunk(1) = [type |-> 1, data |-> name]
  <2>1. at[1] + 2 = 3 /\ at[1 + 1] - 1 = 2 + l
    BY <1>1, <1>7
  <2> QED BY <1>6, <1>7, <1>8, <2>1
<1>11. Chunk(2) = [type |-> 8, data |-> mask]
  <2>1. at[2] + 2 = 5 + l /\ at[2 + 1] - 1 = 13 + l
    BY <1>1, <1>7
  <2> QED BY <1>6, <1>7, <1>9, <2>1
<1>12. ReadDescription(e) = [i \in 1..2 |-> Chunk(i)]
  BY <1>5
<1> HIDE DEF Chunk
<1>13. \A i \in 1..2 : Chunk(i) = IF i = 1 THEN [type |-> 1, data |-> name]
                                          ELSE [type |-> 8, data |-> mask]
  <2> TAKE i \in 1..2
  <2>1. i = 1 \/ i = 2
    OBVIOUS
  <2>2. CASE i = 1
    BY <1>10, <2>2
  <2>3. CASE i = 2
    BY <1>11, <2>3
  <2> QED BY <2>1, <2>2, <2>3
<1> QED BY <1>12, <1>13

\* Told, of each of the two chunks
LEMMA ToldIs ==
    ASSUME NEW name, NEW mask, NEW chunks,
           chunks = [i \in 1..2 |-> IF i = 1 THEN [type |-> 1, data |-> name]
                                             ELSE [type |-> 8, data |-> mask]]
    PROVE  Told(chunks, ChunkCname) = name /\ Told(chunks, ChunkPriv) = mask
<1> DEFINE These(t) == {i \in DOMAIN chunks : chunks[i].type = t}
<1>1. /\ DOMAIN chunks = 1..2 /\ chunks[1] = [type |-> 1, data |-> name]
      /\ chunks[2] = [type |-> 8, data |-> mask]
  OBVIOUS
<1>2. /\ chunks[1].type = 1 /\ chunks[1].data = name
      /\ chunks[2].type = 8 /\ chunks[2].data = mask
  BY <1>1
<1>3. These(ChunkCname) = {1} /\ These(ChunkPriv) = {2}
  <2>1. \A i \in DOMAIN chunks : i = 1 \/ i = 2
    BY <1>1
  <2>2. 1 \in DOMAIN chunks /\ 2 \in DOMAIN chunks
    BY <1>1
  <2> QED BY <1>2, <2>1, <2>2 DEF ChunkCname, ChunkPriv
<1>4. Max({1}) = 1 /\ Max({2}) = 2
  BY DEF Max
<1> HIDE DEF These
<1>5. Told(chunks, ChunkCname) = IF These(ChunkCname) = {} THEN << >>
                                 ELSE chunks[Max(These(ChunkCname))].data
  BY DEF Told, These
<1>6. Told(chunks, ChunkPriv) = IF These(ChunkPriv) = {} THEN << >>
                                ELSE chunks[Max(These(ChunkPriv))].data
  BY DEF Told, These
<1> QED BY <1>2, <1>3, <1>4, <1>5, <1>6

\* ReadPrivateSourceChunk, of a tagged mask
LEMMA MaskRead ==
    ASSUME NEW w \in Word
    PROVE  GpioOf(GpioTag \o w) = w
<1> DEFINE m == GpioTag \o w
<1>1. /\ Len(m) = 9 /\ \A i \in 1..5 : m[i] = GpioTag[i]
      /\ \A i \in 1..4 : m[5 + i] = w[i]
  BY MaskTagged
<1>2. w \in Seq(Byte) /\ Len(w) = 4
  BY WordIs
<1>3. GpioTag \in Seq(Byte) /\ Len(GpioTag) = 5
  <2>1. 4 \in Byte /\ 71 \in Byte /\ 80 \in Byte /\ 73 \in Byte /\ 79 \in Byte
    BY DEF Byte
  <2> QED BY <2>1 DEF GpioTag
<1> HIDE DEF m
<1>4. SubSeq(m, 1, 5) = GpioTag
  <2> DEFINE k == 0
  <2>1. k \in Nat /\ k + 1 = 1 /\ k + Len(GpioTag) = 5
    BY <1>3
  <2>2. \A i \in 1..Len(GpioTag) : m[k + i] = GpioTag[i]
    BY <1>1, <1>3
  <2> HIDE DEF k
  <2>3. SubSeq(m, k + 1, k + Len(GpioTag)) = GpioTag
    BY <1>3, <2>1, <2>2, RunRead
  <2> QED BY <2>1, <2>3
<1>5. SubSeq(m, 6, 9) = w
  <2>1. \A i \in 1..Len(w) : m[5 + i] = w[i]
    BY <1>1, <1>2
  <2>2. SubSeq(m, 5 + 1, 5 + Len(w)) = w
    BY <1>2, <2>1, RunRead
  <2>3. 5 + Len(w) = 9
    BY <1>2
  <2> QED BY <2>2, <2>3
<1> QED BY <1>1, <1>4, <1>5 DEF GpioOf, m

-----------------------------------------------------------------------------
\* RoundTrip, of any report
LEMMA RoundTripOf ==
    ASSUME sent \in Reported
    PROVE  RoundTrip
<1> DEFINE c == sent
           d == GenerateRtcpPacket(sent)
           name == Cut(sent.cname)
           mask == GpioTag \o sent.gpio
           sd == Description(sent)
           e == SubSeq(d, 14, Len(d))
           sr == SubSeq(d, 1, Len(d))
           s == Len(sd)
           n == Len(d)
           got == RtcpReceiveData(d)
<1>1. PacketIn(d, sent)
  BY PacketWritten
<1>2. sent.report \in Reports /\ sent.gpio \in Word /\ sent.leaving \in BOOLEAN
  BY DEF Reported
<1> HIDE DEF d
<1>3. s \in 7..71 /\ HeadersIn(d, sent, s)
  BY <1>1, HeadersAre
<1>4. /\ d \in Seq(Word) /\ n = 13 + s + (IF sent.leaving THEN 2 ELSE 0)
      /\ \A i \in 1..13 : d[i] = WriteReport(sent.report)[i]
      /\ \A i \in 1..s : d[13 + i] = sd[i]
  BY <1>1 DEF PacketIn, Report
<1> HIDE DEF s, n
<1>5. n \in Nat /\ n >= 13 + s /\ (sent.leaving => n = 15 + s)
  BY <1>2, <1>3, <1>4
<1>6. /\ FirstOf(d, PacketSenderReport) = sr
      /\ FirstOf(d, PacketSourceDescription) = e
      /\ sent.leaving => FirstOf(d, PacketBye) = SubSeq(d, 14 + s, n)
      /\ ~sent.leaving => FirstOf(d, PacketBye) = << >>
  BY <1>1, FirstsAre DEF s, n
\* the sender report
<1>7. sr = d
  BY <1>4, SubSeqFull
<1>8. sr # << >>
  <2>1. n # 0
    BY <1>3, <1>5
  <2>2. d # << >>
    BY <2>1 DEF n
  <2> QED BY <1>7, <2>2
<1>9. ReadRight(ReadReport(sr), sent.report)
  <2>1. Len(d) >= 13 /\ Count(d[1]) = Len(sent.report.blocks)
    BY <1>3, <1>5 DEF HeadersIn, n
  <2>2. ReadRight(ReadReport(d), sent.report)
    BY <1>2, <1>4, <2>1, ReportRead
  <2> QED BY <1>7, <2>2
\* the description
<1>10. /\ e \in Seq(Word) /\ Len(e) = n - 14 + 1
       /\ \A i \in 1..(n - 14 + 1) : e[i] = d[14 + i - 1]
  <2>1. 14 \in 1..n
    BY <1>3, <1>5
  <2>2. /\ SubSeq(d, 14, Len(d)) \in Seq(Word) /\ Len(SubSeq(d, 14, Len(d))) = Len(d) - 14 + 1
        /\ \A i \in 1..(Len(d) - 14 + 1) : SubSeq(d, 14, Len(d))[i] = d[14 + i - 1]
    BY <1>4, <2>1, TailAt DEF n
  <2> QED BY <2>2 DEF n
<1> HIDE DEF e, sr, sd
<1>11. /\ DescriptionIn(sd, name, mask) /\ name \in Seq(Byte) /\ Len(name) \in Byte
       /\ mask \in Seq(Byte) /\ Len(mask) = 9
  BY DescribedAs DEF sd
<1>12. Len(e) >= Len(sd) /\ Len(e) >= s /\ e # << >>
  <2>1. Len(e) >= s /\ Len(e) # 0
    BY <1>3, <1>5, <1>10
  <2>2. e # << >>
    BY <2>1
  <2> QED BY <2>1, <2>2 DEF s
<1>13. \A i \in 1..Len(sd) : e[i] = sd[i]
  <2>1. ASSUME NEW i \in 1..s PROVE e[i] = sd[i]
    <3>1. i \in 1..(n - 14 + 1) /\ 14 + i - 1 = 13 + i
      BY <1>3, <1>5
    <3>2. e[i] = d[13 + i]
      BY <1>10, <3>1
    <3> QED BY <1>4, <3>2
  <2> QED BY <2>1 DEF s
<1>14. Count(sd[1]) = 2
  <2>1. 1 \in 1..s /\ 13 + 1 = 14
    BY <1>3
  <2>2. d[14] = sd[1]
    BY <1>4, <2>1
  <2> QED BY <1>3, <2>2 DEF HeadersIn
<1> DEFINE chunks == ReadDescription(e)
<1> HIDE DEF name, mask
<1>15. chunks = [i \in 1..2 |-> IF i = 1 THEN [type |-> 1, data |-> name]
                                         ELSE [type |-> 8, data |-> mask]]
  BY <1>10, <1>11, <1>12, <1>13, <1>14, DescriptionRead
<1> HIDE DEF chunks
<1>16. Told(chunks, ChunkCname) = name /\ Told(chunks, ChunkPriv) = mask
  BY <1>15, ToldIs
<1>17. GpioOf(mask) = sent.gpio
  BY <1>2, MaskRead DEF mask
\* the BYE
<1>18. FirstOf(d, PacketBye) # << >> <=> sent.leaving
  <2>1. CASE sent.leaving
    <3>1. 14 + s \in 1..n
      BY <1>3, <1>5, <2>1
    <3> DEFINE k == 14 + s
               by == SubSeq(d, k, n)
    <3>2. k \in 1..Len(d) /\ n - k + 1 # 0
      BY <1>3, <1>5, <2>1, <3>1 DEF n
    <3> HIDE DEF k
    <3>3. Len(by) = n - k + 1
      <4>1. Len(SubSeq(d, k, Len(d))) = Len(d) - k + 1
        BY <1>4, <3>2, TailAt
      <4> QED BY <4>1 DEF n
    <3>4. by # << >>
      BY <3>2, <3>3
    <3> QED BY <1>6, <2>1, <3>4 DEF k
  <2>2. CASE ~sent.leaving
    BY <1>6, <2>2
  <2> QED BY <1>2, <2>1, <2>2
<1>19. /\ got.report = ReadReport(sr) /\ got.cname = name /\ got.gpio = sent.gpio
       /\ got.leaving = sent.leaving
  <2>1. got = [report |-> IF FirstOf(d, PacketSenderReport) = << >> THEN << >>
                          ELSE ReadReport(FirstOf(d, PacketSenderReport)),
               cname |-> Told(IF FirstOf(d, PacketSourceDescription) = << >> THEN << >>
                              ELSE ReadDescription(FirstOf(d, PacketSourceDescription)),
                              ChunkCname),
               gpio |-> GpioOf(Told(IF FirstOf(d, PacketSourceDescription) = << >> THEN << >>
                                    ELSE ReadDescription(FirstOf(d, PacketSourceDescription)),
                                    ChunkPriv)),
               leaving |-> FirstOf(d, PacketBye) # << >>]
    BY DEF RtcpReceiveData
  <2>2. (IF FirstOf(d, PacketSenderReport) = << >> THEN << >>
         ELSE ReadReport(FirstOf(d, PacketSenderReport))) = ReadReport(sr)
    BY <1>6, <1>8
  <2>3. (IF FirstOf(d, PacketSourceDescription) = << >> THEN << >>
         ELSE ReadDescription(FirstOf(d, PacketSourceDescription))) = chunks
    BY <1>6, <1>12 DEF chunks
  <2>4. (FirstOf(d, PacketBye) # << >>) = sent.leaving
    BY <1>2, <1>18, Zenon
  <2> HIDE DEF got
  <2> QED BY <2>4, <1>16, <1>17, <1>18, <2>1, <2>2, <2>3
<1> HIDE DEF got
<1>20. /\ \A f \in DOMAIN sent.report \ {"blocks"} : got.report[f] = sent.report[f]
       /\ DOMAIN got.report.blocks = DOMAIN sent.report.blocks
       /\ \A i \in DOMAIN sent.report.blocks :
            Exact(sent.report.blocks[i]) => got.report.blocks[i] = sent.report.blocks[i]
  BY <1>9, <1>19 DEF ReadRight
<1> QED BY <1>19, <1>20 DEF RoundTrip, got, d, name

\* The state is always one of the reports there may be
LEMMA AlwaysReported == Spec => [](sent \in Reported)
<1>1. Init => sent \in Reported
  BY RtcpAssumption DEF Init, RtcpAssumption, Reported
<1>2. sent \in Reported /\ [Next]_sent => (sent \in Reported)'
  BY RtcpAssumption DEF Next, RtcpAssumption, Reported
<1> QED BY <1>1, <1>2, PTL DEF Spec

\* RTPSenderReport, RTPSourceDescription, RTPBye, Codec: what the far codec reads of any
\* report, of a name of any bytes and length, is what was reported
THEOREM ReportsArrive == Spec => []RoundTrip
BY AlwaysReported, RoundTripOf, PTL

\* RTPControlHeader: no byte of a report is taken for the start of another
THEOREM NothingEverMistaken == Spec => []NothingMistaken
BY AlwaysReported, NothingMistakenIn, PTL
=============================================================================
