--------------------------- MODULE Reception_proofs ---------------------------
(***************************************************************************)
(* What a codec hears is typed, in step, counted, and never again, for every *)
(* number of sequence numbers, window, network and length of a call; and    *)
(* the ring under it goes on being a bounded queue.                        *)
(***************************************************************************)
EXTENDS Reception, SequenceTheorems, TLAPS

(* The ring: it implements a bounded queue, for every size *)

\* Masking a pointer that has run past the end once takes it back by the size
LEMMA MaskedOnce ==
    ASSUME NEW p \in 0..2*Size-1
    PROVE  Masked(p) = IF p < Size THEN p ELSE p - Size
  BY RingAssumption, SMTT(30) DEF Masked

\* What ReadSpace makes of two pointers
LEMMA Distance ==
    ASSUME NEW w \in 0..Size-1, NEW r \in 0..Size-1
    PROVE  (IF w > r THEN w - r ELSE Masked(w - r + Size))
             = IF w >= r THEN w - r ELSE w - r + Size
  <1>1. CASE w > r
    BY <1>1, RingAssumption
  <1>2. CASE w <= r
    <2>1. w - r + Size \in 0..2*Size-1
      BY <1>2, RingAssumption
    <2>2. Masked(w - r + Size) = IF w - r + Size < Size THEN w - r + Size ELSE w - r + Size - Size
      BY <2>1, MaskedOnce, RingAssumption
    <2>3. QED
      BY <1>2, <2>2, RingAssumption
  <1>3. QED
    BY <1>1, <1>2

\* The two pointers tell how many bytes wait
LEMMA ReadSpaceIs ==
    ASSUME RingTypeOK
    PROVE  /\ ReadSpace = IF writePtr >= readPtr THEN writePtr - readPtr
                          ELSE writePtr - readPtr + Size
           /\ ReadSpace \in 0..Size-1
  <1>1. ReadSpace = IF writePtr >= readPtr THEN writePtr - readPtr
                    ELSE writePtr - readPtr + Size
    BY Distance DEF ReadSpace, RingTypeOK
  <1>2. QED
    BY <1>1, RingAssumption DEF RingTypeOK

\* What is written fits in what is free: one byte less than the rest
LEMMA WriteSpaceIs ==
    ASSUME RingTypeOK
    PROVE  WriteSpace = Size - 1 - ReadSpace
  <1>1. CASE writePtr > readPtr
    <2>1. readPtr - writePtr + Size \in 0..2*Size-1
      BY <1>1, RingAssumption DEF RingTypeOK
    <2>2. QED
      BY <1>1, <2>1, MaskedOnce, ReadSpaceIs, RingAssumption DEF WriteSpace, RingTypeOK
  <1>2. CASE writePtr <= readPtr
    BY <1>2, ReadSpaceIs, RingAssumption DEF WriteSpace, RingTypeOK
  <1>3. QED
    BY <1>1, <1>2 DEF RingTypeOK

\* Where the bytes of the ring lie
LEMMA CellIs ==
    ASSUME RingTypeOK, NEW i \in 1..Size
    PROVE  /\ Masked(readPtr + i - 1) = IF readPtr + i - 1 < Size THEN readPtr + i - 1
                                        ELSE readPtr + i - 1 - Size
           /\ Masked(readPtr + i - 1) \in 0..Size-1
  <1>1. readPtr + i - 1 \in 0..2*Size-1
    BY RingAssumption DEF RingTypeOK
  <1>2. QED
    BY <1>1, MaskedOnce, RingAssumption DEF RingTypeOK

\* What waits in a ring of k bytes is a sequence of them
LEMMA BytesAre ==
    ASSUME NEW b \in [0..Size-1 -> Data], NEW r \in 0..Size-1, NEW k \in 0..Size-1
    PROVE  From(b, r, k) \in Seq(Data) /\ Len(From(b, r, k)) = k
  <1>1. ASSUME NEW i \in 1..k PROVE b[Masked(r + i - 1)] \in Data
    <2> DEFINE p == r + i - 1
    <2>1. p \in 0..2*Size-1
      BY RingAssumption
    <2> HIDE DEF p
    <2>2. Masked(p) \in 0..Size-1
      BY <2>1, MaskedOnce, RingAssumption
    <2>3. QED
      BY <2>2 DEF p
  <1>2. QED
    BY <1>1, RingAssumption DEF From

LEMMA ContentsIs ==
    ASSUME RingTypeOK
    PROVE  Contents \in Seq(Data) /\ Len(Contents) = ReadSpace
  BY BytesAre, ReadSpaceIs DEF Contents, RingTypeOK

-----------------------------------------------------------------------------
\* The pointers of the ring stay in the array, whatever is written, read and reset.
THEOREM RingTypeCorrect == RingSpec => []RingTypeOK
  <1>1. RingInit => RingTypeOK
    BY RingAssumption DEF RingInit, RingTypeOK
  <1>2. RingTypeOK /\ [RingNext]_ring => RingTypeOK'
    <2> SUFFICES ASSUME RingTypeOK, [RingNext]_ring PROVE RingTypeOK'
      OBVIOUS
    <2>1. ASSUME NEW src \in Blocks, Write(src) PROVE RingTypeOK'
      <3> DEFINE n == Least(Len(src), WriteSpace)
                 n1 == FirstPart(writePtr, n)
      <3>1. src \in Seq(Data)
        BY RingAssumption
      <3>2. n \in 0..Size-1 /\ n <= Len(src)
        BY <3>1, WriteSpaceIs, ReadSpaceIs, RingAssumption DEF Least
      <3>3. n1 \in 0..n /\ n1 = IF writePtr + n > Size THEN Size - writePtr ELSE n
        BY <3>2, RingAssumption DEF FirstPart, RingTypeOK
      <3>4. writePtr' \in 0..Size-1
        <4>1. writePtr + n \in 0..2*Size-1
          BY <3>2, RingAssumption DEF RingTypeOK
        <4>2. QED
          BY <2>1, <4>1, MaskedOnce, RingAssumption DEF Write
      <3>5. ASSUME NEW i \in 0..Size-1 PROVE buf'[i] \in Data
        <4>1. CASE i \in writePtr..writePtr+n1-1
          <5>1. i - writePtr + 1 \in 1..Len(src)
            BY <4>1, <3>1, <3>2, <3>3, RingAssumption DEF RingTypeOK
          <5>2. src[i - writePtr + 1] \in Data
            BY <5>1, <3>1
          <5>3. QED
            BY <2>1, <4>1, <5>2 DEF Write
        <4>2. CASE ~(i \in writePtr..writePtr+n1-1) /\ i < n - n1
          <5>1. n1 + i + 1 \in 1..Len(src)
            BY <4>2, <3>1, <3>2, <3>3, RingAssumption
          <5>2. src[n1 + i + 1] \in Data
            BY <5>1, <3>1
          <5>3. QED
            BY <2>1, <4>2, <5>2 DEF Write
        <4>3. CASE ~(i \in writePtr..writePtr+n1-1) /\ ~(i < n - n1)
          BY <2>1, <4>3 DEF Write, RingTypeOK
        <4>4. QED
          BY <4>1, <4>2, <4>3
      <3>6. buf' \in [0..Size-1 -> Data]
        BY <2>1, <3>5 DEF Write
      <3>7. QED
        BY <2>1, <3>4, <3>6 DEF Write, RingTypeOK
    <2>2. ASSUME NEW cnt \in 0..Size, Read(cnt) PROVE RingTypeOK'
      <3>1. readPtr + Least(cnt, ReadSpace) \in 0..2*Size-1
        BY ReadSpaceIs, RingAssumption DEF Least, RingTypeOK
      <3>2. QED
        BY <2>2, <3>1, MaskedOnce, RingAssumption DEF Read, RingTypeOK
    <2>3. CASE Reset
      BY <2>3, RingAssumption DEF Reset, RingTypeOK
    <2>4. CASE UNCHANGED ring
      BY <2>4 DEF ring, RingTypeOK
    <2>5. QED
      BY <2>1, <2>2, <2>3, <2>4 DEF RingNext
  <1>3. QED
    BY <1>1, <1>2, PTL DEF RingSpec

-----------------------------------------------------------------------------
(***************************************************************************)
(* Each operation of the ring is one of the queue's.                        *)
(***************************************************************************)
\* The pointers as numbers
LEMMA PointersAre ==
    ASSUME RingTypeOK
    PROVE  /\ Size \in Nat /\ Size >= 2
           /\ readPtr \in Nat /\ readPtr < Size
           /\ writePtr \in Nat /\ writePtr < Size
           /\ ReadSpace \in Nat /\ ReadSpace < Size
           /\ writePtr >= readPtr => ReadSpace = writePtr - readPtr
           /\ writePtr < readPtr => ReadSpace = writePtr - readPtr + Size
  BY ReadSpaceIs, RingAssumption DEF RingTypeOK

\* A write puts the bytes that fit, also over the end of the array
LEMMA WriteIsPut ==
    ASSUME RingTypeOK, RingTypeOK', NEW src \in Blocks, Write(src)
    PROVE  Fifo!Put(src)
  <1> DEFINE n == Least(Len(src), WriteSpace)
             n1 == FirstPart(writePtr, n)
  <1>1. src \in Seq(Data)
    BY RingAssumption
  <1>2. n \in 0..WriteSpace /\ n <= Len(src) /\ n = Least(Len(src), Size - 1 - ReadSpace)
    BY <1>1, WriteSpaceIs, ReadSpaceIs, RingAssumption DEF Least
  <1>3. n1 \in 0..n /\ n1 = IF writePtr + n > Size THEN Size - writePtr ELSE n
    BY <1>2, WriteSpaceIs, ReadSpaceIs, RingAssumption DEF FirstPart, RingTypeOK
  <1>4. writePtr + n \in 0..2*Size-1 /\ n \in 0..Size-1-ReadSpace
    BY <1>2, WriteSpaceIs, ReadSpaceIs, RingAssumption DEF RingTypeOK
  <1>5. writePtr' = (IF writePtr + n < Size THEN writePtr + n ELSE writePtr + n - Size)
        /\ readPtr' = readPtr
    <2>1. writePtr' = Masked(writePtr + n) /\ readPtr' = readPtr
      BY DEF Write
    <2> HIDE DEF n
    <2>2. QED
      BY <1>4, <2>1, MaskedOnce, PointersAre
  <1>6. ReadSpace' = (IF writePtr' >= readPtr' THEN writePtr' - readPtr'
                     ELSE writePtr' - readPtr' + Size)
    BY Distance DEF ReadSpace, RingTypeOK
  <1>7. ReadSpace' = ReadSpace + n
    <2> HIDE DEF n
    <2>1. QED
      BY <1>4, <1>5, <1>6, PointersAre
  <1> HIDE DEF n, n1
  <1>8. ASSUME NEW i \in 1..ReadSpace
        PROVE  buf'[Masked(readPtr + i - 1)] = buf[Masked(readPtr + i - 1)]
    <2> DEFINE c == Masked(readPtr + i - 1)
    <2>1. i \in 1..Size
      BY ReadSpaceIs, RingAssumption
    <2>2. c \in 0..Size-1 /\ c = IF readPtr + i - 1 < Size THEN readPtr + i - 1
                                  ELSE readPtr + i - 1 - Size
      BY <2>1, CellIs
    <2>3. ~(c \in writePtr..writePtr+n1-1) /\ ~(c < n - n1)
      BY <2>2, <1>3, <1>4, PointersAre
    <2>4. QED
      BY <2>2, <2>3 DEF Write, n, n1
  <1>9. ASSUME NEW i \in 1..n
        PROVE  buf'[Masked(readPtr + (ReadSpace + i) - 1)] = src[i]
    <2> DEFINE c == Masked(readPtr + (ReadSpace + i) - 1)
    <2>1. ReadSpace + i \in 1..Size
      BY <1>4, ReadSpaceIs, RingAssumption
    <2>2. c \in 0..Size-1 /\ c = IF readPtr + (ReadSpace + i) - 1 < Size
                                  THEN readPtr + (ReadSpace + i) - 1
                                  ELSE readPtr + (ReadSpace + i) - 1 - Size
      BY <2>1, CellIs
    <2>3. CASE i <= n1
      <3>1. c = writePtr + i - 1
        BY <2>2, <2>3, <1>3, <1>4, PointersAre
      <3>2. c \in writePtr..writePtr+n1-1 /\ c - writePtr + 1 = i
        BY <3>1, <2>3, <1>3, <1>4, PointersAre
      <3>3. QED
        BY <3>2, <2>2 DEF Write, n, n1
    <2>4. CASE i > n1
      <3>1. c = i - n1 - 1 /\ c < writePtr
        BY <2>2, <2>4, <1>3, <1>4, PointersAre
      <3>2. ~(c \in writePtr..writePtr+n1-1) /\ c < n - n1 /\ n1 + c + 1 = i
        <4> HIDE DEF c
        <4>1. QED
          BY <3>1, <2>4, <1>3, <1>4, PointersAre
      <3>3. buf'[c] = src[n1 + c + 1]
        BY <3>2, <2>2 DEF Write, n, n1
      <3>4. QED
        BY <3>2, <3>3
    <2>5. QED
      BY <2>3, <2>4, <1>3
  <1> DEFINE kept == SubSeq(src, 1, n)
  <1>10. kept \in Seq(Data) /\ Len(kept) = n /\ \A i \in 1..n : kept[i] = src[i]
    BY <1>1, <1>2, <1>4
  <1> HIDE DEF kept
  <1>11. Contents' \in Seq(Data) /\ Len(Contents') = ReadSpace + n
    <2>1. ReadSpace' \in 0..Size-1
      BY <1>4, <1>7, PointersAre
    <2>2. Contents' \in Seq(Data) /\ Len(Contents') = ReadSpace'
      BY <2>1, BytesAre DEF Contents, RingTypeOK
    <2>3. QED
      BY <2>2, <1>7
  <1>12. Contents \o kept \in Seq(Data) /\ Len(Contents \o kept) = ReadSpace + n
    BY <1>10, ContentsIs, ConcatProperties
  <1>13. ASSUME NEW i \in 1..ReadSpace + n
         PROVE  Contents'[i] = (Contents \o kept)[i]
    <2>1. Contents'[i] = buf'[Masked(readPtr + i - 1)]
      BY <1>5, <1>7 DEF Contents, From
    <2>2. (Contents \o kept)[i]
             = IF i <= ReadSpace THEN Contents[i] ELSE kept[i - ReadSpace]
      BY <1>10, ContentsIs, ConcatProperties
    <2>3. CASE i <= ReadSpace
      <3>1. i \in 1..ReadSpace
        BY <2>3, <1>4, PointersAre
      <3>2. Contents[i] = buf[Masked(readPtr + i - 1)]
        BY <3>1 DEF Contents, From
      <3>3. QED
        BY <2>1, <2>2, <2>3, <3>1, <3>2, <1>8
    <2>4. CASE i > ReadSpace
      <3>1. i - ReadSpace \in 1..n /\ ReadSpace + (i - ReadSpace) = i /\ ~(i <= ReadSpace)
        BY <2>4, <1>4, PointersAre
      <3>2. QED
        <4>1. (Contents \o kept)[i] = src[i - ReadSpace]
          BY <2>2, <3>1, <1>10
        <4>2. buf'[Masked(readPtr + i - 1)] = src[i - ReadSpace]
          BY <3>1, <1>9
        <4>3. QED
          BY <2>1, <4>1, <4>2
    <2>5. i <= ReadSpace \/ i > ReadSpace
      BY <1>4, PointersAre
    <2>6. QED
      BY <2>3, <2>4, <2>5
  <1>14. Contents' = Contents \o kept
    BY <1>11, <1>12, <1>13, SeqEqual
  <1>15. n = Fifo!Fewer(Len(src), (Size - 1) - Len(Contents))
    BY <1>2, ContentsIs DEF Least, Fifo!Fewer
  <1>16. QED
    BY <1>14, <1>15, ContentsIs DEF Fifo!Put, kept

\* A read takes the oldest bytes
LEMMA ReadIsGet ==
    ASSUME RingTypeOK, RingTypeOK', NEW cnt \in 0..Size, Read(cnt)
    PROVE  Fifo!Get(Fifo!Fewer(cnt, Len(Contents)))
  <1> DEFINE n == Least(cnt, ReadSpace)
  <1>1. n \in 0..ReadSpace /\ readPtr + n \in 0..2*Size-1
    BY ReadSpaceIs, RingAssumption DEF Least, RingTypeOK
  <1>2. readPtr' = (IF readPtr + n < Size THEN readPtr + n ELSE readPtr + n - Size)
        /\ writePtr' = writePtr /\ buf' = buf
    <2>1. readPtr' = Masked(readPtr + n) /\ writePtr' = writePtr /\ buf' = buf
      BY DEF Read
    <2> HIDE DEF n
    <2>2. QED
      BY <1>1, <2>1, MaskedOnce, PointersAre
  <1>3. ReadSpace' = (IF writePtr' >= readPtr' THEN writePtr' - readPtr'
                     ELSE writePtr' - readPtr' + Size)
    BY Distance DEF ReadSpace, RingTypeOK
  <1>4. ReadSpace' = ReadSpace - n /\ ReadSpace' \in Nat
    BY <1>1, <1>2, <1>3, PointersAre
  <1> HIDE DEF n
  <1>5. ASSUME NEW i \in 1..ReadSpace - n
        PROVE  Masked(readPtr' + i - 1) = Masked(readPtr + (n + i) - 1)
    <2>1. readPtr' + i - 1 \in 0..2*Size-1 /\ readPtr + (n + i) - 1 \in 0..2*Size-1
      BY <1>1, <1>2, PointersAre
    <2> DEFINE p == readPtr' + i - 1
               q == readPtr + (n + i) - 1
    <2>2. p = q \/ (p < Size /\ q = p + Size)
      BY <2>1, <1>1, <1>2, PointersAre
    <2> HIDE DEF p, q
    <2>3. Masked(p) = Masked(q)
      BY <2>1, <2>2, MaskedOnce, PointersAre DEF p, q
    <2>4. QED
      BY <2>3 DEF p, q
  <1>6. Contents' = [i \in 1..ReadSpace - n |-> buf[Masked(readPtr' + i - 1)]]
    BY <1>2, <1>4 DEF Contents, From
  <1>7. SubSeq(Contents, n + 1, ReadSpace)
           = [i \in 1..ReadSpace - n |-> buf[Masked(readPtr + (n + i) - 1)]]
    <2>1. SubSeq(Contents, n + 1, ReadSpace)
             = [i \in 1..ReadSpace - n |-> Contents[n + i]]
      BY <1>1, ContentsIs, ReadSpaceIs
    <2>2. ASSUME NEW i \in 1..ReadSpace - n
          PROVE  Contents[n + i] = buf[Masked(readPtr + (n + i) - 1)]
      <3>1. n + i \in 1..ReadSpace
        BY <1>1, ReadSpaceIs
      <3>2. QED
        BY <3>1 DEF Contents, From
    <2>3. QED
      BY <2>1, <2>2
  <1>8. Contents' = SubSeq(Contents, n + 1, ReadSpace)
    BY <1>5, <1>6, <1>7
  <1>9. n = Fifo!Fewer(Fifo!Fewer(cnt, Len(Contents)), Len(Contents))
    BY ContentsIs, PointersAre DEF Least, Fifo!Fewer, n
  <1>10. QED
    BY <1>8, <1>9, ContentsIs DEF Fifo!Get

\* The ring buffer implements the bounded queue of one byte less than its size: a block
\* comes out as it went in, but for an end that did not fit.
THEOREM RingImplementsFifo == RingSpec => ImplementsFifo
  <1>1. RingInit => Fifo!Init
    <2> SUFFICES ASSUME RingInit PROVE Contents = <<>>
      BY DEF Fifo!Init
    <2>1. RingTypeOK
      BY RingAssumption DEF RingInit, RingTypeOK
    <2>2. ReadSpace = 0
      BY <2>1, ReadSpaceIs DEF RingInit
    <2>3. QED
      BY <2>1, <2>2, ContentsIs
  <1>2. RingTypeOK /\ RingTypeOK' /\ [RingNext]_ring => [Fifo!Next]_Contents
    <2> SUFFICES ASSUME RingTypeOK, RingTypeOK', [RingNext]_ring
                 PROVE  [Fifo!Next]_Contents
      OBVIOUS
    <2>1. ASSUME NEW src \in Blocks, Write(src) PROVE Fifo!Next
      BY <2>1, WriteIsPut DEF Fifo!Next
    <2>2. ASSUME NEW cnt \in 0..Size, Read(cnt) PROVE Fifo!Next
      <3>1. Fifo!Fewer(cnt, Len(Contents)) \in 0..Size-1
        BY ContentsIs, ReadSpaceIs, RingAssumption DEF Fifo!Fewer
      <3>2. QED
        BY <2>2, <3>1, ReadIsGet DEF Fifo!Next
    <2>3. CASE Reset
      <3>1. writePtr' = 0 /\ readPtr' = 0
        BY <2>3 DEF Reset
      <3>2. Masked(Size) = 0
        BY MaskedOnce, RingAssumption
      <3>3. ReadSpace' = 0
        BY <3>1, <3>2, RingAssumption DEF ReadSpace
      <3>4. Contents' = <<>>
        BY <3>3 DEF Contents, From
      <3>5. QED
        BY <3>4 DEF Fifo!Next, Fifo!Empty
    <2>4. CASE UNCHANGED ring
      <3>1. Contents' = Contents
        BY <2>4 DEF ring, Contents, ReadSpace
      <3>2. QED
        BY <3>1
    <2>5. QED
      BY <2>1, <2>2, <2>3, <2>4 DEF RingNext
  <1>3. QED
    BY <1>1, <1>2, RingTypeCorrect, PTL DEF RingSpec, ImplementsFifo, Fifo!Spec
-----------------------------------------------------------------------------
(***************************************************************************)
(* What read() returns, and the vectors.                                   *)
(***************************************************************************)
\* The bytes copied out are the oldest ones, in one part or two
LEMMA ReadDataIs ==
    ASSUME RingTypeOK, NEW cnt \in 0..ReadSpace
    PROVE  ReadData(cnt) = SubSeq(Contents, 1, cnt)
  <1>1. Least(cnt, ReadSpace) = cnt /\ cnt \in 0..Size-1
    BY PointersAre DEF Least
  <1> DEFINE n1 == FirstPart(readPtr, cnt)
  <1>2. n1 = IF readPtr + cnt > Size THEN Size - readPtr ELSE cnt
    BY DEF FirstPart
  <1>3. ASSUME NEW i \in 1..cnt
        PROVE  Masked(readPtr + i - 1) = IF i <= n1 THEN readPtr + i - 1 ELSE i - n1 - 1
    <2>1. i \in 1..Size
      BY <1>1, PointersAre
    <2>2. Masked(readPtr + i - 1) = IF readPtr + i - 1 < Size THEN readPtr + i - 1
                                    ELSE readPtr + i - 1 - Size
      BY <2>1, CellIs
    <2> HIDE DEF n1
    <2>3. QED
      BY <2>2, <1>1, <1>2, PointersAre
  <1>4. ReadData(cnt) = [i \in 1..cnt |-> IF i <= n1 THEN buf[readPtr + i - 1] ELSE buf[i - n1 - 1]]
    BY <1>1 DEF ReadData
  <1> HIDE DEF n1
  <1>5. ReadData(cnt) = [i \in 1..cnt |-> buf[Masked(readPtr + i - 1)]]
    BY <1>3, <1>4
  <1>6. SubSeq(Contents, 1, cnt) = [i \in 1..cnt |-> Contents[i]]
    BY ContentsIs, PointersAre
  <1>7. \A i \in 1..cnt : Contents[i] = buf[Masked(readPtr + i - 1)]
    BY PointersAre DEF Contents, From
  <1>8. QED
    BY <1>5, <1>6, <1>7

\* A vector of n bytes from p on has the cells less than n ahead of p, round the end
LEMMA CellsOf ==
    ASSUME NEW p \in 0..Size-1, NEW n \in 0..Size-1, NEW c
    PROVE  c \in Cells(Vector(p, n))
             <=> c \in 0..Size-1 /\ (IF c >= p THEN c - p ELSE c - p + Size) < n
  <1> DEFINE n1 == IF p + n > Size THEN Size - p ELSE n
             n2 == IF p + n > Size THEN Masked(p + n) ELSE 0
  <1>1. Cells(Vector(p, n)) = (p .. p + n1 - 1) \union (0 .. 0 + n2 - 1)
    BY DEF Cells, Vector, FirstPart
  <1>2. Size \in Nat /\ Size >= 2 /\ p \in Int /\ n \in Int
    BY RingAssumption
  <1>3. p + n \in 0..2*Size-1
    BY <1>2
  <1>4. n2 = IF p + n > Size THEN p + n - Size ELSE 0
    BY <1>2, <1>3, MaskedOnce
  <1>5. n2 \in Int /\ n1 \in Int /\ n1 = IF p + n > Size THEN Size - p ELSE n
    BY <1>2, <1>4
  <1> HIDE DEF n1, n2
  <1>6. c \in Cells(Vector(p, n)) => c \in Int
    BY <1>1, <1>2, <1>5
  <1>7. c \in 0..Size-1 => c \in Int
    BY <1>2
  <1>8. ASSUME c \in Int
        PROVE  (c \in p .. p + n1 - 1 \/ c \in 0 .. 0 + n2 - 1)
                 <=> c \in 0..Size-1 /\ (IF c >= p THEN c - p ELSE c - p + Size) < n
    BY <1>2, <1>4, <1>5, <1>8
  <1>9. QED
    BY <1>1, <1>6, <1>7, <1>8

\* The cell before the one that is read next
LEMMA UnusedIs ==
    ASSUME RingTypeOK
    PROVE  Masked(readPtr + Size - 1) = IF readPtr = 0 THEN Size - 1 ELSE readPtr - 1
  <1>1. readPtr + Size - 1 \in 0..2*Size-1
    BY PointersAre
  <1>2. QED
    BY <1>1, MaskedOnce, PointersAre

LEMMA VectorsPart == ASSUME RingTypeOK PROVE VectorsPartTheRing
  <1> DEFINE unused == Masked(readPtr + Size - 1)
  <1>1. WriteSpace = Size - 1 - ReadSpace /\ WriteSpace \in 0..Size-1
    BY WriteSpaceIs, PointersAre
  <1>2. unused = IF readPtr = 0 THEN Size - 1 ELSE readPtr - 1
    BY UnusedIs
  <1> HIDE DEF unused
  <1>3. ASSUME NEW c
        PROVE  /\ c \in Cells(ReadVector)
                    <=> c \in 0..Size-1
                        /\ (IF c >= readPtr THEN c - readPtr ELSE c - readPtr + Size) < ReadSpace
               /\ c \in Cells(WriteVector)
                    <=> c \in 0..Size-1
                        /\ (IF c >= writePtr THEN c - writePtr ELSE c - writePtr + Size) < WriteSpace
    BY CellsOf, ReadSpaceIs, <1>1 DEF ReadVector, WriteVector, RingTypeOK
  <1>4. ASSUME NEW c \in 0..Size-1
        PROVE  /\ ~(c \in Cells(ReadVector) /\ c \in Cells(WriteVector))
               /\ (c \in Cells(ReadVector) \/ c \in Cells(WriteVector)) <=> c # unused
    <2>1. c \in Cells(ReadVector)
            <=> (IF c >= readPtr THEN c - readPtr ELSE c - readPtr + Size) < ReadSpace
      BY <1>3
    <2>2. c \in Cells(WriteVector)
            <=> (IF c >= writePtr THEN c - writePtr ELSE c - writePtr + Size)
                   < Size - 1 - ReadSpace
      BY <1>1, <1>3
    <2>3. QED
      BY <2>1, <2>2, <1>2, PointersAre
  <1>5. \A c : c \in Cells(ReadVector) \/ c \in Cells(WriteVector) => c \in 0..Size-1
    BY <1>3
  <1>6. Cells(ReadVector) \intersect Cells(WriteVector) = {}
    BY <1>4, <1>5
  <1>7. Cells(ReadVector) \union Cells(WriteVector) = (0..Size-1) \ {unused}
    BY <1>4, <1>5
  <1>8. QED
    BY <1>6, <1>7 DEF VectorsPartTheRing, unused

\* Read and write vector never share a cell, and leave out one, wherever the pointers are.
THEOREM VectorsAlwaysPart == RingSpec => []VectorsPartTheRing
  BY RingTypeCorrect, VectorsPart, PTL

-----------------------------------------------------------------------------
(* The reception *)

Numbers == 0..SeqMod-1

Receiver == [ssrc : 0..MaxCalls, lo : Numbers, hi : Nat, last : Numbers, start : Numbers,
             lost : Nat]

LEMMA NumbersAre ==
    /\ SeqMod \in Nat /\ SeqMod >= 2
    /\ Numbers \subseteq Nat /\ 0 \in Numbers
    /\ FirstNumbers \subseteq Numbers /\ Ratios \subseteq Nat
    /\ MaxPackets \in Nat /\ MaxCalls \in Nat /\ MaxCalls >= 1
    /\ RollWindow \in Nat /\ RollWindow >= 1 /\ RollWindow < SeqMod
  BY ReceptionAssumption DEF Numbers

\* A block of the loudspeaker's fits in an empty ring
LEMMA BlockFits ==
    /\ FrameBytes \in Nat /\ FrameBytes >= 1 /\ BlockFrames \in Nat /\ BlockFrames >= 1
    /\ BlockBytes \in Nat /\ BlockBytes >= 1 /\ BlockBytes < Size
  <1>1. /\ Setpoint \in Nat /\ Setpoint >= 1 /\ FrameBytes \in Nat /\ FrameBytes >= 1
        /\ BlockFrames \in Nat /\ BlockFrames >= 1
        /\ Setpoint * BlockBytes < Size /\ Size \in Nat
    BY ReceptionAssumption, RingAssumption DEF BlockBytes
  <1>2. BlockBytes \in Nat /\ BlockBytes = FrameBytes + (BlockFrames - 1) * FrameBytes
    BY <1>1 DEF BlockBytes
  <1>3. (BlockFrames - 1) * FrameBytes \in Nat
    BY <1>1
  <1>4. BlockBytes >= 1
    BY <1>1, <1>2, <1>3
  <1> DEFINE n == BlockBytes
  <1> HIDE DEF n
  <1>5. n \in Nat /\ n >= 1 /\ Setpoint * n < Size
    BY <1>1, <1>2, <1>4 DEF n
  <1>6. Setpoint * n = n + (Setpoint - 1) * n /\ (Setpoint - 1) * n \in Nat
    BY <1>1, <1>5
  <1>7. n < Size
    BY <1>1, <1>5, <1>6
  <1>8. QED
    BY <1>1, <1>2, <1>4, <1>7 DEF n

LEMMA PacketIs ==
    ASSUME NEW p \in Packets
    PROVE  p.n \in Nat /\ p.ssrc \in 1..MaxCalls /\ p = [ssrc |-> p.ssrc, n |-> p.n]
  <1>1. \A f \in FirstNumbers, k \in 0..MaxPackets : f + k \in Nat
    BY NumbersAre
  <1>2. QED
    BY <1>1 DEF Packets

\* A packet's count is the rounds of the numbers and the number
LEMMA RoundsAre ==
    ASSUME NEW n \in Nat
    PROVE  /\ n \div SeqMod \in Nat /\ n % SeqMod \in Numbers
           /\ n = SeqMod * (n \div SeqMod) + (n % SeqMod)
  BY NumbersAre, SMTT(30) DEF Numbers

LEMMA SeqnumIs ==
    ASSUME NEW p \in Packets
    PROVE  Seqnum(p) \in Numbers
  <1>1. p.n \in Nat /\ SeqMod \in Nat /\ SeqMod > 0
    BY ReceptionAssumption, PacketIs
  <1>2. QED
    BY <1>1 DEF Seqnum, Numbers

LEMMA WithoutIs ==
    ASSUME wire \in Seq(Packets), NEW i \in DOMAIN wire
    PROVE  /\ Without(i) \in Seq(Packets) /\ Len(Without(i)) = Len(wire) - 1
           /\ wire[i] \in Packets
  <1>1. Len(wire) \in Nat /\ Len(wire) >= 1 /\ DOMAIN wire = 1..Len(wire)
    OBVIOUS
  <1>2. \A j \in 1..Len(wire)-1 : (IF j < i THEN wire[j] ELSE wire[j + 1]) \in Packets
    BY <1>1
  <1>3. QED
    BY <1>1, <1>2 DEF Without

-----------------------------------------------------------------------------
(***************************************************************************)
(* The far codec, the wire and the ring.                                   *)
(***************************************************************************)
\* Every packet on its way is one there can be
WireOK ==
    /\ call \in 1..MaxCalls /\ first \in FirstNumbers /\ next \in first..first+MaxPackets
    /\ ratio \in Ratios
    /\ wire \in Seq(Packets) /\ Len(wire) <= WireMax

LEMMA TransmitWire ==
    ASSUME WireOK, NEW some \in 0..ratio, Transmit(some)
    PROVE  WireOK'
  <1>1. some \in Nat /\ Len(wire) \in Nat /\ WireMax \in Nat /\ first \in Numbers /\ next \in Nat
    BY NumbersAre, ReceptionAssumption DEF WireOK
  <1> DEFINE copies == [i \in 1..some |-> [ssrc |-> call, n |-> next]]
  <1>2. [ssrc |-> call, n |-> next] \in Packets /\ next + 1 \in first..first+MaxPackets
    <2>1. first \in FirstNumbers /\ next - first \in 0..MaxPackets /\ first \in Nat
          /\ next = first + (next - first) /\ call \in 1..MaxCalls
      BY <1>1, NumbersAre DEF WireOK
    <2>2. next \in {f + k : f \in FirstNumbers, k \in 0..MaxPackets}
      BY <2>1
    <2>3. next - first < MaxPackets
      BY DEF Transmit
    <2>4. next + 1 \in first..first+MaxPackets
      BY <1>1, <2>1, <2>3, NumbersAre
    <2>5. QED
      BY <2>1, <2>2, <2>4 DEF Packets
  <1>3. copies \in Seq(Packets) /\ Len(copies) = some
    BY <1>1, <1>2
  <1>4. wire' = wire \o copies /\ next' = next + 1 /\ UNCHANGED <<call, first, ratio>>
        /\ Len(wire) + some <= WireMax
    BY DEF Transmit
  <1> HIDE DEF copies
  <1>5. wire' \in Seq(Packets) /\ Len(wire') = Len(wire) + some
    BY <1>3, <1>4, ConcatProperties DEF WireOK
  <1>6. QED
    BY <1>2, <1>4, <1>5 DEF WireOK

LEMMA WireStep == WireOK /\ [Next]_vars => WireOK'
  <1> SUFFICES ASSUME WireOK, [Next]_vars PROVE WireOK'
    OBVIOUS
  <1>1. ASSUME NEW some \in 0..ratio, Transmit(some) PROVE WireOK'
    BY <1>1, TransmitWire
  <1>2. CASE NewCall
    <2>1. first' \in Nat /\ next' = first' /\ first' \in FirstNumbers
      BY <1>2, NumbersAre DEF NewCall
    <2>2. next' \in first'..first'+MaxPackets /\ call' \in 1..MaxCalls
      <3>1. call' = call + 1 /\ call < MaxCalls /\ call \in 1..MaxCalls
        BY <1>2 DEF NewCall, WireOK
      <3>2. QED
        <4>1. MaxPackets \in Nat /\ MaxCalls \in Nat
          BY NumbersAre
        <4>2. call' \in 1..MaxCalls
          BY <3>1, <4>1
        <4>3. \A m, n \in Nat : m \in m..m+n
          OBVIOUS
        <4>4. QED
          BY <2>1, <4>1, <4>2, <4>3
    <2>3. QED
      BY <1>2, <2>1, <2>2 DEF NewCall, WireOK
  <1>3. CASE Callback
    BY <1>3 DEF Callback, far, WireOK
  <1>4. ASSUME NEW i \in DOMAIN wire, ReadPacket(i) PROVE WireOK'
    <2>1. wire' = Without(i) /\ UNCHANGED far
      BY <1>4 DEF ReadPacket
    <2>2. wire' \in Seq(Packets) /\ Len(wire') <= WireMax
      BY <2>1, WithoutIs, ReceptionAssumption DEF WireOK
    <2>3. QED
      BY <2>1, <2>2 DEF WireOK, far
  <1>5. CASE Play
    BY <1>5 DEF Play, far, WireOK
  <1>6. CASE ReportBegins
    BY <1>6 DEF ReportBegins, far, WireOK
  <1>7. CASE ReportEnds
    BY <1>7 DEF ReportEnds, far, WireOK
  <1>8. CASE UNCHANGED vars
    BY <1>8 DEF vars, far, WireOK
  <1>9. QED
    BY <1>1, <1>2, <1>3, <1>4, <1>5, <1>6, <1>7, <1>8 DEF Next

LEMMA WireCorrect == Spec => []WireOK
  <1>1. Init => WireOK
    BY NumbersAre, ReceptionAssumption DEF Init, WireOK
  <1>2. QED
    BY <1>1, WireStep, PTL DEF Spec

\* The callback reads and writes the ring through its operations alone
LEMMA RingStep == WireOK /\ [Next]_vars => [RingNext]_ring
  <1> SUFFICES ASSUME WireOK, [Next]_vars PROVE [RingNext]_ring
    OBVIOUS
  <1>1. ASSUME NEW i \in DOMAIN wire, ReadPacket(i) PROVE [RingNext]_ring
    <2>1. \A m \in Resampled : Resample(wire[i], m) \in Blocks
      BY WithoutIs, FrameAssumption DEF WireOK
    <2>2. (\E m \in Resampled : Write(Resample(wire[i], m))) \/ UNCHANGED ring
      BY <1>1 DEF ReadPacket
    <2>3. QED
      BY <2>1, <2>2 DEF RingNext
  <1>2. CASE Play
    <2>1. Read(BlockBytes) \/ UNCHANGED ring
      BY <1>2 DEF Play
    <2>2. BlockBytes \in 0..Size
      BY BlockFits, RingAssumption
    <2>3. QED
      BY <2>1, <2>2 DEF RingNext
  <1>3. QED
    BY <1>1, <1>2 DEF Next, Transmit, NewCall, Callback, ReportBegins, ReportEnds, RingNext, vars

\* A codec's ring is used as a ring buffer is meant to be: so what holds of the ring holds
\* of it under AudioOutputCallback.
THEOREM ReceptionRunsTheRing == Spec => RingSpec
  <1>1. Init => RingInit
    BY DEF Init
  <1>2. QED
    BY <1>1, WireCorrect, RingStep, PTL DEF Spec, RingSpec

\* The samples a codec decodes leave the ring as they went in, but for the end of a block
\* that did not fit.
THEOREM ReceptionImplementsFifo == Spec => ImplementsFifo
  BY ReceptionRunsTheRing, RingImplementsFifo, PTL

\* What the codec's ring offers to read and to write never overlaps.
THEOREM ReceptionVectorsPart == Spec => []VectorsPartTheRing
  BY ReceptionRunsTheRing, VectorsAlwaysPart, PTL

-----------------------------------------------------------------------------
(***************************************************************************)
(* The receiver's numbers.                                                 *)
(***************************************************************************)
\* What one packet makes of the receiver's numbers
LEMMA SameSourceIs ==
    ASSUME recv \in Receiver, NEW seq \in Numbers
    PROVE  /\ SameSource(seq) \in Receiver
           /\ SameSource(seq).ssrc = recv.ssrc /\ SameSource(seq).start = recv.start
           /\ SameSource(seq).lost = IF IsNext(seq) \/ seq = recv.lo THEN recv.lost
                                     ELSE recv.lost + 1
           /\ \/ /\ seq > recv.lo
                 /\ SameSource(seq).last = recv.last /\ SameSource(seq).lo = seq
                 /\ SameSource(seq).hi = recv.hi
              \/ /\ ~(seq > recv.lo) /\ RolledOver(seq)
                 /\ SameSource(seq).last = 0 /\ SameSource(seq).lo = seq
                 /\ SameSource(seq).hi = recv.hi + 1
              \/ /\ ~(seq > recv.lo) /\ ~RolledOver(seq)
                 /\ SameSource(seq).last = recv.last /\ SameSource(seq).lo = recv.lo
                 /\ SameSource(seq).hi = recv.hi
  <1> DEFINE lost == IF IsNext(seq) \/ seq = recv.lo THEN recv.lost ELSE recv.lost + 1
  <1>1. /\ lost \in Nat /\ recv.ssrc \in 0..MaxCalls /\ recv.lo \in Numbers /\ recv.hi \in Nat
        /\ recv.last \in Numbers /\ recv.start \in Numbers /\ 0 \in Numbers
    BY NumbersAre DEF Receiver
  <1>2. recv = [ssrc |-> recv.ssrc, lo |-> recv.lo, hi |-> recv.hi, last |-> recv.last,
                start |-> recv.start, lost |-> recv.lost]
    BY DEF Receiver
  <1>3. CASE seq > recv.lo
    <2>1. SameSource(seq) = [recv EXCEPT !.lost = lost, !.lo = seq]
      BY <1>3 DEF SameSource
    <2> HIDE DEF lost
    <2>2. SameSource(seq) = [ssrc |-> recv.ssrc, lo |-> seq, hi |-> recv.hi,
                             last |-> recv.last, start |-> recv.start, lost |-> lost]
      BY <1>2, <2>1
    <2>3. SameSource(seq) \in Receiver
      BY <1>1, <2>2 DEF Receiver
    <2>4. QED
      BY <1>3, <2>2, <2>3 DEF lost
  <1>4. CASE ~(seq > recv.lo) /\ RolledOver(seq)
    <2>1. SameSource(seq) = [recv EXCEPT !.lost = lost, !.lo = seq, !.hi = @ + 1, !.last = 0]
      BY <1>4 DEF SameSource
    <2> HIDE DEF lost
    <2>2. SameSource(seq) = [ssrc |-> recv.ssrc, lo |-> seq, hi |-> recv.hi + 1,
                             last |-> 0, start |-> recv.start, lost |-> lost]
      BY <1>2, <2>1
    <2>3. SameSource(seq) \in Receiver
      BY <1>1, <2>2 DEF Receiver
    <2>4. QED
      BY <1>4, <2>2, <2>3 DEF lost
  <1>5. CASE ~(seq > recv.lo) /\ ~RolledOver(seq)
    <2>1. SameSource(seq) = [recv EXCEPT !.lost = lost]
      BY <1>5 DEF SameSource
    <2> HIDE DEF lost
    <2>2. SameSource(seq) = [ssrc |-> recv.ssrc, lo |-> recv.lo, hi |-> recv.hi,
                             last |-> recv.last, start |-> recv.start, lost |-> lost]
      BY <1>2, <2>1
    <2>3. SameSource(seq) \in Receiver
      BY <1>1, <2>2 DEF Receiver
    <2>4. QED
      BY <1>5, <2>2, <2>3 DEF lost
  <1>6. QED
    BY <1>3, <1>4, <1>5

LEMMA OtherSourceIs ==
    ASSUME recv \in Receiver, NEW p \in Packets
    PROVE  OtherSource(p) \in Receiver
  BY SeqnumIs, NumbersAre, PacketIs DEF OtherSource, Receiver

\* What one more packet makes of the story
LEMMA ContinuedIs ==
    ASSUME story \in Story, NEW p \in Packets, NEW decodes \in BOOLEAN
    PROVE  LET told == Continued(p, decodes)
           IN  /\ told \in Story
               /\ told.first = story.first /\ told.sole = story.sole
               /\ told.decoded = IF decodes THEN story.decoded + 1 ELSE story.decoded
               /\ told.top = IF decodes THEN p.n ELSE story.top
               /\ told.again = (story.again \/ (decodes /\ p.n <= story.top))
               /\ told.orderly = (story.orderly /\ ~OutOfStep(p))
               /\ told.newest = IF p.n > story.newest THEN p.n ELSE story.newest
               /\ told.missed = IF p.n > story.newest
                                THEN story.missed + p.n - story.newest - 1 ELSE story.missed
               /\ told.skipped = IF p.n > story.newest /\ ~decodes THEN story.skipped + 1
                                 ELSE story.skipped
               /\ told.late = IF p.n < story.newest THEN story.late + 1 ELSE story.late
               /\ told.reported = IF p.n > story.newest /\ Round(p.n) # Round(story.newest)
                                  THEN Round(p.n) * SeqMod ELSE story.reported
               /\ told.reporting = story.reporting
  <1> DEFINE d == IF decodes THEN story.decoded + 1 ELSE story.decoded
             t == IF decodes THEN p.n ELSE story.top
             a == story.again \/ (decodes /\ p.n <= story.top)
             o == story.orderly /\ ~OutOfStep(p)
             base == [story EXCEPT !.decoded = d, !.top = t, !.again = a, !.orderly = o]
  <1>1. /\ story.first \in Nat /\ story.newest \in Nat /\ story.decoded \in Nat
        /\ story.top \in Nat /\ story.skipped \in Nat /\ story.late \in Nat
        /\ story.missed \in Nat /\ story.sole \in BOOLEAN /\ story.orderly \in BOOLEAN
        /\ story.torn \in BOOLEAN /\ story.again \in BOOLEAN /\ p.n \in Nat
        /\ story.reported \in Nat /\ story.reporting \in Nat
    BY PacketIs DEF Story
  <1>2. d \in Nat /\ t \in Nat
    BY <1>1
  <1>3. a \in BOOLEAN /\ o \in BOOLEAN
    BY <1>1
  <1> HIDE DEF d, t, a, o
  <1>4. /\ base \in Story
        /\ base.first = story.first /\ base.newest = story.newest /\ base.decoded = d
        /\ base.top = t /\ base.skipped = story.skipped /\ base.late = story.late
        /\ base.missed = story.missed /\ base.sole = story.sole /\ base.orderly = o
        /\ base.torn = story.torn /\ base.again = a
        /\ base.reported = story.reported /\ base.reporting = story.reporting
    BY <1>2, <1>3 DEF Story
  <1>5. CASE p.n > story.newest
    <2> DEFINE s == IF decodes THEN story.skipped ELSE story.skipped + 1
               m == story.missed + p.n - story.newest - 1
               w == IF Round(p.n) = Round(story.newest) THEN story.reported
                    ELSE Round(p.n) * SeqMod
    <2>1. Continued(p, decodes) = [base EXCEPT !.newest = p.n, !.reported = w, !.missed = m,
                                               !.skipped = s]
      BY <1>4, <1>5 DEF Continued, d, t, a, o
    <2>2. m \in Nat /\ s \in Nat /\ p.n \in Nat
      BY <1>1, <1>5
    <2>x. w \in Nat
      <3>1. Round(p.n) \in Nat
        BY <1>1, RoundsAre DEF Round
      <3>2. Round(p.n) * SeqMod \in Nat
        BY <3>1, NumbersAre
      <3>3. QED
        BY <1>1, <3>2
    <2> HIDE DEF base, m, s, w
    <2>3. /\ Continued(p, decodes) \in Story
          /\ Continued(p, decodes).newest = p.n /\ Continued(p, decodes).missed = m
          /\ Continued(p, decodes).skipped = s /\ Continued(p, decodes).first = story.first
          /\ Continued(p, decodes).decoded = d /\ Continued(p, decodes).top = t
          /\ Continued(p, decodes).late = story.late /\ Continued(p, decodes).sole = story.sole
          /\ Continued(p, decodes).orderly = o /\ Continued(p, decodes).again = a
          /\ Continued(p, decodes).reported = w
          /\ Continued(p, decodes).reporting = story.reporting
      BY <1>4, <2>1, <2>2, <2>x DEF Story
    <2>4. ~(p.n < story.newest)
      BY <1>1, <1>5
    <2>5. QED
      BY <2>3, <2>4, <1>5 DEF d, t, a, o, m, s, w
  <1>6. CASE ~(p.n > story.newest)
    <2> DEFINE l == IF p.n = story.newest THEN story.late ELSE story.late + 1
    <2>1. Continued(p, decodes) = [base EXCEPT !.late = l]
      BY <1>4, <1>6 DEF Continued, d, t, a, o
    <2>2. l \in Nat /\ l = IF p.n < story.newest THEN story.late + 1 ELSE story.late
      BY <1>1, <1>6
    <2> HIDE DEF base, l
    <2>3. /\ Continued(p, decodes) \in Story
          /\ Continued(p, decodes).newest = story.newest
          /\ Continued(p, decodes).missed = story.missed
          /\ Continued(p, decodes).skipped = story.skipped
          /\ Continued(p, decodes).first = story.first
          /\ Continued(p, decodes).decoded = d /\ Continued(p, decodes).top = t
          /\ Continued(p, decodes).late = l /\ Continued(p, decodes).sole = story.sole
          /\ Continued(p, decodes).orderly = o /\ Continued(p, decodes).again = a
          /\ Continued(p, decodes).reported = story.reported
          /\ Continued(p, decodes).reporting = story.reporting
      BY <1>4, <2>1, <2>2 DEF Story
    <2>4. QED
      BY <2>2, <2>3, <1>6 DEF d, t, a, o
  <1>7. QED
    BY <1>5, <1>6

LEMMA BegunIs ==
    ASSUME recv \in Receiver, NEW p \in Packets
    PROVE  LET told == Begun(p)
           IN  /\ told \in Story
               /\ told.first = p.n /\ told.newest = p.n /\ told.decoded = 1 /\ told.top = p.n
               /\ told.skipped = 0 /\ told.late = 0 /\ told.missed = 0
               /\ told.sole = (recv.ssrc = 0)
               /\ told.orderly /\ ~told.again
               /\ told.reported = p.n
  <1> DEFINE alone == recv.ssrc = 0
  <1>1. p.n \in Nat /\ alone \in BOOLEAN
    BY PacketIs
  <1>2. Unheard \in Story /\ Unheard.skipped = 0 /\ Unheard.late = 0 /\ Unheard.missed = 0
        /\ Unheard.orderly /\ ~Unheard.again
    BY DEF Unheard, Story
  <1>3. Begun(p) = [Unheard EXCEPT !.first = p.n, !.newest = p.n, !.top = p.n, !.decoded = 1,
                                   !.reported = p.n, !.sole = alone]
    BY DEF Begun
  <1> HIDE DEF alone
  <1>4. /\ Begun(p) \in Story
        /\ Begun(p).first = p.n /\ Begun(p).newest = p.n /\ Begun(p).decoded = 1
        /\ Begun(p).top = p.n /\ Begun(p).skipped = 0 /\ Begun(p).late = 0
        /\ Begun(p).missed = 0 /\ Begun(p).sole = alone
        /\ Begun(p).orderly /\ ~Begun(p).again /\ Begun(p).reported = p.n
    <2> DEFINE counted == [Unheard EXCEPT !.first = p.n, !.newest = p.n, !.top = p.n,
                                          !.decoded = 1, !.reported = p.n]
    <2>1. /\ counted \in Story
          /\ counted.first = p.n /\ counted.newest = p.n /\ counted.decoded = 1
          /\ counted.top = p.n /\ counted.skipped = 0 /\ counted.late = 0
          /\ counted.missed = 0 /\ counted.orderly /\ ~counted.again
          /\ counted.reported = p.n
      BY <1>1, <1>2 DEF Story
    <2>2. Begun(p) = [counted EXCEPT !.sole = alone]
      BY <1>3
    <2> HIDE DEF counted
    <2>3. QED
      BY <1>1, <2>1, <2>2 DEF Story
  <1>5. QED
    BY <1>4 DEF alone

\* A torn report is told of a story without changing the rest
LEMMA TornIs ==
    ASSUME NEW told \in Story, NEW torn \in BOOLEAN
    PROVE  LET t == [told EXCEPT !.torn = torn]
           IN  /\ t \in Story /\ t.torn = torn
               /\ t.first = told.first /\ t.newest = told.newest /\ t.decoded = told.decoded
               /\ t.top = told.top /\ t.skipped = told.skipped /\ t.late = told.late
               /\ t.missed = told.missed /\ t.sole = told.sole /\ t.orderly = told.orderly
               /\ t.again = told.again
               /\ t.reported = told.reported /\ t.reporting = told.reporting
  BY DEF Story

\* A report is begun and stored without changing the rest of the story
LEMMA ReportingIs ==
    ASSUME story \in Story
    PROVE  LET t == [story EXCEPT !.reporting = story.newest]
           IN  /\ t \in Story /\ t.torn = story.torn
               /\ t.first = story.first /\ t.newest = story.newest
               /\ t.decoded = story.decoded /\ t.top = story.top
               /\ t.skipped = story.skipped /\ t.late = story.late
               /\ t.missed = story.missed /\ t.sole = story.sole /\ t.orderly = story.orderly
               /\ t.again = story.again
               /\ t.reported = story.reported /\ t.reporting = story.newest
  BY DEF Story

LEMMA ReportedIs ==
    ASSUME story \in Story
    PROVE  LET t == [story EXCEPT !.reported = story.reporting, !.reporting = 0]
           IN  /\ t \in Story /\ t.torn = story.torn
               /\ t.first = story.first /\ t.newest = story.newest
               /\ t.decoded = story.decoded /\ t.top = story.top
               /\ t.skipped = story.skipped /\ t.late = story.late
               /\ t.missed = story.missed /\ t.sole = story.sole /\ t.orderly = story.orderly
               /\ t.again = story.again
               /\ t.reported = story.reporting
  BY DEF Story

\* One turn of the loop, whatever packet it reads
LEMMA ReadPacketIs ==
    ASSUME recv \in Receiver, story \in Story, wire \in Seq(Packets),
           NEW i \in DOMAIN wire, ReadPacket(i)
    PROVE  LET p == wire[i]
               same == p.ssrc = recv.ssrc
               decodes == ~same \/ IsNext(Seqnum(p))
               told == IF same THEN Continued(p, decodes) ELSE Begun(p)
           IN  /\ p \in Packets /\ Seqnum(p) \in Numbers
               /\ recv' = IF same THEN SameSource(Seqnum(p)) ELSE OtherSource(p)
               /\ recv' \in Receiver
               /\ story' \in Story
               /\ story'.torn = IF same /\ recv'.hi = recv.hi THEN story.torn ELSE seen # None
               /\ story'.first = told.first /\ story'.newest = told.newest
               /\ story'.decoded = told.decoded /\ story'.top = told.top
               /\ story'.skipped = told.skipped /\ story'.late = told.late
               /\ story'.missed = told.missed /\ story'.sole = told.sole
               /\ story'.orderly = told.orderly /\ story'.again = told.again
               /\ story'.reported = told.reported /\ story'.reporting = told.reporting
  <1> DEFINE p == wire[i]
             same == p.ssrc = recv.ssrc
             decodes == ~same \/ IsNext(Seqnum(p))
             told == IF same THEN Continued(p, decodes) ELSE Begun(p)
             torn == IF same /\ recv'.hi = recv.hi THEN story.torn ELSE seen # None
  <1>1. p \in Packets /\ Seqnum(p) \in Numbers
    BY WithoutIs, SeqnumIs
  <1>2. recv' = IF same THEN SameSource(Seqnum(p)) ELSE OtherSource(p)
    BY DEF ReadPacket
  <1>3. recv' \in Receiver
    BY <1>1, <1>2, SameSourceIs, OtherSourceIs
  <1>4. decodes \in BOOLEAN
    OBVIOUS
  <1>5. told \in Story
    <2> HIDE DEF decodes
    <2>1. Continued(p, decodes) \in Story /\ Begun(p) \in Story
      BY <1>1, <1>4, ContinuedIs, BegunIs
    <2>2. QED
      BY <2>1
  <1>6. torn \in BOOLEAN
    BY DEF Story
  <1>7. story' = [told EXCEPT !.torn = torn]
    BY DEF ReadPacket
  <1> HIDE DEF told, torn
  <1>8. /\ story' \in Story /\ story'.torn = torn
        /\ story'.first = told.first /\ story'.newest = told.newest
        /\ story'.decoded = told.decoded /\ story'.top = told.top
        /\ story'.skipped = told.skipped /\ story'.late = told.late
        /\ story'.missed = told.missed /\ story'.sole = told.sole
        /\ story'.orderly = told.orderly /\ story'.again = told.again
        /\ story'.reported = told.reported /\ story'.reporting = told.reporting
    BY <1>5, <1>6, <1>7, TornIs
  <1>9. QED
    BY <1>1, <1>2, <1>3, <1>8 DEF told, torn

-----------------------------------------------------------------------------
(***************************************************************************)
(* Types.                                                                  *)
(***************************************************************************)
ThreadOK ==
    /\ pc \in {"wait", "drain"} /\ locked \in BOOLEAN /\ overrun \in BOOLEAN
    /\ heard \in Seq(Data) /\ Len(heard) \in {0, BlockBytes}

NumbersOK == recv \in Receiver /\ seen \in Numbers \union {None} /\ story \in Story

LEMMA TypeIs == TypeOK <=> RingTypeOK /\ WireOK /\ ThreadOK /\ NumbersOK
  BY DEF TypeOK, WireOK, ThreadOK, NumbersOK, Receiver, Numbers

\* A block is heard whole, or nothing
LEMMA PlayThread ==
    ASSUME RingTypeOK, ThreadOK, Play
    PROVE  ThreadOK'
  <1>1. pc' = "wait" /\ overrun' = overrun
    BY DEF Play
  <1>2. CASE ReadSpace < BlockBytes * Setpoint /\ ~locked
    <2>1. locked' = locked /\ heard' = heard
      BY <1>2 DEF Play
    <2>2. QED
      BY <1>1, <2>1 DEF ThreadOK
  <1>3. CASE ~(ReadSpace < BlockBytes * Setpoint /\ ~locked)
    <2>1. locked' = (ReadSpace >= BlockBytes)
      BY <1>3 DEF Play
    <2>2. locked' \in BOOLEAN
      BY <2>1
    <2>3. CASE ReadSpace >= BlockBytes
      <3>1. BlockBytes \in 0..ReadSpace /\ heard' = ReadData(BlockBytes)
        BY <1>3, <2>3, BlockFits, PointersAre DEF Play
      <3>2. heard' = SubSeq(Contents, 1, BlockBytes)
        BY <3>1, ReadDataIs
      <3>3. heard' \in Seq(Data) /\ Len(heard') = BlockBytes
        BY <3>1, <3>2, ContentsIs, BlockFits, PointersAre
      <3>4. QED
        BY <1>1, <2>2, <3>3 DEF ThreadOK
    <2>4. CASE ~(ReadSpace >= BlockBytes)
      <3>1. heard' = heard
        BY <1>3, <2>4 DEF Play
      <3>2. QED
        BY <1>1, <2>2, <3>1 DEF ThreadOK
    <2>5. QED
      BY <2>3, <2>4
  <1>4. QED
    BY <1>2, <1>3

LEMMA ThreadStep == RingTypeOK /\ ThreadOK /\ [Next]_vars => ThreadOK'
  <1> SUFFICES ASSUME RingTypeOK, ThreadOK, [Next]_vars PROVE ThreadOK'
    OBVIOUS
  <1>1. ASSUME NEW i \in DOMAIN wire, ReadPacket(i) PROVE ThreadOK'
    <2>1. overrun' = overrun \/ \E m \in Resampled :
                                   overrun' = (overrun \/ WriteSpace < m * FrameBytes)
      BY <1>1 DEF ReadPacket
    <2>2. overrun' \in BOOLEAN
      BY <2>1 DEF ThreadOK
    <2>3. QED
      BY <1>1, <2>2 DEF ReadPacket, ThreadOK
  <1>2. CASE NewCall
    <2>1. heard' = <<>> /\ overrun' = FALSE /\ pc' = pc /\ locked' = FALSE
      BY <1>2 DEF NewCall
    <2>2. heard' \in Seq(Data) /\ Len(heard') = 0
      BY <2>1
    <2>3. QED
      BY <2>1, <2>2 DEF ThreadOK
  <1>3. CASE Play
    BY <1>3, PlayThread
  <1>4. CASE Callback
    BY <1>4 DEF Callback, ThreadOK
  <1>5. ASSUME NEW some \in 0..ratio, Transmit(some) PROVE ThreadOK'
    BY <1>5 DEF Transmit, thread, ThreadOK
  <1>6. CASE ReportBegins \/ ReportEnds \/ UNCHANGED vars
    BY <1>6 DEF ReportBegins, ReportEnds, vars, thread, ThreadOK
  <1>7. QED
    BY <1>1, <1>2, <1>3, <1>4, <1>5, <1>6 DEF Next

LEMMA NumbersStep == WireOK /\ NumbersOK /\ [Next]_vars => NumbersOK'
  <1> SUFFICES ASSUME WireOK, NumbersOK, [Next]_vars PROVE NumbersOK'
    OBVIOUS
  <1>1. ASSUME NEW i \in DOMAIN wire, ReadPacket(i) PROVE NumbersOK'
    <2>1. recv' \in Receiver /\ story' \in Story
      BY <1>1, ReadPacketIs DEF WireOK, NumbersOK
    <2>2. QED
      BY <1>1, <2>1 DEF ReadPacket, NumbersOK
  <1>2. CASE NewCall
    <2>1. NoSource \in Receiver /\ Unheard \in Story
      BY NumbersAre DEF NoSource, Receiver, Unheard, Story
    <2>2. QED
      BY <1>2, <2>1 DEF NewCall, NumbersOK
  <1>3. CASE ReportBegins
    <2>1. recv' = recv /\ seen' = recv.lo /\ story' = [story EXCEPT !.reporting = story.newest]
      BY <1>3 DEF ReportBegins
    <2>2. story' \in Story
      BY <2>1, ReportingIs DEF NumbersOK
    <2>3. QED
      BY <2>1, <2>2 DEF NumbersOK, Receiver
  <1>4. CASE ReportEnds
    <2>1. /\ seen \in Numbers /\ recv' = [recv EXCEPT !.last = seen] /\ seen' = None
          /\ story' = [story EXCEPT !.reported = story.reporting, !.reporting = 0]
      BY <1>4 DEF ReportEnds, NumbersOK
    <2>2. recv' \in Receiver
      BY <2>1 DEF Receiver, NumbersOK
    <2>3. story' \in Story
      BY <2>1, ReportedIs DEF NumbersOK
    <2>4. QED
      BY <2>1, <2>2, <2>3 DEF NumbersOK
  <1>5. ASSUME NEW some \in 0..ratio, Transmit(some) PROVE NumbersOK'
    BY <1>5 DEF Transmit, NumbersOK
  <1>6. CASE Callback \/ Play \/ UNCHANGED vars
    BY <1>6 DEF Callback, Play, vars, NumbersOK
  <1>7. QED
    BY <1>1, <1>2, <1>3, <1>4, <1>5, <1>6 DEF Next

\* The receiver's variables keep their widths, and what is heard is as long as the stream's
\* blocks, for every instance.
THEOREM ReceptionTypeCorrect == Spec => []TypeOK
  <1>1. Init => ThreadOK /\ NumbersOK
    <2> SUFFICES ASSUME Init PROVE ThreadOK /\ NumbersOK
      OBVIOUS
    <2>1. pc = "wait" /\ locked = FALSE /\ overrun = FALSE /\ heard = <<>>
      BY DEF Init
    <2>a. <<>> \in Seq(Data) /\ Len(<<>>) = 0
      OBVIOUS
    <2>b. heard \in Seq(Data) /\ Len(heard) = 0
      BY <2>1, <2>a
    <2>c. locked \in BOOLEAN /\ overrun \in BOOLEAN
      BY <2>1
    <2>2. ThreadOK
      BY <2>1, <2>b, <2>c DEF ThreadOK
    <2>3. NoSource \in Receiver
      BY NumbersAre DEF NoSource, Receiver
    <2>4. Unheard \in Story
      BY DEF Unheard, Story
    <2>5. NumbersOK
      BY <2>3, <2>4 DEF Init, NumbersOK
    <2>6. QED
      BY <2>2, <2>5
  <1>2. Spec => []RingTypeOK
    BY ReceptionRunsTheRing, RingTypeCorrect, PTL
  <1>3. Spec => [](WireOK /\ ThreadOK /\ NumbersOK)
    BY <1>1, <1>2, WireCorrect, ThreadStep, NumbersStep, PTL DEF Spec
  <1>4. QED
    BY <1>2, <1>3, TypeIs, PTL

-----------------------------------------------------------------------------
(***************************************************************************)
(* Reports.                                                                *)
(***************************************************************************)
\* The number that was reported last is ahead of the newest only where the source or the
\* rollover overtook a report that was being written.
THEOREM ReportsGoOnCorrect == Spec => []ReportsGoOn
  <1>1. Init => ReportsGoOn
    BY NumbersAre DEF Init, NoSource, None, ReportsGoOn
  <1>2. TypeOK /\ ReportsGoOn /\ [Next]_vars => ReportsGoOn'
    <2> SUFFICES ASSUME NumbersOK, WireOK, ReportsGoOn, [Next]_vars PROVE ReportsGoOn'
      BY TypeIs
    <2>a. recv.lo \in Int /\ recv.last \in Int /\ recv.hi \in Int /\ 0 <= recv.lo
      BY NumbersAre DEF NumbersOK, Receiver, Numbers
    <2>1. ASSUME NEW i \in DOMAIN wire, ReadPacket(i) PROVE ReportsGoOn'
      <3> DEFINE p == wire[i]
                 same == p.ssrc = recv.ssrc
      <3>1. /\ p \in Packets /\ Seqnum(p) \in Numbers /\ recv' \in Receiver
            /\ recv' = IF same THEN SameSource(Seqnum(p)) ELSE OtherSource(p)
            /\ story'.torn = IF same /\ recv'.hi = recv.hi THEN story.torn ELSE seen # None
        BY <2>1, ReadPacketIs DEF WireOK, NumbersOK
      <3>2. seen' = seen /\ recv'.lo \in Int /\ recv'.last \in Int /\ 0 <= recv'.lo
        BY <2>1, <3>1, NumbersAre DEF ReadPacket, Receiver, Numbers
      <3>3. CASE same /\ recv'.hi = recv.hi
        <4>1. recv'.last = recv.last /\ (recv'.lo = recv.lo \/ recv'.lo > recv.lo)
          BY <3>1, <3>3, <2>a, SameSourceIs DEF NumbersOK
        <4>2. seen \in Int
          BY NumbersAre DEF NumbersOK, Numbers, None
        <4>3. recv.last <= recv.lo /\ seen <= recv.lo
                => recv'.last <= recv'.lo /\ seen' <= recv'.lo
          BY <2>a, <3>2, <4>1, <4>2
        <4>4. QED
          BY <3>1, <3>3, <4>3 DEF ReportsGoOn
      <3>4. CASE ~(same /\ recv'.hi = recv.hi)
        <4>1. recv'.last <= recv'.lo
          <5>1. CASE same
            <6>1. recv'.last = 0
              BY <3>1, <3>4, <5>1, SameSourceIs DEF NumbersOK
            <6>2. QED
              BY <3>2, <6>1
          <5>2. CASE ~same
            BY <3>1, <3>2, <5>2 DEF OtherSource
          <5>3. QED
            BY <5>1, <5>2
        <4>2. seen = None => seen' <= recv'.lo
          BY <3>2 DEF None
        <4>3. story'.torn = (seen # None)
          BY <3>1, <3>4
        <4>4. QED
          BY <4>1, <4>2, <4>3 DEF ReportsGoOn
      <3>5. QED
        BY <3>3, <3>4
    <2>2. CASE NewCall
      BY <2>2 DEF NewCall, NoSource, None, ReportsGoOn
    <2>3. CASE ReportBegins
      <3>1. recv' = recv /\ seen' = recv.lo /\ seen = None /\ story'.torn = story.torn
        BY <2>3, ReportingIs DEF ReportBegins, NumbersOK
      <3>2. QED
        BY <3>1, <2>a DEF ReportsGoOn
    <2>4. CASE ReportEnds
      <3>1. /\ recv'.last = seen /\ recv'.lo = recv.lo /\ seen' = None
            /\ story'.torn = story.torn
        BY <2>4, ReportedIs DEF ReportEnds, NumbersOK, Receiver
      <3>2. QED
        BY <3>1, <2>a DEF ReportsGoOn, None
    <2>5. ASSUME NEW some \in 0..ratio, Transmit(some) PROVE ReportsGoOn'
      BY <2>5 DEF Transmit, ReportsGoOn
    <2>6. CASE Callback \/ Play \/ UNCHANGED vars
      BY <2>6 DEF Callback, Play, vars, ReportsGoOn
    <2>7. QED
      BY <2>1, <2>2, <2>3, <2>4, <2>5, <2>6 DEF Next
  <1>3. QED
    BY <1>1, <1>2, ReceptionTypeCorrect, PTL DEF Spec

-----------------------------------------------------------------------------
(***************************************************************************)
(* Numbers that go round.                                                  *)
(***************************************************************************)
\* In one round the numbers are as far apart as the packets
LEMMA SameRound ==
    ASSUME NEW m \in Nat, NEW n \in Nat, n \div SeqMod = m \div SeqMod
    PROVE  (n % SeqMod) - (m % SeqMod) = n - m
  <1> DEFINE q == m \div SeqMod
             k == SeqMod * q
  <1>1. m = k + (m % SeqMod) /\ n = k + (n % SeqMod) /\ m % SeqMod \in Nat /\ n % SeqMod \in Nat
    BY RoundsAre, NumbersAre
  <1>2. k \in Nat
    BY RoundsAre, NumbersAre
  <1> HIDE DEF k
  <1>3. QED
    BY <1>1, <1>2

\* Less than a round ahead, and in another one: that is the next
LEMMA NextRound ==
    ASSUME NEW m \in Nat, NEW n \in Nat, n > m, n - m < SeqMod,
           n \div SeqMod # m \div SeqMod
    PROVE  /\ n \div SeqMod = (m \div SeqMod) + 1
           /\ n % SeqMod = (m % SeqMod) + (n - m) - SeqMod
  <1> DEFINE q == m \div SeqMod
             r == n \div SeqMod
             x == m % SeqMod
             y == n % SeqMod
  <1>1. /\ q \in Nat /\ r \in Nat /\ x \in 0..SeqMod-1 /\ y \in 0..SeqMod-1
        /\ m = SeqMod * q + x /\ n = SeqMod * r + y /\ q # r
    BY RoundsAre DEF Numbers
  <1>2. SeqMod \in Nat /\ SeqMod >= 2
    BY NumbersAre
  <1> HIDE DEF q, r, x, y
  <1>3. n - m = SeqMod * (r - q) + y - x
    BY <1>1, <1>2
  <1>4. CASE r - q >= 2
    <2>1. SeqMod * (r - q) = SeqMod * (r - q - 2) + SeqMod + SeqMod
      BY <1>1, <1>2
    <2>2. SeqMod * (r - q - 2) \in Nat
      BY <1>1, <1>2, <1>4
    <2>3. QED
      BY <1>1, <1>2, <1>3, <2>1, <2>2
  <1>5. CASE r - q <= -1
    <2>1. SeqMod * (r - q) = -(SeqMod * (q - r - 1)) - SeqMod
      BY <1>1, <1>2
    <2>2. SeqMod * (q - r - 1) \in Nat
      BY <1>1, <1>2, <1>5
    <2>3. QED
      BY <1>1, <1>2, <1>3, <2>1, <2>2
  <1>6. CASE r - q = 1
    <2>1. SeqMod * (r - q) = SeqMod
      BY <1>2, <1>6
    <2>2. QED
      BY <1>1, <1>2, <1>3, <1>6, <2>1 DEF q, r, x, y
  <1>7. QED
    BY <1>1, <1>4, <1>5, <1>6

\* What the number of a packet tells a receiver that is in step: whether it is newer, and
\* whether the numbers went round before it
LEMMA NumberTells ==
    ASSUME recv \in Receiver, story \in Story, NEW p \in Packets,
           recv.lo = story.newest % SeqMod, ~OutOfStep(p)
    PROVE  /\ p.n > story.newest /\ p.n \div SeqMod = story.newest \div SeqMod
                => Seqnum(p) > recv.lo
           /\ p.n > story.newest /\ p.n \div SeqMod # story.newest \div SeqMod
                => /\ Seqnum(p) < recv.lo /\ RolledOver(Seqnum(p))
                   /\ p.n \div SeqMod = (story.newest \div SeqMod) + 1
           /\ p.n <= story.newest
                => /\ Seqnum(p) <= recv.lo /\ ~RolledOver(Seqnum(p))
                   /\ Seqnum(p) = recv.lo <=> p.n = story.newest
  <1> DEFINE m == story.newest
             n == p.n
             x == m % SeqMod
             y == n % SeqMod
  <1>1. m \in Nat /\ n \in Nat /\ recv.lo = x /\ Seqnum(p) = y
    BY PacketIs DEF Story, Seqnum
  <1>2. x \in Nat /\ y \in Nat /\ x < SeqMod /\ y < SeqMod
    BY <1>1, RoundsAre, NumbersAre DEF Numbers
  <1>3. CASE n > m /\ n \div SeqMod = m \div SeqMod
    <2>1. y - x = n - m
      BY <1>1, <1>3, SameRound
    <2> HIDE DEF m, n, x, y
    <2>2. y > x /\ ~(n <= m)
      BY <1>1, <1>2, <1>3, <2>1
    <2>3. QED
      BY <1>1, <1>3, <2>2 DEF m, n
  <1>4. CASE n > m /\ n \div SeqMod # m \div SeqMod
    <2>1. n - m < RollWindow
      BY <1>1, <1>4, NumbersAre DEF OutOfStep, Round
    <2>2. n - m < SeqMod
      BY <1>1, <2>1, NumbersAre
    <2>3. n \div SeqMod = (m \div SeqMod) + 1 /\ y = x + (n - m) - SeqMod
      BY <1>1, <1>4, <2>2, NextRound
    <2> HIDE DEF m, n, x, y
    <2>4. y < x /\ x > SeqMod - RollWindow /\ y < x - (SeqMod - RollWindow) /\ ~(n <= m)
      BY <1>1, <1>2, <1>4, <2>1, <2>3, NumbersAre
    <2>5. RolledOver(Seqnum(p))
      BY <1>1, <2>4 DEF RolledOver
    <2>6. QED
      BY <1>1, <1>4, <2>3, <2>4, <2>5 DEF m, n
  <1>5. CASE ~(n > m)
    <2>1. n \div SeqMod = m \div SeqMod /\ m - n <= SeqMod - RollWindow
      BY <1>1, <1>5, NumbersAre DEF OutOfStep, Round
    <2>2. y - x = n - m
      BY <1>1, <2>1, SameRound
    <2> HIDE DEF m, n, x, y
    <2>3. y <= x /\ (y = x <=> n = m) /\ ~(y < x - (SeqMod - RollWindow))
      BY <1>1, <1>2, <1>5, <2>1, <2>2, NumbersAre
    <2>4. ~RolledOver(Seqnum(p))
      BY <1>1, <2>3 DEF RolledOver
    <2>5. QED
      BY <1>1, <1>5, <2>3, <2>4 DEF m, n
  <1>6. QED
    BY <1>3, <1>4, <1>5

-----------------------------------------------------------------------------
(***************************************************************************)
(* In step.                                                                *)
(***************************************************************************)
\* While the numbers could tell the order
Orderly ==
    /\ recv.lo = story.newest % SeqMod
    /\ recv.lost = story.skipped + story.late
    /\ story.newest - story.first = story.skipped + story.decoded - 1 + story.missed
    /\ story.sole => recv.hi = (story.newest \div SeqMod) - (story.first \div SeqMod)

StepInv ==
    /\ recv.ssrc = 0 => recv.hi = 0
    /\ story.orderly => ~story.again
    /\ recv.ssrc # 0 =>
        /\ story.first <= story.newest /\ story.top <= story.newest
        /\ recv.start = story.first % SeqMod
        /\ story.orderly => Orderly

\* The next packet of the source that was heard before
LEMMA SameSourceStep ==
    ASSUME WireOK, NumbersOK, StepInv, NEW i \in DOMAIN wire, ReadPacket(i),
           wire[i].ssrc = recv.ssrc
    PROVE  StepInv'
  <1> DEFINE p == wire[i]
             seq == Seqnum(p)
             decodes == ~(p.ssrc = recv.ssrc) \/ IsNext(seq)
  <1>1. /\ p \in Packets /\ seq \in Numbers
        /\ recv' = SameSource(seq) /\ recv' \in Receiver /\ story' \in Story
        /\ LET told == Continued(p, decodes)
           IN  /\ story'.first = told.first /\ story'.newest = told.newest
               /\ story'.decoded = told.decoded /\ story'.top = told.top
               /\ story'.skipped = told.skipped /\ story'.late = told.late
               /\ story'.missed = told.missed /\ story'.sole = told.sole
               /\ story'.orderly = told.orderly /\ story'.again = told.again
    BY ReadPacketIs DEF WireOK, NumbersOK
  <1>2. /\ story'.first = story.first /\ story'.sole = story.sole
        /\ story'.decoded = IF decodes THEN story.decoded + 1 ELSE story.decoded
        /\ story'.top = IF decodes THEN p.n ELSE story.top
        /\ story'.again = (story.again \/ (decodes /\ p.n <= story.top))
        /\ story'.orderly = (story.orderly /\ ~OutOfStep(p))
        /\ story'.newest = IF p.n > story.newest THEN p.n ELSE story.newest
        /\ story'.missed = IF p.n > story.newest
                           THEN story.missed + p.n - story.newest - 1 ELSE story.missed
        /\ story'.skipped = IF p.n > story.newest /\ ~decodes THEN story.skipped + 1
                            ELSE story.skipped
        /\ story'.late = IF p.n < story.newest THEN story.late + 1 ELSE story.late
    <2> HIDE DEF p
    <2>1. decodes \in BOOLEAN
      OBVIOUS
    <2> HIDE DEF decodes
    <2>2. QED
      BY <1>1, <2>1, ContinuedIs DEF NumbersOK
  <1>3. /\ p.n \in Nat /\ p.ssrc \in 1..MaxCalls /\ seq \in Int /\ recv.lo \in Int
        /\ recv.hi \in Nat /\ recv.lost \in Nat
        /\ story.first \in Nat /\ story.newest \in Nat /\ story.decoded \in Nat
        /\ story.top \in Nat /\ story.skipped \in Nat /\ story.late \in Nat
        /\ story.missed \in Nat
    BY <1>1, NumbersAre, PacketIs DEF NumbersOK, Receiver, Story, Numbers
  <1>4. /\ recv'.ssrc = recv.ssrc /\ recv'.start = recv.start /\ recv.ssrc # 0
        /\ recv'.lost = IF IsNext(seq) \/ seq = recv.lo THEN recv.lost ELSE recv.lost + 1
    BY <1>1, <1>3, SameSourceIs DEF NumbersOK
  <1>5. /\ decodes <=> seq = recv.lo + 1
        /\ recv'.lost = IF decodes \/ seq = recv.lo THEN recv.lost ELSE recv.lost + 1
    BY <1>4 DEF IsNext
  <1>6. story.first <= story.newest /\ story.top <= story.newest
        /\ recv.start = story.first % SeqMod
    BY <1>4 DEF StepInv
  <1>7. story'.first <= story'.newest /\ story'.top <= story'.newest
        /\ recv'.start = story'.first % SeqMod
    <2> HIDE DEF p, decodes
    <2>1. story'.first <= story'.newest
      BY <1>2, <1>3, <1>6
    <2>2. story'.top <= story'.newest
      BY <1>2, <1>3, <1>6
    <2>3. QED
      BY <1>2, <1>4, <1>6, <2>1, <2>2
  <1>8. ASSUME story.orderly, ~OutOfStep(p)
        PROVE  ~story'.again /\ Orderly'
    <2>1. Orderly /\ ~story.again
      BY <1>4, <1>8 DEF StepInv
    <2>2. /\ p.n > story.newest /\ p.n \div SeqMod = story.newest \div SeqMod => seq > recv.lo
          /\ p.n > story.newest /\ p.n \div SeqMod # story.newest \div SeqMod
                => /\ seq < recv.lo /\ RolledOver(seq)
                   /\ p.n \div SeqMod = (story.newest \div SeqMod) + 1
          /\ p.n <= story.newest
                => /\ seq <= recv.lo /\ ~RolledOver(seq)
                   /\ seq = recv.lo <=> p.n = story.newest
      BY <1>1, <1>8, <2>1, NumberTells DEF NumbersOK, Orderly
    <2>3. /\ seq > recv.lo => recv'.lo = seq /\ recv'.hi = recv.hi
          /\ ~(seq > recv.lo) /\ RolledOver(seq) => recv'.lo = seq /\ recv'.hi = recv.hi + 1
          /\ ~(seq > recv.lo) /\ ~RolledOver(seq) => recv'.lo = recv.lo /\ recv'.hi = recv.hi
      BY <1>1, SameSourceIs DEF NumbersOK
    <2>4. seq = p.n % SeqMod
      BY DEF Seqnum
    <2> HIDE DEF p, seq, decodes
    <2>5. CASE p.n > story.newest
      <3>1. /\ story'.newest = p.n /\ story'.late = story.late
            /\ story'.missed = story.missed + p.n - story.newest - 1
            /\ story'.skipped = IF decodes THEN story.skipped ELSE story.skipped + 1
        BY <1>2, <1>3, <2>5
      <3>2. ~(decodes /\ p.n <= story.top)
        BY <1>3, <1>6, <2>5
      <3>3. seq # recv.lo /\ recv'.lo = seq
        BY <1>3, <2>2, <2>3, <2>5
      <3>4. story'.newest - story'.first
              = story'.skipped + story'.decoded - 1 + story'.missed
        <4>1. story.newest - story.first = story.skipped + story.decoded - 1 + story.missed
          BY <2>1 DEF Orderly
        <4>2. story'.first = story.first
          BY <1>2
        <4>3. story'.skipped + story'.decoded = story.skipped + story.decoded + 1
          <5>1. CASE decodes
            <6>1. story'.skipped = story.skipped /\ story'.decoded = story.decoded + 1
              BY <1>2, <3>1, <5>1
            <6> QED
              BY <1>3, <6>1
          <5>2. CASE ~decodes
            <6>1. story'.skipped = story.skipped + 1 /\ story'.decoded = story.decoded
              BY <1>2, <3>1, <5>2
            <6> QED
              BY <1>3, <6>1
          <5> QED
            BY <5>1, <5>2
        <4>4. story'.skipped \in Int /\ story'.decoded \in Int
          BY <1>2, <1>3, <3>1
        <4> QED
          BY <1>3, <3>1, <4>1, <4>2, <4>3, <4>4
      <3>5. recv'.lost = story'.skipped + story'.late
        BY <1>3, <1>5, <2>1, <3>1, <3>3 DEF Orderly
      <3>6. recv'.hi - recv.hi = (p.n \div SeqMod) - (story.newest \div SeqMod)
        <4>1. p.n \div SeqMod \in Nat /\ story.newest \div SeqMod \in Nat
          BY <1>3, RoundsAre
        <4>2. CASE p.n \div SeqMod = story.newest \div SeqMod
          BY <1>3, <2>2, <2>3, <2>5, <4>1, <4>2
        <4>3. CASE p.n \div SeqMod # story.newest \div SeqMod
          <5>1. ~(seq > recv.lo) /\ RolledOver(seq)
                /\ p.n \div SeqMod = (story.newest \div SeqMod) + 1
            BY <1>3, <2>2, <2>5, <4>3
          <5>2. recv'.hi = recv.hi + 1
            BY <2>3, <5>1
          <5>3. QED
            BY <1>3, <4>1, <5>1, <5>2
        <4>4. QED
          BY <4>2, <4>3
      <3>7. story'.sole
              => recv'.hi = (story'.newest \div SeqMod) - (story'.first \div SeqMod)
        <4>1. /\ p.n \div SeqMod \in Nat /\ story.newest \div SeqMod \in Nat
              /\ story.first \div SeqMod \in Nat /\ recv'.hi \in Nat
          BY <1>1, <1>3, RoundsAre DEF Receiver
        <4>2. story.sole
                => recv.hi = (story.newest \div SeqMod) - (story.first \div SeqMod)
          BY <2>1 DEF Orderly
        <4>3. QED
          BY <1>2, <1>3, <3>1, <3>6, <4>1, <4>2
      <3>8. QED
        BY <1>2, <2>1, <2>4, <3>1, <3>2, <3>3, <3>4, <3>5, <3>7 DEF Orderly
    <2>6. CASE ~(p.n > story.newest)
      <3>1. /\ seq <= recv.lo /\ ~RolledOver(seq) /\ (seq = recv.lo <=> p.n = story.newest)
        BY <1>3, <2>2, <2>6
      <3>2. ~decodes /\ recv'.lo = recv.lo /\ recv'.hi = recv.hi
        BY <1>3, <1>5, <2>3, <3>1
      <3>3. /\ story'.newest = story.newest /\ story'.missed = story.missed
            /\ story'.skipped = story.skipped /\ story'.decoded = story.decoded
            /\ story'.late = IF p.n = story.newest THEN story.late ELSE story.late + 1
        BY <1>2, <1>3, <2>6, <3>2
      <3>4. recv'.lost = story'.skipped + story'.late
        BY <1>3, <1>5, <2>1, <3>1, <3>2, <3>3 DEF Orderly
      <3>5. QED
        BY <1>2, <2>1, <3>2, <3>3, <3>4 DEF Orderly
    <2>7. QED
      BY <2>5, <2>6
  <1>9. story'.orderly => ~story'.again /\ Orderly'
    BY <1>2, <1>8
  <1>10. QED
    BY <1>4, <1>7, <1>9 DEF StepInv

\* The first packet of a source
LEMMA OtherSourceStep ==
    ASSUME WireOK, NumbersOK, StepInv, NEW i \in DOMAIN wire, ReadPacket(i),
           wire[i].ssrc # recv.ssrc
    PROVE  StepInv'
  <1> DEFINE p == wire[i]
  <1>1. /\ p \in Packets /\ recv' = OtherSource(p) /\ recv' \in Receiver
        /\ LET told == Begun(p)
           IN  /\ story'.first = told.first /\ story'.newest = told.newest
               /\ story'.decoded = told.decoded /\ story'.top = told.top
               /\ story'.skipped = told.skipped /\ story'.late = told.late
               /\ story'.missed = told.missed /\ story'.sole = told.sole
               /\ story'.orderly = told.orderly /\ story'.again = told.again
    BY ReadPacketIs DEF WireOK, NumbersOK
  <1>2. /\ story'.first = p.n /\ story'.newest = p.n /\ story'.decoded = 1 /\ story'.top = p.n
        /\ story'.skipped = 0 /\ story'.late = 0 /\ story'.missed = 0
        /\ story'.sole = (recv.ssrc = 0) /\ ~story'.again
    BY <1>1, BegunIs DEF NumbersOK
  <1>3. /\ recv'.ssrc = p.ssrc /\ recv'.lo = p.n % SeqMod /\ recv'.hi = recv.hi
        /\ recv'.start = p.n % SeqMod /\ recv'.lost = 0
    BY <1>1 DEF OtherSource, Seqnum
  <1>4. p.ssrc # 0 /\ p.n \in Nat /\ p.n \div SeqMod \in Nat
    BY <1>1, NumbersAre, RoundsAre, PacketIs
  <1>5. recv.ssrc = 0 => recv.hi = 0
    BY DEF StepInv
  <1>6. Orderly'
    <2>1. story'.sole => recv'.hi = (story'.newest \div SeqMod) - (story'.first \div SeqMod)
      <3> DEFINE q == p.n \div SeqMod
      <3>1. story'.newest \div SeqMod = q /\ story'.first \div SeqMod = q
        BY <1>2
      <3>2. q \in Nat
        BY <1>4
      <3> HIDE DEF q
      <3>3. story'.sole => recv'.hi = 0
        BY <1>2, <1>3, <1>5
      <3>4. q - q = 0
        BY <3>2
      <3>5. QED
        BY <3>1, <3>3, <3>4
    <2>2. recv'.lost = story'.skipped + story'.late
      BY <1>2, <1>3
    <2>3. story'.newest - story'.first = story'.skipped + story'.decoded - 1 + story'.missed
      BY <1>2, <1>4
    <2>4. QED
      BY <1>2, <1>3, <2>1, <2>2, <2>3 DEF Orderly
  <1>7. story'.first <= story'.newest /\ story'.top <= story'.newest
    BY <1>2, <1>4
  <1>8. QED
    BY <1>2, <1>3, <1>4, <1>6, <1>7 DEF StepInv

LEMMA StepInvStep == WireOK /\ NumbersOK /\ StepInv /\ [Next]_vars => StepInv'
  <1> SUFFICES ASSUME WireOK, NumbersOK, StepInv, [Next]_vars PROVE StepInv'
    OBVIOUS
  <1>1. ASSUME NEW i \in DOMAIN wire, ReadPacket(i) PROVE StepInv'
    BY <1>1, SameSourceStep, OtherSourceStep
  <1>2. CASE NewCall
    BY <1>2 DEF NewCall, NoSource, Unheard, StepInv
  <1>3. CASE ReportEnds
    <2>1. recv' = [recv EXCEPT !.last = seen]
          /\ story' = [story EXCEPT !.reported = story.reporting, !.reporting = 0]
      BY <1>3 DEF ReportEnds
    <2>2. /\ recv'.ssrc = recv.ssrc /\ recv'.lo = recv.lo /\ recv'.hi = recv.hi
          /\ recv'.start = recv.start /\ recv'.lost = recv.lost
      BY <2>1 DEF NumbersOK, Receiver
    <2> DEFINE t == [story EXCEPT !.reported = story.reporting, !.reporting = 0]
    <2>3. /\ t.first = story.first /\ t.newest = story.newest
          /\ t.decoded = story.decoded /\ t.top = story.top
          /\ t.skipped = story.skipped /\ t.late = story.late
          /\ t.missed = story.missed /\ t.sole = story.sole /\ t.orderly = story.orderly
          /\ t.again = story.again
      BY ReportedIs DEF NumbersOK
    <2>4. story' = t
      BY <2>1
    <2> HIDE DEF t
    <2>5. Orderly' <=> Orderly
      BY <2>2, <2>3, <2>4 DEF Orderly
    <2>6. QED
      BY <2>2, <2>3, <2>4, <2>5 DEF StepInv
  <1>4. ASSUME NEW some \in 0..ratio, Transmit(some) PROVE StepInv'
    BY <1>4 DEF Transmit, StepInv, Orderly
  <1>5. CASE Callback \/ Play \/ UNCHANGED vars
    BY <1>5 DEF Callback, Play, vars, StepInv, Orderly
  <1>6. CASE ReportBegins
    <2> DEFINE t == [story EXCEPT !.reporting = story.newest]
    <2>1. /\ t.first = story.first /\ t.newest = story.newest
          /\ t.decoded = story.decoded /\ t.top = story.top
          /\ t.skipped = story.skipped /\ t.late = story.late
          /\ t.missed = story.missed /\ t.sole = story.sole /\ t.orderly = story.orderly
          /\ t.again = story.again
      BY ReportingIs DEF NumbersOK
    <2>2. recv' = recv /\ story' = t
      BY <1>6 DEF ReportBegins
    <2> HIDE DEF t
    <2>3. Orderly' <=> Orderly
      BY <2>1, <2>2 DEF Orderly
    <2>4. QED
      BY <2>1, <2>2, <2>3 DEF StepInv
  <1>7. QED
    BY <1>1, <1>2, <1>3, <1>4, <1>5, <1>6 DEF Next

LEMMA StepInvCorrect == Spec => [](NumbersOK /\ StepInv)
  <1>1. Init => StepInv
    BY DEF Init, NoSource, Unheard, StepInv
  <1>2. Spec => []NumbersOK
    BY ReceptionTypeCorrect, TypeIs, PTL
  <1>3. QED
    BY <1>1, <1>2, WireCorrect, StepInvStep, PTL DEF Spec

\* A 16-bit number and a count of rollovers follow the packets, with any losses, copies and
\* disorder, as long as none comes from before a rollover or a window ago, and no outage
\* passes the window.
THEOREM AlwaysInStep == Spec => []InStep
  <1>1. StepInv => InStep
    BY DEF StepInv, Orderly, InStep
  <1>2. QED
    BY <1>1, StepInvCorrect, PTL

\* No packet is decoded twice or after a later one, as long as the numbers are in step.
THEOREM NeverDecodedAgain == Spec => []NeverAgain
  <1>1. StepInv => NeverAgain
    BY DEF StepInv, NeverAgain
  <1>2. QED
    BY <1>1, StepInvCorrect, PTL

-----------------------------------------------------------------------------
(***************************************************************************)
(* Accounting.                                                             *)
(***************************************************************************)
\* As long as no report was torn, the numbers are as far apart as the packets they are
\* those of: the newest, the one reported last, and the one being reported
LagInv ==
    (recv.ssrc # 0 /\ story.orderly /\ ~story.torn) =>
        /\ story.newest - story.reported = recv.lo - recv.last
        /\ seen # None => story.newest - story.reporting = recv.lo - seen

\* One more packet of the source moves the newest number on as far as the newest packet,
\* or takes the last one back to where its round begins
LEMMA SameSourceLag ==
    ASSUME WireOK, NumbersOK, StepInv, LagInv, NEW i \in DOMAIN wire, ReadPacket(i),
           wire[i].ssrc = recv.ssrc
    PROVE  LagInv'
  <1> DEFINE p == wire[i]
             seq == Seqnum(p)
             decodes == ~(p.ssrc = recv.ssrc) \/ IsNext(seq)
  <1>1. /\ p \in Packets /\ seq \in Numbers
        /\ recv' = SameSource(seq) /\ recv' \in Receiver
        /\ story'.torn = IF recv'.hi = recv.hi THEN story.torn ELSE seen # None
        /\ LET told == Continued(p, decodes)
           IN  /\ story'.newest = told.newest /\ story'.orderly = told.orderly
               /\ story'.reported = told.reported /\ story'.reporting = told.reporting
    BY ReadPacketIs DEF WireOK, NumbersOK
  <1>2. /\ story'.orderly = (story.orderly /\ ~OutOfStep(p))
        /\ story'.newest = IF p.n > story.newest THEN p.n ELSE story.newest
        /\ story'.reported = IF p.n > story.newest /\ Round(p.n) # Round(story.newest)
                             THEN Round(p.n) * SeqMod ELSE story.reported
        /\ story'.reporting = story.reporting
    <2> HIDE DEF p
    <2>1. decodes \in BOOLEAN
      OBVIOUS
    <2> HIDE DEF decodes
    <2>2. QED
      BY <1>1, <2>1, ContinuedIs DEF NumbersOK
  <1>3. /\ p.n \in Nat /\ p.ssrc \in 1..MaxCalls /\ seq \in Nat /\ recv.lo \in Nat
        /\ recv.last \in Nat /\ recv.hi \in Nat /\ story.newest \in Nat
        /\ story.reported \in Nat /\ story.reporting \in Nat /\ seen \in Int
        /\ seen' = seen /\ p.ssrc = recv.ssrc
    BY <1>1, NumbersAre, PacketIs DEF NumbersOK, Receiver, Story, Numbers, None, ReadPacket
  <1>4. recv'.ssrc = recv.ssrc /\ recv.ssrc # 0
    BY <1>1, <1>3, SameSourceIs DEF NumbersOK
  <1> SUFFICES ASSUME story'.orderly, ~story'.torn
               PROVE  /\ story'.newest - story'.reported = recv'.lo - recv'.last
                      /\ seen # None => story'.newest - story'.reporting = recv'.lo - seen
    BY <1>3 DEF LagInv
  <1>5. story.orderly /\ ~OutOfStep(p)
    BY <1>2
  <1>6. recv.lo = story.newest % SeqMod
    BY <1>4, <1>5 DEF StepInv, Orderly
  <1>7. /\ p.n > story.newest /\ p.n \div SeqMod = story.newest \div SeqMod => seq > recv.lo
        /\ p.n > story.newest /\ p.n \div SeqMod # story.newest \div SeqMod
              => seq < recv.lo /\ RolledOver(seq)
        /\ p.n <= story.newest => seq <= recv.lo /\ ~RolledOver(seq)
    BY <1>1, <1>5, <1>6, NumberTells DEF NumbersOK
  <1>8. /\ seq > recv.lo => /\ recv'.lo = seq /\ recv'.hi = recv.hi
                            /\ recv'.last = recv.last
        /\ ~(seq > recv.lo) /\ RolledOver(seq)
              => recv'.lo = seq /\ recv'.hi = recv.hi + 1 /\ recv'.last = 0
        /\ ~(seq > recv.lo) /\ ~RolledOver(seq)
              => recv'.lo = recv.lo /\ recv'.hi = recv.hi /\ recv'.last = recv.last
    BY <1>1, SameSourceIs DEF NumbersOK
  <1>9. seq = p.n % SeqMod
    BY DEF Seqnum
  <1>10. recv'.hi = recv.hi
           => /\ story.newest - story.reported = recv.lo - recv.last
              /\ seen # None => story.newest - story.reporting = recv.lo - seen
    BY <1>1, <1>4, <1>5 DEF LagInv
  <1>11. CASE p.n > story.newest /\ p.n \div SeqMod = story.newest \div SeqMod
    <2>1. seq - recv.lo = p.n - story.newest
      BY <1>3, <1>6, <1>9, <1>11, SameRound
    <2>2. Round(p.n) = Round(story.newest)
      BY <1>11 DEF Round
    <2> HIDE DEF p, seq, decodes
    <2>3. /\ story'.newest = p.n /\ story'.reported = story.reported
          /\ recv'.lo = seq /\ recv'.hi = recv.hi /\ recv'.last = recv.last
      BY <1>2, <1>7, <1>8, <1>11, <2>2
    <2>4. QED
      BY <1>2, <1>3, <1>10, <2>1, <2>3
  <1>12. CASE p.n > story.newest /\ p.n \div SeqMod # story.newest \div SeqMod
    <2>1. p.n = SeqMod * Round(p.n) + seq /\ Round(p.n) \in Nat
      BY <1>3, <1>9, RoundsAre DEF Round
    <2>2. Round(p.n) * SeqMod \in Nat /\ Round(p.n) * SeqMod = SeqMod * Round(p.n)
      BY <2>1, NumbersAre
    <2>3. Round(p.n) # Round(story.newest)
      BY <1>12 DEF Round
    <2> HIDE DEF p, seq, decodes
    <2>4. /\ story'.newest = p.n /\ story'.reported = Round(p.n) * SeqMod
          /\ recv'.lo = seq /\ recv'.hi = recv.hi + 1 /\ recv'.last = 0
      BY <1>2, <1>3, <1>7, <1>8, <1>12, <2>3
    <2>a. recv'.hi # recv.hi
      BY <1>3, <2>4
    <2>b. story'.torn = (seen # None)
      BY <1>1, <2>a
    <2>5. seen = None
      BY <2>b
    <2> DEFINE k == Round(p.n) * SeqMod
    <2>6. k \in Nat /\ p.n = k + seq
      BY <2>1, <2>2
    <2> HIDE DEF k
    <2>7. p.n - k = seq - 0
      BY <1>3, <2>6
    <2>8. QED
      BY <2>4, <2>5, <2>7 DEF k
  <1>13. CASE ~(p.n > story.newest)
    <2> HIDE DEF p, seq, decodes
    <2>1. /\ story'.newest = story.newest /\ story'.reported = story.reported
          /\ recv'.lo = recv.lo /\ recv'.hi = recv.hi /\ recv'.last = recv.last
      BY <1>2, <1>3, <1>7, <1>8, <1>13
    <2>2. QED
      BY <1>2, <1>10, <2>1
  <1>14. QED
    BY <1>11, <1>12, <1>13

LEMMA LagStep == WireOK /\ NumbersOK /\ StepInv /\ LagInv /\ [Next]_vars => LagInv'
  <1> SUFFICES ASSUME WireOK, NumbersOK, StepInv, LagInv, [Next]_vars PROVE LagInv'
    OBVIOUS
  <1>1. ASSUME NEW i \in DOMAIN wire, ReadPacket(i) PROVE LagInv'
    <2>1. CASE wire[i].ssrc = recv.ssrc
      BY <1>1, <2>1, SameSourceLag
    <2>2. CASE wire[i].ssrc # recv.ssrc
      <3> DEFINE p == wire[i]
      <3>1. /\ p \in Packets /\ recv' = OtherSource(p) /\ story'.torn = (seen # None)
            /\ story'.newest = Begun(p).newest /\ story'.reported = Begun(p).reported
        BY <1>1, <2>2, ReadPacketIs DEF WireOK, NumbersOK
      <3>2. story'.newest = p.n /\ story'.reported = p.n /\ p.n \in Nat
        BY <3>1, BegunIs, PacketIs DEF NumbersOK
      <3>3. recv'.lo = Seqnum(p) /\ recv'.last = Seqnum(p) /\ Seqnum(p) \in Int
        BY <3>1, SeqnumIs, NumbersAre DEF OtherSource, Numbers
      <3>4. seen' = seen
        BY <1>1 DEF ReadPacket
      <3> HIDE DEF p
      <3>5. story'.newest - story'.reported = recv'.lo - recv'.last
        BY <3>2, <3>3
      <3>6. QED
        BY <3>1, <3>4, <3>5 DEF LagInv
    <2>3. QED
      BY <2>1, <2>2
  <1>2. CASE NewCall
    BY <1>2 DEF NewCall, NoSource, LagInv
  <1>3. CASE ReportBegins
    <2> DEFINE t == [story EXCEPT !.reporting = story.newest]
    <2>1. /\ t.newest = story.newest /\ t.orderly = story.orderly /\ t.torn = story.torn
          /\ t.reported = story.reported /\ t.reporting = story.newest
      BY ReportingIs DEF NumbersOK
    <2>2. recv' = recv /\ story' = t /\ seen' = recv.lo
      BY <1>3 DEF ReportBegins
    <2> HIDE DEF t
    <2>3. story.newest \in Int /\ recv.lo \in Int
      BY NumbersAre DEF NumbersOK, Story, Receiver, Numbers
    <2>4. QED
      BY <2>1, <2>2, <2>3 DEF LagInv
  <1>4. CASE ReportEnds
    <2> DEFINE t == [story EXCEPT !.reported = story.reporting, !.reporting = 0]
    <2>1. /\ t.newest = story.newest /\ t.orderly = story.orderly /\ t.torn = story.torn
          /\ t.reported = story.reporting
      BY ReportedIs DEF NumbersOK
    <2>2. recv' = [recv EXCEPT !.last = seen] /\ story' = t /\ seen # None /\ seen' = None
      BY <1>4 DEF ReportEnds
    <2>3. recv'.ssrc = recv.ssrc /\ recv'.lo = recv.lo /\ recv'.last = seen
      BY <2>2 DEF NumbersOK, Receiver
    <2> HIDE DEF t
    <2>4. QED
      BY <2>1, <2>2, <2>3 DEF LagInv
  <1>5. ASSUME NEW some \in 0..ratio, Transmit(some) PROVE LagInv'
    BY <1>5 DEF Transmit, LagInv
  <1>6. CASE Callback \/ Play \/ UNCHANGED vars
    BY <1>6 DEF Callback, Play, vars, LagInv
  <1>7. QED
    BY <1>1, <1>2, <1>3, <1>4, <1>5, <1>6 DEF Next

LEMMA LagCorrect == Spec => []LagInv
  <1>1. Init => LagInv
    BY DEF Init, NoSource, LagInv
  <1>2. QED
    BY <1>1, WireCorrect, StepInvCorrect, LagStep, PTL DEF Spec

\* What the code counts as lost is the packets behind a gap and the late ones; and the
\* number of packets received that it computes from its last number is that of the decoded
\* ones and of the missing ones but for the late ones and for those it lags behind.
THEOREM AlwaysAccounted == Spec => []Accounting
  <1>1. NumbersOK /\ StepInv /\ LagInv => Accounting
    <2> SUFFICES ASSUME NumbersOK, StepInv, LagInv, recv.ssrc # 0, story.orderly
                 PROVE  /\ recv.lost = story.skipped + story.late
                        /\ story.sole /\ ~story.torn =>
                             PacketsReceived =
                                 (story.decoded - 1 + story.missed - story.late)
                                     - (story.newest - story.reported)
      BY DEF Accounting
    <2>1. Orderly /\ recv.start = story.first % SeqMod
      BY DEF StepInv
    <2> DEFINE q == story.newest \div SeqMod
               f == story.first \div SeqMod
    <2>2. /\ story.first \in Nat /\ story.newest \in Nat /\ story.decoded \in Nat
          /\ story.skipped \in Nat /\ story.late \in Nat /\ story.missed \in Nat
          /\ story.reported \in Nat
      BY DEF NumbersOK, Story
    <2>3. /\ q \in Nat /\ f \in Nat /\ recv.lo \in Nat /\ recv.start \in Nat
          /\ story.newest = SeqMod * q + recv.lo /\ story.first = SeqMod * f + recv.start
      BY <2>1, <2>2, RoundsAre, NumbersAre DEF Orderly
    <2>4. story.sole => recv.hi = q - f
      BY <2>1 DEF Orderly
    <2> HIDE DEF q, f
    <2>5. (q - f) * SeqMod = SeqMod * q - SeqMod * f /\ SeqMod * q \in Int /\ SeqMod * f \in Int
      BY <2>3, NumbersAre
    <2>6. (q - f) * SeqMod + recv.lo - recv.start = story.newest - story.first
      BY <2>2, <2>3, <2>5
    <2>7. /\ recv.lost = story.skipped + story.late
          /\ story.newest - story.first = story.skipped + story.decoded - 1 + story.missed
      BY <2>1 DEF Orderly
    <2>8. ASSUME story.sole, ~story.torn
          PROVE  PacketsReceived = (story.decoded - 1 + story.missed - story.late)
                                       - (story.newest - story.reported)
      <3> DEFINE k == recv.hi * SeqMod
      <3>a. recv.hi \in Nat /\ recv.last \in Int /\ recv.lost \in Int
        BY NumbersAre DEF NumbersOK, Receiver, Numbers
      <3>1. k \in Int /\ recv.last \in Int /\ recv.lost \in Int
        BY <3>a, NumbersAre
      <3>2. k + recv.lo - recv.start = story.newest - story.first
        BY <2>4, <2>6, <2>8
      <3>3. story.newest - story.reported = recv.lo - recv.last
        BY <2>8 DEF LagInv
      <3>4. PacketsReceived = (k + recv.last) - (recv.start + recv.lost)
        BY DEF PacketsReceived
      <3> HIDE DEF k
      <3>5. PacketsReceived = (k + recv.lo - recv.start) - recv.lost
                                  - (recv.lo - recv.last)
        BY <2>3, <3>1, <3>4
      <3>6. (k + recv.lo - recv.start) - recv.lost
              = story.decoded - 1 + story.missed - story.late
        BY <2>2, <2>7, <3>2
      <3>7. QED
        BY <3>3, <3>5, <3>6
    <2>9. QED
      BY <2>7, <2>8
  <1>2. QED
    BY <1>1, LagCorrect, StepInvCorrect, PTL

-----------------------------------------------------------------------------
(***************************************************************************)
(* Whole frames.                                                           *)
(***************************************************************************)
SampleFrames == [ssrc : 1..MaxCalls, n : Nat, at : Nat, of : Nat]

\* The bytes of b are those of the sample frames s, one after the other
FramesOf(b, s) ==
    /\ Len(b) = Len(s) * FrameBytes
    /\ \A i \in 1..Len(s) * FrameBytes :
           b[i] = <<s[1 + ((i - 1) \div FrameBytes)], 1 + ((i - 1) % FrameBytes)>>

LEMMA FrameDivides ==
    ASSUME NEW j \in Nat
    PROVE  /\ j \div FrameBytes \in Nat /\ j % FrameBytes \in 0..FrameBytes-1
           /\ j = FrameBytes * (j \div FrameBytes) + (j % FrameBytes)
  BY BlockFits, SMTT(30)

\* n frames further on it is the same byte of the n-th next frame
LEMMA FrameShift ==
    ASSUME NEW n \in Nat, NEW j \in Nat
    PROVE  /\ n * FrameBytes \in Nat
           /\ (n * FrameBytes + j) \div FrameBytes = n + (j \div FrameBytes)
           /\ (n * FrameBytes + j) % FrameBytes = j % FrameBytes
  <1> DEFINE i == n * FrameBytes + j
             q == j \div FrameBytes
             r == j % FrameBytes
             a == i \div FrameBytes
             s == i % FrameBytes
  <1>1. FrameBytes \in Nat /\ FrameBytes >= 1 /\ n * FrameBytes \in Nat
    BY BlockFits
  <1>2. i \in Nat
    BY <1>1
  <1>3. q \in Nat /\ r \in 0..FrameBytes-1 /\ j = FrameBytes * q + r
    BY FrameDivides
  <1>4. a \in Nat /\ s \in 0..FrameBytes-1 /\ i = FrameBytes * a + s
    <2> HIDE DEF i
    <2>1. QED
      BY <1>2, FrameDivides
  <1>5. i = FrameBytes * (n + q) + r
    <2> HIDE DEF q, r
    <2>1. FrameBytes * (n + q) = n * FrameBytes + FrameBytes * q
      BY <1>1, <1>3
    <2>2. QED
      BY <1>1, <1>3, <2>1
  <1> HIDE DEF i, q, r, a, s
  <1>6. a = n + q
    <2>1. FrameBytes * a - FrameBytes * (n + q) = FrameBytes * (a - (n + q))
      BY <1>1, <1>3, <1>4
    <2>2. FrameBytes * (a - (n + q)) = r - s
      BY <1>1, <1>3, <1>4, <1>5, <2>1
    <2>3. CASE a - (n + q) >= 1
      <3>1. FrameBytes * (a - (n + q)) >= FrameBytes
        BY <1>1, <1>3, <1>4, <2>3
      <3>2. QED
        BY <1>1, <1>3, <1>4, <2>2, <3>1
    <2>4. CASE a - (n + q) <= -1
      <3>1. FrameBytes * (a - (n + q)) <= -FrameBytes
        BY <1>1, <1>3, <1>4, <2>4
      <3>2. QED
        BY <1>1, <1>3, <1>4, <2>2, <3>1
    <2>5. QED
      BY <1>3, <1>4, <2>3, <2>4
  <1>7. s = r
    BY <1>1, <1>3, <1>4, <1>5, <1>6
  <1>8. QED
    BY <1>1, <1>6, <1>7 DEF i, q, r, a, s

\* The bytes of the first n frames are of no later one
LEMMA FrameWithin ==
    ASSUME NEW n \in Nat, NEW i \in 1..n * FrameBytes
    PROVE  1 + ((i - 1) \div FrameBytes) \in 1..n
  <1> DEFINE q == (i - 1) \div FrameBytes
  <1>1. FrameBytes \in Nat /\ FrameBytes >= 1 /\ n * FrameBytes \in Nat /\ i - 1 \in Nat
    BY BlockFits
  <1>2. q \in Nat /\ FrameBytes * q <= i - 1
    <2> DEFINE r == (i - 1) % FrameBytes
    <2>1. q \in Nat /\ r \in 0..FrameBytes-1 /\ i - 1 = FrameBytes * q + r
      BY <1>1, FrameDivides
    <2> HIDE DEF q, r
    <2>2. FrameBytes * q \in Nat
      BY <1>1, <2>1
    <2>3. QED
      BY <1>1, <2>1, <2>2
  <1> HIDE DEF q
  <1>3. q < n
    <2> SUFFICES ASSUME q >= n PROVE FALSE
      BY <1>2
    <2>1. FrameBytes * q = n * FrameBytes + FrameBytes * (q - n) /\ FrameBytes * (q - n) \in Nat
      BY <1>1, <1>2
    <2>2. QED
      BY <1>1, <1>2, <2>1
  <1>4. QED
    BY <1>2, <1>3 DEF q

\* The sample frames of a packet
OutOf(p, m) == [k \in 1..m |-> [ssrc |-> p.ssrc, n |-> p.n, at |-> k, of |-> m]]

Ends(s) == Len(s) >= 1 => s[Len(s)].at = s[Len(s)].of

LEMMA ResampleIs ==
    ASSUME NEW p \in Packets, NEW m \in Resampled
    PROVE  /\ Resample(p, m) \in Seq(Data) /\ Resample(p, m) \in Blocks
           /\ m \in Nat /\ Len(Resample(p, m)) = m * FrameBytes
           /\ OutOf(p, m) \in Seq(SampleFrames) /\ Len(OutOf(p, m)) = m
           /\ FramesOf(Resample(p, m), OutOf(p, m))
           /\ InOrder(OutOf(p, m)) /\ Ends(OutOf(p, m))
           /\ m >= 1 => OutOf(p, m)[1].at = 1
  <1> DEFINE o == OutOf(p, m)
  <1>1. m \in Nat /\ FrameBytes \in Nat /\ m * FrameBytes \in Nat
    BY ReceptionAssumption, BlockFits
  <1>2. Resample(p, m) \in Blocks /\ Resample(p, m) \in Seq(Data)
    BY FrameAssumption, RingAssumption
  <1>3. p.ssrc \in 1..MaxCalls /\ p.n \in Nat
    BY PacketIs
  <1>4. \A k \in 1..m : o[k] = [ssrc |-> p.ssrc, n |-> p.n, at |-> k, of |-> m]
                        /\ o[k] \in SampleFrames
    BY <1>1, <1>3 DEF OutOf, SampleFrames
  <1>5. o \in Seq(SampleFrames) /\ Len(o) = m
    BY <1>1, <1>4 DEF OutOf
  <1>6. InOrder(o)
    <2> SUFFICES ASSUME NEW k \in 1..m-1 PROVE Follows(o[k], o[k + 1])
      BY <1>5 DEF InOrder
    <2>1. k \in 1..m /\ k + 1 \in 1..m /\ k # m
      BY <1>1
    <2>2. /\ o[k] = [ssrc |-> p.ssrc, n |-> p.n, at |-> k, of |-> m]
          /\ o[k + 1] = [ssrc |-> p.ssrc, n |-> p.n, at |-> k + 1, of |-> m]
      BY <1>4, <2>1
    <2> HIDE DEF o
    <2>3. QED
      BY <2>1, <2>2 DEF Follows
  <1>7. Ends(o) /\ (m >= 1 => o[1].at = 1)
    <2>1. m >= 1 => m \in 1..m /\ 1 \in 1..m
      BY <1>1
    <2> HIDE DEF o
    <2>2. QED
      BY <1>4, <1>5, <2>1 DEF Ends
  <1>8. /\ Len(Resample(p, m)) = m * FrameBytes
        /\ \A i \in 1..m * FrameBytes :
               Resample(p, m)[i] = <<o[1 + ((i - 1) \div FrameBytes)], 1 + ((i - 1) % FrameBytes)>>
    <2>1. Resample(p, m) = Bytes(o)
      BY DEF Resample, OutOf
    <2> HIDE DEF o
    <2>2. Resample(p, m) = [i \in 1..m * FrameBytes |->
              <<o[1 + ((i - 1) \div FrameBytes)], 1 + ((i - 1) % FrameBytes)>>]
      BY <1>5, <2>1 DEF Bytes
    <2>3. DOMAIN Resample(p, m) = 1..m * FrameBytes
      BY <2>2
    <2>4. Len(Resample(p, m)) = m * FrameBytes
      BY <1>1, <1>2, <2>3
    <2>5. QED
      BY <2>2, <2>4
  <1>9. QED
    BY <1>1, <1>2, <1>5, <1>6, <1>7, <1>8 DEF FramesOf

LEMMA AppendFrames ==
    ASSUME NEW b \in Seq(Data), NEW s \in Seq(SampleFrames), FramesOf(b, s),
           InOrder(s), Ends(s),
           NEW c \in Seq(Data), NEW t \in Seq(SampleFrames), FramesOf(c, t),
           InOrder(t), Ends(t), Len(t) >= 1 => t[1].at = 1
    PROVE  /\ s \o t \in Seq(SampleFrames)
           /\ FramesOf(b \o c, s \o t) /\ InOrder(s \o t) /\ Ends(s \o t)
  <1> DEFINE n == Len(s)
             m == Len(t)
             u == s \o t
  <1>1. /\ n \in Nat /\ m \in Nat /\ FrameBytes \in Nat /\ FrameBytes >= 1
        /\ n * FrameBytes \in Nat /\ m * FrameBytes \in Nat
        /\ Len(b) = n * FrameBytes /\ Len(c) = m * FrameBytes
    BY BlockFits DEF FramesOf
  <1>2. /\ u \in Seq(SampleFrames) /\ Len(u) = n + m
        /\ \A k \in 1..n+m : u[k] = IF k <= n THEN s[k] ELSE t[k - n]
    BY ConcatProperties
  <1>3. /\ Len(b \o c) = (n + m) * FrameBytes
        /\ \A i \in 1..(n + m) * FrameBytes :
               (b \o c)[i] = IF i <= n * FrameBytes THEN b[i] ELSE c[i - n * FrameBytes]
    <2> HIDE DEF n, m
    <2>1. (n + m) * FrameBytes = n * FrameBytes + m * FrameBytes
      BY <1>1
    <2>2. Len(b \o c) = Len(b) + Len(c)
          /\ \A i \in 1..Len(b)+Len(c) :
                 (b \o c)[i] = IF i <= Len(b) THEN b[i] ELSE c[i - Len(b)]
      BY ConcatProperties
    <2>3. (n + m) * FrameBytes = Len(b) + Len(c)
      BY <1>1, <2>1
    <2>4. n * FrameBytes = Len(b)
      BY <1>1
    <2>5. QED
      BY <2>2, <2>3, <2>4
  <1>4. /\ \A i \in 1..n * FrameBytes :
               b[i] = <<s[1 + ((i - 1) \div FrameBytes)], 1 + ((i - 1) % FrameBytes)>>
        /\ \A i \in 1..m * FrameBytes :
               c[i] = <<t[1 + ((i - 1) \div FrameBytes)], 1 + ((i - 1) % FrameBytes)>>
    BY DEF FramesOf
  <1>5. /\ \A k \in 1..n-1 : Follows(s[k], s[k + 1])
        /\ \A k \in 1..m-1 : Follows(t[k], t[k + 1])
        /\ n >= 1 => s[n].at = s[n].of
        /\ m >= 1 => t[m].at = t[m].of /\ t[1].at = 1
    BY DEF InOrder, Ends
  <1> HIDE DEF n, m, u
  <1>6. ASSUME NEW i \in 1..(n + m) * FrameBytes
        PROVE  (b \o c)[i]
                   = <<u[1 + ((i - 1) \div FrameBytes)], 1 + ((i - 1) % FrameBytes)>>
    <2>1. CASE i <= n * FrameBytes
      <3>1. i \in 1..n * FrameBytes
        BY <1>1, <2>1
      <3>2. 1 + ((i - 1) \div FrameBytes) \in 1..n
        BY <1>1, <3>1, FrameWithin
      <3> DEFINE k == 1 + ((i - 1) \div FrameBytes)
                 r == 1 + ((i - 1) % FrameBytes)
      <3>3. b[i] = <<s[k], r>>
        BY <1>4, <3>1
      <3>4. (b \o c)[i] = b[i]
        BY <1>3, <2>1
      <3>5. k \in 1..n
        BY <3>2
      <3> HIDE DEF k, r
      <3>6. u[k] = s[k]
        BY <1>1, <1>2, <3>5
      <3>7. (b \o c)[i] = <<u[k], r>>
        BY <3>3, <3>4, <3>6
      <3>8. QED
        BY <3>7 DEF k, r
    <2>2. CASE ~(i <= n * FrameBytes)
      <3> DEFINE j == i - n * FrameBytes
                 k == 1 + ((j - 1) \div FrameBytes)
                 r == 1 + ((j - 1) % FrameBytes)
      <3>1. (n + m) * FrameBytes = n * FrameBytes + m * FrameBytes
        BY <1>1
      <3>2. j \in 1..m * FrameBytes /\ j - 1 \in Nat /\ i - 1 = n * FrameBytes + (j - 1)
        BY <1>1, <2>2, <3>1
      <3> HIDE DEF j
      <3>3. /\ (i - 1) \div FrameBytes = n + ((j - 1) \div FrameBytes)
            /\ (i - 1) % FrameBytes = (j - 1) % FrameBytes
        <4> DEFINE l == j - 1
        <4>1. l \in Nat /\ n \in Nat /\ i - 1 = n * FrameBytes + l
          BY <1>1, <3>2
        <4> HIDE DEF l
        <4>2. /\ (n * FrameBytes + l) \div FrameBytes = n + (l \div FrameBytes)
              /\ (n * FrameBytes + l) % FrameBytes = l % FrameBytes
          BY <4>1, FrameShift
        <4>3. /\ (i - 1) \div FrameBytes = n + (l \div FrameBytes)
              /\ (i - 1) % FrameBytes = l % FrameBytes
          BY <4>1, <4>2
        <4>4. QED
          BY <4>3 DEF l
      <3>4. k \in 1..m
        BY <1>1, <3>2, FrameWithin
      <3>5. c[j] = <<t[k], r>>
        BY <1>4, <3>2
      <3>6. (b \o c)[i] = c[j]
        BY <1>3, <2>2 DEF j
      <3>7. 1 + ((i - 1) \div FrameBytes) = n + k /\ 1 + ((i - 1) % FrameBytes) = r
        <4> DEFINE q == (j - 1) \div FrameBytes
        <4>1. q \in Nat
          BY <3>2, FrameDivides
        <4>2. (i - 1) \div FrameBytes = n + q /\ k = 1 + q
          BY <3>3
        <4> DEFINE a == (i - 1) \div FrameBytes
        <4>a. a = n + q /\ k = 1 + q /\ n \in Nat
          BY <1>1, <4>2
        <4> HIDE DEF q, a, k
        <4>b. 1 + a = n + k
          BY <4>1, <4>a
        <4>3. 1 + ((i - 1) \div FrameBytes) = n + k
          BY <4>b DEF a
        <4>4. QED
          BY <3>3, <4>3
      <3> HIDE DEF k, r
      <3>8. u[n + k] = t[k]
        BY <1>1, <1>2, <3>4
      <3>9. QED
        BY <3>5, <3>6, <3>7, <3>8
    <2>3. QED
      BY <2>1, <2>2
  <1>7. FramesOf(b \o c, u)
    BY <1>2, <1>3, <1>6 DEF FramesOf
  <1>8. InOrder(u)
    <2>a. n \in Nat /\ m \in Nat
      BY <1>1
    <2>b. Len(u) = n + m /\ \A k \in 1..n+m : u[k] = IF k <= n THEN s[k] ELSE t[k - n]
      BY <1>2
    <2> SUFFICES ASSUME NEW k \in 1..(n + m)-1 PROVE Follows(u[k], u[k + 1])
      BY <2>b DEF InOrder
    <2>1. CASE k < n
      <3>1. u[k] = s[k] /\ u[k + 1] = s[k + 1] /\ k \in 1..n-1
        BY <2>a, <2>b, <2>1
      <3>2. QED
        BY <1>5, <3>1
    <2>2. CASE k = n
      <3>1. u[k] = s[n] /\ u[k + 1] = t[1] /\ n >= 1 /\ m >= 1
        BY <2>a, <2>b, <2>2
      <3>2. QED
        BY <1>5, <3>1 DEF Follows
    <2>3. CASE k > n
      <3>1. u[k] = t[k - n] /\ u[k + 1] = t[(k - n) + 1] /\ k - n \in 1..m-1
        <4>1. k \in 1..n+m /\ k + 1 \in 1..n+m /\ ~(k <= n) /\ ~(k + 1 <= n)
              /\ (k + 1) - n = (k - n) + 1 /\ k - n \in 1..m-1
          BY <2>a, <2>3
        <4>2. QED
          BY <2>b, <4>1
      <3>2. QED
        BY <1>5, <3>1
    <2>4. QED
      BY <2>a, <2>1, <2>2, <2>3
  <1>9. Ends(u)
    <2>1. CASE m >= 1
      <3>1. u[n + m] = t[m]
        BY <1>1, <1>2, <2>1
      <3>2. QED
        BY <1>2, <1>5, <2>1, <3>1 DEF Ends
    <2>2. CASE m = 0
      <3>1. n >= 1 => u[n + m] = s[n]
        BY <1>1, <1>2, <2>2
      <3>2. QED
        BY <1>1, <1>2, <1>5, <2>2, <3>1 DEF Ends
    <2>3. QED
      BY <1>1, <2>1, <2>2
  <1>10. QED
    BY <1>2, <1>7, <1>8, <1>9 DEF u

\* The first d frames are played, the others stay
LEMMA TakeFrames ==
    ASSUME NEW b \in Seq(Data), NEW s \in Seq(SampleFrames), FramesOf(b, s),
           InOrder(s), Ends(s),
           NEW d \in Nat, d >= 1, d * FrameBytes <= Len(b)
    PROVE  LET t == SubSeq(s, 1, d)
               u == SubSeq(s, d + 1, Len(s))
           IN  /\ t \in Seq(SampleFrames) /\ Len(t) = d /\ InOrder(t)
               /\ FramesOf(SubSeq(b, 1, d * FrameBytes), t)
               /\ u \in Seq(SampleFrames) /\ InOrder(u) /\ Ends(u)
               /\ FramesOf(SubSeq(b, d * FrameBytes + 1, Len(b)), u)
  <1> DEFINE n == Len(s)
             m == n - d
             t == SubSeq(s, 1, d)
             u == SubSeq(s, d + 1, n)
             front == SubSeq(b, 1, d * FrameBytes)
             rest == SubSeq(b, d * FrameBytes + 1, Len(b))
  <1>1. /\ n \in Nat /\ FrameBytes \in Nat /\ FrameBytes >= 1
        /\ n * FrameBytes \in Nat /\ d * FrameBytes \in Nat /\ Len(b) = n * FrameBytes
    BY BlockFits DEF FramesOf
  <1>2. d <= n
    <2> SUFFICES ASSUME d > n PROVE FALSE
      BY <1>1
    <2> HIDE DEF n
    <2>1. d * FrameBytes = n * FrameBytes + (d - n) * FrameBytes
      BY <1>1
    <2>2. (d - n) * FrameBytes >= FrameBytes
      BY <1>1
    <2>3. QED
      BY <1>1, <2>1, <2>2
  <1>3. /\ m \in Nat /\ m * FrameBytes \in Nat
        /\ n * FrameBytes = d * FrameBytes + m * FrameBytes
    <2>1. m \in Nat /\ n = d + m
      BY <1>1, <1>2
    <2> HIDE DEF n, m
    <2>2. QED
      BY <1>1, <2>1
  <1>4. /\ t \in Seq(SampleFrames) /\ Len(t) = d /\ \A k \in 1..d : t[k] = s[k]
    <2>1. \A k \in 1..d : s[k] \in SampleFrames
      BY <1>1, <1>2
    <2>2. QED
      BY <2>1, SubSeqProperties
  <1>5. /\ u \in Seq(SampleFrames) /\ Len(u) = m /\ \A k \in 1..m : u[k] = s[d + k]
    <2>1. \A k \in d+1..n : s[k] \in SampleFrames
      BY <1>1, <1>2
    <2>2. /\ u \in Seq(SampleFrames) /\ Len(u) = (IF d + 1 <= n THEN n - (d + 1) + 1 ELSE 0)
          /\ \A k \in 1..n-(d + 1)+1 : u[k] = s[(d + 1) + k - 1]
      BY <1>1, <2>1, SubSeqProperties
    <2> HIDE DEF u
    <2>3. Len(u) = m /\ n - (d + 1) + 1 = m
      BY <1>1, <1>2, <2>2
    <2>4. \A k \in 1..m : u[k] = s[d + k]
      <3>1. \A k \in 1..m : (d + 1) + k - 1 = d + k
        BY <1>1, <1>3
      <3>2. QED
        BY <2>2, <2>3, <3>1
    <2>5. QED
      BY <2>2, <2>3, <2>4
  <1>6. /\ Len(front) = d * FrameBytes /\ \A i \in 1..d * FrameBytes : front[i] = b[i]
    <2>1. d * FrameBytes >= 1
      <3>1. d * FrameBytes = FrameBytes + (d - 1) * FrameBytes /\ (d - 1) * FrameBytes \in Nat
        BY <1>1
      <3>2. QED
        BY <1>1, <3>1
    <2> DEFINE e == d * FrameBytes
    <2>2. e \in Nat /\ e >= 1 /\ e <= Len(b)
      BY <1>1, <2>1
    <2> HIDE DEF e
    <2>3. e \in Nat /\ e >= 1 /\ \A i \in 1..e : b[i] \in Data
      BY <2>2
    <2>4. Len(SubSeq(b, 1, e)) = e /\ \A i \in 1..e : SubSeq(b, 1, e)[i] = b[i]
      BY <2>3, SubSeqProperties
    <2>5. QED
      BY <2>4 DEF e
  <1>7. /\ Len(rest) = m * FrameBytes
        /\ \A i \in 1..m * FrameBytes : rest[i] = b[d * FrameBytes + i]
    <2> DEFINE e == d * FrameBytes
               g == m * FrameBytes
    <2>1. e \in Nat /\ g \in Nat /\ Len(b) = e + g
      BY <1>1, <1>3
    <2>2. rest = SubSeq(b, e + 1, Len(b))
      OBVIOUS
    <2> HIDE DEF e, g, rest, n, m
    <2>3. \A i \in e+1..Len(b) : b[i] \in Data
      BY <2>1
    <2>4. /\ Len(rest) = (IF e + 1 <= Len(b) THEN Len(b) - (e + 1) + 1 ELSE 0)
          /\ \A i \in 1..Len(b)-(e + 1)+1 : rest[i] = b[(e + 1) + i - 1]
      BY <2>1, <2>2, <2>3, SubSeqProperties
    <2>5. Len(rest) = g /\ Len(b) - (e + 1) + 1 = g
      BY <2>1, <2>4
    <2>6. \A i \in 1..g : (e + 1) + i - 1 = e + i
      BY <2>1
    <2>7. Len(rest) = g /\ \A i \in 1..g : rest[i] = b[e + i]
      BY <2>4, <2>5, <2>6
    <2>8. QED
      BY <2>7 DEF e, g
  <1>8. /\ \A i \in 1..n * FrameBytes :
               b[i] = <<s[1 + ((i - 1) \div FrameBytes)], 1 + ((i - 1) % FrameBytes)>>
        /\ \A k \in 1..n-1 : Follows(s[k], s[k + 1])
        /\ n >= 1 => s[n].at = s[n].of
    BY DEF FramesOf, InOrder, Ends
  <1>9. n = d + m
    BY <1>1, <1>2
  <1>a. t = SubSeq(s, 1, d) /\ u = SubSeq(s, d + 1, Len(s))
    OBVIOUS
  <1> HIDE DEF n, m, t, u, front, rest
  <1>10. InOrder(t) /\ InOrder(u) /\ Ends(u)
    <2>1. \A k \in 1..d-1 : Follows(t[k], t[k + 1])
      <3>1. n \in Nat /\ m \in Nat /\ n = d + m
        BY <1>1, <1>3, <1>9
      <3>2. \A k \in 1..d-1 : k \in 1..n-1 /\ k \in 1..d /\ k + 1 \in 1..d
        BY <3>1
      <3>3. QED
        BY <1>4, <1>8, <3>2
    <2>2. \A k \in 1..m-1 : Follows(u[k], u[k + 1])
      <3> SUFFICES ASSUME NEW k \in 1..m-1 PROVE Follows(u[k], u[k + 1])
        OBVIOUS
      <3>1. u[k] = s[d + k] /\ u[k + 1] = s[(d + k) + 1] /\ d + k \in 1..n-1
        BY <1>3, <1>5, <1>9
      <3>2. QED
        BY <1>8, <3>1
    <2>3. m >= 1 => u[m] = s[n]
      BY <1>3, <1>5, <1>9
    <2>4. QED
      BY <1>3, <1>4, <1>5, <1>8, <1>9, <2>1, <2>2, <2>3 DEF InOrder, Ends
  <1>11. FramesOf(front, t)
    <2> SUFFICES ASSUME NEW i \in 1..d * FrameBytes
                 PROVE  front[i] = <<t[1 + ((i - 1) \div FrameBytes)], 1 + ((i - 1) % FrameBytes)>>
      BY <1>4, <1>6 DEF FramesOf
    <2> DEFINE k == 1 + ((i - 1) \div FrameBytes)
               r == 1 + ((i - 1) % FrameBytes)
    <2>1. k \in 1..d
      BY FrameWithin
    <2>a. i \in 1..n * FrameBytes
      BY <1>1, <1>3
    <2>2. b[i] = <<s[k], r>>
      BY <1>8, <2>a
    <2> HIDE DEF k, r
    <2>3. front[i] = <<t[k], r>>
      BY <1>4, <1>6, <2>1, <2>2
    <2>4. QED
      BY <2>3 DEF k, r
  <1>12. FramesOf(rest, u)
    <2> SUFFICES ASSUME NEW j \in 1..m * FrameBytes
                 PROVE  rest[j] = <<u[1 + ((j - 1) \div FrameBytes)], 1 + ((j - 1) % FrameBytes)>>
      BY <1>5, <1>7 DEF FramesOf
    <2> DEFINE q == (j - 1) \div FrameBytes
               r == 1 + ((j - 1) % FrameBytes)
               i == d * FrameBytes + j
    <2>1. 1 + q \in 1..m
      BY <1>3, FrameWithin
    <2>2. j - 1 \in Nat /\ i \in 1..n * FrameBytes /\ i - 1 = d * FrameBytes + (j - 1)
      BY <1>1, <1>3
    <2>3. b[i] = <<s[1 + ((i - 1) \div FrameBytes)], 1 + ((i - 1) % FrameBytes)>>
      <3> HIDE DEF i
      <3>1. QED
        BY <1>8, <2>2
    <2>4. (i - 1) \div FrameBytes = d + q /\ 1 + ((i - 1) % FrameBytes) = r
      <3> HIDE DEF i
      <3>1. QED
        BY <2>2, FrameShift
    <2>5. rest[j] = b[i]
      BY <1>7
    <2>6. q \in Int
      BY <2>2, FrameDivides
    <2> HIDE DEF q, r, i
    <2>7. b[i] = <<s[1 + (d + q)], r>>
      BY <2>3, <2>4
    <2>8. u[1 + q] = s[1 + (d + q)]
      <3>1. d + (1 + q) = 1 + (d + q)
        BY <2>6
      <3>2. u[1 + q] = s[d + (1 + q)]
        BY <1>5, <2>1
      <3>3. QED
        BY <3>1, <3>2
    <2>9. rest[j] = <<u[1 + q], r>>
      BY <2>5, <2>7, <2>8
    <2>10. QED
      BY <2>9 DEF q, r
  <1>13. /\ FramesOf(SubSeq(b, 1, d * FrameBytes), SubSeq(s, 1, d))
         /\ FramesOf(SubSeq(b, d * FrameBytes + 1, Len(b)), SubSeq(s, d + 1, Len(s)))
    BY <1>11, <1>12 DEF front, rest, t, u, n
  <1>14. QED
    BY <1>4, <1>5, <1>10, <1>13, <1>a

\* Until a block does not fit, the ring holds the sample frames of packets, the last of
\* them whole, and what was heard were such frames
RingFramed ==
    \E s \in Seq(SampleFrames) : FramesOf(Contents, s) /\ InOrder(s) /\ Ends(s)
FramesHeard ==
    heard = <<>> \/ \E s \in Seq(SampleFrames) :
                        Len(s) = BlockFrames /\ FramesOf(heard, s) /\ InOrder(s)
FramesInv == ~overrun => RingFramed /\ FramesHeard

LEMMA EmptyFramed ==
    ASSUME Contents = <<>>
    PROVE  RingFramed
  <1>1. <<>> \in Seq(SampleFrames) /\ Len(<<>>) = 0
    OBVIOUS
  <1>2. 0 * FrameBytes = 0
    BY BlockFits
  <1>3. FramesOf(<<>>, <<>>) /\ InOrder(<<>>) /\ Ends(<<>>)
    BY <1>1, <1>2 DEF FramesOf, InOrder, Ends
  <1>4. QED
    BY <1>1, <1>3 DEF RingFramed

\* The frames of a packet that fit are put behind the others
LEMMA ReadPacketFrames ==
    ASSUME RingTypeOK, RingTypeOK', WireOK, ThreadOK, FramesInv,
           NEW i \in DOMAIN wire, ReadPacket(i)
    PROVE  FramesInv'
  <1> SUFFICES ASSUME ~overrun' PROVE RingFramed' /\ FramesHeard'
    BY DEF FramesInv
  <1> DEFINE p == wire[i]
  <1>1. p \in Packets
    BY WithoutIs DEF WireOK
  <1>2. heard' = heard
    BY DEF ReadPacket
  <1>3. CASE UNCHANGED <<ring, overrun>>
    <2>1. Contents' = Contents
      BY <1>3 DEF Contents, ReadSpace, ring
    <2>2. RingFramed /\ FramesHeard
      BY <1>3 DEF FramesInv
    <2>3. QED
      BY <1>2, <2>1, <2>2 DEF RingFramed, FramesHeard
  <1>4. ASSUME NEW m \in Resampled, Write(Resample(p, m)),
               overrun' = (overrun \/ WriteSpace < m * FrameBytes)
        PROVE  RingFramed' /\ FramesHeard'
    <2> DEFINE block == Resample(p, m)
    <2>1. ~overrun /\ ~(WriteSpace < m * FrameBytes)
      BY <1>4 DEF ThreadOK
    <2>2. RingFramed /\ FramesHeard
      BY <2>1 DEF FramesInv
    <2>3. PICK s \in Seq(SampleFrames) : FramesOf(Contents, s) /\ InOrder(s) /\ Ends(s)
      BY <2>2 DEF RingFramed
    <2>4. /\ block \in Seq(Data) /\ block \in Blocks
          /\ m \in Nat /\ Len(block) = m * FrameBytes
          /\ OutOf(p, m) \in Seq(SampleFrames) /\ Len(OutOf(p, m)) = m
          /\ FramesOf(block, OutOf(p, m))
          /\ InOrder(OutOf(p, m)) /\ Ends(OutOf(p, m))
          /\ m >= 1 => OutOf(p, m)[1].at = 1
      BY <1>1, ResampleIs
    <2>5. Fifo!Put(block)
      BY <1>4, <2>4, WriteIsPut
    <2> HIDE DEF block
    <2>6. Fifo!Fewer(Len(block), (Size - 1) - Len(Contents)) = Len(block)
      <3>1. (Size - 1) - Len(Contents) = WriteSpace /\ WriteSpace \in Int
        BY WriteSpaceIs, ContentsIs, PointersAre
      <3>2. m * FrameBytes \in Int
        BY <2>4, BlockFits
      <3>3. QED
        BY <2>1, <2>4, <3>1, <3>2 DEF Fifo!Fewer
    <2>7. SubSeq(block, 1, Len(block)) = block
      BY <2>4, SubSeqFull
    <2>8. Contents' = Contents \o block
      BY <2>5, <2>6, <2>7 DEF Fifo!Put
    <2>9. Contents \in Seq(Data)
      BY ContentsIs
    <2>10. /\ s \o OutOf(p, m) \in Seq(SampleFrames)
           /\ FramesOf(Contents \o block, s \o OutOf(p, m))
           /\ InOrder(s \o OutOf(p, m)) /\ Ends(s \o OutOf(p, m))
      BY <2>3, <2>4, <2>9, AppendFrames
    <2>11. RingFramed'
      BY <2>8, <2>10 DEF RingFramed
    <2>12. QED
      BY <1>2, <2>2, <2>11 DEF FramesHeard
  <1>5. QED
    BY <1>3, <1>4 DEF ReadPacket

\* The frames that are heard are the first that wait
LEMMA PlayFrames ==
    ASSUME RingTypeOK, RingTypeOK', FramesInv, Play
    PROVE  FramesInv'
  <1> SUFFICES ASSUME ~overrun' PROVE RingFramed' /\ FramesHeard'
    BY DEF FramesInv
  <1>1. RingFramed /\ FramesHeard
    BY DEF Play, FramesInv
  <1>2. CASE UNCHANGED <<ring, heard>>
    <2>1. Contents' = Contents
      BY <1>2 DEF Contents, ReadSpace, ring
    <2>2. QED
      BY <1>1, <1>2, <2>1 DEF RingFramed, FramesHeard
  <1>3. CASE ReadSpace >= BlockBytes /\ Read(BlockBytes) /\ heard' = ReadData(BlockBytes)
    <2>1. PICK s \in Seq(SampleFrames) : FramesOf(Contents, s) /\ InOrder(s) /\ Ends(s)
      BY <1>1 DEF RingFramed
    <2>2. Contents \in Seq(Data) /\ Len(Contents) = ReadSpace /\ ReadSpace \in Nat
          /\ BlockBytes \in Nat /\ BlockBytes \in 0..Size /\ BlockBytes \in 0..ReadSpace
          /\ BlockFrames \in Nat /\ BlockFrames >= 1
      BY <1>3, ContentsIs, PointersAre, BlockFits
    <2>3. BlockFrames * FrameBytes <= Len(Contents) /\ BlockFrames * FrameBytes = BlockBytes
      BY <2>2 DEF BlockBytes
    <2> DEFINE t == SubSeq(s, 1, BlockFrames)
               u == SubSeq(s, BlockFrames + 1, Len(s))
    <2>4. /\ t \in Seq(SampleFrames) /\ Len(t) = BlockFrames /\ InOrder(t)
          /\ FramesOf(SubSeq(Contents, 1, BlockFrames * FrameBytes), t)
          /\ u \in Seq(SampleFrames) /\ InOrder(u) /\ Ends(u)
          /\ FramesOf(SubSeq(Contents, BlockFrames * FrameBytes + 1, Len(Contents)), u)
      BY <2>1, <2>2, <2>3, TakeFrames
    <2> HIDE DEF t, u
    <2>5. heard' = SubSeq(Contents, 1, BlockBytes)
      BY <1>3, <2>2, ReadDataIs
    <2>6. Fifo!Get(Fifo!Fewer(BlockBytes, Len(Contents)))
      BY <1>3, <2>2, ReadIsGet
    <2>7. Fifo!Fewer(BlockBytes, Len(Contents)) = BlockBytes
      BY <1>3, <2>2 DEF Fifo!Fewer
    <2>8. Contents' = SubSeq(Contents, BlockBytes + 1, Len(Contents))
      BY <2>6, <2>7 DEF Fifo!Get
    <2>9. RingFramed'
      BY <2>3, <2>4, <2>8 DEF RingFramed
    <2>10. FramesHeard'
      BY <2>3, <2>4, <2>5 DEF FramesHeard
    <2>11. QED
      BY <2>9, <2>10
  <1>4. QED
    BY <1>2, <1>3 DEF Play

LEMMA FramesStep ==
    RingTypeOK /\ RingTypeOK' /\ WireOK /\ ThreadOK /\ FramesInv /\ [Next]_vars => FramesInv'
  <1> SUFFICES ASSUME RingTypeOK, RingTypeOK', WireOK, ThreadOK, FramesInv, [Next]_vars
               PROVE  FramesInv'
    OBVIOUS
  <1>1. ASSUME NEW i \in DOMAIN wire, ReadPacket(i) PROVE FramesInv'
    BY <1>1, ReadPacketFrames
  <1>2. CASE Play
    BY <1>2, PlayFrames
  <1>3. CASE NewCall
    <2>1. readPtr' = 0 /\ writePtr' = 0 /\ heard' = <<>>
      BY <1>3 DEF NewCall, Reset
    <2>2. ReadSpace' = 0
      BY <2>1, Distance, RingAssumption DEF ReadSpace
    <2>3. Contents' = <<>>
      BY <2>2 DEF Contents, From
    <2>4. RingFramed'
      <3>1. /\ <<>> \in Seq(SampleFrames) /\ FramesOf(<<>>, <<>>)
            /\ InOrder(<<>>) /\ Ends(<<>>)
        BY BlockFits DEF FramesOf, InOrder, Ends
      <3>2. QED
        BY <2>3, <3>1 DEF RingFramed
    <2>5. QED
      BY <2>1, <2>4 DEF FramesInv, FramesHeard
  <1>4. CASE UNCHANGED <<ring, overrun, heard>>
    <2>1. Contents' = Contents
      BY <1>4 DEF Contents, ReadSpace, ring
    <2>2. QED
      BY <1>4, <2>1 DEF FramesInv, RingFramed, FramesHeard
  <1>5. Callback \/ (\E some \in 0..ratio : Transmit(some)) \/ ReportBegins \/ ReportEnds
          \/ UNCHANGED vars => UNCHANGED <<ring, overrun, heard>>
    BY DEF Callback, Transmit, ReportBegins, ReportEnds, vars, thread
  <1>6. QED
    BY <1>1, <1>2, <1>3, <1>4, <1>5 DEF Next

\* Until the ring overruns, what is played are whole sample frames, each the next of its
\* packet or the first of another whose last was played before it, however many frames the
\* resampler makes of a packet.
THEOREM FramesStayWhole == Spec => []WholeFrames
  <1>1. Init => FramesInv
    <2> SUFFICES ASSUME Init PROVE RingFramed /\ FramesHeard
      BY DEF FramesInv
    <2>1. readPtr = 0 /\ writePtr = 0 /\ heard = <<>>
      BY DEF Init, RingInit
    <2>2. ReadSpace = 0
      BY <2>1, Distance, RingAssumption DEF ReadSpace
    <2>3. Contents = <<>>
      BY <2>2 DEF Contents, From
    <2>4. QED
      BY <2>1, <2>3, EmptyFramed DEF FramesHeard
  <1>2. Spec => [](RingTypeOK /\ WireOK /\ ThreadOK)
    BY ReceptionTypeCorrect, TypeIs, PTL
  <1>3. Spec => []FramesInv
    BY <1>1, <1>2, FramesStep, PTL DEF Spec
  <1>4. ThreadOK /\ FramesInv => WholeFrames
    <2> DEFINE frames == [k \in 1..BlockFrames |-> heard[(k - 1) * FrameBytes + 1][1]]
    <2> SUFFICES ASSUME ThreadOK, NEW s \in Seq(SampleFrames), Len(s) = BlockFrames,
                        FramesOf(heard, s), InOrder(s)
                 PROVE  heard = Bytes(frames) /\ InOrder(frames)
      BY DEF FramesInv, FramesHeard, WholeFrames
    <2>1. /\ BlockFrames \in Nat /\ FrameBytes \in Nat /\ FrameBytes >= 1
          /\ BlockFrames * FrameBytes \in Nat
      BY BlockFits
    <2>2. /\ heard \in Seq(Data) /\ Len(heard) = BlockFrames * FrameBytes
          /\ \A i \in 1..BlockFrames * FrameBytes :
                 heard[i] = <<s[1 + ((i - 1) \div FrameBytes)], 1 + ((i - 1) % FrameBytes)>>
      BY DEF ThreadOK, FramesOf
    <2>3. ASSUME NEW k \in 1..BlockFrames
          PROVE  heard[(k - 1) * FrameBytes + 1][1] = s[k]
      <3> DEFINE e == (k - 1) * FrameBytes
                 i == e + 1
      <3>1. k - 1 \in Nat /\ 0 \div FrameBytes = 0
        BY <2>1
      <3>2. e \in Nat /\ (e + 0) \div FrameBytes = (k - 1) + (0 \div FrameBytes)
        BY <3>1, FrameShift
      <3>3. i \in 1..BlockFrames * FrameBytes
        <4>1. /\ BlockFrames * FrameBytes = e + FrameBytes + (BlockFrames - k) * FrameBytes
              /\ (BlockFrames - k) * FrameBytes \in Nat
          BY <2>1
        <4> HIDE DEF e
        <4>2. QED
          BY <2>1, <3>2, <4>1
      <3> HIDE DEF e
      <3>4. (i - 1) \div FrameBytes = k - 1
        <4>1. i - 1 = e + 0
          BY <3>2
        <4>2. (k - 1) + (0 \div FrameBytes) = k - 1
          BY <3>1
        <4>3. QED
          BY <3>2, <4>1, <4>2
      <3> HIDE DEF i
      <3>5. heard[i] = <<s[1 + (k - 1)], 1 + ((i - 1) % FrameBytes)>>
        BY <2>2, <3>3, <3>4
      <3>6. 1 + (k - 1) = k
        OBVIOUS
      <3>7. heard[i][1] = s[k]
        BY <3>5, <3>6
      <3>8. QED
        BY <3>7 DEF e, i
    <2>4. s = [k \in 1..BlockFrames |-> s[k]]
      BY <2>1
    <2>5. frames = s
      <3> DEFINE f(k) == heard[(k - 1) * FrameBytes + 1][1]
      <3>1. \A k \in 1..BlockFrames : f(k) = s[k]
        BY <2>3
      <3> HIDE DEF f
      <3>2. [k \in 1..BlockFrames |-> f(k)] = [k \in 1..BlockFrames |-> s[k]]
        BY <3>1, Zenon
      <3>3. QED
        BY <2>4, <3>2 DEF f
    <2>6. heard = [i \in 1..BlockFrames * FrameBytes |-> heard[i]]
      BY <2>1, <2>2
    <2>7. heard = Bytes(s)
      <3> DEFINE f(i) == <<s[1 + ((i - 1) \div FrameBytes)], 1 + ((i - 1) % FrameBytes)>>
      <3>1. \A i \in 1..BlockFrames * FrameBytes : heard[i] = f(i)
        BY <2>2
      <3>2. Bytes(s) = [i \in 1..BlockFrames * FrameBytes |-> f(i)]
        BY DEF Bytes
      <3> HIDE DEF f
      <3>3. [i \in 1..BlockFrames * FrameBytes |-> heard[i]]
              = [i \in 1..BlockFrames * FrameBytes |-> f(i)]
        BY <3>1, Zenon
      <3>4. QED
        BY <2>6, <3>2, <3>3
    <2>8. QED
      BY <2>5, <2>7
  <1>5. QED
    BY <1>2, <1>3, <1>4, PTL
=============================================================================
