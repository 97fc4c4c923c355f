------------------------------ MODULE RingBuffer ------------------------------
(***************************************************************************)
(* The ring of bytes between the decoder and the loudspeaker: an array of a *)
(* power of two of bytes and two pointers into it.  The ring is empty when  *)
(* the pointers meet, so one byte of it is never used.                      *)
(*                                                                         *)
(* Both pointers are moved by one thread, the audio thread: Codec writes    *)
(* and reads the ring in the same callback, and resets it while no stream   *)
(* runs.  So a call is one action.  mlock is never called, and of the       *)
(* vectors there are only the values: nobody advances by them.              *)
(***************************************************************************)
EXTENDS Integers, Sequences

CONSTANTS
    Data,       \* the bytes
    Blocks,     \* the blocks of them that the decoder makes
    Size,       \* bytes in the ring
    Stale       \* what malloc left in the ring

ASSUME RingAssumption ==
    /\ Size \in Nat /\ Size >= 2
    /\ \E p \in 1..Size : Size = 2^p
    /\ Stale \in Data
    /\ Blocks \subseteq Seq(Data)

VARIABLES
    buf,        \* rb->buf
    readPtr,
    writePtr

ring == <<buf, readPtr, writePtr>>

RingInit ==
    /\ buf = [i \in 0..Size-1 |-> Stale]
    /\ readPtr = 0
    /\ writePtr = 0

Least(m, n) == IF m < n THEN m ELSE n

\* & size_mask, of a power of two
Masked(p) == p % Size

ReadSpace ==
    IF writePtr > readPtr THEN writePtr - readPtr
    ELSE Masked(writePtr - readPtr + Size)

\* Mutant: the byte that tells a full ring from an empty one is given away
WriteSpaceWhole ==
    IF writePtr > readPtr THEN Masked(readPtr - writePtr + Size)
    ELSE IF writePtr < readPtr THEN readPtr - writePtr
    ELSE Size

WriteSpace ==
    IF writePtr > readPtr THEN Masked(readPtr - writePtr + Size) - 1
    ELSE IF writePtr < readPtr THEN (readPtr - writePtr) - 1
    ELSE Size - 1

\* How many of the n bytes at pointer p lie before the end of the array; the others
\* follow from its start
FirstPart(p, n) == IF p + n > Size THEN Size - p ELSE n

ReadData(cnt) ==
    LET n == Least(cnt, ReadSpace)
        n1 == FirstPart(readPtr, n)
    IN  [i \in 1..n |-> IF i <= n1 THEN buf[readPtr + i - 1] ELSE buf[i - n1 - 1]]

Read(cnt) ==
    /\ readPtr' = Masked(readPtr + Least(cnt, ReadSpace))
    /\ UNCHANGED <<buf, writePtr>>

\* Mutant: the second part is copied from the start of the source
WriteFirstTwice(src) ==
    LET n == Least(Len(src), WriteSpace)
        n1 == FirstPart(writePtr, n)
    IN  /\ buf' = [i \in 0..Size-1 |->
                     IF i \in writePtr..writePtr+n1-1 THEN src[i - writePtr + 1]
                     ELSE IF i < n - n1 THEN src[i + 1] ELSE buf[i]]
        /\ writePtr' = Masked(writePtr + n)
        /\ UNCHANGED readPtr

Write(src) ==
    LET n == Least(Len(src), WriteSpace)
        n1 == FirstPart(writePtr, n)
    IN  /\ buf' = [i \in 0..Size-1 |->
                     IF i \in writePtr..writePtr+n1-1 THEN src[i - writePtr + 1]
                     ELSE IF i < n - n1 THEN src[n1 + i + 1] ELSE buf[i]]
        /\ writePtr' = Masked(writePtr + n)
        /\ UNCHANGED readPtr

Reset ==
    /\ readPtr' = 0
    /\ writePtr' = 0
    /\ UNCHANGED buf

\* getReadVector, getWriteVector: where the two parts start and how long they are
Vector(p, n) ==
    << [at |-> p, len |-> FirstPart(p, n)],
       [at |-> 0, len |-> IF p + n > Size THEN Masked(p + n) ELSE 0] >>
ReadVector == Vector(readPtr, ReadSpace)
WriteVector == Vector(writePtr, WriteSpace)

RingNext ==
    \/ \E src \in Blocks : Write(src)
    \/ \E cnt \in 0..Size : Read(cnt)
    \/ Reset

RingSpec == RingInit /\ [][RingNext]_ring

-----------------------------------------------------------------------------
(***************************************************************************)
(* Properties.                                                             *)
(***************************************************************************)
\* The pointers stay in the array.
RingTypeOK ==
    /\ buf \in [0..Size-1 -> Data]
    /\ readPtr \in 0..Size-1
    /\ writePtr \in 0..Size-1

\* The k bytes of b from p on, around the end of the array
From(b, p, k) == [i \in 1..k |-> b[Masked(p + i - 1)]]
Contents == From(buf, readPtr, ReadSpace)

\* The two vectors part the whole array between them, but for the byte that is never
\* used: nothing can be both read and written, whatever the pointers (getReadVector,
\* getWriteVector).
Cells(v) == (v[1].at .. v[1].at + v[1].len - 1) \union (v[2].at .. v[2].at + v[2].len - 1)
VectorsPartTheRing ==
    /\ Cells(ReadVector) \intersect Cells(WriteVector) = {}
    /\ Cells(ReadVector) \union Cells(WriteVector)
           = (0..Size-1) \ {Masked(readPtr + Size - 1)}

\* What read() returns and write() keeps is what a bounded queue would: the ring
\* implements it, over the end of the array and with a block that does not fit.
Fifo == INSTANCE BoundedFifo WITH queue <- Contents, Capacity <- Size - 1
ImplementsFifo == Fifo!Spec

=============================================================================
