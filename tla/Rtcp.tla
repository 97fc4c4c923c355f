-------------------------------- MODULE Rtcp ---------------------------------
(***************************************************************************)
(* The RTCP packets of a codec: what Codec writes in a report every tenth  *)
(* of a second, and what the far codec reads from it.                      *)
(*                                                                         *)
(* A 32-bit word of a packet is the sequence of its bytes in network order. *)
(* A field that fills a word is that word; the fields that share a word, or *)
(* are counted in bytes, are numbers.  The padding bit is never set here.   *)
(***************************************************************************)
EXTENDS Naturals, Sequences, SequencesExt

CONSTANT States   \* what a codec may have to report
VARIABLE sent     \* what it reports

Byte == 0..255
Word == [1..4 -> Byte]
Zero == <<0, 0, 0, 0>>

\* The words of a packet that carries the reports of type pt, with count blocks
Header(count, pt, words) ==
    <<2 * 64 + (count % 32), pt, (words - 1) \div 256, (words - 1) % 256>>

Version(w) == w[1] \div 64
Count(w) == w[1] % 32
PacketType(w) == w[2]
Size(w) == 256 * w[3] + w[4] + 1

PacketSenderReport == 200
PacketSourceDescription == 202
PacketBye == 203

-----------------------------------------------------------------------------
(***************************************************************************)
(* RTPReceptionBlock: fraction in 256ths, lost as two bytes.  Fewer bits    *)
(* are written than are read.                                              *)
(***************************************************************************)
WriteBlock(b) ==
    <<b.ssrc, <<b.fraction % 16, 0, b.lost[1] % 8, b.lost[2]>>, b.highest, b.jitter,
      b.lsr, b.delay>>

ReadBlock(d) ==
    [ssrc |-> d[1], fraction |-> d[2][1], lost |-> <<d[2][3] % 8, d[2][4]>>,
     highest |-> d[3], jitter |-> d[4], lsr |-> d[5], delay |-> d[6]]

BlockSize == 6
NullBlock == [i \in 1..BlockSize |-> Zero]

(***************************************************************************)
(* RTPSenderReport.  One without blocks is written with a block of zeros   *)
(* that its count does not mention.                                        *)
(***************************************************************************)
ReportBase == 7

WriteReport(r) ==
    LET blocks == IF r.blocks = <<>> THEN <<NullBlock>>
                  ELSE [i \in DOMAIN r.blocks |-> WriteBlock(r.blocks[i])]
    IN  <<Header(Len(r.blocks), PacketSenderReport, ReportBase + BlockSize * Len(blocks)),
          r.ssrc, r.ntp[1], r.ntp[2], r.rtp, r.packets, r.octets>>
        \o FlattenSeq(blocks)

ReadReport(d) ==
    [ssrc |-> d[2], ntp |-> <<d[3], d[4]>>, rtp |-> d[5], packets |-> d[6],
     octets |-> d[7],
     blocks |-> [i \in 1..Count(d[1]) |->
                   ReadBlock(SubSeq(d, ReportBase + BlockSize * (i - 1) + 1, Len(d)))]]

-----------------------------------------------------------------------------
(***************************************************************************)
(* RTPSourceDescription: chunks of one source, one of each type.            *)
(***************************************************************************)
ChunkCname == 1
ChunkPriv == 8

\* Mutant: without the clip the length byte wraps
AddChunkWhole(chunks, type, data) ==
    IF \E i \in DOMAIN chunks : chunks[i].type = type THEN chunks
    ELSE Append(chunks, [type |-> type, data |-> data])

\* The first 255 bytes
Cut(data) == SubSeq(data, 1, IF Len(data) > 255 THEN 255 ELSE Len(data))

AddChunk(chunks, type, data) ==
    IF \E i \in DOMAIN chunks : chunks[i].type = type THEN chunks
    ELSE Append(chunks, [type |-> type, data |-> Cut(data)])

Add(m, n) == m + n
\* GetTotalSize: words of the whole packet, enough for the chunks whatever the rest
TotalSize(chunks) ==
    1 + FoldLeft(Add, 0, [i \in DOMAIN chunks |-> 2 + (2 + Len(chunks[i].data)) \div 4])

ChunkBytes(chunks) ==
    FlattenSeq([i \in DOMAIN chunks |->
                  <<chunks[i].type, Len(chunks[i].data) % 256>> \o chunks[i].data])

\* The bytes laid into n words, the rest of them zero
Words(bytes, n) ==
    [w \in 1..n |-> [b \in 1..4 |-> LET i == 4 * (w - 1) + b
                                    IN  IF i <= Len(bytes) THEN bytes[i] ELSE 0]]

WriteDescription(ssrc, chunks) ==
    LET size == TotalSize(chunks)
    IN  <<Header(Len(chunks), PacketSourceDescription, size), ssrc>>
        \o Words(ChunkBytes(chunks), size - 2)

\* Chunk after chunk, for as many as the header counts, whatever the header's size
ReadDescription(d) ==
    LET bytes == FlattenSeq(SubSeq(d, 3, Len(d)))
        n == Count(d[1])
        at[i \in 1..n+1] == IF i = 1 THEN 1 ELSE at[i - 1] + 2 + bytes[at[i - 1] + 1]
    IN  [i \in 1..n |-> [type |-> bytes[at[i]],
                         data |-> SubSeq(bytes, at[i] + 2, at[i + 1] - 1)]]

-----------------------------------------------------------------------------
(***************************************************************************)
(* RTPBye, and RTPControlHeader: the first report of each type counts.     *)
(***************************************************************************)
WriteBye(ssrcs) == <<Header(Len(ssrcs), PacketBye, 1 + Len(ssrcs))>> \o ssrcs
ReadBye(d) == SubSeq(d, 2, 1 + Count(d[1]))

\* Mutant: the size in a header is taken for that of the packet less one
StartsShort(d) ==
    LET next[i \in 1..Len(d)] ==
            IF Version(d[i]) # 2 THEN {}
            ELSE {i} \union (IF i + Size(d[i]) - 1 \in (i+1)..Len(d)
                             THEN next[i + Size(d[i]) - 1] ELSE {})
    IN  next[1]

\* Where the reports of the packet d start, hopping from size to size
Starts(d) ==
    LET next[i \in 1..Len(d)] ==
            IF Version(d[i]) # 2 THEN {}
            ELSE {i} \union (IF i + Size(d[i]) <= Len(d) THEN next[i + Size(d[i])] ELSE {})
    IN  next[1]

\* The first report of type pt in d, and all that follows it; <<>> if there is none
FirstOf(d, pt) ==
    LET S == {i \in Starts(d) : PacketType(d[i]) = pt}
    IN  IF S = {} THEN <<>> ELSE SubSeq(d, CHOOSE i \in S : \A j \in S : i <= j, Len(d))

-----------------------------------------------------------------------------
(***************************************************************************)
(* Codec: what GenerateRtcpPacket makes of a codec's state, disconnect()'s  *)
(* BYE behind it, and what rtcpReceiveData takes from it.                   *)
(***************************************************************************)
GpioTag == <<4, 71, 80, 73, 79>>    \* a length, "GPIO"

ChunksOf(c) == AddChunk(AddChunk(<<>>, ChunkCname, c.cname), ChunkPriv, GpioTag \o c.gpio)

GenerateRtcpPacket(c) ==
    WriteReport(c.report) \o WriteDescription(c.report.ssrc, ChunksOf(c))
    \o (IF c.leaving THEN WriteBye(<<c.report.ssrc>>) ELSE <<>>)

\* ReadPrivateSourceChunk: the mask of a GPIO chunk, <<>> of any other
GpioOf(data) ==
    IF Len(data) = 9 /\ SubSeq(data, 1, 5) = GpioTag THEN SubSeq(data, 6, 9) ELSE <<>>

\* What the chunks say: rtcpReceiveData lets a later one overrule
Told(chunks, type) == LET these == {i \in DOMAIN chunks : chunks[i].type = type}
                      IN  IF these = {} THEN <<>> ELSE chunks[Max(these)].data

RtcpReceiveData(d) ==
    LET sd == FirstOf(d, PacketSourceDescription)
        chunks == IF sd = <<>> THEN <<>> ELSE ReadDescription(sd)
        sr == FirstOf(d, PacketSenderReport)
        bye == FirstOf(d, PacketBye)
    IN  [report |-> IF sr = <<>> THEN <<>> ELSE ReadReport(sr),
         cname |-> Told(chunks, ChunkCname),
         gpio |-> GpioOf(Told(chunks, ChunkPriv)),
         leaving |-> bye # <<>>]

(***************************************************************************)
(* The reports of a codec: of a call with one far end, so of one block at   *)
(* most, and none before a packet has come.                                *)
(***************************************************************************)
Blocks == [ssrc : Word, fraction : Byte, lost : Byte \X Byte, highest : Word, jitter : Word,
           lsr : Word, delay : Word]
Reports == {r \in [ssrc : Word, ntp : Word \X Word, rtp : Word, packets : Word, octets : Word,
                   blocks : Seq(Blocks)] : Len(r.blocks) <= 1}

ASSUME RtcpAssumption ==
    States \subseteq [report : Reports, cname : Seq(Byte), gpio : Word, leaving : BOOLEAN]

Init == sent \in States
\* The mask changes, or the codec leaves
Next == \E s \in States : s.report = sent.report /\ s.cname = sent.cname /\ sent' = s
Spec == Init /\ [][Next]_sent

\* What the far codec reads of a report is what was reported: every offset, count and
\* length the writers compute is the one the readers assume, wherever the words end.
\* A name is cut at 255 bytes, and a block is read as it was if its losses fit its bits.
Exact(b) == b.fraction < 16 /\ b.lost[1] < 8
RoundTrip ==
    LET got == RtcpReceiveData(GenerateRtcpPacket(sent))
    IN  /\ got.cname = Cut(sent.cname) /\ got.gpio = sent.gpio /\ got.leaving = sent.leaving
        /\ \A f \in DOMAIN sent.report \ {"blocks"} : got.report[f] = sent.report[f]
        /\ DOMAIN got.report.blocks = DOMAIN sent.report.blocks
        /\ \A i \in DOMAIN sent.report.blocks :
             Exact(sent.report.blocks[i]) => got.report.blocks[i] = sent.report.blocks[i]

\* The reports a packet is made of are found where they were written, and nothing else is
\* taken for one: no byte of a name, and not the null block.
NothingMistaken ==
    LET d == GenerateRtcpPacket(sent)
        sd == Len(WriteReport(sent.report)) + 1
        bye == sd + Len(WriteDescription(sent.report.ssrc, ChunksOf(sent)))
    IN  {<<i, PacketType(d[i])>> : i \in Starts(d)} =
            {<<1, PacketSenderReport>>, <<sd, PacketSourceDescription>>}
            \union (IF sent.leaving THEN {<<bye, PacketBye>>} ELSE {})
=============================================================================
