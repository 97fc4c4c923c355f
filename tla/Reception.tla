------------------------------- MODULE Reception -------------------------------
(***************************************************************************)
(* What a codec hears: the far codec's packets over a network that loses,   *)
(* repeats and reorders them, AudioOutputCallback's choice of those it      *)
(* decodes, the ring buffer, and the loudspeaker.                           *)
(*                                                                         *)
(* The audio thread runs AudioOutputCallback: it reads packets until the    *)
(* socket is empty, then plays a block or silence; a packet read is one     *)
(* step.  Between its steps the main thread writes its reports, which read  *)
(* and set the receiver's numbers without a lock.                           *)
(*                                                                         *)
(* A sequence number is 16 bits of the code, SeqMod values here, and the    *)
(* 256 at the end of them that 0xff00 stands for are RollWindow.  Every call *)
(* has an SSRC of its own.  What the decoder and the resampler make of a    *)
(* packet is a number of sample frames that differs from packet to packet,  *)
(* as the phase locked loop moves the ratio; a callback plays BlockFrames   *)
(* of them.  Not modelled are the loop itself, that is the size of the      *)
(* drift, codec_recv_interval_packets_lost, and the meters.                 *)
(***************************************************************************)
EXTENDS RingBuffer

CONSTANTS
    SeqMod,         \* sequence numbers
    RollWindow,     \* SeqMod less the 0xff00 of the code
    FirstNumbers,   \* where a far codec may begin to count
    Ratios,         \* codec_stream_ratio of a far codec: copies it sends of a packet
    Setpoint,       \* codec_buffer_setpoint
    FrameBytes,     \* bytes of a sample frame: two for a channel
    BlockFrames,    \* codec_sample_dec_size: sample frames that a callback plays
    Resampled,      \* sample frames that src_process may make of a packet
    Reorder,        \* bound: packets that one may overtake at a time
    WireMax,        \* bound: packets on their way
    MaxPackets,     \* bound: packets sent in a call
    MaxCalls        \* bound

ASSUME ReceptionAssumption ==
    /\ SeqMod \in Nat /\ RollWindow \in 1..SeqMod-1
    /\ FirstNumbers \subseteq 0..SeqMod-1 /\ FirstNumbers # {}
    /\ Ratios \subseteq Nat \ {0}
    /\ FrameBytes \in Nat \ {0} /\ BlockFrames \in Nat \ {0} /\ Resampled \subseteq Nat
    /\ Setpoint \in Nat \ {0} /\ Setpoint * (BlockFrames * FrameBytes) < Size
    /\ Reorder \in Nat /\ WireMax \in Nat /\ MaxPackets \in Nat /\ MaxCalls \in Nat \ {0}

VARIABLES
    call,       \* the current call, and the SSRC of its far codec
    first,      \* where the far codec began to count
    ratio,      \* its stream ratio
    next,       \* the packet it sends next, counted without end
    wire,       \* packets on their way, in the order they were sent
    pc,         \* "wait", or "drain": the callback reads packets
    recv,       \* codec_recv_*: ssrc, lo, hi, last, start, lost
    seen,       \* the number GenerateRtcpPacket is about to store, none if not
    locked,     \* codec_locked
    overrun,    \* a block did not fit in the ring
    heard,      \* the block played last, <<>> if none
    story       \* what has been received of the current source, below

far == <<call, first, ratio, next>>
thread == <<pc, locked, overrun, heard>>
vars == <<ring, far, wire, thread, recv, seen, story>>

None == -1

\* Mutant: a number of more than 16 bits
SeqnumWide(p) == p.n
Seqnum(p) == p.n % SeqMod

\* The bytes of sample frames, each with its place in its frame
Bytes(frames) ==
    [i \in 1..Len(frames) * FrameBytes |->
        <<frames[1 + ((i - 1) \div FrameBytes)], 1 + ((i - 1) % FrameBytes)>>]

\* DecodeFrame and src_process: m sample frames, numbered, come out when p goes in
Resample(p, m) ==
    Bytes([k \in 1..m |-> [ssrc |-> p.ssrc, n |-> p.n, at |-> k, of |-> m]])

\* What a callback plays
BlockBytes == BlockFrames * FrameBytes

\* The packets there can be, of which the blocks of the ring are made
Packets == [ssrc : 1..MaxCalls, n : {f + k : f \in FirstNumbers, k \in 0..MaxPackets}]
ASSUME FrameAssumption == \A p \in Packets, m \in Resampled : Resample(p, m) \in Blocks

\* The truth about the current source: its first and newest packet, how many were
\* decoded, the last of those, how many were received in vain, how many late and how
\* many not by the time a later one was; whether this is the only source of its call;
\* whether the numbers could tell their order; whether a report was torn, and whether a
\* packet was decoded after a later one or twice; the packet the last report was about
\* (since a rollover: the one before which the numbers began anew), and the one the
\* report being written is about, 0 if there is none
Unheard == [first |-> 0, newest |-> 0, decoded |-> 0, top |-> 0,
            skipped |-> 0, late |-> 0, missed |-> 0, reported |-> 0, reporting |-> 0,
            sole |-> TRUE, orderly |-> TRUE, torn |-> FALSE, again |-> FALSE]

Story == [first : Nat, newest : Nat, decoded : Nat, top : Nat,
          skipped : Nat, late : Nat, missed : Nat, reported : Nat, reporting : Nat,
          sole : BOOLEAN, orderly : BOOLEAN, torn : BOOLEAN, again : BOOLEAN]

NoSource == [ssrc |-> 0, lo |-> 0, hi |-> 0, last |-> 0, start |-> 0, lost |-> 0]

Init ==
    /\ RingInit
    /\ call = 1
    /\ first \in FirstNumbers /\ next = first /\ ratio \in Ratios
    /\ wire = <<>>
    /\ pc = "wait"
    /\ recv = NoSource
    /\ seen = None
    /\ locked = FALSE /\ overrun = FALSE /\ heard = <<>>
    /\ story = Unheard

-----------------------------------------------------------------------------
(***************************************************************************)
(* The far codec and the network.                                          *)
(***************************************************************************)
\* AudioInputCallback: as many copies of a packet as the stream ratio says.  All but
\* some of them are lost on the way
Transmit(some) ==
    /\ next - first < MaxPackets
    /\ Len(wire) + some <= WireMax
    /\ wire' = wire \o [i \in 1..some |-> [ssrc |-> call, n |-> next]]
    /\ next' = next + 1
    /\ UNCHANGED <<ring, call, first, ratio, thread, recv, seen, story>>

Without(i) == [j \in 1..Len(wire)-1 |-> IF j < i THEN wire[j] ELSE wire[j + 1]]

\* disconnect, then connectToHost: the lock is lost, and InitAudioInterface clears the
\* receiver while no stream runs; what is on its way stays
NewCall ==
    /\ call < MaxCalls
    /\ pc = "wait" /\ seen = None
    /\ call' = call + 1
    /\ first' \in FirstNumbers /\ next' = first' /\ ratio' \in Ratios
    /\ recv' = NoSource
    /\ Reset
    /\ heard' = <<>> /\ overrun' = FALSE /\ locked' = FALSE
    /\ story' = Unheard
    /\ UNCHANGED <<wire, pc, seen>>

-----------------------------------------------------------------------------
(***************************************************************************)
(* AudioOutputCallback.                                                    *)
(***************************************************************************)
Callback ==
    /\ pc = "wait"
    /\ pc' = "drain"
    /\ UNCHANGED <<ring, far, wire, locked, overrun, heard, recv, seen, story>>

\* Mutant: a window of one less
RolledOverLate(seq) ==
    /\ recv.lo > SeqMod - RollWindow
    /\ seq < recv.lo - (SeqMod - RollWindow) - 1

RolledOver(seq) ==
    /\ recv.lo > SeqMod - RollWindow
    /\ seq < recv.lo - (SeqMod - RollWindow)

\* Mutant: a copy of the last packet will do, too
IsNextOrSame(seq) == seq >= recv.lo /\ seq <= recv.lo + 1

\* The comparison is of ints: none follows the last of the sequence numbers
IsNext(seq) == seq = recv.lo + 1

\* Mutant: copies are counted as losses
SameSourceCopies(seq) ==
    LET lost == IF IsNext(seq) THEN recv.lost ELSE recv.lost + 1
    IN  IF seq > recv.lo THEN [recv EXCEPT !.lost = lost, !.lo = seq]
        ELSE IF RolledOver(seq)
        THEN [recv EXCEPT !.lost = lost, !.lo = seq, !.hi = @ + 1, !.last = 0]
        ELSE [recv EXCEPT !.lost = lost]

\* Mutant: the rollover leaves the number reported last behind
SameSourceKeepsLast(seq) ==
    LET lost == IF IsNext(seq) \/ seq = recv.lo THEN recv.lost ELSE recv.lost + 1
    IN  IF seq > recv.lo THEN [recv EXCEPT !.lost = lost, !.lo = seq]
        ELSE IF RolledOver(seq)
        THEN [recv EXCEPT !.lost = lost, !.lo = seq, !.hi = @ + 1]
        ELSE [recv EXCEPT !.lost = lost]

SameSource(seq) ==
    LET lost == IF IsNext(seq) \/ seq = recv.lo THEN recv.lost ELSE recv.lost + 1
    IN  IF seq > recv.lo THEN [recv EXCEPT !.lost = lost, !.lo = seq]
        ELSE IF RolledOver(seq)
        THEN [recv EXCEPT !.lost = lost, !.lo = seq, !.hi = @ + 1, !.last = 0]
        ELSE [recv EXCEPT !.lost = lost]

\* "SSRC changed!"
OtherSource(p) ==
    [ssrc |-> p.ssrc, lo |-> Seqnum(p), hi |-> recv.hi, last |-> Seqnum(p),
     start |-> Seqnum(p), lost |-> 0]

Round(n) == n \div SeqMod

\* A number that misleads: an outage so long that it has gone round and passed the
\* window, or a packet so late that it comes from before the rollover, or the window
OutOfStep(p) ==
    LET round == Round(p.n) # Round(story.newest)
    IN  IF p.n > story.newest THEN round /\ p.n - story.newest >= RollWindow
        ELSE round \/ story.newest - p.n > SeqMod - RollWindow

\* The story goes on with p, of the source that was heard before
Continued(p, decodes) ==
    LET told == [story EXCEPT !.decoded = IF decodes THEN @ + 1 ELSE @,
                              !.top = IF decodes THEN p.n ELSE @,
                              !.again = @ \/ (decodes /\ p.n <= story.top),
                              !.orderly = @ /\ ~OutOfStep(p)]
    IN  IF p.n > story.newest
        THEN [told EXCEPT !.newest = p.n,
                          !.reported = IF Round(p.n) = Round(story.newest) THEN @
                                       ELSE Round(p.n) * SeqMod,
                          !.missed = @ + p.n - story.newest - 1,
                          !.skipped = IF decodes THEN @ ELSE @ + 1]
        ELSE [told EXCEPT !.late = IF p.n = story.newest THEN @ ELSE @ + 1]

\* A new source, the first of its call or not
Begun(p) == [Unheard EXCEPT !.first = p.n, !.newest = p.n, !.top = p.n, !.decoded = 1,
                            !.reported = p.n, !.sole = (recv.ssrc = 0)]

\* One turn of the loop: a packet is read, and decoded and resampled into the ring or not
ReadPacket(i) ==
    LET p == wire[i]
        same == p.ssrc = recv.ssrc
        decodes == ~same \/ IsNext(Seqnum(p))
    IN  /\ pc = "drain"
        /\ wire' = Without(i)
        /\ recv' = IF same THEN SameSource(Seqnum(p)) ELSE OtherSource(p)
        /\ \/ /\ decodes
              /\ \E m \in Resampled :
                   /\ Write(Resample(p, m))
                   /\ overrun' = (overrun \/ WriteSpace < m * FrameBytes)
           \/ ~decodes /\ UNCHANGED <<ring, overrun>>
        /\ story' = [(IF same THEN Continued(p, decodes) ELSE Begun(p)) EXCEPT
                        !.torn = IF same /\ recv'.hi = recv.hi THEN story.torn
                                 ELSE seen # None]
        /\ UNCHANGED <<far, pc, locked, heard, seen>>

\* Mutant: the read is a byte short
PlayShort ==
    /\ pc = "drain" /\ pc' = "wait"
    /\ IF ReadSpace < BlockBytes * Setpoint /\ ~locked
       THEN UNCHANGED <<ring, locked, heard>>
       ELSE /\ locked' = (ReadSpace >= BlockBytes)
            /\ IF ReadSpace >= BlockBytes
               THEN Read(BlockBytes - 1) /\ heard' = ReadData(BlockBytes)
               ELSE UNCHANGED <<ring, heard>>
    /\ UNCHANGED <<far, wire, overrun, recv, seen, story>>

\* The socket is empty, or what comes later counts for the next callback.  Silence until
\* the ring holds the setpoint, then a block a callback until there is none
Play ==
    /\ pc = "drain" /\ pc' = "wait"
    /\ IF ReadSpace < BlockBytes * Setpoint /\ ~locked
       THEN UNCHANGED <<ring, locked, heard>>
       ELSE /\ locked' = (ReadSpace >= BlockBytes)
            /\ IF ReadSpace >= BlockBytes
               THEN Read(BlockBytes) /\ heard' = ReadData(BlockBytes)
               ELSE UNCHANGED <<ring, heard>>
    /\ UNCHANGED <<far, wire, overrun, recv, seen, story>>

-----------------------------------------------------------------------------
(***************************************************************************)
(* rtcpTransmitData, in the main thread, and GenerateRtcpPacket, which      *)
(* compares and reports the last number, and stores it when it is done.    *)
(***************************************************************************)
\* setReceptionPacketsReceived
PacketsReceived == (recv.hi * SeqMod + recv.last) - (recv.start + recv.lost)

ReportBegins ==
    /\ seen = None
    /\ recv.lo > recv.last
    /\ seen' = recv.lo
    /\ story' = [story EXCEPT !.reporting = story.newest]
    /\ UNCHANGED <<ring, far, wire, thread, recv>>

ReportEnds ==
    /\ seen # None
    /\ recv' = [recv EXCEPT !.last = seen]
    /\ seen' = None
    /\ story' = [story EXCEPT !.reported = story.reporting, !.reporting = 0]
    /\ UNCHANGED <<ring, far, wire, thread>>

Next ==
    \/ \E some \in 0..ratio : Transmit(some)
    \/ NewCall
    \/ Callback
    \/ \E i \in DOMAIN wire : i <= Reorder + 1 /\ ReadPacket(i)
    \/ Play
    \/ ReportBegins
    \/ ReportEnds

Spec == Init /\ [][Next]_vars

-----------------------------------------------------------------------------
(***************************************************************************)
(* Properties.                                                             *)
(***************************************************************************)
TypeOK ==
    /\ RingTypeOK
    /\ call \in 1..MaxCalls /\ first \in FirstNumbers /\ next \in first..first+MaxPackets
    /\ ratio \in Ratios
    /\ wire \in Seq(Packets) /\ Len(wire) <= WireMax
    /\ pc \in {"wait", "drain"}
    /\ recv \in [ssrc : 0..MaxCalls, lo : 0..SeqMod-1, hi : Nat, last : 0..SeqMod-1,
                 start : 0..SeqMod-1, lost : Nat]
    /\ seen \in 0..SeqMod-1 \union {None}
    /\ locked \in BOOLEAN /\ overrun \in BOOLEAN
    /\ heard \in Seq(Data) /\ Len(heard) \in {0, BlockBytes}
    /\ story \in Story

\* Unless a packet from before a rollover comes behind it, or an outage passes the window,
\* the receiver's 16-bit number is that of the newest packet, with losses, copies and
\* packets out of order; and in a call with one source its rollovers are those there were
\* (AudioOutputCallback, codec.cpp:178-205).
InStep ==
    (recv.ssrc # 0 /\ story.orderly) =>
        /\ recv.lo = story.newest % SeqMod
        /\ story.sole => recv.hi = (story.newest \div SeqMod) - (story.first \div SeqMod)

\* Then codec_recv_total_packets_lost counts the packets that were received in vain, which
\* are the first behind a gap and behind the rollover, and those that were late.  So the
\* number received that rtcpTransmitData computes is too large by the packets that were
\* missing, too small by the late ones, and behind by all that came since the last report
\* or, as the number reported last is then 0, by what the newest number is past the
\* rollover; unless the source changed in the call, or a report was written over a
\* rollover (codec.cpp:180, 195-218, 787-791).
Accounting ==
    (recv.ssrc # 0 /\ story.orderly) =>
        /\ recv.lost = story.skipped + story.late
        /\ story.sole /\ ~story.torn =>
             PacketsReceived = (story.decoded - 1 + story.missed - story.late)
                                   - (story.newest - story.reported)

\* The number reported last is not ahead of the newest one, so the next report has a
\* block; unless the number rolled over, or the source changed, while a report was
\* being written (codec.cpp:1598-1612 against 195-218).
ReportsGoOn == ~story.torn => recv.last <= recv.lo /\ seen <= recv.lo

\* What is played are whole sample frames, so no channel takes another's place, and each is
\* the next of its packet or the first of another whose last was played before it; until a
\* block has not fit (ringbuffer.cpp:179, codec.cpp:231-249).
Follows(f, g) ==
    IF f.at = f.of THEN g.at = 1 ELSE g = [f EXCEPT !.at = @ + 1]
InOrder(frames) == \A k \in 1..Len(frames)-1 : Follows(frames[k], frames[k + 1])
WholeFrames ==
    (~overrun /\ heard # <<>>) =>
        LET frames == [k \in 1..BlockFrames |-> heard[(k - 1) * FrameBytes + 1][1]]
        IN  heard = Bytes(frames) /\ InOrder(frames)

\* Then also no packet of a source is decoded after a later one, or twice: copies and
\* packets that come late are kept from the ring (codec.cpp:178-205).  What the ring makes
\* of what is decoded, ImplementsFifo says.
NeverAgain == story.orderly => ~story.again

=============================================================================
