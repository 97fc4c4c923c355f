------------------------------ MODULE MCReception ------------------------------
(***************************************************************************)
(* Reception with eight sequence numbers, packets of one sample frame or   *)
(* three, and a ring of eight bytes, which three sample frames fill but    *)
(* for a byte.                                                             *)
(***************************************************************************)
EXTENDS Reception

MCFirstNumbers == {6, 7}
MCBlocks == {Resample(p, m) : p \in Packets, m \in Resampled}
MCStale == <<[ssrc |-> 0, n |-> 0, at |-> 0, of |-> 0], 0>>
MCMost == CHOOSE m \in Resampled : \A k \in Resampled : k <= m
MCData == [ssrc : 0..MaxCalls, n : 0..SeqMod+MaxPackets, at : 0..MCMost, of : 0..MCMost]
              \X (0..FrameBytes)

\* Of the ring's cells those that are to be read: what malloc or an earlier block left in
\* the others makes no difference
MCView == <<Contents, readPtr, writePtr, far, wire, thread, recv, seen, story>>
=============================================================================
