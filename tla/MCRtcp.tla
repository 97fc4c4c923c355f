-------------------------------- MODULE MCRtcp --------------------------------
(***************************************************************************)
(* Rtcp over a bounded set of reports: names around the lengths where words *)
(* and the length byte overflow, every GPIO mask that sets one byte, and    *)
(* losses on both sides of what the block's bits hold.                     *)
(***************************************************************************)
EXTENDS Rtcp

\* Bytes that start no report's header and no GPIO tag, and are not zero
Name(n) == [i \in 1..n |-> 97 + (i % 26)]
Names == {Name(n) : n \in {0} \union (12..17) \union {254, 255, 256, 300}}
Masks == {Zero, <<0, 0, 0, 1>>, <<0, 0, 255, 0>>, <<0, 128, 0, 0>>, <<255, 0, 0, 0>>}
W(n) == <<n, n + 1, n + 2, n + 3>>

MCBlocks == [ssrc : {W(10)}, fraction : {0, 15, 16, 255}, lost : {<<0, 1>>, <<7, 255>>, <<8, 0>>},
             highest : {W(20)}, jitter : {Zero}, lsr : {W(200)}, delay : {Zero}]
MCReports == [ssrc : {W(10)}, ntp : {<<W(30), W(40)>>}, rtp : {W(50)}, packets : {Zero, W(60)},
              octets : {W(70)}, blocks : {<<>>} \union {<<b>> : b \in MCBlocks}]
MCStates == [report : MCReports, cname : Names, gpio : Masks, leaving : BOOLEAN]
=============================================================================
