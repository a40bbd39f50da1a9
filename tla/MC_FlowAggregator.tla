-------------------------- MODULE MC_FlowAggregator --------------------------
(***************************************************************************)
(* Instances of FlowAggregator for TLC, in ticks of 100 ms.  The upload    *)
(* and the script each read two kinds of captures: two flows, with windows *)
(* of three packets, and one flow with windows of six, the least a beacon  *)
(* needs.  The timeouts are the code's 10 s and 5 s.                       *)
(***************************************************************************)
EXTENDS FlowAggregator

CONSTANTS f1, f2, up3, up6, re3, re6

MCTimeout    == [u \in Source |-> IF u \in Upload THEN 100 ELSE 50]
MCMaxPackets == [u \in Source |-> IF u \in {up3, re3} THEN 3 ELSE 6]

\* The second flow has the larger packets.
MCSize == f1 :> 100 @@ f2 :> 1000

\* Records out of order, in step, and after a silence longer than either timeout.
MixedGaps  == {-10, 40, 110}
\* Two periods whose alternation is more than a quarter of their mean.
BeaconGaps == {10, 20}
MCGap      == MixedGaps \cup BeaconGaps

Plain    == [flags |-> {"ACK"}, ttl |-> 64]
Assorted == {[flags |-> {"SYN"}, ttl |-> 64], [flags |-> {"ACK"}, ttl |-> 63],
             [flags |-> {"ACK", "FIN", "PSH", "URG"}, ttl |-> 128]}
MCHeader == Assorted \cup {Plain}

MCRecord == [u \in Source |-> IF u \in {up3, re3} THEN Flow \X {Plain} \X MixedGaps
                                                  ELSE {f1} \X Assorted \X BeaconGaps]
=============================================================================
