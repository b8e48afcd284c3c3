---------------------------- MODULE FifoChannel ----------------------------
(***************************************************************************)
(* What the link layer of fabric.py promises to the boards on either side: *)
(* packets handed over in slices come out at the other end one at a time,  *)
(* each exactly once and in the order they went in.  Packets are           *)
(* numbered in the order Board.send hands them to the link layer.          *)
(***************************************************************************)
EXTENDS Naturals, Sequences

CONSTANTS NPackets,     \* how many packets the boards hand over
          SlicePackets  \* at most this many go in with one call

VARIABLES submitted,    \* packets 1..submitted have gone in
          delivered     \* the packets that have come out, in order

ChannelInit == /\ submitted = 0
               /\ delivered = <<>>

\* One slice of a message goes in.
Submit == \E k \in 1..SlicePackets :
            /\ submitted + k <= NPackets
            /\ submitted' = submitted + k
            /\ UNCHANGED delivered

\* The oldest packet that has not come out comes out.
Deliver == /\ Len(delivered) < submitted
           /\ delivered' = Append(delivered, Len(delivered) + 1)
           /\ UNCHANGED submitted

ChannelNext == Submit \/ Deliver

ChannelVars == <<submitted, delivered>>

\* Every packet that went in comes out, as long as the boards keep running.
ChannelSpec == /\ ChannelInit /\ [][ChannelNext]_ChannelVars
               /\ WF_ChannelVars(Deliver)
=============================================================================
