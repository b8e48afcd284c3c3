----------------------------- MODULE FabricLink -----------------------------
(***************************************************************************)
(* The link layer of the fabric simulator (fabric.py, classes _Tx, _Rx and *)
(* Link): a go-back-N sender with a credit pool, and a receiver whose      *)
(* bounded buffer is drained through the board's DMA.  One direction of    *)
(* one connection is modelled.  The links are FIFO and lose nothing;       *)
(* DATA packets may be corrupted, acknowledgements and credits never are.  *)
(* DATA of the other direction shares the reverse link and only delays     *)
(* what this module sends there, so it is left out, like simulated time:   *)
(* a retransmission timer may fire whenever it is armed.                   *)
(***************************************************************************)
EXTENDS Integers, Sequences, FiniteSets

CONSTANTS WINDOW,        \* unacknowledged packets the sender may have
          RX_CAP,        \* slots of the receive buffer, and the credit pool
          SlicePackets,  \* packets of one DMA slice, handed over together
          NPackets,      \* bound: packets the sending board hands over
          MaxWire        \* bound: packets a timeout may leave on the two links

ASSUME LinkAssumption == /\ WINDOW \in Nat \ {0}
                         /\ RX_CAP \in Nat \ {0}
                         /\ SlicePackets \in Nat \ {0}
                         /\ NPackets \in Nat
                         /\ MaxWire \in Nat

VARIABLES
  \* _Tx
  q,          \* packets not sent yet, by number
  inflight,   \* packets sent and not acknowledged: [seq, id]
  nextSeq,    \* the next sequence number
  credits,    \* receive slots the sender may still use
  armed,      \* a pending timeout event carries the current timer number
  \* the two links
  wire,       \* DATA packets on the way to the receiver
  back,       \* ACK and CRED packets on the way back
  \* _Rx
  rxNext,     \* the sequence number the receiver takes next
  buf,        \* packets accepted and not yet drained
  drain,      \* where the drain process is: started, parked, woken or moving
  hand,       \* the packet the drain process is moving through the DMA
  overflow,   \* a packet was dropped because the buffer was full
  \* history: the two ends of the channel
  submitted,  \* packets handed to the sender so far
  delivered   \* packets handed to reassembly, in order

txVars   == <<q, inflight, nextSeq, credits, armed>>
rxVars   == <<rxNext, buf, drain, hand, overflow>>
vars     == <<txVars, wire, back, rxVars, submitted, delivered>>

Packet  == [seq : Nat, id : Nat]
Control == [kind : {"ACK"}, n : Int] \cup [kind : {"CRED"}, n : {1}]

Ack(s) == [kind |-> "ACK",  n |-> s]
Cred_Pair == [kind |-> "CRED", n |-> 2]   \* mutant: two for one slot
Cred   == [kind |-> "CRED", n |-> 1]

Init == /\ q = <<>> /\ inflight = <<>> /\ nextSeq = 0
        /\ credits = RX_CAP /\ armed = FALSE
        /\ wire = <<>> /\ back = <<>>
        /\ rxNext = 0 /\ buf = <<>> /\ drain = "started" /\ hand = <<>>
        /\ overflow = FALSE
        /\ submitted = 0 /\ delivered = <<>>

-----------------------------------------------------------------------------
(* The sender *)

\* How many of the packets in Q the loop of pump sends on top of the
\* unacknowledged packets I with C credits: as many as both limits allow.
Sends(n, Q, I, C) ==
  /\ n > 0 => Len(I) + n <= WINDOW /\ n <= C
  /\ n < Len(Q) => Len(I) + n >= WINDOW \/ n = C

\* The first n packets of Q with the sequence numbers they are given.
Numbered(n, Q) == [i \in 1..n |-> [seq |-> nextSeq + i - 1, id |-> Q[i]]]

\* Send from queue Q while the window and the credits allow; the timer is
\* armed again if anything went out.
Pump(Q, I, C, timer) ==
  \E n \in 0..Len(Q) :
    LET new == Numbered(n, Q) IN
    /\ Sends(n, Q, I, C)
    /\ q' = SubSeq(Q, n + 1, Len(Q))
    /\ inflight' = I \o new
    /\ wire' = wire \o new
    /\ nextSeq' = nextSeq + n
    /\ credits' = C - n
    /\ armed' = (timer \/ n > 0)

\* Board.send hands over the packets of one DMA slice.
Enqueue ==
  \E k \in 1..SlicePackets :
    /\ submitted + k <= NPackets
    /\ Pump(q \o [i \in 1..k |-> submitted + i], inflight, credits, armed)
    /\ submitted' = submitted + k
    /\ UNCHANGED <<back, rxVars, delivered>>

\* Whether the timer runs on once an acknowledgement has left `rest`.
TimerAfter(rest) == rest # <<>>

\* A cumulative acknowledgement arrives: the packets it covers leave the
\* window from its head, k of them.  With none left the timer is cancelled;
\* an acknowledgement that covers none changes nothing.
OnAck ==
  /\ back # <<>> /\ Head(back).kind = "ACK"
  /\ back' = Tail(back)
  /\ \E k \in 0..Len(inflight) :
       LET rest == SubSeq(inflight, k + 1, Len(inflight)) IN
       /\ \A i \in 1..k : inflight[i].seq <= Head(back).n
       /\ k < Len(inflight) => inflight[k + 1].seq > Head(back).n
       /\ IF k = 0
            THEN UNCHANGED <<txVars, wire>>
            ELSE Pump(q, rest, credits, TimerAfter(rest))
  /\ UNCHANGED <<rxVars, submitted, delivered>>

\* Credits come back.
OnCred ==
  /\ back # <<>> /\ Head(back).kind = "CRED"
  /\ back' = Tail(back)
  /\ Pump(q, inflight, credits + Head(back).n, armed)
  /\ UNCHANGED <<rxVars, submitted, delivered>>

Resent_Newest == <<inflight[Len(inflight)]>> \* mutant: only the newest
Resent == inflight

\* The timer fires: everything in flight is sent again, at no credit cost.
Timeout ==
  /\ armed /\ inflight # <<>>
  /\ Len(wire) + Len(inflight) + Len(back) <= MaxWire
  /\ wire' = wire \o Resent
  /\ UNCHANGED <<txVars, back, rxVars, submitted, delivered>>

-----------------------------------------------------------------------------
(* The receiver *)

\* The packet that is due next, and what the arrival of one does to the drain
\* process.
Due_Ahead(p) == p.seq >= rxNext  \* mutant: a gap is accepted
Due(p) == p.seq = rxNext

Kick(d) == IF d = "parked" THEN "woken" ELSE d

\* A DATA packet arrives damaged: the CRC check drops it (a CRC32 sees every
\* single-bit flip) and the last accepted packet is acknowledged again.
RxCorrupt_AckNext ==             \* mutant: acknowledges the packet it lacks
  /\ wire # <<>>
  /\ wire' = Tail(wire)
  /\ back' = Append(back, Ack(rxNext))
  /\ UNCHANGED <<txVars, rxVars, submitted, delivered>>
RxCorrupt ==
  /\ wire # <<>>
  /\ wire' = Tail(wire)
  /\ back' = Append(back, Ack(rxNext - 1))
  /\ UNCHANGED <<txVars, rxVars, submitted, delivered>>

\* A packet out of sequence is dropped in the same way.
RxOutOfSequence_Credit ==        \* mutant: a dropped packet returns a credit
  /\ wire # <<>> /\ ~Due(Head(wire))
  /\ wire' = Tail(wire)
  /\ back' = back \o <<Ack(rxNext - 1), Cred>>
  /\ UNCHANGED <<txVars, rxVars, submitted, delivered>>
RxOutOfSequence ==
  /\ wire # <<>> /\ ~Due(Head(wire))
  /\ wire' = Tail(wire)
  /\ back' = Append(back, Ack(rxNext - 1))
  /\ UNCHANGED <<txVars, rxVars, submitted, delivered>>

\* The packet due next: kept and acknowledged, and a parked drain process is
\* woken; or, with the buffer full, dropped without an acknowledgement.
RxInSequence ==
  /\ wire # <<>> /\ Due(Head(wire))
  /\ wire' = Tail(wire)
  /\ IF Len(buf) >= RX_CAP
       THEN /\ overflow' = TRUE
            /\ UNCHANGED <<back, rxNext, buf, drain>>
       ELSE /\ rxNext' = rxNext + 1
            /\ buf' = Append(buf, Head(wire).id)
            /\ back' = Append(back, Ack(Head(wire).seq))
            /\ drain' = Kick(drain)
            /\ UNCHANGED overflow
  /\ UNCHANGED <<txVars, hand, submitted, delivered>>

\* The head of the drain loop: take the oldest packet, or park until a
\* packet arrives.
DrainLoop ==
  IF buf = <<>>
    THEN /\ drain' = "parked" /\ hand' = <<>>
         /\ UNCHANGED buf
    ELSE /\ drain' = "moving" /\ hand' = <<Head(buf)>>
         /\ buf' = Tail(buf)

\* The drain process starts, or resumes after it was woken.
DrainResume ==
  /\ drain \in {"started", "woken"}
  /\ DrainLoop
  /\ UNCHANGED <<txVars, wire, back, rxNext, overflow, submitted, delivered>>

\* The DMA has moved the packet: its slot is returned as one credit, the
\* packet goes to reassembly, and the loop goes round.
DrainDone ==
  /\ drain = "moving"
  /\ back' = Append(back, Cred)
  /\ delivered' = delivered \o hand
  /\ DrainLoop
  /\ UNCHANGED <<txVars, wire, rxNext, overflow, submitted>>

-----------------------------------------------------------------------------

\* Sim.run returns when no event is left.
Finished ==
  /\ submitted = NPackets /\ Len(delivered) = NPackets
  /\ inflight = <<>> /\ wire = <<>> /\ back = <<>> /\ ~armed
  /\ drain = "parked"
  /\ UNCHANGED vars

Next == \/ Enqueue \/ OnAck \/ OnCred \/ Timeout
        \/ RxCorrupt \/ RxOutOfSequence \/ RxInSequence
        \/ DrainResume \/ DrainDone
        \/ Finished

Spec == Init /\ [][Next]_vars

\* The simulator runs every event it has queued, and a packet is corrupted
\* by an independent draw: a packet sent again and again gets through.
Fairness == /\ WF_vars(OnAck) /\ WF_vars(OnCred) /\ WF_vars(Timeout)
            /\ WF_vars(RxCorrupt \/ RxOutOfSequence \/ RxInSequence)
            /\ SF_vars(RxInSequence)
            /\ WF_vars(DrainResume) /\ WF_vars(DrainDone)

FairSpec == Spec /\ Fairness

-----------------------------------------------------------------------------
(* Properties *)

\* Types of the link's state.
TypeOK ==
  /\ q \in Seq(Nat) /\ inflight \in Seq(Packet)
  /\ nextSeq \in Nat /\ credits \in Nat /\ armed \in BOOLEAN
  /\ wire \in Seq(Packet) /\ back \in Seq(Control)
  /\ rxNext \in Nat /\ buf \in Seq(Nat) /\ hand \in Seq(Nat)
  /\ drain \in {"started", "parked", "woken", "moving"}
  /\ overflow \in BOOLEAN
  /\ submitted \in Nat /\ delivered \in Seq(Nat)

\* "Overflow impossible by construction": _Rx never reaches the branch that
\* drops a packet for want of a slot, whatever is retransmitted.
NoOverflow == ~overflow

CredIdx(s) == {i \in 1..Len(s) : s[i].kind = "CRED"}

\* Every slot of the pool is in exactly one place: a credit at the sender, a
\* credit on its way back, a packet being drained, a packet in the buffer,
\* or a packet sent and not yet accepted.  A retransmission takes no slot.
CreditsConserved ==
  credits + Cardinality(CredIdx(back)) + Len(hand) + Len(buf)
    + (nextSeq - rxNext) = RX_CAP

\* The window holds consecutive numbers up to the last one sent, it starts
\* no later than what the receiver expects, so go-back-N resends every
\* packet the receiver lacks; no acknowledgement runs ahead of the receiver.
WindowAgreement ==
  /\ Len(inflight) <= WINDOW
  /\ \A i \in 1..Len(inflight) :
       inflight[i].seq = nextSeq - Len(inflight) + i - 1
  /\ nextSeq - Len(inflight) <= rxNext /\ rxNext <= nextSeq
  /\ \A i \in 1..Len(back) :
       back[i].kind = "ACK" => back[i].n < rxNext

\* A packet in flight always has a live timer behind it, and the timer of an
\* empty window is always cancelled (_arm, on_ack and the generation check
\* in _timeout): no packet can be forgotten.
TimerCoversWindow == armed <=> inflight # <<>>

\* The drain process parks only while the buffer is empty: no wake-up of
\* Rx.on_data is lost.
NoLostWakeup == drain = "parked" => buf = <<>>

\* A packet keeps its place in line all the way: the k-th packet submitted
\* gets sequence number k-1 when it is first sent, carries it in every copy,
\* and nothing is ahead of its turn in the queue, the buffer or the DMA.
OneNumbering ==
  /\ submitted = nextSeq + Len(q)
  /\ \A i \in 1..Len(q) : q[i] = nextSeq + i
  /\ \A i \in 1..Len(inflight) : inflight[i].id = inflight[i].seq + 1
  /\ \A i \in 1..Len(wire) : /\ wire[i].seq < nextSeq
                             /\ wire[i].id = wire[i].seq + 1
  /\ Len(hand) = IF drain = "moving" THEN 1 ELSE 0
  /\ rxNext = Len(delivered) + Len(hand) + Len(buf)
  /\ \A i \in 1..Len(hand) : hand[i] = Len(delivered) + i
  /\ \A i \in 1..Len(buf) : buf[i] = Len(delivered) + Len(hand) + i

\* Each packet is delivered once and in order, whatever is corrupted or
\* sent twice.
InOrderOnce == \A i \in 1..Len(delivered) : delivered[i] = i

\* The inductive invariant: what the properties above need of each other.
IInv == /\ TypeOK /\ NoOverflow /\ CreditsConserved /\ WindowAgreement
        /\ TimerCoversWindow /\ NoLostWakeup /\ OneNumbering /\ InOrderOnce

Channel == INSTANCE FifoChannel

\* The link layer implements the FIFO channel.
ImplementsChannel == Channel!ChannelInit
                     /\ [][Channel!ChannelNext]_Channel!ChannelVars

\* ... and every packet submitted is delivered.
ImplementsFairChannel == Channel!ChannelSpec

=============================================================================
