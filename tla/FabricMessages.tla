--------------------------- MODULE FabricMessages ---------------------------
(***************************************************************************)
(* Messages between the boards of fabric.py, over the channels its link    *)
(* layer makes (FifoChannel): Board.send takes turns at its board's DMA    *)
(* engine slice by slice, so the packets of messages sent at once are      *)
(* mixed; the receiving end puts them together by tag, and gives each      *)
(* message to the recv that waits for it or keeps it until one comes.      *)
(*                                                                         *)
(* A message stands for its source, destination and tag: none is used      *)
(* twice (collectives.py numbers operations, directions and steps).        *)
(***************************************************************************)
EXTENDS Naturals, SequencesExt

CONSTANTS Msgs,            \* messages
          Src, Dst,        \* Src[m], Dst[m]: the boards m goes between
          Size,            \* Size[m]: its packets, tot
          PacketsPerSlice  \* those of a DMA slice: DMA_SLICE / PAYLOAD

Boards == {Src[m] : m \in Msgs} \cup {Dst[m] : m \in Msgs}
Pairs  == {<<Src[m], Dst[m]>> : m \in Msgs}

ASSUME MessageAssumption ==
  /\ Size \in [Msgs -> Nat \ {0}] /\ PacketsPerSlice \in Nat \ {0}
  /\ DOMAIN Src = Msgs /\ DOMAIN Dst = Msgs

VARIABLES
  idx,      \* packets of each message handed to the link layer so far
  dma,      \* each board's DMA engine: its user, and the sends in its queue
  channel,  \* each channel: packets handed over and not yet delivered
  reasm,    \* each message's reassembly: what is in its slots, and the count
  mailbox,  \* messages complete before their recv
  waiting,  \* recvs before their message is complete
  got       \* what each recv returned

messagesVars == <<idx, dma, channel, reasm, mailbox, waiting, got>>

Missing == <<>>   \* None

MessagesInit ==
  /\ idx = [m \in Msgs |-> 0]
  /\ dma = [b \in Boards |-> <<>>]
  /\ channel = [c \in Pairs |-> <<>>]
  /\ reasm = [m \in Msgs |-> [slots |-> [i \in 1..Size[m] |-> Missing], n |-> 0]]
  /\ mailbox = {} /\ waiting = {}
  /\ got = [m \in Msgs |-> Missing]

-----------------------------------------------------------------------------

\* Board.send begins: it asks for the DMA engine.
Start(m) ==
  /\ idx[m] = 0 /\ ~Contains(dma[Src[m]], m)
  /\ dma' = [dma EXCEPT ![Src[m]] = Append(@, m)]
  /\ UNCHANGED <<idx, channel, reasm, mailbox, waiting, got>>

\* MUTANT: a slice's packets are numbered from its own beginning.
NumberedParts_InSlice(m, k) == [i \in 1..k |-> [msg |-> m, idx |-> i, data |-> idx[m] + i]]

\* The packets of m's next slice.
SliceSize(m) == IF Size[m] - idx[m] < PacketsPerSlice THEN Size[m] - idx[m]
                                                      ELSE PacketsPerSlice

\* The next k packets of m: the payload of packet i is part i of the message.
NumberedParts(m, k) == [i \in 1..k |-> [msg |-> m, idx |-> idx[m] + i, data |-> idx[m] + i]]

\* release: the engine goes to the next in the queue; a send with slices left
\* asks again, behind those.
Released(b, more) == IF more THEN Append(Tail(dma[b]), Head(dma[b]))
                             ELSE Tail(dma[b])

\* The engine has moved a slice of its user: its packets go to the link layer.
Slice(b) ==
  /\ dma[b] # <<>>
  /\ LET m == Head(dma[b])
         k == SliceSize(m) IN
     /\ channel' = [channel EXCEPT ![<<b, Dst[m]>>] = @ \o NumberedParts(m, k)]
     /\ idx' = [idx EXCEPT ![m] = @ + k]
     /\ dma' = [dma EXCEPT ![b] = Released(b, idx[m] + k < Size[m])]
  /\ UNCHANGED <<reasm, mailbox, waiting, got>>

\* The last slot is filled.
Complete(m, e) == e.n = Size[m]

\* No recv waits for m: it is kept.
Kept(m) == m \notin waiting

\* The channel delivers a packet and it is put in its slot; if its message is
\* complete the recv that waits for it returns, or it is kept.
Deliver(c) ==
  /\ channel[c] # <<>>
  /\ channel' = [channel EXCEPT ![c] = Tail(@)]
  /\ LET p == Head(channel[c])
         m == p.msg
         e == [slots |-> [reasm[m].slots EXCEPT ![p.idx] = <<m, p.data>>],
               n |-> reasm[m].n + 1] IN
     /\ reasm' = [reasm EXCEPT ![m] = e]
     /\ IF ~Complete(m, e) THEN UNCHANGED <<mailbox, waiting, got>>
        ELSE IF Kept(m)
          THEN mailbox' = mailbox \cup {m} /\ UNCHANGED <<waiting, got>>
          ELSE /\ waiting' = waiting \ {m} /\ UNCHANGED mailbox
               /\ got' = [got EXCEPT ![m] = e.slots]
  /\ UNCHANGED <<idx, dma>>

\* MUTANT: a message that came first is not looked for.
Here_Never(m) == FALSE

Here(m) == m \in mailbox

\* Board.recv: the message is there, or its recv waits.
Recv(m) ==
  /\ m \notin waiting /\ got[m] = Missing
  /\ IF Here(m)
       THEN /\ mailbox' = mailbox \ {m} /\ got' = [got EXCEPT ![m] = reasm[m].slots]
            /\ UNCHANGED waiting
       ELSE waiting' = waiting \cup {m} /\ UNCHANGED <<mailbox, got>>
  /\ UNCHANGED <<idx, dma, channel, reasm>>

AllReceived == (\A m \in Msgs : got[m] # Missing) /\ UNCHANGED messagesVars

MessagesNext == \/ \E m \in Msgs : Start(m) \/ Recv(m)
                \/ \E b \in Boards : Slice(b)
                \/ \E c \in Pairs : Deliver(c)
                \/ AllReceived

MessagesSpec == MessagesInit /\ [][MessagesNext]_messagesVars

\* The simulation runs every event that is scheduled: the DMA engines and the
\* channels go on.  When a board sends or asks is the boards' own affair.
MessagesFairSpec == /\ MessagesSpec
                    /\ \A b \in Boards : WF_messagesVars(Slice(b))
                    /\ \A c \in Pairs : WF_messagesVars(Deliver(c))

-----------------------------------------------------------------------------
(* Properties *)

\* Types of the boards' state.
MessagesTypeOK ==
  /\ \A m \in Msgs : /\ idx[m] \in 0..Size[m] /\ reasm[m].n \in 0..Size[m]
                     /\ DOMAIN reasm[m].slots = 1..Size[m]
  /\ \A b \in Boards : dma[b] \in Seq(Msgs)
  /\ mailbox \subseteq Msgs /\ waiting \subseteq Msgs

\* A recv returns all the parts of its message, each in its place, though the
\* packets of several messages came mixed.
MessagesWhole ==
  \A m \in Msgs : got[m] # Missing => got[m] = [i \in 1..Size[m] |-> <<m, i>>]

\* No message is kept while its recv waits for it: nobody would hand it over.
NobodyWaitsInVain ==
  /\ mailbox \cap waiting = {}
  /\ \A m \in Msgs : reasm[m].n = Size[m] => m \in mailbox \/ got[m] # Missing

\* The engine is shared slice by slice: of two sends that have begun and not
\* ended, one gets no second slice while the other waits for one.
TurnsAreFair ==
  [][\A b \in Boards : \A m, w \in ToSet(dma[b]) :
       m # w /\ idx'[m] > idx[m] /\ m \in ToSet(dma'[b])
         => Head(dma'[b]) # m]_messagesVars

Mail == INSTANCE TaggedMail
          WITH sent <- {m \in Msgs : idx[m] = Size[m]},
               asked <- {m \in Msgs : m \in waiting \/ got[m] # Missing},
               received <- {m \in Msgs : got[m] # Missing}

\* The boards' messages implement tagged mail, and a message that was sent
\* and asked for is received.
ImplementsFairMail == Mail!MailSpec
=============================================================================
