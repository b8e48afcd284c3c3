---------------------------- MODULE FabricProofs ----------------------------
(***************************************************************************)
(* Proofs about the two layers of fabric.py and the ring on top of them.   *)
(*                                                                         *)
(* The link layer (FabricLink), for every window, credit pool, slice size  *)
(* and number of packets: IInv of FabricLink is shown inductive; the       *)
(* invariants and the refinement of FifoChannel follow from it.            *)
(*                                                                         *)
(* The boards' messages (FabricMessages), for any messages, of any sizes,  *)
(* between any boards, and any slice: MessagesIInv, below, is shown        *)
(* inductive; what a recv returns, the engine's turns and the refinement   *)
(* of TaggedMail follow from it.                                           *)
(*                                                                         *)
(* The ring all-reduce (RingAllReduce), over any number of boards,         *)
(* elements and operations: RingIInv, below, is shown inductive; the sums  *)
(* and the refinement of SumRendezvous follow from it.                     *)
(***************************************************************************)
EXTENDS FabricLink, FabricMessages, RingAllReduce, SequenceTheorems, FiniteSetTheorems,
        WellFoundedInduction, TLAPS

-----------------------------------------------------------------------------
(* Sequences written as functions. *)

\* A function on 1..n is a sequence of length n.
LEMMA FunctionIsSeq ==
  ASSUME NEW S, NEW n \in Nat, NEW f \in [1..n -> S]
  PROVE  f \in Seq(S) /\ Len(f) = n
<1>1. f \in Seq(S)
  BY SeqDef
<1>2. Len(f) \in Nat /\ 1..Len(f) = 1..n
  BY <1>1, LenProperties
<1>3. ASSUME NEW a \in Nat PROVE Cardinality(1..a) = a
  BY FS_Interval
<1> QED BY <1>1, <1>2, <1>3

-----------------------------------------------------------------------------
(* The credits on the reverse link, counted. *)

\* The credit positions of a sequence of control packets are finitely many.
LEMMA CredIdxFinite ==
  ASSUME NEW s \in Seq(Control)
  PROVE  IsFiniteSet(CredIdx(s)) /\ Cardinality(CredIdx(s)) \in Nat
<1>1. IsFiniteSet(1..Len(s))
  BY FS_Interval, LenProperties
<1>2. CredIdx(s) \in SUBSET (1..Len(s))
  BY DEF CredIdx
<1> QED BY <1>1, <1>2, FS_Subset, FS_CardinalityType

\* An acknowledgement sent leaves the count alone; a credit raises it by one.
LEMMA CredAppend ==
  ASSUME NEW s \in Seq(Control), NEW c \in Control
  PROVE  Cardinality(CredIdx(Append(s, c))) =
           Cardinality(CredIdx(s)) + (IF c.kind = "CRED" THEN 1 ELSE 0)
<1>0. Len(s) \in Nat
  BY LenProperties
<1>1. CASE c.kind = "CRED"
  <2>1. CredIdx(Append(s, c)) = CredIdx(s) \cup {Len(s) + 1}
    BY <1>0, <1>1, AppendProperties DEF CredIdx
  <2>2. Len(s) + 1 \notin CredIdx(s)
    BY <1>0 DEF CredIdx
  <2> QED BY <1>1, <2>1, <2>2, CredIdxFinite, FS_AddElement
<1>2. CASE c.kind # "CRED"
  <2>1. CredIdx(Append(s, c)) = CredIdx(s)
    BY <1>0, <1>2, AppendProperties DEF CredIdx
  <2> QED BY <1>2, <2>1, CredIdxFinite
<1> QED BY <1>1, <1>2

\* Taking the head away shifts the positions by one.
LEMMA CredTail ==
  ASSUME NEW s \in Seq(Control), s # <<>>
  PROVE  Cardinality(CredIdx(s)) =
           Cardinality(CredIdx(Tail(s)))
             + (IF Head(s).kind = "CRED" THEN 1 ELSE 0)
<1> DEFINE T == CredIdx(Tail(s))
           S == CredIdx(s) \ {1}
           f == [i \in T |-> i + 1]
<1>0. /\ Tail(s) \in Seq(Control) /\ Len(s) \in Nat \ {0}
      /\ Len(Tail(s)) = Len(s) - 1 /\ Head(s) = s[1]
      /\ \A i \in 1..Len(Tail(s)) : Tail(s)[i] = s[i + 1]
  BY HeadTailProperties, EmptySeq
<1>1. f \in [T -> S]
  BY <1>0 DEF CredIdx
<1>2. \A i, j \in T : f[i] = f[j] => i = j
  BY <1>0 DEF CredIdx
<1>3. \A k \in S : \E i \in T : f[i] = k
  <2> TAKE k \in S
  <2>1. k - 1 \in T /\ k \in Int
    BY <1>0 DEF CredIdx
  <2>2. f[k - 1] = k
    BY <2>1
  <2> QED BY <2>1, <2>2
<1>4. ExistsBijection(T, S)
  <2>1. f \in Injection(T, S)
    BY <1>1, <1>2 DEF Injection, IsInjective
  <2>2. f \in Surjection(T, S)
    BY <1>1, <1>3 DEF Surjection
  <2> QED BY <2>1, <2>2 DEF ExistsBijection, Bijection
<1>5. Cardinality(S) = Cardinality(T)
  BY <1>0, <1>4, CredIdxFinite, FS_Bijection
<1>6. 1 \in CredIdx(s) <=> Head(s).kind = "CRED"
  BY <1>0 DEF CredIdx
<1>7. Cardinality(S) = IF 1 \in CredIdx(s) THEN Cardinality(CredIdx(s)) - 1
                                         ELSE Cardinality(CredIdx(s))
  BY CredIdxFinite, FS_RemoveElement
<1> QED BY <1>0, <1>5, <1>6, <1>7, CredIdxFinite

-----------------------------------------------------------------------------
(* What one call of pump does to the numbering, the window and the pool. *)

LEMMA PumpStep ==
  ASSUME nextSeq \in Nat, wire \in Seq(Packet),
         \A i \in 1..Len(wire) : /\ wire[i].seq < nextSeq
                                 /\ wire[i].id = wire[i].seq + 1,
         NEW Q \in Seq(Nat), NEW I \in Seq(Packet), NEW C \in Nat,
         NEW T \in BOOLEAN,
         \A i \in 1..Len(Q) : Q[i] = nextSeq + i,
         Len(I) <= WINDOW,
         \A i \in 1..Len(I) : /\ I[i].seq = nextSeq - Len(I) + i - 1
                              /\ I[i].id = I[i].seq + 1,
         Pump(Q, I, C, T)
  PROVE  /\ q' \in Seq(Nat) /\ inflight' \in Seq(Packet)
         /\ wire' \in Seq(Packet)
         /\ nextSeq' \in Nat /\ nextSeq' >= nextSeq
         /\ credits' \in Nat /\ credits' = C - (nextSeq' - nextSeq)
         /\ armed' = (T \/ nextSeq' > nextSeq)
         /\ nextSeq' + Len(q') = nextSeq + Len(Q)
         /\ \A i \in 1..Len(q') : q'[i] = nextSeq' + i
         /\ Len(inflight') = Len(I) + (nextSeq' - nextSeq)
         /\ Len(inflight') <= WINDOW
         /\ \A i \in 1..Len(inflight') :
              /\ inflight'[i].seq = nextSeq' - Len(inflight') + i - 1
              /\ inflight'[i].id = inflight'[i].seq + 1
         /\ \A i \in 1..Len(wire') : /\ wire'[i].seq < nextSeq'
                                     /\ wire'[i].id = wire'[i].seq + 1
<1>0. Len(Q) \in Nat /\ Len(I) \in Nat /\ Len(wire) \in Nat
  BY LenProperties
<1>1. PICK n \in 0..Len(Q) :
        LET new == [i \in 1..n |-> [seq |-> nextSeq + i - 1, id |-> Q[i]]] IN
        /\ n > 0 => /\ Len(I) + n <= WINDOW
                    /\ n <= C
        /\ q' = SubSeq(Q, n + 1, Len(Q))
        /\ inflight' = I \o new
        /\ wire' = wire \o new
        /\ nextSeq' = nextSeq + n
        /\ credits' = C - n
        /\ armed' = (T \/ n > 0)
  BY DEF Pump, Sends, Numbered
<1> DEFINE new == [i \in 1..n |-> [seq |-> nextSeq + i - 1, id |-> Q[i]]]
<1>2. new \in Seq(Packet) /\ Len(new) = n
  <2>1. n \in Nat
    BY <1>0
  <2>2. \A i \in 1..n : [seq |-> nextSeq + i - 1, id |-> Q[i]] \in Packet
    <3> TAKE i \in 1..n
    <3>1. Q[i] \in Nat
      BY <1>0, ElementOfSeq
    <3> QED BY <3>1, <2>1 DEF Packet
  <2>3. new \in [1..n -> Packet]
    BY <2>2
  <2> QED BY <2>1, <2>3, FunctionIsSeq
<1>3. \A i \in 1..n : /\ new[i].seq = nextSeq + i - 1
                      /\ new[i].id = new[i].seq + 1
  <2> TAKE i \in 1..n
  <2>0. i \in 1..Len(Q)
    BY <1>0
  <2>1. Q[i] = nextSeq + i
    BY <2>0
  <2>2. new[i] = [seq |-> nextSeq + i - 1, id |-> Q[i]]
    OBVIOUS
  <2> QED BY <2>1, <2>2, <1>0
<1> HIDE DEF new
<1>4. /\ q' \in Seq(Nat) /\ Len(q') = Len(Q) - n
      /\ \A i \in 1..Len(q') : q'[i] = Q[n + i]
  <2>1. \A i \in (n + 1)..Len(Q) : Q[i] \in Nat
    BY <1>0, ElementOfSeq
  <2>2. q' = SubSeq(Q, n + 1, Len(Q))
    BY <1>1
  <2>3. /\ SubSeq(Q, n + 1, Len(Q)) \in Seq(Nat)
        /\ Len(SubSeq(Q, n + 1, Len(Q))) =
             IF n + 1 <= Len(Q) THEN Len(Q) - (n + 1) + 1 ELSE 0
        /\ \A i \in 1..(Len(Q) - (n + 1) + 1) :
             SubSeq(Q, n + 1, Len(Q))[i] = Q[(n + 1) + i - 1]
    BY <1>0, <2>1, SubSeqProperties
  <2>4. Len(q') = Len(Q) - n
    BY <1>0, <2>2, <2>3
  <2>5. ASSUME NEW i \in 1..Len(q')
        PROVE  q'[i] = Q[n + i]
    <3>1. i \in 1..(Len(Q) - (n + 1) + 1) /\ (n + 1) + i - 1 = n + i
      BY <1>0, <2>4
    <3>2. q'[i] = Q[(n + 1) + i - 1]
      BY <2>2, <2>3, <3>1
    <3> QED BY <3>1, <3>2
  <2> QED BY <2>2, <2>3, <2>4, <2>5
<1>5. /\ inflight' \in Seq(Packet) /\ Len(inflight') = Len(I) + n
      /\ \A i \in 1..Len(inflight') :
           inflight'[i] = IF i <= Len(I) THEN I[i] ELSE new[i - Len(I)]
  <2>1. inflight' = I \o new
    BY <1>1 DEF new
  <2>2. /\ I \o new \in Seq(Packet)
        /\ Len(I \o new) = Len(I) + Len(new)
        /\ \A i \in 1..(Len(I) + Len(new)) :
             (I \o new)[i] = IF i <= Len(I) THEN I[i] ELSE new[i - Len(I)]
    BY <1>2, ConcatProperties
  <2> QED BY <2>1, <2>2, <1>2
<1>6. /\ wire' \in Seq(Packet) /\ Len(wire') = Len(wire) + n
      /\ \A i \in 1..Len(wire') :
           wire'[i] = IF i <= Len(wire) THEN wire[i] ELSE new[i - Len(wire)]
  <2>1. wire' = wire \o new
    BY <1>1 DEF new
  <2>2. /\ wire \o new \in Seq(Packet)
        /\ Len(wire \o new) = Len(wire) + Len(new)
        /\ \A i \in 1..(Len(wire) + Len(new)) :
             (wire \o new)[i] = IF i <= Len(wire) THEN wire[i] ELSE new[i - Len(wire)]
    BY <1>2, ConcatProperties
  <2> QED BY <2>1, <2>2, <1>2
<1>7. /\ nextSeq' = nextSeq + n /\ credits' = C - n /\ credits' \in Nat
      /\ armed' = (T \/ n > 0) /\ nextSeq' \in Nat
      /\ Len(I) + n <= WINDOW
  BY <1>0, <1>1, LinkAssumption DEF LinkAssumption
<1>8. \A i \in 1..Len(q') : q'[i] = nextSeq' + i
  <2> TAKE i \in 1..Len(q')
  <2>0. Len(q') = Len(Q) - n
    BY <1>4, Zenon
  <2>1. n + i \in 1..Len(Q) /\ q'[i] = Q[n + i]
    <3>1. n + i \in 1..Len(Q)
      BY <1>0, <2>0
    <3> QED BY <3>1, <1>4, Zenon
  <2>2. Q[n + i] = nextSeq + (n + i)
    BY <2>1
  <2> QED BY <1>0, <1>7, <2>1, <2>2
<1>9. \A i \in 1..Len(inflight') :
        /\ inflight'[i].seq = nextSeq' - Len(inflight') + i - 1
        /\ inflight'[i].id = inflight'[i].seq + 1
  <2> TAKE i \in 1..Len(inflight')
  <2>0. Len(inflight') = Len(I) + n
    BY <1>5
  <2>1. CASE i <= Len(I)
    <3>1. inflight'[i] = I[i] /\ i \in 1..Len(I)
      BY <1>0, <1>5, <2>1
    <3>2. I[i].seq = nextSeq - Len(I) + i - 1 /\ I[i].id = I[i].seq + 1
      BY <3>1
    <3> QED BY <3>1, <3>2, <2>0, <1>7, <1>0
  <2>2. CASE i > Len(I)
    <3>1. i - Len(I) \in 1..n
      BY <1>0, <2>0, <2>2
    <3>2. inflight'[i] = new[i - Len(I)]
      <4>1. i \in 1..(Len(I) + n) /\ ~(i <= Len(I))
        BY <1>0, <2>0, <2>2
      <4> QED BY <1>5, <4>1, Zenon
    <3>3. /\ new[i - Len(I)].seq = nextSeq + (i - Len(I)) - 1
          /\ new[i - Len(I)].id = new[i - Len(I)].seq + 1
      BY <1>3, <3>1
    <3> QED BY <1>0, <1>7, <2>0, <3>2, <3>3
  <2> QED BY <1>0, <2>0, <2>1, <2>2
<1>10. \A i \in 1..Len(wire') : /\ wire'[i].seq < nextSeq'
                                /\ wire'[i].id = wire'[i].seq + 1
  <2> TAKE i \in 1..Len(wire')
  <2>0. Len(wire') = Len(wire) + n
    BY <1>6
  <2>1. CASE i <= Len(wire)
    <3>1. i \in 1..Len(wire)
      BY <1>0, <2>0, <2>1
    <3>5. wire'[i] = wire[i]
      BY <1>6, <2>1
    <3>2. wire[i] \in Packet
      BY <3>1, ElementOfSeq
    <3>3. wire[i].seq \in Nat
      BY <3>2 DEF Packet
    <3>4. wire[i].seq < nextSeq /\ wire[i].id = wire[i].seq + 1
      BY <3>1
    <3> QED BY <3>3, <3>4, <3>5, <1>7, <1>0
  <2>2. CASE i > Len(wire)
    <3>1. i - Len(wire) \in 1..n
      BY <1>0, <2>0, <2>2
    <3>2. wire'[i] = new[i - Len(wire)]
      BY <1>0, <1>6, <2>2
    <3>3. /\ new[i - Len(wire)].seq = nextSeq + (i - Len(wire)) - 1
          /\ new[i - Len(wire)].id = new[i - Len(wire)].seq + 1
      BY <1>3, <3>1
    <3> QED BY <1>0, <1>7, <3>1, <3>2, <3>3
  <2> QED BY <1>0, <2>0, <2>1, <2>2
<1> QED BY <1>0, <1>4, <1>5, <1>6, <1>7, <1>8, <1>9, <1>10

-----------------------------------------------------------------------------
(* The invariant, one lemma per action. *)

LEMMA InitIInv == Init => IInv
<1> SUFFICES ASSUME Init PROVE IInv
  OBVIOUS
<1>1. \A S : <<>> \in Seq(S) /\ Len(<<>>) = 0
  BY EmptySeq
<1>2. TypeOK
  BY <1>1, LinkAssumption DEF TypeOK, Init, LinkAssumption
<1>3. Cardinality(CredIdx(back)) = 0
  <2>1. CredIdx(back) = {}
    BY <1>1 DEF Init, CredIdx
  <2> QED BY <2>1, FS_EmptySet
<1>4. CreditsConserved
  BY <1>1, <1>3, LinkAssumption DEF CreditsConserved, Init, LinkAssumption
<1>5. WindowAgreement /\ OneNumbering /\ InOrderOnce
  BY <1>1, LinkAssumption
     DEF WindowAgreement, OneNumbering, InOrderOnce, Init, LinkAssumption
<1>6. NoOverflow /\ TimerCoversWindow /\ NoLostWakeup
  BY DEF NoOverflow, TimerCoversWindow, NoLostWakeup, Init
<1> QED BY <1>2, <1>4, <1>5, <1>6 DEF IInv

\* The lengths a step reasons about are natural numbers.
LEMMA Lengths ==
  ASSUME TypeOK
  PROVE  /\ Len(q) \in Nat /\ Len(inflight) \in Nat /\ Len(wire) \in Nat
         /\ Len(back) \in Nat /\ Len(buf) \in Nat /\ Len(hand) \in Nat
         /\ Len(delivered) \in Nat
         /\ Cardinality(CredIdx(back)) \in Nat
BY LenProperties, CredIdxFinite DEF TypeOK

\* A sequence is empty exactly when its length is zero.
LEMMA EmptyLen ==
  ASSUME NEW S, NEW s \in Seq(S)
  PROVE  s = <<>> <=> Len(s) = 0
BY EmptySeq

\* Packets numbered by a call of pump take their credits with them.
LEMMA PumpPool ==
  ASSUME TypeOK, CreditsConserved, NEW C \in Nat, nextSeq' \in Nat,
         credits' = C - (nextSeq' - nextSeq), UNCHANGED rxVars,
         Cardinality(CredIdx(back')) \in Nat,
         C + Cardinality(CredIdx(back')) =
           credits + Cardinality(CredIdx(back))
  PROVE  CreditsConserved'
<1> DEFINE k == Cardinality(CredIdx(back))
           h == Len(hand)
           b == Len(buf)
<1>1. /\ k \in Nat /\ h \in Nat /\ b \in Nat
      /\ nextSeq \in Nat /\ rxNext \in Nat /\ credits \in Nat
  BY Lengths DEF TypeOK
<1>2. Len(hand') = h /\ Len(buf') = b /\ rxNext' = rxNext
  BY DEF rxVars
<1>3. credits + k + h + b + (nextSeq - rxNext) = RX_CAP
  BY DEF CreditsConserved
<1> HIDE DEF h, b
<1>4. credits' + Cardinality(CredIdx(back')) + h + b + (nextSeq' - rxNext)
        = RX_CAP
  BY <1>1, <1>3
<1> QED BY <1>2, <1>4, Zenon DEF CreditsConserved

\* Arithmetic of a window of a packets that grows as n becomes m.
LEMMA WindowSums ==
  ASSUME NEW a \in Nat, NEW n \in Nat, NEW m \in Nat, NEW r \in Nat, m >= n
  PROVE  /\ a + (m - n) = 0 <=> a = 0 /\ ~(m > n)
         /\ n - a <= r => m - (a + (m - n)) <= r
         /\ r <= n => r <= m
OBVIOUS

\* The sender's half of the invariant after a call of pump.
LEMMA PumpKeeps ==
  ASSUME IInv, NEW Q \in Seq(Nat), NEW I \in Seq(Packet), NEW C \in Nat,
         NEW T \in BOOLEAN,
         \A i \in 1..Len(Q) : Q[i] = nextSeq + i,
         Len(I) <= Len(inflight),
         \A i \in 1..Len(I) : /\ I[i].seq = nextSeq - Len(I) + i - 1
                              /\ I[i].id = I[i].seq + 1,
         nextSeq - Len(I) <= rxNext,
         T <=> I # <<>>,
         Pump(Q, I, C, T), UNCHANGED rxVars, UNCHANGED delivered,
         submitted' \in Nat, submitted' = nextSeq + Len(Q),
         back' \in Seq(Control),
         \A i \in 1..Len(back') : back'[i].kind = "ACK" => back'[i].n < rxNext,
         C + Cardinality(CredIdx(back')) =
           credits + Cardinality(CredIdx(back))
  PROVE  IInv'
<1> USE DEF IInv
<1>0. /\ nextSeq \in Nat /\ rxNext \in Nat /\ credits \in Nat
      /\ Len(I) \in Nat /\ Len(Q) \in Nat /\ Len(inflight) \in Nat
      /\ Len(I) <= WINDOW /\ WINDOW \in Nat /\ Len(wire) \in Nat
  BY Lengths, LenProperties, LinkAssumption
     DEF TypeOK, LinkAssumption, WindowAgreement
<1>1. \A i \in 1..Len(wire) : /\ wire[i].seq < nextSeq
                              /\ wire[i].id = wire[i].seq + 1
  BY DEF OneNumbering
<1>2. nextSeq \in Nat /\ wire \in Seq(Packet)
  BY DEF TypeOK
<1>3. /\ q' \in Seq(Nat) /\ inflight' \in Seq(Packet)
      /\ wire' \in Seq(Packet)
      /\ nextSeq' \in Nat /\ nextSeq' >= nextSeq
      /\ credits' \in Nat /\ credits' = C - (nextSeq' - nextSeq)
      /\ armed' = (T \/ nextSeq' > nextSeq)
      /\ nextSeq' + Len(q') = nextSeq + Len(Q)
      /\ \A i \in 1..Len(q') : q'[i] = nextSeq' + i
      /\ Len(inflight') = Len(I) + (nextSeq' - nextSeq)
      /\ Len(inflight') <= WINDOW
      /\ \A i \in 1..Len(inflight') :
           /\ inflight'[i].seq = nextSeq' - Len(inflight') + i - 1
           /\ inflight'[i].id = inflight'[i].seq + 1
      /\ \A i \in 1..Len(wire') : /\ wire'[i].seq < nextSeq'
                                  /\ wire'[i].id = wire'[i].seq + 1
  BY <1>0, <1>1, <1>2, PumpStep
<1>4. TypeOK'
  BY <1>3, <1>0 DEF TypeOK, rxVars
<1>5. CreditsConserved'
  BY <1>3, CredIdxFinite, PumpPool
<1>6. WindowAgreement'
  <2>0. /\ nextSeq' \in Nat /\ nextSeq' >= nextSeq
        /\ Len(inflight') = Len(I) + (nextSeq' - nextSeq)
    BY <1>3, Zenon
  <2>2. rxNext' = rxNext /\ rxNext <= nextSeq
    BY DEF WindowAgreement, rxVars
  <2>1. /\ nextSeq' - Len(inflight') <= rxNext' /\ rxNext' <= nextSeq'
    <3>1. nextSeq - Len(I) <= rxNext
      OBVIOUS
    <3>2. nextSeq' - (Len(I) + (nextSeq' - nextSeq)) <= rxNext
      BY <3>1, <1>0, <2>0, WindowSums, Zenon
    <3>3. rxNext <= nextSeq'
      BY <1>0, <2>0, <2>2, WindowSums, Zenon
    <3> QED BY <2>0, <2>2, <3>2, <3>3, Zenon
  <2>3. /\ Len(inflight') <= WINDOW
        /\ \A i \in 1..Len(inflight') :
             inflight'[i].seq = nextSeq' - Len(inflight') + i - 1
    BY <1>3
  <2> QED BY <2>1, <2>2, <2>3 DEF WindowAgreement
<1>7. TimerCoversWindow'
  <2>0. /\ inflight' \in Seq(Packet)
        /\ Len(inflight') = Len(I) + (nextSeq' - nextSeq)
    BY <1>3, Zenon
  <2>1. inflight' = <<>> <=> Len(I) + (nextSeq' - nextSeq) = 0
    BY <2>0, EmptyLen, Zenon
  <2>2. I = <<>> <=> Len(I) = 0
    BY EmptyLen, Zenon
  <2>3. nextSeq' \in Nat /\ nextSeq' >= nextSeq
    BY <1>3, Zenon
  <2>4. Len(I) + (nextSeq' - nextSeq) = 0
          <=> Len(I) = 0 /\ ~(nextSeq' > nextSeq)
    BY <1>0, <2>3, WindowSums, Zenon
  <2>5. armed' = (T \/ nextSeq' > nextSeq)
    BY <1>3
  <2> QED BY <2>1, <2>2, <2>4, <2>5, Zenon DEF TimerCoversWindow
<1>8. NoLostWakeup' /\ NoOverflow' /\ InOrderOnce'
  BY DEF NoLostWakeup, NoOverflow, InOrderOnce, rxVars
<1>9. OneNumbering'
  <2>1. submitted' = nextSeq' + Len(q')
    BY <1>3
  <2> QED BY <1>3, <2>1 DEF OneNumbering, rxVars
<1> QED BY <1>4, <1>5, <1>6, <1>7, <1>8, <1>9

\* k packets in a row, numbered from n + 1.
LEMMA NewPackets ==
  ASSUME NEW n \in Nat, NEW k \in Nat
  PROVE  /\ [i \in 1..k |-> n + i] \in Seq(Nat)
         /\ Len([i \in 1..k |-> n + i]) = k
<1> DEFINE f == [i \in 1..k |-> n + i]
<1>1. f \in [1..k -> Nat]
  OBVIOUS
<1> QED BY <1>1, FunctionIsSeq

LEMMA EnqueueStep == IInv /\ Enqueue => IInv'
<1> SUFFICES ASSUME IInv, Enqueue PROVE IInv'
  OBVIOUS
<1>1. PICK k \in 1..SlicePackets :
        /\ Pump(q \o [i \in 1..k |-> submitted + i], inflight, credits, armed)
        /\ submitted' = submitted + k
        /\ UNCHANGED <<back, rxVars, delivered>>
  BY DEF Enqueue
<1> DEFINE new == [i \in 1..k |-> submitted + i]
           Q   == q \o new
<1>2. k \in Nat /\ submitted \in Nat
  BY LinkAssumption DEF LinkAssumption, IInv, TypeOK
<1>3. new \in Seq(Nat) /\ Len(new) = k
  BY <1>2, NewPackets
<1>4. \A i \in 1..k : new[i] = submitted + i
  OBVIOUS
<1> HIDE DEF new
<1>5. /\ Q \in Seq(Nat) /\ Len(Q) = Len(q) + k
      /\ \A i \in 1..Len(Q) : Q[i] = IF i <= Len(q) THEN q[i]
                                                    ELSE new[i - Len(q)]
  BY <1>3, ConcatProperties DEF IInv, TypeOK
<1>6. /\ nextSeq \in Nat /\ Len(q) \in Nat /\ credits \in Nat
      /\ armed \in BOOLEAN /\ inflight \in Seq(Packet)
      /\ back \in Seq(Control)
  BY Lengths DEF IInv, TypeOK
<1>7. \A i \in 1..Len(Q) : Q[i] = nextSeq + i
  <2> TAKE i \in 1..Len(Q)
  <2>1. CASE i <= Len(q)
    BY <1>5, <1>6, <2>1 DEF IInv, OneNumbering
  <2>2. CASE i > Len(q)
    <3>1. i - Len(q) \in 1..k
      BY <1>2, <1>5, <1>6, <2>2
    <3>2. new[i - Len(q)] = submitted + (i - Len(q))
      BY <1>4, <3>1
    <3>3. submitted = nextSeq + Len(q)
      BY DEF IInv, OneNumbering
    <3> QED BY <1>5, <1>6, <2>2, <3>2, <3>3
  <2> QED BY <1>5, <1>6, <1>2, <2>1, <2>2
<1>8. submitted' \in Nat /\ submitted' = nextSeq + Len(Q)
  BY <1>1, <1>2, <1>5, <1>6 DEF IInv, OneNumbering
<1>9. /\ nextSeq - Len(inflight) <= rxNext
      /\ armed <=> inflight # <<>>
      /\ \A i \in 1..Len(inflight) :
           /\ inflight[i].seq = nextSeq - Len(inflight) + i - 1
           /\ inflight[i].id = inflight[i].seq + 1
      /\ \A i \in 1..Len(back) : back[i].kind = "ACK" => back[i].n < rxNext
  BY DEF IInv, WindowAgreement, TimerCoversWindow, OneNumbering
<1>10. Len(inflight) <= Len(inflight)
  BY Lengths DEF IInv
<1>11. back' = back /\ UNCHANGED rxVars /\ UNCHANGED delivered
  BY <1>1
<1>12. Pump(Q, inflight, credits, armed)
  BY <1>1 DEF new
<1> HIDE DEF Q
<1> QED BY <1>5, <1>6, <1>7, <1>8, <1>9, <1>10, <1>11, <1>12, PumpKeeps

\* Taking the head off the reverse link leaves the acknowledgements behind it
\* below rxNext.
LEMMA BackTail ==
  ASSUME IInv, back # <<>>, back' = Tail(back)
  PROVE  /\ back' \in Seq(Control) /\ Head(back) \in Control
         /\ \A i \in 1..Len(back') :
              back'[i].kind = "ACK" => back'[i].n < rxNext
         /\ Head(back).kind = "ACK" => Head(back).n < rxNext
         /\ Cardinality(CredIdx(back)) = Cardinality(CredIdx(back'))
              + (IF Head(back).kind = "CRED" THEN 1 ELSE 0)
<1>1. back \in Seq(Control)
  BY DEF IInv, TypeOK
<1>2. /\ Tail(back) \in Seq(Control) /\ Head(back) \in Control
      /\ Len(Tail(back)) = Len(back) - 1
      /\ \A i \in 1..Len(Tail(back)) : Tail(back)[i] = back[i + 1]
      /\ Len(back) \in Nat \ {0} /\ Head(back) = back[1]
  BY <1>1, HeadTailProperties, EmptySeq
<1>3. \A i \in 1..Len(back) : back[i].kind = "ACK" => back[i].n < rxNext
  BY DEF IInv, WindowAgreement
<1>4. \A i \in 1..Len(back') : back'[i].kind = "ACK" => back'[i].n < rxNext
  <2> TAKE i \in 1..Len(back')
  <2>1. i + 1 \in 1..Len(back) /\ back'[i] = back[i + 1]
    BY <1>2
  <2> QED BY <2>1, <1>3
<1> QED BY <1>1, <1>2, <1>3, <1>4, CredTail

LEMMA OnAckStep == IInv /\ OnAck => IInv'
<1> SUFFICES ASSUME IInv, OnAck PROVE IInv'
  OBVIOUS
<1>1. back # <<>> /\ Head(back).kind = "ACK" /\ back' = Tail(back)
      /\ UNCHANGED rxVars /\ UNCHANGED submitted /\ UNCHANGED delivered
  BY DEF OnAck
<1>2. PICK k \in 0..Len(inflight) :
        LET rest == SubSeq(inflight, k + 1, Len(inflight)) IN
        /\ \A i \in 1..k : inflight[i].seq <= Head(back).n
        /\ IF k = 0 THEN UNCHANGED <<txVars, wire>>
                    ELSE Pump(q, rest, credits, rest # <<>>)
  BY DEF OnAck, TimerAfter
<1> DEFINE rest == SubSeq(inflight, k + 1, Len(inflight))
<1>3. /\ back' \in Seq(Control)
      /\ \A i \in 1..Len(back') : back'[i].kind = "ACK" => back'[i].n < rxNext
      /\ Head(back).n < rxNext
      /\ Cardinality(CredIdx(back)) = Cardinality(CredIdx(back'))
  <2>1. Cardinality(CredIdx(back)) = Cardinality(CredIdx(back')) + 0
    BY <1>1, BackTail
  <2>2. back' \in Seq(Control)
    BY <1>1, BackTail
  <2>3. Cardinality(CredIdx(back')) \in Nat
    BY <2>2, CredIdxFinite
  <2> QED BY <1>1, <2>1, <2>2, <2>3, BackTail
<1>4. /\ inflight \in Seq(Packet) /\ q \in Seq(Nat) /\ credits \in Nat
      /\ Len(inflight) \in Nat /\ nextSeq \in Nat /\ rxNext \in Nat
      /\ Len(q) \in Nat /\ submitted \in Nat
  BY Lengths DEF IInv, TypeOK
<1>5. CASE k = 0
  <2>1. UNCHANGED <<txVars, wire>>
    BY <1>2, <1>5
  <2>2. TypeOK'
    BY <1>1, <1>3, <2>1 DEF IInv, TypeOK, txVars, rxVars
  <2>3. CreditsConserved'
    BY <1>1, <1>3, <2>1, Zenon DEF IInv, CreditsConserved, txVars, rxVars
  <2>4. WindowAgreement'
    BY <1>1, <1>3, <2>1 DEF IInv, WindowAgreement, txVars, rxVars
  <2>5. /\ NoOverflow' /\ TimerCoversWindow' /\ NoLostWakeup'
        /\ OneNumbering' /\ InOrderOnce'
    BY <1>1, <2>1 DEF IInv, NoOverflow, TimerCoversWindow, NoLostWakeup,
                      OneNumbering, InOrderOnce, txVars, rxVars
  <2> QED BY <2>2, <2>3, <2>4, <2>5 DEF IInv
<1>6. CASE k > 0
  <2>1. Pump(q, rest, credits, rest # <<>>)
    BY <1>2, <1>6
  <2>2. /\ rest \in Seq(Packet) /\ Len(rest) = Len(inflight) - k
        /\ \A i \in 1..Len(rest) : rest[i] = inflight[k + i]
    <3>1. \A i \in (k + 1)..Len(inflight) : inflight[i] \in Packet
      BY <1>4, ElementOfSeq
    <3>2. /\ rest \in Seq(Packet)
          /\ Len(rest) = IF k + 1 <= Len(inflight)
                           THEN Len(inflight) - (k + 1) + 1 ELSE 0
          /\ \A i \in 1..(Len(inflight) - (k + 1) + 1) :
               rest[i] = inflight[(k + 1) + i - 1]
      BY <1>4, <3>1, SubSeqProperties
    <3>3. Len(rest) = Len(inflight) - k
      BY <1>4, <3>2
    <3>4. ASSUME NEW i \in 1..Len(rest)
          PROVE  rest[i] = inflight[k + i]
      <4>1. i \in 1..(Len(inflight) - (k + 1) + 1) /\ (k + 1) + i - 1 = k + i
        BY <1>4, <3>3
      <4>2. rest[i] = inflight[(k + 1) + i - 1]
        BY <3>2, <4>1
      <4> QED BY <4>1, <4>2
    <3> QED BY <3>2, <3>3, <3>4
  <2> HIDE DEF rest
  <2>3. \A i \in 1..Len(inflight) :
          /\ inflight[i].seq = nextSeq - Len(inflight) + i - 1
          /\ inflight[i].id = inflight[i].seq + 1
    BY DEF IInv, WindowAgreement, OneNumbering
  <2>4. \A i \in 1..Len(rest) : /\ rest[i].seq = nextSeq - Len(rest) + i - 1
                                /\ rest[i].id = rest[i].seq + 1
    <3> TAKE i \in 1..Len(rest)
    <3>1. k + i \in 1..Len(inflight) /\ rest[i] = inflight[k + i]
      BY <1>4, <2>2
    <3>2. /\ rest[i].seq = nextSeq - Len(inflight) + (k + i) - 1
          /\ rest[i].id = rest[i].seq + 1
      BY <2>3, <3>1
    <3>3. nextSeq - Len(inflight) + (k + i) - 1 = nextSeq - Len(rest) + i - 1
      BY <1>4, <2>2
    <3> QED BY <3>2, <3>3
  <2>5. nextSeq - Len(rest) <= rxNext
    <3>1. /\ inflight[k].seq <= Head(back).n
          /\ inflight[k].seq = nextSeq - Len(inflight) + k - 1
      BY <1>2, <1>4, <1>6, <2>3
    <3>2. Head(back).n \in Int
      BY <1>1, BackTail DEF Control
    <3> QED BY <1>3, <1>4, <2>2, <3>1, <3>2
  <2>6. Len(rest) <= Len(inflight) /\ (rest # <<>>) \in BOOLEAN
    BY <1>4, <2>2
  <2>7. \A i \in 1..Len(q) : q[i] = nextSeq + i
    BY DEF IInv, OneNumbering
  <2>8. submitted' \in Nat /\ submitted' = nextSeq + Len(q)
    BY <1>1, <1>4 DEF IInv, OneNumbering
  <2>9. credits + Cardinality(CredIdx(back')) =
          credits + Cardinality(CredIdx(back))
    BY <1>3
  <2> QED BY <1>1, <1>3, <1>4, <2>1, <2>2, <2>4, <2>5, <2>6, <2>7, <2>8,
             <2>9, PumpKeeps
<1> QED BY <1>4, <1>5, <1>6

LEMMA OnCredStep == IInv /\ OnCred => IInv'
<1> SUFFICES ASSUME IInv, OnCred PROVE IInv'
  OBVIOUS
<1>1. /\ back # <<>> /\ Head(back).kind = "CRED" /\ back' = Tail(back)
      /\ UNCHANGED rxVars /\ UNCHANGED submitted /\ UNCHANGED delivered
      /\ Pump(q, inflight, credits + Head(back).n, armed)
  BY DEF OnCred
<1>2. Head(back).n = 1
  BY <1>1, BackTail DEF Control
<1>3. /\ back' \in Seq(Control)
      /\ \A i \in 1..Len(back') : back'[i].kind = "ACK" => back'[i].n < rxNext
      /\ Cardinality(CredIdx(back)) = Cardinality(CredIdx(back')) + 1
  BY <1>1, BackTail
<1>4. /\ inflight \in Seq(Packet) /\ q \in Seq(Nat) /\ credits \in Nat
      /\ submitted \in Nat /\ armed \in BOOLEAN
      /\ Len(inflight) <= Len(inflight)
  BY Lengths DEF IInv, TypeOK
<1>5. /\ \A i \in 1..Len(q) : q[i] = nextSeq + i
      /\ \A i \in 1..Len(inflight) :
           /\ inflight[i].seq = nextSeq - Len(inflight) + i - 1
           /\ inflight[i].id = inflight[i].seq + 1
      /\ nextSeq - Len(inflight) <= rxNext
      /\ armed <=> inflight # <<>>
      /\ submitted = nextSeq + Len(q)
  BY DEF IInv, OneNumbering, WindowAgreement, TimerCoversWindow
<1>6. Cardinality(CredIdx(back')) \in Nat
  BY <1>3, CredIdxFinite
<1>7. /\ credits + 1 \in Nat
      /\ (credits + 1) + Cardinality(CredIdx(back')) =
           credits + Cardinality(CredIdx(back))
  BY <1>3, <1>4, <1>6
<1>8. Pump(q, inflight, credits + 1, armed)
  BY <1>1, <1>2
<1>9. submitted' \in Nat /\ submitted' = nextSeq + Len(q)
  BY <1>1, <1>4, <1>5
<1> QED BY <1>1, <1>3, <1>4, <1>5, <1>7, <1>8, <1>9, PumpKeeps

\* A retransmission repeats numbers already used and takes no slot.
LEMMA TimeoutStep == IInv /\ Timeout => IInv'
<1> SUFFICES ASSUME IInv, Timeout PROVE IInv'
  OBVIOUS
<1>1. /\ wire' = wire \o inflight
      /\ UNCHANGED <<txVars, back, rxVars, submitted, delivered>>
  BY DEF Timeout, Resent
<1>2. /\ wire \in Seq(Packet) /\ inflight \in Seq(Packet) /\ nextSeq \in Nat
      /\ Len(wire) \in Nat /\ Len(inflight) \in Nat
  BY Lengths DEF IInv, TypeOK
<1>3. /\ wire' \in Seq(Packet) /\ Len(wire') = Len(wire) + Len(inflight)
      /\ \A i \in 1..Len(wire') :
           wire'[i] = IF i <= Len(wire) THEN wire[i]
                                        ELSE inflight[i - Len(wire)]
  BY <1>1, <1>2, ConcatProperties
<1>4. \A i \in 1..Len(wire') : /\ wire'[i].seq < nextSeq
                               /\ wire'[i].id = wire'[i].seq + 1
  <2> TAKE i \in 1..Len(wire')
  <2>1. CASE i <= Len(wire)
    <3>1. i \in 1..Len(wire) /\ wire'[i] = wire[i]
      BY <1>2, <1>3, <2>1
    <3> QED BY <3>1 DEF IInv, OneNumbering
  <2>2. CASE i > Len(wire)
    <3>1. /\ i - Len(wire) \in 1..Len(inflight)
          /\ wire'[i] = inflight[i - Len(wire)]
      BY <1>2, <1>3, <2>2
    <3>2. \A j \in 1..Len(inflight) :
            /\ inflight[j].seq = nextSeq - Len(inflight) + j - 1
            /\ inflight[j].id = inflight[j].seq + 1
      BY DEF IInv, WindowAgreement, OneNumbering
    <3>3. ASSUME NEW j \in 1..Len(inflight)
          PROVE  nextSeq - Len(inflight) + j - 1 < nextSeq
      BY <1>2
    <3> QED BY <3>1, <3>2, <3>3
  <2> QED BY <1>2, <1>3, <2>1, <2>2
<1>5. TypeOK' /\ OneNumbering'
  BY <1>1, <1>3, <1>4 DEF IInv, TypeOK, OneNumbering, txVars, rxVars
<1>6. CreditsConserved'
  BY <1>1, Zenon DEF IInv, CreditsConserved, txVars, rxVars
<1>7. /\ NoOverflow' /\ WindowAgreement' /\ TimerCoversWindow'
      /\ NoLostWakeup' /\ InOrderOnce'
  BY <1>1 DEF IInv, NoOverflow, WindowAgreement, TimerCoversWindow,
              NoLostWakeup, InOrderOnce, txVars, rxVars
<1> QED BY <1>5, <1>6, <1>7 DEF IInv

\* Taking a packet off the link leaves only numbered packets behind it.
LEMMA WireTail ==
  ASSUME IInv, wire # <<>>, wire' = Tail(wire)
  PROVE  /\ wire' \in Seq(Packet)
         /\ \A i \in 1..Len(wire') : /\ wire'[i].seq < nextSeq
                                     /\ wire'[i].id = wire'[i].seq + 1
         /\ Head(wire) \in Packet
         /\ Head(wire).seq < nextSeq /\ Head(wire).id = Head(wire).seq + 1
<1>1. wire \in Seq(Packet)
  BY DEF IInv, TypeOK
<1>2. /\ Tail(wire) \in Seq(Packet) /\ Head(wire) \in Packet
      /\ Len(Tail(wire)) = Len(wire) - 1
      /\ \A i \in 1..Len(Tail(wire)) : Tail(wire)[i] = wire[i + 1]
      /\ Len(wire) \in Nat \ {0} /\ Head(wire) = wire[1]
  BY <1>1, HeadTailProperties, EmptySeq
<1>3. \A i \in 1..Len(wire) : /\ wire[i].seq < nextSeq
                              /\ wire[i].id = wire[i].seq + 1
  BY DEF IInv, OneNumbering
<1>4. \A i \in 1..Len(wire') : /\ wire'[i].seq < nextSeq
                               /\ wire'[i].id = wire'[i].seq + 1
  <2> TAKE i \in 1..Len(wire')
  <2>1. i + 1 \in 1..Len(wire) /\ wire'[i] = wire[i + 1]
    BY <1>2
  <2> QED BY <2>1, <1>3
<1>5. 1 \in 1..Len(wire)
  BY <1>2
<1> QED BY <1>2, <1>3, <1>4, <1>5

\* An acknowledgement below rxNext joins the reverse link.
LEMMA BackAck ==
  ASSUME IInv, NEW m \in Int, rxNext' \in Nat, m < rxNext', rxNext' >= rxNext,
         back' = Append(back, Ack(m))
  PROVE  /\ back' \in Seq(Control)
         /\ \A i \in 1..Len(back') :
              back'[i].kind = "ACK" => back'[i].n < rxNext'
         /\ Cardinality(CredIdx(back')) = Cardinality(CredIdx(back))
<1>1. /\ back \in Seq(Control) /\ Ack(m) \in Control /\ rxNext \in Nat
      /\ Len(back) \in Nat
  BY Lengths DEF IInv, TypeOK, Ack, Control
<1>2. /\ back' \in Seq(Control) /\ Len(back') = Len(back) + 1
      /\ \A i \in 1..Len(back) : back'[i] = back[i]
      /\ back'[Len(back) + 1] = Ack(m)
  BY <1>1, AppendProperties
<1>3. \A i \in 1..Len(back') : back'[i].kind = "ACK" => back'[i].n < rxNext'
  <2> TAKE i \in 1..Len(back')
  <2>1. CASE i = Len(back) + 1
    BY <1>2, <2>1 DEF Ack
  <2>2. CASE i # Len(back) + 1
    <3>1. i \in 1..Len(back) /\ back'[i] = back[i]
      BY <1>1, <1>2, <2>2
    <3>2. back[i].kind = "ACK" => back[i].n < rxNext
      BY <3>1 DEF IInv, WindowAgreement
    <3>3. back[i] \in Control
      BY <1>1, <3>1, ElementOfSeq
    <3>4. back[i].n \in Int
      BY <3>3 DEF Control
    <3> QED BY <1>1, <3>1, <3>2, <3>4
  <2> QED BY <2>1, <2>2
<1>4. /\ Cardinality(CredIdx(back')) = Cardinality(CredIdx(back)) + 0
      /\ Cardinality(CredIdx(back)) \in Nat
  BY <1>1, CredAppend, CredIdxFinite DEF Ack
<1> QED BY <1>2, <1>3, <1>4

\* Dropping a packet, damaged or out of sequence.
LEMMA RxDropStep == IInv /\ (RxCorrupt \/ RxOutOfSequence) => IInv'
<1> SUFFICES ASSUME IInv, RxCorrupt \/ RxOutOfSequence PROVE IInv'
  OBVIOUS
<1>1. /\ wire # <<>> /\ wire' = Tail(wire)
      /\ back' = Append(back, Ack(rxNext - 1))
      /\ UNCHANGED <<txVars, rxVars, submitted, delivered>>
  BY DEF RxCorrupt, RxOutOfSequence
<1>2. /\ wire' \in Seq(Packet)
      /\ \A i \in 1..Len(wire') : /\ wire'[i].seq < nextSeq
                                  /\ wire'[i].id = wire'[i].seq + 1
  BY <1>1, WireTail
<1>3. rxNext \in Nat /\ rxNext' = rxNext
  BY <1>1 DEF IInv, TypeOK, rxVars
<1>4. rxNext - 1 \in Int /\ rxNext' \in Nat /\ rxNext - 1 < rxNext'
      /\ rxNext' >= rxNext
  BY <1>3
<1>5. /\ back' \in Seq(Control)
      /\ \A i \in 1..Len(back') : back'[i].kind = "ACK" => back'[i].n < rxNext'
      /\ Cardinality(CredIdx(back')) = Cardinality(CredIdx(back))
  BY <1>1, <1>4, BackAck
<1>6. TypeOK' /\ OneNumbering'
  BY <1>1, <1>2, <1>5 DEF IInv, TypeOK, OneNumbering, txVars, rxVars
<1>7. CreditsConserved'
  BY <1>1, <1>5, Zenon DEF IInv, CreditsConserved, txVars, rxVars
<1>8. WindowAgreement'
  BY <1>1, <1>5 DEF IInv, WindowAgreement, txVars, rxVars
<1>9. NoOverflow' /\ TimerCoversWindow' /\ NoLostWakeup' /\ InOrderOnce'
  BY <1>1 DEF IInv, NoOverflow, TimerCoversWindow, NoLostWakeup,
              InOrderOnce, txVars, rxVars
<1> QED BY <1>6, <1>7, <1>8, <1>9 DEF IInv

\* A packet in sequence always finds a slot: its own slot is one of the pool.
LEMMA SlotFree ==
  ASSUME IInv, wire # <<>>, Head(wire).seq = rxNext
  PROVE  Len(buf) < RX_CAP /\ rxNext < nextSeq
<1> DEFINE k == Cardinality(CredIdx(back))
           h == Len(hand)
           b == Len(buf)
<1>2. rxNext < nextSeq
  <2>1. wire \in Seq(Packet) /\ Len(wire) \in Nat \ {0}
    BY EmptySeq DEF IInv, TypeOK
  <2>2. 1 \in 1..Len(wire) /\ Head(wire) = wire[1]
    BY <2>1
  <2> QED BY <2>2 DEF IInv, OneNumbering
<1>3. /\ k \in Nat /\ h \in Nat /\ b \in Nat
      /\ nextSeq \in Nat /\ rxNext \in Nat /\ credits \in Nat
  BY Lengths DEF IInv, TypeOK
<1>4. credits + k + h + b + (nextSeq - rxNext) = RX_CAP
  BY DEF IInv, CreditsConserved
<1>5. RX_CAP \in Nat
  BY LinkAssumption DEF LinkAssumption
<1> HIDE DEF k, h, b
<1>6. b < RX_CAP
  BY <1>2, <1>3, <1>4, <1>5
<1> QED BY <1>2, <1>6 DEF b

LEMMA RxInSequenceStep == IInv /\ RxInSequence => IInv'
<1> SUFFICES ASSUME IInv, RxInSequence PROVE IInv'
  OBVIOUS
<1>1. /\ wire # <<>> /\ Head(wire).seq = rxNext /\ wire' = Tail(wire)
      /\ UNCHANGED <<txVars, hand, submitted, delivered>>
  BY DEF RxInSequence, Due
<1>2. rxNext < nextSeq /\ Len(buf) < RX_CAP
  BY <1>1, SlotFree
<1>3. /\ rxNext' = rxNext + 1 /\ buf' = Append(buf, Head(wire).id)
      /\ back' = Append(back, Ack(Head(wire).seq))
      /\ drain' = IF drain = "parked" THEN "woken" ELSE drain
      /\ UNCHANGED overflow
  <2>1. Len(buf) \in Nat /\ RX_CAP \in Nat
    BY Lengths, LinkAssumption DEF IInv, LinkAssumption
  <2>2. ~(Len(buf) >= RX_CAP)
    BY <1>2, <2>1
  <2> QED BY <2>2 DEF RxInSequence, Kick
<1>4. /\ rxNext \in Nat /\ nextSeq \in Nat /\ rxNext' \in Nat
      /\ rxNext' = rxNext + 1 /\ rxNext' <= nextSeq
      /\ buf \in Seq(Nat) /\ credits \in Nat
  BY <1>2, <1>3 DEF IInv, TypeOK
<1>5. /\ wire' \in Seq(Packet)
      /\ \A i \in 1..Len(wire') : /\ wire'[i].seq < nextSeq
                                  /\ wire'[i].id = wire'[i].seq + 1
      /\ Head(wire).id = rxNext + 1
  BY <1>1, WireTail
<1>6. /\ back' \in Seq(Control)
      /\ \A i \in 1..Len(back') : back'[i].kind = "ACK" => back'[i].n < rxNext'
      /\ Cardinality(CredIdx(back')) = Cardinality(CredIdx(back))
  <2>1. /\ rxNext \in Int /\ rxNext' \in Nat /\ rxNext < rxNext'
        /\ rxNext' >= rxNext
    BY <1>4
  <2>2. back' = Append(back, Ack(rxNext))
    BY <1>1, <1>3
  <2> QED BY <2>1, <2>2, BackAck, Zenon
<1>7. /\ buf' \in Seq(Nat) /\ Len(buf') = Len(buf) + 1
      /\ \A i \in 1..Len(buf) : buf'[i] = buf[i]
      /\ buf'[Len(buf) + 1] = rxNext + 1 /\ buf' # <<>>
  <2>1. buf' = Append(buf, rxNext + 1) /\ rxNext + 1 \in Nat
    BY <1>3, <1>4, <1>5
  <2>2. /\ Append(buf, rxNext + 1) \in Seq(Nat)
        /\ Append(buf, rxNext + 1) # <<>>
        /\ Len(Append(buf, rxNext + 1)) = Len(buf) + 1
        /\ \A i \in 1..Len(buf) : Append(buf, rxNext + 1)[i] = buf[i]
        /\ Append(buf, rxNext + 1)[Len(buf) + 1] = rxNext + 1
    BY <1>4, <2>1, AppendProperties
  <2> QED BY <2>1, <2>2, Zenon
<1>8. TypeOK'
  BY <1>1, <1>3, <1>4, <1>5, <1>6, <1>7 DEF IInv, TypeOK, txVars
<1>9. CreditsConserved'
  <2> DEFINE k == Cardinality(CredIdx(back))
             h == Len(hand)
             b == Len(buf)
  <2>1. /\ k \in Nat /\ h \in Nat /\ b \in Nat
    BY Lengths DEF IInv
  <2>2. credits + k + h + b + (nextSeq - rxNext) = RX_CAP
    BY DEF IInv, CreditsConserved
  <2>3. /\ Cardinality(CredIdx(back')) = k /\ Len(hand') = h
        /\ Len(buf') = b + 1 /\ credits' = credits /\ nextSeq' = nextSeq
    BY <1>1, <1>6, <1>7 DEF txVars
  <2> HIDE DEF k, h, b
  <2>4. credits + k + h + (b + 1) + (nextSeq - rxNext') = RX_CAP
    BY <1>4, <2>1, <2>2
  <2> QED BY <2>3, <2>4, Zenon DEF CreditsConserved
<1>10. WindowAgreement'
  <2>1. Len(inflight) \in Nat /\ nextSeq - Len(inflight) <= rxNext
    BY Lengths DEF IInv, WindowAgreement
  <2>2. nextSeq - Len(inflight) <= rxNext'
    BY <1>4, <2>1
  <2> QED BY <1>1, <1>4, <1>6, <2>2 DEF IInv, WindowAgreement, txVars
<1>11. OneNumbering'
  <2>1. /\ Len(hand) \in Nat /\ Len(buf) \in Nat /\ Len(delivered) \in Nat
    BY Lengths DEF IInv
  <2>2. rxNext = Len(delivered) + Len(hand) + Len(buf)
    BY DEF IInv, OneNumbering
  <2>3. rxNext' = Len(delivered) + Len(hand) + Len(buf')
    BY <1>4, <1>7, <2>1, <2>2
  <2>4. \A i \in 1..Len(buf') : buf'[i] = Len(delivered) + Len(hand) + i
    <3> TAKE i \in 1..Len(buf')
    <3>1. CASE i = Len(buf) + 1
      BY <1>7, <2>1, <2>2, <3>1
    <3>2. CASE i # Len(buf) + 1
      <4>1. i \in 1..Len(buf) /\ buf'[i] = buf[i]
        BY <1>7, <2>1, <3>2
      <4> QED BY <4>1 DEF IInv, OneNumbering
    <3> QED BY <3>1, <3>2
  <2>5. Len(hand) = IF drain' = "moving" THEN 1 ELSE 0
    BY <1>3 DEF IInv, OneNumbering
  <2> QED BY <1>1, <1>5, <2>3, <2>4, <2>5 DEF IInv, OneNumbering, txVars
<1>12. NoOverflow' /\ TimerCoversWindow' /\ NoLostWakeup' /\ InOrderOnce'
  BY <1>1, <1>3, <1>7 DEF IInv, TypeOK, NoOverflow, TimerCoversWindow,
     NoLostWakeup, InOrderOnce, txVars
<1> QED BY <1>8, <1>9, <1>10, <1>11, <1>12 DEF IInv

\* Going round the drain loop moves at most the head of the buffer into the
\* DMA, and parks only on an empty buffer; m is what was delivered before.
LEMMA DrainLoopStep ==
  ASSUME buf \in Seq(Nat), DrainLoop, NEW m \in Nat,
         \A i \in 1..Len(buf) : buf[i] = m + i
  PROVE  /\ buf' \in Seq(Nat) /\ hand' \in Seq(Nat)
         /\ drain' \in {"started", "parked", "woken", "moving"}
         /\ Len(hand') = IF drain' = "moving" THEN 1 ELSE 0
         /\ Len(hand') + Len(buf') = Len(buf)
         /\ \A i \in 1..Len(hand') : hand'[i] = m + i
         /\ \A i \in 1..Len(buf') : buf'[i] = m + Len(hand') + i
         /\ drain' = "parked" => buf' = <<>>
<1>1. CASE buf = <<>>
  BY <1>1 DEF DrainLoop
<1>2. CASE buf # <<>>
  <2>1. /\ drain' = "moving" /\ hand' = <<Head(buf)>> /\ buf' = Tail(buf)
    BY <1>2 DEF DrainLoop
  <2>2. /\ Head(buf) \in Nat /\ Tail(buf) \in Seq(Nat)
        /\ Len(Tail(buf)) = Len(buf) - 1
        /\ \A i \in 1..Len(Tail(buf)) : Tail(buf)[i] = buf[i + 1]
        /\ Len(buf) \in Nat \ {0} /\ Head(buf) = buf[1]
    BY <1>2, HeadTailProperties, EmptySeq
  <2>3. Len(hand') = 1 /\ hand'[1] = m + 1 /\ hand' \in Seq(Nat)
    BY <2>1, <2>2
  <2>4. \A i \in 1..Len(buf') : buf'[i] = m + Len(hand') + i
    <3> TAKE i \in 1..Len(buf')
    <3>1. i + 1 \in 1..Len(buf) /\ buf'[i] = buf[i + 1]
      BY <2>1, <2>2
    <3>2. buf[i + 1] = m + (i + 1)
      BY <3>1
    <3> QED BY <3>1, <3>2, <2>3
  <2>5. Len(hand') + Len(buf') = Len(buf)
    BY <2>1, <2>2, <2>3
  <2>6. \A i \in 1..Len(hand') : hand'[i] = m + i
    BY <2>3
  <2> QED BY <2>1, <2>2, <2>3, <2>4, <2>5, <2>6
<1> QED BY <1>1, <1>2

LEMMA DrainResumeStep == IInv /\ DrainResume => IInv'
<1> SUFFICES ASSUME IInv, DrainResume PROVE IInv'
  OBVIOUS
<1> DEFINE m == Len(delivered)
<1>1. /\ drain \in {"started", "woken"} /\ DrainLoop
      /\ UNCHANGED <<txVars, wire, back, rxNext, overflow, submitted,
                     delivered>>
  BY DEF DrainResume
<1>2. /\ buf \in Seq(Nat) /\ m \in Nat /\ Len(buf) \in Nat /\ Len(hand) = 0
      /\ rxNext = m + Len(hand) + Len(buf)
      /\ \A i \in 1..Len(buf) : buf[i] = m + Len(hand) + i
  BY <1>1, Lengths DEF IInv, TypeOK, OneNumbering
<1>3. \A i \in 1..Len(buf) : buf[i] = m + i
  BY <1>2
<1> HIDE DEF m
<1>4. /\ buf' \in Seq(Nat) /\ hand' \in Seq(Nat)
      /\ drain' \in {"started", "parked", "woken", "moving"}
      /\ Len(hand') = IF drain' = "moving" THEN 1 ELSE 0
      /\ Len(hand') + Len(buf') = Len(buf)
      /\ \A i \in 1..Len(hand') : hand'[i] = m + i
      /\ \A i \in 1..Len(buf') : buf'[i] = m + Len(hand') + i
      /\ drain' = "parked" => buf' = <<>>
  BY <1>1, <1>2, <1>3, DrainLoopStep
<1>5. Len(hand') \in Nat /\ Len(buf') \in Nat
  BY <1>4, LenProperties
<1>6. TypeOK' /\ NoLostWakeup'
  BY <1>1, <1>4 DEF IInv, TypeOK, NoLostWakeup, txVars
<1>7. CreditsConserved'
  <2> DEFINE k == Cardinality(CredIdx(back))
             h == Len(hand')
             b == Len(buf')
  <2>1. k \in Nat /\ credits \in Nat /\ nextSeq \in Nat /\ rxNext \in Nat
    BY Lengths DEF IInv, TypeOK
  <2>2. h \in Nat /\ b \in Nat /\ h + b = Len(buf)
    BY <1>4, <1>5
  <2>3. credits + k + 0 + (h + b) + (nextSeq - rxNext) = RX_CAP
    BY <1>2, <2>2 DEF IInv, CreditsConserved
  <2>4. /\ Cardinality(CredIdx(back')) = k /\ credits' = credits
        /\ nextSeq' = nextSeq /\ rxNext' = rxNext
    BY <1>1 DEF txVars
  <2> HIDE DEF k, h, b
  <2>5. credits + k + h + b + (nextSeq - rxNext) = RX_CAP
    BY <2>1, <2>2, <2>3
  <2> QED BY <2>4, <2>5, Zenon DEF CreditsConserved, h, b
<1>8. OneNumbering'
  <2> DEFINE h == Len(hand')
             b == Len(buf')
             n == Len(buf)
  <2>0. /\ rxNext = m + n /\ h + b = n
        /\ m \in Nat /\ n \in Nat /\ h \in Nat /\ b \in Nat
    BY <1>2, <1>4, <1>5
  <2> HIDE DEF h, b, n
  <2>1. rxNext = m + h + b
    BY <2>0
  <2> USE DEF h, b
  <2> QED BY <1>1, <1>4, <2>1 DEF IInv, OneNumbering, txVars, m
<1>9. /\ NoOverflow' /\ WindowAgreement' /\ TimerCoversWindow'
      /\ InOrderOnce'
  BY <1>1 DEF IInv, NoOverflow, WindowAgreement, TimerCoversWindow,
              InOrderOnce, txVars
<1> QED BY <1>6, <1>7, <1>8, <1>9 DEF IInv

LEMMA DrainDoneStep == IInv /\ DrainDone => IInv'
<1> SUFFICES ASSUME IInv, DrainDone PROVE IInv'
  OBVIOUS
<1> DEFINE m == Len(delivered) + 1
<1>1. /\ drain = "moving" /\ DrainLoop /\ back' = Append(back, Cred)
      /\ delivered' = delivered \o hand
      /\ UNCHANGED <<txVars, wire, rxNext, overflow, submitted>>
  BY DEF DrainDone
<1>2. /\ buf \in Seq(Nat) /\ Len(delivered) \in Nat /\ m \in Nat
      /\ Len(buf) \in Nat /\ Len(hand) = 1
      /\ rxNext = Len(delivered) + Len(hand) + Len(buf)
      /\ \A i \in 1..Len(buf) : buf[i] = Len(delivered) + Len(hand) + i
      /\ \A i \in 1..Len(hand) : hand[i] = Len(delivered) + i
  BY <1>1, Lengths DEF IInv, TypeOK, OneNumbering
<1>3. \A i \in 1..Len(buf) : buf[i] = m + i
  BY <1>2
<1>4. /\ delivered' \in Seq(Nat) /\ Len(delivered') = m
      /\ \A i \in 1..m : delivered'[i] = i
  <2>1. delivered \in Seq(Nat) /\ hand \in Seq(Nat)
    BY DEF IInv, TypeOK
  <2>2. /\ delivered \o hand \in Seq(Nat)
        /\ Len(delivered \o hand) = Len(delivered) + Len(hand)
        /\ \A i \in 1..(Len(delivered) + Len(hand)) :
             (delivered \o hand)[i] =
               IF i <= Len(delivered) THEN delivered[i]
                                      ELSE hand[i - Len(delivered)]
    BY <2>1, ConcatProperties
  <2>3. \A i \in 1..Len(delivered) : delivered[i] = i
    BY DEF IInv, InOrderOnce
  <2>4. ASSUME NEW i \in 1..m PROVE delivered'[i] = i
    <3>1. CASE i = m
      <4>1. i - Len(delivered) = 1 /\ ~(i <= Len(delivered))
        BY <1>2, <3>1
      <4>2. delivered'[i] = hand[1]
        BY <1>1, <1>2, <2>2, <4>1
      <4>3. hand[1] = Len(delivered) + 1
        BY <1>2
      <4> QED BY <3>1, <4>2, <4>3
    <3>2. CASE i # m
      <4>1. i \in 1..Len(delivered)
        BY <1>2, <3>2
      <4> QED BY <1>1, <1>2, <2>2, <2>3, <4>1
    <3> QED BY <3>1, <3>2
  <2> QED BY <1>1, <1>2, <2>2, <2>4
<1> HIDE DEF m
<1>5. /\ buf' \in Seq(Nat) /\ hand' \in Seq(Nat)
      /\ drain' \in {"started", "parked", "woken", "moving"}
      /\ Len(hand') = IF drain' = "moving" THEN 1 ELSE 0
      /\ Len(hand') + Len(buf') = Len(buf)
      /\ \A i \in 1..Len(hand') : hand'[i] = m + i
      /\ \A i \in 1..Len(buf') : buf'[i] = m + Len(hand') + i
      /\ drain' = "parked" => buf' = <<>>
  BY <1>1, <1>2, <1>3, DrainLoopStep
<1>6. Len(hand') \in Nat /\ Len(buf') \in Nat
  BY <1>5, LenProperties
<1>7. /\ back \in Seq(Control) /\ Cred \in Control /\ Len(back) \in Nat
  BY Lengths DEF IInv, TypeOK, Cred, Control
<1>8. /\ back' \in Seq(Control) /\ Len(back') = Len(back) + 1
      /\ \A i \in 1..Len(back) : back'[i] = back[i]
      /\ back'[Len(back) + 1] = Cred
  BY <1>1, <1>7, AppendProperties
<1>9. TypeOK' /\ NoLostWakeup'
  BY <1>1, <1>4, <1>5, <1>8 DEF IInv, TypeOK, NoLostWakeup, txVars
<1>10. CreditsConserved'
  <2> DEFINE k == Cardinality(CredIdx(back))
             h == Len(hand')
             b == Len(buf')
  <2>1. k \in Nat /\ credits \in Nat /\ nextSeq \in Nat /\ rxNext \in Nat
    BY Lengths DEF IInv, TypeOK
  <2>2. h \in Nat /\ b \in Nat /\ h + b = Len(buf)
    BY <1>5, <1>6
  <2>3. credits + k + 1 + (h + b) + (nextSeq - rxNext) = RX_CAP
    BY <1>2, <2>2 DEF IInv, CreditsConserved
  <2>4. /\ Cardinality(CredIdx(back')) = k + 1 /\ credits' = credits
        /\ nextSeq' = nextSeq /\ rxNext' = rxNext
    BY <1>1, <1>7, CredAppend DEF txVars, Cred
  <2> HIDE DEF k, h, b
  <2>5. credits + (k + 1) + h + b + (nextSeq - rxNext) = RX_CAP
    BY <2>1, <2>2, <2>3
  <2> QED BY <2>4, <2>5, Zenon DEF CreditsConserved, h, b
<1>11. OneNumbering' /\ InOrderOnce'
  <2> DEFINE h == Len(hand')
             b == Len(buf')
             n == Len(buf)
  <2>0. /\ rxNext = m + n /\ h + b = n
        /\ m \in Nat /\ n \in Nat /\ h \in Nat /\ b \in Nat
    BY <1>2, <1>5, <1>6 DEF m
  <2> HIDE DEF h, b, n
  <2>1. rxNext = m + h + b
    BY <2>0
  <2> USE DEF h, b
  <2> QED BY <1>1, <1>4, <1>5, <2>1
             DEF IInv, OneNumbering, InOrderOnce, txVars
<1>12. WindowAgreement'
  <2>1. \A i \in 1..Len(back') :
          back'[i].kind = "ACK" => back'[i].n < rxNext
    <3> TAKE i \in 1..Len(back')
    <3>1. CASE i = Len(back) + 1
      BY <1>8, <3>1 DEF Cred
    <3>2. CASE i # Len(back) + 1
      <4>1. i \in 1..Len(back) /\ back'[i] = back[i]
        BY <1>7, <1>8, <3>2
      <4> QED BY <4>1 DEF IInv, WindowAgreement
    <3> QED BY <3>1, <3>2
  <2> QED BY <1>1, <2>1 DEF IInv, WindowAgreement, txVars
<1>13. NoOverflow' /\ TimerCoversWindow'
  BY <1>1 DEF IInv, NoOverflow, TimerCoversWindow, txVars
<1> QED BY <1>9, <1>10, <1>11, <1>12, <1>13 DEF IInv

LEMMA StutterStep == IInv /\ UNCHANGED vars => IInv'
<1> SUFFICES ASSUME IInv, UNCHANGED vars PROVE IInv'
  OBVIOUS
<1>1. CreditsConserved'
  BY Zenon DEF IInv, CreditsConserved, vars, txVars, rxVars
<1>2. /\ TypeOK' /\ NoOverflow' /\ WindowAgreement' /\ TimerCoversWindow'
      /\ NoLostWakeup' /\ OneNumbering' /\ InOrderOnce'
  BY DEF IInv, TypeOK, NoOverflow, WindowAgreement, TimerCoversWindow,
         NoLostWakeup, OneNumbering, InOrderOnce, vars, txVars, rxVars
<1> QED BY <1>1, <1>2 DEF IInv

LEMMA NextIInv == IInv /\ [Next]_vars => IInv'
<1> SUFFICES ASSUME IInv, [Next]_vars PROVE IInv'
  OBVIOUS
<1>1. CASE Enqueue          BY <1>1, EnqueueStep
<1>2. CASE OnAck            BY <1>2, OnAckStep
<1>3. CASE OnCred           BY <1>3, OnCredStep
<1>4. CASE Timeout          BY <1>4, TimeoutStep
<1>5. CASE RxCorrupt        BY <1>5, RxDropStep
<1>6. CASE RxOutOfSequence  BY <1>6, RxDropStep
<1>7. CASE RxInSequence     BY <1>7, RxInSequenceStep
<1>8. CASE DrainResume      BY <1>8, DrainResumeStep
<1>9. CASE DrainDone        BY <1>9, DrainDoneStep
<1>10. CASE Finished        BY <1>10, StutterStep DEF Finished
<1>11. CASE UNCHANGED vars  BY <1>11, StutterStep
<1> QED BY <1>1, <1>2, <1>3, <1>4, <1>5, <1>6, <1>7, <1>8, <1>9, <1>10,
           <1>11 DEF Next

-----------------------------------------------------------------------------
(* The theorems *)

\* Every reachable state of the link satisfies the inductive invariant.
THEOREM LinkInvariant == Spec => []IInv
BY InitIInv, NextIInv, PTL DEF Spec

\* The link's state keeps its types: credits never go below zero.
THEOREM LinkTypes == Spec => []TypeOK
BY LinkInvariant, PTL DEF IInv

\* The receive buffer never overflows, for every window and every pool: the
\* README's "overflow impossible by construction".
THEOREM LinkNoOverflow == Spec => []NoOverflow
BY LinkInvariant, PTL DEF IInv

\* No slot of the pool is ever lost or made twice.
THEOREM LinkCredits == Spec => []CreditsConserved
BY LinkInvariant, PTL DEF IInv

\* Sender and receiver never disagree on what is still to be acknowledged.
THEOREM LinkWindow == Spec => []WindowAgreement
BY LinkInvariant, PTL DEF IInv

\* Packets are delivered once each and in order.
THEOREM LinkInOrder == Spec => []InOrderOnce
BY LinkInvariant, PTL DEF IInv

\* The link layer implements the FIFO channel (safety part): the only step
\* that delivers is DrainDone, and it delivers the next packet.
THEOREM LinkImplementsChannel == Spec => ImplementsChannel
<1>1. Init => Channel!ChannelInit
  BY DEF Init, Channel!ChannelInit
<1>2. IInv /\ [Next]_vars => [Channel!ChannelNext]_Channel!ChannelVars
  <2> SUFFICES ASSUME IInv, [Next]_vars
               PROVE  [Channel!ChannelNext]_Channel!ChannelVars
    OBVIOUS
  <2> USE DEF Channel!ChannelNext, Channel!ChannelVars
  <2>1. CASE Enqueue
    BY <2>1 DEF Enqueue, Channel!Submit
  <2>2. CASE DrainDone
    <3>1. /\ drain = "moving" /\ delivered' = delivered \o hand
          /\ UNCHANGED submitted
      BY <2>2 DEF DrainDone
    <3>2. /\ hand \in Seq(Nat) /\ delivered \in Seq(Nat) /\ Len(hand) = 1
          /\ hand[1] = Len(delivered) + 1
      BY <3>1 DEF IInv, TypeOK, OneNumbering
    <3>3. hand = <<Len(delivered) + 1>>
      BY <3>2
    <3>4. delivered' = Append(delivered, Len(delivered) + 1)
      BY <3>1, <3>2, <3>3, AppendIsConcat
    <3>5. Len(delivered) < submitted
      <4>1. /\ rxNext = Len(delivered) + 1 + Len(buf) /\ rxNext <= nextSeq
            /\ submitted = nextSeq + Len(q)
        BY <3>2 DEF IInv, OneNumbering, WindowAgreement
      <4>2. /\ Len(delivered) \in Nat /\ Len(buf) \in Nat /\ Len(q) \in Nat
            /\ nextSeq \in Nat
        BY Lengths DEF IInv, TypeOK
      <4> QED BY <4>1, <4>2
    <3> QED BY <3>1, <3>4, <3>5 DEF Channel!Deliver
  <2>3. CASE OnAck \/ OnCred \/ Timeout \/ RxCorrupt \/ RxOutOfSequence
               \/ RxInSequence \/ DrainResume \/ Finished
    BY <2>3 DEF OnAck, OnCred, Timeout, RxCorrupt, RxOutOfSequence,
                RxInSequence, DrainResume, Finished, vars
  <2>4. CASE UNCHANGED vars
    BY <2>4 DEF vars
  <2> QED BY <2>1, <2>2, <2>3, <2>4 DEF Next
<1> QED BY <1>1, <1>2, LinkInvariant, PTL DEF Spec, ImplementsChannel
-----------------------------------------------------------------------------
(* Messages: the inductive invariant *)

Part(m, k) == [msg |-> m, idx |-> k, data |-> k]
Chan(m) == <<Src[m], Dst[m]>>
Whole(m) == [i \in 1..Size[m] |-> <<m, i>>]

\* How a message's reassembly looks when its first n parts have come.
PartsIn(m, n) ==
  [slots |-> [i \in 1..Size[m] |-> IF i <= n THEN <<m, i>> ELSE Missing], n |-> n]

Parts == UNION {{Part(m, k) : k \in 1..Size[m]} : m \in Msgs}

MessagesTyped == /\ idx \in [Msgs -> Nat] /\ \A m \in Msgs : idx[m] <= Size[m]
         /\ dma \in [Boards -> Seq(Msgs)]
         /\ channel \in [Pairs -> Seq(Parts)]
         /\ mailbox \subseteq Msgs /\ waiting \subseteq Msgs
         /\ DOMAIN got = Msgs /\ DOMAIN reasm = Msgs

\* A message's first parts have come, in order, and no others.
InOrder == \A m \in Msgs : /\ reasm[m].n \in Nat /\ reasm[m].n <= idx[m]
                           /\ reasm[m] = PartsIn(m, reasm[m].n)

\* What is on a channel is of its messages, handed over and yet to come, ...
WireRight ==
  \A c \in Pairs : \A i \in 1..Len(channel[c]) :
    LET m == channel[c][i].msg IN
    Chan(m) = c /\ reasm[m].n < channel[c][i].idx /\ channel[c][i].idx <= idx[m]

\* ... each message's packets in order, ...
WireOrdered ==
  \A c \in Pairs : \A i, j \in 1..Len(channel[c]) :
    i < j /\ channel[c][i].msg = channel[c][j].msg => channel[c][i].idx < channel[c][j].idx

\* ... and all of those.
WireFull ==
  \A m \in Msgs : \A k \in (reasm[m].n + 1)..idx[m] :
    \E i \in 1..Len(channel[Chan(m)]) : channel[Chan(m)][i] = Part(m, k)

\* A send in a queue is there once, at its own board's, and has parts left.
Queued ==
  \A b \in Boards :
    /\ \A i \in 1..Len(dma[b]) : Src[dma[b][i]] = b /\ idx[dma[b][i]] < Size[dma[b][i]]
    /\ \A i, j \in 1..Len(dma[b]) : dma[b][i] = dma[b][j] => i = j

\* A message that has come whole is kept or was returned; of one that has not,
\* neither.
HandedOver ==
  \A m \in Msgs :
    /\ reasm[m].n = Size[m] => /\ m \notin waiting
                               /\ m \in mailbox => got[m] = Missing
                               /\ m \notin mailbox => got[m] = Whole(m)
    /\ reasm[m].n # Size[m] => m \notin mailbox /\ got[m] = Missing

MessagesIInv == MessagesTyped /\ InOrder /\ WireRight /\ WireOrdered /\ WireFull /\ Queued /\ HandedOver
-----------------------------------------------------------------------------
(* Messages: lemmas *)

LEMMA Sizes ==
  /\ PacketsPerSlice \in Nat /\ PacketsPerSlice >= 1
  /\ \A m \in Msgs : /\ Size[m] \in Nat /\ Size[m] >= 1
                     /\ Src[m] \in Boards /\ Dst[m] \in Boards /\ Chan(m) \in Pairs
BY MessageAssumption DEF Boards, Pairs, Chan

LEMMA WholeIsSomething == \A m \in Msgs : Whole(m) # Missing /\ PartsIn(m, Size[m]).slots = Whole(m)
<1> TAKE m \in Msgs
<1>1. 1 \in DOMAIN Whole(m)
  BY Sizes DEF Whole
<1>2. Whole(m) # Missing
  <2>1. DOMAIN Missing = {}
    BY DEF Missing
  <2>2. QED BY <1>1, <2>1
<1>3. \A i \in 1..Size[m] : i <= Size[m]
  BY Sizes
<1>4. QED BY <1>2, <1>3 DEF PartsIn, Whole

LEMMA PartFields ==
  ASSUME NEW p \in Parts
  PROVE  p.msg \in Msgs /\ p.idx \in 1..Size[p.msg] /\ p = Part(p.msg, p.idx)
BY DEF Parts, Part

LEMMA PartIs ==
  ASSUME NEW m, NEW k PROVE Part(m, k).msg = m /\ Part(m, k).idx = k
BY DEF Part

\* What a slice adds to a channel.
LEMMA WireGrows ==
  ASSUME NEW S, NEW x \in Seq(S), NEW k \in Nat, NEW y \in [1..k -> S]
  PROVE  /\ x \o y \in Seq(S) /\ Len(x \o y) = Len(x) + k
         /\ \A i \in 1..Len(x) : (x \o y)[i] = x[i]
         /\ \A i \in 1..k : (x \o y)[Len(x) + i] = y[i]
<1>1. y \in Seq(S) /\ Len(y) = k
  <2>1. y \in Seq(S)
    OBVIOUS
  <2>2. QED BY <2>1
<1>2. /\ x \o y \in Seq(S) /\ Len(x \o y) = Len(x) + Len(y)
      /\ \A i \in 1..(Len(x) + Len(y)) : (x \o y)[i] = IF i <= Len(x) THEN x[i] ELSE y[i - Len(x)]
  BY <1>1, ConcatProperties
<1>3. Len(x) \in Nat
  OBVIOUS
<1>4. \A i \in 1..Len(x) : i \in 1..(Len(x) + k) /\ i <= Len(x)
  BY <1>3
<1>5. \A i \in 1..k : Len(x) + i \in 1..(Len(x) + k) /\ ~(Len(x) + i <= Len(x)) /\ (Len(x) + i) - Len(x) = i
  BY <1>3
<1>6. QED BY <1>1, <1>2, <1>4, <1>5

\* What is left of a channel or of a queue without its head.
LEMMA WithoutHead ==
  ASSUME NEW S, NEW x \in Seq(S), x # <<>>
  PROVE  /\ Head(x) = x[1] /\ x[1] \in S /\ Tail(x) \in Seq(S)
         /\ Len(x) \in Nat /\ Len(x) >= 1 /\ Len(Tail(x)) = Len(x) - 1
         /\ \A i \in 1..(Len(x) - 1) : Tail(x)[i] = x[i + 1]
         /\ \A i \in 1..Len(x) : i = 1 \/ i - 1 \in 1..(Len(x) - 1)
<1>1. Len(x) \in Nat /\ Len(x) >= 1
  BY EmptySeq
<1>2. /\ Head(x) = x[1] /\ x[1] \in S /\ Tail(x) \in Seq(S) /\ Len(Tail(x)) = Len(x) - 1
  BY <1>1
<1>3. \A i \in 1..(Len(x) - 1) : Tail(x)[i] = x[i + 1]
  BY <1>1
<1>4. QED BY <1>1, <1>2, <1>3

\* A send that goes behind those that wait.
LEMMA QueuedBehind ==
  ASSUME NEW S, NEW x \in Seq(S), NEW a \in S,
         \A i \in 1..Len(x) : x[i] # a,
         \A i, j \in 1..Len(x) : x[i] = x[j] => i = j
  PROVE  /\ Append(x, a) \in Seq(S)
         /\ \A i \in 1..Len(Append(x, a)) :
              Append(x, a)[i] = a \/ \E j \in 1..Len(x) : Append(x, a)[i] = x[j]
         /\ \A i, j \in 1..Len(Append(x, a)) : Append(x, a)[i] = Append(x, a)[j] => i = j
<1>1. /\ Append(x, a) \in Seq(S) /\ Len(Append(x, a)) = Len(x) + 1 /\ Len(x) \in Nat
      /\ Append(x, a)[Len(x) + 1] = a /\ \A i \in 1..Len(x) : Append(x, a)[i] = x[i]
  OBVIOUS
<1>2. \A i \in 1..(Len(x) + 1) : i = Len(x) + 1 \/ i \in 1..Len(x)
  BY <1>1
<1> DEFINE y == Append(x, a)
<1>3. \A i \in 1..Len(y) : y[i] = a \/ \E j \in 1..Len(x) : y[i] = x[j]
  BY <1>1, <1>2
<1>4. \A i, j \in 1..Len(y) : y[i] = y[j] => i = j
  BY <1>1, <1>2
<1>5. QED BY <1>1, <1>3, <1>4
-----------------------------------------------------------------------------
(* Messages: every step keeps it *)

LEMMA MessagesInitRight == MessagesInit => MessagesIInv
<1> SUFFICES ASSUME MessagesInit PROVE MessagesIInv
  OBVIOUS
<1>1. \A m \in Msgs : idx[m] = 0 /\ got[m] = Missing /\ reasm[m] = PartsIn(m, 0) /\ reasm[m].n = 0
  <2> TAKE m \in Msgs
  <2>1. [i \in 1..Size[m] |-> Missing] = [i \in 1..Size[m] |-> IF i <= 0 THEN <<m, i>> ELSE Missing]
    BY Sizes
  <2>2. reasm[m] = [slots |-> [i \in 1..Size[m] |-> Missing], n |-> 0]
    BY DEF MessagesInit
  <2>3. PartsIn(m, 0) = [slots |-> [i \in 1..Size[m] |-> Missing], n |-> 0]
    BY <2>1 DEF PartsIn
  <2>4. reasm[m] = PartsIn(m, 0)
    BY <2>2, <2>3
  <2>5. reasm[m].n = 0
    BY <2>2
  <2>6. QED BY <2>4, <2>5 DEF MessagesInit
<1>2. (\A b \in Boards : dma[b] = <<>>) /\ (\A c \in Pairs : channel[c] = <<>>) /\ mailbox = {} /\ waiting = {}
  BY DEF MessagesInit
<1>3. MessagesTyped
  <2>1. \A m \in Msgs : 0 <= Size[m]
    BY Sizes
  <2>2. QED BY <1>1, <2>1 DEF MessagesInit, MessagesTyped
<1>4. InOrder
  BY <1>1 DEF InOrder
<1>5. \A c \in Pairs : Len(channel[c]) = 0
  BY <1>2
<1>6. WireRight /\ WireOrdered
  BY <1>5 DEF WireRight, WireOrdered
<1>7. WireFull
  BY <1>1 DEF WireFull
<1>8. Queued
  BY <1>2 DEF Queued
<1>9. HandedOver
  BY <1>1, <1>2, Sizes DEF HandedOver
<1>10. QED BY <1>3, <1>4, <1>6, <1>7, <1>8, <1>9 DEF MessagesIInv

LEMMA StartRight == ASSUME MessagesIInv, NEW m \in Msgs, Start(m) PROVE MessagesIInv'
<1>1. /\ idx[m] = 0 /\ ~Contains(dma[Src[m]], m)
      /\ dma' = [dma EXCEPT ![Src[m]] = Append(@, m)]
      /\ idx' = idx /\ channel' = channel /\ reasm' = reasm /\ mailbox' = mailbox
      /\ waiting' = waiting /\ got' = got
  BY DEF Start
<1>2. /\ idx \in [Msgs -> Nat] /\ dma \in [Boards -> Seq(Msgs)]
  BY DEF MessagesIInv, MessagesTyped
<1> DEFINE b == Src[m]
<1>3. b \in Boards /\ Size[m] >= 1 /\ Size[m] \in Nat
  BY Sizes
<1>4. dma[b] \in Seq(Msgs) /\ \A i \in 1..Len(dma[b]) : dma[b][i] # m
  <2>1. dma[b] \in Seq(Msgs)
    BY <1>2, <1>3
  <2>2. QED BY <1>1, <2>1 DEF Contains
<1>5. /\ \A i \in 1..Len(dma[b]) : Src[dma[b][i]] = b /\ idx[dma[b][i]] < Size[dma[b][i]]
      /\ \A i, j \in 1..Len(dma[b]) : dma[b][i] = dma[b][j] => i = j
  BY <1>3 DEF MessagesIInv, Queued
<1>6. /\ Append(dma[b], m) \in Seq(Msgs)
      /\ \A i \in 1..Len(Append(dma[b], m)) :
           Append(dma[b], m)[i] = m \/ \E j \in 1..Len(dma[b]) : Append(dma[b], m)[i] = dma[b][j]
      /\ \A i, j \in 1..Len(Append(dma[b], m)) :
           Append(dma[b], m)[i] = Append(dma[b], m)[j] => i = j
  BY <1>4, <1>5, QueuedBehind
<1>7. dma'[b] = Append(dma[b], m) /\ \A a \in Boards : a # b => dma'[a] = dma[a]
  BY <1>1, <1>2, <1>3
<1>8. MessagesTyped'
  BY <1>1, <1>2, <1>3, <1>6 DEF MessagesIInv, MessagesTyped
<1>9. Queued'
  <2> SUFFICES ASSUME NEW a \in Boards
               PROVE  /\ \A i \in 1..Len(dma'[a]) : Src[dma'[a][i]] = a /\ idx[dma'[a][i]] < Size[dma'[a][i]]
                      /\ \A i, j \in 1..Len(dma'[a]) : dma'[a][i] = dma'[a][j] => i = j
    BY <1>1 DEF Queued
  <2>1. CASE a = b
    <3>1. idx[m] < Size[m] /\ Src[m] = b
      BY <1>1, <1>3
    <3>2. \A i \in 1..Len(dma'[b]) : Src[dma'[b][i]] = b /\ idx[dma'[b][i]] < Size[dma'[b][i]]
      BY <1>5, <1>6, <1>7, <3>1
    <3>3. QED BY <1>6, <1>7, <2>1, <3>2
  <2>2. CASE a # b
    BY <1>7, <2>2 DEF MessagesIInv, Queued
  <2>3. QED BY <2>1, <2>2
<1>10. InOrder' /\ WireRight' /\ WireOrdered' /\ WireFull' /\ HandedOver'
  BY <1>1 DEF MessagesIInv, InOrder, WireRight, WireOrdered, WireFull, HandedOver
<1>11. QED BY <1>8, <1>9, <1>10 DEF MessagesIInv

LEMMA SliceRight == ASSUME MessagesIInv, NEW b \in Boards, Slice(b) PROVE MessagesIInv'
<1>1. PICK m, k : /\ m = Head(dma[b]) /\ k = SliceSize(m) /\ dma[b] # <<>>
                  /\ channel' = [channel EXCEPT ![<<b, Dst[m]>>] = @ \o NumberedParts(m, k)]
                  /\ idx' = [idx EXCEPT ![m] = @ + k]
                  /\ dma' = [dma EXCEPT ![b] = Released(b, idx[m] + k < Size[m])]
                  /\ reasm' = reasm /\ mailbox' = mailbox /\ waiting' = waiting /\ got' = got
  BY DEF Slice
<1>2. /\ idx \in [Msgs -> Nat] /\ dma \in [Boards -> Seq(Msgs)] /\ channel \in [Pairs -> Seq(Parts)]
  BY DEF MessagesIInv, MessagesTyped
<1>3. /\ dma[b] \in Seq(Msgs) /\ m = dma[b][1] /\ m \in Msgs
      /\ Tail(dma[b]) \in Seq(Msgs) /\ Len(dma[b]) \in Nat /\ Len(dma[b]) >= 1
      /\ Len(Tail(dma[b])) = Len(dma[b]) - 1
      /\ \A i \in 1..(Len(dma[b]) - 1) : Tail(dma[b])[i] = dma[b][i + 1]
  BY <1>1, <1>2, WithoutHead
<1>4. /\ \A i \in 1..Len(dma[b]) : Src[dma[b][i]] = b /\ idx[dma[b][i]] < Size[dma[b][i]]
      /\ \A i, j \in 1..Len(dma[b]) : dma[b][i] = dma[b][j] => i = j
  BY DEF MessagesIInv, Queued
<1>5. Src[m] = b /\ idx[m] < Size[m] /\ idx[m] \in Nat /\ Size[m] \in Nat
  <2>1. 1 \in 1..Len(dma[b])
    BY <1>3
  <2>2. QED BY <1>2, <1>3, <1>4, <2>1, Sizes
<1>6. k \in Nat /\ k >= 1 /\ idx[m] + k <= Size[m]
  <2>1. k = IF Size[m] - idx[m] < PacketsPerSlice THEN Size[m] - idx[m] ELSE PacketsPerSlice
    BY <1>1 DEF SliceSize
  <2>2. QED BY <1>5, <2>1, Sizes
<1> DEFINE c == Chan(m)
           y == NumberedParts(m, k)
<1>7. c \in Pairs /\ c = <<b, Dst[m]>> /\ channel[c] \in Seq(Parts)
  BY <1>2, <1>3, <1>5, Sizes DEF Chan
<1>8. y \in [1..k -> Parts] /\ \A i \in 1..k : y[i] = Part(m, idx[m] + i)
  <2>1. y = [i \in 1..k |-> Part(m, idx[m] + i)]
    BY DEF NumberedParts, Part
  <2>2. \A i \in 1..k : idx[m] + i \in 1..Size[m]
    BY <1>5, <1>6
  <2>3. \A i \in 1..k : Part(m, idx[m] + i) \in Parts
    BY <1>3, <2>2 DEF Parts
  <2>4. QED BY <2>1, <2>3
<1> HIDE DEF y
<1>9. /\ channel[c] \o y \in Seq(Parts) /\ Len(channel[c] \o y) = Len(channel[c]) + k
      /\ \A i \in 1..Len(channel[c]) : (channel[c] \o y)[i] = channel[c][i]
      /\ \A i \in 1..k : (channel[c] \o y)[Len(channel[c]) + i] = y[i]
  BY <1>6, <1>7, <1>8, WireGrows
<1>10. /\ channel'[c] = channel[c] \o y /\ \A a \in Pairs : a # c => channel'[a] = channel[a]
       /\ idx'[m] = idx[m] + k /\ \A w \in Msgs : w # m => idx'[w] = idx[w]
       /\ \A w \in Msgs : idx[w] \in Nat /\ idx'[w] \in Nat /\ idx[w] <= idx'[w]
  <2>1. channel'[c] = channel[c] \o y /\ \A a \in Pairs : a # c => channel'[a] = channel[a]
    BY <1>1, <1>2, <1>7 DEF y
  <2>2. idx'[m] = idx[m] + k /\ \A w \in Msgs : w # m => idx'[w] = idx[w]
    BY <1>1, <1>2, <1>3
  <2>3. \A w \in Msgs : idx[w] \in Nat /\ idx'[w] \in Nat /\ idx[w] <= idx'[w]
    BY <1>2, <1>6, <2>2
  <2>4. QED BY <2>1, <2>2, <2>3
<1> HIDE DEF c
<1>11. Len(channel[c]) \in Nat /\ \A i \in 1..Len(channel'[c]) :
          i \in 1..Len(channel[c]) \/ (i - Len(channel[c]) \in 1..k /\ Len(channel[c]) + (i - Len(channel[c])) = i)
  <2>1. Len(channel[c]) \in Nat
    BY <1>7
  <2>2. Len(channel'[c]) = Len(channel[c]) + k
    BY <1>9, <1>10
  <2>3. QED BY <1>6, <2>1, <2>2
\* A packet on the channel was there before, or is one of the new ones.
<1>12. \A i \in 1..Len(channel'[c]) :
         \/ i \in 1..Len(channel[c]) /\ channel'[c][i] = channel[c][i]
         \/ /\ i - Len(channel[c]) \in 1..k
            /\ channel'[c][i].msg = m /\ channel'[c][i].idx = idx[m] + (i - Len(channel[c]))
  <2> TAKE i \in 1..Len(channel'[c])
  <2>1. CASE i \in 1..Len(channel[c])
    BY <1>9, <1>10, <2>1
  <2>2. CASE i - Len(channel[c]) \in 1..k /\ Len(channel[c]) + (i - Len(channel[c])) = i
    <3>1. channel'[c][i] = Part(m, idx[m] + (i - Len(channel[c])))
      BY <1>8, <1>9, <1>10, <2>2
    <3>2. QED BY <2>2, <3>1, PartIs
  <2>3. QED BY <1>11, <2>1, <2>2
<1>13. MessagesTyped'
  <2>1. idx' \in [Msgs -> Nat]
    BY <1>1, <1>2, <1>10
  <2>2. \A w \in Msgs : idx'[w] <= Size[w]
    BY <1>6, <1>10 DEF MessagesIInv, MessagesTyped
  <2>3. channel' \in [Pairs -> Seq(Parts)]
    BY <1>1, <1>2, <1>7, <1>9, <1>10
  <2>4. Released(b, idx[m] + k < Size[m]) \in Seq(Msgs)
    BY <1>1, <1>3 DEF Released
  <2>5. dma' \in [Boards -> Seq(Msgs)]
    BY <1>1, <1>2, <2>4
  <2>6. QED BY <1>1, <2>1, <2>2, <2>3, <2>5 DEF MessagesIInv, MessagesTyped
<1>14. InOrder'
  <2> SUFFICES ASSUME NEW w \in Msgs
               PROVE  reasm[w].n \in Nat /\ reasm[w].n <= idx'[w] /\ reasm[w] = PartsIn(w, reasm[w].n)
    BY <1>1 DEF InOrder
  <2>1. reasm[w].n \in Nat /\ reasm[w].n <= idx[w] /\ reasm[w] = PartsIn(w, reasm[w].n)
    BY DEF MessagesIInv, InOrder
  <2>2. QED BY <1>10, <2>1
<1>15. \A w \in Msgs : reasm[w].n \in Nat /\ reasm[w].n <= idx[w]
  BY DEF MessagesIInv, InOrder
<1>16. WireRight'
  <2> SUFFICES ASSUME NEW a \in Pairs, NEW i \in 1..Len(channel'[a])
               PROVE  /\ Chan(channel'[a][i].msg) = a /\ reasm[channel'[a][i].msg].n < channel'[a][i].idx
                      /\ channel'[a][i].idx <= idx'[channel'[a][i].msg]
    BY <1>1 DEF WireRight, Chan
  <2>1. ASSUME i \in 1..Len(channel[a]), channel'[a][i] = channel[a][i]
        PROVE  /\ Chan(channel'[a][i].msg) = a /\ reasm[channel'[a][i].msg].n < channel'[a][i].idx
               /\ channel'[a][i].idx <= idx'[channel'[a][i].msg]
    <3>1. /\ Chan(channel[a][i].msg) = a /\ reasm[channel[a][i].msg].n < channel[a][i].idx
          /\ channel[a][i].idx <= idx[channel[a][i].msg]
      BY <2>1 DEF MessagesIInv, WireRight
    <3>2. channel[a][i] \in Parts
      BY <1>2, <2>1
    <3>3. channel[a][i].msg \in Msgs /\ channel[a][i].idx \in Nat
      BY <3>2, PartFields, Sizes
    <3>4. QED BY <1>10, <2>1, <3>1, <3>3
  <2>2. CASE a # c
    BY <1>10, <2>1, <2>2
  <2>3. CASE a = c /\ i \in 1..Len(channel[c]) /\ channel'[c][i] = channel[c][i]
    BY <2>1, <2>3
  <2>4. CASE /\ a = c /\ i - Len(channel[c]) \in 1..k
             /\ channel'[c][i].msg = m /\ channel'[c][i].idx = idx[m] + (i - Len(channel[c]))
    <3>1. idx[m] < channel'[c][i].idx /\ channel'[c][i].idx <= idx[m] + k /\ channel'[c][i].idx \in Nat
      BY <1>5, <1>6, <2>4
    <3>2. reasm[m].n < channel'[c][i].idx
      BY <1>3, <1>5, <1>15, <3>1
    <3>3. QED BY <1>10, <2>4, <3>1, <3>2 DEF c
  <2>5. QED BY <1>12, <2>2, <2>3, <2>4
<1>17. WireOrdered'
  <2> SUFFICES ASSUME NEW a \in Pairs, NEW i \in 1..Len(channel'[a]), NEW j \in 1..Len(channel'[a]),
                      i < j, channel'[a][i].msg = channel'[a][j].msg
               PROVE  channel'[a][i].idx < channel'[a][j].idx
    BY DEF WireOrdered
  <2>1. CASE a # c
    BY <1>10, <2>1 DEF MessagesIInv, WireOrdered
  <2>2. CASE a = c /\ j \in 1..Len(channel[c]) /\ channel'[c][j] = channel[c][j]
    <3>1. i \in 1..Len(channel[c])
      BY <1>11, <2>2
    <3>2. channel'[c][i] = channel[c][i]
      BY <1>9, <1>10, <3>1
    <3>3. QED BY <1>7, <2>2, <3>1, <3>2 DEF MessagesIInv, WireOrdered
  <2>3. CASE /\ a = c /\ j - Len(channel[c]) \in 1..k
             /\ channel'[c][j].msg = m /\ channel'[c][j].idx = idx[m] + (j - Len(channel[c]))
    <3>1. CASE i \in 1..Len(channel[c]) /\ channel'[c][i] = channel[c][i]
      <4>1. channel[c][i].idx <= idx[m]
        BY <1>7, <2>3, <3>1 DEF MessagesIInv, WireRight
      <4>2. channel[c][i] \in Parts
        BY <1>7, <3>1
      <4>3. channel[c][i].idx \in Nat
        BY <4>2, PartFields, Sizes
      <4>4. QED BY <1>5, <2>3, <3>1, <4>1, <4>3
    <3>2. CASE i - Len(channel[c]) \in 1..k /\ channel'[c][i].idx = idx[m] + (i - Len(channel[c]))
      BY <1>5, <1>11, <2>3, <3>2
    <3>3. QED BY <1>12, <2>3, <3>1, <3>2
  <2>4. QED BY <1>12, <2>1, <2>2, <2>3
<1>18. WireFull'
  <2> SUFFICES ASSUME NEW w \in Msgs, NEW n \in (reasm[w].n + 1)..idx'[w]
               PROVE  \E i \in 1..Len(channel'[Chan(w)]) : channel'[Chan(w)][i] = Part(w, n)
    BY <1>1 DEF WireFull, Chan, Part
  <2>1. Chan(w) \in Pairs /\ n \in Nat
    BY <1>15, Sizes
  <2>2. ASSUME n <= idx[w]
        PROVE  \E i \in 1..Len(channel'[Chan(w)]) : channel'[Chan(w)][i] = Part(w, n)
    <3>1. n \in (reasm[w].n + 1)..idx[w]
      BY <1>10, <1>15, <2>1, <2>2
    <3>2. PICK i \in 1..Len(channel[Chan(w)]) : channel[Chan(w)][i] = Part(w, n)
      BY <3>1 DEF MessagesIInv, WireFull
    <3>3. CASE Chan(w) # c
      BY <1>10, <2>1, <3>2, <3>3
    <3>4. CASE Chan(w) = c
      <4>1. i \in 1..Len(channel'[c]) /\ channel'[c][i] = channel[c][i]
        BY <1>6, <1>9, <1>10, <1>11, <3>2, <3>4
      <4>2. QED BY <3>2, <3>4, <4>1
    <3>5. QED BY <3>3, <3>4
  <2>3. ASSUME ~(n <= idx[w])
        PROVE  \E i \in 1..Len(channel'[Chan(w)]) : channel'[Chan(w)][i] = Part(w, n)
    <3>1. w = m
      BY <1>10, <2>3
    <3>2. n - idx[m] \in 1..k /\ idx[m] + (n - idx[m]) = n
      BY <1>5, <1>6, <1>10, <2>1, <2>3, <3>1
    <3>3. Len(channel[c]) + (n - idx[m]) \in 1..Len(channel'[c])
      <4>1. Len(channel'[c]) = Len(channel[c]) + k /\ Len(channel[c]) \in Nat
        BY <1>9, <1>10, <1>11
      <4>2. \A j \in 1..k : Len(channel[c]) + j \in 1..(Len(channel[c]) + k)
        BY <1>6, <4>1
      <4>3. QED BY <3>2, <4>1, <4>2
    <3>4. channel'[c][Len(channel[c]) + (n - idx[m])] = Part(m, n)
      BY <1>8, <1>9, <1>10, <3>2
    <3>5. QED BY <3>1, <3>3, <3>4 DEF c
  <2>4. QED BY <2>2, <2>3
<1>19. Queued'
  <2> DEFINE x == Tail(dma[b])
  <2>1. \A i \in 1..Len(x) : i + 1 \in 1..Len(dma[b]) /\ x[i] = dma[b][i + 1] /\ i + 1 # 1
    BY <1>3
  <2>2. /\ \A i \in 1..Len(x) : Src[x[i]] = b /\ x[i] # m /\ x[i] \in Msgs
      /\ \A i, j \in 1..Len(x) : x[i] = x[j] => i = j
    <3>1. 1 \in 1..Len(dma[b])
      BY <1>3
    <3>2. \A i \in 1..Len(x) : Src[x[i]] = b /\ x[i] # m
      BY <1>3, <1>4, <2>1, <3>1
    <3>3. \A i \in 1..Len(x) : x[i] \in Msgs
      BY <1>3
    <3>4. \A i, j \in 1..Len(x) : x[i] = x[j] => i + 1 = j + 1
      BY <1>4, <2>1
    <3>5. \A i, j \in 1..Len(x) : i + 1 = j + 1 => i = j
      OBVIOUS
    <3>6. QED BY <3>2, <3>3, <3>4, <3>5
  <2>3. \A i \in 1..Len(x) : idx'[x[i]] < Size[x[i]]
    BY <1>4, <1>10, <2>1, <2>2
  <2>4. x \in Seq(Msgs) /\ \A a \in Boards : a # b => dma'[a] = dma[a]
    BY <1>1, <1>2, <1>3
  <2>5. dma'[b] = Released(b, idx[m] + k < Size[m])
    BY <1>1, <1>2
  <2> HIDE DEF x
  <2>6. /\ \A i \in 1..Len(dma'[b]) : Src[dma'[b][i]] = b /\ idx'[dma'[b][i]] < Size[dma'[b][i]]
        /\ \A i, j \in 1..Len(dma'[b]) : dma'[b][i] = dma'[b][j] => i = j
    <3>1. CASE idx[m] + k < Size[m]
      <4>1. dma'[b] = Append(x, m)
        BY <1>1, <2>5, <3>1 DEF Released, x
      <4>2. /\ \A i \in 1..Len(Append(x, m)) :
                 Append(x, m)[i] = m \/ \E j \in 1..Len(x) : Append(x, m)[i] = x[j]
            /\ \A i, j \in 1..Len(Append(x, m)) : Append(x, m)[i] = Append(x, m)[j] => i = j
        BY <1>3, <2>2, <2>4, QueuedBehind
      <4>3. idx'[m] < Size[m] /\ Src[m] = b
        BY <1>5, <1>10, <3>1
      <4>4. QED BY <2>2, <2>3, <4>1, <4>2, <4>3
    <3>2. CASE ~(idx[m] + k < Size[m])
      <4>1. dma'[b] = x
        BY <2>5, <3>2 DEF Released, x
      <4>2. QED BY <2>2, <2>3, <4>1
    <3>3. QED BY <3>1, <3>2
  <2>7. \A a \in Boards : a # b =>
          /\ \A i \in 1..Len(dma'[a]) : Src[dma'[a][i]] = a /\ idx'[dma'[a][i]] < Size[dma'[a][i]]
          /\ \A i, j \in 1..Len(dma'[a]) : dma'[a][i] = dma'[a][j] => i = j
    <3> SUFFICES ASSUME NEW a \in Boards, a # b
                 PROVE  /\ \A i \in 1..Len(dma[a]) : Src[dma[a][i]] = a /\ idx'[dma[a][i]] < Size[dma[a][i]]
                        /\ \A i, j \in 1..Len(dma[a]) : dma[a][i] = dma[a][j] => i = j
      BY <2>4
    <3>1. /\ \A i \in 1..Len(dma[a]) : Src[dma[a][i]] = a /\ idx[dma[a][i]] < Size[dma[a][i]]
          /\ \A i, j \in 1..Len(dma[a]) : dma[a][i] = dma[a][j] => i = j
      BY DEF MessagesIInv, Queued
    <3>2. \A i \in 1..Len(dma[a]) : dma[a][i] \in Msgs /\ dma[a][i] # m
      BY <1>2, <1>5, <3>1
    <3>3. QED BY <1>10, <3>1, <3>2
  <2>8. QED BY <2>6, <2>7 DEF Queued
<1>20. HandedOver'
  BY <1>1 DEF MessagesIInv, HandedOver, Whole
<1>21. QED BY <1>13, <1>14, <1>16, <1>17, <1>18, <1>19, <1>20 DEF MessagesIInv

LEMMA DeliverRight == ASSUME MessagesIInv, NEW c \in Pairs, Deliver(c) PROVE MessagesIInv'
<1>1. PICK p, m, e :
        /\ p = Head(channel[c]) /\ m = p.msg
        /\ e = [slots |-> [reasm[m].slots EXCEPT ![p.idx] = <<m, p.data>>], n |-> reasm[m].n + 1]
        /\ channel[c] # <<>>
        /\ channel' = [channel EXCEPT ![c] = Tail(@)]
        /\ reasm' = [reasm EXCEPT ![m] = e]
        /\ IF ~Complete(m, e) THEN UNCHANGED <<mailbox, waiting, got>>
           ELSE IF Kept(m)
             THEN mailbox' = mailbox \cup {m} /\ UNCHANGED <<waiting, got>>
             ELSE /\ waiting' = waiting \ {m} /\ UNCHANGED mailbox
                  /\ got' = [got EXCEPT ![m] = e.slots]
        /\ idx' = idx /\ dma' = dma
  BY DEF Deliver
<1>2. /\ idx \in [Msgs -> Nat] /\ dma \in [Boards -> Seq(Msgs)] /\ channel \in [Pairs -> Seq(Parts)]
      /\ mailbox \subseteq Msgs /\ waiting \subseteq Msgs /\ DOMAIN got = Msgs /\ DOMAIN reasm = Msgs
      /\ \A w \in Msgs : idx[w] <= Size[w]
  BY DEF MessagesIInv, MessagesTyped
<1>3. channel[c] \in Seq(Parts)
  BY <1>2
<1>4. /\ p = channel[c][1] /\ p \in Parts /\ Tail(channel[c]) \in Seq(Parts)
      /\ Len(channel[c]) \in Nat /\ Len(channel[c]) >= 1 /\ Len(Tail(channel[c])) = Len(channel[c]) - 1
      /\ \A i \in 1..(Len(channel[c]) - 1) : Tail(channel[c])[i] = channel[c][i + 1]
      /\ \A i \in 1..Len(channel[c]) : i = 1 \/ i - 1 \in 1..(Len(channel[c]) - 1)
  BY <1>1, <1>3, WithoutHead
<1>5. m \in Msgs /\ p.idx \in 1..Size[m] /\ p = Part(m, p.idx) /\ p.data = p.idx
  <2>1. m \in Msgs /\ p.idx \in 1..Size[m] /\ p = Part(m, p.idx)
    BY <1>1, <1>4, PartFields
  <2>2. QED BY <2>1 DEF Part
<1>6. \A w \in Msgs : /\ reasm[w].n \in Nat /\ reasm[w].n <= idx[w] /\ idx[w] \in Nat
                      /\ reasm[w] = PartsIn(w, reasm[w].n) /\ Size[w] \in Nat /\ idx[w] <= Size[w]
  BY <1>2, Sizes DEF MessagesIInv, InOrder
<1>7. 1 \in 1..Len(channel[c]) /\ Chan(m) = c /\ reasm[m].n < p.idx /\ p.idx <= idx[m]
  <2>1. 1 \in 1..Len(channel[c])
    BY <1>4
  <2>2. QED BY <1>1, <1>4, <2>1 DEF MessagesIInv, WireRight
<1>o. \A i \in 1..Len(channel[c]) : i # 1 /\ channel[c][i].msg = m => p.idx < channel[c][i].idx
  <2>1. \A i, j \in 1..Len(channel[c]) :
          i < j /\ channel[c][i].msg = channel[c][j].msg => channel[c][i].idx < channel[c][j].idx
    BY DEF MessagesIInv, WireOrdered
  <2>2. channel[c][1].msg = m /\ channel[c][1].idx = p.idx
    BY <1>1, <1>4
  <2>3. \A i \in 1..Len(channel[c]) : i # 1 => 1 < i
    OBVIOUS
  <2>4. QED BY <1>7, <2>1, <2>2, <2>3
\* The oldest packet of a message is the one its reassembly lacks.
<1>8. p.idx = reasm[m].n + 1
  <2>1. reasm[m].n + 1 \in (reasm[m].n + 1)..idx[m]
    BY <1>5, <1>6, <1>7
  <2>2. PICK i \in 1..Len(channel[c]) : channel[c][i] = Part(m, reasm[m].n + 1)
    BY <1>5, <1>7, <2>1 DEF MessagesIInv, WireFull
  <2>3. channel[c][i].msg = m /\ channel[c][i].idx = reasm[m].n + 1
    BY <2>2, PartIs
  <2>4. CASE i = 1
    BY <1>4, <2>3, <2>4
  <2>5. CASE i # 1
    <3>1. p.idx < channel[c][i].idx
      BY <1>o, <2>3, <2>5
    <3>2. QED BY <1>5, <1>6, <1>7, <2>3, <3>1
  <2>6. QED BY <2>4, <2>5
<1>9. e = PartsIn(m, reasm[m].n + 1) /\ e.n = reasm[m].n + 1
  <2> DEFINE n == reasm[m].n
             f == [i \in 1..Size[m] |-> IF i <= n THEN <<m, i>> ELSE Missing]
             g == [i \in 1..Size[m] |-> IF i <= n + 1 THEN <<m, i>> ELSE Missing]
  <2>1. reasm[m].slots = f
    <3>1. PartsIn(m, n).slots = f
      BY DEF PartsIn
    <3>2. reasm[m] = PartsIn(m, n)
      BY <1>5, <1>6
    <3>3. QED BY <3>1, <3>2
  <2>2. n \in Nat /\ n + 1 \in 1..Size[m] /\ p.idx = n + 1 /\ p.data = n + 1
    BY <1>5, <1>6, <1>8
  <2>3. [f EXCEPT ![n + 1] = <<m, n + 1>>] = g
    <3> HIDE DEF n
    <3>1. \A i \in 1..Size[m] : (i <= n + 1 <=> i <= n \/ i = n + 1) /\ (i = n + 1 => ~(i <= n))
      BY <2>2
    <3>2. QED BY <2>2, <3>1
  <2>4. e = [slots |-> [f EXCEPT ![n + 1] = <<m, n + 1>>], n |-> n + 1]
    BY <1>1, <2>1, <2>2
  <2>5. QED BY <2>3, <2>4 DEF PartsIn
<1>10. /\ channel'[c] = Tail(channel[c]) /\ \A a \in Pairs : a # c => channel'[a] = channel[a]
       /\ reasm'[m] = e /\ \A w \in Msgs : w # m => reasm'[w] = reasm[w]
  BY <1>1, <1>2, <1>5
<1>11. Len(channel'[c]) = Len(channel[c]) - 1
       /\ \A i \in 1..Len(channel'[c]) : i + 1 \in 1..Len(channel[c]) /\ channel'[c][i] = channel[c][i + 1] /\ 1 < i + 1
  BY <1>4, <1>10
<1>12. MessagesTyped'
  <2>1. channel' \in [Pairs -> Seq(Parts)] /\ DOMAIN reasm' = Msgs
    BY <1>1, <1>2, <1>4
  <2>2. mailbox' \subseteq Msgs /\ waiting' \subseteq Msgs /\ DOMAIN got' = Msgs
    BY <1>1, <1>2, <1>5
  <2>3. QED BY <1>1, <1>2, <2>1, <2>2 DEF MessagesTyped
<1>13. InOrder'
  <2> SUFFICES ASSUME NEW w \in Msgs
               PROVE  reasm'[w].n \in Nat /\ reasm'[w].n <= idx[w] /\ reasm'[w] = PartsIn(w, reasm'[w].n)
    BY <1>1 DEF InOrder
  <2>1. CASE w = m
    BY <1>6, <1>7, <1>8, <1>9, <1>10, <2>1
  <2>2. CASE w # m
    BY <1>6, <1>10, <2>2
  <2>3. QED BY <2>1, <2>2
<1>14. WireRight'
  <2> SUFFICES ASSUME NEW a \in Pairs, NEW i \in 1..Len(channel'[a])
               PROVE  /\ Chan(channel'[a][i].msg) = a /\ reasm'[channel'[a][i].msg].n < channel'[a][i].idx
                      /\ channel'[a][i].idx <= idx[channel'[a][i].msg]
    BY <1>1 DEF WireRight, Chan
  <2>1. CASE a # c
    <3>1. /\ Chan(channel[a][i].msg) = a /\ reasm[channel[a][i].msg].n < channel[a][i].idx
          /\ channel[a][i].idx <= idx[channel[a][i].msg] /\ channel'[a] = channel[a] /\ i \in 1..Len(channel[a])
      BY <1>10, <2>1 DEF MessagesIInv, WireRight
    <3>2. channel[a][i] \in Parts
      BY <1>2, <3>1
    <3>3. channel[a][i].msg \in Msgs /\ channel[a][i].msg # m
      BY <1>7, <2>1, <3>1, <3>2, PartFields
    <3>4. QED BY <1>10, <3>1, <3>3
  <2>2. CASE a = c
    <3>1. /\ Chan(channel[c][i + 1].msg) = c /\ reasm[channel[c][i + 1].msg].n < channel[c][i + 1].idx
          /\ channel[c][i + 1].idx <= idx[channel[c][i + 1].msg]
          /\ i + 1 \in 1..Len(channel[c]) /\ channel'[c][i] = channel[c][i + 1] /\ 1 < i + 1
      BY <1>11, <2>2 DEF MessagesIInv, WireRight
    <3>2. channel[c][i + 1] \in Parts
      BY <1>3, <3>1
    <3>3. channel[c][i + 1].msg \in Msgs
      BY <3>2, PartFields
    <3>4. reasm'[channel[c][i + 1].msg].n < channel[c][i + 1].idx
      <4>1. CASE channel[c][i + 1].msg = m
        <5>1. p.idx < channel[c][i + 1].idx
          BY <1>o, <3>1, <4>1
        <5>2. reasm'[m].n = p.idx
          BY <1>8, <1>9, <1>10
        <5>3. QED BY <4>1, <5>1, <5>2
      <4>2. CASE channel[c][i + 1].msg # m
        BY <1>10, <3>1, <3>3, <4>2
      <4>3. QED BY <4>1, <4>2
    <3>5. QED BY <2>2, <3>1, <3>4
  <2>3. QED BY <2>1, <2>2
<1>15. WireOrdered'
  <2> SUFFICES ASSUME NEW a \in Pairs, NEW i \in 1..Len(channel'[a]), NEW j \in 1..Len(channel'[a]),
                      i < j, channel'[a][i].msg = channel'[a][j].msg
               PROVE  channel'[a][i].idx < channel'[a][j].idx
    BY DEF WireOrdered
  <2>1. CASE a # c
    BY <1>10, <2>1 DEF MessagesIInv, WireOrdered
  <2>2. CASE a = c
    <3>1. /\ i + 1 \in 1..Len(channel[c]) /\ channel'[c][i] = channel[c][i + 1]
          /\ j + 1 \in 1..Len(channel[c]) /\ channel'[c][j] = channel[c][j + 1]
      BY <1>11, <2>2
    <3>2. i + 1 < j + 1
      OBVIOUS
    <3>3. QED BY <2>2, <3>1, <3>2 DEF MessagesIInv, WireOrdered
  <2>3. QED BY <2>1, <2>2
<1>16. WireFull'
  <2> SUFFICES ASSUME NEW w \in Msgs, NEW n \in (reasm'[w].n + 1)..idx[w]
               PROVE  \E i \in 1..Len(channel'[Chan(w)]) : channel'[Chan(w)][i] = Part(w, n)
    BY <1>1 DEF WireFull, Chan, Part
  <2>1. n \in (reasm[w].n + 1)..idx[w] /\ (w = m => n # p.idx)
    <3>1. CASE w = m
      BY <1>6, <1>8, <1>9, <1>10, <3>1
    <3>2. CASE w # m
      BY <1>10, <3>2
    <3>3. QED BY <3>1, <3>2
  <2>2. PICK i \in 1..Len(channel[Chan(w)]) : channel[Chan(w)][i] = Part(w, n)
    BY <2>1 DEF MessagesIInv, WireFull
  <2>3. CASE Chan(w) # c
    BY <1>10, <2>2, <2>3, Sizes
  <2>4. CASE Chan(w) = c
    <3>1. i # 1
      <4>1. channel[c][i].msg = w /\ channel[c][i].idx = n
        BY <2>2, <2>4, PartIs
      <4>2. QED BY <1>1, <1>4, <2>1, <4>1
    <3>2. i - 1 \in 1..Len(channel'[c]) /\ (i - 1) + 1 = i
      BY <1>4, <1>11, <2>2, <2>4, <3>1
    <3>3. channel'[c][i - 1] = channel[c][i]
      BY <1>11, <3>2
    <3>4. QED BY <2>2, <2>4, <3>2, <3>3
  <2>5. QED BY <2>3, <2>4
<1>17. Queued'
  BY <1>1 DEF MessagesIInv, Queued
<1>18. reasm[m].n # Size[m] /\ m \notin mailbox /\ got[m] = Missing
  <2>1. reasm[m].n # Size[m]
    BY <1>5, <1>6, <1>8
  <2>2. QED BY <1>5, <2>1 DEF MessagesIInv, HandedOver
<1>19. HandedOver'
  <2> SUFFICES ASSUME NEW w \in Msgs
               PROVE  /\ reasm'[w].n = Size[w] => /\ w \notin waiting'
                                                  /\ w \in mailbox' => got'[w] = Missing
                                                  /\ w \notin mailbox' => got'[w] = Whole(w)
                      /\ reasm'[w].n # Size[w] => w \notin mailbox' /\ got'[w] = Missing
    BY DEF HandedOver, Whole
  <2>1. CASE w # m
    <3>1. /\ w \in mailbox' <=> w \in mailbox
          /\ w \in waiting' <=> w \in waiting
          /\ got'[w] = got[w]
      BY <1>1, <1>2, <2>1
    <3>2. QED BY <1>10, <2>1, <3>1 DEF MessagesIInv, HandedOver
  <2>2. CASE w = m /\ ~Complete(m, e)
    <3>1. mailbox' = mailbox /\ got' = got /\ reasm'[m].n # Size[m]
      BY <1>1, <1>10, <2>2 DEF Complete
    <3>2. QED BY <1>18, <2>2, <3>1
  <2>3. CASE w = m /\ Complete(m, e) /\ Kept(m)
    <3>1. /\ mailbox' = mailbox \cup {m} /\ waiting' = waiting /\ got' = got
          /\ reasm'[m].n = Size[m] /\ m \notin waiting
      BY <1>1, <1>10, <2>3 DEF Complete, Kept
    <3>2. QED BY <1>18, <2>3, <3>1
  <2>4. CASE w = m /\ Complete(m, e) /\ ~Kept(m)
    <3>1. /\ waiting' = waiting \ {m} /\ mailbox' = mailbox /\ got' = [got EXCEPT ![m] = e.slots]
          /\ reasm'[m].n = Size[m] /\ e.n = Size[m]
      BY <1>1, <1>10, <2>4 DEF Complete, Kept
    <3>2. e.slots = Whole(m)
      <4>1. e = PartsIn(m, Size[m])
        BY <1>9, <3>1
      <4>2. QED BY <1>5, <4>1, WholeIsSomething
    <3>3. got'[m] = Whole(m)
      BY <1>2, <1>5, <3>1, <3>2
    <3>4. QED BY <1>18, <2>4, <3>1, <3>3
  <2>5. QED BY <2>1, <2>2, <2>3, <2>4
<1>20. QED BY <1>12, <1>13, <1>14, <1>15, <1>16, <1>17, <1>19 DEF MessagesIInv

LEMMA RecvRight == ASSUME MessagesIInv, NEW m \in Msgs, Recv(m) PROVE MessagesIInv'
<1>1. /\ m \notin waiting /\ got[m] = Missing
      /\ idx' = idx /\ dma' = dma /\ channel' = channel /\ reasm' = reasm
  BY DEF Recv
<1>2. /\ mailbox \subseteq Msgs /\ waiting \subseteq Msgs /\ DOMAIN got = Msgs
  BY DEF MessagesIInv, MessagesTyped
<1>3. \A w \in Msgs :
        /\ reasm[w].n = Size[w] => /\ w \notin waiting
                                   /\ w \in mailbox => got[w] = Missing
                                   /\ w \notin mailbox => got[w] = Whole(w)
        /\ reasm[w].n # Size[w] => w \notin mailbox /\ got[w] = Missing
  BY DEF MessagesIInv, HandedOver
<1>4. MessagesTyped' /\ HandedOver'
  <2>1. CASE Here(m)
    <3>1. /\ m \in mailbox /\ mailbox' = mailbox \ {m} /\ waiting' = waiting
          /\ got' = [got EXCEPT ![m] = reasm[m].slots]
      BY <2>1 DEF Recv, Here
    <3>2. reasm[m].n = Size[m]
      BY <1>3, <3>1
    <3>3. reasm[m].slots = Whole(m)
      <4>1. reasm[m] = PartsIn(m, Size[m])
        BY <3>2 DEF MessagesIInv, InOrder
      <4>2. QED BY <4>1, WholeIsSomething
    <3>4. got'[m] = Whole(m) /\ (\A w \in Msgs : w # m => got'[w] = got[w]) /\ DOMAIN got' = Msgs
      BY <1>2, <3>1, <3>3
    <3>5. MessagesTyped'
      BY <1>1, <3>1, <3>4 DEF MessagesIInv, MessagesTyped
    <3>6. HandedOver'
      BY <1>1, <1>3, <3>1, <3>2, <3>4 DEF HandedOver, Whole
    <3>7. QED BY <3>5, <3>6
  <2>2. CASE ~Here(m)
    <3>1. m \notin mailbox /\ mailbox' = mailbox /\ waiting' = waiting \cup {m} /\ got' = got
      BY <2>2 DEF Recv, Here
    <3>2. reasm[m].n # Size[m]
      BY <1>1, <1>3, <3>1, WholeIsSomething
    <3>3. MessagesTyped'
      BY <1>1, <3>1 DEF MessagesIInv, MessagesTyped
    <3>4. HandedOver'
      BY <1>1, <1>3, <3>1, <3>2 DEF HandedOver, Whole
    <3>5. QED BY <3>3, <3>4
  <2>3. QED BY <2>1, <2>2
<1>5. InOrder' /\ WireRight' /\ WireOrdered' /\ WireFull' /\ Queued'
  BY <1>1 DEF MessagesIInv, InOrder, WireRight, WireOrdered, WireFull, Queued
<1>6. QED BY <1>4, <1>5 DEF MessagesIInv

LEMMA MessagesNextRight == MessagesIInv /\ [MessagesNext]_messagesVars => MessagesIInv'
<1> SUFFICES ASSUME MessagesIInv, [MessagesNext]_messagesVars PROVE MessagesIInv'
  OBVIOUS
<1>1. ASSUME NEW m \in Msgs, Start(m) PROVE MessagesIInv'
  BY <1>1, StartRight
<1>2. ASSUME NEW m \in Msgs, Recv(m) PROVE MessagesIInv'
  BY <1>2, RecvRight
<1>3. ASSUME NEW b \in Boards, Slice(b) PROVE MessagesIInv'
  BY <1>3, SliceRight
<1>4. ASSUME NEW c \in Pairs, Deliver(c) PROVE MessagesIInv'
  BY <1>4, DeliverRight
<1>5. ASSUME UNCHANGED messagesVars PROVE MessagesIInv'
  <2>1. /\ idx' = idx /\ dma' = dma /\ channel' = channel /\ reasm' = reasm
        /\ mailbox' = mailbox /\ waiting' = waiting /\ got' = got
    BY <1>5 DEF messagesVars
  <2>2. MessagesTyped' /\ InOrder' /\ HandedOver'
    BY <2>1 DEF MessagesIInv, MessagesTyped, InOrder, HandedOver
  <2>3. WireRight' /\ WireOrdered' /\ WireFull' /\ Queued'
    BY <2>1 DEF MessagesIInv, WireRight, WireOrdered, WireFull, Queued
  <2>4. QED BY <2>2, <2>3 DEF MessagesIInv
<1>6. QED BY <1>1, <1>2, <1>3, <1>4, <1>5 DEF MessagesNext, AllReceived

\* The invariant of every exchange of messages over the boards' channels.
THEOREM MessagesInvariant == MessagesSpec => []MessagesIInv
<1>1. MessagesInit => MessagesIInv
  BY MessagesInitRight
<1>2. MessagesIInv /\ [MessagesNext]_messagesVars => MessagesIInv'
  BY MessagesNextRight
<1>3. QED BY <1>1, <1>2, PTL DEF MessagesSpec

\* The boards' state has its types.
THEOREM MessagesTypes == MessagesSpec => []MessagesTypeOK
<1>1. MessagesIInv => MessagesTypeOK
  <2> SUFFICES ASSUME MessagesIInv PROVE MessagesTypeOK
    OBVIOUS
  <2>1. \A m \in Msgs : /\ idx[m] \in 0..Size[m] /\ reasm[m].n \in 0..Size[m]
                        /\ DOMAIN reasm[m].slots = 1..Size[m]
    <3> TAKE m \in Msgs
    <3>1. /\ idx[m] \in Nat /\ idx[m] <= Size[m] /\ reasm[m].n \in Nat /\ reasm[m].n <= idx[m]
          /\ Size[m] \in Nat
      BY Sizes DEF MessagesIInv, MessagesTyped, InOrder
    <3>2. DOMAIN PartsIn(m, reasm[m].n).slots = 1..Size[m]
      BY DEF PartsIn
    <3>3. reasm[m] = PartsIn(m, reasm[m].n)
      BY DEF MessagesIInv, InOrder
    <3>4. DOMAIN reasm[m].slots = 1..Size[m]
      BY <3>2, <3>3
    <3>5. QED BY <3>1, <3>4
  <2>2. QED BY <2>1 DEF MessagesIInv, MessagesTyped, MessagesTypeOK
<1>2. QED BY <1>1, MessagesInvariant, PTL

\* A recv returns all the parts of its message, each in its place, though the
\* packets of any number of messages came mixed over the same channel.
THEOREM MessagesComeWhole == MessagesSpec => []MessagesWhole
<1>1. MessagesIInv => MessagesWhole
  BY DEF MessagesIInv, HandedOver, MessagesWhole, Whole
<1>2. QED BY <1>1, MessagesInvariant, PTL

\* A message that has come whole is never left beside a recv that waits for it.
THEOREM MessagesNobodyWaits == MessagesSpec => []NobodyWaitsInVain
<1>1. MessagesIInv => NobodyWaitsInVain
  <2> SUFFICES ASSUME MessagesIInv PROVE NobodyWaitsInVain
    OBVIOUS
  <2>1. \A m \in Msgs : m \in mailbox => m \notin waiting
    BY DEF MessagesIInv, HandedOver
  <2>2. \A m \in Msgs : reasm[m].n = Size[m] => m \in mailbox \/ got[m] # Missing
    BY WholeIsSomething DEF MessagesIInv, HandedOver
  <2>3. QED BY <2>1, <2>2 DEF MessagesIInv, MessagesTyped, NobodyWaitsInVain
<1>2. QED BY <1>1, MessagesInvariant, PTL

\* Of two sends that have begun and not ended, one gets no second slice while
\* the other waits for one.
THEOREM MessagesTurnsAreFair == MessagesSpec => TurnsAreFair
<1> DEFINE Turn == \A b \in Boards : \A m, w \in ToSet(dma[b]) :
                     m # w /\ idx'[m] > idx[m] /\ m \in ToSet(dma'[b]) => Head(dma'[b]) # m
<1>1. MessagesIInv /\ [MessagesNext]_messagesVars => [Turn]_messagesVars
  <2> SUFFICES ASSUME MessagesIInv, MessagesNext, NEW b \in Boards, NEW m \in ToSet(dma[b]), NEW w \in ToSet(dma[b]),
                      m # w, idx'[m] > idx[m], m \in ToSet(dma'[b])
               PROVE  Head(dma'[b]) # m
    OBVIOUS
  <2>1. /\ idx \in [Msgs -> Nat] /\ dma \in [Boards -> Seq(Msgs)]
        /\ dma[b] \in Seq(Msgs) /\ \A i \in 1..Len(dma[b]) : Src[dma[b][i]] = b
        /\ \A i, j \in 1..Len(dma[b]) : dma[b][i] = dma[b][j] => i = j
    BY DEF MessagesIInv, MessagesTyped, Queued
  <2>2. DOMAIN dma[b] = 1..Len(dma[b]) /\ Len(dma[b]) \in Nat
    BY <2>1, LenProperties
  <2>3. (\E i \in 1..Len(dma[b]) : m = dma[b][i]) /\ (\E i \in 1..Len(dma[b]) : w = dma[b][i])
    BY <2>2 DEF ToSet
  <2>4. m \in Msgs /\ Src[m] = b
    BY <2>1, <2>3
  <2>5. idx' # idx
    <3>1. idx[m] \in Nat
      BY <2>1, <2>4
    <3>2. QED BY <3>1
  <2>6. PICK a \in Boards : Slice(a)
    BY <2>5 DEF MessagesNext, Start, Recv, Deliver, AllReceived, messagesVars
  <2>7. /\ dma[a] # <<>> /\ idx' = [idx EXCEPT ![Head(dma[a])] = @ + SliceSize(Head(dma[a]))]
        /\ dma' = [dma EXCEPT ![a] = Released(a, idx[Head(dma[a])] + SliceSize(Head(dma[a])) < Size[Head(dma[a])])]
    BY <2>6 DEF Slice
  <2>8. m = Head(dma[a])
    <3>1. m # Head(dma[a]) => idx'[m] = idx[m]
      BY <2>1, <2>4, <2>7
    <3>2. idx[m] \in Nat
      BY <2>1, <2>4
    <3>3. QED BY <3>1, <3>2
  <2>9. a = b
    <3>1. dma[a] \in Seq(Msgs) /\ \A i \in 1..Len(dma[a]) : Src[dma[a][i]] = a
      BY DEF MessagesIInv, MessagesTyped, Queued
    <3>2. Head(dma[a]) = dma[a][1] /\ 1 \in 1..Len(dma[a])
      <4>1. Head(dma[a]) = dma[a][1] /\ Len(dma[a]) \in Nat /\ Len(dma[a]) >= 1
        BY <2>7, <3>1, WithoutHead
      <4>2. QED BY <4>1
    <3>3. QED BY <2>4, <2>8, <3>1, <3>2
  <2> DEFINE x == Tail(dma[b])
  <2>10. dma'[b] = Append(x, Head(dma[b])) \/ dma'[b] = x
    BY <2>1, <2>7, <2>9 DEF Released
  <2>11. /\ Head(dma[b]) = dma[b][1] /\ x \in Seq(Msgs) /\ Len(dma[b]) >= 1 /\ Len(x) = Len(dma[b]) - 1
         /\ \A i \in 1..(Len(dma[b]) - 1) : x[i] = dma[b][i + 1]
         /\ \A i \in 1..Len(dma[b]) : i = 1 \/ i - 1 \in 1..(Len(dma[b]) - 1)
    BY <2>1, <2>7, <2>9, WithoutHead
  <2>12. Len(x) >= 1 /\ x # <<>>
    <3>1. PICK i \in 1..Len(dma[b]) : w = dma[b][i]
      BY <2>3
    <3>2. i # 1
      BY <2>8, <2>9, <2>11, <3>1
    <3>3. Len(x) >= 1
      BY <2>2, <2>11, <3>1, <3>2
    <3> HIDE DEF x
    <3>4. x # <<>>
      BY <3>3
    <3>5. QED BY <3>3, <3>4
  <2>13. x[1] # m
    <3>1. 1 \in 1..(Len(dma[b]) - 1) /\ 1 + 1 \in 1..Len(dma[b]) /\ 1 \in 1..Len(dma[b]) /\ 1 + 1 # 1
      BY <2>2, <2>11, <2>12
    <3>2. x[1] = dma[b][1 + 1]
      BY <2>11, <3>1
    <3>3. QED BY <2>1, <2>8, <2>9, <2>11, <3>1, <3>2
  <2>14. Head(dma'[b]) = x[1]
    <3>1. CASE dma'[b] = Append(x, Head(dma[b]))
      <4>1. dma'[b] = Append(x, m)
        BY <2>8, <2>9, <3>1
      <4> HIDE DEF x
      <4>2. Head(Append(x, m)) = Head(x) /\ Head(x) = x[1]
        BY <2>4, <2>11, <2>12, HeadTailAppend
      <4>3. QED BY <4>1, <4>2
    <3>2. CASE dma'[b] = x
      <4> HIDE DEF x
      <4>1. QED BY <2>11, <2>12, <3>2
    <3>3. QED BY <2>10, <3>1, <3>2
  <2>15. QED BY <2>13, <2>14
<1>2. QED BY <1>1, MessagesInvariant, PTL DEF MessagesSpec, TurnsAreFair

\* Every step of the boards sends a message, asks for one or returns one that
\* was sent and asked for, once, or is a step of their own.
THEOREM MessagesImplementMail == MessagesSpec => Mail!MailInit /\ [][Mail!MailNext]_(Mail!MailVars)
<1> DEFINE S == {m \in Msgs : idx[m] = Size[m]}
           A == {m \in Msgs : m \in waiting \/ got[m] # Missing}
           R == {m \in Msgs : got[m] # Missing}
<1>1. MessagesInit => Mail!MailInit
  BY Sizes DEF MessagesInit, Mail!MailInit
<1>2. MessagesIInv /\ MessagesIInv' /\ [MessagesNext]_messagesVars => [Mail!MailNext]_(Mail!MailVars)
  <2> SUFFICES ASSUME MessagesIInv, MessagesIInv', [MessagesNext]_messagesVars
               PROVE  Mail!MailNext \/ (S' = S /\ A' = A /\ R' = R)
    BY DEF Mail!MailVars
  <2>1. ASSUME NEW m \in Msgs, Start(m) PROVE S' = S /\ A' = A /\ R' = R
    BY <2>1 DEF Start
  <2>2. ASSUME NEW b \in Boards, Slice(b) PROVE Mail!MailNext \/ (S' = S /\ A' = A /\ R' = R)
    <3>1. PICK m, k : /\ m = Head(dma[b]) /\ dma[b] # <<>> /\ idx' = [idx EXCEPT ![m] = @ + k]
                      /\ waiting' = waiting /\ got' = got
      BY <2>2 DEF Slice
    <3>2. m \in Msgs /\ idx[m] < Size[m] /\ idx \in [Msgs -> Nat]
      <4>1. dma[b] \in Seq(Msgs) /\ idx \in [Msgs -> Nat]
            /\ \A i \in 1..Len(dma[b]) : idx[dma[b][i]] < Size[dma[b][i]]
        BY DEF MessagesIInv, MessagesTyped, Queued
      <4>2. m = dma[b][1] /\ m \in Msgs /\ 1 \in 1..Len(dma[b])
        <5>1. m = dma[b][1] /\ dma[b][1] \in Msgs /\ Len(dma[b]) \in Nat /\ Len(dma[b]) >= 1
          BY <3>1, <4>1, WithoutHead
        <5>2. QED BY <5>1
      <4>3. QED BY <4>1, <4>2
    <3>3. A' = A /\ R' = R
      BY <3>1
    <3>4. m \notin S
      BY <3>2, Sizes
    <3>5. \A w \in Msgs : w # m => idx'[w] = idx[w]
      BY <3>1, <3>2
    <3>6. S' = S \/ S' = S \cup {m}
      BY <3>5, <3>2
    <3>7. S' = S \cup {m} => Mail!Send(m)
      BY <3>3, <3>4 DEF Mail!Send
    <3>8. QED BY <3>2, <3>3, <3>6, <3>7 DEF Mail!MailNext
  <2>3. ASSUME NEW c \in Pairs, Deliver(c) PROVE Mail!MailNext \/ (S' = S /\ A' = A /\ R' = R)
    <3>1. PICK m, e : /\ m = Head(channel[c]).msg /\ channel[c] # <<>> /\ e.n = reasm[m].n + 1
                      /\ reasm' = [reasm EXCEPT ![m] = e] /\ idx' = idx
                      /\ \/ waiting' = waiting /\ got' = got
                         \/ /\ e.n = Size[m] /\ m \in waiting /\ waiting' = waiting \ {m}
                            /\ got' = [got EXCEPT ![m] = e.slots]
      BY <2>3 DEF Deliver, Complete, Kept
    <3>2. CASE waiting' = waiting /\ got' = got
      BY <3>1, <3>2
    <3>3. CASE /\ e.n = Size[m] /\ m \in waiting /\ waiting' = waiting \ {m}
               /\ got' = [got EXCEPT ![m] = e.slots]
      <4>1. m \in Msgs /\ DOMAIN got = Msgs /\ DOMAIN reasm = Msgs
        BY <3>3 DEF MessagesIInv, MessagesTyped
      <4>2. reasm'[m].n = Size[m]
        BY <3>1, <3>3, <4>1
      <4>3. got[m] = Missing
        <5>1. reasm[m].n \in Nat /\ reasm[m].n # Size[m]
          BY <3>1, <3>3, <4>1 DEF MessagesIInv, InOrder
        <5>2. QED BY <4>1, <5>1 DEF MessagesIInv, HandedOver
      <4>4. got'[m] # Missing
        <5>1. m \notin waiting' /\ (m \in mailbox' \/ got'[m] # Missing)
          BY <4>1, <4>2, WholeIsSomething DEF MessagesIInv, HandedOver, Whole
        <5>2. m \notin mailbox
          <6>1. reasm[m].n # Size[m]
            BY <3>1, <3>3, <4>1 DEF MessagesIInv, InOrder
          <6>2. QED BY <4>1, <6>1 DEF MessagesIInv, HandedOver
        <5>3. mailbox' = mailbox
          BY <2>3, <3>3 DEF Deliver, Kept
        <5>4. QED BY <5>1, <5>2, <5>3
      <4>5. idx[m] = Size[m]
        <5>1. reasm'[m].n <= idx'[m] /\ idx'[m] <= Size[m] /\ idx'[m] \in Nat /\ Size[m] \in Nat
          BY <4>1, Sizes DEF MessagesIInv, InOrder, MessagesTyped
        <5>2. QED BY <3>1, <4>2, <5>1
      <4>6. \A w \in Msgs : w # m => got'[w] = got[w]
        BY <3>3, <4>1
      <4>7. S' = S /\ m \in S /\ m \in A /\ m \notin R
        BY <3>1, <3>3, <4>1, <4>3, <4>5
      <4>8. R' = R \cup {m}
        BY <4>1, <4>4, <4>6
      <4>9. A' = A
        BY <3>3, <4>1, <4>4, <4>6
      <4> HIDE DEF S, A, R
      <4>10. m \in (S \cap A) \ R /\ R' = R \cup {m} /\ S' = S /\ A' = A
        BY <4>7, <4>8, <4>9
      <4>11. Mail!Return(m)
        BY <4>10 DEF Mail!Return, S, A, R
      <4>12. QED BY <4>1, <4>11 DEF Mail!MailNext
    <3>4. QED BY <3>1, <3>2, <3>3
  <2>4. ASSUME NEW m \in Msgs, Recv(m) PROVE Mail!MailNext
    <3>1. m \notin waiting /\ got[m] = Missing /\ idx' = idx /\ DOMAIN got = Msgs
      BY <2>4 DEF Recv, MessagesIInv, MessagesTyped
    <3>2. m \notin A /\ S' = S
      BY <3>1
    <3>3. CASE Here(m)
      <4>1. m \in mailbox /\ waiting' = waiting /\ got' = [got EXCEPT ![m] = reasm[m].slots]
        BY <2>4, <3>3 DEF Recv, Here
      <4>2. reasm[m].n = Size[m] /\ reasm[m] = PartsIn(m, reasm[m].n)
        BY <4>1 DEF MessagesIInv, HandedOver, InOrder
      <4>3. got'[m] = Whole(m) /\ got'[m] # Missing
        BY <3>1, <4>1, <4>2, WholeIsSomething
      <4>4. m \in S
        <5>1. reasm[m].n <= idx[m] /\ idx[m] <= Size[m] /\ idx[m] \in Nat /\ Size[m] \in Nat
          BY Sizes DEF MessagesIInv, InOrder, MessagesTyped
        <5>2. QED BY <4>2, <5>1
      <4>5. \A w \in Msgs : w # m => got'[w] = got[w]
        BY <3>1, <4>1
      <4>6. A' = A \cup {m} /\ R' = R \cup {m}
        BY <4>1, <4>3, <4>5
      <4>7. R' = R \cup ({m} \cap S)
        BY <4>4, <4>6
      <4>8. Mail!Ask(m)
        BY <3>2, <4>6, <4>7 DEF Mail!Ask
      <4>9. QED BY <4>8 DEF Mail!MailNext
    <3>4. CASE ~Here(m)
      <4>1. waiting' = waiting \cup {m} /\ got' = got
        BY <2>4, <3>4 DEF Recv, Here
      <4>2. A' = A \cup {m} /\ R' = R
        BY <4>1
      <4>3. Mail!Ask(m)
        BY <3>2, <4>2 DEF Mail!Ask
      <4>4. QED BY <4>3 DEF Mail!MailNext
    <3>5. QED BY <3>3, <3>4
  <2>5. ASSUME UNCHANGED messagesVars PROVE S' = S /\ A' = A /\ R' = R
    BY <2>5 DEF messagesVars
  <2>6. QED BY <2>1, <2>2, <2>3, <2>4, <2>5 DEF MessagesNext, AllReceived
<1>3. QED BY <1>1, <1>2, MessagesInvariant, PTL DEF MessagesSpec

-----------------------------------------------------------------------------
(* Round the ring: all that is taken modulo N is within a turn of 0..N-1.  *)

LEMMA Turns ==
  ASSUME NEW x \in Int, -N <= x, x < 2 * N
  PROVE  x % N = IF x < 0 THEN x + N ELSE IF x < N THEN x ELSE x - N
BY RingAssumption

LEMMA DivMono ==
  ASSUME NEW a \in Nat, NEW c \in Nat, NEW n \in Nat \ {0}, a <= c
  PROVE  a \div n \in Nat /\ a \div n <= c \div n
OBVIOUS

LEMMA DivWhole ==
  ASSUME NEW a \in Nat, NEW n \in Nat \ {0} PROVE (n * a) \div n = a
OBVIOUS

Chunks == 0..(N - 1)
States == [phase : {"rs", "ag"}, s : Steps] \cup {Ended}

LEMMA RingSizes ==
  /\ N \in Nat /\ N >= 2 /\ L \in Nat /\ NOps \in Nat
  /\ Members = 0..(N - 1) /\ Steps = 0..(N - 2) /\ Elements = 0..(L - 1)
BY RingAssumption DEF Members, Steps, Elements

LEMMA RingShape ==
  /\ \A r \in Rings : /\ r.lo \in Nat /\ r.hi \in Nat /\ r.lo <= r.hi /\ r.hi <= L
                      /\ r.d \in {1, -1}
  /\ \A r, g \in Rings : r # g => r.d # g.d /\ (r.hi <= g.lo \/ g.hi <= r.lo)
  /\ \A e \in Elements : \E r \in Rings : r.lo <= e /\ e < r.hi
  /\ Rings # {}
<1>1. L \div 2 \in Nat /\ L \div 2 <= L
  BY RingSizes
<1>2. CASE Bidir /\ N > 2 /\ L > 1
  <2> DEFINE up == [lo |-> 0, hi |-> L \div 2, d |-> 1]
             down == [lo |-> L \div 2, hi |-> L, d |-> -1]
  <2>1. Rings = {up, down}
    BY <1>2 DEF Rings
  <2>2. /\ up.lo = 0 /\ up.hi = L \div 2 /\ up.d = 1
        /\ down.lo = L \div 2 /\ down.hi = L /\ down.d = -1
    OBVIOUS
  <2> HIDE DEF up, down
  <2>3. \A e \in Elements : e \in Nat /\ e < L
    BY RingSizes
  <2>4. QED BY <1>1, <2>1, <2>2, <2>3, RingSizes
<1>3. CASE ~(Bidir /\ N > 2 /\ L > 1)
  <2> DEFINE one == [lo |-> 0, hi |-> L, d |-> 1]
  <2>1. Rings = {one} /\ one.lo = 0 /\ one.hi = L /\ one.d = 1
    BY <1>3 DEF Rings
  <2> HIDE DEF one
  <2>2. \A e \in Elements : e \in Nat /\ e < L
    BY RingSizes
  <2>3. QED BY <2>1, <2>2, RingSizes
<1>4. QED BY <1>2, <1>3

LEMMA Bounds ==
  ASSUME NEW r \in Rings
  PROVE  /\ bnd(0, r) = r.lo /\ bnd(N, r) = r.hi
         /\ \A k \in 0..N : bnd(k, r) \in Nat
         /\ \A k, m \in 0..N : k <= m => bnd(k, r) <= bnd(m, r)
<1> DEFINE w == r.hi - r.lo
<1>1. w \in Nat /\ r.lo \in Nat /\ r.hi = r.lo + w
  BY RingShape
<1>2. \A k \in 0..N : bnd(k, r) = r.lo + (k * w) \div N
  BY DEF bnd
<1> HIDE DEF w
<1>3. \A k \in 0..N : k * w \in Nat
  BY <1>1, RingSizes
<1>4. \A k, m \in 0..N : k <= m => k * w <= m * w
  BY <1>1, RingSizes
<1>5. N \in Nat \ {0}
  BY RingSizes
<1>6. \A k, m \in 0..N : k <= m => (k * w) \div N \in Nat /\ (k * w) \div N <= (m * w) \div N
  BY <1>3, <1>4, <1>5, DivMono
<1>7. 0 \in 0..N /\ N \in 0..N /\ (0 * w) \div N = 0 /\ (N * w) \div N = w
  BY <1>1, <1>5, DivWhole
<1>8. QED BY <1>1, <1>2, <1>6, <1>7

\* Element e is in chunk k of ring r.
In(e, k, r) == bnd(k, r) <= e /\ e < bnd(k + 1, r)

LEMMA OneChunk ==
  ASSUME NEW e \in Elements, NEW r \in Rings, NEW g \in Rings,
         NEW k \in Chunks, NEW m \in Chunks, In(e, k, r), In(e, m, g)
  PROVE  r = g /\ k = m
<1>1. /\ k \in 0..N /\ k + 1 \in 0..N /\ m \in 0..N /\ m + 1 \in 0..N /\ 0 \in 0..N /\ N \in 0..N
      /\ 0 <= k /\ 0 <= m /\ k + 1 <= N /\ m + 1 <= N /\ e \in Nat
  BY RingSizes DEF Chunks
<1>2. r.lo <= e /\ e < r.hi /\ g.lo <= e /\ e < g.hi
  <2>1. r.lo <= bnd(k, r) /\ bnd(k + 1, r) <= r.hi /\ bnd(k, r) \in Nat /\ bnd(k + 1, r) \in Nat
    BY <1>1, Bounds
  <2>2. g.lo <= bnd(m, g) /\ bnd(m + 1, g) <= g.hi /\ bnd(m, g) \in Nat /\ bnd(m + 1, g) \in Nat
    BY <1>1, Bounds
  <2>3. QED BY <1>1, <2>1, <2>2, RingShape DEF In
<1>3. r = g
  BY <1>1, <1>2, RingShape
<1>4. ~(k < m)
  <2> SUFFICES ASSUME k < m PROVE FALSE
    OBVIOUS
  <2>1. k + 1 <= m
    BY <1>1
  <2>2. bnd(k + 1, r) <= bnd(m, r) /\ bnd(k + 1, r) \in Nat /\ bnd(m, r) \in Nat
    BY <1>1, <2>1, Bounds
  <2>3. QED BY <1>1, <1>3, <2>2 DEF In
<1>5. ~(m < k)
  <2> SUFFICES ASSUME m < k PROVE FALSE
    OBVIOUS
  <2>1. m + 1 <= k
    BY <1>1
  <2>2. bnd(m + 1, r) <= bnd(k, r) /\ bnd(m + 1, r) \in Nat /\ bnd(k, r) \in Nat
    BY <1>1, <2>1, Bounds
  <2>3. QED BY <1>1, <1>3, <2>2 DEF In
<1>6. QED BY <1>1, <1>3, <1>4, <1>5

LEMMA NatMin == ASSUME NEW S, S \subseteq Nat, S # {}
                PROVE  \E x \in S : \A y \in S : x <= y
<1> DEFINE R == OpToRel(<, Nat)
<1>1. R = {p \in Nat \X Nat : p[1] < p[2]}
  BY DEF OpToRel
<1>2. IsWellFoundedOn(R, Nat)
  BY NatLessThanWellFounded
<1>3. \A x, y \in S : <<y, x>> \in R <=> y < x
  BY <1>1
<1> HIDE DEF R
<1>4. PICK x \in S : \A y \in S : ~(<<y, x>> \in R)
  BY <1>2, WFMin
<1>5. ASSUME NEW y \in S PROVE x <= y
  <2>1. ~(y < x) /\ x \in Nat /\ y \in Nat
    BY <1>3, <1>4
  <2>2. QED BY <2>1
<1>6. QED BY <1>5

\* Every element is in a chunk: the one that ends first behind it.
LEMMA SomeChunk ==
  ASSUME NEW e \in Elements PROVE \E r \in Rings, k \in Chunks : In(e, k, r)
<1>1. PICK r \in Rings : r.lo <= e /\ e < r.hi
  BY RingShape
<1> DEFINE S == {k \in 0..N : e < bnd(k, r)}
<1>2. S \subseteq Nat /\ N \in S
  BY <1>1, Bounds, RingSizes
<1>3. PICK k \in S : \A m \in S : k <= m
  <2>1. S # {}
    BY <1>2
  <2> HIDE DEF S
  <2>2. QED BY <1>2, <2>1, NatMin
<1>4. k \in 0..N /\ e < bnd(k, r)
  OBVIOUS
<1>5. k # 0
  <2>1. e \in Nat /\ r.lo \in Nat
    BY RingSizes, RingShape
  <2>2. QED BY <1>1, <1>4, <2>1, Bounds
<1>6. k - 1 \in 0..N /\ k - 1 \in Chunks /\ k - 1 < k /\ (k - 1) + 1 = k
  BY <1>4, <1>5, RingSizes DEF Chunks
<1>7. ~(e < bnd(k - 1, r))
  <2>1. ~(k <= k - 1)
    BY <1>4
  <2>2. QED BY <1>3, <1>6, <2>1
<1>8. bnd(k - 1, r) <= e
  <2>1. e \in Nat /\ bnd(k - 1, r) \in Nat
    BY <1>6, Bounds, RingSizes
  <2>2. QED BY <1>7, <2>1
<1>9. QED BY <1>4, <1>6, <1>8 DEF In
-----------------------------------------------------------------------------
(* Places in a ring.  Dist(p, k) is how far chunk k, which starts at place *)
(* k, has come when it is at place p.                                      *)

BoardAt(r, p) == IF r.d = 1 \/ p = 0 THEN p ELSE N - p
Back(p) == IF p = 0 THEN N - 1 ELSE p - 1
Dist(p, k) == IF k <= p THEN p - k ELSE p - k + N
Spot(k, j) == IF k + j < N THEN k + j ELSE k + j - N   \* where chunk k is after j steps

LEMMA Places ==
  ASSUME NEW r \in Rings, NEW b \in Members
  PROVE  /\ place(b, r) \in Chunks /\ nxt(b, r) \in Members /\ prv(b, r) \in Members
         /\ place(prv(b, r), r) = Back(place(b, r))
         /\ nxt(prv(b, r), r) = b
         /\ BoardAt(r, place(b, r)) = b
<1>1. b \in Int /\ 0 <= b /\ b < N /\ N \in Int /\ N >= 2
  BY RingSizes
<1>2. r.d = 1 \/ r.d = -1
  BY RingShape
<1>3. CASE r.d = 1
  <2>1. nxt(b, r) = IF b + 1 < N THEN b + 1 ELSE 0
    <3>1. nxt(b, r) = (b + 1) % N
      BY <1>3 DEF nxt
    <3>2. QED BY <1>1, <3>1, Turns
  <2>2. \A c \in Members : prv(c, r) = IF c - 1 < 0 THEN N - 1 ELSE c - 1
    <3> TAKE c \in Members
    <3>1. prv(c, r) = (c - 1) % N
      BY <1>3 DEF prv
    <3>2. c \in Int /\ 0 <= c /\ c < N
      BY RingSizes
    <3>3. QED BY <1>1, <3>1, <3>2, Turns
  <2>3. \A c \in Members : place(c, r) = c
    BY <1>3 DEF place
  <2>4. nxt(prv(b, r), r) = (prv(b, r) + 1) % N
    BY <1>3 DEF nxt
  <2>5. prv(b, r) \in Int /\ 0 <= prv(b, r) /\ prv(b, r) < N
    BY <1>1, <2>2
  <2>6. nxt(prv(b, r), r) = b
    <3>1. (prv(b, r) + 1) % N = IF prv(b, r) + 1 < N THEN prv(b, r) + 1 ELSE 0
      BY <1>1, <2>5, Turns
    <3>2. QED BY <1>1, <2>2, <2>4, <3>1
  <2>7. prv(b, r) \in Members /\ nxt(b, r) \in Members
    BY <1>1, <2>1, <2>5, RingSizes
  <2>8. QED BY <1>1, <1>3, <2>2, <2>3, <2>6, <2>7, RingSizes DEF Chunks, Back, BoardAt
<1>4. CASE r.d = -1
  <2>1. nxt(b, r) = IF b - 1 < 0 THEN N - 1 ELSE b - 1
    <3>1. nxt(b, r) = (b + (-1)) % N
      BY <1>4 DEF nxt
    <3>2. b + (-1) = b - 1
      BY <1>1
    <3>3. QED BY <1>1, <3>1, <3>2, Turns
  <2>2. prv(b, r) = IF b + 1 < N THEN b + 1 ELSE 0
    <3>1. prv(b, r) = (b - (-1)) % N
      BY <1>4 DEF prv
    <3>2. b - (-1) = b + 1
      BY <1>1
    <3>3. QED BY <1>1, <3>1, <3>2, Turns
  <2>3. \A c \in Members : place(c, r) = IF c = 0 THEN 0 ELSE N - c
    <3> TAKE c \in Members
    <3>1. place(c, r) = (-c) % N
      BY <1>4 DEF place
    <3>2. c \in Int /\ 0 <= c /\ c < N
      BY RingSizes
    <3>3. QED BY <1>1, <3>1, <3>2, Turns
  <2>4. nxt(prv(b, r), r) = (prv(b, r) + (-1)) % N
    BY <1>4 DEF nxt
  <2>5. prv(b, r) \in Int /\ 0 <= prv(b, r) /\ prv(b, r) < N
    BY <1>1, <2>2
  <2>6. nxt(prv(b, r), r) = b
    <3>1. (prv(b, r) + (-1)) % N = IF prv(b, r) - 1 < 0 THEN N - 1 ELSE prv(b, r) - 1
      <4>1. prv(b, r) + (-1) = prv(b, r) - 1
        BY <2>5
      <4>2. QED BY <1>1, <2>5, <4>1, Turns
    <3>2. QED BY <1>1, <2>2, <2>4, <3>1
  <2>7. prv(b, r) \in Members /\ nxt(b, r) \in Members
    BY <1>1, <2>1, <2>5, RingSizes
  <2>8. place(b, r) \in Chunks /\ BoardAt(r, place(b, r)) = b
    BY <1>1, <1>4, <2>3, RingSizes DEF Chunks, BoardAt
  <2>9. place(prv(b, r), r) = Back(place(b, r))
    BY <1>1, <2>2, <2>3, <2>7, RingSizes DEF Back
  <2>10. QED BY <2>6, <2>7, <2>8, <2>9
<1>5. QED BY <1>2, <1>3, <1>4

LEMMA Distances ==
  ASSUME NEW p \in Chunks, NEW k \in Chunks
  PROVE  /\ Dist(p, k) \in Chunks /\ (Dist(p, k) = 0 <=> p = k)
         /\ Spot(k, Dist(p, k)) = p
         /\ p # k => Dist(Back(p), k) = Dist(p, k) - 1
         /\ Back(p) \in Chunks
         /\ \A m \in Chunks : Dist(p, k) = Dist(p, m) => k = m
BY RingSizes DEF Chunks, Dist, Back, Spot

LEMMA ChunkSent ==
  ASSUME NEW p \in Chunks, NEW t \in States \ {Ended}
  PROVE  /\ SentChunk(p, t) \in Chunks
         /\ Dist(p, SentChunk(p, t)) = IF t.phase = "rs" THEN t.s
                                       ELSE IF t.s = 0 THEN N - 1 ELSE t.s - 1
<1>1. t.phase \in {"rs", "ag"} /\ t.s \in Int /\ 0 <= t.s /\ t.s <= N - 2
  BY RingSizes DEF States
<1>2. p \in Int /\ 0 <= p /\ p < N /\ N \in Int /\ N >= 2
  BY RingSizes DEF Chunks
<1>3. CASE t.phase = "rs"
  <2>1. SentChunk(p, t) = IF p - t.s < 0 THEN p - t.s + N ELSE p - t.s
    <3>1. SentChunk(p, t) = (p - t.s) % N
      BY <1>3 DEF SentChunk
    <3>2. QED BY <1>1, <1>2, <3>1, Turns
  <2>2. QED BY <1>1, <1>2, <1>3, <2>1 DEF Chunks, Dist
<1>4. CASE t.phase = "ag"
  <2>1. SentChunk(p, t) = IF p + 1 - t.s < 0 THEN p + 1 - t.s + N
                          ELSE IF p + 1 - t.s < N THEN p + 1 - t.s ELSE p + 1 - t.s - N
    <3>1. SentChunk(p, t) = (p + 1 - t.s) % N
      BY <1>4 DEF SentChunk
    <3>2. QED BY <1>1, <1>2, <3>1, Turns
  <2>2. QED BY <1>1, <1>2, <1>4, <2>1 DEF Chunks, Dist
<1>5. QED BY <1>1, <1>3, <1>4

LEMMA ChunkReceived ==
  ASSUME NEW p \in Chunks, NEW t \in States \ {Ended}
  PROVE  /\ RecvChunk(p, t) = SentChunk(Back(p), t)
         /\ RecvChunk(p, t) \in Chunks
         /\ Dist(p, RecvChunk(p, t)) = IF t.phase = "rs" THEN t.s + 1 ELSE t.s
<1>1. t.phase \in {"rs", "ag"} /\ t.s \in Int /\ 0 <= t.s /\ t.s <= N - 2
  BY RingSizes DEF States
<1>2. p \in Int /\ 0 <= p /\ p < N /\ N \in Int /\ N >= 2
  BY RingSizes DEF Chunks
<1>3. CASE t.phase = "rs"
  <2>1. RecvChunk(p, t) = IF p - t.s - 1 < 0 THEN p - t.s - 1 + N ELSE p - t.s - 1
    <3>1. RecvChunk(p, t) = (p - t.s - 1) % N
      BY <1>3 DEF RecvChunk
    <3>2. QED BY <1>1, <1>2, <3>1, Turns
  <2>2. SentChunk(Back(p), t) = IF Back(p) - t.s < 0 THEN Back(p) - t.s + N ELSE Back(p) - t.s
    <3>1. SentChunk(Back(p), t) = (Back(p) - t.s) % N
      BY <1>3 DEF SentChunk
    <3>2. QED BY <1>1, <1>2, <3>1, Turns DEF Back
  <2>3. QED BY <1>1, <1>2, <1>3, <2>1, <2>2 DEF Chunks, Dist, Back
<1>4. CASE t.phase = "ag"
  <2>1. RecvChunk(p, t) = IF p - t.s < 0 THEN p - t.s + N ELSE p - t.s
    <3>1. RecvChunk(p, t) = (p - t.s) % N
      BY <1>4 DEF RecvChunk
    <3>2. QED BY <1>1, <1>2, <3>1, Turns
  <2>2. SentChunk(Back(p), t) = IF Back(p) + 1 - t.s < 0 THEN Back(p) + 1 - t.s + N
                                ELSE IF Back(p) + 1 - t.s < N THEN Back(p) + 1 - t.s
                                ELSE Back(p) + 1 - t.s - N
    <3>1. SentChunk(Back(p), t) = (Back(p) + 1 - t.s) % N
      BY <1>4 DEF SentChunk
    <3>2. QED BY <1>1, <1>2, <3>1, Turns DEF Back
  <2>3. QED BY <1>1, <1>2, <1>4, <2>1, <2>2 DEF Chunks, Dist, Back
<1>5. QED BY <1>1, <1>3, <1>4
-----------------------------------------------------------------------------
(* Steps and sums.                                                         *)

\* A step's number among the steps of an operation.
Rank(t) == IF t.phase = "rs" THEN t.s ELSE IF t.phase = "ag" THEN N - 1 + t.s ELSE 2 * (N - 1)

LEMMA Ranks ==
  /\ Ended \in States /\ Rank(Ended) = 2 * (N - 1)
  /\ [phase |-> "rs", s |-> 0] \in States \ {Ended} /\ Rank([phase |-> "rs", s |-> 0]) = 0
  /\ \A t \in States \ {Ended} :
       /\ t.phase \in {"rs", "ag"} /\ t.s \in Steps /\ Rank(t) \in Nat
       /\ Rank(t) = IF t.phase = "rs" THEN t.s ELSE N - 1 + t.s
       /\ After(t) \in States /\ Rank(After(t)) = Rank(t) + 1
<1>1. Ended \in States /\ Rank(Ended) = 2 * (N - 1)
  BY DEF States, Ended, Rank
<1>2. [phase |-> "rs", s |-> 0] \in States \ {Ended} /\ Rank([phase |-> "rs", s |-> 0]) = 0
  BY RingSizes DEF States, Ended, Rank
<1>3. ASSUME NEW t \in States \ {Ended}
      PROVE  /\ t.phase \in {"rs", "ag"} /\ t.s \in Steps /\ Rank(t) \in Nat
             /\ Rank(t) = IF t.phase = "rs" THEN t.s ELSE N - 1 + t.s
             /\ After(t) \in States /\ Rank(After(t)) = Rank(t) + 1
  <2>1. t \in [phase : {"rs", "ag"}, s : Steps]
    BY DEF States
  <2>2. t.phase \in {"rs", "ag"} /\ t.s \in Int /\ 0 <= t.s /\ t.s <= N - 2 /\ N \in Int /\ N >= 2
    BY <2>1, RingSizes
  <2>3. Rank(t) \in Nat /\ Rank(t) = IF t.phase = "rs" THEN t.s ELSE N - 1 + t.s
    BY <2>2 DEF Rank
  <2>4. CASE t.s + 1 <= N - 2
    <3>1. After(t) = [phase |-> t.phase, s |-> t.s + 1]
      BY <2>1, <2>4 DEF After
    <3>2. t.s + 1 \in Steps
      BY <2>2, <2>4, RingSizes
    <3>3. After(t) \in States /\ After(t).phase = t.phase /\ After(t).s = t.s + 1
      BY <2>2, <3>1, <3>2 DEF States
    <3>4. QED BY <2>1, <2>2, <2>3, <3>3 DEF Rank
  <2>5. CASE ~(t.s + 1 <= N - 2)
    <3>1. t.s = N - 2
      BY <2>2, <2>5
    <3>2. CASE t.phase = "rs"
      <4>1. After(t) = [phase |-> "ag", s |-> 0]
        BY <2>5, <3>2 DEF After
      <4>2. After(t) \in States /\ Rank(After(t)) = N - 1 + 0
        BY <4>1, RingSizes DEF States, Rank
      <4>3. QED BY <2>1, <2>2, <2>3, <3>1, <3>2, <4>2
    <3>3. CASE t.phase = "ag"
      <4>1. After(t) = Ended
        BY <2>5, <3>3 DEF After
      <4>2. QED BY <1>1, <2>1, <2>2, <2>3, <3>1, <3>3, <4>1
    <3>4. QED BY <2>2, <3>2, <3>3
  <2>6. QED BY <2>4, <2>5
<1>4. QED BY <1>1, <1>2, <1>3

\* What board b brings to operation o, and chunk k's sum of it after j steps.
Own(o, b, e) == << <<o, b, e>> >>
Acc(o, e, r, k, j) == [i \in 1..(j + 1) |-> <<o, BoardAt(r, Spot(k, i - 1)), e>>]

\* What a board has of element e, in chunk k of ring r, before step n.
Held(o, b, e, r, k, n) ==
  LET j == Dist(place(b, r), k)
  IN  IF n <= N - 1 THEN IF j <= n THEN Acc(o, e, r, k, j) ELSE Own(o, b, e)
      ELSE IF j < n - (N - 1) \/ j = N - 1 THEN Acc(o, e, r, k, N - 1) ELSE Acc(o, e, r, k, j)

Contributions == (1..NOps) \X Members \X Elements

LEMMA Sums1 ==
  ASSUME NEW o \in 1..NOps, NEW e \in Elements, NEW r \in Rings, NEW k \in Chunks,
         NEW j \in Chunks
  PROVE  /\ Acc(o, e, r, k, j) \in Numbers /\ Len(Acc(o, e, r, k, j)) = j + 1
         /\ \A i \in 1..(j + 1) :
              Acc(o, e, r, k, j)[i] = <<o, BoardAt(r, Spot(k, i - 1)), e>>
<1>1. \A i \in 1..(j + 1) : <<o, BoardAt(r, Spot(k, i - 1)), e>> \in Contributions
  <2> TAKE i \in 1..(j + 1)
  <2>1. BoardAt(r, Spot(k, i - 1)) \in Members
    BY RingSizes DEF Chunks, BoardAt, Spot
  <2>2. QED BY <2>1 DEF Contributions
<1>2. j + 1 \in Nat
  BY RingSizes DEF Chunks
<1>3. Acc(o, e, r, k, j) \in [1..(j + 1) -> Contributions]
  BY <1>1 DEF Acc
<1>4. Acc(o, e, r, k, j) \in Seq(Contributions) /\ Len(Acc(o, e, r, k, j)) = j + 1
  BY <1>2, <1>3
<1>5. QED BY <1>4 DEF Acc, Numbers, Contributions

LEMMA OwnSum ==
  ASSUME NEW o \in 1..NOps, NEW b \in Members, NEW e \in Elements, NEW r \in Rings
  PROVE  Own(o, b, e) \in Numbers /\ Acc(o, e, r, place(b, r), 0) = Own(o, b, e)
<1>1. Own(o, b, e) \in Numbers
  BY DEF Own, Numbers
<1>2. place(b, r) \in Chunks /\ BoardAt(r, place(b, r)) = b
  BY Places
<1>3. Spot(place(b, r), 0) = place(b, r)
  BY <1>2, RingSizes DEF Spot, Chunks
<1>4. Acc(o, e, r, place(b, r), 0) = [i \in 1..1 |-> <<o, b, e>>]
  BY <1>2, <1>3 DEF Acc
<1>5. QED BY <1>1, <1>4 DEF Own

\* A step of the reduce-scatter adds the contribution of the board it reaches.
LEMMA SumGrows ==
  ASSUME NEW o \in 1..NOps, NEW b \in Members, NEW e \in Elements, NEW r \in Rings,
         NEW k \in Chunks, NEW j \in Chunks, Dist(place(b, r), k) = j + 1
  PROVE  Acc(o, e, r, k, j) \o Own(o, b, e) = Acc(o, e, r, k, j + 1)
<1>1. place(b, r) \in Chunks /\ BoardAt(r, place(b, r)) = b
  BY Places
<1>2. j + 1 \in Chunks /\ Spot(k, j + 1) = place(b, r) /\ j \in Nat
  <2>1. Dist(place(b, r), k) \in Chunks /\ Spot(k, Dist(place(b, r), k)) = place(b, r)
    BY <1>1, Distances
  <2>2. QED BY <2>1, RingSizes DEF Chunks
<1> DEFINE x == Acc(o, e, r, k, j)
           y == Own(o, b, e)
           z == Acc(o, e, r, k, j + 1)
<1>3. x \in Numbers /\ Len(x) = j + 1 /\ \A i \in 1..(j + 1) : x[i] = <<o, BoardAt(r, Spot(k, i - 1)), e>>
  BY Sums1
<1>4. y \in Numbers /\ Len(y) = 1 /\ y[1] = <<o, b, e>>
  BY OwnSum DEF Own
<1>5. /\ z \in Numbers /\ Len(z) = j + 2
      /\ \A i \in 1..(j + 2) : z[i] = <<o, BoardAt(r, Spot(k, i - 1)), e>>
  <2>1. (j + 1) + 1 = j + 2
    BY <1>2
  <2>2. QED BY <1>2, <2>1, Sums1
<1> HIDE DEF x, y, z
<1>6. /\ x \o y \in Numbers /\ Len(x \o y) = j + 2
      /\ \A i \in 1..(j + 1) : (x \o y)[i] = x[i]
      /\ (x \o y)[j + 2] = y[1]
  <2>1. x \in Seq(Contributions) /\ y \in Seq(Contributions)
    BY <1>3, <1>4 DEF Numbers, Contributions
  <2>2. /\ x \o y \in Seq(Contributions) /\ Len(x \o y) = Len(x) + Len(y)
        /\ \A i \in 1..(Len(x) + Len(y)) : (x \o y)[i] = IF i <= Len(x) THEN x[i] ELSE y[i - Len(x)]
    BY <2>1, ConcatProperties
  <2>3. Len(x) + Len(y) = j + 2 /\ (j + 2) - Len(x) = 1 /\ ~(j + 2 <= Len(x)) /\ j + 2 \in 1..(j + 2)
        /\ \A i \in 1..(j + 1) : i \in 1..(j + 2) /\ i <= Len(x)
    BY <1>2, <1>3, <1>4
  <2>4. (x \o y)[j + 2] = y[1] /\ \A i \in 1..(j + 1) : (x \o y)[i] = x[i]
    BY <2>2, <2>3
  <2>5. QED BY <2>2, <2>3, <2>4 DEF Numbers, Contributions
<1>7. \A i \in 1..(j + 2) : (x \o y)[i] = z[i]
  <2> TAKE i \in 1..(j + 2)
  <2>1. CASE i <= j + 1
    <3>1. i \in 1..(j + 1)
      BY <1>2, <2>1
    <3>2. QED BY <1>3, <1>5, <1>6, <3>1
  <2>2. CASE i = j + 2
    <3>1. i - 1 = j + 1
      BY <1>2, <2>2
    <3>2. z[i] = <<o, BoardAt(r, Spot(k, j + 1)), e>>
      BY <1>5, <3>1
    <3>3. QED BY <1>1, <1>2, <1>4, <1>6, <2>2, <3>2
  <2>3. i <= j + 1 \/ i = j + 2
    <3>1. j \in Nat
      BY <1>2
    <3>2. QED BY <3>1
  <2>4. QED BY <2>1, <2>2, <2>3
<1>8. x \o y = z
  <2>1. x \o y \in Seq(Contributions) /\ z \in Seq(Contributions) /\ Len(x \o y) = Len(z)
    BY <1>5, <1>6 DEF Numbers, Contributions
  <2>2. \A i \in 1..Len(x \o y) : (x \o y)[i] = z[i]
    BY <1>6, <1>7
  <2>3. QED BY <2>1, <2>2, SeqEqual
<1>9. QED BY <1>8 DEF x, y, z
-----------------------------------------------------------------------------
(* The inductive invariant: every board's chunks are the sums that its step *)
(* says, every message is the one its tag says, and a board that has come   *)
(* so many steps has heard of as many boards before it.                     *)

\* What has been added into the chunk that step t sends, when it is sent.
Added(t) == IF t.phase = "rs" THEN t.s ELSE N - 1

\* The message that step t of operation o sends from board b round ring r.
Message(o, b, r, t) ==
  LET k == SentChunk(place(b, r), t)
  IN  [src |-> b, dst |-> nxt(b, r), tag |-> Tag(o, r, t),
       vals |-> [i \in 1..(bnd(k + 1, r) - bnd(k, r)) |->
                   Acc(o, bnd(k, r) + i - 1, r, k, Added(t))]]

\* The boards that are fewer than n + 1 steps before b in ring r.
Heard(b, r, n) == {c \in Members : Dist(place(b, r), place(c, r)) <= n}

Types == /\ op \in [Members -> 0..NOps]
         /\ at \in [Members -> [Rings -> States]]
         /\ vec \in [Members -> [Elements -> Numbers]]
         /\ out \in [Members -> Seq([Elements -> Numbers])]

\* A board that waits is in an operation.
Waiting == \A b \in Members : ~RingsOver(at[b]) => op[b] > 0

\* m is the message of a step that its sender has come to, and what it has
\* heard of, it tells.
RightMessage(m, ops, ats) ==
  \E o \in 1..NOps, b \in Members, r \in Rings, t \in States \ {Ended} :
    /\ m = Message(o, b, r, t)
    /\ o <= ops[b]
    /\ o = ops[b] => Rank(t) <= Rank(ats[b][r])
    /\ \A c \in Heard(b, r, Rank(t)) : ops[c] >= o

MailRight == \A m \in mail : RightMessage(m, op, at)

VecRight ==
  \A b \in Members : op[b] > 0 =>
    \A r \in Rings, k \in Chunks, e \in Elements :
      In(e, k, r) => vec[b][e] = Held(op[b], b, e, r, k, Rank(at[b][r]))

Causal ==
  \A b \in Members, r \in Rings : \A c \in Heard(b, r, Rank(at[b][r])) : op[c] >= op[b]

OutRight ==
  \A b \in Members :
    /\ Len(out[b]) = IF RingsOver(at[b]) THEN op[b] ELSE op[b] - 1
    /\ \A o \in 1..Len(out[b]) : \A r \in Rings, k \in Chunks, e \in Elements :
         In(e, k, r) => out[b][o][e] = Acc(o, e, r, k, N - 1)

RingIInv == Types /\ Waiting /\ MailRight /\ VecRight /\ Causal /\ OutRight
-----------------------------------------------------------------------------
(* What a board has of a chunk, step by step.                              *)

LEMMA HeldTyped ==
  ASSUME NEW o \in 1..NOps, NEW b \in Members, NEW e \in Elements, NEW r \in Rings,
         NEW k \in Chunks, NEW n \in Nat
  PROVE  Held(o, b, e, r, k, n) \in Numbers
<1>1. Dist(place(b, r), k) \in Chunks /\ N - 1 \in Chunks
  <2>1. Dist(place(b, r), k) \in Chunks
    BY Places, Distances
  <2>2. QED BY <2>1, RingSizes DEF Chunks
<1>2. Own(o, b, e) \in Numbers /\ \A j \in Chunks : Acc(o, e, r, k, j) \in Numbers
  BY OwnSum, Sums1
<1>3. QED BY <1>1, <1>2 DEF Held

LEMMA HeldFirst ==
  ASSUME NEW o \in 1..NOps, NEW b \in Members, NEW e \in Elements, NEW r \in Rings,
         NEW k \in Chunks
  PROVE  Held(o, b, e, r, k, 0) = Own(o, b, e)
<1> DEFINE j == Dist(place(b, r), k)
<1>1. place(b, r) \in Chunks
  BY Places
<1>2. j \in Chunks /\ (j = 0 <=> place(b, r) = k)
  BY <1>1, Distances
<1>3. Held(o, b, e, r, k, 0) = IF j <= 0 THEN Acc(o, e, r, k, j) ELSE Own(o, b, e)
  BY RingSizes DEF Held
<1> HIDE DEF j
<1>4. CASE j = 0
  <2>1. Acc(o, e, r, k, j) = Own(o, b, e)
    BY <1>2, <1>4, OwnSum
  <2>2. QED BY <1>3, <2>1
<1>5. CASE j # 0
  <2>1. ~(j <= 0)
    BY <1>2, <1>5, RingSizes DEF Chunks
  <2>2. QED BY <1>3, <2>1
<1>6. QED BY <1>4, <1>5

LEMMA HeldLast ==
  ASSUME NEW o \in 1..NOps, NEW b \in Members, NEW e \in Elements, NEW r \in Rings,
         NEW k \in Chunks
  PROVE  Held(o, b, e, r, k, 2 * (N - 1)) = Acc(o, e, r, k, N - 1)
<1> DEFINE j == Dist(place(b, r), k)
<1>1. j \in Chunks
  BY Places, Distances
<1>2. ~(2 * (N - 1) <= N - 1) /\ (2 * (N - 1)) - (N - 1) = N - 1
  BY RingSizes
<1>3. Held(o, b, e, r, k, 2 * (N - 1)) =
        IF j < N - 1 \/ j = N - 1 THEN Acc(o, e, r, k, N - 1) ELSE Acc(o, e, r, k, j)
  BY <1>2 DEF Held
<1> HIDE DEF j
<1>4. j < N - 1 \/ j = N - 1
  BY <1>1, RingSizes DEF Chunks
<1>5. QED BY <1>3, <1>4

LEMMA HeldSent ==
  ASSUME NEW o \in 1..NOps, NEW b \in Members, NEW e \in Elements, NEW r \in Rings,
         NEW t \in States \ {Ended}
  PROVE  Held(o, b, e, r, SentChunk(place(b, r), t), Rank(t)) =
           Acc(o, e, r, SentChunk(place(b, r), t), Added(t))
<1> DEFINE k == SentChunk(place(b, r), t)
           j == Dist(place(b, r), k)
           n == Rank(t)
<1>1. j = IF t.phase = "rs" THEN t.s ELSE IF t.s = 0 THEN N - 1 ELSE t.s - 1
  BY Places, ChunkSent
<1>2. /\ t.phase \in {"rs", "ag"} /\ t.s \in Int /\ 0 <= t.s /\ t.s <= N - 2
      /\ n = IF t.phase = "rs" THEN t.s ELSE N - 1 + t.s
  BY Ranks, RingSizes
<1>3. Held(o, b, e, r, k, n) =
        IF n <= N - 1 THEN IF j <= n THEN Acc(o, e, r, k, j) ELSE Own(o, b, e)
        ELSE IF j < n - (N - 1) \/ j = N - 1 THEN Acc(o, e, r, k, N - 1) ELSE Acc(o, e, r, k, j)
  BY DEF Held
<1> HIDE DEF k, j, n
<1>4. CASE t.phase = "rs"
  <2>1. n <= N - 1 /\ j <= n /\ j = t.s
    BY <1>1, <1>2, <1>4, RingSizes
  <2>2. QED BY <1>3, <1>4, <2>1 DEF k, n, Added
<1>5. CASE t.phase = "ag" /\ t.s = 0
  <2>1. n <= N - 1 /\ j <= n /\ j = N - 1
    BY <1>1, <1>2, <1>5, RingSizes
  <2>2. QED BY <1>3, <1>5, <2>1 DEF k, n, Added
<1>6. CASE t.phase = "ag" /\ t.s # 0
  <2>1. ~(n <= N - 1) /\ j < n - (N - 1)
    BY <1>1, <1>2, <1>6, RingSizes
  <2>2. QED BY <1>3, <1>6, <2>1 DEF k, n, Added
<1>7. QED BY <1>2, <1>4, <1>5, <1>6

LEMMA HeldTaken ==
  ASSUME NEW o \in 1..NOps, NEW b \in Members, NEW e \in Elements, NEW r \in Rings,
         NEW t \in States \ {Ended}, NEW k \in Chunks, k = RecvChunk(place(b, r), t)
  PROVE  Taken(t, Held(o, b, e, r, k, Rank(t)), Acc(o, e, r, k, Added(t))) =
           Held(o, b, e, r, k, Rank(t) + 1)
<1> DEFINE j == Dist(place(b, r), k)
           n == Rank(t)
<1>1. j = IF t.phase = "rs" THEN t.s + 1 ELSE t.s
  BY Places, ChunkReceived
<1>2. /\ t.phase \in {"rs", "ag"} /\ t.s \in Int /\ 0 <= t.s /\ t.s <= N - 2
      /\ n = IF t.phase = "rs" THEN t.s ELSE N - 1 + t.s
  BY Ranks, RingSizes
<1>3. \A i \in {n, n + 1} : Held(o, b, e, r, k, i) =
        IF i <= N - 1 THEN IF j <= i THEN Acc(o, e, r, k, j) ELSE Own(o, b, e)
        ELSE IF j < i - (N - 1) \/ j = N - 1 THEN Acc(o, e, r, k, N - 1) ELSE Acc(o, e, r, k, j)
  BY DEF Held
<1>4. CASE t.phase = "rs"
  <2>1. t.s \in Chunks /\ j = t.s + 1 /\ n = t.s
    BY <1>1, <1>2, <1>4, RingSizes DEF Chunks
  <2>2. Acc(o, e, r, k, t.s) \o Own(o, b, e) = Acc(o, e, r, k, t.s + 1)
    BY <2>1, SumGrows
  <2> HIDE DEF j, n
  <2>3. n <= N - 1 /\ n + 1 <= N - 1 /\ j <= n + 1 /\ ~(j <= n)
    BY <1>2, <2>1, RingSizes
  <2>4. Held(o, b, e, r, k, n) = Own(o, b, e) /\ Held(o, b, e, r, k, n + 1) = Acc(o, e, r, k, t.s + 1)
    BY <1>3, <2>1, <2>3
  <2>5. QED BY <1>4, <2>2, <2>4 DEF Taken, Added, n
<1>5. CASE t.phase = "ag"
  <2>1. j = t.s /\ n = N - 1 + t.s
    BY <1>1, <1>2, <1>5
  <2> HIDE DEF j, n
  <2>2. ~(n + 1 <= N - 1) /\ j < (n + 1) - (N - 1)
    BY <1>2, <2>1, RingSizes
  <2>3. Held(o, b, e, r, k, n + 1) = Acc(o, e, r, k, N - 1)
    BY <1>3, <2>2
  <2>4. QED BY <1>5, <2>3 DEF Taken, Added, n
<1>6. QED BY <1>2, <1>4, <1>5

LEMMA HeldKept ==
  ASSUME NEW o \in 1..NOps, NEW b \in Members, NEW e \in Elements, NEW r \in Rings,
         NEW t \in States \ {Ended}, NEW k \in Chunks, k # RecvChunk(place(b, r), t)
  PROVE  Held(o, b, e, r, k, Rank(t)) = Held(o, b, e, r, k, Rank(t) + 1)
<1> DEFINE m == RecvChunk(place(b, r), t)
           j == Dist(place(b, r), k)
           n == Rank(t)
<1>1. m \in Chunks /\ Dist(place(b, r), m) = IF t.phase = "rs" THEN t.s + 1 ELSE t.s
  BY Places, ChunkReceived
<1>2. /\ t.phase \in {"rs", "ag"} /\ t.s \in Int /\ 0 <= t.s /\ t.s <= N - 2
      /\ n = IF t.phase = "rs" THEN t.s ELSE N - 1 + t.s
  BY Ranks, RingSizes
<1>3. place(b, r) \in Chunks
  BY Places
<1>4. j # Dist(place(b, r), m) /\ j \in Chunks
  BY <1>1, <1>3, Distances
<1>5. \A i \in {n, n + 1} : Held(o, b, e, r, k, i) =
        IF i <= N - 1 THEN IF j <= i THEN Acc(o, e, r, k, j) ELSE Own(o, b, e)
        ELSE IF j < i - (N - 1) \/ j = N - 1 THEN Acc(o, e, r, k, N - 1) ELSE Acc(o, e, r, k, j)
  BY DEF Held
<1>6. j \in Int /\ 0 <= j /\ j <= N - 1
  BY <1>4, RingSizes DEF Chunks
<1>7. j # IF t.phase = "rs" THEN t.s + 1 ELSE t.s
  BY <1>1, <1>4
<1> HIDE DEF j, m
<1>8. CASE t.phase = "rs"
  <2>1. n <= N - 1 /\ n + 1 <= N - 1 /\ (j <= n <=> j <= n + 1)
    BY <1>2, <1>6, <1>7, <1>8, RingSizes
  <2>2. QED BY <1>5, <2>1
<1>9. CASE t.phase = "ag" /\ t.s = 0
  <2>1. /\ n <= N - 1 /\ j <= n /\ ~(n + 1 <= N - 1) /\ ~(j < (n + 1) - (N - 1))
    BY <1>2, <1>6, <1>7, <1>9, RingSizes
  <2>2. QED BY <1>5, <2>1
<1>10. CASE t.phase = "ag" /\ t.s # 0
  <2>1. /\ ~(n <= N - 1) /\ ~(n + 1 <= N - 1)
        /\ j < n - (N - 1) <=> j < (n + 1) - (N - 1)
    BY <1>2, <1>6, <1>7, <1>10, RingSizes
  <2>2. QED BY <1>5, <2>1
<1>11. QED BY <1>2, <1>8, <1>9, <1>10

\* A vector that is right in the chunk a step sends makes the right message.
LEMMA MessageIsRight ==
  ASSUME NEW o \in 1..NOps, NEW b \in Members, NEW r \in Rings, NEW t \in States \ {Ended},
         NEW v, NEW k \in Chunks, k = SentChunk(place(b, r), t),
         \A e \in Elements : In(e, k, r) => v[e] = Acc(o, e, r, k, Added(t))
  PROVE  [src |-> b, dst |-> nxt(b, r), tag |-> Tag(o, r, t),
          vals |-> [i \in 1..(bnd(k + 1, r) - bnd(k, r)) |-> v[bnd(k, r) + i - 1]]]
            = Message(o, b, r, t)
<1>1. k \in 0..N /\ k + 1 \in 0..N /\ N \in 0..N
  BY RingSizes DEF Chunks
<1>2. /\ bnd(k, r) \in Nat /\ bnd(k + 1, r) \in Nat /\ bnd(k + 1, r) <= r.hi
  <2>1. k + 1 <= N
    BY <1>1
  <2>2. QED BY <1>1, <2>1, Bounds
<1>3. r.hi <= L /\ r.hi \in Nat /\ L \in Nat
  BY RingShape, RingSizes
<1> DEFINE lo == bnd(k, r)
           hi == bnd(k + 1, r)
<1>4. \A i \in 1..(hi - lo) : lo + i - 1 \in Elements /\ lo <= lo + i - 1 /\ lo + i - 1 < hi
  <2>1. lo \in Nat /\ hi \in Nat /\ hi <= L
    BY <1>2, <1>3
  <2> HIDE DEF lo, hi
  <2>2. QED BY <1>3, <2>1, RingSizes
<1>5. \A i \in 1..(hi - lo) : v[lo + i - 1] = Acc(o, lo + i - 1, r, k, Added(t))
  BY <1>4 DEF In
<1>6. QED BY <1>5 DEF Message
-----------------------------------------------------------------------------
(* What a message tells.                                                   *)

LEMMA RankNat == \A t \in States : Rank(t) \in Nat
<1>1. \A t \in States : t = Ended \/ t \in States \ {Ended}
  OBVIOUS
<1>2. Rank(Ended) \in Nat
  BY Ranks, RingSizes
<1>3. QED BY <1>1, <1>2, Ranks

LEMMA TagTells ==
  ASSUME NEW o, NEW p, NEW r \in Rings, NEW g \in Rings,
         NEW t \in States \ {Ended}, NEW u \in States \ {Ended},
         Tag(o, r, t) = Tag(p, g, u)
  PROVE  o = p /\ r = g /\ t = u
<1>1. t.phase = u.phase /\ o = p /\ r.d = g.d /\ t.s = u.s
  BY DEF Tag
<1>2. r = g
  BY <1>1, RingShape
<1>3. t = u
  BY <1>1 DEF States
<1>4. QED BY <1>1, <1>2, <1>3

LEMMA MessageFields ==
  ASSUME NEW o, NEW b, NEW r, NEW t
  PROVE  /\ Message(o, b, r, t).src = b /\ Message(o, b, r, t).dst = nxt(b, r)
         /\ Message(o, b, r, t).tag = Tag(o, r, t)
BY DEF Message

LEMMA MessageHolds ==
  ASSUME NEW o, NEW b \in Members, NEW r \in Rings, NEW t, NEW k \in Chunks,
         k = SentChunk(place(b, r), t), NEW e \in Elements, In(e, k, r)
  PROVE  Message(o, b, r, t).vals[e - bnd(k, r) + 1] = Acc(o, e, r, k, Added(t))
<1> DEFINE lo == bnd(k, r)
           hi == bnd(k + 1, r)
           F  == [i \in 1..(hi - lo) |-> Acc(o, lo + i - 1, r, k, Added(t))]
<1>1. Message(o, b, r, t).vals = F
  BY DEF Message
<1>2. lo \in Nat /\ hi \in Nat
  <2>1. k \in 0..N /\ k + 1 \in 0..N
    BY RingSizes DEF Chunks
  <2>2. QED BY <2>1, Bounds
<1>3. e \in Nat /\ lo <= e /\ e < hi
  BY RingSizes DEF In
<1>4. e - lo + 1 \in 1..(hi - lo) /\ lo + (e - lo + 1) - 1 = e
  <2> HIDE DEF lo, hi
  <2>1. QED BY <1>2, <1>3
<1>5. QED BY <1>1, <1>4

LEMMA HeardGrows ==
  ASSUME NEW b \in Members, NEW r \in Rings, NEW n \in Nat, NEW c \in Heard(b, r, n + 1)
  PROVE  c = b \/ c \in Heard(prv(b, r), r, n)
<1>1. c \in Members /\ Dist(place(b, r), place(c, r)) <= n + 1
  BY DEF Heard
<1>2. place(b, r) \in Chunks /\ place(c, r) \in Chunks
  BY <1>1, Places
<1>3. CASE place(b, r) = place(c, r)
  BY <1>1, <1>3, Places
<1>4. CASE place(b, r) # place(c, r)
  <2>1. /\ Dist(place(b, r), place(c, r)) \in Nat
        /\ Dist(Back(place(b, r)), place(c, r)) = Dist(place(b, r), place(c, r)) - 1
    <3>1. Dist(place(b, r), place(c, r)) \in Chunks
      BY <1>2, Distances
    <3>2. Dist(Back(place(b, r)), place(c, r)) = Dist(place(b, r), place(c, r)) - 1
      BY <1>2, <1>4, Distances
    <3>3. QED BY <3>1, <3>2, RingSizes DEF Chunks
  <2>2. Dist(place(prv(b, r), r), place(c, r)) <= n
    BY <1>1, <2>1, Places
  <2>3. QED BY <1>1, <2>2 DEF Heard
<1>5. QED BY <1>3, <1>4

LEMMA HeardAtFirst ==
  ASSUME NEW b \in Members, NEW r \in Rings, NEW c \in Heard(b, r, 0) PROVE c = b
<1>1. c \in Members /\ Dist(place(b, r), place(c, r)) <= 0
  BY DEF Heard
<1>2. place(b, r) \in Chunks /\ place(c, r) \in Chunks
  BY <1>1, Places
<1>3. Dist(place(b, r), place(c, r)) = 0
  <2>1. Dist(place(b, r), place(c, r)) \in Chunks
    BY <1>2, Distances
  <2>2. QED BY <1>1, <2>1, RingSizes DEF Chunks
<1>4. place(b, r) = place(c, r)
  BY <1>2, <1>3, Distances
<1>5. QED BY <1>1, <1>4, Places

LEMMA HeardOfAll ==
  ASSUME NEW b \in Members, NEW r \in Rings PROVE Heard(b, r, 2 * (N - 1)) = Members
<1>1. \A c \in Members : Dist(place(b, r), place(c, r)) <= 2 * (N - 1)
  <2> TAKE c \in Members
  <2>1. Dist(place(b, r), place(c, r)) \in Chunks
    BY Places, Distances
  <2>2. QED BY <2>1, RingSizes DEF Chunks
<1>2. QED BY <1>1 DEF Heard

\* What a message tells stays true as boards go on.
LEMMA StaysRight ==
  ASSUME NEW ops, NEW ats, NEW ops2, NEW ats2,
         \A c \in Members : ops[c] \in Nat /\ ops2[c] \in Nat /\ ops2[c] >= ops[c],
         \A c \in Members, r \in Rings :
           /\ ats[c][r] \in States /\ ats2[c][r] \in States
           /\ ops2[c] = ops[c] => Rank(ats[c][r]) <= Rank(ats2[c][r]),
         NEW m, RightMessage(m, ops, ats)
  PROVE  RightMessage(m, ops2, ats2)
<1>1. PICK o \in 1..NOps, b \in Members, r \in Rings, t \in States \ {Ended} :
        /\ m = Message(o, b, r, t)
        /\ o <= ops[b]
        /\ o = ops[b] => Rank(t) <= Rank(ats[b][r])
        /\ \A c \in Heard(b, r, Rank(t)) : ops[c] >= o
  BY DEF RightMessage
<1>2. o \in Nat /\ o <= ops2[b]
  BY <1>1
<1>3. ASSUME o = ops2[b] PROVE Rank(t) <= Rank(ats2[b][r])
  <2>1. ops[b] = ops2[b]
    BY <1>1, <1>2, <1>3
  <2>2. /\ Rank(t) \in Nat /\ Rank(ats[b][r]) \in Nat /\ Rank(ats2[b][r]) \in Nat
        /\ Rank(t) <= Rank(ats[b][r]) /\ Rank(ats[b][r]) <= Rank(ats2[b][r])
    BY <1>1, <1>3, <2>1, RankNat
  <2>3. QED BY <2>2
<1>4. \A c \in Heard(b, r, Rank(t)) : ops2[c] >= o
  <2> TAKE c \in Heard(b, r, Rank(t))
  <2>1. c \in Members
    BY DEF Heard
  <2>2. ops[c] \in Nat /\ ops2[c] \in Nat /\ ops2[c] >= ops[c] /\ ops[c] >= o
    BY <1>1, <2>1
  <2>3. QED BY <1>2, <2>2
<1>5. QED BY <1>1, <1>2, <1>3, <1>4 DEF RightMessage

LEMMA SentIsRight ==
  ASSUME NEW o \in 1..NOps, NEW b \in Members, NEW r \in Rings, NEW t \in States \ {Ended},
         NEW ops, NEW ats, ops[b] = o, ats[b][r] = t,
         \A c \in Heard(b, r, Rank(t)) : ops[c] >= o
  PROVE  RightMessage(Message(o, b, r, t), ops, ats)
<1>1. Rank(t) \in Nat /\ o \in Nat
  BY Ranks
<1>2. Rank(t) <= Rank(ats[b][r]) /\ o <= ops[b]
  BY <1>1
<1>3. QED BY <1>2 DEF RightMessage

LEMMA SendingIs ==
  ASSUME NEW b \in Members, NEW r \in Rings, NEW t \in States, NEW v,
         NEW o \in 1..NOps, op'[b] = o,
         t # Ended => \A e \in Elements : In(e, SentChunk(place(b, r), t), r) =>
                        v[e] = Acc(o, e, r, SentChunk(place(b, r), t), Added(t)),
         NEW m \in Sending(b, r, t, v)
  PROVE  t # Ended /\ m = Message(o, b, r, t)
<1>1. t # Ended
  BY DEF Sending
<1> DEFINE k == SentChunk(place(b, r), t)
<1>2. k \in Chunks
  BY <1>1, Places, ChunkSent
<1>3. m = [src |-> b, dst |-> nxt(b, r), tag |-> Tag(o, r, t),
           vals |-> [i \in 1..(bnd(k + 1, r) - bnd(k, r)) |-> v[bnd(k, r) + i - 1]]]
  BY <1>1 DEF Sending
<1> HIDE DEF k
<1>4. k = SentChunk(place(b, r), t)
  BY DEF k
<1>5. \A e \in Elements : In(e, k, r) => v[e] = Acc(o, e, r, k, Added(t))
  BY <1>1, <1>4
<1>6. QED BY <1>1, <1>2, <1>3, <1>4, <1>5, MessageIsRight
-----------------------------------------------------------------------------
(* Every step keeps it.                                                    *)

LEMMA InitRight == RingInit => RingIInv
<1> SUFFICES ASSUME RingInit PROVE RingIInv
  OBVIOUS
<1>1. Types
  <2>1. Ended \in States /\ 0 \in 0..NOps
    BY Ranks, RingSizes
  <2>2. [e \in Elements |-> <<>>] \in [Elements -> Numbers]
    BY DEF Numbers
  <2>3. QED BY <2>1, <2>2 DEF RingInit, Types
<1>2. \A b \in Members : op[b] = 0 /\ RingsOver(at[b]) /\ out[b] = <<>>
  BY DEF RingInit, RingsOver
<1>3. Waiting /\ VecRight
  BY <1>2 DEF Waiting, VecRight
<1>4. MailRight
  BY DEF RingInit, MailRight
<1>5. Causal
  BY <1>2 DEF Causal, Heard
<1>6. OutRight
  <2>1. \A b \in Members : Len(out[b]) = 0
    BY <1>2
  <2>2. QED BY <1>2, <2>1 DEF OutRight
<1>7. QED BY <1>1, <1>3, <1>4, <1>5, <1>6 DEF RingIInv

First == [phase |-> "rs", s |-> 0]

LEMMA BeginRight == ASSUME RingIInv, NEW b \in Members, Begin(b) PROVE RingIInv'
<1>1. PICK v, o : /\ o = op'[b] /\ v = [e \in Elements |-> <<<<op'[b], b, e>>>>]
                  /\ op[b] < NOps
                  /\ op' = [op EXCEPT ![b] = @ + 1]
                  /\ vec' = [vec EXCEPT ![b] = v]
                  /\ at' = [at EXCEPT ![b] = [r \in Rings |-> First]]
                  /\ mail' = mail \cup UNION {Sending(b, r, First, v) : r \in Rings}
                  /\ out' = out
  BY DEF Begin, First
<1>2. RingsOver(at[b])
  BY DEF Begin, RingsOver
<1>3. /\ op \in [Members -> 0..NOps] /\ at \in [Members -> [Rings -> States]]
      /\ vec \in [Members -> [Elements -> Numbers]]
      /\ out \in [Members -> Seq([Elements -> Numbers])]
  BY DEF RingIInv, Types
<1>4. First \in States \ {Ended} /\ Rank(First) = 0
  BY Ranks DEF First
<1>5. op[b] \in 0..NOps /\ o = op[b] + 1 /\ o \in 1..NOps
  <2>1. op[b] \in 0..NOps /\ o = op[b] + 1
    BY <1>1, <1>3
  <2>2. QED BY <1>1, <2>1, RingSizes
<1>6. v \in [Elements -> Numbers] /\ \A e \in Elements : v[e] = Own(o, b, e)
  <2>1. \A e \in Elements : v[e] = Own(o, b, e)
    BY <1>1 DEF Own
  <2>2. \A e \in Elements : Own(o, b, e) \in Numbers
    BY <1>5, OwnSum, RingShape
  <2>3. QED BY <1>1, <2>1, <2>2 DEF Own
<1>7. Types'
  <2>1. op' \in [Members -> 0..NOps]
    BY <1>1, <1>3, <1>5, RingSizes
  <2>2. at' \in [Members -> [Rings -> States]]
    BY <1>1, <1>3, <1>4
  <2>3. vec' \in [Members -> [Elements -> Numbers]]
    BY <1>1, <1>3, <1>6
  <2>4. QED BY <1>1, <1>3, <2>1, <2>2, <2>3 DEF Types
<1>8. /\ op'[b] = o /\ vec'[b] = v /\ \A r \in Rings : at'[b][r] = First
      /\ \A c \in Members : c # b => op'[c] = op[c] /\ vec'[c] = vec[c] /\ at'[c] = at[c]
  BY <1>1, <1>3
<1>9. /\ \A c \in Members : op[c] \in Nat /\ op'[c] \in Nat /\ op'[c] >= op[c]
      /\ \A c \in Members, r \in Rings :
           /\ at[c][r] \in States /\ at'[c][r] \in States
           /\ op'[c] = op[c] => Rank(at[c][r]) <= Rank(at'[c][r])
  <2>1. \A c \in Members : op[c] \in Nat /\ op'[c] \in Nat
    BY <1>3, <1>7 DEF Types
  <2>2. \A c \in Members : op'[c] >= op[c]
    <3> TAKE c \in Members
    <3>1. op'[c] = op[c] \/ op'[c] = op[c] + 1
      BY <1>5, <1>8
    <3>2. QED BY <2>1, <3>1
  <2>3. \A c \in Members, r \in Rings : at[c][r] \in States /\ at'[c][r] \in States
    BY <1>3, <1>7 DEF Types
  <2>4. \A c \in Members, r \in Rings : op'[c] = op[c] => Rank(at[c][r]) <= Rank(at'[c][r])
    <3> SUFFICES ASSUME NEW c \in Members, NEW r \in Rings, op'[c] = op[c]
                 PROVE  Rank(at[c][r]) <= Rank(at'[c][r])
      OBVIOUS
    <3>1. c # b
      BY <1>5, <1>8
    <3>2. at'[c] = at[c]
      BY <1>8, <3>1
    <3>3. Rank(at[c][r]) \in Nat
      BY <2>3, RankNat
    <3>4. QED BY <3>2, <3>3
  <2>5. QED BY <2>1, <2>2, <2>3, <2>4
<1>10. Causal'
  <2> SUFFICES ASSUME NEW a \in Members, NEW r \in Rings, NEW c \in Heard(a, r, Rank(at'[a][r]))
               PROVE  op'[c] >= op'[a]
    BY DEF Causal
  <2>1. CASE a = b
    <3>1. c = b
      BY <1>4, <1>8, <2>1, HeardAtFirst
    <3>2. QED BY <1>9, <2>1, <3>1
  <2>2. CASE a # b
    <3>1. at'[a] = at[a] /\ op'[a] = op[a]
      BY <1>8, <2>2
    <3>2. c \in Members
      BY DEF Heard
    <3>3. op[c] >= op[a]
      BY <3>1 DEF RingIInv, Causal
    <3>4. QED BY <1>9, <3>1, <3>2, <3>3
  <2>3. QED BY <2>1, <2>2
<1>11. VecRight'
  <2> SUFFICES ASSUME NEW a \in Members, op'[a] > 0, NEW r \in Rings, NEW k \in Chunks,
                      NEW e \in Elements, In(e, k, r)
               PROVE  vec'[a][e] = Held(op'[a], a, e, r, k, Rank(at'[a][r]))
    BY DEF VecRight
  <2>1. CASE a = b
    <3>1. Held(o, b, e, r, k, 0) = Own(o, b, e)
      BY <1>5, HeldFirst
    <3>2. QED BY <1>4, <1>6, <1>8, <2>1, <3>1
  <2>2. CASE a # b
    <3>1. at'[a] = at[a] /\ op'[a] = op[a] /\ vec'[a] = vec[a]
      BY <1>8, <2>2
    <3>2. QED BY <3>1 DEF RingIInv, VecRight
  <2>3. QED BY <2>1, <2>2
<1>12. MailRight'
  <2> SUFFICES ASSUME NEW m \in mail' PROVE RightMessage(m, op', at')
    BY DEF MailRight
  <2>1. CASE m \in mail
    <3>1. RightMessage(m, op, at)
      BY <2>1 DEF RingIInv, MailRight
    <3>2. QED BY <1>9, <3>1, StaysRight
  <2>2. CASE m \notin mail
    <3>1. PICK r \in Rings : m \in Sending(b, r, First, v)
      BY <1>1, <2>2
    <3>2. \A e \in Elements : In(e, SentChunk(place(b, r), First), r) =>
            v[e] = Acc(o, e, r, SentChunk(place(b, r), First), Added(First))
      <4> TAKE e \in Elements
      <4> DEFINE k == SentChunk(place(b, r), First)
      <4>1. k \in Chunks
        BY <1>4, Places, ChunkSent
      <4>2. Held(o, b, e, r, k, 0) = Acc(o, e, r, k, Added(First))
        BY <1>4, <1>5, HeldSent
      <4>3. Held(o, b, e, r, k, 0) = Own(o, b, e)
        BY <1>5, <4>1, HeldFirst
      <4>4. QED BY <1>6, <4>2, <4>3
    <3>3. m = Message(o, b, r, First)
      BY <1>4, <1>5, <1>8, <3>1, <3>2, SendingIs
    <3>4. \A c \in Heard(b, r, Rank(First)) : op'[c] >= o
      BY <1>8, <1>10 DEF Causal
    <3>5. QED BY <1>4, <1>5, <1>8, <3>3, <3>4, SentIsRight
  <2>3. QED BY <2>1, <2>2
<1>13. Waiting'
  <2> SUFFICES ASSUME NEW a \in Members, ~RingsOver(at'[a]) PROVE op'[a] > 0
    BY DEF Waiting
  <2>1. CASE a = b
    BY <1>5, <1>8, <2>1
  <2>2. CASE a # b
    BY <1>8, <2>2 DEF RingIInv, Waiting
  <2>3. QED BY <2>1, <2>2
<1>14. OutRight'
  <2>1. ~RingsOver(at'[b])
    BY <1>4, <1>8, RingShape DEF RingsOver
  <2>2. \A a \in Members :
          Len(out'[a]) = IF RingsOver(at'[a]) THEN op'[a] ELSE op'[a] - 1
    <3> TAKE a \in Members
    <3>1. CASE a = b
      <4>1. Len(out[b]) = op[b]
        BY <1>2 DEF RingIInv, OutRight
      <4>2. op'[b] - 1 = op[b]
        BY <1>5, <1>8
      <4>3. QED BY <1>1, <2>1, <3>1, <4>1, <4>2
    <3>2. CASE a # b
      BY <1>1, <1>8, <3>2 DEF RingIInv, OutRight
    <3>3. QED BY <3>1, <3>2
  <2>3. QED BY <1>1, <2>2 DEF RingIInv, OutRight
<1>15. QED BY <1>7, <1>10, <1>11, <1>12, <1>13, <1>14 DEF RingIInv

LEMMA ReceiveRight == ASSUME RingIInv, NEW b \in Members, NEW r \in Rings, Receive(b, r) PROVE RingIInv'
<1>a. PICK m \in Expected(b, r) :
        LET t == at[b][r]
            k == RecvChunk(place(b, r), t)
            v == [e \in Elements |->
                    IF bnd(k, r) <= e /\ e < bnd(k + 1, r)
                      THEN Taken(t, vec[b][e], m.vals[e - bnd(k, r) + 1])
                      ELSE vec[b][e]] IN
        /\ op' = op
        /\ vec' = [vec EXCEPT ![b] = v]
        /\ at' = [at EXCEPT ![b][r] = After(t)]
        /\ mail' = (mail \ {m}) \cup Sending(b, r, After(t), v)
        /\ out' = IF RingsOver(at'[b]) THEN [out EXCEPT ![b] = Append(@, v)] ELSE out
  BY DEF Receive
<1>b. at[b][r] # Ended
  BY DEF Receive
<1>1. PICK t, k, v :
        /\ m \in Expected(b, r) /\ t = at[b][r] /\ k = RecvChunk(place(b, r), t)
        /\ v = [e \in Elements |->
                  IF bnd(k, r) <= e /\ e < bnd(k + 1, r)
                    THEN Taken(t, vec[b][e], m.vals[e - bnd(k, r) + 1])
                    ELSE vec[b][e]]
        /\ t # Ended
        /\ op' = op
        /\ vec' = [vec EXCEPT ![b] = v]
        /\ at' = [at EXCEPT ![b][r] = After(t)]
        /\ mail' = (mail \ {m}) \cup Sending(b, r, After(t), v)
        /\ out' = IF RingsOver(at'[b]) THEN [out EXCEPT ![b] = Append(@, v)] ELSE out
  BY <1>a, <1>b
<1>2. /\ op \in [Members -> 0..NOps] /\ at \in [Members -> [Rings -> States]]
      /\ vec \in [Members -> [Elements -> Numbers]]
      /\ out \in [Members -> Seq([Elements -> Numbers])]
  BY DEF RingIInv, Types
<1>3. t \in States \ {Ended}
  BY <1>1, <1>2
<1>4. /\ After(t) \in States /\ Rank(After(t)) = Rank(t) + 1 /\ Rank(t) \in Nat
  BY <1>3, Ranks
<1>5. ~RingsOver(at[b])
  BY <1>1 DEF RingsOver
<1>6. PICK o : o = op[b]
  OBVIOUS
<1>7. o \in 1..NOps
  <2>1. o \in 0..NOps /\ o > 0
    BY <1>2, <1>5, <1>6 DEF RingIInv, Waiting
  <2>2. QED BY <2>1, RingSizes
<1>8. k \in Chunks /\ k = SentChunk(place(prv(b, r), r), t) /\ prv(b, r) \in Members
  BY <1>1, <1>3, Places, ChunkReceived
\* The message is the one that step t of operation o sends from the board before.
<1>9. m = Message(o, prv(b, r), r, t) /\ \A c \in Heard(prv(b, r), r, Rank(t)) : op[c] >= o
  <2>1. m \in mail /\ m.src = prv(b, r) /\ m.tag = Tag(o, r, t)
    BY <1>1, <1>6 DEF Expected
  <2>2. PICK p \in 1..NOps, a \in Members, g \in Rings, u \in States \ {Ended} :
          m = Message(p, a, g, u) /\ \A c \in Heard(a, g, Rank(u)) : op[c] >= p
    BY <2>1 DEF RingIInv, MailRight, RightMessage
  <2>3. a = prv(b, r) /\ Tag(p, g, u) = Tag(o, r, t)
    BY <2>1, <2>2, MessageFields
  <2>4. p = o /\ g = r /\ u = t
    BY <1>3, <2>3, TagTells
  <2>5. QED BY <2>2, <2>3, <2>4
<1>10. \A e \in Elements : In(e, k, r) => v[e] = Taken(t, vec[b][e], Acc(o, e, r, k, Added(t)))
  <2> SUFFICES ASSUME NEW e \in Elements, In(e, k, r)
               PROVE  v[e] = Taken(t, vec[b][e], Acc(o, e, r, k, Added(t)))
    OBVIOUS
  <2>1. m.vals[e - bnd(k, r) + 1] = Acc(o, e, r, k, Added(t))
    BY <1>8, <1>9, MessageHolds
  <2>2. v[e] = Taken(t, vec[b][e], m.vals[e - bnd(k, r) + 1])
    BY <1>1 DEF In
  <2>3. QED BY <2>1, <2>2
<1>11. \A e \in Elements : ~In(e, k, r) => v[e] = vec[b][e]
  BY <1>1 DEF In
<1>12. \A g \in Rings : at'[b][g] = IF g = r THEN After(t) ELSE at[b][g]
  BY <1>1, <1>2
<1>13. \A g \in Rings, l \in Chunks, e \in Elements :
         In(e, l, g) => v[e] = Held(o, b, e, g, l, Rank(at'[b][g]))
  <2> SUFFICES ASSUME NEW g \in Rings, NEW l \in Chunks, NEW e \in Elements, In(e, l, g)
               PROVE  v[e] = Held(o, b, e, g, l, Rank(at'[b][g]))
    OBVIOUS
  <2>1. vec[b][e] = Held(o, b, e, g, l, Rank(at[b][g]))
    <3>1. op[b] > 0
      BY <1>6, <1>7
    <3>2. QED BY <1>6, <3>1 DEF RingIInv, VecRight
  <2>2. CASE g = r /\ l = k
    <3>1. v[e] = Taken(t, Held(o, b, e, r, k, Rank(t)), Acc(o, e, r, k, Added(t)))
      BY <1>1, <1>10, <2>1, <2>2
    <3>2. k = RecvChunk(place(b, r), t)
      BY <1>1
    <3>3. Taken(t, Held(o, b, e, r, k, Rank(t)), Acc(o, e, r, k, Added(t))) =
            Held(o, b, e, r, k, Rank(t) + 1)
      BY <1>3, <1>7, <1>8, <3>2, HeldTaken
    <3>4. QED BY <1>4, <1>12, <2>2, <3>1, <3>3
  <2>3. CASE g = r /\ l # k
    <3>1. ~In(e, k, r)
      BY <1>8, <2>3, OneChunk
    <3>2. v[e] = Held(o, b, e, r, l, Rank(t))
      BY <1>1, <1>11, <2>1, <2>3, <3>1
    <3>3. Held(o, b, e, r, l, Rank(t)) = Held(o, b, e, r, l, Rank(t) + 1)
      BY <1>1, <1>3, <1>7, <2>3, HeldKept
    <3>4. QED BY <1>4, <1>12, <2>3, <3>2, <3>3
  <2>4. CASE g # r
    <3>1. ~In(e, k, r)
      BY <1>8, <2>4, OneChunk
    <3>2. QED BY <1>11, <1>12, <2>1, <2>4, <3>1
  <2>5. QED BY <2>2, <2>3, <2>4
<1>14. \A g \in Rings : at'[b][g] \in States /\ Rank(at'[b][g]) \in Nat
  BY <1>2, <1>4, <1>12, RankNat
<1>15. v \in [Elements -> Numbers]
  <2>1. \A e \in Elements : v[e] \in Numbers
    <3> TAKE e \in Elements
    <3>1. PICK g \in Rings, l \in Chunks : In(e, l, g)
      BY SomeChunk
    <3>2. v[e] = Held(o, b, e, g, l, Rank(at'[b][g])) /\ Rank(at'[b][g]) \in Nat
      BY <1>13, <1>14, <3>1
    <3>3. QED BY <1>7, <3>2, HeldTyped
  <2>2. QED BY <1>1, <2>1
<1>16. Types'
  <2>1. at' \in [Members -> [Rings -> States]]
    BY <1>1, <1>2, <1>4
  <2>2. vec' \in [Members -> [Elements -> Numbers]]
    BY <1>1, <1>2, <1>15
  <2>3. out' \in [Members -> Seq([Elements -> Numbers])]
    <3>1. out[b] \in Seq([Elements -> Numbers])
      BY <1>2
    <3>2. Append(out[b], v) \in Seq([Elements -> Numbers])
      BY <1>15, <3>1
    <3>3. QED BY <1>1, <1>2, <3>2
  <2>4. QED BY <1>1, <1>2, <2>1, <2>2, <2>3 DEF Types
<1>17. /\ vec'[b] = v
       /\ \A c \in Members : c # b => vec'[c] = vec[c] /\ at'[c] = at[c] /\ out'[c] = out[c]
  BY <1>1, <1>2
<1>18. /\ \A c \in Members : op[c] \in Nat /\ op'[c] = op[c]
       /\ \A c \in Members, g \in Rings :
            /\ at[c][g] \in States /\ at'[c][g] \in States
            /\ Rank(at[c][g]) <= Rank(at'[c][g])
  <2>1. \A c \in Members : op[c] \in Nat /\ op'[c] = op[c]
    BY <1>1, <1>2
  <2>2. \A c \in Members, g \in Rings : at[c][g] \in States /\ at'[c][g] \in States
    BY <1>2, <1>16 DEF Types
  <2>3. \A c \in Members, g \in Rings : Rank(at[c][g]) <= Rank(at'[c][g])
    <3> TAKE c \in Members, g \in Rings
    <3>1. Rank(at[c][g]) \in Nat
      BY <2>2, RankNat
    <3>2. CASE c = b /\ g = r
      <4>1. at[c][g] = t /\ at'[c][g] = After(t)
        BY <1>1, <1>12, <3>2
      <4>2. QED BY <1>4, <4>1
    <3>3. CASE ~(c = b /\ g = r)
      <4>1. at'[c][g] = at[c][g]
        BY <1>12, <1>17, <3>3
      <4>2. QED BY <3>1, <4>1
    <3>4. QED BY <3>2, <3>3
  <2>4. QED BY <2>1, <2>2, <2>3
<1>19. Causal'
  <2> SUFFICES ASSUME NEW a \in Members, NEW g \in Rings, NEW c \in Heard(a, g, Rank(at'[a][g]))
               PROVE  op'[c] >= op'[a]
    BY DEF Causal
  <2>1. c \in Members
    BY DEF Heard
  <2>2. CASE a = b /\ g = r
    <3>1. c \in Heard(b, r, Rank(t) + 1)
      BY <1>4, <1>12, <2>2
    <3>2. c = b \/ c \in Heard(prv(b, r), r, Rank(t))
      BY <1>4, <3>1, HeardGrows
    <3>3. op[c] >= op[b]
      BY <1>6, <1>9, <1>18, <3>2
    <3>4. QED BY <1>1, <2>2, <3>3
  <2>3. CASE ~(a = b /\ g = r)
    <3>1. at'[a][g] = at[a][g]
      BY <1>12, <1>17, <2>3
    <3>2. op[c] >= op[a]
      BY <3>1 DEF RingIInv, Causal
    <3>3. QED BY <1>1, <3>2
  <2>4. QED BY <2>2, <2>3
<1>20. VecRight'
  <2> SUFFICES ASSUME NEW a \in Members, op'[a] > 0, NEW g \in Rings, NEW l \in Chunks,
                      NEW e \in Elements, In(e, l, g)
               PROVE  vec'[a][e] = Held(op'[a], a, e, g, l, Rank(at'[a][g]))
    BY DEF VecRight
  <2>1. CASE a = b
    BY <1>6, <1>13, <1>17, <1>18, <2>1
  <2>2. CASE a # b
    <3>1. at'[a] = at[a] /\ op'[a] = op[a] /\ vec'[a] = vec[a]
      BY <1>1, <1>17, <2>2
    <3>2. QED BY <3>1 DEF RingIInv, VecRight
  <2>3. QED BY <2>1, <2>2
<1>21. MailRight'
  <2> SUFFICES ASSUME NEW w \in mail' PROVE RightMessage(w, op', at')
    BY DEF MailRight
  <2>1. CASE w \in mail
    <3>1. RightMessage(w, op, at)
      BY <2>1 DEF RingIInv, MailRight
    <3>2. \A c \in Members : op[c] \in Nat /\ op'[c] \in Nat /\ op'[c] >= op[c]
      BY <1>18
    <3>3. QED BY <1>18, <3>1, <3>2, StaysRight
  <2>2. CASE w \notin mail
    <3>1. w \in Sending(b, r, After(t), v)
      BY <1>1, <2>2
    <3>2. op'[b] = o /\ at'[b][r] = After(t)
      BY <1>6, <1>12, <1>18
    <3>3. ASSUME After(t) # Ended
          PROVE  \A e \in Elements : In(e, SentChunk(place(b, r), After(t)), r) =>
                   v[e] = Acc(o, e, r, SentChunk(place(b, r), After(t)), Added(After(t)))
      <4> SUFFICES ASSUME NEW e \in Elements, In(e, SentChunk(place(b, r), After(t)), r)
                   PROVE  v[e] = Acc(o, e, r, SentChunk(place(b, r), After(t)), Added(After(t)))
        OBVIOUS
      <4>1. After(t) \in States \ {Ended}
        BY <1>4, <3>3
      <4>2. SentChunk(place(b, r), After(t)) \in Chunks
        BY <4>1, Places, ChunkSent
      <4>3. v[e] = Held(o, b, e, r, SentChunk(place(b, r), After(t)), Rank(After(t)))
        BY <1>13, <3>2, <4>2
      <4>4. QED BY <1>7, <4>1, <4>3, HeldSent
    <3>4. After(t) # Ended /\ w = Message(o, b, r, After(t))
      BY <1>4, <1>7, <3>1, <3>2, <3>3, SendingIs
    <3>5. \A c \in Heard(b, r, Rank(After(t))) : op'[c] >= o
      BY <1>19, <3>2 DEF Causal
    <3>6. After(t) \in States \ {Ended}
      BY <1>4, <3>4
    <3>7. QED BY <1>7, <3>2, <3>4, <3>5, <3>6, SentIsRight
  <2>3. QED BY <2>1, <2>2
<1>22. Waiting'
  <2> SUFFICES ASSUME NEW a \in Members, ~RingsOver(at'[a]) PROVE op'[a] > 0
    BY DEF Waiting
  <2>1. CASE a = b
    BY <1>6, <1>7, <1>18, <2>1
  <2>2. CASE a # b
    BY <1>17, <1>18, <2>2 DEF RingIInv, Waiting
  <2>3. QED BY <2>1, <2>2
<1>23. OutRight'
  <2> SUFFICES ASSUME NEW a \in Members
               PROVE  /\ Len(out'[a]) = IF RingsOver(at'[a]) THEN op'[a] ELSE op'[a] - 1
                      /\ \A p \in 1..Len(out'[a]) :
                           \A g \in Rings, l \in Chunks, e \in Elements :
                             In(e, l, g) => out'[a][p][e] = Acc(p, e, g, l, N - 1)
    BY DEF OutRight
  <2>1. CASE a # b
    BY <1>17, <1>18, <2>1 DEF RingIInv, OutRight
  <2>2. CASE a = b /\ ~RingsOver(at'[b])
    BY <1>1, <1>5, <1>18, <2>2 DEF RingIInv, OutRight
  <2>3. CASE a = b /\ RingsOver(at'[b])
    <3>1. out'[b] = Append(out[b], v) /\ out[b] \in Seq([Elements -> Numbers])
      BY <1>1, <1>2, <2>3
    <3>2. Len(out[b]) = o - 1 /\ o \in Nat /\ o >= 1
      BY <1>5, <1>6, <1>7 DEF RingIInv, OutRight
    <3>3. Len(out'[b]) = o /\ out'[b][o] = v /\ \A p \in 1..(o - 1) : out'[b][p] = out[b][p]
      BY <1>15, <3>1, <3>2
    <3>4. \A g \in Rings, l \in Chunks, e \in Elements :
            In(e, l, g) => v[e] = Acc(o, e, g, l, N - 1)
      <4> SUFFICES ASSUME NEW g \in Rings, NEW l \in Chunks, NEW e \in Elements, In(e, l, g)
                   PROVE  v[e] = Acc(o, e, g, l, N - 1)
        OBVIOUS
      <4>1. Rank(at'[b][g]) = 2 * (N - 1)
        BY <2>3, Ranks DEF RingsOver
      <4>2. v[e] = Held(o, b, e, g, l, 2 * (N - 1))
        BY <1>13, <4>1
      <4>3. QED BY <1>7, <4>2, HeldLast
    <3>5. \A p \in 1..(o - 1) : \A g \in Rings, l \in Chunks, e \in Elements :
            In(e, l, g) => out[b][p][e] = Acc(p, e, g, l, N - 1)
      BY <3>2 DEF RingIInv, OutRight
    <3>6. \A p \in 1..o : p = o \/ p \in 1..(o - 1)
      BY <3>2
    <3>7. \A p \in 1..Len(out'[b]) : \A g \in Rings, l \in Chunks, e \in Elements :
            In(e, l, g) => out'[b][p][e] = Acc(p, e, g, l, N - 1)
      BY <3>3, <3>4, <3>5, <3>6
    <3>8. QED BY <1>6, <1>18, <2>3, <3>3, <3>7
  <2>4. QED BY <2>1, <2>2, <2>3
<1>24. QED BY <1>16, <1>19, <1>20, <1>21, <1>22, <1>23 DEF RingIInv

LEMMA NextRight == RingIInv /\ [RingNext]_ringVars => RingIInv'
<1> SUFFICES ASSUME RingIInv, [RingNext]_ringVars PROVE RingIInv'
  OBVIOUS
<1>1. ASSUME NEW b \in Members, Begin(b) PROVE RingIInv'
  BY <1>1, BeginRight
<1>2. ASSUME NEW b \in Members, NEW r \in Rings, Receive(b, r) PROVE RingIInv'
  BY <1>2, ReceiveRight
<1>3. ASSUME UNCHANGED ringVars PROVE RingIInv'
  <2>1. op' = op /\ at' = at /\ vec' = vec /\ mail' = mail /\ out' = out
    BY <1>3 DEF ringVars
  <2>2. Types' /\ Waiting'
    BY <2>1 DEF RingIInv, Types, Waiting
  <2>3. MailRight'
    BY <2>1 DEF RingIInv, MailRight
  <2>4. VecRight' /\ Causal'
    BY <2>1 DEF RingIInv, VecRight, Causal
  <2>5. OutRight'
    BY <2>1 DEF RingIInv, OutRight
  <2>6. QED BY <2>2, <2>3, <2>4, <2>5 DEF RingIInv
<1>4. QED BY <1>1, <1>2, <1>3 DEF RingNext, AllDone

\* The invariant of every run of ring_allreduce.
THEOREM RingInvariant == RingSpec => []RingIInv
<1>1. RingInit => RingIInv
  BY InitRight
<1>2. RingIInv /\ [RingNext]_ringVars => RingIInv'
  BY NextRight
<1>3. QED BY <1>1, <1>2, PTL DEF RingSpec

\* The boards' state has its types.
THEOREM RingTypes == RingSpec => []RingTypeOK
<1>1. RingIInv => RingTypeOK
  <2> SUFFICES ASSUME RingIInv PROVE RingTypeOK
    OBVIOUS
  <2>1. Types
    BY DEF RingIInv
  <2>2. \A b \in Members : Len(out[b]) \in 0..NOps
    <3> TAKE b \in Members
    <3>1. op[b] \in 0..NOps /\ (~RingsOver(at[b]) => op[b] > 0)
      BY <2>1 DEF RingIInv, Types, Waiting
    <3>2. Len(out[b]) = IF RingsOver(at[b]) THEN op[b] ELSE op[b] - 1
      BY DEF RingIInv, OutRight
    <3>3. QED BY <3>1, <3>2, RingSizes
  <2>3. \A b \in Members, r \in Rings :
          at[b][r] \in [phase : {"rs", "ag"}, s : Steps] \cup {Ended}
    BY <2>1 DEF Types, States
  <2>4. \A b \in Members, e \in Elements : vec[b][e] \in Numbers
    BY <2>1 DEF Types
  <2>5. QED BY <2>1, <2>2, <2>3, <2>4 DEF Types, RingTypeOK
<1>2. QED BY <1>1, RingInvariant, PTL

\* A message's tag says which operation, ring and step it is of, and those
\* say what is in it: of one tag the mailbox holds one message, however far
\* boards run ahead of each other.
THEOREM RingOneMessagePerTag == RingSpec => []OneMessagePerTag
<1>1. RingIInv => OneMessagePerTag
  <2> SUFFICES ASSUME RingIInv, NEW m \in mail, NEW w \in mail, m.src = w.src, m.tag = w.tag
               PROVE  m = w
    BY DEF OneMessagePerTag
  <2>1. RightMessage(m, op, at) /\ RightMessage(w, op, at)
    BY DEF RingIInv, MailRight
  <2>2. PICK o \in 1..NOps, b \in Members, r \in Rings, t \in States \ {Ended} :
          m = Message(o, b, r, t)
    BY <2>1 DEF RightMessage
  <2>3. PICK p \in 1..NOps, c \in Members, g \in Rings, u \in States \ {Ended} :
          w = Message(p, c, g, u)
    BY <2>1 DEF RightMessage
  <2>4. b = c /\ Tag(o, r, t) = Tag(p, g, u)
    BY <2>2, <2>3, MessageFields
  <2>5. o = p /\ r = g /\ t = u
    BY <2>4, TagTells
  <2>6. QED BY <2>2, <2>3, <2>4, <2>5
<1>2. QED BY <1>1, RingInvariant, PTL

\* What a board ends an operation with is each element's sum round the ring.
LEMMA EndsWithSums ==
  ASSUME RingIInv, NEW b \in Members, NEW o \in 1..Len(out[b]), NEW e \in Elements
  PROVE  \E r \in Rings, k \in Chunks :
           o \in 1..NOps /\ In(e, k, r) /\ out[b][o][e] = Acc(o, e, r, k, N - 1)
<1>1. PICK r \in Rings, k \in Chunks : In(e, k, r)
  BY SomeChunk
<1>2. out[b][o][e] = Acc(o, e, r, k, N - 1)
  BY <1>1 DEF RingIInv, OutRight
<1>3. o \in 1..NOps
  <2>1. op[b] \in 0..NOps /\ Len(out[b]) \in {op[b], op[b] - 1}
    BY DEF RingIInv, Types, OutRight
  <2>2. QED BY <2>1, RingSizes
<1>4. QED BY <1>1, <1>2, <1>3

\* Every board ends every operation with each element the sum of what each of
\* the N boards brought to that very operation, each once, for any number of
\* boards and of elements, over one ring or two, whatever order messages
\* arrive in and however far boards run ahead.
THEOREM RingEveryContribution == RingSpec => []EveryContributionOnce
<1>1. RingIInv => EveryContributionOnce
  <2> SUFFICES ASSUME RingIInv, NEW b \in Members, NEW o \in 1..Len(out[b]), NEW e \in Elements
               PROVE  /\ Len(out[b][o][e]) = N
                      /\ ToSet(out[b][o][e]) = {<<o, c, e>> : c \in Members}
    BY DEF EveryContributionOnce
  <2>1. PICK r \in Rings, k \in Chunks :
          o \in 1..NOps /\ In(e, k, r) /\ out[b][o][e] = Acc(o, e, r, k, N - 1)
    BY EndsWithSums
  <2> DEFINE s == Acc(o, e, r, k, N - 1)
  <2>2. N - 1 \in Chunks /\ (N - 1) + 1 = N
    BY RingSizes DEF Chunks
  <2>3. /\ s \in Numbers /\ Len(s) = N
        /\ \A i \in 1..N : s[i] = <<o, BoardAt(r, Spot(k, i - 1)), e>>
    <3>1. o \in 1..NOps
      BY <2>1
    <3>2. QED BY <2>2, <3>1, Sums1
  <2> HIDE DEF s
  <2>4. ToSet(s) = {s[i] : i \in 1..N}
    <3>1. s \in Seq(Contributions) /\ Len(s) = N
      BY <2>3 DEF Numbers, Contributions
    <3>2. DOMAIN s = 1..N
      BY <3>1, LenProperties
    <3>3. QED BY <3>2 DEF ToSet
  <2>5. \A i \in 1..N : BoardAt(r, Spot(k, i - 1)) \in Members
    BY RingSizes DEF Chunks, BoardAt, Spot
  <2>6. \A c \in Members : \E i \in 1..N : s[i] = <<o, c, e>>
    <3> TAKE c \in Members
    <3> DEFINE i == Dist(place(c, r), k) + 1
    <3>1. Dist(place(c, r), k) \in Chunks /\ Spot(k, Dist(place(c, r), k)) = place(c, r)
      BY Places, Distances
    <3>2. i \in 1..N /\ i - 1 = Dist(place(c, r), k)
      BY <3>1, RingSizes DEF Chunks
    <3>3. s[i] = <<o, BoardAt(r, place(c, r)), e>>
      BY <2>3, <3>1, <3>2
    <3>4. QED BY <3>2, <3>3, Places
  <2>7. ToSet(s) = {<<o, c, e>> : c \in Members}
    <3>1. \A i \in 1..N : s[i] \in {<<o, c, e>> : c \in Members}
      BY <2>3, <2>5
    <3>2. ToSet(s) \subseteq {<<o, c, e>> : c \in Members}
      BY <2>4, <3>1
    <3>3. \A c \in Members : <<o, c, e>> \in ToSet(s)
      BY <2>4, <2>6
    <3>4. QED BY <3>2, <3>3
  <2>8. QED BY <2>1, <2>3, <2>7 DEF s
<1>2. QED BY <1>1, RingInvariant, PTL

\* Two boards that have ended an operation have the same vector, each sum
\* added in the same order: bit for bit the same floating-point numbers.
THEOREM RingSameOnEveryBoard == RingSpec => []SameOnEveryBoard
<1>1. RingIInv => SameOnEveryBoard
  <2> SUFFICES ASSUME RingIInv, NEW b \in Members, NEW c \in Members, NEW o \in 1..Len(out[b]),
                      o <= Len(out[c])
               PROVE  out[b][o] = out[c][o]
    BY DEF SameOnEveryBoard
  <2>1. out[b] \in Seq([Elements -> Numbers]) /\ out[c] \in Seq([Elements -> Numbers])
    BY DEF RingIInv, Types
  <2>2. o \in 1..Len(out[c])
    BY <2>1
  <2>3. out[b][o] \in [Elements -> Numbers] /\ out[c][o] \in [Elements -> Numbers]
    BY <2>1, <2>2
  <2>4. \A e \in Elements : out[b][o][e] = out[c][o][e]
    <3> TAKE e \in Elements
    <3>1. PICK r \in Rings, k \in Chunks : In(e, k, r)
      BY SomeChunk
    <3>2. out[b][o][e] = Acc(o, e, r, k, N - 1) /\ out[c][o][e] = Acc(o, e, r, k, N - 1)
      BY <2>2, <3>1 DEF RingIInv, OutRight
    <3>3. QED BY <3>2
  <2>5. QED BY <2>3, <2>4
<1>2. QED BY <1>1, RingInvariant, PTL

\* The ring is an all-reduce: a board begins an operation when it has ended
\* the one before, and ends it only when every board has begun it.
THEOREM RingImplementsSum == RingSpec => ImplementsSum
<1> DEFINE Counts == [b \in Members |-> Len(out[b])]
<1>1. RingInit => Sums!SumInit
  BY DEF RingInit, Sums!SumInit
<1>2. RingIInv /\ RingIInv' /\ [RingNext]_ringVars => [Sums!SumNext]_(Sums!SumVars)
  <2> SUFFICES ASSUME RingIInv, RingIInv', [RingNext]_ringVars
               PROVE  Sums!SumNext \/ (op' = op /\ Counts' = Counts)
    BY DEF Sums!SumVars
  <2>1. ASSUME NEW b \in Members, Begin(b) PROVE Sums!Begin(b)
    <3>1. RingsOver(at[b]) /\ op[b] < NOps /\ op' = [op EXCEPT ![b] = @ + 1] /\ out' = out
      BY <2>1 DEF Begin, RingsOver
    <3>2. Len(out[b]) = op[b]
      BY <3>1 DEF RingIInv, OutRight
    <3>3. QED BY <3>1, <3>2 DEF Sums!Begin
  <2>2. ASSUME NEW b \in Members, NEW r \in Rings, Receive(b, r)
        PROVE  Sums!End(b) \/ (op' = op /\ Counts' = Counts)
    <3>1. PICK v : /\ op' = op
                   /\ out' = IF RingsOver(at'[b]) THEN [out EXCEPT ![b] = Append(@, v)] ELSE out
                   /\ ~RingsOver(at[b])
      BY <2>2 DEF Receive, RingsOver
    <3>2. CASE ~RingsOver(at'[b])
      BY <3>1, <3>2
    <3>3. CASE RingsOver(at'[b])
      <4>1. op[b] \in Nat /\ op[b] > 0 /\ Len(out[b]) = op[b] - 1 /\ Len(out'[b]) = op[b]
        BY <3>1, <3>3 DEF RingIInv, Types, Waiting, OutRight
      <4>2. \A c \in Members : op[c] >= op[b]
        <5> TAKE c \in Members
        <5>1. PICK g \in Rings : TRUE
          BY RingShape
        <5>2. Rank(at'[b][g]) = 2 * (N - 1)
          BY <3>3, Ranks DEF RingsOver
        <5>3. c \in Heard(b, g, Rank(at'[b][g]))
          BY <5>2, HeardOfAll
        <5>4. QED BY <3>1, <5>3 DEF RingIInv, Causal
      <4>3. Counts' = [Counts EXCEPT ![b] = @ + 1]
        <5>1. \A c \in Members : c # b => out'[c] = out[c]
          BY <3>1 DEF RingIInv, Types
        <5>2. Len(out'[b]) = Len(out[b]) + 1
          BY <4>1
        <5>3. QED BY <5>1, <5>2
      <4>4. QED BY <3>1, <4>1, <4>2, <4>3 DEF Sums!End
    <3>4. QED BY <3>2, <3>3
  <2>3. ASSUME UNCHANGED ringVars PROVE op' = op /\ Counts' = Counts
    BY <2>3 DEF ringVars
  <2>4. QED BY <2>1, <2>2, <2>3 DEF RingNext, AllDone, Sums!SumNext
<1>3. QED BY <1>1, <1>2, RingInvariant, PTL DEF RingSpec, ImplementsSum

\* Ring r of board b goes on, and waits with its next message sent.
GoesOn(b, r) == /\ <<op'[b], at'[b][r]>> # <<op[b], at[b][r]>>
                /\ at'[b][r] # Ended

\* A message is never sent while one of its tag is still in the mailbox.
SendsAFreshTag ==
  \A b \in Members, r \in Rings : GoesOn(b, r) =>
    \A w \in mail : ~(w.src = b /\ w.tag = Tag(op'[b], r, at'[b][r]))

\* No step of any operation sends again what its receiver has not yet taken,
\* even when the sender runs on through operations and the receiver stands.
THEOREM RingSendsAFreshTag == RingSpec => [][SendsAFreshTag]_ringVars
<1>1. RingIInv /\ RingIInv' /\ [RingNext]_ringVars => [SendsAFreshTag]_ringVars
  <2> SUFFICES ASSUME RingIInv, RingIInv', RingNext, NEW b \in Members, NEW r \in Rings, GoesOn(b, r),
                      NEW w \in mail, w.src = b, w.tag = Tag(op'[b], r, at'[b][r])
               PROVE  FALSE
    BY DEF SendsAFreshTag
  <2> DEFINE Gone == \/ op'[b] = op[b] + 1
                     \/ op'[b] = op[b] /\ Rank(at'[b][r]) = Rank(at[b][r]) + 1
  <2>1. /\ op \in [Members -> 0..NOps] /\ at \in [Members -> [Rings -> States]]
        /\ at'[b][r] \in States \ {Ended} /\ at[b][r] \in States
    BY DEF RingIInv, Types, GoesOn
  <2>2. ASSUME NEW c \in Members, Begin(c) PROVE Gone
    <3>1. op' = [op EXCEPT ![c] = @ + 1] /\ \A a \in Members : a # c => at'[a] = at[a]
      BY <2>1, <2>2 DEF Begin
    <3>2. b = c
      BY <2>1, <3>1 DEF GoesOn
    <3>3. QED BY <2>1, <3>1, <3>2
  <2>3. ASSUME NEW c \in Members, NEW g \in Rings, Receive(c, g) PROVE Gone
    <3>1. op' = op /\ at' = [at EXCEPT ![c][g] = After(at[c][g])] /\ at[c][g] # Ended
      BY <2>3 DEF Receive
    <3>2. b = c /\ g = r
      BY <2>1, <3>1 DEF GoesOn
    <3>3. at'[b][r] = After(at[b][r]) /\ at[b][r] \in States \ {Ended}
      BY <2>1, <3>1, <3>2
    <3>4. QED BY <3>1, <3>3, Ranks
  <2>4. Gone
    <3>1. ~UNCHANGED ringVars
      BY DEF GoesOn, ringVars
    <3>2. QED BY <2>2, <2>3, <3>1 DEF RingNext, AllDone
  <2>5. PICK o \in 1..NOps, c \in Members, g \in Rings, u \in States \ {Ended} :
          /\ w = Message(o, c, g, u) /\ o <= op[c]
          /\ o = op[c] => Rank(u) <= Rank(at[c][g])
    BY DEF RingIInv, MailRight, RightMessage
  <2>6. c = b /\ Tag(o, g, u) = Tag(op'[b], r, at'[b][r])
    BY <2>5, MessageFields
  <2>7. o = op'[b] /\ g = r /\ u = at'[b][r]
    BY <2>1, <2>6, TagTells
  <2>8. Rank(at[b][r]) \in Nat /\ Rank(u) \in Nat /\ op[b] \in Nat
    BY <2>1, RankNat
  <2>9. QED BY <2>4, <2>5, <2>6, <2>7, <2>8
<1>2. QED BY <1>1, RingInvariant, PTL DEF RingSpec
=============================================================================
