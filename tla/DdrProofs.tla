----------------------------- MODULE DdrProofs -----------------------------
(***************************************************************************)
(* Both sides of the bridge between the core and DDR (zybo.py,             *)
(* render_top).                                                            *)
(*                                                                         *)
(* The weights' side, for any number of masters, slots, lines and beats,   *)
(* and any number of bursts outstanding: the core never reads another      *)
(* line's weights, however it jumps and in whatever order the masters'     *)
(* bursts land.                                                            *)
(*                                                                         *)
(* The constants' and KV side, for any number of lines, words a line and   *)
(* lanes: the core reads what it last wrote, all of it is in DDR before    *)
(* its clock runs again, and no write goes twice.                          *)
(***************************************************************************)
EXTENDS WeightStreamer, DdrBridge, TLAPS

\* A master's bursts: those DDR has taken, oldest first, then the request.
Queue(p) ==
  /\ Len(inf[p]) = Len(mem[p]) + (IF arvalid[p] THEN 1 ELSE 0)
  /\ \A i \in 1..Len(mem[p]) : inf[p][i] = mem[p][i]
  /\ arvalid[p] => inf[p][Len(inf[p])] = araddr[p]
  /\ out[p] = Len(mem[p]) /\ Len(inf[p]) <= MAXO

\* A valid slot is full of its line, and one being filled is so up to the beat
\* its master is at.
Arrived ==
  /\ \A s \in Slots : sval[s] => \A b \in 1..NBeats : swb[s][b] = stag[s]
  /\ \A p \in Masters :
       /\ mem[p] = <<>> => wb[p] = 1
       /\ mem[p] # <<>> => \A b \in 1..(wb[p] - 1) : swb[Filling(p)][b] = inf[p][1]

IInv == /\ TypeOK /\ (\A p \in Masters : Queue(p))
        /\ OneBurstASlot /\ FlagsExact /\ Arrived

-----------------------------------------------------------------------------
(* Remainders.                                                             *)

LEMMA ModType ==
  ASSUME NEW n \in Nat \ {0}, NEW l \in Nat
  PROVE  l % n \in 0..(n - 1)
  OBVIOUS

LEMMA ModIs ==
  ASSUME NEW n \in Nat \ {0}, NEW z \in Nat, NEW k \in 0..(n - 1)
  PROVE  (n * z + k) % n = k
  OBVIOUS

LEMMA DivMod ==
  ASSUME NEW n \in Nat \ {0}, NEW l \in Nat
  PROVE  \E z \in Nat : l = n * z + (l % n)
<1>1. l \div n \in Nat OBVIOUS
<1>2. l = n * (l \div n) + (l % n) OBVIOUS
<1>3. QED BY <1>1, <1>2

LEMMA ModNext ==
  ASSUME NEW n \in Nat \ {0}, n > 1, NEW l \in Nat
  PROVE  (l + 1) % n # l % n
<1>1. PICK z \in Nat : l = n * z + (l % n) BY DivMod
<1>2. PICK k \in 0..(n - 1) : k = l % n BY ModType
<1>3. CASE k < n - 1
  <2>1. l + 1 = n * z + (k + 1) BY <1>1, <1>2
  <2>2. k + 1 \in 0..(n - 1) BY <1>3
  <2>3. (l + 1) % n = k + 1 BY <2>1, <2>2, ModIs
  <2>4. QED BY <1>2, <2>3
<1>4. CASE k = n - 1
  <2>1. l + 1 = n * (z + 1) + 0 BY <1>1, <1>2, <1>4
  <2>2. z + 1 \in Nat /\ 0 \in 0..(n - 1) OBVIOUS
  <2>3. (n * (z + 1) + 0) % n = 0 BY <2>2, ModIs
  <2>4. QED BY <1>2, <1>4, <2>1, <2>3
<1>5. QED BY <1>3, <1>4

\* A remainder keeps the remainder by a divisor.
LEMMA ModOf ==
  ASSUME NEW n \in Nat \ {0}, NEW m \in Nat \ {0}, m % n = 0, NEW l \in Nat
  PROVE  (l % m) % n = l % n
<1>1. PICK c \in Nat : m = n * c
  <2>1. PICK c \in Nat : m = n * c + (m % n) BY DivMod
  <2>2. m = n * c BY <2>1
  <2>3. QED BY <2>2
<1>2. PICK z \in Nat : l = m * z + (l % m) BY DivMod
<1>3. PICK k \in Nat : k = l % m BY ModType
<1>4. PICK y \in Nat : k = n * y + (k % n) BY DivMod
<1>5. k % n \in 0..(n - 1) OBVIOUS
<1>6. l = n * (c * z + y) + (k % n)
  <2>1. l = (n * c) * z + (n * y + (k % n)) BY <1>1, <1>2, <1>3, <1>4
  <2>2. (n * c) * z = n * (c * z) OBVIOUS
  <2>3. QED BY <2>1, <2>2, <1>5
<1>7. c * z + y \in Nat OBVIOUS
<1>8. l % n = k % n BY <1>5, <1>6, <1>7, ModIs
<1>9. QED BY <1>3, <1>8

\* The beat after the last is the first.
LEMMA NextBeat ==
  ASSUME NEW n \in Nat \ {0}, NEW b \in 1..n
  PROVE  (b % n) + 1 = IF b = n THEN 1 ELSE b + 1
  OBVIOUS

LEMMA Sizes ==
  /\ NP \in Nat \ {0} /\ NS \in Nat \ {0} /\ MAXO \in Nat \ {0}
  /\ NLines \in Nat \ {0} /\ NBeats \in Nat \ {0}
  /\ NS > 1 /\ NS % NP = 0
  BY StreamerAssumption

\* A line's slot is one of its master's, and not the slot of the next line.
LEMMA Places ==
  ASSUME NEW l \in Nat
  PROVE  /\ slot(l) \in Slots /\ master(l) \in Masters
         /\ slot(l) % NP = master(l) /\ slot(l + 1) # slot(l)
<1>1. slot(l) \in Slots BY Sizes, ModType DEF slot, Slots
<1>2. master(l) \in Masters BY Sizes, ModType DEF master, Masters
<1>3. slot(l) % NP = master(l) BY Sizes, ModOf DEF slot, master
<1>4. slot(l + 1) # slot(l) BY Sizes, ModNext DEF slot
<1>5. QED BY <1>1, <1>2, <1>3, <1>4

\* A queue m is z with its oldest gone or not (g), one behind it or not (a).
One(b) == IF b THEN 1 ELSE 0
IsMoved(m, z, g, a, l) ==
  /\ m \in Seq(Streamed) /\ Len(m) = Len(z) - g + a
  /\ \A i \in 1..(Len(z) - g) : m[i] = z[i + g]
  /\ a = 1 => m[Len(z) - g + 1] = l

LEMMA MovedIs ==
  ASSUME NEW z \in Seq(Streamed), NEW l \in Streamed, NEW gone \in BOOLEAN, NEW more \in BOOLEAN,
         gone => z # <<>>
  PROVE  IsMoved(Moved(z, gone, more, l), z, One(gone), One(more), l)
<1>1. CASE gone /\ more BY <1>1 DEF Moved, IsMoved, One
<1>2. CASE gone /\ ~more BY <1>2 DEF Moved, IsMoved, One
<1>3. CASE ~gone /\ more BY <1>3 DEF Moved, IsMoved, One
<1>4. CASE ~gone /\ ~more BY <1>4 DEF Moved, IsMoved, One
<1>5. QED BY <1>1, <1>2, <1>3, <1>4

-----------------------------------------------------------------------------
(* What an edge finds.                                                     *)

LEMMA Lines_ ==
  /\ \A l \in Streamed : l \in Nat
  /\ \A l \in Lines : l \in Nat /\ l \in Streamed
  BY Sizes DEF Streamed, Lines

\* Entry by entry, what a master has under way has its slot, which is pending.
LEMMA Burst ==
  ASSUME IInv, NEW p \in Masters, NEW i \in 1..Len(inf[p])
  PROVE  /\ inf[p][i] \in Streamed /\ slot(inf[p][i]) \in Slots
         /\ pend[slot(inf[p][i])] /\ ~sval[slot(inf[p][i])]
         /\ stag[slot(inf[p][i])] = inf[p][i] /\ master(inf[p][i]) = p
<1>1. inf[p] \in Seq(Streamed) BY DEF IInv, TypeOK
<1>2. i \in DOMAIN inf[p] /\ inf[p][i] \in Streamed BY <1>1
<1>3. slot(inf[p][i]) \in Slots BY <1>2, Lines_, Places
<1>4. /\ pend[slot(inf[p][i])] /\ stag[slot(inf[p][i])] = inf[p][i]
      /\ master(inf[p][i]) = p
  BY <1>2 DEF IInv, OneBurstASlot
<1>5. QED BY <1>2, <1>3, <1>4 DEF IInv, OneBurstASlot

\* No two bursts, of one master or of two, are for one slot.
LEMMA OneBurst ==
  ASSUME IInv, NEW p \in Masters, NEW i \in 1..Len(inf[p]),
         NEW m \in Masters, NEW j \in 1..Len(inf[m]),
         slot(inf[p][i]) = slot(inf[m][j])
  PROVE  p = m /\ i = j
<1>1. p = m BY Burst
<1>2. inf[p] \in Seq(Streamed) BY DEF IInv, TypeOK
<1>3. i \in DOMAIN inf[p] /\ j \in DOMAIN inf[p] BY <1>1, <1>2
<1>4. QED BY <1>1, <1>3 DEF IInv, OneBurstASlot

\* A master DDR may answer has a burst, the oldest of both queues.
LEMMA Oldest ==
  ASSUME IInv, NEW p \in Masters, mem[p] # <<>>
  PROVE  /\ 1 \in 1..Len(mem[p]) /\ 1 \in 1..Len(inf[p]) /\ inf[p] # <<>>
         /\ Head(mem[p]) = inf[p][1] /\ Head(inf[p]) = inf[p][1]
         /\ Filling(p) = slot(inf[p][1])
<1>1. inf[p] \in Seq(Streamed) /\ mem[p] \in Seq(Streamed) BY DEF IInv, TypeOK
<1>2. Queue(p) BY DEF IInv
<1>3. 1 \in 1..Len(mem[p]) BY <1>1
<1>4. Len(inf[p]) >= Len(mem[p])
  <2>1. Len(mem[p]) \in Nat /\ Len(inf[p]) \in Nat BY <1>1
  <2>2. PICK a \in {0, 1} : Len(inf[p]) = Len(mem[p]) + a
    BY <1>2 DEF Queue
  <2>3. QED BY <2>1, <2>2
<1>5. 1 \in 1..Len(inf[p]) BY <1>1, <1>3, <1>4
<1>6. inf[p][1] = mem[p][1] BY <1>2, <1>3 DEF Queue
<1>7. QED BY <1>1, <1>3, <1>5, <1>6 DEF Filling

\* The line asked for has a slot with no burst, and a master that may ask.
LEMMA Issued ==
  ASSUME IInv, Issues
  PROVE  /\ ~pend[slot(nreq)] /\ ~arvalid[master(nreq)] /\ out[master(nreq)] < MAXO
         /\ cur <= nreq /\ nreq < cur + NS
  BY DEF IInv, FlagsExact, Issues, MayIssue, MayIssue_SlotFree, in_win

\* The edge, master by master and slot by slot.
LEMMA AtMaster ==
  ASSUME IInv, NEW ar \in SUBSET Accepting, NEW r \in SUBSET Answering, Ports(ar, r),
         NEW p \in Masters
  PROVE  /\ arvalid'[p] <=> (Asks(p) \/ (arvalid[p] /\ p \notin ar))
         /\ araddr'[p] = IF Asks(p) THEN nreq ELSE araddr[p]
         /\ out'[p] = out[p] + One(p \in ar) - One(Lands(p, r))
         /\ inf'[p] = Moved(inf[p], Lands(p, r), Asks(p), nreq)
         /\ wb'[p] = IF p \in r THEN (wb[p] % NBeats) + 1 ELSE wb[p]
         /\ mem'[p] = Moved(mem[p], Lands(p, r), p \in ar, araddr[p])
  BY DEF Ports, One

LEMMA AtSlot ==
  ASSUME NEW r, SlotsAfter(r), NEW s \in Slots
  PROVE  /\ sval'[s] <=> Landed(s, r) \/ (sval[s] /\ ~Asked(s))
         /\ pend'[s] <=> ~Landed(s, r) /\ (pend[s] \/ Asked(s))
         /\ stag'[s] = IF Asked(s) THEN nreq ELSE stag[s]
         /\ swb'[s] = Written(s, r)
  BY DEF SlotsAfter

\* The slot a burst lands in was pending for it, and is not asked for.
LEMMA LandedSlot ==
  ASSUME IInv, NEW r \in SUBSET Answering, NEW s \in Slots, Landed(s, r)
  PROVE  /\ \E p \in r : Lands(p, r) /\ s = slot(inf[p][1])
         /\ pend[s] /\ ~sval[s] /\ ~Asked(s)
<1>1. PICK p \in r : Lands(p, r) /\ Filling(p) = s BY DEF Landed
<1>2. p \in Masters /\ mem[p] # <<>> BY DEF Answering
<1>3. 1 \in 1..Len(inf[p]) /\ s = slot(inf[p][1]) BY <1>1, <1>2, Oldest
<1>4. pend[s] /\ ~sval[s] BY <1>2, <1>3, Burst
<1>5. ~Asked(s) BY <1>4, Issued DEF Asked
<1>6. QED BY <1>1, <1>3, <1>4, <1>5

-----------------------------------------------------------------------------
(* Each edge keeps it: the queues.                                         *)

LEMMA QueuesAfter ==
  ASSUME IInv, NEW clk \in BOOLEAN, NEW ar \in SUBSET Accepting, NEW r \in SUBSET Answering,
         Edge(clk, ar, r), NEW p \in Masters
  PROVE  /\ IsMoved(inf'[p], inf[p], One(Lands(p, r)), One(Asks(p)), nreq)
         /\ IsMoved(mem'[p], mem[p], One(Lands(p, r)), One(p \in ar), araddr[p])
<1>1. PICK gone \in BOOLEAN : gone <=> Lands(p, r) OBVIOUS
<1>2. PICK more \in BOOLEAN : more <=> Asks(p) OBVIOUS
<1>3. PICK taken \in BOOLEAN : taken <=> p \in ar OBVIOUS
<1>4. /\ inf[p] \in Seq(Streamed) /\ nreq \in Streamed
      /\ mem[p] \in Seq(Streamed) /\ araddr[p] \in Streamed
  BY DEF IInv, TypeOK
<1>5. gone => inf[p] # <<>> /\ mem[p] # <<>> BY <1>1, Oldest DEF Lands, Answering
<1>6. inf'[p] = Moved(inf[p], gone, more, nreq)
  <2>1. inf'[p] = Moved(inf[p], Lands(p, r), Asks(p), nreq) BY DEF Edge, Ports
  <2>2. QED BY <1>1, <1>2, <2>1 DEF Moved
<1>7. mem'[p] = Moved(mem[p], gone, taken, araddr[p])
  <2>1. mem'[p] = Moved(mem[p], Lands(p, r), p \in ar, araddr[p]) BY AtMaster DEF Edge
  <2>2. QED BY <1>1, <1>3, <2>1 DEF Moved
<1>8. One(gone) = One(Lands(p, r)) /\ One(more) = One(Asks(p)) /\ One(taken) = One(p \in ar)
  BY <1>1, <1>2, <1>3 DEF One
<1>9. IsMoved(inf'[p], inf[p], One(gone), One(more), nreq) BY <1>4, <1>5, <1>6, MovedIs
<1>10. IsMoved(mem'[p], mem[p], One(gone), One(taken), araddr[p])
  BY <1>4, <1>5, <1>7, MovedIs
<1>11. QED BY <1>8, <1>9, <1>10

\* The lengths, as numbers.
LEMMA QueueKept ==
  ASSUME IInv, NEW clk \in BOOLEAN, NEW ar \in SUBSET Accepting, NEW r \in SUBSET Answering,
         Edge(clk, ar, r), NEW p \in Masters
  PROVE  Queue(p)'
<1> DEFINE g == One(Lands(p, r))
           n == Len(inf[p])
           m == Len(mem[p])
<1>1. n \in Nat /\ m \in Nat /\ g \in {0, 1} /\ (g = 1 => m > 0)
  <2>1. inf[p] \in Seq(Streamed) /\ mem[p] \in Seq(Streamed) BY DEF IInv, TypeOK
  <2>2. g = 1 => mem[p] # <<>> BY DEF Lands, Answering, One
  <2>3. QED BY <2>1, <2>2 DEF One
<1>2. /\ Len(inf'[p]) = n - g + One(Asks(p))
      /\ \A i \in 1..(n - g) : inf'[p][i] = inf[p][i + g]
      /\ One(Asks(p)) = 1 => inf'[p][n - g + 1] = nreq
  BY QueuesAfter DEF IsMoved
<1>3. /\ Len(mem'[p]) = m - g + One(p \in ar)
      /\ \A i \in 1..(m - g) : mem'[p][i] = mem[p][i + g]
      /\ One(p \in ar) = 1 => mem'[p][m - g + 1] = araddr[p]
  BY QueuesAfter DEF IsMoved
<1>4. /\ n = m + (IF arvalid[p] THEN 1 ELSE 0)
      /\ \A i \in 1..m : inf[p][i] = mem[p][i]
      /\ arvalid[p] => inf[p][n] = araddr[p]
      /\ out[p] = m /\ n <= MAXO
  BY DEF IInv, Queue
<1>5. /\ arvalid'[p] <=> Asks(p) \/ (arvalid[p] /\ p \notin ar)
      /\ araddr'[p] = IF Asks(p) THEN nreq ELSE araddr[p]
      /\ out'[p] = m + One(p \in ar) - g
  BY <1>4, AtMaster DEF Edge
<1>6. /\ Asks(p) => ~arvalid[p] /\ m < MAXO
      /\ p \in ar => arvalid[p]
  BY <1>4, Issued DEF Asks, Accepting
<1> HIDE DEF g, n, m
<1>7. CASE Asks(p)
  <2>1. ~arvalid[p] /\ p \notin ar /\ n = m /\ arvalid'[p] /\ araddr'[p] = nreq
    BY <1>1, <1>4, <1>5, <1>6, <1>7
  <2>2. Len(inf'[p]) = m - g + 1 /\ Len(mem'[p]) = m - g /\ out'[p] = m - g
    BY <1>1, <1>2, <1>3, <1>5, <1>7, <2>1 DEF One
  <2>3. \A i \in 1..(m - g) : inf'[p][i] = mem'[p][i]
    <3>1. \A i \in 1..(m - g) : i \in 1..(n - g) /\ i + g \in 1..m BY <1>1, <2>1
    <3>2. QED BY <1>2, <1>3, <1>4, <3>1
  <2>4. inf'[p][m - g + 1] = nreq BY <1>2, <1>7, <2>1 DEF One
  <2>5. m - g + 1 <= MAXO BY <1>1, <1>6, <1>7, Sizes
  <2>6. QED BY <2>1, <2>2, <2>3, <2>4, <2>5 DEF Queue
<1>8. CASE arvalid[p] /\ p \in ar
  <2>1. ~Asks(p) /\ n = m + 1 /\ ~arvalid'[p] BY <1>1, <1>4, <1>5, <1>6, <1>8
  <2>2. Len(inf'[p]) = m - g + 1 /\ Len(mem'[p]) = m - g + 1 /\ out'[p] = m - g + 1
    BY <1>1, <1>2, <1>3, <1>5, <1>8, <2>1 DEF One
  <2>3. ASSUME NEW i \in 1..(m - g + 1) PROVE inf'[p][i] = mem'[p][i]
    <3>1. CASE i \in 1..(m - g)
      <4>1. i \in 1..(n - g) /\ i + g \in 1..m BY <1>1, <2>1, <3>1
      <4>2. QED BY <1>2, <1>3, <1>4, <3>1, <4>1
    <3>2. CASE i = m - g + 1
      <4>1. i \in 1..(n - g) /\ i + g = n BY <1>1, <2>1, <3>2
      <4>2. inf'[p][i] = araddr[p] BY <1>2, <1>4, <1>8, <4>1
      <4>3. mem'[p][i] = araddr[p] BY <1>3, <1>8, <3>2 DEF One
      <4>4. QED BY <4>2, <4>3
    <3>3. QED BY <1>1, <3>1, <3>2
  <2>4. m - g + 1 <= MAXO BY <1>1, <1>4, <2>1, Sizes
  <2>5. QED BY <2>1, <2>2, <2>3, <2>4 DEF Queue
<1>9. CASE arvalid[p] /\ p \notin ar
  <2>1. ~Asks(p) /\ n = m + 1 /\ arvalid'[p] /\ araddr'[p] = araddr[p]
    BY <1>1, <1>4, <1>5, <1>6, <1>9
  <2>2. Len(inf'[p]) = m - g + 1 /\ Len(mem'[p]) = m - g /\ out'[p] = m - g
    BY <1>1, <1>2, <1>3, <1>5, <1>9, <2>1 DEF One
  <2>3. \A i \in 1..(m - g) : inf'[p][i] = mem'[p][i]
    <3>1. m - g <= n - g BY <1>1, <2>1
    <3>2. \A i \in 1..(m - g) : i \in 1..(n - g) /\ i + g \in 1..m BY <1>1, <2>1
    <3>3. QED BY <1>2, <1>3, <1>4, <3>2
  <2>4. inf'[p][m - g + 1] = araddr[p]
    <3>1. m - g + 1 \in 1..(n - g) /\ m - g + 1 + g = n BY <1>1, <2>1
    <3>2. QED BY <1>2, <1>4, <1>9, <3>1
  <2>5. m - g + 1 <= MAXO BY <1>1, <1>4, <2>1, Sizes
  <2>6. QED BY <2>1, <2>2, <2>3, <2>4, <2>5 DEF Queue
<1>10. CASE ~arvalid[p] /\ ~Asks(p)
  <2>1. p \notin ar /\ n = m /\ ~arvalid'[p] BY <1>1, <1>4, <1>5, <1>6, <1>10
  <2>2. Len(inf'[p]) = m - g /\ Len(mem'[p]) = m - g /\ out'[p] = m - g
    BY <1>1, <1>2, <1>3, <1>5, <1>10, <2>1 DEF One
  <2>3. \A i \in 1..(m - g) : inf'[p][i] = mem'[p][i]
    <3>1. \A i \in 1..(m - g) : i \in 1..(n - g) /\ i + g \in 1..m BY <1>1, <2>1
    <3>2. QED BY <1>2, <1>3, <1>4, <3>1
  <2>4. m - g <= MAXO BY <1>1, <1>4, <2>1, Sizes
  <2>5. QED BY <2>1, <2>2, <2>3, <2>4 DEF Queue
<1>11. QED BY <1>7, <1>8, <1>9, <1>10

-----------------------------------------------------------------------------
(* Each edge keeps it: one burst a slot.                                   *)

\* An entry of a master's queue was there before the edge, or has been asked for.
LEMMA EntryAfter ==
  ASSUME IInv, NEW clk \in BOOLEAN, NEW ar \in SUBSET Accepting, NEW r \in SUBSET Answering,
         Edge(clk, ar, r), NEW p \in Masters, NEW i \in 1..Len(inf'[p])
  PROVE  \/ /\ i + One(Lands(p, r)) \in 1..Len(inf[p])
            /\ inf'[p][i] = inf[p][i + One(Lands(p, r))]
         \/ /\ Asks(p) /\ i = Len(inf[p]) - One(Lands(p, r)) + 1
            /\ inf'[p][i] = nreq
<1> DEFINE g == One(Lands(p, r))
           n == Len(inf[p])
<1>1. /\ Len(inf'[p]) = n - g + One(Asks(p))
      /\ \A j \in 1..(n - g) : inf'[p][j] = inf[p][j + g]
      /\ One(Asks(p)) = 1 => inf'[p][n - g + 1] = nreq
  BY QueuesAfter DEF IsMoved
<1>2. n \in Nat /\ g \in {0, 1}
  <2>1. inf[p] \in Seq(Streamed) BY DEF IInv, TypeOK
  <2>2. QED BY <2>1 DEF One
<1> HIDE DEF g, n
<1>3. CASE i \in 1..(n - g)
  <2>1. i + g \in 1..n BY <1>2, <1>3
  <2>2. QED BY <1>1, <1>3, <2>1 DEF g, n
<1>4. CASE i \notin 1..(n - g)
  <2>1. Asks(p) /\ i = n - g + 1 BY <1>1, <1>2, <1>4 DEF One
  <2>2. QED BY <1>1, <2>1 DEF g, n, One
<1>5. QED BY <1>3, <1>4

\* The slot asked for has no burst.
LEMMA NewIsFree ==
  ASSUME IInv, Issues, NEW p \in Masters, NEW i \in 1..Len(inf[p])
  PROVE  slot(inf[p][i]) # slot(nreq)
  BY Burst, Issued

\* A burst that does not land keeps its slot as it is.
LEMMA StillPending ==
  ASSUME IInv, NEW r \in SUBSET Answering, SlotsAfter(r), NEW p \in Masters,
         NEW j \in 1..Len(inf[p]), ~(j = 1 /\ Lands(p, r))
  PROVE  LET s == slot(inf[p][j])
         IN  ~Landed(s, r) /\ ~Asked(s) /\ pend'[s] /\ stag'[s] = stag[s]
<1> DEFINE s == slot(inf[p][j])
<1>1. s \in Slots /\ pend[s] BY Burst
<1>2. ASSUME Landed(s, r) PROVE FALSE
  <2>1. PICK m \in r : Lands(m, r) /\ s = slot(inf[m][1]) BY <1>1, <1>2, LandedSlot
  <2>2. m \in Masters /\ mem[m] # <<>> BY DEF Answering
  <2>3. 1 \in 1..Len(inf[m]) BY <2>2, Oldest
  <2>4. m = p /\ j = 1 BY <2>1, <2>2, <2>3, OneBurst
  <2>5. QED BY <2>1, <2>4
<1>3. ~Asked(s) BY <1>1, Issued DEF Asked
<1>4. QED BY <1>1, <1>2, <1>3, AtSlot

LEMMA BurstsKept ==
  ASSUME IInv, NEW clk \in BOOLEAN, NEW ar \in SUBSET Accepting, NEW r \in SUBSET Answering,
         Edge(clk, ar, r)
  PROVE  OneBurstASlot'
<1>0. nreq \in Streamed /\ nreq \in Nat /\ SlotsAfter(r)
  BY Lines_ DEF IInv, TypeOK, Edge
<1>1. \A p \in Masters : /\ inf[p] \in Seq(Streamed) /\ inf'[p] \in Seq(Streamed)
                         /\ One(Lands(p, r)) \in {0, 1}
  BY QueuesAfter DEF IInv, TypeOK, IsMoved, One
<1>2. ASSUME NEW p \in Masters, NEW i \in 1..Len(inf'[p]), NEW j \in 1..Len(inf'[p]),
             slot(inf'[p][i]) = slot(inf'[p][j])
      PROVE  i = j
  <2> DEFINE g == One(Lands(p, r))
  <2>1. g \in {0, 1} BY <1>1
  <2>2. Asks(p) => Issues BY DEF Asks
  <2> HIDE DEF g
  <2>3. CASE i + g \in 1..Len(inf[p]) /\ inf'[p][i] = inf[p][i + g]
    <3>1. CASE j + g \in 1..Len(inf[p]) /\ inf'[p][j] = inf[p][j + g]
      <4>1. i + g = j + g BY <1>2, <2>3, <3>1, OneBurst
      <4>2. QED BY <2>1, <4>1
    <3>2. CASE Asks(p) /\ inf'[p][j] = nreq BY <1>2, <2>2, <2>3, <3>2, NewIsFree
    <3>3. QED BY <3>1, <3>2, EntryAfter DEF g
  <2>4. CASE Asks(p) /\ i = Len(inf[p]) - g + 1 /\ inf'[p][i] = nreq
    <3>1. CASE j + g \in 1..Len(inf[p]) /\ inf'[p][j] = inf[p][j + g]
      BY <1>2, <2>2, <2>4, <3>1, NewIsFree
    <3>2. CASE Asks(p) /\ j = Len(inf[p]) - g + 1 BY <2>4, <3>2
    <3>3. QED BY <3>1, <3>2, EntryAfter DEF g
  <2>5. QED BY <2>3, <2>4, EntryAfter DEF g
<1>3. ASSUME NEW p \in Masters, NEW i \in 1..Len(inf'[p])
      PROVE  /\ pend'[slot(inf'[p][i])] /\ stag'[slot(inf'[p][i])] = inf'[p][i]
             /\ master(inf'[p][i]) = p
  <2> DEFINE g == One(Lands(p, r))
  <2>1. g \in {0, 1} /\ (Lands(p, r) => g = 1) BY DEF One
  <2> HIDE DEF g
  <2>2. CASE i + g \in 1..Len(inf[p]) /\ inf'[p][i] = inf[p][i + g]
    <3>1. ~(i + g = 1 /\ Lands(p, r)) BY <2>1
    <3>2. /\ pend'[slot(inf[p][i + g])]
          /\ stag'[slot(inf[p][i + g])] = stag[slot(inf[p][i + g])]
      BY <1>0, <2>2, <3>1, StillPending
    <3>3. stag[slot(inf[p][i + g])] = inf[p][i + g] /\ master(inf[p][i + g]) = p
      BY <2>2, Burst
    <3>4. QED BY <2>2, <3>2, <3>3
  <2>3. CASE Asks(p) /\ inf'[p][i] = nreq
    <3>1. Asked(slot(nreq)) /\ master(nreq) = p /\ slot(nreq) \in Slots
      BY <1>0, <2>3, Places DEF Asks, Asked
    <3>2. ~Landed(slot(nreq), r) BY <3>1, LandedSlot
    <3>3. QED BY <1>0, <2>3, <3>1, <3>2, AtSlot
  <2>4. QED BY <2>2, <2>3, EntryAfter DEF g
<1>4. ASSUME NEW s \in Slots, pend'[s]
      PROVE  /\ ~sval'[s]
             /\ \E i \in 1..Len(inf'[s % NP]) : slot(inf'[s % NP][i]) = s
  <2>1. ~Landed(s, r) /\ (pend[s] \/ Asked(s)) BY <1>0, <1>4, AtSlot
  <2>2. CASE pend[s]
    <3>1. ~sval[s] BY <2>2 DEF IInv, OneBurstASlot
    <3>2. ~sval'[s] BY <1>0, <2>1, <3>1, AtSlot
    <3> DEFINE p == s % NP
               g == One(Lands(p, r))
               n == Len(inf[p])
    <3>3. p \in Masters BY Sizes, ModType DEF Slots, Masters
    <3>4. PICK j \in DOMAIN inf[p] : slot(inf[p][j]) = s BY <2>2 DEF IInv, OneBurstASlot
    <3>5. n \in Nat /\ j \in 1..n /\ g \in {0, 1} BY <1>1, <3>3, <3>4
    <3>6. g = 1 => j # 1
      <4>1. ASSUME Lands(p, r), j = 1 PROVE FALSE
        <5>1. p \in r /\ mem[p] # <<>> BY <4>1 DEF Lands, Answering
        <5>2. Filling(p) = s BY <3>3, <3>4, <4>1, <5>1, Oldest
        <5>3. QED BY <2>1, <4>1, <5>1, <5>2 DEF Landed
      <4>2. QED BY <4>1 DEF One
    <3>7. /\ Len(inf'[p]) = n - g + One(Asks(p))
          /\ \A i \in 1..(n - g) : inf'[p][i] = inf[p][i + g]
      BY <3>3, QueuesAfter DEF IsMoved
    <3>8. One(Asks(p)) \in {0, 1} BY DEF One
    <3> HIDE DEF p, g, n
    <3>9. j - g \in 1..(n - g) /\ j - g + g = j BY <3>5, <3>6
    <3>10. j - g \in 1..Len(inf'[p]) BY <3>5, <3>7, <3>8, <3>9
    <3>11. slot(inf'[p][j - g]) = s BY <3>4, <3>7, <3>9
    <3>12. QED BY <3>2, <3>10, <3>11 DEF p
  <2>3. CASE Asked(s)
    <3>1. Issues /\ s = slot(nreq) BY <2>3 DEF Asked
    <3> DEFINE p == master(nreq)
               g == One(Lands(p, r))
               n == Len(inf[p])
    <3>2. p \in Masters /\ s % NP = p BY <1>0, <3>1, Places
    <3>3. Asks(p) BY <3>1 DEF Asks
    <3>4. ~sval'[s] BY <1>0, <2>1, <2>3, AtSlot
    <3>5. n \in Nat /\ g \in {0, 1} /\ (g = 1 => n > 0)
      <4>1. g = 1 => 1 \in 1..n BY <3>2, Oldest DEF One, Lands, Answering
      <4>2. n \in Nat /\ g \in {0, 1} BY <1>1, <3>2
      <4>3. QED BY <4>1, <4>2
    <3>6. Len(inf'[p]) = n - g + 1 /\ inf'[p][n - g + 1] = nreq
      <4>1. /\ Len(inf'[p]) = n - g + One(Asks(p))
            /\ One(Asks(p)) = 1 => inf'[p][n - g + 1] = nreq
        BY <3>2, QueuesAfter DEF IsMoved
      <4>2. One(Asks(p)) = 1 BY <3>3 DEF One
      <4>3. QED BY <4>1, <4>2
    <3> HIDE DEF p, g, n
    <3>7. n - g + 1 \in 1..Len(inf'[p]) BY <3>5, <3>6
    <3>8. QED BY <3>1, <3>2, <3>4, <3>6, <3>7
  <2>4. QED BY <2>1, <2>2, <2>3
<1>5. \A p \in Masters : DOMAIN inf'[p] = 1..Len(inf'[p]) BY <1>1
<1>6. \A s \in Slots : s % NP \in Masters BY Sizes, ModType DEF Slots, Masters
<1>7. QED BY <1>2, <1>3, <1>4, <1>5, <1>6 DEF OneBurstASlot

-----------------------------------------------------------------------------
(* Each edge keeps it: the stream's flags.                                 *)

\* A slot nobody asks for is as it was, but for a burst that lands in it.
LEMMA SlotKept ==
  ASSUME IInv, NEW r \in SUBSET Answering, SlotsAfter(r), NEW s \in Slots, ~Asked(s)
  PROVE  /\ stag'[s] = stag[s]
         /\ (sval'[s] \/ pend'[s]) <=> (sval[s] \/ pend[s])
         /\ pend'[s] => pend[s]
<1>1. Landed(s, r) => pend[s] BY LandedSlot
<1>2. QED BY <1>1, AtSlot

LEMMA FlagsKept ==
  ASSUME IInv, NEW clk \in BOOLEAN, NEW ar \in SUBSET Accepting, NEW r \in SUBSET Answering,
         Edge(clk, ar, r)
  PROVE  FlagsExact' /\ nreq' \in Streamed
<1>0. /\ nreq \in Streamed /\ nreq \in Nat /\ cur \in Nat /\ cur \in Streamed /\ SlotsAfter(r)
      /\ nreq + 1 \in Nat
  BY Lines_ DEF IInv, TypeOK, Edge
<1>1. ASSUME NEW l \in Nat, nreq' = l, Flags(l), ~Asked(slot(l))
      PROVE  FlagsExact'
  <2> DEFINE s == slot(l)
  <2>1. s \in Slots BY Places
  <2>2. /\ stag'[s] = stag[s]
        /\ (sval'[s] \/ pend'[s]) <=> (sval[s] \/ pend[s])
        /\ pend'[s] => pend[s]
    BY <1>0, <1>1, <2>1, SlotKept
  <2>3. /\ tm_r' <=> (stag[s] = l)
        /\ sp_r' <=> (sval[s] \/ pend[s])
        /\ pd_r' <=> pend[s]
    BY <1>1 DEF Flags
  <2>4. QED BY <1>1, <2>2, <2>3 DEF FlagsExact
<1>2. CASE Restarts /\ nreq' = cur /\ Flags(cur)
  <2>1. ~Asked(slot(cur)) BY <1>2 DEF Asked, Issues
  <2>2. QED BY <1>0, <1>1, <1>2, <2>1
<1>3. CASE (Passes \/ Issues) /\ nreq' = nreq + 1 /\ Flags(nreq + 1)
  <2>1. ~Asked(slot(nreq + 1)) BY <1>0, Places DEF Asked
  <2>2. FlagsExact' BY <1>0, <1>1, <1>3, <2>1
  <2>3. nreq < cur + NS BY <1>3, Issued DEF Passes, in_win
  <2>4. nreq + 1 \in Streamed
    <3>1. cur <= NLines - 1 BY Sizes DEF IInv, TypeOK, Lines
    <3>2. QED BY <1>0, <2>3, <3>1, Sizes DEF Streamed
  <2>5. QED BY <1>3, <2>2, <2>4
<1>4. CASE ~Restarts /\ ~Passes /\ ~Issues
           /\ pd_r' = pend[slot(nreq)] /\ UNCHANGED <<nreq, tm_r, sp_r>>
  <2> DEFINE s == slot(nreq)
  <2>1. s \in Slots /\ ~Asked(s) BY <1>0, <1>4, Places DEF Asked
  <2>2. /\ stag'[s] = stag[s]
        /\ (sval'[s] \/ pend'[s]) <=> (sval[s] \/ pend[s])
        /\ pend'[s] => pend[s]
    BY <1>0, <2>1, SlotKept
  <2>3. QED BY <1>0, <1>4, <2>2 DEF IInv, FlagsExact
<1>5. QED BY <1>2, <1>3, <1>4 DEF Edge, Stream

-----------------------------------------------------------------------------
(* Each edge keeps it: the beats.                                          *)

\* A beat goes to its master's oldest burst, and to no other slot.
LEMMA WrittenBy ==
  ASSUME IInv, NEW r \in SUBSET Answering, NEW p \in r, NEW b \in 1..NBeats
  PROVE  Written(Filling(p), r)[b] = IF wb[p] = b THEN inf[p][1] ELSE swb[Filling(p)][b]
<1> DEFINE s == Filling(p)
<1>1. p \in Masters /\ mem[p] # <<>> /\ Head(mem[p]) = inf[p][1]
  BY Oldest DEF Answering
<1>2. ASSUME NEW m \in r, Filling(m) = s PROVE m = p
  <2>1. m \in Masters /\ mem[m] # <<>> BY DEF Answering
  <2>2. slot(inf[m][1]) = slot(inf[p][1]) /\ 1 \in 1..Len(inf[m]) /\ 1 \in 1..Len(inf[p])
    BY <1>1, <1>2, <2>1, Oldest
  <2>3. QED BY <1>1, <2>1, <2>2, OneBurst
<1>3. Written(s, r)[b] =
        IF \E m \in r : Filling(m) = s /\ wb[m] = b
        THEN Head(mem[CHOOSE m \in r : Filling(m) = s /\ wb[m] = b]) ELSE swb[s][b]
  BY DEF Written
<1> HIDE DEF s
<1>4. CASE wb[p] = b
  <2>1. \E m \in r : Filling(m) = s /\ wb[m] = b BY <1>4 DEF s
  <2>2. (CHOOSE m \in r : Filling(m) = s /\ wb[m] = b) = p BY <1>2, <2>1
  <2>3. QED BY <1>1, <1>3, <1>4, <2>1, <2>2 DEF s
<1>5. CASE wb[p] # b
  <2>1. ~(\E m \in r : Filling(m) = s /\ wb[m] = b) BY <1>2, <1>5
  <2>2. QED BY <1>3, <1>5, <2>1 DEF s
<1>6. QED BY <1>4, <1>5

LEMMA NotWritten ==
  ASSUME NEW r, NEW s, \A p \in r : Filling(p) # s, NEW b \in 1..NBeats
  PROVE  Written(s, r)[b] = swb[s][b]
  BY DEF Written

\* The oldest burst of a queue that does not lose it.
LEMMA StillOldest ==
  ASSUME IInv, NEW clk \in BOOLEAN, NEW ar \in SUBSET Accepting, NEW r \in SUBSET Answering,
         Edge(clk, ar, r), NEW p \in Masters, mem[p] # <<>>, ~Lands(p, r)
  PROVE  inf'[p][1] = inf[p][1] /\ Filling(p)' = Filling(p)
<1>1. 1 \in 1..Len(inf[p]) /\ Filling(p) = slot(inf[p][1]) /\ inf[p] \in Seq(Streamed)
  BY Oldest DEF IInv, TypeOK
<1>2. One(Lands(p, r)) = 0 /\ One(Asks(p)) \in {0, 1} BY DEF One
<1>3. /\ inf'[p] \in Seq(Streamed)
      /\ Len(inf'[p]) = Len(inf[p]) - One(Lands(p, r)) + One(Asks(p))
      /\ \A i \in 1..(Len(inf[p]) - One(Lands(p, r))) :
            inf'[p][i] = inf[p][i + One(Lands(p, r))]
  BY QueuesAfter DEF IsMoved
<1>4. inf'[p][1] = inf[p][1 + 0] /\ Len(inf'[p]) >= 1
  BY <1>1, <1>2, <1>3
<1>5. inf'[p][1] = inf[p][1] BY <1>4
<1>6. Head(inf'[p]) = inf'[p][1] BY <1>3, <1>4
<1>7. QED BY <1>1, <1>5, <1>6 DEF Filling, slot

LEMMA ArrivedKept ==
  ASSUME IInv, NEW clk \in BOOLEAN, NEW ar \in SUBSET Accepting, NEW r \in SUBSET Answering,
         Edge(clk, ar, r)
  PROVE  Arrived' /\ \A p \in Masters : wb'[p] \in 1..NBeats
<1>0. SlotsAfter(r) /\ \A p \in r : p \in Masters /\ mem[p] # <<>> BY DEF Edge, Answering
<1>1. ASSUME NEW s \in Slots, sval'[s], NEW b \in 1..NBeats
      PROVE  swb'[s][b] = stag'[s]
  <2>1. swb'[s][b] = Written(s, r)[b] BY <1>0, AtSlot
  <2>2. CASE Landed(s, r)
    <3>1. pend[s] /\ ~Asked(s) BY <2>2, LandedSlot
    <3>2. stag'[s] = stag[s] BY <1>0, <3>1, AtSlot
    <3>3. PICK p \in r : Lands(p, r) /\ Filling(p) = s BY <2>2 DEF Landed
    <3>4. 1 \in 1..Len(inf[p]) /\ s = slot(inf[p][1]) BY <1>0, <3>3, Oldest
    <3>5. stag[s] = inf[p][1] BY <1>0, <3>4, Burst
    <3>6. Written(s, r)[b] = IF wb[p] = b THEN inf[p][1] ELSE swb[s][b]
      BY <3>3, WrittenBy
    <3>7. wb[p] = NBeats BY <3>3 DEF Lands
    <3>8. b # NBeats => b \in 1..(wb[p] - 1) BY <3>7, Sizes
    <3>9. b # NBeats => swb[s][b] = inf[p][1] BY <1>0, <3>3, <3>8 DEF IInv, Arrived
    <3>10. QED BY <2>1, <3>2, <3>5, <3>6, <3>7, <3>9
  <2>3. CASE sval[s] /\ ~Asked(s)
    <3>1. \A p \in r : Filling(p) # s
      <4>1. ASSUME NEW p \in r, Filling(p) = s PROVE FALSE
        <5>1. 1 \in 1..Len(inf[p]) /\ s = slot(inf[p][1]) BY <1>0, <4>1, Oldest
        <5>2. ~sval[s] BY <1>0, <5>1, Burst
        <5>3. QED BY <2>3, <5>2
      <4>2. QED BY <4>1
    <3>2. Written(s, r)[b] = swb[s][b] BY <3>1, NotWritten
    <3>3. stag'[s] = stag[s] BY <1>0, <2>3, AtSlot
    <3>4. QED BY <2>1, <2>3, <3>2, <3>3 DEF IInv, Arrived
  <2>4. QED BY <1>0, <1>1, <2>2, <2>3, AtSlot
<1>2. ASSUME NEW p \in Masters
      PROVE  /\ wb'[p] \in 1..NBeats
             /\ mem'[p] = <<>> => wb'[p] = 1
             /\ mem'[p] # <<>> =>
                  \A b \in 1..(wb'[p] - 1) : swb'[Filling(p)'][b] = inf'[p][1]
  <2>1. wb[p] \in 1..NBeats /\ mem[p] \in Seq(Streamed) BY DEF IInv, TypeOK
  <2>2. wb'[p] = IF p \in r THEN (wb[p] % NBeats) + 1 ELSE wb[p] BY DEF Edge, Ports
  <2>3. (wb[p] % NBeats) + 1 = IF wb[p] = NBeats THEN 1 ELSE wb[p] + 1
    BY <2>1, Sizes, NextBeat
  <2>4. CASE Lands(p, r)
    <3>1. wb'[p] = 1 BY <2>2, <2>3, <2>4 DEF Lands
    <3>2. 1..(wb'[p] - 1) = {} BY <3>1
    <3>3. QED BY <3>1, <3>2, Sizes
  <2>5. CASE mem[p] = <<>>
    <3>1. p \notin r /\ wb[p] = 1 BY <1>0, <2>5 DEF IInv, Arrived
    <3>2. wb'[p] = 1 BY <2>2, <3>1
    <3>3. 1..(wb'[p] - 1) = {} BY <3>2
    <3>4. QED BY <3>2, <3>3, Sizes
  <2>6. CASE mem[p] # <<>> /\ ~Lands(p, r)
    <3> DEFINE s == Filling(p)
    <3>1. inf'[p][1] = inf[p][1] /\ Filling(p)' = s BY <2>6, StillOldest
    <3>2. 1 \in 1..Len(inf[p]) /\ s = slot(inf[p][1]) BY <2>6, Oldest
    <3>3. s \in Slots BY <3>2, Burst
    <3>4. mem'[p] # <<>>
      <4>1. /\ Len(mem'[p]) = Len(mem[p]) - One(Lands(p, r)) + One(p \in ar)
        BY QueuesAfter DEF IsMoved
      <4>2. One(Lands(p, r)) = 0 /\ One(p \in ar) \in {0, 1} BY <2>6 DEF One
      <4>3. Len(mem[p]) \in Nat /\ Len(mem[p]) > 0 BY <2>1, <2>6
      <4>4. Len(mem'[p]) > 0 BY <4>1, <4>2, <4>3
      <4>5. QED BY <4>4
    <3>5. \A b \in 1..(wb[p] - 1) : swb[s][b] = inf[p][1] BY <2>6 DEF IInv, Arrived
    <3> HIDE DEF s
    <3>6. CASE p \in r
      <4>1. wb[p] # NBeats BY <2>6, <3>6 DEF Lands
      <4>2. wb'[p] = wb[p] + 1 BY <2>2, <2>3, <3>6, <4>1
      <4>3. wb'[p] \in 1..NBeats BY <2>1, <4>1, <4>2, Sizes
      <4>4. ASSUME NEW b \in 1..(wb'[p] - 1) PROVE swb'[s][b] = inf[p][1]
        <5>1. b \in 1..NBeats /\ (b = wb[p] \/ b \in 1..(wb[p] - 1))
          BY <2>1, <4>2, <4>3, Sizes
        <5>2. swb'[s][b] = Written(s, r)[b] BY <1>0, <3>3, AtSlot
        <5>3. Written(s, r)[b] = IF wb[p] = b THEN inf[p][1] ELSE swb[s][b]
          BY <3>6, <5>1, WrittenBy DEF s
        <5>4. QED BY <3>5, <5>1, <5>2, <5>3
      <4>5. QED BY <3>1, <3>4, <4>3, <4>4
    <3>7. CASE p \notin r
      <4>1. wb'[p] = wb[p] BY <2>2, <3>7
      <4>2. \A m \in r : Filling(m) # s
        <5>1. ASSUME NEW m \in r, Filling(m) = s PROVE FALSE
          <6>1. m \in Masters /\ 1 \in 1..Len(inf[m]) /\ s = slot(inf[m][1])
            BY <1>0, <5>1, Oldest
          <6>2. m = p BY <3>2, <6>1, OneBurst
          <6>3. QED BY <3>7, <6>2
        <5>2. QED BY <5>1
      <4>3. ASSUME NEW b \in 1..(wb'[p] - 1) PROVE swb'[s][b] = inf[p][1]
        <5>1. b \in 1..(wb[p] - 1) /\ b \in 1..NBeats BY <2>1, <4>1, Sizes
        <5>2. swb'[s][b] = swb[s][b] BY <1>0, <3>3, <4>2, <5>1, AtSlot, NotWritten
        <5>3. QED BY <3>5, <5>1, <5>2
      <4>4. QED BY <2>1, <3>1, <3>4, <4>1, <4>3
    <3>8. QED BY <3>6, <3>7
  <2>7. QED BY <2>4, <2>5, <2>6
<1>3. QED BY <1>1, <1>2 DEF Arrived

-----------------------------------------------------------------------------
(* Each edge keeps it: the types.                                          *)

LEMMA SlotTypes ==
  ASSUME IInv, NEW clk \in BOOLEAN, NEW ar \in SUBSET Accepting, NEW r \in SUBSET Answering,
         Edge(clk, ar, r)
  PROVE  /\ sval' \in [Slots -> BOOLEAN] /\ pend' \in [Slots -> BOOLEAN]
         /\ stag' \in [Slots -> Streamed]
         /\ swb' \in [Slots -> [1..NBeats -> Streamed \cup {NoLine}]]
<1>0. SlotsAfter(r) /\ nreq \in Streamed BY DEF Edge, IInv, TypeOK
<1>1. sval' \in [Slots -> BOOLEAN] /\ pend' \in [Slots -> BOOLEAN]
  BY <1>0 DEF SlotsAfter
<1>2. stag' \in [Slots -> Streamed] BY <1>0 DEF SlotsAfter, IInv, TypeOK
<1>3. ASSUME NEW s \in Slots
      PROVE  Written(s, r) \in [1..NBeats -> Streamed \cup {NoLine}]
  <2>1. ASSUME NEW b \in 1..NBeats PROVE Written(s, r)[b] \in Streamed \cup {NoLine}
    <3>1. swb[s][b] \in Streamed \cup {NoLine}
      <4>1. swb[s] \in [1..NBeats -> Streamed \cup {NoLine}] BY DEF IInv, TypeOK
      <4>2. QED BY <4>1
    <3>2. CASE \E p \in r : Filling(p) = s
      <4>1. PICK p \in r : Filling(p) = s BY <3>2
      <4>2. p \in Masters /\ 1 \in 1..Len(inf[p]) BY Oldest DEF Answering
      <4>3. inf[p][1] \in Streamed BY <4>2, Burst
      <4>4. QED BY <3>1, <4>1, <4>3, WrittenBy
    <3>3. CASE \A p \in r : Filling(p) # s BY <3>1, <3>3, NotWritten
    <3>4. QED BY <3>2, <3>3
  <2>2. Written(s, r) = [b \in 1..NBeats |-> Written(s, r)[b]] BY DEF Written
  <2>3. QED BY <2>1, <2>2
<1>4. swb' \in [Slots -> [1..NBeats -> Streamed \cup {NoLine}]]
  BY <1>0, <1>3 DEF SlotsAfter
<1>5. QED BY <1>1, <1>2, <1>4

LEMMA PortTypes ==
  ASSUME IInv, NEW clk \in BOOLEAN, NEW ar \in SUBSET Accepting, NEW r \in SUBSET Answering,
         Edge(clk, ar, r), \A p \in Masters : Queue(p)',
         \A p \in Masters : wb'[p] \in 1..NBeats
  PROVE  /\ arvalid' \in [Masters -> BOOLEAN] /\ araddr' \in [Masters -> Streamed]
         /\ out' \in [Masters -> 0..MAXO] /\ wb' \in [Masters -> 1..NBeats]
         /\ inf' \in [Masters -> Seq(Streamed)] /\ mem' \in [Masters -> Seq(Streamed)]
<1>0. Ports(ar, r) /\ nreq \in Streamed BY DEF Edge, IInv, TypeOK
<1>1. arvalid' \in [Masters -> BOOLEAN] BY <1>0 DEF Ports
<1>2. araddr' \in [Masters -> Streamed] BY <1>0 DEF Ports, IInv, TypeOK
<1>3. \A p \in Masters : inf'[p] \in Seq(Streamed) /\ mem'[p] \in Seq(Streamed)
  BY QueuesAfter DEF IsMoved
<1>4. inf' = [p \in Masters |-> inf'[p]] /\ mem' = [p \in Masters |-> mem'[p]]
      /\ out' = [p \in Masters |-> out'[p]] /\ wb' = [p \in Masters |-> wb'[p]]
  BY <1>0 DEF Ports
<1>5. ASSUME NEW p \in Masters PROVE out'[p] \in 0..MAXO
  <2>1. out'[p] = Len(mem'[p]) /\ Len(inf'[p]) <= MAXO
        /\ Len(inf'[p]) = Len(mem'[p]) + (IF arvalid'[p] THEN 1 ELSE 0)
    BY DEF Queue
  <2>2. PICK n \in Nat : n = Len(mem'[p]) BY <1>3
  <2>3. n <= MAXO
    <3>1. PICK a \in {0, 1} : Len(inf'[p]) = n + a BY <2>1, <2>2
    <3>2. n + a <= MAXO BY <2>1, <3>1
    <3>3. QED BY <3>2, Sizes
  <2>4. n \in 0..MAXO BY <2>2, <2>3, Sizes
  <2>5. QED BY <2>1, <2>2, <2>4
<1>6. QED BY <1>1, <1>2, <1>3, <1>4, <1>5

LEMMA StreamTypes ==
  ASSUME IInv, NEW clk \in BOOLEAN, NEW ar \in SUBSET Accepting, NEW r \in SUBSET Answering,
         Edge(clk, ar, r)
  PROVE  /\ cur' \in Lines /\ pcur' \in Lines
         /\ {jl, tm_r, sp_r, pd_r}' \subseteq BOOLEAN
<1>1. cur' \in Lines /\ pcur' \in Lines BY DEF Edge, Core, IInv, TypeOK
<1>2. jl' \in BOOLEAN BY DEF Edge, Stream
<1>3. tm_r \in BOOLEAN /\ sp_r \in BOOLEAN BY DEF IInv, TypeOK
<1>4. \A s \in Slots : pend[s] \in BOOLEAN BY DEF IInv, TypeOK
<1>5. nreq \in Nat BY Lines_ DEF IInv, TypeOK
<1>6. tm_r' \in BOOLEAN /\ sp_r' \in BOOLEAN /\ pd_r' \in BOOLEAN
  <2>1. CASE \E l \in Nat : Flags(l)
    <3>1. PICK l \in Nat : Flags(l) BY <2>1
    <3>2. slot(l) \in Slots BY Places
    <3>3. QED BY <1>4, <3>1, <3>2 DEF Flags
  <2>2. CASE pd_r' = pend[slot(nreq)] /\ UNCHANGED <<tm_r, sp_r>>
    <3>1. slot(nreq) \in Slots BY <1>5, Places
    <3>2. QED BY <1>3, <1>4, <2>2, <3>1
  <2>3. cur \in Nat BY Lines_ DEF IInv, TypeOK
  <2>4. QED BY <1>5, <2>1, <2>2, <2>3 DEF Edge, Stream
<1>7. QED BY <1>1, <1>2, <1>6

-----------------------------------------------------------------------------

LEMMA InitInv == Init => IInv
<1> SUFFICES ASSUME Init PROVE IInv OBVIOUS
<1> USE Sizes DEF Init
<1>1. TypeOK
  <2>1. cur \in Lines /\ pcur \in Lines /\ nreq \in Streamed BY DEF Lines, Streamed
  <2>2. {jl, tm_r, sp_r, pd_r} \subseteq BOOLEAN OBVIOUS
  <2>3. sval \in [Slots -> BOOLEAN] /\ pend \in [Slots -> BOOLEAN] OBVIOUS
  <2>4. 0 \in Streamed BY DEF Streamed
  <2>5. stag \in [Slots -> Streamed]
        /\ swb \in [Slots -> [1..NBeats -> Streamed \cup {NoLine}]]
    BY <2>4
  <2>6. arvalid \in [Masters -> BOOLEAN] /\ araddr \in [Masters -> Streamed]
    BY <2>4
  <2>7. out \in [Masters -> 0..MAXO] /\ wb \in [Masters -> 1..NBeats] OBVIOUS
  <2>8. inf \in [Masters -> Seq(Streamed)] /\ mem \in [Masters -> Seq(Streamed)] OBVIOUS
  <2>9. QED BY <2>1, <2>2, <2>3, <2>5, <2>6, <2>7, <2>8 DEF TypeOK
<1>2. \A p \in Masters : Queue(p) BY DEF Queue
<1>3. OneBurstASlot BY DEF OneBurstASlot
<1>4. FlagsExact
  <2>1. slot(nreq) \in Slots BY Places
  <2>2. slot(nreq) = 0
    <3>1. 0 % NS = 0 OBVIOUS
    <3>2. QED BY <3>1 DEF slot
  <2>3. QED BY <2>1, <2>2 DEF FlagsExact
<1>5. Arrived BY DEF Arrived
<1>6. QED BY <1>1, <1>2, <1>3, <1>4, <1>5 DEF IInv

\* The invariant of every edge.
THEOREM StreamerInvariant == Spec => []IInv
<1>1. Init => IInv BY InitInv
<1>2. IInv /\ [Next]_vars => IInv'
  <2>1. ASSUME IInv, NEW clk \in BOOLEAN, NEW ar \in SUBSET Accepting,
               NEW r \in SUBSET Answering, Edge(clk, ar, r)
        PROVE  IInv'
    <3>1. \A p \in Masters : Queue(p)' BY <2>1, QueueKept
    <3>2. OneBurstASlot' BY <2>1, BurstsKept
    <3>3. FlagsExact' /\ nreq' \in Streamed BY <2>1, FlagsKept
    <3>4. Arrived' /\ \A p \in Masters : wb'[p] \in 1..NBeats BY <2>1, ArrivedKept
    <3>5. TypeOK' BY <2>1, <3>1, <3>3, <3>4, SlotTypes, PortTypes, StreamTypes DEF TypeOK
    <3>6. QED BY <3>1, <3>2, <3>3, <3>4, <3>5 DEF IInv
  <2>2. ASSUME IInv, UNCHANGED vars PROVE IInv'
    <3> USE <2>2 DEF vars, stream, slots, ports, IInv
    <3>1. TypeOK' BY DEF TypeOK
    <3>2. \A p \in Masters : Queue(p)' BY DEF Queue
    <3>3. OneBurstASlot' BY DEF OneBurstASlot
    <3>4. FlagsExact' BY DEF FlagsExact
    <3>5. Arrived' BY DEF Arrived, Filling
    <3>6. QED BY <3>1, <3>2, <3>3, <3>4, <3>5
  <2>3. QED BY <2>1, <2>2 DEF Next
<1>3. QED BY <1>1, <1>2, PTL DEF Spec

\* Types, for any constants.
THEOREM StreamerTypes == Spec => []TypeOK
<1>1. IInv => TypeOK BY DEF IInv
<1>2. QED BY <1>1, StreamerInvariant, PTL

\* However the core jumps and DDR answers, the weights the core reads are
\* those of its line.
THEOREM StreamerRightWeights == Spec => []RightWeights
<1>1. IInv => RightWeights
  <2> SUFFICES ASSUME IInv, hw, NEW b \in 1..NBeats PROVE swb[slot(cur)][b] = cur
    BY DEF RightWeights
  <2>1. slot(cur) \in Slots BY Lines_, Places DEF IInv, TypeOK
  <2>2. QED BY <2>1 DEF IInv, Arrived, hw, Holds
<1>2. QED BY <1>1, StreamerInvariant, PTL

\* The stream's registered flags are those of the slots, or wait a cycle more.
THEOREM StreamerFlagsExact == Spec => []FlagsExact
<1>1. IInv => FlagsExact BY DEF IInv
<1>2. QED BY <1>1, StreamerInvariant, PTL

\* No slot has two bursts under way, and the one it has is for its tag.
THEOREM StreamerOneBurst == Spec => []OneBurstASlot
<1>1. IInv => OneBurstASlot BY DEF IInv
<1>2. QED BY <1>1, StreamerInvariant, PTL

-----------------------------------------------------------------------------
(* The constants' and KV side.                                             *)

\* What DDR does not have waits for its turn, and only that waits.
OnItsWay ==
  /\ \A m \in Caches : \A e \in Elements : e \notin ddr[m] =>
       \E n \in Writers : CacheOf(n) = m /\ Pending(n) /\ wr[n] = e
  /\ \A n \in Writers : Pending(n) => wr[n] \notin ddr[CacheOf(n)]

\* What the transaction under way is for stands until it ends.
Serving ==
  /\ fs \in {"AW", "W", "B"} => Pending(wsel)
  /\ fs \in {"AR", "R"} => held[port] = Unheld /\ \A n \in Writers : ~Pending(n)

\* A line holding the word has had the write once the master has sent it.
TookToo ==
  fs \in {"W", "B"} /\ held[CacheOf(wsel)] = Line(wr[wsel].w) =>
    wr[wsel] \in copy[CacheOf(wsel)]

BridgeIInv == BridgeTypeOK /\ OnItsWay /\ Serving /\ TookToo /\ CopyNotBehind

-----------------------------------------------------------------------------

\* The lines of the words are the lines there are.
LEMMA LineType == \A w \in Words : Line(w) \in 0..(DdrLines - 1)
  BY BridgeAssumption DEF Words, Line

\* What the core writes are elements, or none.
LEMMA WritesType ==
  ASSUME NEW u \in Writes, NEW n \in Writers, u[n] # None
  PROVE  u[n] \in Elements
  BY DEF Writes, Writers

\* Each element of DDR and of the lines is one, and what is aimed at is not kept.
LEMMA AimedIs ==
  ASSUME NEW u \in Writes, NEW m \in Caches, NEW e \in Aimed(u, m)
  PROVE  \E n \in Writers : CacheOf(n) = m /\ u[n] = e
  BY DEF Aimed

\* The elements of writers that wait are different, of one cache.
LEMMA WritesDiffer ==
  ASSUME NEW u \in Writes, NEW n \in Writers, NEW k \in Writers, n # k,
         CacheOf(n) = CacheOf(k), u[n] # None
  PROVE  u[n] # u[k]
  BY DEF Writes, Writers, CacheOf

\* None is no element.
LEMMA NoneIsNone == None \notin Elements
  BY BridgeAssumption DEF None, Elements, Words

LEMMA BridgeInitInv == BridgeInit => BridgeIInv
<1> SUFFICES ASSUME BridgeInit PROVE BridgeIInv OBVIOUS
<1> USE DEF BridgeInit
<1>1. BridgeTypeOK
  <2>1. q \in [Memories -> Words] BY BridgeAssumption DEF Words
  <2>2. wr \in Writes BY DEF Writes, Writers
  <2>3. QED BY <2>1, <2>2 DEF BridgeTypeOK, Memories, Writers
<1>2. OnItsWay BY DEF OnItsWay, Pending
<1>3. Serving BY DEF Serving
<1>4. TookToo BY DEF TookToo
<1>5. CopyNotBehind BY DEF CopyNotBehind, Caches, Memories
<1>6. QED BY <1>1, <1>2, <1>3, <1>4, <1>5 DEF BridgeIInv

-----------------------------------------------------------------------------
(* Each step keeps it.                                                     *)

\* When nothing waits, DDR has everything.
LEMMA AllThere == BridgeIInv => WrittenThrough
<1> SUFFICES ASSUME BridgeIInv, ce, NEW m \in Caches PROVE ddr[m] = Elements
  BY DEF WrittenThrough
<1>1. ddr[m] \subseteq Elements BY DEF BridgeIInv, BridgeTypeOK
<1>2. \A n \in Writers : ~Pending(n) BY DEF ce
<1>3. \A e \in Elements : e \in ddr[m] BY <1>2 DEF BridgeIInv, OnItsWay
<1>4. QED BY <1>1, <1>3

\* An edge of the core: nothing waits and DDR has everything, so what it lacks
\* next is what the core has just written.
LEMMA CoreEdgeInv == BridgeIInv /\ CoreEdge => BridgeIInv'
<1> SUFFICES ASSUME BridgeIInv, CoreEdge PROVE BridgeIInv' OBVIOUS
<1> USE DEF BridgeIInv, CoreEdge
<1>1. fs \notin {"AW", "W", "B", "AR", "R"}
  <2>1. \A n \in Writers : ~Pending(n) BY DEF ce
  <2>2. fs \notin {"AW", "W", "B"} BY <2>1 DEF Serving, BridgeTypeOK
  <2>3. fs \in {"AR", "R"} => held[port] = Unheld BY DEF Serving
  <2>4. held[port] \in 0..(DdrLines - 1)
    <3>1. port \in Memories BY DEF BridgeTypeOK
    <3>2. q[port] \in Words BY <3>1 DEF BridgeTypeOK
    <3>3. held[port] = Line(q[port]) BY <3>1 DEF ce, Held
    <3>4. QED BY <3>2, <3>3, LineType
  <2>5. Unheld \notin 0..(DdrLines - 1) BY DEF Unheld
  <2>6. QED BY <2>2, <2>3, <2>4, <2>5
<1>2. \A m \in Caches : ddr[m] = Elements
  BY AllThere DEF WrittenThrough
<1>3. \A n \in Writers : Pending(n)' <=> wr'[n] # None
  BY DEF Pending
<1>4. BridgeTypeOK'
  <2>1. ddr' \in [Caches -> SUBSET Elements] BY DEF BridgeTypeOK
  <2>2. copy' \in [Caches -> SUBSET Elements] BY DEF BridgeTypeOK
  <2>3. QED BY <2>1, <2>2 DEF BridgeTypeOK
<1>5. OnItsWay'
  <2>1. ASSUME NEW m \in Caches, NEW e \in Elements, e \notin ddr'[m]
        PROVE  \E n \in Writers : CacheOf(n) = m /\ Pending(n)' /\ wr'[n] = e
    <3>1. e \in Aimed(wr', m) BY <1>2, <2>1
    <3>2. PICK n \in Writers : CacheOf(n) = m /\ wr'[n] = e BY <3>1, AimedIs
    <3>3. wr'[n] # None BY <3>2, NoneIsNone
    <3>4. QED BY <3>2, <3>3, <1>3
  <2>2. ASSUME NEW n \in Writers, Pending(n)'
        PROVE  wr'[n] \notin ddr'[CacheOf(n)]
    <3>1. CacheOf(n) \in Caches BY DEF CacheOf, Caches
    <3>2. wr'[n] \in Aimed(wr', CacheOf(n)) BY DEF Aimed
    <3>3. QED BY <3>1, <3>2
  <2>3. QED BY <2>1, <2>2 DEF OnItsWay
<1>6. Serving' BY <1>1 DEF Serving
<1>7. TookToo' BY <1>1 DEF TookToo
<1>8. CopyNotBehind'
  <2>1. ASSUME NEW m \in Caches, held'[m] # Unheld, NEW e \in Elements,
               Line(e.w) = held'[m], e \in ddr'[m]
        PROVE  e \in copy'[m]
    <3>1. e \in copy[m] BY <2>1 DEF CopyNotBehind
    <3>2. e \notin Aimed(wr', m) BY <2>1
    <3>3. QED BY <3>1, <3>2
  <2>2. QED BY <2>1 DEF CopyNotBehind
<1>9. QED BY <1>4, <1>5, <1>6, <1>7, <1>8

\* The steps that start something change nothing it is about.
LEMMA StartWriteInv == BridgeIInv /\ StartWrite => BridgeIInv'
<1> SUFFICES ASSUME BridgeIInv, StartWrite PROVE BridgeIInv' OBVIOUS
<1> USE DEF BridgeIInv, StartWrite
<1>1. Next_Write \in Writers /\ Pending(Next_Write)
  BY DEF Next_Write, Writers
<1>2. BridgeTypeOK' BY <1>1 DEF BridgeTypeOK
<1>3. OnItsWay' BY DEF OnItsWay, Pending
<1>4. Serving' BY <1>1 DEF Serving, Pending
<1>5. TookToo' BY DEF TookToo
<1>6. CopyNotBehind' BY DEF CopyNotBehind
<1>7. QED BY <1>2, <1>3, <1>4, <1>5, <1>6

LEMMA StartFetchInv == BridgeIInv /\ StartFetch => BridgeIInv'
<1> SUFFICES ASSUME BridgeIInv, StartFetch PROVE BridgeIInv' OBVIOUS
<1> USE DEF BridgeIInv, StartFetch
<1>1. Next_Line \in Memories BY DEF Next_Line, Memories
<1>2. BridgeTypeOK' BY <1>1 DEF BridgeTypeOK
<1>3. OnItsWay' BY DEF OnItsWay, Pending
<1>4. Serving'
  <2>1. held'[Next_Line] = Unheld BY <1>1 DEF BridgeTypeOK
  <2>2. \A n \in Writers : ~Pending(n)' BY DEF MayFetch, Pending
  <2>3. QED BY <2>1, <2>2 DEF Serving
<1>5. TookToo' BY DEF TookToo
<1>6. CopyNotBehind'
  <2>1. ASSUME NEW m \in Caches, held'[m] # Unheld
        PROVE  held'[m] = held[m]
    BY <1>1, <2>1 DEF BridgeTypeOK
  <2>2. QED BY <2>1 DEF CopyNotBehind
<1>7. QED BY <1>2, <1>3, <1>4, <1>5, <1>6

\* The handshakes alone.
LEMMA ReadTakenInv == BridgeIInv /\ ReadTaken => BridgeIInv'
  BY DEF BridgeIInv, ReadTaken, BridgeTypeOK, OnItsWay, Serving, TookToo, CopyNotBehind, Pending

LEMMA DataTakenInv == BridgeIInv /\ DataTaken => BridgeIInv'
<1> SUFFICES ASSUME BridgeIInv, DataTaken PROVE BridgeIInv' OBVIOUS
<1> USE DEF BridgeIInv, DataTaken
<1>1. BridgeTypeOK' BY DEF BridgeTypeOK
<1>2. OnItsWay' BY DEF OnItsWay, Pending
<1>3. Serving' BY DEF Serving, Pending
<1>4. TookToo' BY DEF TookToo
<1>5. CopyNotBehind' BY DEF CopyNotBehind
<1>6. QED BY <1>1, <1>2, <1>3, <1>4, <1>5

\* A line comes as DDR has it.
LEMMA LineReadInv == BridgeIInv /\ LineRead => BridgeIInv'
<1> SUFFICES ASSUME BridgeIInv, LineRead PROVE BridgeIInv' OBVIOUS
<1> USE DEF BridgeIInv, LineRead
<1>1. port \in Memories /\ Line(q[port]) \in 0..(DdrLines - 1)
  BY LineType DEF BridgeTypeOK
<1>2. BridgeTypeOK'
  <2>1. held' \in [Memories -> {Unheld} \cup 0..(DdrLines - 1)] BY <1>1 DEF BridgeTypeOK
  <2>2. copy' \in [Caches -> SUBSET Elements]
    <3>1. CASE port = "C" BY <3>1 DEF BridgeTypeOK
    <3>2. CASE port # "C"
      <4>1. port \in Caches BY <1>1, <3>2 DEF Memories, Caches
      <4>2. {e \in ddr[port] : Line(e.w) = Line(q[port])} \subseteq Elements
        BY <4>1 DEF BridgeTypeOK
      <4>3. QED BY <3>2, <4>2 DEF BridgeTypeOK
    <3>3. QED BY <3>1, <3>2
  <2>3. QED BY <2>1, <2>2 DEF BridgeTypeOK
<1>3. OnItsWay' BY DEF OnItsWay, Pending
<1>4. Serving' BY DEF Serving
<1>5. TookToo' BY DEF TookToo
<1>6. CopyNotBehind'
  <2>1. ASSUME NEW m \in Caches, held'[m] # Unheld, NEW e \in Elements,
               Line(e.w) = held'[m], e \in ddr'[m]
        PROVE  e \in copy'[m]
    <3>1. CASE m = port
      <4>1. port # "C" BY <3>1 DEF Caches
      <4>2. held'[m] = Line(q[port]) BY <1>1, <3>1 DEF BridgeTypeOK
      <4>3. copy'[m] = {f \in ddr[port] : Line(f.w) = Line(q[port])}
        BY <3>1, <4>1 DEF BridgeTypeOK
      <4>4. QED BY <2>1, <3>1, <4>2, <4>3
    <3>2. CASE m # port
      <4>1. held'[m] = held[m] BY <3>2 DEF BridgeTypeOK, Caches, Memories
      <4>2. copy'[m] = copy[m] BY <3>2 DEF BridgeTypeOK
      <4>3. QED BY <2>1, <4>1, <4>2 DEF CopyNotBehind
    <3>3. QED BY <3>1, <3>2
  <2>2. QED BY <2>1 DEF CopyNotBehind
<1>7. QED BY <1>2, <1>3, <1>4, <1>5, <1>6

\* The address taken: a line holding the word takes the write.
LEMMA WriteTakenInv == BridgeIInv /\ WriteTaken => BridgeIInv'
<1> SUFFICES ASSUME BridgeIInv, WriteTaken PROVE BridgeIInv' OBVIOUS
<1> USE DEF BridgeIInv
<1> DEFINE m == CacheOf(wsel)
           e == wr[wsel]
<1>1. fs = "AW" /\ fs' = "W" /\ UNCHANGED <<q, wr, d, port, wsel, held, ddr>>
  BY DEF WriteTaken
<1>2. copy' = IF TakesToo(m, e) THEN [copy EXCEPT ![m] = @ \cup {e}] ELSE copy
  BY DEF WriteTaken
<1>3. wsel \in Writers /\ m \in Caches BY DEF BridgeTypeOK, CacheOf, Caches
<1>4. e \in Elements
  BY <1>1, <1>3, WritesType DEF BridgeTypeOK, Serving, Pending
<1>5. BridgeTypeOK'
  <2>1. copy' \in [Caches -> SUBSET Elements] BY <1>2, <1>3, <1>4 DEF BridgeTypeOK
  <2>2. QED BY <1>1, <2>1 DEF BridgeTypeOK
<1>6. OnItsWay' BY <1>1 DEF OnItsWay, Pending
<1>7. Serving' BY <1>1 DEF Serving, Pending
<1>8. TookToo'
  <2>1. SUFFICES ASSUME held[m] = Line(e.w) PROVE e \in copy'[m]
    BY <1>1 DEF TookToo
  <2>2. QED BY <1>2, <1>3, <2>1 DEF TakesToo, BridgeTypeOK
<1>9. CopyNotBehind'
  <2>1. \A k \in Caches : copy[k] \subseteq copy'[k] BY <1>2, <1>3 DEF BridgeTypeOK
  <2>2. QED BY <1>1, <2>1 DEF CopyNotBehind
<1>10. QED BY <1>5, <1>6, <1>7, <1>8, <1>9

\* The response: DDR has what the line, if it holds the word, took before.
LEMMA WriteDoneInv == BridgeIInv /\ WriteDone => BridgeIInv'
<1> SUFFICES ASSUME BridgeIInv, WriteDone PROVE BridgeIInv' OBVIOUS
<1> USE DEF BridgeIInv
<1> DEFINE m == CacheOf(wsel)
           e == wr[wsel]
<1>1. /\ fs = "B" /\ fs' = "IDLE" /\ d' = d \cup {wsel}
      /\ UNCHANGED <<q, wr, port, wsel, held, copy>>
  BY DEF WriteDone, Done
<1>2. ddr' = [ddr EXCEPT ![m] = @ \cup {e}] BY DEF WriteDone
<1>3. wsel \in Writers /\ m \in Caches BY DEF BridgeTypeOK, CacheOf, Caches
<1>4. e # None BY <1>1 DEF Serving, Pending
<1>5. e \in Elements BY <1>3, <1>4, WritesType DEF BridgeTypeOK
<1>6. \A n \in Writers : Pending(n)' <=> Pending(n) /\ n # wsel
  BY <1>1 DEF Pending
<1>7. BridgeTypeOK'
  <2>1. ddr' \in [Caches -> SUBSET Elements] BY <1>2, <1>3, <1>5 DEF BridgeTypeOK
  <2>2. QED BY <1>1, <1>3, <2>1 DEF BridgeTypeOK
<1>8. OnItsWay'
  <2>1. ASSUME NEW k \in Caches, NEW f \in Elements, f \notin ddr'[k]
        PROVE  \E n \in Writers : CacheOf(n) = k /\ Pending(n)' /\ wr'[n] = f
    <3>1. f \notin ddr[k] BY <1>2, <1>3, <2>1 DEF BridgeTypeOK
    <3>2. PICK n \in Writers : CacheOf(n) = k /\ Pending(n) /\ wr[n] = f
      BY <3>1 DEF OnItsWay
    <3>3. n # wsel BY <1>2, <1>3, <2>1, <3>2 DEF BridgeTypeOK
    <3>4. QED BY <1>1, <1>6, <3>2, <3>3
  <2>2. ASSUME NEW n \in Writers, Pending(n)'
        PROVE  wr'[n] \notin ddr'[CacheOf(n)]
    <3>1. Pending(n) /\ n # wsel BY <1>6, <2>2
    <3>2. wr[n] \notin ddr[CacheOf(n)] BY <3>1 DEF OnItsWay
    <3>3. CacheOf(n) = m => wr[n] # e
      BY <1>3, <3>1, WritesDiffer DEF BridgeTypeOK, Pending
    <3>4. CacheOf(n) \in Caches BY DEF CacheOf, Caches
    <3>5. QED BY <1>1, <1>2, <1>3, <3>2, <3>3, <3>4 DEF BridgeTypeOK
  <2>3. QED BY <2>1, <2>2 DEF OnItsWay
<1>9. Serving' BY <1>1 DEF Serving
<1>10. TookToo' BY <1>1 DEF TookToo
<1>11. CopyNotBehind'
  <2>1. ASSUME NEW k \in Caches, held[k] # Unheld, NEW f \in Elements,
               Line(f.w) = held[k], f \in ddr'[k]
        PROVE  f \in copy[k]
    <3>1. CASE f \in ddr[k] BY <2>1, <3>1 DEF CopyNotBehind
    <3>2. CASE f \notin ddr[k]
      <4>1. k = m /\ f = e BY <1>2, <1>3, <2>1, <3>2 DEF BridgeTypeOK
      <4>2. QED BY <1>1, <2>1, <4>1 DEF TookToo
    <3>3. QED BY <3>1, <3>2
  <2>2. QED BY <1>1, <2>1 DEF CopyNotBehind
<1>12. QED BY <1>7, <1>8, <1>9, <1>10, <1>11

LEMMA StutterInv == BridgeIInv /\ UNCHANGED bridgeVars => BridgeIInv'
<1> SUFFICES ASSUME BridgeIInv, UNCHANGED bridgeVars PROVE BridgeIInv' OBVIOUS
<1> USE DEF BridgeIInv, bridgeVars
<1>1. BridgeTypeOK' BY DEF BridgeTypeOK
<1>2. OnItsWay' BY DEF OnItsWay, Pending
<1>3. Serving' BY DEF Serving, Pending
<1>4. TookToo' BY DEF TookToo
<1>5. CopyNotBehind' BY DEF CopyNotBehind
<1>6. QED BY <1>1, <1>2, <1>3, <1>4, <1>5

\* The invariant of every step: what DDR lacks is on its way, a transaction's
\* cause stands, and no held line is behind DDR.
THEOREM BridgeInvariant == BridgeSpec => []BridgeIInv
<1>1. BridgeInit => BridgeIInv BY BridgeInitInv
<1>2. BridgeIInv /\ [BridgeNext]_bridgeVars => BridgeIInv'
  BY CoreEdgeInv, StartWriteInv, StartFetchInv, ReadTakenInv, LineReadInv,
     WriteTakenInv, DataTakenInv, WriteDoneInv, StutterInv DEF BridgeNext, Bridge
<1>3. QED BY <1>1, <1>2, PTL DEF BridgeSpec

-----------------------------------------------------------------------------
(* What follows.                                                           *)

LEMMA LastWrite == BridgeIInv => ReadsItsLastWrite
<1> SUFFICES ASSUME BridgeIInv, ce, NEW m \in Caches, NEW l \in Lanes
             PROVE  [w |-> q[m], l |-> l] \in copy[m]
  BY DEF ReadsItsLastWrite
<1> DEFINE e == [w |-> q[m], l |-> l]
<1>1. m \in Memories BY DEF Caches, Memories
<1>2. q[m] \in Words BY <1>1 DEF BridgeIInv, BridgeTypeOK
<1>3. e \in Elements BY <1>2 DEF Elements
<1>4. e \in ddr[m] BY <1>3, AllThere DEF WrittenThrough
<1>5. held[m] = Line(e.w) BY <1>1 DEF ce, Held
<1>6. held[m] # Unheld BY <1>2, <1>5, LineType DEF Unheld
<1>7. QED BY <1>3, <1>4, <1>5, <1>6 DEF BridgeIInv, CopyNotBehind

\* Types, for any constants.
THEOREM BridgeTypes == BridgeSpec => []BridgeTypeOK
<1>1. BridgeIInv => BridgeTypeOK BY DEF BridgeIInv
<1>2. QED BY <1>1, BridgeInvariant, PTL

\* Whatever the core reads and writes, every lane it reads is the one it last
\* wrote: a held line is no cache that goes stale.
THEOREM BridgeReads == BridgeSpec => []ReadsItsLastWrite
<1>1. QED BY LastWrite, BridgeInvariant, PTL

\* All the core wrote is in DDR before its clock runs again.
THEOREM BridgeWrites == BridgeSpec => []WrittenThrough
<1>1. QED BY AllThere, BridgeInvariant, PTL

\* No held line is behind DDR.
THEOREM BridgeCopies == BridgeSpec => []CopyNotBehind
<1>1. BridgeIInv => CopyNotBehind BY DEF BridgeIInv
<1>2. QED BY <1>1, BridgeInvariant, PTL

\* The core's clock stands for as long as a transaction is under way.
THEOREM BridgeHolds == BridgeSpec => []HeldMeanwhile
<1>1. BridgeIInv => HeldMeanwhile
  <2> SUFFICES ASSUME BridgeIInv PROVE HeldMeanwhile OBVIOUS
  <2>1. fs \in {"AW", "W", "B"} => Pending(wsel) BY DEF BridgeIInv, Serving
  <2>2. fs \in {"AR", "R"} => held[port] = Unheld /\ \A n \in Writers : wr[n] = None \/ n \in d
    BY DEF BridgeIInv, Serving, Pending
  <2>3. ASSUME fs # "IDLE", ce PROVE FALSE
    <3>1. wsel \in Writers /\ port \in Memories /\ q[port] \in Words BY DEF BridgeIInv, BridgeTypeOK
    <3>2. fs \in {"AR", "R"} BY <2>1, <2>3, <3>1 DEF BridgeIInv, BridgeTypeOK, ce
    <3>3. held[port] = Line(q[port]) BY <2>3, <3>1 DEF ce, Held
    <3>4. QED BY <2>2, <3>1, <3>2, <3>3, LineType DEF Unheld
  <2>4. QED BY <2>1, <2>2, <2>3 DEF HeldMeanwhile
<1>2. QED BY <1>1, BridgeInvariant, PTL

\* No write is sent that DDR has.
THEOREM BridgeSendsOnce == BridgeSpec => SentOnce
<1>1. BridgeIInv /\ [BridgeNext]_bridgeVars =>
        [\A n \in Writers : fs = "IDLE" /\ fs' = "AW" /\ wsel' = n =>
           wr[n] \notin ddr[CacheOf(n)]]_bridgeVars
  <2> SUFFICES ASSUME BridgeIInv, BridgeNext, NEW n \in Writers,
                      fs = "IDLE", fs' = "AW", wsel' = n
               PROVE  wr[n] \notin ddr[CacheOf(n)]
    OBVIOUS
  <2>1. StartWrite
    BY DEF BridgeNext, Bridge, CoreEdge, StartFetch, ReadTaken, LineRead, WriteTaken,
           DataTaken, WriteDone
  <2>2. Pending(n) BY <2>1 DEF StartWrite, Next_Write, Writers
  <2>3. QED BY <2>2 DEF BridgeIInv, OnItsWay
<1>2. QED BY <1>1, BridgeInvariant, PTL DEF BridgeSpec, SentOnce
=============================================================================
