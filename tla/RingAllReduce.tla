--------------------------- MODULE RingAllReduce ---------------------------
(***************************************************************************)
(* ring_allreduce of collectives.py: a reduce-scatter and an all-gather    *)
(* round the ring, over one ring or over two that each take half the       *)
(* vector and go opposite ways, for operations issued back to back with no *)
(* barrier between them (sizing.simulate_decode).  Messages come whole, in *)
(* any order, and wait in the mailbox of their tag (FabricMessages).       *)
(*                                                                         *)
(* A number is the sequence of contributions added into it, in order:      *)
(* floating-point sums in another order are other numbers.  What board b    *)
(* brings to operation o in element e is the contribution <<o, b, e>>.     *)
(***************************************************************************)
EXTENDS Integers, SequencesExt

CONSTANTS N,      \* boards
          L,      \* elements of the vector
          Bidir,  \* bidir: half the vector each way
          NOps    \* bound: operations issued

ASSUME RingAssumption == /\ N \in Nat \ {0, 1} /\ L \in Nat /\ NOps \in Nat
                         /\ Bidir \in BOOLEAN

Members == 0..(N - 1)
Elements == 0..(L - 1)
Steps  == 0..(N - 2)

\* The rings: the part of the vector each takes, and its direction.
Rings == IF Bidir /\ N > 2 /\ L > 1
           THEN {[lo |-> 0, hi |-> L \div 2, d |-> 1],
                 [lo |-> L \div 2, hi |-> L, d |-> -1]}
           ELSE {[lo |-> 0, hi |-> L, d |-> 1]}

VARIABLES
  op,     \* the operation each board is in, or was in last
  at,     \* in it, each ring's step: what it waits for, Ended at the end
  vec,    \* each board's vector
  mail,   \* messages sent and not yet taken by their receiver
  out     \* history: what each board had at the end of each operation

ringVars == <<op, at, vec, mail, out>>

Ended == [phase |-> "end", s |-> 0]
Numbers == Seq((1..NOps) \X Members \X Elements)

RingInit == /\ op = [b \in Members |-> 0]
            /\ at = [b \in Members |-> [r \in Rings |-> Ended]]
            /\ vec = [b \in Members |-> [e \in Elements |-> <<>>]]
            /\ mail = {}
            /\ out = [b \in Members |-> <<>>]

-----------------------------------------------------------------------------

\* The boards before and after b in ring r, and b's place in it.
nxt(b, r) == (b + r.d) % N
prv(b, r) == (b - r.d) % N
place(b, r) == IF r.d = 1 THEN b ELSE (-b) % N

\* MUTANT: every chunk has the size of the smallest.
bnd_Even(k, r) == r.lo + k * ((r.hi - r.lo) \div N)

\* Chunk k of a ring's part is the elements from bnd(k, r) up to bnd(k + 1, r).
bnd(k, r) == r.lo + (k * (r.hi - r.lo)) \div N

\* The chunks a ring's step sends and receives: si and ri.
SentChunk(p, t) == IF t.phase = "rs" THEN (p - t.s) % N ELSE (p + 1 - t.s) % N
RecvChunk(p, t) == IF t.phase = "rs" THEN (p - t.s - 1) % N ELSE (p - t.s) % N

After(t) == IF t.s + 1 <= N - 2 THEN [t EXCEPT !.s = @ + 1]
            ELSE IF t.phase = "rs" THEN [phase |-> "ag", s |-> 0]
            ELSE Ended

\* MUTANT: every step of a phase has the same tag.
Tag_NoStep(o, r, t) == <<t.phase, o, r.d>>

Tag(o, r, t) == <<t.phase, o, r.d, t.s>>

\* What step t of ring r sends: the chunk of v as it is now.  Board.send packs
\* the values into packets; of no values it makes none, and nothing is sent.
Sending(b, r, t, v) ==
  IF t = Ended THEN {}
  ELSE LET k    == SentChunk(place(b, r), t)
           vals == [i \in 1..(bnd(k + 1, r) - bnd(k, r)) |-> v[bnd(k, r) + i - 1]]
       IN  IF vals = <<>> THEN {}
           ELSE {[src |-> b, dst |-> nxt(b, r), tag |-> Tag(op'[b], r, t),
                  vals |-> vals]}

\* What ring r of board b waits for.
Expected(b, r) ==
  {m \in mail : m.src = prv(b, r) /\ m.dst = b /\ m.tag = Tag(op[b], r, at[b][r])}

\* Board b begins its next operation with its next contribution: every ring
\* sends its first chunk and waits.
Begin(b) ==
  /\ \A r \in Rings : at[b][r] = Ended
  /\ op[b] < NOps
  /\ op' = [op EXCEPT ![b] = @ + 1]
  /\ LET t == [phase |-> "rs", s |-> 0]
         v == [e \in Elements |-> <<<<op'[b], b, e>>>>] IN
     /\ vec' = [vec EXCEPT ![b] = v]
     /\ at' = [at EXCEPT ![b] = [r \in Rings |-> t]]
     /\ mail' = mail \cup UNION {Sending(b, r, t, v) : r \in Rings}
  /\ UNCHANGED out

\* MUTANT: the all-gather adds what it is sent, as the reduce-scatter does.
Taken_Added(t, mine, given) == given \o mine

\* The reduce-scatter adds what comes to its own, the all-gather takes it.
Taken(t, mine, given) == IF t.phase = "rs" THEN given \o mine ELSE given

\* MUTANT: the worker does not wait for its other ring.
RingsOver_First(atb) == \E r \in Rings : r.d = 1 /\ atb[r] = Ended

RingsOver(atb) == \A r \in Rings : atb[r] = Ended

\* The message ring r of board b waits for is there: take it, send the next.
Receive(b, r) ==
  /\ at[b][r] # Ended
  /\ \E m \in Expected(b, r) :
       LET t == at[b][r]
           k == RecvChunk(place(b, r), t)
           v == [e \in Elements |->
                   IF bnd(k, r) <= e /\ e < bnd(k + 1, r)
                     THEN Taken(t, vec[b][e], m.vals[e - bnd(k, r) + 1])
                     ELSE vec[b][e]] IN
       /\ op' = op
       /\ vec' = [vec EXCEPT ![b] = v]
       /\ at' = [at EXCEPT ![b][r] = After(t)]
       /\ mail' = (mail \ {m}) \cup Sending(b, r, After(t), v)
       /\ out' = IF RingsOver(at'[b]) THEN [out EXCEPT ![b] = Append(@, v)]
                 ELSE out

AllDone == /\ \A b \in Members : Len(out[b]) = NOps
           /\ UNCHANGED ringVars

RingNext == \/ \E b \in Members : Begin(b)
            \/ \E b \in Members, r \in Rings : Receive(b, r)
            \/ AllDone

RingSpec == RingInit /\ [][RingNext]_ringVars

\* The boards run on, and a message that is sent arrives.
RingFairSpec ==
  RingSpec /\ \A b \in Members : /\ WF_ringVars(Begin(b))
                                 /\ \A r \in Rings : WF_ringVars(Receive(b, r))

-----------------------------------------------------------------------------
(* Properties *)

\* Types of the boards' state.
RingTypeOK ==
  /\ op \in [Members -> 0..NOps]
  /\ \A b \in Members, r \in Rings :
       at[b][r] \in [phase : {"rs", "ag"}, s : Steps] \cup {Ended}
  /\ \A b \in Members : /\ \A e \in Elements : vec[b][e] \in Numbers
                       /\ Len(out[b]) \in 0..NOps

\* A board ends an operation with every element the sum of what each board
\* brought to that very operation, each once ...
EveryContributionOnce ==
  \A b \in Members : \A k \in 1..Len(out[b]) : \A e \in Elements :
    /\ Len(out[b][k][e]) = N
    /\ ToSet(out[b][k][e]) = {<<k, c, e>> : c \in Members}

\* ... added in the same order everywhere: bit for bit the same vector.
SameOnEveryBoard ==
  \A b, c \in Members : \A k \in 1..Len(out[b]) :
    k <= Len(out[c]) => out[b][k] = out[c][k]

\* The mailbox holds one message of a tag: no message takes the place of
\* one with its tag that has not been taken.
OneMessagePerTag ==
  \A m, w \in mail : m.src = w.src /\ m.dst = w.dst /\ m.tag = w.tag => m = w

\* A message is as long as the chunk it is taken into.
ChunksAgree ==
  \A b \in Members, r \in Rings : \A m \in Expected(b, r) :
    LET k == RecvChunk(place(b, r), at[b][r]) IN
    Len(m.vals) = bnd(k + 1, r) - bnd(k, r)

Sums == INSTANCE SumRendezvous
         WITH Boards <- Members, begun <- op, ended <- [b \in Members |-> Len(out[b])]

ImplementsSum == Sums!SumInit /\ [][Sums!SumNext]_(Sums!SumVars)

\* Every board ends every operation.
ImplementsFairSum == Sums!SumSpec

\* "Works for arbitrary N": every board ends.
EveryBoardEnds == <>(\A b \in Members : Len(out[b]) = NOps)
=============================================================================
