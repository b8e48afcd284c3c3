--------------------------- MODULE WeightStreamer ---------------------------
(***************************************************************************)
(* The weight streamer between the core and DDR (zybo.py, render_streamer; *)
(* the core's held clock is render_top's).  Lines of weights are read      *)
(* ahead of the core into NS slots over NP read masters: line l through    *)
(* master l % NP into slot l % NS.  The core's clock is held while the     *)
(* slot of its line does not hold it; the core walks the lines in order    *)
(* and jumps back, or anywhere else, between projections.                  *)
(*                                                                         *)
(* One step is one edge of the bus clock: every register takes its next    *)
(* value from the old ones.  A line is its number, and what a slot holds   *)
(* is, for each beat, the line the beat came from.                         *)
(***************************************************************************)
EXTENDS Integers, Sequences

CONSTANTS NP,       \* read masters
          NS,       \* slots, so many for each master
          MAXO,     \* bursts a master may have outstanding
          NLines,   \* bound: lines the core may ask for
          NBeats    \* beats a burst

ASSUME StreamerAssumption ==
  /\ {NP, NS, MAXO, NLines, NBeats} \subseteq Nat \ {0}
  /\ NS > 1 /\ NS % NP = 0

Masters == 0..(NP - 1)
Slots == 0..(NS - 1)
Lines == 0..(NLines - 1)
Streamed == 0..(NLines - 1 + NS)    \* lines the stream may run on to
NoLine == -1

slot(l) == l % NS
master(l) == l % NP

VARIABLES
  cur, pcur,          \* the core's line, now and an edge ago
  nreq, jl,           \* the stream's next line, and a jump not yet followed
  tm_r, sp_r, pd_r,   \* what the stream knows of that line's slot
  sval, pend, stag, swb,    \* the slots: valid, burst in flight, tag, beats
  arvalid, araddr, out, inf, wb,  \* each master: its request, bursts in flight, beat
  mem                 \* the requests DDR has taken and not answered, by master

stream == <<nreq, jl, tm_r, sp_r, pd_r>>
slots == <<sval, pend, stag, swb>>
ports == <<arvalid, araddr, out, inf, wb, mem>>
vars == <<cur, pcur, stream, slots, ports>>

Init ==
  /\ cur = 0 /\ pcur = 0 /\ nreq = 0 /\ jl = FALSE
  /\ tm_r = TRUE /\ sp_r = FALSE /\ pd_r = FALSE
  /\ sval = [s \in Slots |-> FALSE] /\ pend = [s \in Slots |-> FALSE]
  /\ stag = [s \in Slots |-> 0]
  /\ swb = [s \in Slots |-> [b \in 1..NBeats |-> NoLine]]
  /\ arvalid = [p \in Masters |-> FALSE] /\ araddr = [p \in Masters |-> 0]
  /\ out = [p \in Masters |-> 0] /\ wb = [p \in Masters |-> 1]
  /\ inf = [p \in Masters |-> <<>>] /\ mem = [p \in Masters |-> <<>>]

-----------------------------------------------------------------------------
(* The core.                                                               *)

Holds(s, l) == sval[s] /\ stag[s] = l

\* The core may take an edge: its line is in its slot.
hw == Holds(slot(cur), cur)

\* It takes one, and may go on to any line; pcur follows an edge behind.
Core(ce) ==
  /\ ce => hw
  /\ IF ce THEN cur' \in Lines ELSE UNCHANGED cur
  /\ pcur' = cur

-----------------------------------------------------------------------------
(* The stream: it restarts at the core's line on a jump, passes lines that *)
(* are held or on their way, and asks for the others.                      *)

anyv == \E p \in Masters : arvalid[p]
in_win == cur <= nreq /\ nreq < cur + NS
have == tm_r /\ sp_r

jumped_OneCycle == cur \notin {pcur, pcur + 1} \/ nreq < cur
jumped == jl \/ cur \notin {pcur, pcur + 1} \/ nreq < cur \/ nreq > cur + NS

MayIssue_SlotFree == in_win /\ ~have /\ ~arvalid[master(nreq)] /\ out[master(nreq)] < MAXO
MayIssue == MayIssue_SlotFree /\ ~pd_r

Restarts == jumped /\ ~anyv
Passes == ~Restarts /\ in_win /\ have
Issues == ~Restarts /\ MayIssue

\* The registered flags are those of the line the stream moves to.
Flags_NotYetSent(l) ==
  /\ tm_r' = (stag[slot(l)] = l)
  /\ sp_r' = sval[slot(l)]
  /\ pd_r' = pend[slot(l)]
Flags(l) ==
  /\ tm_r' = (stag[slot(l)] = l)
  /\ sp_r' = (sval[slot(l)] \/ pend[slot(l)])
  /\ pd_r' = pend[slot(l)]

Stream ==
  /\ jl' = (jumped /\ anyv)
  /\ \/ Restarts /\ nreq' = cur /\ Flags(cur)
     \/ (Passes \/ Issues) /\ nreq' = nreq + 1 /\ Flags(nreq + 1)
     \/ /\ ~Restarts /\ ~Passes /\ ~Issues
        /\ pd_r' = pend[slot(nreq)] /\ UNCHANGED <<nreq, tm_r, sp_r>>

-----------------------------------------------------------------------------
(* The masters and DDR, which takes requests (ar) and returns beats (r)    *)
(* when it likes, each master's in order.                                  *)

Asks(p) == Issues /\ master(nreq) = p
Lands(p, r) == p \in r /\ wb[p] = NBeats

\* What is left of a queue of bursts once its oldest has landed, with a new
\* one behind it.
Moved(q, gone, more, l) == (IF gone THEN Tail(q) ELSE q) \o (IF more THEN <<l>> ELSE <<>>)

Ports(ar, r) ==
  /\ arvalid' = [p \in Masters |-> Asks(p) \/ (arvalid[p] /\ p \notin ar)]
  /\ araddr' = [p \in Masters |-> IF Asks(p) THEN nreq ELSE araddr[p]]
  /\ out' = [p \in Masters |-> out[p] + (IF p \in ar THEN 1 ELSE 0)
                                      - (IF Lands(p, r) THEN 1 ELSE 0)]
  /\ inf' = [p \in Masters |-> Moved(inf[p], Lands(p, r), Asks(p), nreq)]
  /\ wb' = [p \in Masters |-> IF p \in r THEN (wb[p] % NBeats) + 1 ELSE wb[p]]
  /\ mem' = [p \in Masters |-> Moved(mem[p], Lands(p, r), p \in ar, araddr[p])]

\* The beats of a master go to the slot of its oldest burst.
Filling(p) == slot(Head(inf[p]))
Asked(s) == Issues /\ slot(nreq) = s
Landed(s, r) == \E p \in r : Lands(p, r) /\ Filling(p) = s

Written(s, r) ==
  [b \in 1..NBeats |->
     IF \E p \in r : Filling(p) = s /\ wb[p] = b
     THEN Head(mem[CHOOSE p \in r : Filling(p) = s /\ wb[p] = b]) ELSE swb[s][b]]

SlotsAfter(r) ==
  /\ sval' = [s \in Slots |-> Landed(s, r) \/ (sval[s] /\ ~Asked(s))]
  /\ pend' = [s \in Slots |-> ~Landed(s, r) /\ (pend[s] \/ Asked(s))]
  /\ stag' = [s \in Slots |-> IF Asked(s) THEN nreq ELSE stag[s]]
  /\ swb' = [s \in Slots |-> Written(s, r)]

-----------------------------------------------------------------------------

Accepting == {p \in Masters : arvalid[p]}
Answering == {p \in Masters : mem[p] # <<>>}

Edge(ce, ar, r) == Core(ce) /\ Stream /\ Ports(ar, r) /\ SlotsAfter(r)

Next == \E ce \in BOOLEAN, ar \in SUBSET Accepting, r \in SUBSET Answering : Edge(ce, ar, r)

Spec == Init /\ [][Next]_vars

\* The bus clock runs; DDR takes every request in the end, and answers it.
FairSpec ==
  /\ Spec /\ WF_vars(Next)
  /\ \A p \in Masters :
       /\ WF_vars(\E ce \in BOOLEAN, ar \in SUBSET Accepting, r \in SUBSET Answering :
                    p \in ar /\ Edge(ce, ar, r))
       /\ WF_vars(\E ce \in BOOLEAN, ar \in SUBSET Accepting, r \in SUBSET Answering :
                    p \in r /\ Edge(ce, ar, r))

-----------------------------------------------------------------------------
(* Properties.                                                             *)

TypeOK ==
  /\ cur \in Lines /\ pcur \in Lines /\ nreq \in Streamed
  /\ {jl, tm_r, sp_r, pd_r} \subseteq BOOLEAN
  /\ sval \in [Slots -> BOOLEAN] /\ pend \in [Slots -> BOOLEAN]
  /\ stag \in [Slots -> Streamed]
  /\ swb \in [Slots -> [1..NBeats -> Streamed \cup {NoLine}]]
  /\ arvalid \in [Masters -> BOOLEAN] /\ araddr \in [Masters -> Streamed]
  /\ out \in [Masters -> 0..MAXO] /\ wb \in [Masters -> 1..NBeats]
  /\ inf \in [Masters -> Seq(Streamed)] /\ mem \in [Masters -> Seq(Streamed)]

\* The core never reads another line's weights: while its clock is free, every
\* beat of its line's slot came from that line.
RightWeights == hw => \A b \in 1..NBeats : swb[slot(cur)][b] = cur

\* "With one burst a slot, the only one that can land in a slot is the line its
\* tag names": the bursts under way are for different slots, each pending, not
\* valid and tagged with the burst's line.
OneBurstASlot ==
  /\ \A p \in Masters : \A i, j \in DOMAIN inf[p] :
       slot(inf[p][i]) = slot(inf[p][j]) => i = j
  /\ \A p \in Masters : \A i \in DOMAIN inf[p] : LET s == slot(inf[p][i]) IN
       pend[s] /\ stag[s] = inf[p][i] /\ master(inf[p][i]) = p
  /\ \A s \in Slots : pend[s] =>
       ~sval[s] /\ \E i \in DOMAIN inf[s % NP] : slot(inf[s % NP][i]) = s

\* A master's bursts land in the order of its queue of them: DDR holds the
\* oldest, and the request not yet taken is the newest.
InOrder ==
  \A p \in Masters : /\ inf[p] = mem[p] \o (IF arvalid[p] THEN <<araddr[p]>> ELSE <<>>)
                     /\ out[p] = Len(mem[p]) /\ Len(inf[p]) <= MAXO

\* "tm_r and sp_r are exact; pd_r can lag a landing burst by a cycle, which only
\* delays an issue": it never misses a burst in flight.
FlagsExact ==
  LET s == slot(nreq) IN
  /\ tm_r <=> stag[s] = nreq
  /\ sp_r <=> sval[s] \/ pend[s]
  /\ pend[s] => pd_r

\* The core is never held for good: whatever the jumps and however long a
\* request is stalled, the core's line comes.
NeverStalls == []<>hw
=============================================================================
