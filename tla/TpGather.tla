------------------------------ MODULE TpGather ------------------------------
(***************************************************************************)
(* The gathers of a tensor-parallel run on real boards (board_zybo.py, the *)
(* C program TP_C, one copy per rank).  A rank's core stops at each gather *)
(* with its slice of a vector; the program sends the slice to every other  *)
(* rank in parts, one UDP datagram each, and waits for theirs.  Datagrams  *)
(* are lost, duplicated and reordered; a damaged one is dropped by its     *)
(* CRC, which is a loss.  A slice's data is the number of the gather it    *)
(* was computed for, so that a stale slice can be told from a right one.   *)
(***************************************************************************)
EXTENDS Naturals, Sequences

CONSTANTS NRanks,    \* TP_RANKS
          PMAX,      \* the most parts a slice has
          Parts,     \* Parts[r][vec]: in how many parts rank r's slice goes
          NGathers,  \* bound: gathers of the run
          VecAt,     \* VecAt[k]: the vector that gather k gathers
          MaxLost    \* bound: datagrams lost on the way

Ranks == 0..(NRanks - 1)
Vecs  == 1..4
Slots == Ranks \X (0..(PMAX - 1))   \* rank and part: a piece of a vector

ASSUME GatherAssumption ==
  /\ NRanks \in Nat \ {0} /\ PMAX \in Nat \ {0}
  /\ NGathers \in Nat /\ MaxLost \in Nat
  /\ Parts \in [Ranks -> [Vecs -> 1..PMAX]]
  /\ VecAt \in [1..NGathers -> Vecs]

VARIABLES
  phase,  \* what each rank does: core, gather or off
  cur,    \* the gather each rank is in, or was in last
  nxt,    \* the one after it, with parts that came early
  mine,   \* each rank's own slice for the gather it entered last
  prev,   \* ... and for the one before
  net,    \* datagrams on the network, each of which may arrive again
  lost,   \* how many datagrams were lost
  used    \* history: the vectors each rank's core was given

vars == <<phase, cur, nxt, mine, prev, net, lost, used>>

\* struct gather; v holds what every rank contributed to it.
Gathers == [gid : Nat, vec : 0..4, got : SUBSET Slots, v : [Slots -> Nat]]
OwnSlices == [gid : Nat, vec : 0..4, data : Nat]

SliceMsgs == [type : {"SLICE"}, gid : 1..NGathers, vec : Vecs, src : Ranks,
              dst : Ranks, part : 0..(PMAX - 1), data : Nat]
AskMsgs   == [type : {"ASK"}, gid : 1..NGathers, src : Ranks, dst : Ranks]

Init ==
  LET empty(n) == [gid |-> n, vec |-> 0, got |-> {}, v |-> [x \in Slots |-> 0]]
      none     == [gid |-> 0, vec |-> 0, data |-> 0] IN
  /\ phase = [r \in Ranks |-> "core"]
  /\ cur = [r \in Ranks |-> empty(0)]
  /\ nxt = [r \in Ranks |-> empty(1)]
  /\ mine = [r \in Ranks |-> none] /\ prev = [r \in Ranks |-> none]
  /\ net = {} /\ lost = 0
  /\ used = [r \in Ranks |-> <<>>]

-----------------------------------------------------------------------------

\* The datagrams that carry own slice w of rank r to rank s.
send_slice(r, s, w) ==
  {[type |-> "SLICE", gid |-> w.gid, vec |-> w.vec, src |-> r, dst |-> s,
    part |-> p, data |-> w.data] : p \in 0..(Parts[r][w.vec] - 1)}

\* MUTANT: any part will do.
complete_AnyPart(g, s) == \E p \in 0..(Parts[s][g.vec] - 1) : <<s, p>> \in g.got

\* Every part of rank s's slice of gather g has arrived.
complete(g, s) == \A p \in 0..(Parts[s][g.vec] - 1) : <<s, p>> \in g.got

Others(r) == Ranks \ {r}

\* MUTANT: the marks of the gather before stay.
Cleared_OldParts(g, k) == [g EXCEPT !.gid = k, !.vec = 0]

\* The buffer of gather g, done with, made ready for gather k.
Cleared(g, k) == [gid |-> k, vec |-> 0, got |-> {}, v |-> g.v]

\* MUTANT: the last slice is not saved.
Saved_Not(r) == prev[r]

\* What rank r keeps for a rank one behind: its slice of the last gather.
Saved(r) == mine[r]

\* The core of rank r stops at its next gather.  The next gather becomes the
\* current one with the parts that came early, unless those say they are of
\* another vector; the rank keeps its last slice and sends the new one.
gather(r) ==
  /\ phase[r] = "core" /\ cur[r].gid < NGathers
  /\ LET k    == nxt[r].gid
         vec  == VecAt[k]
         w    == [gid |-> k, vec |-> vec, data |-> k]
         keep == nxt[r].vec \in {0, vec}
     IN
     /\ cur' = [cur EXCEPT ![r] =
                  [gid |-> k, vec |-> vec,
                   got |-> IF keep THEN nxt[r].got ELSE {},
                   v   |-> [x \in Slots |-> IF x[1] = r THEN k
                                                        ELSE nxt[r].v[x]]]]
     /\ nxt' = [nxt EXCEPT ![r] = Cleared(cur[r], k + 1)]
     /\ prev' = [prev EXCEPT ![r] = Saved(r)]
     /\ mine' = [mine EXCEPT ![r] = w]
     /\ net' = net \cup UNION {send_slice(r, s, w) : s \in Others(r)}
     /\ phase' = [phase EXCEPT ![r] = "gather"]
  /\ UNCHANGED <<lost, used>>

\* Every slice is in: the core takes the whole vector and goes on.
leave(r) ==
  /\ phase[r] = "gather"
  /\ \A s \in Others(r) : complete(cur[r], s)
  /\ used' = [used EXCEPT ![r] = Append(@,
       [s \in Ranks |-> {cur[r].v[<<s, p>>] :
                           p \in 0..(Parts[s][cur[r].vec] - 1)}])]
  /\ phase' = [phase EXCEPT ![r] = "core"]
  /\ UNCHANGED <<cur, nxt, mine, prev, net, lost>>

\* RESEND_MS have passed and parts are missing: ask their senders again.
ask(r) ==
  /\ phase[r] = "gather"
  /\ \E s \in Others(r) : ~complete(cur[r], s)
  /\ net' = net \cup {[type |-> "ASK", gid |-> cur[r].gid, src |-> r,
                       dst |-> s] :
                      s \in {t \in Others(r) : ~complete(cur[r], t)}}
  /\ UNCHANGED <<phase, cur, nxt, mine, prev, lost, used>>

\* rx, a part of a slice: stored in the gather it is for, if that is the
\* current one or the next and the vector agrees; dropped otherwise.
store(g, m) ==
  IF g.vec \in {0, m.vec}
    THEN [g EXCEPT !.vec = m.vec, !.got = @ \cup {<<m.src, m.part>>},
                   !.v[<<m.src, m.part>>] = m.data]
    ELSE g

rx_slice(m) ==
  LET r == m.dst IN
  /\ cur' = IF m.gid = cur[r].gid THEN [cur EXCEPT ![r] = store(@, m)]
                                  ELSE cur
  /\ nxt' = IF m.gid # cur[r].gid /\ m.gid = nxt[r].gid
              THEN [nxt EXCEPT ![r] = store(@, m)] ELSE nxt
  /\ UNCHANGED <<phase, mine, prev, net, lost, used>>

\* MUTANT: only the slice of the gather entered last is sent again.
answer_NotPrevious(r, m) ==
  IF m.gid = mine[r].gid THEN send_slice(r, m.src, mine[r]) ELSE {}

\* rx, a request: the slice of the gather entered last, or of the one
\* before, goes out once more; any other request is ignored.
answer(r, m) ==
  IF m.gid = mine[r].gid THEN send_slice(r, m.src, mine[r])
  ELSE IF m.gid = prev[r].gid THEN send_slice(r, m.src, prev[r])
  ELSE {}

rx_ask(m) == /\ net' = net \cup answer(m.dst, m)
             /\ UNCHANGED <<phase, cur, nxt, mine, prev, lost, used>>

\* A rank that is up polls the network while its core runs, while it waits
\* in a gather, and for LINGER_MS after its last position.
rx(m) ==
  /\ m \in net /\ phase[m.dst] # "off"
  /\ \/ m.type = "SLICE" /\ rx_slice(m)
     \/ m.type = "ASK" /\ rx_ask(m)

lose(m) == /\ m \in net /\ lost < MaxLost
           /\ net' = net \ {m} /\ lost' = lost + 1
           /\ UNCHANGED <<phase, cur, nxt, mine, prev, used>>

\* A rank ends LINGER_MS after its last gather.  By its last gather every
\* rank has entered it, and LINGER_MS is twelve times RESEND_MS: a rank is
\* taken to get its last slices within twelve requests.
end(r) ==
  /\ phase[r] = "core"
  /\ \A s \in Ranks : cur[s].gid = NGathers /\ phase[s] # "gather"
  /\ phase' = [phase EXCEPT ![r] = "off"]
  /\ UNCHANGED <<cur, nxt, mine, prev, net, lost, used>>

AllOff == /\ \A r \in Ranks : phase[r] = "off"
          /\ UNCHANGED vars

Next == \/ \E r \in Ranks : gather(r) \/ leave(r) \/ ask(r) \/ end(r)
        \/ \E m \in net : rx(m) \/ lose(m)
        \/ AllOff

Spec == Init /\ [][Next]_vars

\* Every datagram the ranks can send.
Datagrams ==
  UNION {send_slice(r, s, [gid |-> k, vec |-> VecAt[k], data |-> k]) :
           r \in Ranks, s \in Ranks, k \in 1..NGathers} \cup AskMsgs

\* The core runs on, the program polls and its timer runs; a datagram that
\* is not lost arrives.
Fairness == /\ \A r \in Ranks : /\ WF_vars(gather(r)) /\ WF_vars(leave(r))
                                /\ WF_vars(ask(r))
            /\ \A m \in Datagrams : WF_vars(rx(m))

FairSpec == Spec /\ Fairness

-----------------------------------------------------------------------------
(* Properties *)

\* Types of the ranks' state.
TypeOK ==
  /\ phase \in [Ranks -> {"core", "gather", "off"}]
  /\ cur \in [Ranks -> Gathers] /\ nxt \in [Ranks -> Gathers]
  /\ mine \in [Ranks -> OwnSlices] /\ prev \in [Ranks -> OwnSlices]
  /\ net \subseteq SliceMsgs \cup AskMsgs
  /\ lost \in 0..MaxLost
  /\ used \in [Ranks -> Seq([Ranks -> SUBSET Nat])]

\* "A rank can be one gather ahead of another and never more."
OneAhead == \A r, s \in Ranks : cur[r].gid <= cur[s].gid + 1

\* What a rank keeps is enough: whenever a rank waits for the slice of one
\* that has sent it, the sender still holds that slice and would answer.
AskAnswerable ==
  \A r, s \in Ranks :
    phase[r] = "gather" /\ cur[s].gid >= cur[r].gid =>
      \/ mine[s].gid = cur[r].gid /\ mine[s].data = cur[r].gid
      \/ prev[s].gid = cur[r].gid /\ prev[s].data = cur[r].gid

\* A part marked as arrived holds what its sender computed for that gather,
\* and nothing from the gather before; early parts are kept, not mixed.
PartsAreFresh ==
  \A r \in Ranks : \A g \in {cur[r], nxt[r]} : \A x \in g.got :
    g.v[x] = g.gid /\ cur[x[1]].gid >= g.gid

\* A part in time is never thrown away: the vector number an early part
\* leaves behind is the one the gather turns out to have.
EarlyPartsAgree ==
  \A r \in Ranks : /\ nxt[r].gid = cur[r].gid + 1
                   /\ nxt[r].vec # 0 => /\ nxt[r].gid <= NGathers
                                        /\ nxt[r].vec = VecAt[nxt[r].gid]

\* Every core is given, at each gather, exactly the slices all the ranks
\* computed for it: all ranks see the same vectors.
WholeVectors ==
  \A r \in Ranks : \A k \in 1..Len(used[r]) :
    used[r][k] = [s \in Ranks |-> {k}]

Rendezvous == INSTANCE GatherRendezvous
                WITH entered <- [r \in Ranks |-> cur[r].gid]

\* The protocol implements the rendezvous ...
ImplementsRendezvous ==
  Rendezvous!RendezvousInit
  /\ [][Rendezvous!RendezvousNext]_(Rendezvous!RendezvousVars)

\* ... and, datagrams lost or not, no rank waits in a gather for ever.
ImplementsFairRendezvous == Rendezvous!RendezvousSpec
=============================================================================
