---------------------------- MODULE GatherProofs ----------------------------
(***************************************************************************)
(* Proofs about TpGather, for any number of ranks, parts and gathers.      *)
(*                                                                         *)
(* The properties rest on one another, so they are proved together.  A     *)
(* rank enters a gather only after it left the one before, which takes a   *)
(* part from every other rank, which had then entered it (InStep); hence   *)
(* no rank is two gathers ahead, hence a rank's last two slices and its    *)
(* two buffers are enough.  Datagrams only ever carry slices that were     *)
(* really computed (TrueNet), and go only to the buffer of their gather,   *)
(* so what is marked as arrived is right.                                  *)
(***************************************************************************)
EXTENDS TpGather, GatherPort, TLAPS

\* Slice w is what a rank that has entered n gathers computed for one of them.
Computed(n, w) == /\ w.gid \in 1..NGathers /\ w.gid <= n
                  /\ w.data = w.gid /\ w.vec = VecAt[w.gid]

Numbered ==
  \A r \in Ranks :
    /\ cur[r].gid <= NGathers /\ nxt[r].gid = cur[r].gid + 1
    /\ cur[r].gid > 0 => cur[r].vec = VecAt[cur[r].gid]

Kept ==
  \A r \in Ranks :
    /\ mine[r].gid = cur[r].gid
    /\ mine[r].gid > 0 => Computed(cur[r].gid, mine[r])
                       /\ prev[r].gid = cur[r].gid - 1
    /\ prev[r].gid > 0 => Computed(cur[r].gid, prev[r])

InStep ==
  \A r, s \in Ranks :
    /\ phase[r] = "gather" => cur[r].gid > 0 /\ cur[s].gid + 1 >= cur[r].gid
    /\ phase[r] # "gather" => cur[s].gid >= cur[r].gid

TrueNet == \A m \in net : m.type = "SLICE" => Computed(cur[m.src].gid, m)

OwnParts ==
  \A r \in Ranks : \A p \in 0..(PMAX - 1) : cur[r].v[<<r, p>>] = cur[r].gid

Counted ==
  \A r \in Ranks :
    Len(used[r]) = IF phase[r] = "gather" THEN cur[r].gid - 1 ELSE cur[r].gid

IInv == /\ TypeOK /\ Numbered /\ Kept /\ InStep /\ TrueNet
        /\ PartsAreFresh /\ EarlyPartsAgree /\ OwnParts
        /\ Counted /\ WholeVectors

-----------------------------------------------------------------------------
(* What the operators give *)

LEMMA RankFacts ==
  /\ \A r \in Ranks : r \in Nat
  /\ NGathers \in Nat /\ PMAX \in Nat /\ PMAX > 0
  /\ \A k \in 1..NGathers : VecAt[k] \in Vecs
  /\ \A r \in Ranks, v \in Vecs : Parts[r][v] \in 1..PMAX
BY GatherAssumption DEF Ranks

\* What is sent of a slice that was computed is a computed slice.
LEMMA SendFacts ==
  ASSUME NEW r \in Ranks, NEW s \in Ranks, NEW n, NEW w, Computed(n, w),
         NEW m \in send_slice(r, s, w)
  PROVE  m \in SliceMsgs /\ m.src = r /\ Computed(n, m)
<1>1. PICK p \in 0..(Parts[r][w.vec] - 1) :
        m = [type |-> "SLICE", gid |-> w.gid, vec |-> w.vec, src |-> r,
             dst |-> s, part |-> p, data |-> w.data]
  BY DEF send_slice
<1>2. w.gid \in 1..NGathers /\ w.vec \in Vecs /\ w.data \in Nat
  BY RankFacts DEF Computed
<1>3. p \in 0..(PMAX - 1)
  BY <1>2, RankFacts
<1>4. m \in SliceMsgs
  BY <1>1, <1>2, <1>3 DEF SliceMsgs
<1>5. m.src = r /\ Computed(n, m)
  BY <1>1 DEF Computed
<1> QED BY <1>4, <1>5

\* A part is stored whole, at its own place, or not at all.
LEMMA StoreFacts ==
  ASSUME NEW g \in Gathers, NEW m \in SliceMsgs
  PROVE  /\ store(g, m) \in Gathers /\ store(g, m).gid = g.gid
         /\ \/ store(g, m) = g
            \/ /\ store(g, m).vec = m.vec
               /\ store(g, m).got = g.got \cup {<<m.src, m.part>>}
               /\ store(g, m).v = [g.v EXCEPT ![<<m.src, m.part>>] = m.data]
<1>1. /\ g.gid \in Nat /\ g.vec \in 0..4 /\ g.got \in SUBSET Slots
      /\ g.v \in [Slots -> Nat]
  BY DEF Gathers
<1>2. g = [gid |-> g.gid, vec |-> g.vec, got |-> g.got, v |-> g.v]
  BY DEF Gathers
<1>3. /\ m.vec \in 0..4 /\ m.data \in Nat /\ <<m.src, m.part>> \in Slots
  BY DEF SliceMsgs, Slots, Vecs
<1>4. CASE g.vec \in {0, m.vec}
  <2>1. store(g, m) =
          [gid |-> g.gid, vec |-> m.vec, got |-> g.got \cup {<<m.src, m.part>>},
           v |-> [g.v EXCEPT ![<<m.src, m.part>>] = m.data]]
    BY <1>2, <1>4 DEF store
  <2>2. [g.v EXCEPT ![<<m.src, m.part>>] = m.data] \in [Slots -> Nat]
    BY <1>1, <1>3
  <2>3. g.got \cup {<<m.src, m.part>>} \in SUBSET Slots
    BY <1>1, <1>3
  <2> QED BY <1>1, <1>3, <2>1, <2>2, <2>3 DEF Gathers
<1>5. CASE g.vec \notin {0, m.vec}
  BY <1>5 DEF store
<1> QED BY <1>4, <1>5

\* The messages of a step are typed by their type.
LEMMA MessageTypes ==
  /\ \A m \in SliceMsgs : m.type = "SLICE" /\ m.src \in Ranks /\ m.dst \in Ranks
  /\ \A m \in AskMsgs : m.type = "ASK" /\ m.src \in Ranks /\ m.dst \in Ranks
BY DEF SliceMsgs, AskMsgs

LEMMA InitIInv == Init => IInv
<1> SUFFICES ASSUME Init PROVE IInv
  OBVIOUS
<1>1. /\ phase = [r \in Ranks |-> "core"] /\ net = {} /\ lost = 0
      /\ used = [r \in Ranks |-> <<>>]
      /\ mine = [r \in Ranks |-> [gid |-> 0, vec |-> 0, data |-> 0]]
      /\ prev = [r \in Ranks |-> [gid |-> 0, vec |-> 0, data |-> 0]]
  BY DEF Init
<1>2. /\ cur = [r \in Ranks |-> [gid |-> 0, vec |-> 0, got |-> {},
                                 v |-> [x \in Slots |-> 0]]]
      /\ nxt = [r \in Ranks |-> [gid |-> 1, vec |-> 0, got |-> {},
                                 v |-> [x \in Slots |-> 0]]]
  BY DEF Init
<1>3. [x \in Slots |-> 0] \in [Slots -> Nat]
  OBVIOUS
<1>4. TypeOK
  BY <1>1, <1>2, <1>3, GatherAssumption DEF TypeOK, Gathers, OwnSlices
<1>5. Numbered /\ Kept /\ InStep /\ TrueNet /\ EarlyPartsAgree
  BY <1>1, <1>2, GatherAssumption
  DEF Numbered, Kept, InStep, TrueNet, EarlyPartsAgree
<1>6. PartsAreFresh
  BY <1>1, <1>2 DEF PartsAreFresh
<1>7. OwnParts
  BY <1>2 DEF OwnParts, Slots
<1>8. Counted /\ WholeVectors
  BY <1>1, <1>2 DEF Counted, WholeVectors
<1> QED BY <1>4, <1>5, <1>6, <1>7, <1>8 DEF IInv

-----------------------------------------------------------------------------
(* Each action keeps the invariant *)

\* A rank computes more and more: what was computed stays computed.
LEMMA ComputedStays ==
  ASSUME NEW n \in Nat, NEW m \in Nat, n <= m, NEW w, Computed(n, w)
  PROVE  Computed(m, w)
BY RankFacts DEF Computed

LEMMA GatherKeeps == ASSUME IInv, NEW r \in Ranks, gather(r) PROVE IInv'
<1> DEFINE k == nxt[r].gid
           w == [gid |-> k, vec |-> VecAt[k], data |-> k]
           new == cur'[r]
<1>1. /\ k \in 1..NGathers /\ k = cur[r].gid + 1 /\ VecAt[k] \in Vecs
      /\ cur[r].gid \in Nat
  <2>1. cur[r].gid \in Nat
    BY DEF IInv, TypeOK, Gathers
  <2>2. k = cur[r].gid + 1 /\ cur[r].gid < NGathers
    BY DEF IInv, Numbered, gather
  <2> QED BY <2>1, <2>2, RankFacts
<1>2. /\ cur[r] \in Gathers /\ nxt[r] \in Gathers
      /\ cur[r].v \in [Slots -> Nat] /\ nxt[r].v \in [Slots -> Nat]
      /\ nxt[r].got \in SUBSET Slots
  BY DEF IInv, TypeOK, Gathers
<1>3. /\ phase[r] = "core"
      /\ phase' = [phase EXCEPT ![r] = "gather"]
      /\ prev' = [prev EXCEPT ![r] = mine[r]]
      /\ mine' = [mine EXCEPT ![r] = w]
      /\ net' = net \cup UNION {send_slice(r, s, w) : s \in Others(r)}
      /\ lost' = lost /\ used' = used
  BY DEF gather, Saved
<1>4. nxt' = [nxt EXCEPT ![r] = Cleared(cur[r], k + 1)]
  BY DEF gather
<1>5. nxt' = [nxt EXCEPT ![r] = [gid |-> k + 1, vec |-> 0, got |-> {},
                                 v |-> cur[r].v]]
  BY <1>4 DEF Cleared
<1>6. /\ cur' = [cur EXCEPT ![r] = new] /\ new.gid = k /\ new.vec = VecAt[k]
      /\ new.got \in {{}, nxt[r].got}
      /\ new.v = [x \in Slots |-> IF x[1] = r THEN k ELSE nxt[r].v[x]]
      /\ new = [gid |-> k, vec |-> VecAt[k], got |-> new.got, v |-> new.v]
  <2>1. cur \in [Ranks -> Gathers]
    BY DEF IInv, TypeOK
  <2>2. PICK got \in {{}, nxt[r].got} :
          cur' = [cur EXCEPT ![r] =
            [gid |-> k, vec |-> VecAt[k], got |-> got,
             v |-> [x \in Slots |-> IF x[1] = r THEN k ELSE nxt[r].v[x]]]]
    <3>1. CASE nxt[r].vec \in {0, VecAt[k]}
      BY <3>1 DEF gather
    <3>2. CASE nxt[r].vec \notin {0, VecAt[k]}
      BY <3>2 DEF gather
    <3> QED BY <3>1, <3>2
  <2> QED BY <2>1, <2>2
<1> HIDE DEF k, new
<1>7. new.v \in [Slots -> Nat] /\ new.got \in SUBSET Slots /\ k \in Nat
      /\ k + 1 \in Nat /\ VecAt[k] \in 0..4
  BY <1>1, <1>2, <1>6 DEF Vecs
<1>8. new \in Gathers
  BY <1>6, <1>7 DEF Gathers
<1>9. /\ \A s \in Ranks : s # r => cur'[s] = cur[s] /\ nxt'[s] = nxt[s]
           /\ phase'[s] = phase[s] /\ mine'[s] = mine[s] /\ prev'[s] = prev[s]
      /\ cur'[r] = new /\ phase'[r] = "gather" /\ mine'[r] = w
      /\ prev'[r] = mine[r] /\ nxt'[r].gid = k + 1 /\ nxt'[r].vec = 0
      /\ nxt'[r].got = {} /\ nxt'[r].v = cur[r].v
  BY <1>3, <1>5, <1>6 DEF IInv, TypeOK
<1>10. \A s \in Ranks : cur[s].gid \in Nat /\ cur'[s].gid \in Nat
                        /\ cur[s].gid <= cur'[s].gid
  <2>1. \A s \in Ranks : cur[s].gid \in Nat
    BY DEF IInv, TypeOK, Gathers
  <2> QED BY <1>1, <1>6, <1>9, <2>1
<1>11. Computed(cur'[r].gid, w)
  BY <1>1, <1>6, <1>9 DEF Computed
<1>12. \A m \in net' \ net : m \in SliceMsgs /\ Computed(cur'[m.src].gid, m)
  <2> SUFFICES ASSUME NEW m \in net', m \notin net
               PROVE  m \in SliceMsgs /\ Computed(cur'[m.src].gid, m)
    OBVIOUS
  <2>1. PICK s \in Others(r) : m \in send_slice(r, s, w)
    BY <1>3
  <2>2. s \in Ranks
    BY DEF Others
  <2>3. m \in SliceMsgs /\ m.src = r /\ Computed(cur'[r].gid, m)
    <3> HIDE DEF w
    <3> QED BY <1>11, <2>1, <2>2, SendFacts
  <2> QED BY <2>3
<1>13. TypeOK'
  <2>1. w \in OwnSlices
    BY <1>7 DEF OwnSlices
  <2>2. nxt'[r] \in Gathers /\ nxt' \in [Ranks -> Gathers]
    BY <1>2, <1>5, <1>7 DEF Gathers, IInv, TypeOK
  <2>3. cur' \in [Ranks -> Gathers]
    BY <1>6, <1>8 DEF IInv, TypeOK
  <2>4. net' \subseteq SliceMsgs \cup AskMsgs
    BY <1>12 DEF IInv, TypeOK
  <2>5. /\ phase' \in [Ranks -> {"core", "gather", "off"}]
        /\ mine' \in [Ranks -> OwnSlices] /\ prev' \in [Ranks -> OwnSlices]
    BY <1>3, <2>1 DEF IInv, TypeOK
  <2> QED BY <1>3, <2>2, <2>3, <2>4, <2>5 DEF IInv, TypeOK
<1>14. Numbered'
  BY <1>1, <1>6, <1>9 DEF IInv, Numbered
<1>15. Kept'
  <2> SUFFICES ASSUME NEW s \in Ranks
      PROVE /\ mine'[s].gid = cur'[s].gid
            /\ mine'[s].gid > 0 => Computed(cur'[s].gid, mine'[s])
                                   /\ prev'[s].gid = cur'[s].gid - 1
            /\ prev'[s].gid > 0 => Computed(cur'[s].gid, prev'[s])
    BY DEF Kept
  <2>1. CASE s = r
    <3>1. mine[r].gid = cur[r].gid
          /\ (mine[r].gid > 0 => Computed(cur[r].gid, mine[r]))
      BY DEF IInv, Kept
    <3>2. mine[r].gid > 0 => Computed(cur'[r].gid, mine[r])
      BY <1>10, <3>1, ComputedStays
    <3>3. prev'[r].gid > 0 => Computed(cur'[r].gid, prev'[r])
      BY <1>9, <3>2
    <3>4. mine'[r].gid = cur'[r].gid /\ prev'[r].gid = cur'[r].gid - 1
      BY <1>1, <1>6, <1>9, <3>1
    <3>5. Computed(cur'[r].gid, mine'[r])
      BY <1>9, <1>11
    <3> QED BY <2>1, <3>3, <3>4, <3>5
  <2>2. CASE s # r
    <3>1. mine'[s] = mine[s] /\ prev'[s] = prev[s] /\ cur'[s] = cur[s]
      BY <1>9, <2>2
    <3>2. /\ mine[s].gid = cur[s].gid
          /\ mine[s].gid > 0 => Computed(cur[s].gid, mine[s])
                                /\ prev[s].gid = cur[s].gid - 1
          /\ prev[s].gid > 0 => Computed(cur[s].gid, prev[s])
      BY DEF IInv, Kept
    <3> QED BY <3>1, <3>2
  <2> QED BY <2>1, <2>2
<1>16. InStep'
  <2> SUFFICES ASSUME NEW s \in Ranks, NEW t \in Ranks
      PROVE /\ phase'[s] = "gather" => /\ cur'[s].gid > 0
                                       /\ cur'[t].gid + 1 >= cur'[s].gid
            /\ phase'[s] # "gather" => cur'[t].gid >= cur'[s].gid
    BY DEF InStep
  <2>1. /\ phase[s] = "gather" => cur[s].gid > 0 /\ cur[t].gid + 1 >= cur[s].gid
        /\ phase[s] # "gather" => cur[t].gid >= cur[s].gid
        /\ cur[t].gid >= cur[r].gid
    BY <1>3 DEF IInv, InStep
  <2>2. CASE s = r
    BY <1>1, <1>6, <1>9, <1>10, <2>1, <2>2
  <2>3. CASE s # r
    BY <1>9, <1>10, <2>1, <2>3
  <2> QED BY <2>2, <2>3
<1>17. TrueNet'
  <2> SUFFICES ASSUME NEW m \in net', m.type = "SLICE"
               PROVE  Computed(cur'[m.src].gid, m)
    BY DEF TrueNet
  <2>1. CASE m \in net
    <3>1. Computed(cur[m.src].gid, m) /\ m.src \in Ranks
      BY <2>1, MessageTypes DEF IInv, TrueNet, TypeOK
    <3> QED BY <1>10, <3>1, ComputedStays
  <2> QED BY <1>12, <2>1
<1>18. PartsAreFresh'
  <2> SUFFICES ASSUME NEW s \in Ranks, NEW g \in {cur'[s], nxt'[s]},
                      NEW x \in g.got
               PROVE  g.v[x] = g.gid /\ cur'[x[1]].gid >= g.gid
    BY DEF PartsAreFresh
  <2>1. \A h \in {cur[s], nxt[s]} : \A y \in h.got :
          /\ h.v[y] = h.gid /\ cur[y[1]].gid >= h.gid
          /\ y \in Slots /\ y[1] \in Ranks /\ h.gid \in Nat
    <3> SUFFICES ASSUME NEW h \in {cur[s], nxt[s]}, NEW y \in h.got
                 PROVE  /\ h.v[y] = h.gid /\ cur[y[1]].gid >= h.gid
                        /\ y \in Slots /\ y[1] \in Ranks /\ h.gid \in Nat
      OBVIOUS
    <3>1. h.v[y] = h.gid /\ cur[y[1]].gid >= h.gid
      BY DEF IInv, PartsAreFresh
    <3>2. h \in Gathers
      BY DEF IInv, TypeOK
    <3>3. y \in Slots /\ h.gid \in Nat
      BY <3>2 DEF Gathers
    <3>4. y[1] \in Ranks
      BY <3>3 DEF Slots
    <3> QED BY <3>1, <3>3, <3>4
  <2>2. CASE s # r
    BY <1>9, <1>10, <2>1, <2>2
  <2>3. CASE s = r /\ g = cur'[s]
    <3>1. x \in nxt[r].got /\ x \in Slots
      BY <1>6, <1>7, <1>9, <2>3
    <3>2. nxt[r].v[x] = k /\ cur[x[1]].gid >= k /\ x[1] \in Ranks
      BY <2>1, <2>3, <3>1 DEF k
    <3>3. g.gid = k /\ g.v[x] \in {k, nxt[r].v[x]}
      BY <1>6, <1>9, <2>3, <3>1
    <3> QED BY <1>1, <1>10, <3>2, <3>3
  <2>4. CASE s = r /\ g = nxt'[s]
    BY <1>9, <2>4
  <2> QED BY <2>2, <2>3, <2>4
<1>19. EarlyPartsAgree'
  BY <1>6, <1>9 DEF IInv, EarlyPartsAgree
<1>20. OwnParts'
  <2> SUFFICES ASSUME NEW s \in Ranks, NEW p \in 0..(PMAX - 1)
               PROVE  cur'[s].v[<<s, p>>] = cur'[s].gid
    BY DEF OwnParts
  <2>1. <<s, p>> \in Slots /\ <<s, p>>[1] = s
    BY DEF Slots
  <2>2. CASE s = r
    BY <1>6, <1>9, <2>1, <2>2
  <2>3. CASE s # r
    BY <1>9, <2>3 DEF IInv, OwnParts
  <2> QED BY <2>2, <2>3
<1>21. Counted'
  <2> SUFFICES ASSUME NEW s \in Ranks
      PROVE Len(used'[s]) = IF phase'[s] = "gather" THEN cur'[s].gid - 1
                                                    ELSE cur'[s].gid
    BY DEF Counted
  <2>1. Len(used[s]) = IF phase[s] = "gather" THEN cur[s].gid - 1
                                              ELSE cur[s].gid
    BY DEF IInv, Counted
  <2>2. CASE s = r
    <3>1. Len(used'[s]) = cur[r].gid /\ phase'[s] = "gather"
      BY <1>3, <1>9, <2>1, <2>2
    <3>2. cur[r].gid = cur'[s].gid - 1
      BY <1>1, <1>6, <1>9, <2>2
    <3> QED BY <3>1, <3>2
  <2>3. CASE s # r
    BY <1>3, <1>9, <2>1, <2>3
  <2> QED BY <2>2, <2>3
<1>22. WholeVectors'
  BY <1>3 DEF IInv, WholeVectors
<1> QED BY <1>13, <1>14, <1>15, <1>16, <1>17, <1>18, <1>19, <1>20, <1>21, <1>22
        DEF IInv

\* The core is given the right vector: each of the other ranks has at least
\* one part, all its parts are in, and they are fresh.
LEMMA LeaveKeeps == ASSUME IInv, NEW r \in Ranks, leave(r) PROVE IInv'
<1> DEFINE k == cur[r].gid
           got(s) == {cur[r].v[<<s, p>>] : p \in 0..(Parts[s][cur[r].vec] - 1)}
<1>1. /\ phase[r] = "gather" /\ \A s \in Others(r) : complete(cur[r], s)
      /\ used' = [used EXCEPT ![r] = Append(used[r], [s \in Ranks |-> got(s)])]
      /\ phase' = [phase EXCEPT ![r] = "core"]
      /\ UNCHANGED <<cur, nxt, mine, prev, net, lost>>
  BY DEF leave
<1>2. /\ k \in 1..NGathers /\ cur[r].vec \in Vecs
      /\ \A s \in Ranks : Parts[s][cur[r].vec] \in 1..PMAX
  <2>1. k \in Nat /\ k > 0 /\ k <= NGathers /\ cur[r].vec = VecAt[k]
    BY <1>1 DEF IInv, TypeOK, Gathers, InStep, Numbered
  <2> QED BY <2>1, RankFacts
<1>3. \A s \in Ranks : got(s) = {k} /\ cur[s].gid >= k
  <2> SUFFICES ASSUME NEW s \in Ranks PROVE got(s) = {k} /\ cur[s].gid >= k
    OBVIOUS
  <2>0. 0 \in 0..(Parts[s][cur[r].vec] - 1)
        /\ 0..(Parts[s][cur[r].vec] - 1) \subseteq 0..(PMAX - 1)
    BY <1>2, RankFacts
  <2>1. \A p \in 0..(Parts[s][cur[r].vec] - 1) :
          cur[r].v[<<s, p>>] = k /\ cur[s].gid >= k
    <3>1. CASE s = r
      BY <1>2, <2>0, <3>1 DEF IInv, OwnParts
    <3>2. CASE s # r
      <4> SUFFICES ASSUME NEW p \in 0..(Parts[s][cur[r].vec] - 1)
                   PROVE  cur[r].v[<<s, p>>] = k /\ cur[s].gid >= k
        OBVIOUS
      <4>1. <<s, p>> \in cur[r].got
        BY <1>1, <3>2 DEF complete, Others
      <4>2. <<s, p>>[1] = s
        OBVIOUS
      <4> QED BY <4>1, <4>2 DEF IInv, PartsAreFresh
    <3> QED BY <3>1, <3>2
  <2> QED BY <2>0, <2>1
<1>4. [s \in Ranks |-> got(s)] = [s \in Ranks |-> {k}]
  BY <1>3
<1> HIDE DEF k, got
<1>5. used' = [used EXCEPT ![r] = Append(used[r], [s \in Ranks |-> {k}])]
  BY <1>1, <1>4
<1>6. /\ used \in [Ranks -> Seq([Ranks -> SUBSET Nat])]
      /\ [s \in Ranks |-> {k}] \in [Ranks -> SUBSET Nat]
  BY <1>2 DEF IInv, TypeOK
<1>7. TypeOK'
  <2>1. used' \in [Ranks -> Seq([Ranks -> SUBSET Nat])]
    BY <1>5, <1>6
  <2> QED BY <1>1, <2>1 DEF IInv, TypeOK
<1>8. Numbered' /\ Kept' /\ TrueNet' /\ PartsAreFresh' /\ EarlyPartsAgree'
      /\ OwnParts'
  BY <1>1 DEF IInv, Numbered, Kept, TrueNet, PartsAreFresh, EarlyPartsAgree,
              OwnParts
<1>9. InStep'
  <2>1. \A s \in Ranks : phase'[s] = IF s = r THEN "core" ELSE phase[s]
    BY <1>1 DEF IInv, TypeOK
  <2> QED BY <1>1, <1>3, <2>1 DEF IInv, InStep, k
<1>10. Counted'
  <2> SUFFICES ASSUME NEW s \in Ranks
      PROVE Len(used'[s]) = IF phase'[s] = "gather" THEN cur[s].gid - 1
                                                    ELSE cur[s].gid
    BY <1>1 DEF Counted
  <2>1. Len(used[s]) = IF phase[s] = "gather" THEN cur[s].gid - 1
                                              ELSE cur[s].gid
    BY DEF IInv, Counted
  <2>2. CASE s = r
    <3>1. used'[s] = Append(used[s], [t \in Ranks |-> {k}])
          /\ used[s] \in Seq([Ranks -> SUBSET Nat]) /\ phase'[s] = "core"
      BY <1>1, <1>5, <1>6, <2>2 DEF IInv, TypeOK
    <3>2. Len(used'[s]) = Len(used[s]) + 1
      BY <1>6, <3>1
    <3>3. Len(used[s]) = k - 1
      BY <1>1, <2>1, <2>2 DEF k
    <3>4. Len(used'[s]) = k
      BY <1>2, <3>2, <3>3
    <3> QED BY <2>2, <3>1, <3>4 DEF k
  <2>3. CASE s # r
    <3>1. used'[s] = used[s] /\ phase'[s] = phase[s]
      BY <1>1, <1>5, <1>6, <2>3 DEF IInv, TypeOK
    <3> QED BY <2>1, <3>1
  <2> QED BY <2>2, <2>3
<1>11. WholeVectors'
  <2> SUFFICES ASSUME NEW s \in Ranks, NEW n \in 1..Len(used'[s])
               PROVE  used'[s][n] = [t \in Ranks |-> {n}]
    BY DEF WholeVectors
  <2>1. \A i \in 1..Len(used[s]) : used[s][i] = [t \in Ranks |-> {i}]
    BY DEF IInv, WholeVectors
  <2>2. CASE s = r
    <3>1. used'[s] = Append(used[s], [t \in Ranks |-> {k}])
          /\ used[s] \in Seq([Ranks -> SUBSET Nat])
      BY <1>5, <1>6, <2>2
    <3>2. Len(used[s]) = k - 1
      BY <1>1, <2>2 DEF IInv, Counted, k
    <3>3. CASE n = k
      BY <1>2, <1>6, <3>1, <3>2, <3>3
    <3>4. CASE n # k
      <4>1. Len(used'[s]) = k
        BY <1>2, <1>6, <3>1, <3>2
      <4>2. n \in 1..Len(used[s])
        BY <1>2, <3>2, <3>4, <4>1
      <4>3. used'[s][n] = used[s][n]
        BY <1>6, <3>1, <4>2
      <4> QED BY <2>1, <4>2, <4>3
    <3> QED BY <3>3, <3>4
  <2>3. CASE s # r
    <3>1. used'[s] = used[s]
      BY <1>5, <1>6, <2>3
    <3> QED BY <2>1, <3>1
  <2> QED BY <2>2, <2>3
<1> QED BY <1>7, <1>8, <1>9, <1>10, <1>11 DEF IInv

\* A step that only touches the network, and adds to it nothing but requests
\* and computed slices, disturbs nothing; nor does a rank that ends.
LEMMA NetworkKeeps ==
  ASSUME IInv, UNCHANGED <<cur, nxt, mine, prev, used>>,
         phase' \in [Ranks -> {"core", "gather", "off"}],
         \A r \in Ranks : (phase'[r] = "gather") <=> (phase[r] = "gather"),
         \A m \in net' : \/ m \in net \/ m \in AskMsgs
                         \/ m \in SliceMsgs /\ Computed(cur[m.src].gid, m),
         lost' \in 0..MaxLost
  PROVE  IInv'
<1>1. TypeOK'
  BY DEF IInv, TypeOK
<1>2. Numbered' /\ Kept' /\ PartsAreFresh' /\ EarlyPartsAgree'
      /\ OwnParts' /\ WholeVectors'
  BY DEF IInv, Numbered, Kept, PartsAreFresh, EarlyPartsAgree, OwnParts,
         WholeVectors
<1>3. InStep' /\ Counted'
  BY DEF IInv, InStep, Counted
<1>4. TrueNet'
  BY MessageTypes DEF IInv, TrueNet
<1> QED BY <1>1, <1>2, <1>3, <1>4 DEF IInv

LEMMA AskKeeps == ASSUME IInv, NEW r \in Ranks, ask(r) PROVE IInv'
<1>1. cur[r].gid \in 1..NGathers
  <2>1. cur[r].gid \in Nat /\ cur[r].gid > 0 /\ cur[r].gid <= NGathers
    BY DEF ask, IInv, TypeOK, Gathers, InStep, Numbered
  <2> QED BY <2>1, RankFacts
<1>2. \A m \in net' : m \in net \/ m \in AskMsgs
  BY <1>1 DEF ask, AskMsgs, Others
<1> QED BY <1>2, NetworkKeeps DEF ask, IInv, TypeOK

LEMMA RxAskKeeps ==
  ASSUME IInv, NEW m \in AskMsgs, rx_ask(m) PROVE IInv'
<1> DEFINE r == m.dst
<1>1. r \in Ranks /\ m.src \in Ranks /\ m.gid > 0
  BY DEF AskMsgs
<1>2. \A x \in answer(r, m) : x \in SliceMsgs /\ Computed(cur[x.src].gid, x)
  <2>1. mine[r].gid > 0 => Computed(cur[r].gid, mine[r])
    BY <1>1 DEF IInv, Kept
  <2>2. prev[r].gid > 0 => Computed(cur[r].gid, prev[r])
    BY <1>1 DEF IInv, Kept
  <2>3. CASE m.gid = mine[r].gid
    BY <1>1, <2>1, <2>3, SendFacts DEF answer
  <2>4. CASE m.gid # mine[r].gid /\ m.gid = prev[r].gid
    BY <1>1, <2>2, <2>4, SendFacts DEF answer
  <2>5. CASE m.gid # mine[r].gid /\ m.gid # prev[r].gid
    BY <2>5 DEF answer
  <2> QED BY <2>3, <2>4, <2>5
<1>3. \A x \in net' : \/ x \in net
                      \/ x \in SliceMsgs /\ Computed(cur[x.src].gid, x)
  BY <1>2 DEF rx_ask
<1> QED BY <1>3, NetworkKeeps DEF rx_ask, IInv, TypeOK

\* A slice goes to the buffer of its own gather, or nowhere.
LEMMA RxSliceKeeps ==
  ASSUME IInv, NEW m \in SliceMsgs, m \in net, rx_slice(m) PROVE IInv'
<1> DEFINE r == m.dst
           x == <<m.src, m.part>>
<1>1. /\ r \in Ranks /\ m.src \in Ranks /\ x \in Slots /\ x[1] = m.src
      /\ m.gid \in 1..NGathers /\ m.vec \in Vecs
  BY DEF SliceMsgs, Slots
<1>2. m.data = m.gid /\ m.vec = VecAt[m.gid] /\ cur[m.src].gid >= m.gid
      /\ cur[m.src].gid \in Nat
  BY <1>1, MessageTypes DEF IInv, TrueNet, Computed, TypeOK, Gathers
<1>3. cur[r] \in Gathers /\ nxt[r] \in Gathers
      /\ nxt[r].gid = cur[r].gid + 1 /\ cur[r].gid \in Nat
  BY <1>1 DEF IInv, TypeOK, Numbered, Gathers
<1>4. /\ UNCHANGED <<phase, mine, prev, net, lost, used>>
      /\ \/ /\ m.gid = cur[r].gid /\ nxt' = nxt
            /\ cur' = [cur EXCEPT ![r] = store(cur[r], m)]
         \/ /\ m.gid = nxt[r].gid /\ cur' = cur
            /\ nxt' = [nxt EXCEPT ![r] = store(nxt[r], m)]
         \/ cur' = cur /\ nxt' = nxt
  <2>1. CASE m.gid = cur[r].gid
    BY <2>1 DEF rx_slice
  <2>2. CASE m.gid # cur[r].gid
    BY <2>2 DEF rx_slice
  <2> QED BY <2>1, <2>2
<1> HIDE DEF x
\* Either buffer, before and after: the same, or with the part stored in it.
<1>5. \A s \in Ranks :
        /\ cur'[s] \in Gathers /\ cur'[s].gid = cur[s].gid
        /\ \/ cur'[s] = cur[s]
           \/ /\ m.gid = cur[s].gid /\ s = r /\ cur'[s].vec = m.vec
              /\ cur'[s].got = cur[s].got \cup {x}
              /\ cur'[s].v = [cur[s].v EXCEPT ![x] = m.data]
  <2>1. CASE cur' = cur
    BY <2>1 DEF IInv, TypeOK
  <2>2. CASE m.gid = cur[r].gid /\ cur' = [cur EXCEPT ![r] = store(cur[r], m)]
    <3>1. /\ cur'[r] \in Gathers /\ cur'[r].gid = cur[r].gid
          /\ \/ cur'[r] = cur[r]
             \/ /\ cur'[r].vec = m.vec
                /\ cur'[r].got = cur[r].got \cup {x}
                /\ cur'[r].v = [cur[r].v EXCEPT ![x] = m.data]
      <4>1. cur'[r] = store(cur[r], m)
        BY <1>1, <2>2 DEF IInv, TypeOK
      <4> QED BY <1>3, <4>1, StoreFacts DEF x
    <3>2. \A s \in Ranks : s # r => cur'[s] = cur[s] /\ cur[s] \in Gathers
      BY <2>2 DEF IInv, TypeOK
    <3> QED BY <2>2, <3>1, <3>2
  <2> QED BY <1>4, <2>1, <2>2
<1>6. \A s \in Ranks :
        /\ nxt'[s] \in Gathers /\ nxt'[s].gid = nxt[s].gid
        /\ \/ nxt'[s] = nxt[s]
           \/ /\ m.gid = nxt[s].gid /\ s = r /\ nxt'[s].vec = m.vec
              /\ nxt'[s].got = nxt[s].got \cup {x}
              /\ nxt'[s].v = [nxt[s].v EXCEPT ![x] = m.data]
  <2>1. CASE nxt' = nxt
    BY <2>1 DEF IInv, TypeOK
  <2>2. CASE m.gid = nxt[r].gid /\ nxt' = [nxt EXCEPT ![r] = store(nxt[r], m)]
    <3>1. /\ nxt'[r] \in Gathers /\ nxt'[r].gid = nxt[r].gid
          /\ \/ nxt'[r] = nxt[r]
             \/ /\ nxt'[r].vec = m.vec
                /\ nxt'[r].got = nxt[r].got \cup {x}
                /\ nxt'[r].v = [nxt[r].v EXCEPT ![x] = m.data]
      <4>1. nxt'[r] = store(nxt[r], m)
        BY <1>1, <2>2 DEF IInv, TypeOK
      <4> QED BY <1>3, <4>1, StoreFacts DEF x
    <3>2. \A s \in Ranks : s # r => nxt'[s] = nxt[s] /\ nxt[s] \in Gathers
      BY <2>2 DEF IInv, TypeOK
    <3> QED BY <2>2, <3>1, <3>2
  <2> QED BY <1>4, <2>1, <2>2
<1>7. TypeOK'
  <2>1. cur' \in [Ranks -> Gathers] /\ nxt' \in [Ranks -> Gathers]
    BY <1>4, <1>5, <1>6 DEF IInv, TypeOK
  <2> QED BY <1>4, <2>1 DEF IInv, TypeOK
<1>8. Numbered'
  <2> SUFFICES ASSUME NEW s \in Ranks
      PROVE /\ cur'[s].gid <= NGathers /\ nxt'[s].gid = cur'[s].gid + 1
            /\ cur'[s].gid > 0 => cur'[s].vec = VecAt[cur'[s].gid]
    BY DEF Numbered
  <2>1. /\ cur[s].gid <= NGathers /\ nxt[s].gid = cur[s].gid + 1
        /\ cur[s].gid > 0 => cur[s].vec = VecAt[cur[s].gid]
    BY DEF IInv, Numbered
  <2>2. /\ cur'[s].gid = cur[s].gid /\ nxt'[s].gid = nxt[s].gid
        /\ \/ cur'[s].vec = cur[s].vec
           \/ m.gid = cur[s].gid /\ cur'[s].vec = m.vec
    BY <1>5, <1>6
  <2> QED BY <1>2, <2>1, <2>2
<1>9. Kept' /\ InStep' /\ Counted' /\ WholeVectors' /\ TrueNet'
  <2>1. Kept'
    BY <1>4, <1>5 DEF IInv, Kept
  <2>2. InStep'
    BY <1>4, <1>5 DEF IInv, InStep
  <2>3. Counted'
    BY <1>4, <1>5 DEF IInv, Counted
  <2>4. WholeVectors'
    BY <1>4 DEF IInv, WholeVectors
  <2>5. TrueNet'
    BY <1>4, <1>5, MessageTypes DEF IInv, TrueNet, TypeOK
  <2> QED BY <2>1, <2>2, <2>3, <2>4, <2>5
<1>10. PartsAreFresh'
  <2> SUFFICES ASSUME NEW s \in Ranks, NEW g \in {cur'[s], nxt'[s]},
                      NEW y \in g.got
               PROVE  g.v[y] = g.gid /\ cur'[y[1]].gid >= g.gid
    BY DEF PartsAreFresh
  <2>1. PICK h \in {cur[s], nxt[s]} :
          /\ g.gid = h.gid
          /\ \/ g = h
             \/ /\ m.gid = h.gid /\ g.got = h.got \cup {x}
                /\ g.v = [h.v EXCEPT ![x] = m.data]
    BY <1>5, <1>6
  <2>2. h \in Gathers /\ h.v \in [Slots -> Nat] /\ h.got \in SUBSET Slots
    BY DEF IInv, TypeOK, Gathers
  <2>3. y \in Slots /\ y[1] \in Ranks /\ cur'[y[1]].gid = cur[y[1]].gid
    <3>1. y \in Slots
      BY <1>1, <2>1, <2>2
    <3> QED BY <1>5, <3>1 DEF Slots
  <2>4. y \in h.got => h.v[y] = h.gid /\ cur[y[1]].gid >= h.gid
    BY DEF IInv, PartsAreFresh
  <2>5. CASE g = h
    BY <2>3, <2>4, <2>5
  <2>6. CASE /\ m.gid = h.gid /\ g.got = h.got \cup {x}
             /\ g.v = [h.v EXCEPT ![x] = m.data]
    <3>1. CASE y = x
      BY <1>1, <1>2, <2>1, <2>2, <2>3, <2>6, <3>1
    <3>2. CASE y # x
      BY <2>1, <2>2, <2>3, <2>4, <2>6, <3>2
    <3> QED BY <3>1, <3>2
  <2> QED BY <2>1, <2>5, <2>6
<1>11. EarlyPartsAgree'
  <2>1. m.gid <= NGathers
    BY <1>1, RankFacts
  <2> SUFFICES ASSUME NEW s \in Ranks
      PROVE /\ nxt'[s].gid = cur'[s].gid + 1
            /\ nxt'[s].vec # 0 => /\ nxt'[s].gid <= NGathers
                                  /\ nxt'[s].vec = VecAt[nxt'[s].gid]
    BY DEF EarlyPartsAgree
  <2>2. /\ nxt[s].gid = cur[s].gid + 1
        /\ nxt[s].vec # 0 => /\ nxt[s].gid <= NGathers
                             /\ nxt[s].vec = VecAt[nxt[s].gid]
    BY DEF IInv, EarlyPartsAgree
  <2>3. CASE nxt'[s] = nxt[s]
    BY <1>5, <2>2, <2>3
  <2>4. CASE m.gid = nxt[s].gid /\ nxt'[s].vec = m.vec
    BY <1>2, <1>5, <1>6, <2>1, <2>2, <2>4
  <2> QED BY <1>6, <2>3, <2>4
<1>12. OwnParts'
  <2> SUFFICES ASSUME NEW s \in Ranks, NEW p \in 0..(PMAX - 1)
               PROVE  cur'[s].v[<<s, p>>] = cur'[s].gid
    BY DEF OwnParts
  <2>1. /\ cur[s].v[<<s, p>>] = cur[s].gid /\ <<s, p>> \in Slots
        /\ cur[s].v \in [Slots -> Nat]
    BY DEF IInv, OwnParts, Slots, TypeOK, Gathers
  <2> QED BY <1>2, <1>5, <2>1
<1> QED BY <1>7, <1>8, <1>9, <1>10, <1>11, <1>12 DEF IInv

-----------------------------------------------------------------------------
(* The theorems *)

LEMMA EndKeeps == ASSUME IInv, NEW r \in Ranks, end(r) PROVE IInv'
<1>1. /\ phase[r] = "core" /\ phase' = [phase EXCEPT ![r] = "off"]
      /\ phase \in [Ranks -> {"core", "gather", "off"}]
  BY DEF end, IInv, TypeOK
<1>2. /\ phase' \in [Ranks -> {"core", "gather", "off"}]
      /\ \A s \in Ranks : (phase'[s] = "gather") <=> (phase[s] = "gather")
  BY <1>1
<1> QED BY <1>2, NetworkKeeps DEF end, IInv, TypeOK

LEMMA LoseKeeps == ASSUME IInv, NEW m \in net, lose(m) PROVE IInv'
<1>1. lost' \in 0..MaxLost
  BY GatherAssumption DEF lose, IInv, TypeOK
<1> QED BY <1>1, NetworkKeeps DEF lose, IInv, TypeOK

\* A step of any rank or of the network keeps the invariant.
LEMMA NextKeeps == IInv /\ [Next]_vars => IInv'
<1> SUFFICES ASSUME IInv, [Next]_vars PROVE IInv'
  OBVIOUS
<1>1. CASE \E r \in Ranks : gather(r) \/ leave(r) \/ ask(r) \/ end(r)
  BY <1>1, GatherKeeps, LeaveKeeps, AskKeeps, EndKeeps
<1>2. CASE \E m \in net : lose(m)
  BY <1>2, LoseKeeps
<1>3. ASSUME NEW m \in net, rx(m) PROVE IInv'
  <2>1. m \in SliceMsgs \/ m \in AskMsgs
    BY DEF IInv, TypeOK
  <2>2. CASE m \in SliceMsgs
    BY <1>3, <2>2, MessageTypes, RxSliceKeeps DEF rx
  <2>3. CASE m \in AskMsgs
    BY <1>3, <2>3, MessageTypes, RxAskKeeps DEF rx
  <2> QED BY <2>1, <2>2, <2>3
<1>4. CASE UNCHANGED vars
  <2>1. \A m \in net' : m \in net
    BY <1>4 DEF vars
  <2> QED BY <1>4, <2>1, NetworkKeeps DEF vars, IInv, TypeOK
<1> QED BY <1>1, <1>2, <1>3, <1>4 DEF Next, AllOff

\* The inductive invariant holds in every reachable state.
THEOREM GatherInvariant == Spec => []IInv
BY InitIInv, NextKeeps, PTL DEF Spec

\* The ranks' state keeps its types.
THEOREM GatherTypes == Spec => []TypeOK
BY GatherInvariant, PTL DEF IInv

LEMMA InvOneAhead == IInv => OneAhead
BY DEF IInv, InStep, OneAhead, TypeOK, Gathers

\* "A rank can be one gather ahead of another and never more", for any
\* number of ranks.
THEOREM GatherOneAhead == Spec => []OneAhead
BY GatherInvariant, InvOneAhead, PTL

\* The two slices a rank keeps answer every request that can still come.
THEOREM GatherAskAnswerable == Spec => []AskAnswerable
<1>1. IInv => AskAnswerable
  <2> SUFFICES ASSUME IInv, NEW r \in Ranks, NEW s \in Ranks,
                      phase[r] = "gather", cur[s].gid >= cur[r].gid
               PROVE  \/ mine[s].gid = cur[r].gid /\ mine[s].data = cur[r].gid
                      \/ prev[s].gid = cur[r].gid /\ prev[s].data = cur[r].gid
    BY DEF AskAnswerable
  <2>1. /\ cur[r].gid \in Nat /\ cur[s].gid \in Nat /\ cur[r].gid > 0
        /\ cur[s].gid <= cur[r].gid + 1
    BY InvOneAhead DEF IInv, TypeOK, Gathers, InStep, OneAhead
  <2>2. /\ mine[s].gid = cur[s].gid
        /\ mine[s].gid > 0 => mine[s].data = mine[s].gid
                              /\ prev[s].gid = cur[s].gid - 1
        /\ prev[s].gid > 0 => prev[s].data = prev[s].gid
    BY DEF IInv, Kept, Computed
  <2> QED BY <2>1, <2>2
<1> QED BY <1>1, GatherInvariant, PTL

\* Parts marked as arrived are of the gather they are marked for.
THEOREM GatherPartsFresh == Spec => []PartsAreFresh
BY GatherInvariant, PTL DEF IInv

\* Whatever is lost, repeated or reordered, every core is given, at each
\* gather, exactly the slices computed for it.
THEOREM GatherWholeVectors == Spec => []WholeVectors
BY GatherInvariant, PTL DEF IInv

\* The protocol implements the rendezvous (its safety part): gather is its
\* Enter, leave its TakeAway, and every other step is invisible to it.
THEOREM GatherImplementsRendezvous == Spec => ImplementsRendezvous
<1> DEFINE entered == [r \in Ranks |-> cur[r].gid]
<1>1. Init => Rendezvous!RendezvousInit
  BY DEF Init, Rendezvous!RendezvousInit, Rendezvous!RendezvousRanks, Ranks
<1>2. IInv /\ IInv' /\ [Next]_vars
        => [Rendezvous!RendezvousNext]_(Rendezvous!RendezvousVars)
  <2> SUFFICES ASSUME IInv, IInv', [Next]_vars
               PROVE  [Rendezvous!RendezvousNext]_(Rendezvous!RendezvousVars)
    OBVIOUS
  <2> USE DEF Rendezvous!RendezvousVars
  <2>0. Rendezvous!RendezvousRanks = Ranks
    BY DEF Rendezvous!RendezvousRanks, Ranks
  <2>1. ASSUME NEW r \in Ranks, gather(r) PROVE Rendezvous!Enter(r)
    <3>1. cur[r].gid < NGathers /\ Len(used[r]) = cur[r].gid /\ used' = used
      BY <2>1 DEF gather, IInv, Counted
    <3>2. cur'[r].gid = cur[r].gid + 1 /\ \A s \in Ranks : s # r => cur'[s] = cur[s]
      BY <2>1 DEF gather, IInv, Numbered, TypeOK
    <3>3. entered' = [entered EXCEPT ![r] = entered[r] + 1]
      BY <3>2
    <3> QED BY <2>0, <3>1, <3>3 DEF Rendezvous!Enter
  <2>2. ASSUME NEW r \in Ranks, leave(r) PROVE Rendezvous!TakeAway(r)
    <3>1. /\ cur' = cur /\ phase[r] = "gather"
          /\ used' = [used EXCEPT ![r] = Append(used[r],
               [s \in Ranks |-> {cur[r].v[<<s, p>>] :
                                   p \in 0..(Parts[s][cur[r].vec] - 1)}])]
          /\ phase'[r] = "core"
      BY <2>2 DEF leave, IInv, TypeOK
    <3> DEFINE e == [s \in Ranks |-> {cur[r].v[<<s, p>>] :
                                   p \in 0..(Parts[s][cur[r].vec] - 1)}]
               n == Len(used[r])
    <3> HIDE DEF e
    <3>2. /\ used'[r] = Append(used[r], e)
          /\ used' = [used EXCEPT ![r] = Append(used[r], e)]
          /\ used[r] \in Seq([Ranks -> SUBSET Nat])
      BY <3>1 DEF IInv, TypeOK, e
    <3>3. n \in Nat /\ n = cur[r].gid - 1 /\ cur[r].gid \in Nat /\ cur[r].gid > 0
      BY <3>1, <3>2 DEF IInv, Counted, InStep, TypeOK, Gathers
    <3>4. Len(used'[r]) = n + 1 /\ used'[r][n + 1] = e
      BY <3>2
    <3>5. e = [s \in Ranks |-> {n + 1}]
      <4>1. n + 1 \in 1..Len(used'[r])
        BY <3>3, <3>4
      <4>2. \A k \in 1..Len(used'[r]) : used'[r][k] = [s \in Ranks |-> {k}]
        BY DEF IInv, WholeVectors
      <4>3. used'[r][n + 1] = [s \in Ranks |-> {n + 1}]
        BY <4>1, <4>2, Zenon
      <4> QED BY <3>4, <4>3
    <3>6. \A s \in Ranks : cur[s].gid >= cur[r].gid
      BY <3>1 DEF IInv, InStep
    <3>7. cur[r].gid = n + 1 /\ n < cur[r].gid
      BY <3>3
    <3>8. e = Rendezvous!WholeVector(entered[r])
      BY <2>0, <3>5, <3>7 DEF Rendezvous!WholeVector
    <3> QED BY <2>0, <3>1, <3>2, <3>6, <3>7, <3>8 DEF Rendezvous!TakeAway
  <2>3. ASSUME NEW r \in Ranks, ask(r) \/ end(r) PROVE UNCHANGED <<cur, used>>
    BY <2>3 DEF ask, end
  <2>4. ASSUME NEW m \in net, lose(m) PROVE UNCHANGED <<cur, used>>
    BY <2>4 DEF lose
  <2>5. ASSUME NEW m \in net, rx(m) PROVE UNCHANGED <<entered, used>>
    <3>1. m \in SliceMsgs \/ m \in AskMsgs
      BY DEF IInv, TypeOK
    <3>2. CASE rx_ask(m)
      BY <3>2 DEF rx_ask
    <3>3. CASE m \in SliceMsgs /\ rx_slice(m)
      <4>1. /\ cur' = cur \/ cur' = [cur EXCEPT ![m.dst] = store(cur[m.dst], m)]
            /\ used' = used
        BY <3>3 DEF rx_slice
      <4>2. store(cur[m.dst], m).gid = cur[m.dst].gid
        BY <3>3, MessageTypes, StoreFacts DEF IInv, TypeOK
      <4>3. \A s \in Ranks : cur'[s].gid = cur[s].gid
        BY <4>1, <4>2 DEF IInv, TypeOK
      <4> QED BY <4>1, <4>3
    <3> QED BY <2>5, <3>1, <3>2, <3>3, MessageTypes DEF rx
  <2>6. CASE UNCHANGED vars
    BY <2>6 DEF vars
  <2> QED BY <2>0, <2>1, <2>2, <2>3, <2>4, <2>5, <2>6
          DEF Next, AllOff, Rendezvous!RendezvousNext, vars
<1> QED BY <1>1, <1>2, GatherInvariant, PTL DEF Spec, ImplementsRendezvous

-----------------------------------------------------------------------------
(* The register block, GatherPort, for any number of runs, gathers and     *)
(* words: words move only inside a gather nobody has answered, a gather is *)
(* answered with the whole vector in place, and each is served once.       *)


Moving == {"move_out", "out_wait", "move_in", "in_wait"}
HeadGather == IF head_en THEN 1 ELSE 0

\* The core asks exactly while it waits, and comes to the head's gather only
\* on a run that has one.
CoreShape ==
  /\ busy <=> st # "idle"
  /\ g_req <=> Waiting
  /\ st # "idle" => passed <= NMoved
  /\ st = "gather" /\ OnHead => hen

\* A start stands alone until the core has taken it, and a core that has ended
\* a run says so, now or in STATUS, until the ARM has seen it.
RunShape ==
  /\ ~Begun => st = "idle" /\ ~start /\ ~done /\ ~g_done
  /\ start => ~done_s /\ ~done /\ ~g_done
  /\ start /\ busy => st = "compute" /\ ~ph /\ passed = 0
  /\ Begun /\ busy => (hen <=> head_en)
  /\ Begun /\ ~busy /\ ~start => (done \/ done_s) /\ passed = NMoved + HeadGather
  /\ done \/ (done_s /\ Begun) => ~busy
  /\ done => ~done_s
  /\ pc = "over" <=> runs = NRuns

\* An answer goes with the request it is for, and what the ARM does between
\* reading GATHER and answering finds the gather still waiting.
AnswerShape ==
  /\ Begun /\ g_req /\ g_done => n_gathers = passed + 1
  /\ Begun /\ ~(g_req /\ g_done) => n_gathers = LeftNow
  /\ g_done => pc \in {"poll", "status"}
  /\ g_done /\ ~g_req => (st = "compute" /\ ~ph) \/ done
  /\ pc \in Moving \cup {"answer"} => Gather
  /\ pc \in Moving => ~OnHead

\* A word of the move under way is moved or left.
ToGo == IF dm_on THEN dm_left ELSE IF dma_go THEN NWords ELSE 0

MoveShape ==
  /\ Gmove => pc \in {"out_wait", "in_wait"}
  /\ ~dm_on => dm_left = 0
  /\ dma_go /\ dm_on => dm_left = NWords
  /\ dm_on => (dm_into <=> dma_in)
  /\ pc = "out_wait" => ~dma_in /\ out + ToGo = NWords /\ into = 0
  /\ pc = "move_in" => out = NWords /\ into = 0
  /\ pc = "in_wait" => dma_in /\ out = NWords /\ into + ToGo = NWords
  /\ pc = "answer" /\ ~OnHead => out = NWords /\ into = NWords
  /\ pc \notin {"out_wait", "move_in", "in_wait", "answer"} => out = 0 /\ into = 0
  /\ pc = "answer" /\ OnHead => out = 0 /\ into = 0

PortIInv == PortTypeOK /\ CoreShape /\ RunShape /\ AnswerShape /\ MoveShape

-----------------------------------------------------------------------------

\* The registers of one bit, each on its own.
LEMMA Bits == PortTypeOK =>
  /\ ph \in BOOLEAN /\ hen \in BOOLEAN /\ busy \in BOOLEAN /\ done \in BOOLEAN
  /\ g_req \in BOOLEAN /\ start \in BOOLEAN /\ head_en \in BOOLEAN
  /\ done_s \in BOOLEAN /\ g_done \in BOOLEAN /\ dma_go \in BOOLEAN
  /\ dma_in \in BOOLEAN /\ dm_on \in BOOLEAN /\ dm_into \in BOOLEAN
  BY DEF PortTypeOK

LEMMA InitInv == PortInit => PortIInv
<1> SUFFICES ASSUME PortInit PROVE PortIInv OBVIOUS
<1> USE PortAssumption DEF PortInit
<1>1. PortTypeOK
  <2>1. passed \in 0..(NMoved + 1) /\ n_gathers \in 0..(NMoved + 1) /\ runs \in 0..NRuns OBVIOUS
  <2>2. dm_left \in 0..NWords /\ out \in 0..NWords /\ into \in 0..NWords OBVIOUS
  <2>3. pc \in Accesses BY DEF Accesses
  <2>4. {ph, hen, busy, done, g_req} \subseteq BOOLEAN OBVIOUS
  <2>5. {start, head_en, done_s, g_done, dma_go, dma_in, dm_on, dm_into} \subseteq BOOLEAN
    OBVIOUS
  <2>6. QED BY <2>1, <2>2, <2>3, <2>4, <2>5 DEF PortTypeOK
<1>2. CoreShape BY DEF CoreShape, Waiting
<1>3. RunShape BY DEF RunShape, Begun
<1>4. AnswerShape BY DEF AnswerShape, Begun, Moving
<1>5. MoveShape BY DEF MoveShape, Gmove
<1>6. QED BY <1>1, <1>2, <1>3, <1>4, <1>5 DEF PortIInv

-----------------------------------------------------------------------------
(* What an edge of the core does, seen from the registers.                 *)

\* It goes on, or rests; takes a start; asks; ends a run without the head;
\* takes an answer.
Works == UNCHANGED <<passed, hen, busy, g_req>> /\ ~done'
Starts == start /\ ~busy /\ busy' /\ (hen' <=> head_en) /\ passed' = 0 /\ ~g_req' /\ ~done'
          /\ st' = "compute" /\ ~ph'
Asks == busy /\ ~g_req /\ g_req' /\ UNCHANGED <<passed, hen, busy>> /\ ~done'
Ends == busy /\ ~busy' /\ done' /\ passed = NMoved /\ ~hen /\ ~g_req /\ ~g_req' /\ ph
        /\ UNCHANGED <<passed, hen>>
TakesAnswer == g_req /\ g_done /\ ~g_req' /\ passed' = passed + 1 /\ UNCHANGED hen
TakesLast == TakesAnswer /\ OnHead /\ hen /\ ~busy' /\ done'
TakesOne == TakesAnswer /\ ~OnHead /\ busy /\ busy' /\ ~done' /\ st' = "compute" /\ ~ph'

LEMMA CoreKinds ==
  ASSUME PortIInv, NEW e \in BOOLEAN, CoreEdge(e)
  PROVE  /\ CoreShape' /\ st' \in {"idle", "compute", "gather"} /\ passed' \in 0..(NMoved + 1)
         /\ Works \/ Starts \/ Asks \/ Ends \/ TakesLast \/ TakesOne
<1> USE PortAssumption, Bits
    DEF PortIInv, CoreShape, Waiting, OnHead, Works, Starts, Asks, Ends, TakesAnswer,
        TakesLast, TakesOne
<1>1. CASE ~e
  <2>1. ~done /\ UNCHANGED core BY <1>1 DEF CoreEdge
  <2>2. QED BY <2>1 DEF core, PortTypeOK
<1>2. CASE e /\ CoreIdle BY <1>2 DEF CoreIdle, PortTypeOK
<1>3. CASE e /\ CoreCompute BY <1>3 DEF CoreCompute, CoreEnds, PortTypeOK
<1>4. CASE e /\ CoreGather
  <2>0. st = "gather" /\ busy /\ passed \in 0..NMoved BY <1>4 DEF CoreGather, PortTypeOK
  <2>1. CASE ~ph
    <3>1. Asks /\ st' = "gather" /\ ph' BY <1>4, <2>0, <2>1 DEF CoreGather
    <3>2. passed' \in 0..NMoved /\ passed' <= NMoved /\ busy' BY <2>0, <3>1
    <3>3. passed' \in 0..(NMoved + 1) BY <3>2
    <3>4. passed = NMoved => hen BY <1>4, <2>1 DEF CoreGather
    <3>5. CoreShape' BY <3>1, <3>2, <3>4
    <3>6. QED BY <3>1, <3>3, <3>5
  <2>2. CASE ph /\ ~g_done BY <1>4, <2>0, <2>2 DEF CoreGather
  <2>3. CASE ph /\ g_done /\ OnHead BY <1>4, <2>0, <2>3 DEF CoreGather, CoreEnds
  <2>4. CASE ph /\ g_done /\ ~OnHead
    <3>1. TakesOne BY <1>4, <2>0, <2>4 DEF CoreGather
    <3>2. passed' \in 0..NMoved /\ st' = "compute" /\ busy' BY <2>0, <2>4, <3>1
    <3>3. ~g_req' /\ ~(st' = "gather") BY <3>1
    <3>4. passed' <= NMoved BY <3>2
    <3>5. CoreShape' BY <3>2, <3>3, <3>4, <2>4
    <3>6. passed' \in 0..(NMoved + 1) BY <3>2
    <3>7. QED BY <3>1, <3>2, <3>5, <3>6
  <2>5. QED BY <2>1, <2>2, <2>3, <2>4
<1>5. QED BY <1>1, <1>2, <1>3, <1>4 DEF CoreEdge

LEMMA BitsKept ==
  ASSUME PortIInv, NEW e \in BOOLEAN, NEW l \in BOOLEAN, Edge(e, l)
  PROVE  /\ {ph, hen, busy, done, g_req}' \subseteq BOOLEAN
         /\ {start, head_en, done_s, g_done, dma_go, dma_in, dm_on, dm_into}' \subseteq BOOLEAN
<1> USE Bits DEF PortIInv
<1>1. ph' \in BOOLEAN /\ hen' \in BOOLEAN /\ busy' \in BOOLEAN /\ done' \in BOOLEAN /\ g_req' \in BOOLEAN
  <2>1. CASE ~e BY <2>1 DEF CoreEdge, core, Edge
  <2>2. CASE e /\ CoreIdle BY <2>2 DEF CoreIdle
  <2>3. CASE e /\ CoreCompute BY <2>3 DEF CoreCompute, CoreEnds
  <2>4. CASE e /\ CoreGather BY <2>4 DEF CoreGather, CoreEnds
  <2>5. QED BY <2>1, <2>2, <2>3, <2>4 DEF CoreEdge, Edge
<1>2. /\ start' \in BOOLEAN /\ done_s' \in BOOLEAN /\ g_done' \in BOOLEAN
      /\ dma_go' \in BOOLEAN
  BY DEF Edge, Registers, Start, DoneKept, Answered, MoveAsked
<1>3. head_en' \in BOOLEAN /\ dma_in' \in BOOLEAN
  BY DEF Edge, Registers
<1>4. dm_on' \in BOOLEAN /\ dm_into' \in BOOLEAN
  BY DEF Edge, Mover
<1>5. QED BY <1>1, <1>2, <1>3, <1>4

\* The ARM's step, by the access that lands.
LEMMA LandsKinds ==
  ASSUME PortIInv, Lands
  PROVE  \/ pc = "ctrl" /\ pc' = "poll" /\ UNCHANGED runs /\ n_gathers' = 0
         \/ pc = "poll" /\ ~Gather /\ pc' = "status" /\ UNCHANGED <<runs, n_gathers>>
         \/ pc = "poll" /\ Gather /\ OnHead /\ pc' = "answer" /\ UNCHANGED <<runs, n_gathers>>
         \/ pc = "poll" /\ Gather /\ ~OnHead /\ pc' = "move_out" /\ UNCHANGED <<runs, n_gathers>>
         \/ pc = "status" /\ ~done_s /\ pc' = "poll" /\ UNCHANGED <<runs, n_gathers>>
         \/ pc = "status" /\ done_s /\ runs' = runs + 1 /\ UNCHANGED n_gathers
            /\ pc' = (IF runs + 1 < NRuns THEN "ctrl" ELSE "over")
         \/ pc = "move_out" /\ pc' = "out_wait" /\ UNCHANGED <<runs, n_gathers>>
         \/ pc = "out_wait" /\ Gmove /\ pc' = pc /\ UNCHANGED <<runs, n_gathers>>
         \/ pc = "out_wait" /\ ~Gmove /\ pc' = "move_in" /\ UNCHANGED <<runs, n_gathers>>
         \/ pc = "move_in" /\ pc' = "in_wait" /\ UNCHANGED <<runs, n_gathers>>
         \/ pc = "in_wait" /\ Gmove /\ pc' = pc /\ UNCHANGED <<runs, n_gathers>>
         \/ pc = "in_wait" /\ ~Gmove /\ pc' = "answer" /\ UNCHANGED <<runs, n_gathers>>
         \/ pc = "answer" /\ pc' = "poll" /\ UNCHANGED runs /\ n_gathers' = n_gathers + 1
<1> USE DEF Lands
<1>0. pc \in Accesses /\ pc # "over" BY DEF PortIInv, PortTypeOK
<1>1. CASE pc = "ctrl" BY <1>1
<1>2. CASE pc = "poll" BY <1>2
<1>3. CASE pc = "status" BY <1>3
<1>4. CASE pc = "move_out" BY <1>4
<1>5. CASE pc = "out_wait" BY <1>5
<1>6. CASE pc = "move_in" BY <1>6
<1>7. CASE pc = "in_wait" BY <1>7
<1>8. CASE pc = "answer" BY <1>8
<1>9. QED BY <1>0, <1>1, <1>2, <1>3, <1>4, <1>5, <1>6, <1>7, <1>8 DEF Accesses

LEMMA RunShapeKept ==
  ASSUME PortIInv, NEW e \in BOOLEAN, NEW l \in BOOLEAN, Edge(e, l)
  PROVE  RunShape'
<1> USE PortAssumption, Bits DEF PortIInv, Edge
<1>0. CoreShape' /\ (Works \/ Starts \/ Asks \/ Ends \/ TakesLast \/ TakesOne)
  BY CoreKinds
<1>1. ASSUME ~(l /\ pc = "ctrl"), UNCHANGED runs,
             Begun' <=> Begun, pc' = "over" <=> pc = "over"
      PROVE  RunShape'
  <2> USE <1>0, <1>1
      DEF RunShape, CoreShape, Registers, Start, DoneKept
  <2>1. UNCHANGED head_en OBVIOUS
  <2>2. start' <=> start /\ ~busy OBVIOUS
  <2>3. done_s' <=> (done /\ ~start) \/ done_s OBVIOUS
  <2>4. g_done' => g_done \/ (g_req /\ ~g_done) BY DEF Answered, AnswerShape, Gather
  <2>5. ~Begun => st' = "idle" /\ ~done' /\ ~start' /\ ~g_done'
    <3> SUFFICES ASSUME ~Begun PROVE st' = "idle" /\ ~done' /\ ~start' /\ ~g_done' OBVIOUS
    <3>1. ~busy /\ ~start /\ ~done /\ ~g_done /\ ~g_req BY DEF Waiting
    <3>2. Works BY <3>1 DEF Starts, Asks, Ends, TakesLast, TakesOne, TakesAnswer
    <3>3. ~busy' /\ ~done' BY <3>1, <3>2 DEF Works
    <3>4. QED BY <2>2, <2>4, <3>1, <3>3
  <2>6. CASE Works
    <3>1. UNCHANGED <<passed, hen, busy, HeadGather>> /\ ~done' BY <2>1, <2>6 DEF Works, HeadGather
    <3>2. ~(start' /\ busy') BY <2>2, <3>1
    <3>3. start' => ~done_s' /\ ~g_done' BY <2>2, <2>3, <2>4 DEF Waiting
    <3>4. QED BY <2>1, <2>2, <2>3, <2>4, <2>5, <3>1, <3>2, <3>3
  <2>7. CASE Starts
    <3>1. ~done_s' /\ ~g_done' BY <2>3, <2>4, <2>7 DEF Starts, Waiting
    <3>2. Begun' BY <2>7 DEF Starts
    <3>3. QED BY <2>1, <2>5, <2>7, <3>1, <3>2 DEF Starts
  <2>8. CASE Asks BY <2>1, <2>2, <2>3, <2>4, <2>5, <2>8 DEF Asks, Waiting
  <2>9. CASE Ends BY <2>1, <2>2, <2>3, <2>4, <2>5, <2>9 DEF Ends, HeadGather
  <2>10. CASE TakesLast
    <3>1. passed' = NMoved + 1 /\ hen /\ ~busy' /\ done'
      BY <2>10 DEF TakesLast, TakesAnswer, OnHead
    <3>2. busy /\ ~start /\ ~done_s /\ Begun
      BY <2>10, <2>2 DEF TakesLast, TakesAnswer, Waiting
    <3>3. head_en BY <3>1, <3>2
    <3>4. QED BY <3>1, <3>2, <3>3, <2>1, <2>2, <2>3 DEF HeadGather
  <2>11. CASE TakesOne BY <2>1, <2>2, <2>3, <2>4, <2>5, <2>11 DEF TakesOne, TakesAnswer
  <2>12. QED BY <2>6, <2>7, <2>8, <2>9, <2>10, <2>11
<1>2. CASE ~l BY <1>1, <1>2 DEF arm, Begun
<1>3. CASE l /\ pc = "ctrl"
  <2> USE <1>3 DEF RunShape, CoreShape, Begun, Registers, Start, DoneKept, Answered
  <2>1. Works /\ pc' = "poll" /\ UNCHANGED runs
    BY <1>0, LandsKinds DEF Starts, Asks, Ends, TakesLast, TakesOne, TakesAnswer
  <2>2. start' /\ ~done_s' /\ ~g_done' /\ ~done' /\ ~busy' BY <2>1 DEF Works
  <2>3. runs # NRuns OBVIOUS
  <2>4. QED BY <1>0, <2>1, <2>2, <2>3
<1>4. CASE l /\ pc = "status" /\ done_s
  <2> USE <1>4 DEF RunShape, CoreShape, Begun, Registers, Start, DoneKept, Answered
  <2>1. Works BY <1>0 DEF Starts, Asks, Ends, TakesLast, TakesOne, TakesAnswer, Waiting
  <2>2. ~start' /\ done_s' /\ ~done' /\ ~busy' /\ ~g_done'
    BY <2>1 DEF Works, AnswerShape, Waiting
  <2>3. runs' = runs + 1 /\ pc' = (IF runs + 1 < NRuns THEN "ctrl" ELSE "over")
    BY LandsKinds
  <2>4. runs \in 0..NRuns /\ runs # NRuns BY DEF PortTypeOK
  <2>5. pc' = "over" <=> runs' = NRuns BY <2>3, <2>4
  <2>6. QED BY <1>0, <2>2, <2>3, <2>5
<1>5. CASE l /\ pc # "ctrl" /\ ~(pc = "status" /\ done_s)
  <2>1. pc # "over" /\ pc' \notin {"ctrl", "over"} /\ UNCHANGED runs BY <1>5, LandsKinds DEF Lands
  <2>2. QED BY <1>1, <1>5, <2>1 DEF Begun
<1>6. QED BY <1>2, <1>3, <1>4, <1>5

\* A gather nobody has answered keeps the core where it is.
LEMMA GatherHolds ==
  ASSUME PortIInv, NEW e \in BOOLEAN, NEW l \in BOOLEAN, Edge(e, l), Gather
  PROVE  UNCHANGED passed /\ g_req' /\ (g_done' <=> l /\ pc = "answer")
<1>1. g_req /\ ~g_done /\ busy /\ ~start
  BY Bits DEF Gather, PortIInv, CoreShape, RunShape, Waiting
<1>2. Works
  BY <1>1, CoreKinds DEF Edge, Starts, Asks, Ends, TakesLast, TakesOne, TakesAnswer
<1>3. QED BY <1>1, <1>2 DEF Works, Edge, Registers, Answered

LEMMA AnswerShapeKept ==
  ASSUME PortIInv, NEW e \in BOOLEAN, NEW l \in BOOLEAN, Edge(e, l)
  PROVE  AnswerShape'
<1> USE PortAssumption, Bits DEF PortIInv, Edge
<1>0. CoreShape' /\ (Works \/ Starts \/ Asks \/ Ends \/ TakesLast \/ TakesOne)
  BY CoreKinds
<1>1. Gather /\ ~(l /\ pc = "answer") => Gather' /\ (OnHead' <=> OnHead)
  BY GatherHolds DEF Gather, OnHead
<1>2. /\ pc' \in Moving \cup {"answer"} => Gather'
      /\ pc' \in Moving => ~OnHead'
  <2>1. CASE ~l BY <1>1, <2>1 DEF AnswerShape, arm, Moving
  <2>2. CASE l BY <1>1, <2>2, LandsKinds DEF AnswerShape, Moving
  <2>3. QED BY <2>1, <2>2
<1>3. g_done' => pc' \in {"poll", "status"}
  <2>1. CASE ~l BY <2>1 DEF AnswerShape, Registers, Answered, arm
  <2>2. CASE l /\ pc = "answer" BY <2>2, LandsKinds
  <2>3. CASE l /\ pc # "answer" /\ g_done
    <3>1. ~Gather /\ pc \in {"poll", "status"} BY <2>3 DEF AnswerShape, Gather
    <3>2. ASSUME pc = "status", done_s PROVE FALSE
      BY <2>3, <3>2 DEF AnswerShape, CoreShape, RunShape, Begun, Waiting
    <3>3. QED BY <2>3, <3>1, <3>2, LandsKinds
  <2>4. CASE ~g_done /\ ~(l /\ pc = "answer") BY <2>4 DEF Registers, Answered
  <2>5. QED BY <2>1, <2>2, <2>3, <2>4
<1>4. g_done' /\ ~g_req' => (st' = "compute" /\ ~ph') \/ done'
  <2> SUFFICES ASSUME g_done', ~g_req' PROVE (st' = "compute" /\ ~ph') \/ done' OBVIOUS
  <2>1. g_req /\ g_done
    BY GatherHolds DEF AnswerShape, Registers, Answered, Gather
  <2>2. QED BY <1>0, <2>1 DEF Works, Starts, Asks, Ends, TakesLast, TakesOne, CoreShape, RunShape, Waiting
<1>5. /\ Begun' /\ g_req' /\ g_done' => n_gathers' = passed' + 1
      /\ Begun' /\ ~(g_req' /\ g_done') => n_gathers' = LeftNow'
  <2> SUFFICES ASSUME Begun'
               PROVE  /\ g_req' /\ g_done' => n_gathers' = passed' + 1
                      /\ ~(g_req' /\ g_done') => n_gathers' = LeftNow'
    OBVIOUS
  <2>1. CASE l /\ pc = "ctrl"
    <3>1. n_gathers' = 0 /\ start' BY <2>1, LandsKinds DEF RunShape, Registers, Start, Begun, CoreShape
    <3>2. ~busy /\ ~g_req /\ ~g_done BY <2>1 DEF RunShape, CoreShape, Begun, Waiting
    <3>3. ~busy' /\ ~g_req' BY <1>0, <2>1, <3>2 DEF RunShape, Begun, Works, Starts, Asks, Ends, TakesLast, TakesOne, TakesAnswer
    <3>4. QED BY <3>1, <3>3 DEF LeftNow
  <2>2. CASE l /\ pc = "answer"
    <3>1. Gather BY <2>2 DEF AnswerShape, Moving
    <3>2. UNCHANGED passed /\ g_req' /\ g_done' BY <2>2, <3>1, GatherHolds
    <3>3. n_gathers' = n_gathers + 1 BY <2>2, LandsKinds
    <3>4. n_gathers = passed BY <2>2, <3>1 DEF AnswerShape, Begun, Gather, LeftNow, CoreShape, RunShape, Waiting
    <3>5. QED BY <3>2, <3>3, <3>4
  <2>3. CASE ~(l /\ pc \in {"ctrl", "answer"})
    <3>1. Begun /\ UNCHANGED n_gathers
      <4>1. CASE l BY <2>3, <4>1, LandsKinds DEF Begun
      <4>2. CASE ~l BY <4>2 DEF Begun, arm
      <4>3. QED BY <4>1, <4>2
    <3>2. start' <=> start /\ ~busy
      BY <2>3 DEF Registers, Start, RunShape, CoreShape
    <3>3. g_done' <=> g_done /\ g_req BY <2>3 DEF Registers, Answered
    <3>4. CASE Works BY <3>1, <3>2, <3>3, <3>4 DEF Works, AnswerShape, LeftNow, RunShape
    <3>5. CASE Starts BY <3>1, <3>2, <3>3, <3>5 DEF Starts, AnswerShape, LeftNow, RunShape
    <3>6. CASE Asks BY <3>1, <3>2, <3>3, <3>6 DEF Asks, AnswerShape, LeftNow
    <3>7. CASE Ends BY <3>1, <3>2, <3>3, <3>7 DEF Ends, AnswerShape, LeftNow, RunShape
    <3>8. CASE TakesLast BY <3>1, <3>2, <3>3, <3>8 DEF TakesLast, TakesAnswer, AnswerShape, LeftNow, CoreShape, RunShape, Waiting
    <3>9. CASE TakesOne BY <3>1, <3>2, <3>3, <3>9 DEF TakesOne, TakesAnswer, AnswerShape, LeftNow, RunShape, CoreShape, Waiting
    <3>10. QED BY <1>0, <3>4, <3>5, <3>6, <3>7, <3>8, <3>9
  <2>4. QED BY <2>1, <2>2, <2>3
<1>6. QED BY <1>2, <1>3, <1>4, <1>5 DEF AnswerShape

\* No move asked for or on: an access may ask for one, or end the gather.
LEMMA NoMoveKept ==
  ASSUME PortIInv, NEW e \in BOOLEAN, NEW l \in BOOLEAN, Edge(e, l), ~Gmove
  PROVE  MoveShape'
<1> USE PortAssumption, Bits DEF PortIInv, Edge, PortTypeOK
<1>1. ~dm_on /\ ~dma_go /\ dm_left = 0 BY DEF Gmove, MoveShape
<1>2. ~dm_on' /\ dm_left' = 0 BY <1>1 DEF Mover, Word
<1>3. dma_go' <=> l /\ pc \in {"move_out", "move_in"} BY <1>1 DEF Registers, MoveAsked
<1>4. ~(l /\ pc = "answer") => UNCHANGED <<out, into>> BY <1>1 DEF Moved, Word
<1>5. l /\ pc = "answer" => out' = 0 /\ into' = 0 BY DEF Moved
<1>6. ToGo = 0 BY <1>1 DEF ToGo
<1>7. ToGo' = IF dma_go' THEN NWords ELSE 0 BY <1>2 DEF ToGo
<1>8. Gather => (OnHead' <=> OnHead) BY GatherHolds DEF OnHead
<1>9. CASE ~l
  <2>1. UNCHANGED <<pc, dma_in, out, into>> /\ ~dma_go' /\ ToGo' = 0
    BY <1>3, <1>4, <1>7, <1>9 DEF arm, Registers
  <2>2. QED BY <1>2, <1>6, <1>8, <2>1 DEF MoveShape, Gmove, AnswerShape, Moving
<1>10. CASE l /\ pc \in {"move_out", "move_in"}
  <2>1. dma_go' /\ ToGo' = NWords /\ UNCHANGED <<out, into>> /\ (dma_in' <=> pc = "move_in")
    BY <1>3, <1>4, <1>7, <1>10 DEF Registers
  <2>2. pc' = (IF pc = "move_in" THEN "in_wait" ELSE "out_wait") BY <1>10, LandsKinds
  <2>3. QED BY <1>2, <1>10, <2>1, <2>2 DEF MoveShape, Gmove
<1>11. CASE l /\ pc \in {"out_wait", "in_wait"}
  <2>1. ~dma_go' /\ ToGo' = 0 /\ UNCHANGED <<out, into, dma_in>>
    BY <1>3, <1>4, <1>7, <1>11 DEF Registers
  <2>2. pc' = (IF pc = "out_wait" THEN "move_in" ELSE "answer") BY <1>11, LandsKinds
  <2>3. ~OnHead' BY <1>8, <1>11 DEF AnswerShape, Moving
  <2>4. QED BY <1>2, <1>6, <1>11, <2>1, <2>2, <2>3 DEF MoveShape, Gmove
<1>12. CASE l /\ pc = "answer"
  <2>1. pc' = "poll" BY <1>12, LandsKinds
  <2>2. QED BY <1>2, <1>3, <1>5, <1>12, <2>1 DEF MoveShape, Gmove
<1>13. CASE l /\ pc \in {"ctrl", "poll", "status"}
  <2>1. ~dma_go' /\ ToGo' = 0 /\ UNCHANGED <<out, into, dma_in>>
    BY <1>3, <1>4, <1>7, <1>13 DEF Registers
  <2>2. out = 0 /\ into = 0 BY <1>13 DEF MoveShape
  <2>3. pc' \in {"ctrl", "poll", "status", "over", "move_out"} \/ (pc' = "answer" /\ Gather /\ OnHead)
    BY <1>13, LandsKinds
  <2>4. QED BY <1>2, <1>8, <2>1, <2>2, <2>3 DEF MoveShape, Gmove
<1>14. pc \in Accesses /\ (l => pc # "over") BY DEF Lands
<1>15. QED BY <1>9, <1>10, <1>11, <1>12, <1>13, <1>14 DEF Accesses

\* A move asked for or on: the ARM waits, and words are moved.
LEMMA MoveKept ==
  ASSUME PortIInv, NEW e \in BOOLEAN, NEW l \in BOOLEAN, Edge(e, l), Gmove
  PROVE  MoveShape'
<1> USE PortAssumption, Bits DEF PortIInv, Edge
<1>1. pc \in {"out_wait", "in_wait"} BY DEF MoveShape
<1>2. pc' = pc
  <2>1. CASE l BY <1>1, <2>1, LandsKinds
  <2>2. CASE ~l BY <2>2 DEF arm
  <2>3. QED BY <2>1, <2>2
<1>3. UNCHANGED dma_in /\ (dma_go' <=> dma_go /\ ~dm_on)
  BY <1>1 DEF Registers, MoveAsked
<1>4. dm_left \in Nat /\ out \in Nat /\ into \in Nat BY DEF PortTypeOK
<1>5. CASE ~dm_on
  <2>1. dma_go /\ dma_go' /\ dm_on' /\ dm_left' = NWords /\ (dm_into' <=> dma_in)
    BY <1>3, <1>5 DEF Gmove, Mover
  <2>2. UNCHANGED <<out, into>> BY <1>1, <1>5 DEF Moved, Word
  <2>3. ToGo = NWords /\ ToGo' = NWords BY <1>5, <2>1 DEF ToGo
  <2>4. QED BY <1>1, <1>2, <1>3, <2>1, <2>2, <2>3 DEF MoveShape
<1>6. CASE dm_on /\ ~Word(e)
  <2>1. ~dma_go' /\ UNCHANGED <<dm_left, dm_into>> /\ (dm_on' <=> dm_left > 0)
    BY <1>3, <1>6 DEF Mover
  <2>2. UNCHANGED <<out, into>> BY <1>1, <1>6 DEF Moved
  <2>3. ToGo = dm_left /\ ToGo' = dm_left BY <1>4, <1>6, <2>1 DEF ToGo
  <2>4. ~dm_on' => dm_left' = 0 BY <1>4, <2>1
  <2>5. QED BY <1>1, <1>2, <1>3, <1>6, <2>1, <2>2, <2>3, <2>4 DEF MoveShape, Gmove
<1>7. CASE dm_on /\ Word(e)
  <2>1. ~dma_go' /\ UNCHANGED dm_into /\ dm_left > 0 /\ dm_left' = dm_left - 1
    BY <1>3, <1>7 DEF Mover, Word
  <2>2. dm_on' <=> ~(dm_into /\ dm_left = 1) BY <1>7, <2>1 DEF Mover
  <2>3. (dm_into <=> dma_in) /\ (dma_in <=> pc = "in_wait")
    BY <1>1, <1>7 DEF MoveShape
  <2>4. ~dm_on' => dm_left' = 0 BY <2>1, <2>2
  <2>5. ToGo = dm_left /\ ToGo' = dm_left - 1 BY <1>4, <1>7, <2>1, <2>2 DEF ToGo
  <2>6. CASE pc = "out_wait"
    <3>1. out' = out + 1 /\ into' = into BY <1>7, <2>3, <2>6 DEF Moved
    <3>2. out + dm_left = NWords /\ into = 0 BY <2>5, <2>6 DEF MoveShape
    <3>3. out' + ToGo' = NWords BY <1>4, <2>5, <3>1, <3>2
    <3>4. QED BY <1>2, <1>3, <2>1, <2>3, <2>4, <2>6, <3>1, <3>2, <3>3 DEF MoveShape, Gmove
  <2>7. CASE pc = "in_wait"
    <3>1. into' = into + 1 /\ out' = out BY <1>7, <2>3, <2>7 DEF Moved
    <3>2. into + dm_left = NWords /\ out = NWords BY <2>5, <2>7 DEF MoveShape
    <3>3. into' + ToGo' = NWords BY <1>4, <2>5, <3>1, <3>2
    <3>4. QED BY <1>2, <1>3, <2>1, <2>3, <2>4, <2>7, <3>1, <3>2, <3>3 DEF MoveShape, Gmove
  <2>8. QED BY <1>1, <2>6, <2>7
<1>8. QED BY <1>5, <1>6, <1>7

LEMMA OneMore ==
  ASSUME NEW m \in Nat, NEW a \in 0..m
  PROVE  a + 1 \in 0..(m + 1)
  OBVIOUS

LEMMA PartOf ==
  ASSUME NEW m \in Nat, NEW a \in Nat, NEW b \in 0..m, a + b = m
  PROVE  a \in 0..m
  OBVIOUS

\* The counts stay within their bounds.
LEMMA TypesKept ==
  ASSUME PortIInv, NEW e \in BOOLEAN, NEW l \in BOOLEAN, Edge(e, l),
         CoreShape', RunShape', AnswerShape', MoveShape'
  PROVE  PortTypeOK'
<1> USE PortAssumption, Bits DEF PortIInv, Edge
<1>1. st' \in {"idle", "compute", "gather"} /\ passed' \in 0..(NMoved + 1) BY CoreKinds
<1>2. pc' \in Accesses
  <2>1. CASE l BY <2>1, LandsKinds DEF Accesses
  <2>2. CASE ~l BY <2>2 DEF arm, PortTypeOK
  <2>3. QED BY <2>1, <2>2
<1>3. runs' \in 0..NRuns
  <2>1. CASE l BY <2>1, LandsKinds DEF PortTypeOK, RunShape
  <2>2. CASE ~l BY <2>2 DEF arm, PortTypeOK
  <2>3. QED BY <2>1, <2>2
<1>4. n_gathers' \in 0..(NMoved + 1)
  <2>1. CASE Begun' /\ g_req' /\ g_done'
    <3>1. st' # "idle" /\ n_gathers' = passed' + 1 BY <2>1 DEF CoreShape, AnswerShape, Waiting
    <3>2. passed' <= NMoved BY <3>1 DEF CoreShape
    <3>3. passed' \in 0..NMoved BY <1>1, <3>2
    <3>4. QED BY <3>1, <3>3, OneMore
  <2>2. CASE Begun' /\ ~(g_req' /\ g_done') BY <1>1, <2>2 DEF AnswerShape, LeftNow
  <2>3. CASE ~Begun'
    <3>1. UNCHANGED n_gathers
      <4>1. CASE l BY <2>3, <4>1, LandsKinds DEF Begun
      <4>2. CASE ~l BY <4>2 DEF arm
      <4>3. QED BY <4>1, <4>2
    <3>2. QED BY <3>1 DEF PortTypeOK
  <2>4. QED BY <2>1, <2>2, <2>3
<1>5. dm_left' \in 0..NWords BY DEF Mover, Word, PortTypeOK
<1>6. out' \in 0..NWords /\ into' \in 0..NWords
  <2>1. ToGo' \in 0..NWords BY <1>5 DEF ToGo
  <2>2. out' \in Nat /\ into' \in Nat BY DEF Moved, PortTypeOK
  <2>3. CASE pc' = "out_wait"
    <3>1. out' + ToGo' = NWords /\ into' = 0 BY <2>3 DEF MoveShape
    <3>2. out' \in 0..NWords BY <2>1, <2>2, <3>1, PartOf
    <3>3. QED BY <3>1, <3>2
  <2>4. CASE pc' = "in_wait"
    <3>1. into' + ToGo' = NWords /\ out' = NWords BY <2>4 DEF MoveShape
    <3>2. into' \in 0..NWords BY <2>1, <2>2, <3>1, PartOf
    <3>3. QED BY <3>1, <3>2
  <2>5. CASE pc' \notin {"out_wait", "in_wait"}
    <3>1. out' \in {0, NWords} /\ into' \in {0, NWords} BY <2>5 DEF MoveShape
    <3>2. QED BY <3>1
  <2>6. QED BY <2>3, <2>4, <2>5
<1>7. QED BY <1>1, <1>2, <1>3, <1>4, <1>5, <1>6, BitsKept DEF PortTypeOK

-----------------------------------------------------------------------------

\* The invariant of every edge.
THEOREM PortInvariant == PortSpec => []PortIInv
<1>1. PortInit => PortIInv BY InitInv
<1>2. PortIInv /\ [PortNext]_portVars => PortIInv'
  <2>1. ASSUME PortIInv, NEW e \in BOOLEAN, NEW l \in BOOLEAN, Edge(e, l) PROVE PortIInv'
    <3>1. CoreShape' BY <2>1, CoreKinds DEF Edge
    <3>2. RunShape' BY <2>1, RunShapeKept
    <3>3. AnswerShape' BY <2>1, AnswerShapeKept
    <3>4. MoveShape' BY <2>1, NoMoveKept, MoveKept
    <3>5. PortTypeOK' BY <2>1, <3>1, <3>2, <3>3, <3>4, TypesKept
    <3>6. QED BY <3>1, <3>2, <3>3, <3>4, <3>5 DEF PortIInv
  <2>2. ASSUME PortIInv, UNCHANGED portVars PROVE PortIInv'
    BY <2>2
    DEF portVars, core, arm, PortIInv, PortTypeOK, CoreShape, RunShape, AnswerShape, MoveShape,
        Waiting, OnHead, Begun, HeadGather, Gather, Gmove, ToGo, LeftNow
  <2>3. QED BY <2>1, <2>2 DEF PortNext
<1>3. QED BY <1>1, <1>2, PTL DEF PortSpec

\* Types, for any constants.
THEOREM PortTypes == PortSpec => []PortTypeOK
<1>1. PortIInv => PortTypeOK BY DEF PortIInv
<1>2. QED BY <1>1, PortInvariant, PTL

\* A move is asked for or under way only inside a gather nobody has answered.
THEOREM PortMovesInsideGather == PortSpec => []MovesInsideGather
<1>1. PortIInv => MovesInsideGather
  <2> SUFFICES ASSUME PortIInv, Gmove PROVE Gather
    BY DEF MovesInsideGather, Gmove, Gather
  <2>1. QED BY DEF PortIInv, MoveShape, AnswerShape, Moving
<1>2. QED BY <1>1, PortInvariant, PTL

\* The ARM goes on from a move only when all of it has been moved.
THEOREM PortMovesWhole == PortSpec => []MovesWhole
<1>1. PortIInv => MovesWhole
  BY PortAssumption, Bits DEF PortIInv, MovesWhole, MoveShape
<1>2. QED BY <1>1, PortInvariant, PTL

-----------------------------------------------------------------------------
(* What the ARM and the core see is the abstract service.                  *)

due == IF ~Begun /\ runs = 0 THEN 0 ELSE NMoved + HeadGather
asked == LeftNow + (IF g_req THEN 1 ELSE 0)
served == n_gathers

\* An edge on which nothing begins, ends or is answered.
LEMMA QuietEdge ==
  ASSUME PortIInv, NEW e \in BOOLEAN, NEW l \in BOOLEAN, Edge(e, l), PortIInv',
         ~(l /\ pc = "ctrl"), UNCHANGED <<runs, n_gathers>>, Begun' <=> Begun
  PROVE  Service!ServiceNext \/ UNCHANGED Service!ServiceVars
<1> USE PortAssumption, Bits DEF PortIInv, Edge
<1>1. UNCHANGED due BY DEF due, HeadGather, Registers
<1>2. start' <=> start /\ ~busy BY DEF Registers, Start, RunShape, CoreShape
<1>3. CASE Works
  <2>1. UNCHANGED <<LeftNow, asked>> BY <1>2, <1>3 DEF Works, LeftNow, asked
  <2>2. QED BY <1>1, <2>1 DEF Service!ServiceVars, due, asked, HeadGather
<1>4. CASE Starts
  <2>1. UNCHANGED <<LeftNow, asked>>
    BY <1>2, <1>4 DEF Starts, LeftNow, asked, CoreShape, RunShape, Waiting
  <2>2. QED BY <1>1, <2>1 DEF Service!ServiceVars, due, asked, HeadGather
<1>5. CASE Ends
  <2>1. ~start BY <1>5 DEF Ends, RunShape
  <2>2. UNCHANGED <<LeftNow, asked>> BY <1>2, <1>5, <2>1 DEF Ends, LeftNow, asked
  <2>3. QED BY <1>1, <2>2 DEF Service!ServiceVars, due, asked, HeadGather
<1>6. CASE Asks
  <2>1. Begun /\ LeftNow = passed BY <1>6 DEF Asks, LeftNow, RunShape, CoreShape
  <2>2. passed' = passed /\ (passed < NMoved \/ (passed = NMoved /\ hen))
    BY <1>6 DEF Asks, CoreShape, OnHead, Waiting, PortTypeOK
  <2>3. hen <=> head_en BY <1>6, <2>1 DEF Asks, RunShape
  <2>4. LeftNow' = passed BY <1>6 DEF Asks, LeftNow
  <2>5. asked = LeftNow /\ asked' = asked + 1 BY <1>6, <2>1, <2>4 DEF Asks, asked, PortTypeOK
  <2>6. asked < due BY <2>1, <2>2, <2>3, <2>5 DEF due, HeadGather, PortTypeOK
  <2>7. Service!Ask BY <1>1, <2>1, <2>4, <2>5, <2>6 DEF Service!Ask, due, asked, HeadGather
  <2>8. QED BY <2>7 DEF Service!ServiceNext
<1>7. CASE TakesLast \/ TakesOne
  <2>1. g_req /\ g_done /\ ~g_req' /\ passed' = passed + 1 BY <1>7 DEF TakesLast, TakesOne, TakesAnswer
  <2>2. busy /\ Begun /\ ~start BY <2>1 DEF CoreShape, RunShape, Waiting
  <2>3. LeftNow = passed /\ n_gathers = passed + 1 BY <2>1, <2>2 DEF LeftNow, AnswerShape
  <2>4. LeftNow' = passed + 1 BY <1>2, <2>1, <2>2 DEF LeftNow
  <2>5. UNCHANGED asked BY <2>1, <2>3, <2>4 DEF asked, PortTypeOK
  <2>6. LeftNow < n_gathers BY <2>3 DEF PortTypeOK
  <2>7. Service!GoOn BY <1>1, <2>3, <2>4, <2>5, <2>6 DEF Service!GoOn, due, asked, HeadGather
  <2>8. QED BY <2>7 DEF Service!ServiceNext
<1>8. QED BY <1>3, <1>4, <1>5, <1>6, <1>7, CoreKinds

LEMMA ServedStep ==
  ASSUME PortIInv, NEW e \in BOOLEAN, NEW l \in BOOLEAN, Edge(e, l), PortIInv'
  PROVE  Service!ServiceNext \/ UNCHANGED Service!ServiceVars
<1> USE PortAssumption, Bits DEF PortIInv, Edge
<1>1. CASE ~l
  <2>1. UNCHANGED <<pc, runs, n_gathers>> BY <1>1 DEF arm
  <2>2. QED BY <1>1, <2>1, QuietEdge DEF Begun
<1>2. CASE l /\ pc = "ctrl"
  <2>1. ~busy /\ ~g_req /\ ~Begun /\ runs # NRuns
    BY <1>2 DEF RunShape, CoreShape, Begun, Waiting
  <2>2. start' /\ ~g_done' BY <1>2, <2>1 DEF Registers, Start, Answered, RunShape
  <2>3. pc' = "poll" /\ UNCHANGED runs /\ n_gathers' = 0 BY <1>2, LandsKinds
  <2>4. ~busy' /\ ~g_req'
    BY <1>2, <2>1, CoreKinds
    DEF Works, Starts, Asks, Ends, TakesLast, TakesOne, TakesAnswer, RunShape
  <2>5. Begun' /\ LeftNow' = 0 BY <2>2, <2>3, <2>4 DEF Begun, LeftNow
  <2>6. due' \in {NMoved, NMoved + 1} BY <2>5 DEF due, HeadGather
  <2>7. asked' = 0 BY <2>4, <2>5 DEF asked
  <2>8. runs < NRuns BY <2>1 DEF PortTypeOK
  <2>9. Service!Begin
    BY <2>1, <2>3, <2>5, <2>6, <2>7, <2>8 DEF Service!Begin, due, asked, HeadGather
  <2>10. QED BY <2>9 DEF Service!ServiceNext
<1>3. CASE l /\ pc = "status" /\ done_s
  <2>1. Begun /\ ~busy /\ ~start /\ ~g_req BY <1>3 DEF RunShape, CoreShape, Begun, Waiting
  <2>2. passed = NMoved + HeadGather BY <2>1 DEF RunShape
  <2>3. Works
    BY <2>1, CoreKinds DEF Starts, Asks, Ends, TakesLast, TakesOne, TakesAnswer
  <2>4. ~start' /\ UNCHANGED head_en BY <1>3, <2>1 DEF Registers, Start
  <2>5. runs' = runs + 1 /\ UNCHANGED n_gathers /\ pc' \in {"ctrl", "over"}
    BY <1>3, LandsKinds
  <2>6. ~Begun' BY <2>5 DEF Begun
  <2>7. LeftNow = passed /\ UNCHANGED <<LeftNow, asked>>
    BY <2>1, <2>3, <2>4 DEF LeftNow, asked, Works
  <2>8. due = NMoved + HeadGather BY <2>1 DEF due
  <2>9. UNCHANGED due
    <3>1. runs' # 0 BY <2>5 DEF PortTypeOK
    <3>2. UNCHANGED HeadGather BY <2>4 DEF HeadGather
    <3>3. QED BY <2>8, <3>1, <3>2 DEF due
  <2>10. Service!End
    BY <2>1, <2>2, <2>5, <2>6, <2>7, <2>8, <2>9 DEF Service!End, due, asked, HeadGather
  <2>11. QED BY <2>10 DEF Service!ServiceNext
<1>4. CASE l /\ pc = "answer"
  <2>1. Gather /\ Begun BY <1>4 DEF AnswerShape, Begun
  <2>2. g_req /\ ~g_done /\ busy /\ ~start
    BY <2>1 DEF Gather, CoreShape, RunShape, Waiting
  <2>3. UNCHANGED <<passed, busy, g_req>>
    BY <2>2, CoreKinds DEF Works, Starts, Asks, Ends, TakesLast, TakesOne, TakesAnswer
  <2>4. ~start' /\ UNCHANGED head_en BY <1>4, <2>2 DEF Registers, Start
  <2>5. pc' = "poll" /\ UNCHANGED runs /\ n_gathers' = n_gathers + 1 BY <1>4, LandsKinds
  <2>6. Begun' BY <2>5 DEF Begun
  <2>7. LeftNow = passed /\ n_gathers = passed /\ asked = passed + 1
    BY <2>1, <2>2 DEF LeftNow, asked, AnswerShape
  <2>8. UNCHANGED <<LeftNow, asked>> BY <2>2, <2>3, <2>4 DEF LeftNow, asked
  <2>9. UNCHANGED due BY <2>1, <2>4, <2>6 DEF due, HeadGather
  <2>10. n_gathers < asked BY <2>7 DEF PortTypeOK
  <2>11. Service!Serve
    BY <2>1, <2>5, <2>6, <2>8, <2>9, <2>10 DEF Service!Serve, due, asked, HeadGather
  <2>12. QED BY <2>11 DEF Service!ServiceNext
<1>5. CASE l /\ pc \notin {"ctrl", "answer"} /\ ~(pc = "status" /\ done_s)
  <2>1. UNCHANGED <<runs, n_gathers>> /\ Begun /\ Begun'
    BY <1>5, LandsKinds DEF Lands, Begun
  <2>2. QED BY <1>5, <2>1, QuietEdge
<1>6. QED BY <1>1, <1>2, <1>3, <1>4, <1>5

\* The registers implement the abstract service: each gather the core asks for
\* is answered once and only then left, and the ARM finds a run over exactly
\* when the core has left its last gather.
THEOREM PortServesEach == PortSpec => ServesEach
<1>1. PortInit => Service!ServiceInit
  BY PortAssumption DEF PortInit, Service!ServiceInit, Begun, LeftNow
<1>2. PortIInv /\ PortIInv' /\ [PortNext]_portVars => [Service!ServiceNext]_(Service!ServiceVars)
  <2>1. ASSUME PortIInv, PortIInv', PortNext PROVE Service!ServiceNext \/ UNCHANGED Service!ServiceVars
    BY <2>1, ServedStep DEF PortNext
  <2>2. ASSUME UNCHANGED portVars PROVE UNCHANGED Service!ServiceVars
    BY <2>2 DEF portVars, core, arm, Service!ServiceVars, Begun, LeftNow
  <2>3. QED BY <2>1, <2>2
<1>3. QED BY <1>1, <1>2, PortInvariant, PTL DEF PortSpec, ServesEach, Service!ServiceSpec
=============================================================================
