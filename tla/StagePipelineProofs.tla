------------------------ MODULE StagePipelineProofs ------------------------
(***************************************************************************)
(* The pipeline for any number of stages, parts, positions, losses,        *)
(* duplicates and early timeouts: the boards run the very tokens a single  *)
(* board would (SingleBoard), and sending again multiplies no answers.     *)
(***************************************************************************)
EXTENDS StagePipeline, FiniteSetTheorems, TLAPS

-----------------------------------------------------------------------------
(* Bags: what is in them after a step of the network, and their copies.    *)

CopiesOf(B, S) == UNION {{m} \X (1..B[m]) : m \in BagToSet(B) \cap S}

LEMMA Removed ==
  ASSUME NEW B, IsABag(B), NEW m \in BagToSet(B)
  PROVE  /\ IsABag(BagRemove(B, m))
         /\ BagToSet(BagRemove(B, m)) \subseteq BagToSet(B)
<1>1. CASE B[m] = 1
  BY <1>1 DEF BagRemove, BagToSet, IsABag
<1>2. CASE B[m] # 1
  BY <1>2 DEF BagRemove, BagToSet, IsABag
<1>3. QED BY <1>1, <1>2

LEMMA Added ==
  ASSUME NEW B, IsABag(B), NEW m \in BagToSet(B)
  PROVE  /\ IsABag(BagAdd(B, m))
         /\ BagToSet(BagAdd(B, m)) = BagToSet(B)
BY DEF BagAdd, BagToSet, IsABag

LEMMA Sent ==
  ASSUME NEW B, IsABag(B), NEW S
  PROVE  /\ IsABag(B (+) SetToBag(S))
         /\ BagToSet(B (+) SetToBag(S)) = BagToSet(B) \cup S
BY DEF SetToBag, BagToSet, IsABag, (+)

LEMMA Nothing == IsABag(EmptyBag) /\ BagToSet(EmptyBag) = {}
BY DEF EmptyBag, SetToBag, IsABag, BagToSet

LEMMA SentNothing == ASSUME NEW B, IsABag(B) PROVE B (+) EmptyBag = B
BY DEF EmptyBag, SetToBag, IsABag, (+)

LEMMA Copy ==
  ASSUME NEW B, NEW S, NEW x
  PROVE  x \in CopiesOf(B, S)
           <=> \E m \in BagToSet(B) \cap S : \E n \in 1..B[m] : x = <<m, n>>
BY DEF CopiesOf

\* One copy goes, and it is of m.
LEMMA CopyRemoved ==
  ASSUME NEW B, IsABag(B), NEW m \in BagToSet(B), NEW S
  PROVE  /\ m \in S => \E x \in CopiesOf(B, S) :
                         CopiesOf(BagRemove(B, m), S) = CopiesOf(B, S) \ {x}
         /\ m \notin S => CopiesOf(BagRemove(B, m), S) = CopiesOf(B, S)
<1> DEFINE B1 == BagRemove(B, m)
<1>1. /\ BagToSet(B1) = IF B[m] = 1 THEN BagToSet(B) \ {m} ELSE BagToSet(B)
      /\ \A x \in BagToSet(B1) : B1[x] = IF x = m THEN B[m] - 1 ELSE B[x]
  BY DEF BagRemove, BagToSet, IsABag
<1>2. \A x \in BagToSet(B) : B[x] \in Nat \ {0}
  BY DEF IsABag, BagToSet
<1> HIDE DEF B1
<1>3. CopiesOf(B1, S) = CopiesOf(B, S) \ {<<m, B[m]>>}
  <2>1. SUFFICES ASSUME NEW x
                 PROVE  x \in CopiesOf(B1, S)
                          <=> x \in CopiesOf(B, S) /\ x # <<m, B[m]>>
    OBVIOUS
  <2>2. x \in CopiesOf(B1, S) <=>
          \E y \in BagToSet(B1) \cap S : \E n \in 1..B1[y] : x = <<y, n>>
    BY Copy
  <2>3. x \in CopiesOf(B, S) <=>
          \E y \in BagToSet(B) \cap S : \E n \in 1..B[y] : x = <<y, n>>
    BY Copy
  <2>4. ASSUME NEW y \in BagToSet(B), NEW n
        PROVE  y \in BagToSet(B1) /\ n \in 1..B1[y]
                 <=> n \in 1..B[y] /\ <<y, n>> # <<m, B[m]>>
    <3>1. CASE y = m
      <4>1. CASE B[m] = 1 BY <1>1, <3>1, <4>1
      <4>2. CASE B[m] # 1 BY <1>1, <1>2, <3>1, <4>2
      <4>3. QED BY <4>1, <4>2
    <3>2. CASE y # m
      BY <1>1, <3>2
    <3>3. QED BY <3>1, <3>2
  <2>5. BagToSet(B1) \subseteq BagToSet(B) BY <1>1
  <2>6. QED BY <2>2, <2>3, <2>4, <2>5
<1>4. m \in S => <<m, B[m]>> \in CopiesOf(B, S)
  <2>1. B[m] \in 1..B[m] BY <1>2
  <2>2. QED BY <2>1, Copy
<1>5. m \notin S => <<m, B[m]>> \notin CopiesOf(B, S)
  BY Copy
<1>6. QED BY <1>3, <1>4, <1>5 DEF B1

\* One copy comes, and it is of m.
LEMMA CopyAdded ==
  ASSUME NEW B, IsABag(B), NEW m \in BagToSet(B), NEW S
  PROVE  \E x : CopiesOf(BagAdd(B, m), S) \subseteq CopiesOf(B, S) \cup {x}
<1> DEFINE B1 == BagAdd(B, m)
<1>1. /\ BagToSet(B1) = BagToSet(B)
      /\ \A y \in BagToSet(B) : B1[y] = IF y = m THEN B[y] + 1 ELSE B[y]
  BY DEF BagAdd, BagToSet, IsABag
<1>2. \A x \in BagToSet(B) : B[x] \in Nat \ {0}
  BY DEF IsABag, BagToSet
<1> HIDE DEF B1
<1>3. CopiesOf(B1, S) \subseteq CopiesOf(B, S) \cup {<<m, B[m] + 1>>}
  <2>1. SUFFICES ASSUME NEW x \in CopiesOf(B1, S)
                 PROVE  x \in CopiesOf(B, S) \/ x = <<m, B[m] + 1>>
    OBVIOUS
  <2>0. PICK y \in BagToSet(B1) \cap S : \E n \in 1..B1[y] : x = <<y, n>>
    BY Copy
  <2>2. PICK n \in 1..B1[y] : x = <<y, n>>
    BY <2>0
  <2>3. n \in 1..B[y] \/ (y = m /\ n = B[m] + 1)
    BY <1>1, <1>2, <2>2
  <2>4. QED BY <1>1, <2>2, <2>3, Copy
<1>4. QED BY <1>3 DEF B1

\* Of what is sent, no more than one datagram counts.
LEMMA CopySent ==
  ASSUME NEW B, IsABag(B), NEW T, NEW S, NEW m, T \cap S \subseteq {m}
  PROVE  \E x : CopiesOf(B (+) SetToBag(T), S) \subseteq CopiesOf(B, S) \cup {x}
<1> DEFINE B1 == B (+) SetToBag(T)
           b == IF m \in BagToSet(B) THEN B[m] ELSE 0
<1>1. /\ BagToSet(B1) = BagToSet(B) \cup T
      /\ \A y \in BagToSet(B) \cup T :
           B1[y] = (IF y \in BagToSet(B) THEN B[y] ELSE 0)
                     + (IF y \in T THEN 1 ELSE 0)
  BY DEF SetToBag, BagToSet, IsABag, (+)
<1>2. \A x \in BagToSet(B) : B[x] \in Nat \ {0}
  BY DEF IsABag, BagToSet
<1> HIDE DEF B1
<1>3. CopiesOf(B1, S) \subseteq CopiesOf(B, S) \cup {<<m, b + 1>>}
  <2>1. SUFFICES ASSUME NEW x \in CopiesOf(B1, S)
                 PROVE  x \in CopiesOf(B, S) \/ x = <<m, b + 1>>
    OBVIOUS
  <2>0. PICK y \in BagToSet(B1) \cap S : \E n \in 1..B1[y] : x = <<y, n>>
    BY Copy
  <2>2. PICK n \in 1..B1[y] : x = <<y, n>>
    BY <2>0
  <2>3. CASE y \in T
    <3>1. y = m BY <2>2, <2>3
    <3>2. (y \in BagToSet(B) /\ n \in 1..B[y]) \/ n = b + 1
      BY <1>1, <1>2, <2>2, <2>3, <3>1
    <3>3. QED BY <2>2, <3>1, <3>2, Copy
  <2>4. CASE y \notin T
    <3>1. y \in BagToSet(B) /\ n \in 1..B[y]
      BY <1>1, <1>2, <2>2, <2>4
    <3>2. QED BY <2>2, <3>1, Copy
  <2>5. QED BY <2>3, <2>4
<1>4. QED BY <1>3 DEF B1

-----------------------------------------------------------------------------
(* Types.                                                                  *)

Types == TypeOK /\ IsABag(net) /\ (first # "done" => pos \in Positions)

LEMMA Sizes ==
  /\ Last \in Nat /\ Last > 0 /\ NPos \in Nat /\ NPrompt \in 1..NPos
  /\ Wrong = NPos + 1 /\ NoPos = NPos /\ Values = 0..Wrong
  /\ 0 \in 0..Last /\ Later \subseteq 0..Last /\ Last \in Later /\ 0 \notin Later
  /\ \A i \in 0..Last : i \in Later <=> i # 0
  /\ \A i \in 0..Last : i # Last => i + 1 \in Later
  /\ 0 \in PartNos /\ Positions \subseteq Values /\ Wrong \in Values
  /\ \A p \in Positions : p + 1 \in Values /\ p + 1 \in 1..NPos
BY StageAssumption DEF Last, Later, Wrong, NoPos, Values, PartNos, Positions

LEMMA SentHidden ==
  ASSUME Types, NEW i \in 0..Last, i # Last, NEW h \in [PartNos -> Values],
         NEW p \in Positions, NEW head \in BOOLEAN
  PROVE  LET out == net (+) send_hidden(i, h, p, head) IN
         /\ IsABag(out)
         /\ BagToSet(out) \subseteq PartMsgs \cup TokenMsgs
         /\ \A m \in BagToSet(out) : m \in BagToSet(net)
              \/ /\ m \in PartMsgs
                 /\ m.to = i + 1 /\ m.pos = p /\ m.head = head /\ m.data = h[m.part]
<1> DEFINE S == {[type |-> "PART", to |-> i + 1, pos |-> p, head |-> head,
                  part |-> k, data |-> h[k]] : k \in PartNos}
<1>1. S \subseteq PartMsgs
  BY Sizes DEF PartMsgs
<1>2. \A m \in S : m.to = i + 1 /\ m.pos = p /\ m.head = head /\ m.data = h[m.part]
  OBVIOUS
<1>3. BagToSet(net) \subseteq PartMsgs \cup TokenMsgs /\ IsABag(net)
  BY DEF Types, TypeOK
<1>4. IsABag(net (+) SetToBag(S)) /\ BagToSet(net (+) SetToBag(S)) = BagToSet(net) \cup S
  BY <1>3, Sent
<1>5. send_hidden(i, h, p, head) = SetToBag(S)
  BY DEF send_hidden
<1> HIDE DEF S
<1>6. QED BY <1>1, <1>2, <1>3, <1>4, <1>5

LEMMA SentOn ==
  ASSUME Types, NEW i \in Later, NEW p \in Positions, NEW out \in Values,
         NEW head \in BOOLEAN
  PROVE  LET to == net (+) Outgoing(i, p, out, head) IN
         /\ IsABag(to)
         /\ BagToSet(to) \subseteq PartMsgs \cup TokenMsgs
         /\ \A m \in BagToSet(to) : m \in BagToSet(net)
              \/ /\ i # Last /\ m \in PartMsgs
                 /\ m.to = i + 1 /\ m.pos = p /\ m.head = head /\ m.data = out
              \/ /\ i = Last /\ m \in TokenMsgs /\ m.pos = p + 1
                 /\ m.tok = IF head THEN (IF out = p THEN p + 1 ELSE Wrong) ELSE 0
<1>1. CASE i = Last
  <2> DEFINE t == [type |-> "TOKEN", to |-> 0, pos |-> p + 1,
                   tok |-> IF head THEN (IF out = p THEN p + 1 ELSE Wrong) ELSE 0]
  <2>1. t \in TokenMsgs
    BY Sizes DEF TokenMsgs
  <2>2. IsABag(net (+) SetToBag({t})) /\ BagToSet(net (+) SetToBag({t})) = BagToSet(net) \cup {t}
    BY Sent DEF Types
  <2>3. Outgoing(i, p, out, head) = SetToBag({t})
    BY <1>1 DEF Outgoing
  <2>4. BagToSet(net) \subseteq PartMsgs \cup TokenMsgs
    BY DEF Types, TypeOK
  <2>5. QED BY <1>1, <2>1, <2>2, <2>3, <2>4
<1>2. CASE i # Last
  <2> DEFINE h == [k \in PartNos |-> out]
  <2>1. h \in [PartNos -> Values] /\ i \in 0..Last
    BY Sizes
  <2>2. Outgoing(i, p, out, head) = send_hidden(i, h, p, head)
    BY <1>2 DEF Outgoing
  <2>3. \A m \in PartMsgs : h[m.part] = out
    BY DEF PartMsgs
  <2> HIDE DEF h
  <2>4. QED BY <1>2, <2>1, <2>2, <2>3, SentHidden
<1>3. QED BY <1>1, <1>2

LEMMA OutputType ==
  ASSUME NEW i, NEW p \in Positions, NEW x
  PROVE  Output(i, p, x) \in Values
BY Sizes DEF Output

LEMMA CachedType ==
  ASSUME Types, NEW i \in 0..Last, NEW p \in Positions, NEW x \in Values
  PROVE  /\ Cached(i, p, x) \in [0..Last -> [Positions -> Values]]
         /\ \A j \in 0..Last : \A q \in Positions :
              Cached(i, p, x)[j][q] = IF j = i /\ q = p THEN x ELSE kv[j][q]
BY DEF Cached, Types, TypeOK

LEMMA InitTypes == Init => Types
<1> SUFFICES ASSUME Init PROVE Types
  OBVIOUS
<1>1. IsABag(net) /\ BagToSet(net) = {}
  BY Nothing DEF Init
<1>2. /\ Wrong \in Values /\ 0 \in Values /\ 0 \in 0..NPos /\ NoPos \in 0..NoPos
      /\ 0 \in Positions
  BY Sizes, StageAssumption DEF Positions
<1>3. /\ hid \in [0..Last -> [PartNos -> Values]]
      /\ kv \in [0..Last -> [Positions -> Values]]
  BY <1>2 DEF Init
<1>4. /\ part_pos \in [Later -> 0..NoPos] /\ part_got \in [Later -> SUBSET PartNos]
      /\ got_hidden \in [Later -> BOOLEAN]
      /\ state_of \in [Later -> [pos : Positions, head : BOOLEAN]]
  BY <1>2 DEF Init
<1>5. /\ first = "run" /\ pos \in 0..NPos /\ tok \in Values
      /\ got_token \in BOOLEAN
  BY <1>2 DEF Init
<1>8. answer \in [pos : 0..NPos, tok : Values]
  BY <1>2 DEF Init
<1>9. /\ lost \in 0..MaxLost /\ dups \in 0..MaxDups /\ early \in 0..MaxEarly
  BY <1>2, StageAssumption DEF Init
<1>6. pos \in Positions
  BY <1>2 DEF Init
<1>7. QED BY <1>1, <1>3, <1>4, <1>5, <1>6, <1>8, <1>9 DEF Types, TypeOK

LEMMA SentAgain ==
  ASSUME Types, first = "wait", SendAgain
  PROVE  /\ IsABag(net') /\ BagToSet(net') \subseteq PartMsgs \cup TokenMsgs
         /\ \A m \in BagToSet(net') : m \in BagToSet(net)
              \/ /\ m \in PartMsgs /\ m.to = 1 /\ m.pos = pos
                 /\ m.head = NeedsHead(pos) /\ m.data = hid[0][m.part]
<1>1. hid[0] \in [PartNos -> Values] /\ NeedsHead(pos) \in BOOLEAN /\ pos \in Positions
  BY Sizes DEF Types, TypeOK, NeedsHead
<1>2. QED BY <1>1, Sizes, SentHidden DEF SendAgain

LEMMA NextTypes == Types /\ [Next]_vars => Types'
<1> SUFFICES ASSUME Types, [Next]_vars PROVE Types'
  OBVIOUS
<1> USE DEF network, firstVars, laterVars
<1>1. CASE Run
  <2> DEFINE h == [k \in PartNos |-> Output(0, pos, tok)]
  <2>1. pos \in Positions /\ tok \in Values
    BY <1>1 DEF Run, Types, TypeOK
  <2>2. h \in [PartNos -> Values] /\ NeedsHead(pos) \in BOOLEAN
    BY <2>1, OutputType DEF NeedsHead
  <2>3. /\ IsABag(net') /\ BagToSet(net') \subseteq PartMsgs \cup TokenMsgs
    BY <1>1, <2>1, <2>2, Sizes, SentHidden DEF Run
  <2>4. kv' \in [0..Last -> [Positions -> Values]]
    BY <1>1, <2>1, Sizes, CachedType DEF Run
  <2>5. hid' \in [0..Last -> [PartNos -> Values]]
    BY <1>1, <2>2 DEF Run, Types, TypeOK
  <2>6. QED BY <1>1, <2>1, <2>3, <2>4, <2>5 DEF Run, Types, TypeOK
<1>2. CASE Answered
  <2>1. CASE Awaited(answer)
    <3>1. /\ pos' \in 0..NPos /\ (first' # "done" => pos' \in Positions)
          /\ first' \in {"run", "wait", "done"}
      BY <1>2, <2>1, StageAssumption DEF Answered, Types, TypeOK, Positions
    <3>2. tok' \in Values
      BY <1>2, <2>1, Sizes, StageAssumption DEF Answered, Types, TypeOK
    <3>3. UNCHANGED <<net, answer, hid, kv, laterVars, network>> /\ got_token' = FALSE
      BY <1>2, <2>1 DEF Answered
    <3>4. QED BY <3>1, <3>2, <3>3 DEF Types, TypeOK
  <2>2. CASE ~Awaited(answer)
    <3>1. SendAgain /\ first = "wait"
      BY <1>2, <2>2 DEF Answered
    <3>2. UNCHANGED <<first, pos, tok, answer, hid, kv, laterVars, network>> /\ got_token' = FALSE
      BY <1>2, <2>2 DEF Answered
    <3>3. QED BY <3>1, <3>2, SentAgain DEF Types, TypeOK
  <2>3. QED BY <2>1, <2>2
<1>3. CASE Timeout
  <2>1. UNCHANGED <<firstVars, hid, kv, laterVars, network>>
    BY <1>3 DEF Timeout
  <2>2. QED BY <1>3, <2>1, SentAgain DEF Timeout, Types, TypeOK
<1>4. CASE TimeoutEarly
  <2>1. UNCHANGED <<firstVars, hid, kv, laterVars, lost, dups>> /\ early' \in 0..MaxEarly
    BY <1>4, StageAssumption DEF TimeoutEarly, Types, TypeOK
  <2>2. QED BY <1>4, <2>1, SentAgain DEF TimeoutEarly, Types, TypeOK
<1>5. ASSUME NEW i \in Later, Stage(i) PROVE Types'
  <2> DEFINE p == state_of[i].pos
             x == IF \A k \in PartNos : hid[i][k] = p THEN p ELSE Wrong
             out == Output(i, p, x)
  <2>1. p \in Positions /\ x \in Values /\ state_of[i].head \in BOOLEAN /\ i \in 0..Last
    BY Sizes DEF Types, TypeOK
  <2>2. out \in Values
    BY <2>1, OutputType
  <2>3. /\ IsABag(net') /\ BagToSet(net') \subseteq PartMsgs \cup TokenMsgs
    <3> HIDE DEF x
    <3>1. net' = net (+) Outgoing(i, p, out, state_of[i].head)
      BY <1>5 DEF Stage, x
    <3> HIDE DEF p, out
    <3>2. QED BY <2>1, <2>2, <3>1, SentOn
  <2>4. kv' \in [0..Last -> [Positions -> Values]]
    <3>1. kv' = Cached(i, p, x)
      BY <1>5 DEF Stage
    <3> HIDE DEF p, x
    <3>2. QED BY <2>1, <3>1, CachedType
  <2>5. hid' \in [0..Last -> [PartNos -> Values]]
    <3>1. hid' = IF i = Last THEN hid ELSE [hid EXCEPT ![i] = [k \in PartNos |-> out]]
      BY <1>5 DEF Stage
    <3> HIDE DEF out
    <3>2. QED BY <2>2, <3>1 DEF Types, TypeOK
  <2>6. got_hidden' \in [Later -> BOOLEAN] /\ UNCHANGED <<firstVars, part_pos, part_got, state_of, network>>
    BY <1>5 DEF Stage, Types, TypeOK
  <2>7. QED BY <2>3, <2>4, <2>5, <2>6 DEF Types, TypeOK
<1>6. ASSUME NEW m \in BagToSet(net), net' = BagRemove(net, m)
      PROVE  IsABag(net') /\ BagToSet(net') \subseteq PartMsgs \cup TokenMsgs
  BY <1>6, Removed DEF Types, TypeOK
<1>7. ASSUME NEW m \in BagToSet(net), m.to = 0, rx_token(m) PROVE Types'
  <2>1. m \in TokenMsgs
    BY <1>7, Sizes DEF Types, TypeOK, PartMsgs
  <2>2. answer' \in [pos : 0..NPos, tok : Values] /\ got_token' = TRUE
    BY <1>7, <2>1 DEF rx_token, TokenMsgs
  <2>3. net' = BagRemove(net, m) /\ UNCHANGED <<first, pos, tok, hid, kv, laterVars, network>>
    BY <1>7 DEF rx_token
  <2>4. QED BY <1>6, <2>2, <2>3 DEF Types, TypeOK
<1>8. ASSUME NEW i \in Later, NEW m \in BagToSet(net), m.to = i, rx_part(i, m) PROVE Types'
  <2>1. m \in PartMsgs /\ i \in 0..Last
    BY <1>8, Sizes DEF Types, TypeOK, TokenMsgs
  <2>2. hid' \in [0..Last -> [PartNos -> Values]]
    BY <1>8, <2>1 DEF rx_part, Types, TypeOK, PartMsgs
  <2>3. Collected(i, m) \in SUBSET PartNos
    BY <2>1 DEF Collected, PartMsgs, Types, TypeOK
  <2>4. part_got' \in [Later -> SUBSET PartNos]
    BY <1>8, <2>3 DEF rx_part, Types, TypeOK
  <2>5. part_pos' \in [Later -> 0..NoPos] /\ got_hidden' \in [Later -> BOOLEAN]
    <3> DEFINE all == Collected(i, m) = PartNos
    <3>1. m.pos \in 0..NoPos /\ NoPos \in 0..NoPos
      BY <2>1, Sizes DEF PartMsgs, Positions
    <3>2. Collecting(i, m, all) \in 0..NoPos
      BY <3>1 DEF Collecting
    <3>3. /\ part_pos' = [part_pos EXCEPT ![i] = Collecting(i, m, all)]
          /\ got_hidden' = [got_hidden EXCEPT ![i] = all]
      BY <1>8 DEF rx_part
    <3>4. all \in BOOLEAN
      OBVIOUS
    <3> HIDE DEF all
    <3>5. QED BY <3>2, <3>3, <3>4 DEF Types, TypeOK
  <2>6. state_of' \in [Later -> [pos : Positions, head : BOOLEAN]]
    BY <1>8, <2>1 DEF rx_part, Types, TypeOK, PartMsgs
  <2>7. net' = BagRemove(net, m) /\ UNCHANGED <<firstVars, kv, network>>
    BY <1>8 DEF rx_part
  <2>8. QED BY <1>6, <2>2, <2>4, <2>5, <2>6, <2>7 DEF Types, TypeOK
<1>9. ASSUME NEW i \in 0..Last, rx(i) PROVE Types'
  <2>1. PICK m \in BagToSet(net) : m.to = i /\ IF i = 0 THEN rx_token(m) ELSE rx_part(i, m)
    BY <1>9 DEF rx
  <2>2. QED BY <1>7, <1>8, <2>1, Sizes
<1>10. ASSUME NEW m \in BagToSet(net), Lose(m) PROVE Types'
  <2>1. /\ UNCHANGED <<firstVars, hid, kv, laterVars, dups, early>> /\ net' = BagRemove(net, m)
        /\ lost' \in 0..MaxLost
    BY <1>10, StageAssumption DEF Lose, Types, TypeOK
  <2>2. QED BY <1>6, <2>1 DEF Types, TypeOK
<1>11. ASSUME NEW m \in BagToSet(net), Duplicate(m) PROVE Types'
  <2>1. /\ UNCHANGED <<firstVars, hid, kv, laterVars, lost, early>> /\ net' = BagAdd(net, m)
        /\ dups' \in 0..MaxDups
    BY <1>11, StageAssumption DEF Duplicate, Types, TypeOK
  <2>2. IsABag(net') /\ BagToSet(net') \subseteq PartMsgs \cup TokenMsgs
    BY <2>1, Added DEF Types, TypeOK
  <2>3. QED BY <2>1, <2>2 DEF Types, TypeOK
<1>12. CASE UNCHANGED vars
  BY <1>12 DEF vars, Types, TypeOK
<1>13. QED
  BY <1>1, <1>2, <1>3, <1>4, <1>5, <1>9, <1>10, <1>11, <1>12 DEF Next, Finished

-----------------------------------------------------------------------------
(* The inductive invariant: whatever is under way for a position is right, *)
(* and every stage before the one it is for has that position's entry.     *)

\* With caches c and the first stage at position q.
ReachedIn(c, q, i, p) ==
  p \in Positions /\ p <= q /\ \A j \in 0..(i - 1) : c[j][p] = p
AnswerIn(c, q, p, t) ==
  ReachedIn(c, q, NStages, p - 1) /\ (NeedsHead(p - 1) => t = p)

Reached(i, p) == ReachedIn(kv, pos, i, p)
AnswerOf(p, t) == AnswerIn(kv, pos, p, t)

DatagramsRight ==
  /\ \A m \in BagToSet(net) \cap PartMsgs :
       Reached(m.to, m.pos) /\ m.data = m.pos /\ m.head = NeedsHead(m.pos)
  /\ \A m \in BagToSet(net) \cap TokenMsgs : AnswerOf(m.pos, m.tok)

AnswerRight == got_token => AnswerOf(answer.pos, answer.tok)

FirstRight ==
  /\ tok = pos
  /\ first = "wait" => kv[0][pos] = pos /\ \A k \in PartNos : hid[0][k] = pos

\* The parts a stage has are of the position it collects.
PartsRight ==
  \A i \in Later : part_pos[i] # NoPos =>
    /\ Reached(i, part_pos[i]) /\ part_got[i] # PartNos
    /\ \A k \in part_got[i] : hid[i][k] = part_pos[i]

StatesRight ==
  \A i \in Later : got_hidden[i] =>
    /\ part_pos[i] = NoPos /\ Reached(i, state_of[i].pos)
    /\ \A k \in PartNos : hid[i][k] = state_of[i].pos
    /\ state_of[i].head = NeedsHead(state_of[i].pos)

IInv == /\ Types /\ DatagramsRight /\ AnswerRight /\ FirstRight
        /\ PartsRight /\ StatesRight /\ CachesFull

\* No step takes back a cache entry that is right.
Grows == /\ pos <= pos'
         /\ \A j \in 0..Last : \A q \in Positions : kv[j][q] = q => kv'[j][q] = q

LEMMA StillReached ==
  ASSUME Grows, Types, Types', NEW i \in 0..NStages, NEW p, Reached(i, p)
  PROVE  ReachedIn(kv', pos', i, p)
<1>1. pos \in Nat /\ pos' \in Nat /\ Positions \subseteq Nat
  BY Sizes DEF Types, TypeOK, Positions
<1>2. \A j \in 0..(i - 1) : j \in 0..Last
  BY StageAssumption DEF Last
<1>3. QED BY <1>1, <1>2 DEF Grows, Reached, ReachedIn

LEMMA StillAnswer ==
  ASSUME Grows, Types, Types', NEW p, NEW t, AnswerOf(p, t)
  PROVE  AnswerIn(kv', pos', p, t)
<1>1. NStages \in 0..NStages
  BY StageAssumption
<1>2. QED BY <1>1, StillReached DEF AnswerOf, AnswerIn, Reached

\* What is under way stays right; the new has to be shown right.
LEMMA StillRight ==
  ASSUME Grows, Types, Types', DatagramsRight, NEW m \in BagToSet(net)
  PROVE  /\ m \in PartMsgs => /\ ReachedIn(kv', pos', m.to, m.pos)
                              /\ m.data = m.pos /\ m.head = NeedsHead(m.pos)
         /\ m \in TokenMsgs => AnswerIn(kv', pos', m.pos, m.tok)
<1>1. ASSUME m \in PartMsgs PROVE ReachedIn(kv', pos', m.to, m.pos)
  <2>1. m.to \in 0..NStages
    BY <1>1, StageAssumption DEF PartMsgs, Later
  <2>2. QED BY <1>1, <2>1, StillReached DEF DatagramsRight, AnswerOf, Reached
<1>2. QED BY <1>1, StillAnswer DEF DatagramsRight, NeedsHead, AnswerOf, Reached

LEMMA SameNet ==
  ASSUME Grows, Types, Types', DatagramsRight, BagToSet(net') \subseteq BagToSet(net)
  PROVE  DatagramsRight'
BY StillRight DEF DatagramsRight, AnswerOf, Reached

LEMMA InitInv == Init => IInv
<1> SUFFICES ASSUME Init PROVE IInv
  OBVIOUS
<1>1. Types BY InitTypes
<1>2. BagToSet(net) = {} BY Nothing DEF Init
<1>3. CachesFull
  BY Sizes DEF Init, CachesFull, Positions
<1>4. QED
  BY <1>1, <1>2, <1>3 DEF Init, IInv, DatagramsRight, AnswerRight, FirstRight, PartsRight,
                          StatesRight, AnswerOf, Reached

\* A position's state goes on to the next stage.
LEMMA SentRight ==
  ASSUME IInv, Types', Grows, NEW i \in 0..Last, i # Last,
         NEW p \in Positions, p <= pos', ReachedIn(kv', pos', i + 1, p),
         \A m \in BagToSet(net') : m \in BagToSet(net)
           \/ /\ m \in PartMsgs /\ m.to = i + 1 /\ m.pos = p
              /\ m.head = NeedsHead(p) /\ m.data = p
  PROVE  DatagramsRight'
<1>1. PartMsgs \cap TokenMsgs = {}
  BY DEF PartMsgs, TokenMsgs
<1>2. QED BY <1>1, StillRight DEF IInv, DatagramsRight, NeedsHead, AnswerOf, Reached

LEMMA NextInv == IInv /\ [Next]_vars => IInv'
<1> SUFFICES ASSUME IInv, [Next]_vars PROVE IInv'
  OBVIOUS
<1> USE DEF network, firstVars, laterVars
<1>t. Types /\ Types'
  BY NextTypes DEF IInv
<1>n. pos \in Nat /\ Positions \subseteq Nat /\ NPos \in Nat
  BY Sizes DEF Types, TypeOK, Positions, IInv
<1>0. ASSUME Grows, UNCHANGED <<hid, part_pos, part_got, got_hidden, state_of>>
      PROVE  PartsRight' /\ StatesRight'
  <2>1. Later \subseteq 0..NStages
    BY StageAssumption DEF Later
  <2>2. \A i \in Later : \A p : Reached(i, p) => ReachedIn(kv', pos', i, p)
    BY <1>0, <1>t, <2>1, StillReached
  <2>3. PartsRight'
    BY <1>0, <2>2 DEF IInv, PartsRight, Reached
  <2>4. StatesRight'
    BY <1>0, <2>2 DEF IInv, StatesRight, NeedsHead, Reached
  <2>5. QED BY <2>3, <2>4
<1>1. CASE Run
  <2> DEFINE h == [k \in PartNos |-> Output(0, pos, tok)]
  <2>1. pos \in Positions /\ tok = pos /\ tok \in Values
    BY <1>1, <1>t DEF Run, Types, TypeOK, IInv, FirstRight
  <2>2. Output(0, pos, tok) = pos
    <3>1. \A q \in 0..(pos - 1) : q \in Positions /\ q < pos
      BY <1>n, <2>1 DEF Positions
    <3>2. QED BY <2>1, <3>1, Sizes DEF Output, IInv, CachesFull
  <2>3. \A j \in 0..Last : \A q \in Positions :
          kv'[j][q] = IF j = 0 /\ q = pos THEN pos ELSE kv[j][q]
    <3>1. kv' = [kv EXCEPT ![0][pos] = pos] /\ kv \in [0..Last -> [Positions -> Values]]
      BY <1>1, <1>t, <2>1 DEF Run, Cached, Types, TypeOK
    <3>2. QED BY <2>1, <3>1, Sizes
  <2>4. Grows
    BY <1>1, <2>1, <2>3, <1>n DEF Grows, Run
  <2>5. ReachedIn(kv', pos', 1, pos)
    BY <1>1, <2>1, <2>3, <1>n, Sizes DEF ReachedIn, Run
  <2>6. h \in [PartNos -> Values] /\ NeedsHead(pos) \in BOOLEAN
    BY <2>1, <2>2, Sizes DEF NeedsHead
  <2>7. DatagramsRight'
    <3>1. net' = net (+) send_hidden(0, h, pos, NeedsHead(pos))
      BY <1>1 DEF Run
    <3>2. \A m \in PartMsgs : h[m.part] = pos
      BY <2>2 DEF PartMsgs
    <3> HIDE DEF h
    <3>3. \A m \in BagToSet(net') : m \in BagToSet(net)
              \/ /\ m \in PartMsgs /\ m.to = 0 + 1 /\ m.pos = pos
                 /\ m.head = NeedsHead(pos) /\ m.data = pos
      BY <1>t, <2>1, <2>6, <3>1, <3>2, Sizes, SentHidden
    <3>4. pos' = pos
      BY <1>1 DEF Run
    <3>5. QED BY <1>t, <1>n, <2>1, <2>4, <2>5, <3>3, <3>4, Sizes, SentRight
  <2>8. hid' = [hid EXCEPT ![0] = h] /\ UNCHANGED <<part_pos, part_got, got_hidden, state_of>>
    BY <1>1 DEF Run
  <2>9. \A i \in Later : hid'[i] = hid[i]
    BY <2>8, <1>t, Sizes DEF Types, TypeOK
  <2>10. PartsRight' /\ StatesRight'
    <3>1. Later \subseteq 0..NStages
      BY StageAssumption DEF Later
    <3>2. \A i \in Later : i \in 0..NStages /\ hid'[i] = hid[i] /\ part_pos'[i] = part_pos[i]
            /\ part_got'[i] = part_got[i] /\ got_hidden'[i] = got_hidden[i]
            /\ state_of'[i] = state_of[i]
      BY <2>8, <2>9, <3>1
    <3>3. \A i \in Later : \A p : Reached(i, p) => ReachedIn(kv', pos', i, p)
      BY <1>t, <2>4, <3>2, StillReached
    <3>4. PartsRight'
      BY <3>2, <3>3 DEF IInv, PartsRight, Reached
    <3>5. StatesRight'
      BY <3>2, <3>3 DEF IInv, StatesRight, NeedsHead, Reached
    <3>6. QED BY <3>4, <3>5
  <2>11. FirstRight'
    <3>1. \A k \in PartNos : hid'[0][k] = pos
      BY <2>2, <2>8, <1>t, Sizes DEF Types, TypeOK
    <3>2. kv'[0][pos] = pos /\ pos' = pos /\ tok' = tok
      BY <1>1, <2>1, <2>3, Sizes DEF Run
    <3>3. QED BY <2>1, <3>1, <3>2 DEF FirstRight
  <2>12. AnswerRight' /\ CachesFull'
    BY <1>1, <1>t, <2>1, <2>3, <2>4, StillAnswer DEF Run, IInv, AnswerRight, CachesFull, AnswerOf, Reached
  <2>13. QED BY <1>t, <2>7, <2>10, <2>11, <2>12 DEF IInv
<1>2. ASSUME SendAgain, first = "wait", UNCHANGED <<pos, kv, hid>> PROVE DatagramsRight'
  <2>1. pos \in Positions /\ Grows /\ pos <= pos'
    BY <1>2, <1>t, <1>n DEF Types, Grows
  <2>2. ReachedIn(kv', pos', 1, pos)
    BY <1>2, <1>n, <2>1 DEF IInv, FirstRight, ReachedIn
  <2>3. \A m \in BagToSet(net') : m \in BagToSet(net)
              \/ /\ m \in PartMsgs /\ m.to = 0 + 1 /\ m.pos = pos
                 /\ m.head = NeedsHead(pos) /\ m.data = pos
    BY <1>2, <1>t, SentAgain DEF PartMsgs, IInv, FirstRight
  <2>4. QED BY <1>t, <2>1, <2>2, <2>3, Sizes, SentRight
<1>3. CASE Answered
  <2>1. first = "wait" /\ got_token /\ got_token' = FALSE
        /\ UNCHANGED <<answer, hid, kv, laterVars>>
    BY <1>3 DEF Answered
  <2>2. CASE Awaited(answer)
    <3>1. pos' = pos + 1 /\ net' = net /\ first' # "wait"
      BY <1>3, <2>2 DEF Answered
    <3>2. AnswerOf(pos + 1, answer.tok) /\ pos \in Positions
      BY <2>1, <2>2, <1>t DEF IInv, AnswerRight, Awaited, Types, AnswerOf, Reached
    <3>3. \A j \in 0..Last : kv[j][pos] = pos
      BY <1>n, <3>2, StageAssumption DEF AnswerOf, AnswerIn, ReachedIn, Last
    <3>4. Grows
      BY <1>n, <2>1, <3>1 DEF Grows
    <3>5. tok' = pos + 1
      <4>1. CASE pos + 1 < NPrompt
        BY <1>3, <2>2, <4>1 DEF Answered
      <4>2. CASE ~(pos + 1 < NPrompt)
        <5>1. NeedsHead(pos) /\ answer.tok = pos + 1
          BY <1>n, <3>2, <4>2, Sizes DEF NeedsHead, AnswerOf, AnswerIn
        <5>2. QED BY <1>3, <2>2, <4>2, <5>1 DEF Answered
      <4>3. QED BY <4>1, <4>2
    <3>6. CachesFull'
      <4>1. \A q \in Positions : q < pos + 1 => q < pos \/ q = pos
        BY <1>n
      <4>2. QED BY <2>1, <3>1, <3>3, <4>1 DEF IInv, CachesFull
    <3>7. DatagramsRight'
      BY <1>t, <3>1, <3>4, SameNet DEF IInv
    <3>8. QED BY <1>t, <1>0, <2>1, <3>1, <3>4, <3>5, <3>6, <3>7
            DEF IInv, AnswerRight, FirstRight, AnswerOf, Reached
  <2>3. CASE ~Awaited(answer)
    <3>1. SendAgain /\ UNCHANGED <<first, pos, tok>>
      BY <1>3, <2>3 DEF Answered
    <3>2. Grows /\ DatagramsRight'
      BY <1>2, <1>n, <2>1, <3>1 DEF Grows
    <3>3. QED BY <1>t, <1>0, <2>1, <3>1, <3>2 DEF IInv, AnswerRight, FirstRight, CachesFull, AnswerOf, Reached
  <2>4. QED BY <2>2, <2>3
<1>4. CASE Timeout \/ TimeoutEarly
  <2>1. first = "wait" /\ SendAgain /\ UNCHANGED <<firstVars, hid, kv, laterVars>>
    BY <1>4 DEF Timeout, TimeoutEarly
  <2>2. Grows /\ DatagramsRight'
    BY <1>2, <1>n, <2>1 DEF Grows
  <2>3. AnswerRight'
    BY <1>t, <2>1, <2>2, StillAnswer DEF IInv, AnswerRight, AnswerOf, Reached
  <2>4. QED BY <1>t, <1>0, <2>1, <2>2, <2>3 DEF IInv, FirstRight, CachesFull
<1>5. ASSUME NEW i \in Later, Stage(i) PROVE IInv'
  <2> DEFINE p == state_of[i].pos
             x == IF \A k \in PartNos : hid[i][k] = p THEN p ELSE Wrong
             out == Output(i, p, x)
             head == state_of[i].head
  <2>1. p \in Positions /\ p <= pos /\ x = p /\ head = NeedsHead(p) /\ head \in BOOLEAN
        /\ Reached(i, p) /\ part_pos[i] = NoPos /\ i \in 0..Last
    <3>1. got_hidden[i]
      BY <1>5 DEF Stage
    <3>2. /\ part_pos[i] = NoPos /\ Reached(i, p) /\ \A k \in PartNos : hid[i][k] = p
          /\ head = NeedsHead(p)
      BY <3>1 DEF IInv, StatesRight
    <3>3. state_of[i] \in [pos : Positions, head : BOOLEAN]
      BY <1>t DEF Types, TypeOK
    <3>4. p \in Positions /\ head \in BOOLEAN
      BY <3>3
    <3>5. p <= pos
      BY <3>2 DEF Reached, ReachedIn
    <3>6. x = p
      BY <3>2
    <3> HIDE DEF p, x, out, head
    <3>7. QED BY <3>2, <3>4, <3>5, <3>6, Sizes
  <2>2. out = p
    BY <2>1, <1>n DEF Output, IInv, CachesFull, Positions
  <2>3. /\ kv' = Cached(i, p, p) /\ net' = net (+) Outgoing(i, p, p, head)
        /\ hid' = IF i = Last THEN hid ELSE [hid EXCEPT ![i] = [k \in PartNos |-> p]]
        /\ got_hidden' = [got_hidden EXCEPT ![i] = FALSE]
        /\ UNCHANGED <<firstVars, part_pos, part_got, state_of, network>>
    <3>1. /\ kv' = Cached(i, p, x) /\ net' = net (+) Outgoing(i, p, out, head)
          /\ hid' = IF i = Last THEN hid ELSE [hid EXCEPT ![i] = [k \in PartNos |-> out]]
          /\ got_hidden' = [got_hidden EXCEPT ![i] = FALSE]
          /\ UNCHANGED <<firstVars, part_pos, part_got, state_of, network>>
      BY <1>5 DEF Stage
    <3> HIDE DEF p, x, out, head
    <3>2. QED BY <2>1, <2>2, <3>1
  <2> HIDE DEF p, x, out, head
  <2>4. \A j \in 0..Last : \A q \in Positions :
          kv'[j][q] = IF j = i /\ q = p THEN p ELSE kv[j][q]
    <3>1. p \in Values
      BY <2>1, Sizes
    <3>2. kv' = [kv EXCEPT ![i][p] = p] /\ kv \in [0..Last -> [Positions -> Values]]
      BY <1>t, <2>3 DEF Cached, Types, TypeOK
    <3>3. QED BY <2>1, <3>1, <3>2
  <2>5. Grows
    BY <1>n, <2>3, <2>4 DEF Grows
  <2>6. ReachedIn(kv', pos', i + 1, p)
    <3>1. ReachedIn(kv', pos', i, p)
      BY <1>t, <2>1, <2>5, StageAssumption, StillReached DEF Later
    <3>2. kv'[i][p] = p
      BY <2>1, <2>4
    <3>3. p \in Positions /\ p <= pos' /\ \A j \in 0..(i - 1) : kv'[j][p] = p
      BY <3>1 DEF ReachedIn
    <3>4. ASSUME NEW j \in 0..((i + 1) - 1) PROVE kv'[j][p] = p
      <4>1. j \in 0..(i - 1) \/ j = i
        BY <2>1, Sizes
      <4>2. QED BY <3>2, <3>3, <4>1
    <3>5. QED BY <3>3, <3>4 DEF ReachedIn
  <2>7. DatagramsRight'
    <3>1. p \in Values
      BY <2>1, Sizes
    <3>2. \A m \in BagToSet(net') : m \in BagToSet(net)
            \/ /\ i # Last /\ m \in PartMsgs
               /\ m.to = i + 1 /\ m.pos = p /\ m.head = head /\ m.data = p
            \/ /\ i = Last /\ m \in TokenMsgs /\ m.pos = p + 1
               /\ m.tok = IF head THEN (IF p = p THEN p + 1 ELSE Wrong) ELSE 0
      BY <1>t, <2>1, <2>3, <3>1, SentOn
    <3>3. CASE i # Last
      <4>1. pos' = pos
        BY <2>3
      <4>2. QED BY <1>t, <2>1, <2>5, <2>6, <3>2, <3>3, <4>1, SentRight
    <3>4. CASE i = Last
      <4>1. PartMsgs \cap TokenMsgs = {}
        BY DEF PartMsgs, TokenMsgs
      <4>2. ASSUME NEW m \in TokenMsgs, m.pos = p + 1, m.tok = IF head THEN p + 1 ELSE 0
            PROVE  AnswerIn(kv', pos', m.pos, m.tok)
        <5>1. m.pos - 1 = p /\ i + 1 = NStages
          BY <1>n, <2>1, <3>4, <4>2, StageAssumption DEF Last
        <5>2. NeedsHead(p) => m.tok = m.pos
          BY <2>1, <4>2
        <5>3. QED BY <2>6, <5>1, <5>2 DEF AnswerIn
      <4>3. QED BY <1>t, <2>5, <3>2, <3>4, <4>1, <4>2, StillRight DEF IInv, DatagramsRight, AnswerOf, Reached
    <3>5. QED BY <3>3, <3>4
  <2>8. PartsRight' /\ StatesRight'
    <3>1. Later \subseteq 0..NStages
      BY StageAssumption DEF Later
    <3>2. \A j \in Later : j # i => hid'[j] = hid[j] /\ got_hidden'[j] = got_hidden[j]
      BY <1>t, <2>3, Sizes DEF Types, TypeOK
    <3>3. ~got_hidden'[i]
      BY <1>t, <2>3 DEF Types, TypeOK
    <3>4. QED BY <1>t, <2>1, <2>3, <2>5, <3>1, <3>2, <3>3, StillReached
            DEF IInv, PartsRight, StatesRight, NeedsHead, Reached
  <2>9. AnswerRight'
    BY <1>t, <2>3, <2>5, StillAnswer DEF IInv, AnswerRight, AnswerOf, Reached
  <2>10. FirstRight' /\ CachesFull'
    <3>1. hid'[0] = hid[0]
      BY <1>t, <2>3, Sizes DEF Types, TypeOK
    <3>2. QED BY <1>t, <1>n, <2>3, <2>5, <3>1, Sizes DEF IInv, FirstRight, CachesFull, Types, Grows
  <2>11. QED BY <1>t, <2>7, <2>8, <2>9, <2>10 DEF IInv
<1>6. ASSUME NEW m \in BagToSet(net), net' = BagRemove(net, m), Grows PROVE DatagramsRight'
  BY <1>6, <1>t, Removed, SameNet DEF IInv, Types
<1>7. ASSUME NEW m \in BagToSet(net), m.to = 0, rx_token(m) PROVE IInv'
  <2>1. m \in TokenMsgs
    BY <1>7, <1>t, Sizes DEF Types, TypeOK, PartMsgs
  <2>2. /\ answer' = [pos |-> m.pos, tok |-> m.tok] /\ net' = BagRemove(net, m)
        /\ UNCHANGED <<first, pos, tok, hid, kv, laterVars, network>>
    BY <1>7 DEF rx_token
  <2>3. Grows
    BY <1>n, <2>2 DEF Grows
  <2>4. AnswerRight'
    <3>1. AnswerIn(kv', pos', m.pos, m.tok)
      BY <1>t, <2>1, <2>3, StillRight DEF IInv
    <3>2. answer'.pos = m.pos /\ answer'.tok = m.tok
      BY <2>2
    <3>3. QED BY <3>1, <3>2 DEF AnswerRight, AnswerOf, NeedsHead, Reached
  <2>5. QED BY <1>t, <1>0, <1>6, <2>2, <2>3, <2>4 DEF IInv, FirstRight, CachesFull
<1>8. ASSUME NEW i \in Later, NEW m \in BagToSet(net), m.to = i, rx_part(i, m) PROVE IInv'
  <2> DEFINE all == Collected(i, m) = PartNos
  <2>1. m \in PartMsgs /\ i \in 0..Last
    BY <1>8, <1>t, Sizes DEF Types, TypeOK, TokenMsgs
  <2>2. /\ hid' = [hid EXCEPT ![i][m.part] = m.data]
        /\ part_got' = [part_got EXCEPT ![i] = Collected(i, m)]
        /\ part_pos' = [part_pos EXCEPT ![i] = Collecting(i, m, all)]
        /\ got_hidden' = [got_hidden EXCEPT ![i] = all]
        /\ state_of' = IF all THEN [state_of EXCEPT ![i] = [pos |-> m.pos, head |-> m.head]]
                       ELSE state_of
        /\ net' = BagRemove(net, m)
        /\ UNCHANGED <<firstVars, kv, network>>
    BY <1>8 DEF rx_part
  <2>3. Grows
    BY <1>n, <2>2 DEF Grows
  <2>4. ReachedIn(kv', pos', i, m.pos) /\ m.data = m.pos /\ m.head = NeedsHead(m.pos)
    BY <1>8, <1>t, <2>1, <2>3, StillRight DEF IInv, NeedsHead
  <2>5. m.pos \in Positions /\ m.part \in PartNos /\ m.pos # NoPos
    BY <2>1, Sizes DEF PartMsgs, Positions
  <2>6. \A k \in PartNos : hid'[i][k] = IF k = m.part THEN m.pos ELSE hid[i][k]
    BY <1>t, <2>1, <2>2, <2>4, <2>5 DEF Types, TypeOK
  <2>7. Collected(i, m) \subseteq PartNos
        /\ \A k \in Collected(i, m) : hid'[i][k] = m.pos
    BY <1>t, <2>5, <2>6 DEF IInv, PartsRight, Collected, Types, TypeOK, Reached
  <2>8. /\ \A j \in Later : j # i => /\ hid'[j] = hid[j] /\ part_got'[j] = part_got[j]
                                     /\ part_pos'[j] = part_pos[j] /\ state_of'[j] = state_of[j]
        /\ hid'[0] = hid[0]
    BY <1>t, <2>2, Sizes DEF Types, TypeOK
  <2>9. \A j \in Later : j # i => (got_hidden'[j] <=> got_hidden[j])
    <3> HIDE DEF all
    <3>1. QED BY <1>t, <2>2 DEF Types, TypeOK
  <2>10. /\ part_got'[i] = Collected(i, m)
         /\ part_pos'[i] = Collecting(i, m, all)
         /\ got_hidden'[i] <=> all
         /\ all => state_of'[i] = [pos |-> m.pos, head |-> m.head]
    <3> HIDE DEF all
    <3>1. QED BY <1>t, <2>2 DEF Types, TypeOK
  <2> HIDE DEF all
  <2>11. Later \subseteq 0..NStages
    BY StageAssumption DEF Later
  <2>12. PartsRight'
    <3>1. ASSUME NEW j \in Later, j # i, part_pos'[j] # NoPos
          PROVE  /\ ReachedIn(kv', pos', j, part_pos'[j]) /\ part_got'[j] # PartNos
                 /\ \A k \in part_got'[j] : hid'[j][k] = part_pos'[j]
      <4>1. ReachedIn(kv', pos', j, part_pos[j])
        BY <1>t, <2>3, <2>8, <2>11, <3>1, StillReached DEF IInv, PartsRight, Reached
      <4>2. QED BY <2>8, <3>1, <4>1 DEF IInv, PartsRight, Reached
    <3>2. ASSUME part_pos'[i] # NoPos
          PROVE  /\ part_pos'[i] = m.pos /\ part_got'[i] # PartNos
                 /\ \A k \in part_got'[i] : hid'[i][k] = m.pos
      BY <2>7, <2>10, <3>2 DEF Collecting, all
    <3>3. QED BY <2>4, <3>1, <3>2 DEF PartsRight, Reached
  <2>13. StatesRight'
    <3>1. ASSUME NEW j \in Later, j # i, got_hidden'[j]
          PROVE  /\ part_pos'[j] = NoPos /\ ReachedIn(kv', pos', j, state_of'[j].pos)
                 /\ \A k \in PartNos : hid'[j][k] = state_of'[j].pos
                 /\ state_of'[j].head = NeedsHead(state_of'[j].pos)
      <4>1. ReachedIn(kv', pos', j, state_of[j].pos)
        BY <1>t, <2>3, <2>9, <2>11, <3>1, StillReached DEF IInv, StatesRight, Reached
      <4>2. QED BY <2>8, <2>9, <3>1, <4>1 DEF IInv, StatesRight, Reached
    <3>2. ASSUME got_hidden'[i]
          PROVE  /\ part_pos'[i] = NoPos /\ state_of'[i] = [pos |-> m.pos, head |-> m.head]
                 /\ \A k \in PartNos : hid'[i][k] = m.pos
      BY <2>7, <2>10, <3>2 DEF Collecting, all
    <3>3. got_hidden'[i] => state_of'[i].pos = m.pos /\ state_of'[i].head = m.head
      BY <3>2
    <3>4. QED BY <2>4, <3>1, <3>2, <3>3 DEF StatesRight, Reached, NeedsHead
  <2>14. AnswerRight' /\ FirstRight' /\ CachesFull'
    BY <1>t, <2>2, <2>3, <2>8, StillAnswer DEF IInv, AnswerRight, FirstRight, CachesFull, AnswerOf, Reached
  <2>15. QED BY <1>t, <1>6, <2>2, <2>3, <2>12, <2>13, <2>14 DEF IInv
<1>9. ASSUME NEW i \in 0..Last, rx(i) PROVE IInv'
  <2>1. PICK m \in BagToSet(net) : m.to = i /\ IF i = 0 THEN rx_token(m) ELSE rx_part(i, m)
    BY <1>9 DEF rx
  <2>2. QED BY <1>7, <1>8, <2>1, Sizes
<1>10. ASSUME UNCHANGED <<firstVars, hid, kv, laterVars>>,
              BagToSet(net') \subseteq BagToSet(net)
       PROVE  IInv'
  <2>1. Grows
    BY <1>n, <1>10 DEF Grows
  <2>2. DatagramsRight' /\ AnswerRight'
    BY <1>t, <1>10, <2>1, SameNet, StillAnswer DEF IInv, AnswerRight, AnswerOf, Reached
  <2>3. QED BY <1>t, <1>0, <1>10, <2>1, <2>2 DEF IInv, FirstRight, CachesFull
<1>11. ASSUME NEW m \in BagToSet(net), Lose(m) PROVE IInv'
  BY <1>10, <1>11, <1>t, Removed DEF Lose, Types
<1>12. ASSUME NEW m \in BagToSet(net), Duplicate(m) PROVE IInv'
  BY <1>10, <1>12, <1>t, Added DEF Duplicate, Types
<1>13. CASE UNCHANGED vars
  BY <1>10, <1>13 DEF vars
<1>14. QED
  BY <1>1, <1>3, <1>4, <1>5, <1>9, <1>11, <1>12, <1>13 DEF Next, Finished

\* The invariant of every step.
THEOREM PipelineInvariant == Spec => []IInv
<1>1. QED BY InitInv, NextInv, PTL DEF Spec

\* Types, for any constants.
THEOREM PipelineTypes == Spec => []TypeOK
<1>1. IInv => TypeOK BY DEF IInv, Types
<1>2. QED BY <1>1, PipelineInvariant, PTL

\* A hidden state a stage takes for whole is made of the parts of one
\* position, however they were lost, repeated and mixed.
THEOREM PipelineHiddenWhole == Spec => []HiddenWhole
<1>1. IInv => HiddenWhole BY DEF IInv, StatesRight, HiddenWhole
<1>2. QED BY <1>1, PipelineInvariant, PTL

\* Late and repeated states leave every cache right up to the position the
\* first stage is at.
THEOREM PipelineCachesFull == Spec => []CachesFull
<1>1. IInv => CachesFull BY DEF IInv
<1>2. QED BY <1>1, PipelineInvariant, PTL

\* The boards run the tokens a single board would, position after position.
THEOREM PipelineImplementsSingleBoard == Spec => ImplementsSingleBoard
<1>1. Init => Board!BoardInit
  BY DEF Init, Board!BoardInit
<1>2. IInv /\ IInv' /\ [Next]_vars => [Board!Step]_<<pos, tok>>
  <2> SUFFICES ASSUME IInv, IInv', [Next]_vars, ~UNCHANGED <<pos, tok>>
               PROVE  Board!Step
    OBVIOUS
  <2>1. Answered /\ Awaited(answer)
    BY DEF Next, vars, Run, Answered, Timeout, TimeoutEarly, Stage, rx, rx_token, rx_part,
           Lose, Duplicate, Finished, firstVars
  <2>2. pos' = pos + 1 /\ first = "wait"
    BY <2>1 DEF Answered
  <2>3. tok' = pos'
    BY DEF IInv, FirstRight
  <2>4. pos < NPos
    BY <2>2, StageAssumption DEF IInv, Types, Positions
  <2>5. QED BY <2>2, <2>3, <2>4 DEF Board!Step
<1>3. QED BY <1>1, <1>2, PipelineInvariant, PTL DEF Spec, ImplementsSingleBoard

-----------------------------------------------------------------------------
(* Answers.  Of each hidden state one part is counted, at each stage a     *)
(* part of its own (f): a whole state has them all, and makes one answer.  *)

Chosen == [Later -> PartNos]
Counted(f) == TokenMsgs \cup {m \in PartMsgs : m.part = f[m.to]}
OnTheWay(f) == CopiesOf(net, Counted(f))
Full == {i \in Later : got_hidden[i]}
Held(f) == {i \in Later : part_pos[i] # NoPos /\ f[i] \in part_got[i]}
One(b) == IF b THEN 1 ELSE 0

Pending(f) == /\ IsFiniteSet(OnTheWay(f))
              /\ Cardinality(OnTheWay(f)) + Cardinality(Full) + Cardinality(Held(f))
                   + One(got_token) + One(first = "run") <= 1 + dups + early

PendingBounded == \E f \in Chosen : Pending(f)

LEMMA Grown ==
  ASSUME NEW A, IsFiniteSet(A), NEW x, NEW B, B \subseteq A \cup {x}
  PROVE  /\ IsFiniteSet(B) /\ Cardinality(B) <= Cardinality(A) + 1
         /\ Cardinality(B) \in Nat
<1>1. IsFiniteSet(A \cup {x}) /\ Cardinality(A \cup {x}) <= Cardinality(A) + 1
  <2>1. /\ IsFiniteSet(A \cup {x})
        /\ Cardinality(A \cup {x}) = IF x \in A THEN Cardinality(A) ELSE Cardinality(A) + 1
    BY FS_AddElement
  <2>2. Cardinality(A) \in Nat
    BY FS_CardinalityType
  <2>3. QED BY <2>1, <2>2
<1>2. IsFiniteSet(B) /\ Cardinality(B) <= Cardinality(A \cup {x})
  BY <1>1, FS_Subset
<1>3. Cardinality(A) \in Nat /\ Cardinality(B) \in Nat /\ Cardinality(A \cup {x}) \in Nat
  BY <1>1, <1>2, FS_CardinalityType
<1>4. QED BY <1>1, <1>2, <1>3

LEMMA Shrunk ==
  ASSUME NEW A, IsFiniteSet(A), NEW x \in A, NEW B, B \subseteq A \ {x}
  PROVE  /\ IsFiniteSet(B) /\ Cardinality(B) + 1 <= Cardinality(A)
         /\ Cardinality(B) \in Nat
<1>1. IsFiniteSet(A \ {x}) /\ Cardinality(A \ {x}) = Cardinality(A) - 1
  BY FS_RemoveElement, FS_CardinalityType
<1>2. IsFiniteSet(B) /\ Cardinality(B) <= Cardinality(A \ {x})
  BY <1>1, FS_Subset
<1>3. Cardinality(A) \in Nat /\ Cardinality(B) \in Nat /\ Cardinality(A \ {x}) \in Nat
  BY <1>1, <1>2, FS_CardinalityType
<1>4. QED BY <1>1, <1>2, <1>3

LEMMA Smaller ==
  ASSUME NEW A, IsFiniteSet(A), NEW B, B \subseteq A
  PROVE  /\ IsFiniteSet(B) /\ Cardinality(B) <= Cardinality(A)
         /\ Cardinality(B) \in Nat /\ Cardinality(A) \in Nat
BY FS_Subset, FS_CardinalityType

LEMMA FiniteStages == ASSUME NEW S, S \subseteq Later PROVE IsFiniteSet(S)
<1>1. IsFiniteSet(Later)
  BY FS_Interval, StageAssumption DEF Later
<1>2. QED BY <1>1, FS_Subset

\* A hidden state sent has one part that counts.
LEMMA OneCounted ==
  ASSUME Types, NEW f \in Chosen, NEW i \in 0..Last, i # Last, NEW h, NEW p, NEW head
  PROVE  \E x : CopiesOf(net (+) send_hidden(i, h, p, head), Counted(f))
                  \subseteq OnTheWay(f) \cup {x}
<1> DEFINE T == {[type |-> "PART", to |-> i + 1, pos |-> p, head |-> head,
                  part |-> k, data |-> h[k]] : k \in PartNos}
           m == [type |-> "PART", to |-> i + 1, pos |-> p, head |-> head,
                 part |-> f[i + 1], data |-> h[f[i + 1]]]
<1>1. T \cap Counted(f) \subseteq {m}
  BY Sizes DEF Counted, TokenMsgs, PartMsgs
<1>2. send_hidden(i, h, p, head) = SetToBag(T)
  BY DEF send_hidden
<1>3. IsABag(net)
  BY DEF Types
<1> HIDE DEF T, m
<1>4. QED BY <1>1, <1>2, <1>3, CopySent DEF OnTheWay

LEMMA OneOutgoing ==
  ASSUME Types, NEW f \in Chosen, NEW i \in Later, NEW p, NEW out, NEW head
  PROVE  \E x : CopiesOf(net (+) Outgoing(i, p, out, head), Counted(f))
                  \subseteq OnTheWay(f) \cup {x}
<1>1. CASE i = Last
  <2> DEFINE t == [type |-> "TOKEN", to |-> 0, pos |-> p + 1,
                   tok |-> IF head THEN (IF out = p THEN p + 1 ELSE Wrong) ELSE 0]
  <2>1. Outgoing(i, p, out, head) = SetToBag({t})
    BY <1>1 DEF Outgoing
  <2>2. {t} \cap Counted(f) \subseteq {t} /\ IsABag(net)
    BY DEF Types
  <2> HIDE DEF t
  <2>3. QED BY <2>1, <2>2, CopySent DEF OnTheWay
<1>2. CASE i # Last
  <2>1. Outgoing(i, p, out, head) = send_hidden(i, [k \in PartNos |-> out], p, head)
    BY <1>2 DEF Outgoing
  <2>2. QED BY <1>2, <2>1, Sizes, OneCounted
<1>3. QED BY <1>1, <1>2

LEMMA InitPending == Init => PendingBounded
<1> SUFFICES ASSUME Init PROVE PendingBounded
  OBVIOUS
<1> DEFINE f == [i \in Later |-> 0]
<1>1. f \in Chosen
  BY Sizes DEF Chosen
<1> HIDE DEF f
<1>2. OnTheWay(f) = {}
  BY Nothing DEF Init, OnTheWay, CopiesOf
<1>3. Full = {} /\ Held(f) = {}
  BY DEF Init, Full, Held
<1>4. One(got_token) = 0 /\ One(first = "run") = 1 /\ dups = 0 /\ early = 0
  BY DEF Init, One
<1>5. QED BY <1>1, <1>2, <1>3, <1>4, FS_EmptySet DEF PendingBounded, Pending

LEMMA NextPending == IInv /\ PendingBounded /\ [Next]_vars => PendingBounded'
<1> SUFFICES ASSUME IInv, PendingBounded, [Next]_vars PROVE PendingBounded'
  OBVIOUS
<1> USE DEF network, firstVars, laterVars
<1>t. Types /\ Types'
  BY NextTypes DEF IInv
<1>0. PICK f \in Chosen : Pending(f)
  BY DEF PendingBounded
<1> DEFINE way == Cardinality(OnTheWay(f))
           full == Cardinality(Full)
           held == Cardinality(Held(f))
           way1 == Cardinality(OnTheWay(f)')
           full1 == Cardinality(Full')
           held1 == Cardinality(Held(f)')
<1>n. /\ way \in Nat /\ full \in Nat /\ held \in Nat /\ full1 \in Nat /\ held1 \in Nat
      /\ dups \in Nat /\ early \in Nat /\ dups' \in Nat /\ early' \in Nat
      /\ One(got_token) \in {0, 1} /\ One(first = "run") \in {0, 1}
      /\ One(got_token)' \in {0, 1} /\ One(first = "run")' \in {0, 1}
      /\ IsFiniteSet(OnTheWay(f)) /\ IsFiniteSet(Full) /\ IsFiniteSet(Held(f))
      /\ IsFiniteSet(Full') /\ IsFiniteSet(Held(f)')
  <2>1. IsFiniteSet(OnTheWay(f))
    BY <1>0 DEF Pending
  <2>2. IsFiniteSet(Full) /\ IsFiniteSet(Held(f)) /\ IsFiniteSet(Full') /\ IsFiniteSet(Held(f)')
    BY FiniteStages DEF Full, Held
  <2>3. dups \in Nat /\ early \in Nat /\ dups' \in Nat /\ early' \in Nat
    BY <1>t, StageAssumption DEF Types, TypeOK
  <2>4. QED BY <2>1, <2>2, <2>3, FS_CardinalityType DEF One
<1>s. way + full + held + One(got_token) + One(first = "run") <= 1 + dups + early
  BY <1>0 DEF Pending
<1>q. SUFFICES ASSUME ~Timeout
               PROVE  /\ IsFiniteSet(OnTheWay(f)')
                      /\ way1 + full1 + held1 + One(got_token)' + One(first = "run")'
                           <= 1 + dups' + early'
  <2>1. ASSUME Timeout PROVE PendingBounded'
    <3>1. /\ first = "wait" /\ SendAgain /\ net = EmptyBag /\ ~got_token
          /\ UNCHANGED <<firstVars, laterVars, network>>
      BY <2>1 DEF Timeout, Silent
    <3>2. \A i \in Later : part_pos[i] # NoPos => \E k \in PartNos : k \notin part_got[i]
      BY <1>t DEF IInv, PartsRight, Types, TypeOK
    <3>3. PICK g \in Chosen : Held(g) = {}
      <4> DEFINE h == [i \in Later |-> CHOOSE k \in PartNos :
                                         part_pos[i] # NoPos => k \notin part_got[i]]
      <4>1. h \in Chosen /\ Held(h) = {}
        BY <3>2, Sizes DEF Chosen, Held
      <4> HIDE DEF h
      <4>2. QED BY <4>1
    <3>4. OnTheWay(g) = {}
      BY <3>1, Nothing DEF OnTheWay, CopiesOf
    <3>5. Full = {}
      BY <2>1 DEF Timeout, Silent, Full
    <3>6. \E x : OnTheWay(g)' \subseteq {} \cup {x}
      BY <1>t, <3>1, <3>3, <3>4, Sizes, OneCounted DEF SendAgain, OnTheWay
    <3>7. IsFiniteSet(OnTheWay(g)') /\ Cardinality(OnTheWay(g)') <= 0 + 1
      BY <3>6, FS_EmptySet, Grown
    <3>8. Held(g)' = {} /\ Full' = {}
      BY <3>1, <3>3, <3>5 DEF Held, Full
    <3>9. One(got_token)' = 0 /\ One(first = "run")' = 0
      BY <3>1 DEF One
    <3>10. Cardinality(OnTheWay(g)') \in Nat /\ Cardinality(Held(g)') = 0 /\ Cardinality(Full') = 0
      BY <3>7, <3>8, FS_EmptySet, FS_CardinalityType
    <3>11. Pending(g)'
      BY <1>n, <3>7, <3>9, <3>10 DEF Pending
    <3>12. QED BY <3>3, <3>11 DEF PendingBounded
  <2>2. (IsFiniteSet(OnTheWay(f)')
           /\ way1 + full1 + held1 + One(got_token)' + One(first = "run")' <= 1 + dups' + early')
        => PendingBounded'
    BY DEF PendingBounded, Pending
  <2>3. QED BY <2>1, <2>2
<1> HIDE DEF way, full, held, way1, full1, held1
<1>f. ASSUME UNCHANGED laterVars PROVE Full' = Full /\ Held(f)' = Held(f)
  BY <1>f DEF Full, Held
<1>l. ASSUME UNCHANGED laterVars PROVE full1 = full /\ held1 = held
  BY <1>f, <1>l DEF full, held, full1, held1
<1>a. ASSUME NEW x, OnTheWay(f)' \subseteq OnTheWay(f) \cup {x}
      PROVE  IsFiniteSet(OnTheWay(f)') /\ way1 <= way + 1 /\ way1 \in Nat
  BY <1>a, <1>n, Grown DEF way, way1
<1>r. ASSUME NEW x \in OnTheWay(f), OnTheWay(f)' \subseteq OnTheWay(f) \ {x}
      PROVE  IsFiniteSet(OnTheWay(f)') /\ way1 + 1 <= way /\ way1 \in Nat
  BY <1>r, <1>n, Shrunk DEF way, way1
<1>u. ASSUME OnTheWay(f)' \subseteq OnTheWay(f)
      PROVE  IsFiniteSet(OnTheWay(f)') /\ way1 <= way /\ way1 \in Nat
  BY <1>u, <1>n, Smaller DEF way, way1
<1>g. ASSUME SendAgain
      PROVE  IsFiniteSet(OnTheWay(f)') /\ way1 <= way + 1 /\ way1 \in Nat
  <2>1. \E x : OnTheWay(f)' \subseteq OnTheWay(f) \cup {x}
    BY <1>t, <1>g, Sizes, OneCounted DEF SendAgain, OnTheWay
  <2>2. QED BY <1>a, <2>1
<1>m. ASSUME NEW m \in BagToSet(net), net' = BagRemove(net, m)
      PROVE  /\ IsFiniteSet(OnTheWay(f)') /\ way1 \in Nat /\ way1 <= way
             /\ m \in Counted(f) => way1 + 1 <= way
  <2>1. IsABag(net)
    BY <1>t DEF Types
  <2>2. CASE m \in Counted(f)
    <3>1. PICK x \in OnTheWay(f) : OnTheWay(f)' = OnTheWay(f) \ {x}
      BY <1>m, <2>1, <2>2, CopyRemoved DEF OnTheWay
    <3>2. QED BY <1>r, <1>n, <3>1
  <2>3. CASE m \notin Counted(f)
    <3>1. OnTheWay(f)' = OnTheWay(f)
      BY <1>m, <2>1, <2>3, CopyRemoved DEF OnTheWay
    <3>2. QED BY <1>u, <2>3, <3>1
  <2>4. QED BY <2>2, <2>3
<1>1. CASE Run
  <2>1. \E x : OnTheWay(f)' \subseteq OnTheWay(f) \cup {x}
    BY <1>t, <1>1, Sizes, OneCounted DEF Run, OnTheWay
  <2>2. One(first = "run") = 1 /\ One(first = "run")' = 0 /\ One(got_token)' = One(got_token)
    BY <1>1 DEF Run, One
  <2>3. UNCHANGED <<laterVars, network>>
    BY <1>1 DEF Run
  <2>4. QED BY <1>n, <1>s, <1>l, <1>a, <2>1, <2>2, <2>3
<1>2. CASE Answered
  <2>1. One(got_token) = 1 /\ One(got_token)' = 0 /\ One(first = "run") = 0
        /\ UNCHANGED <<laterVars, network>>
    BY <1>2 DEF Answered, One
  <2>2. CASE Awaited(answer)
    <3>1. OnTheWay(f)' = OnTheWay(f)
      BY <1>2, <2>2 DEF Answered, OnTheWay
    <3>2. QED BY <1>n, <1>s, <1>l, <1>u, <2>1, <3>1
  <2>3. CASE ~Awaited(answer)
    <3>1. SendAgain /\ One(first = "run")' = 0
      BY <1>2, <2>3 DEF Answered, One
    <3>2. QED BY <1>n, <1>s, <1>l, <1>g, <2>1, <3>1
  <2>4. QED BY <2>2, <2>3
<1>3. CASE TimeoutEarly
  <2>1. /\ One(got_token)' = One(got_token) /\ One(first = "run")' = One(first = "run")
        /\ SendAgain /\ early' = early + 1 /\ dups' = dups /\ UNCHANGED laterVars
    BY <1>3 DEF TimeoutEarly, One
  <2>2. QED BY <1>n, <1>s, <1>l, <1>g, <2>1
<1>4. ASSUME NEW i \in Later, Stage(i)
      PROVE  /\ IsFiniteSet(OnTheWay(f)')
             /\ way1 + full1 + held1 + One(got_token)' + One(first = "run")' <= 1 + dups' + early'
  <2>1. \E x : OnTheWay(f)' \subseteq OnTheWay(f) \cup {x}
    BY <1>t, <1>4, OneOutgoing DEF Stage, OnTheWay
  <2>2. i \in Full /\ Full' \subseteq Full \ {i}
    BY <1>t, <1>4 DEF Stage, Full, Types, TypeOK
  <2>3. full1 + 1 <= full
    BY <1>n, <2>2, Shrunk DEF full, full1
  <2>4. Held(f)' = Held(f) /\ UNCHANGED <<firstVars, network>>
    BY <1>4 DEF Stage, Held
  <2>5. held1 = held /\ One(got_token)' = One(got_token) /\ One(first = "run")' = One(first = "run")
    BY <2>4 DEF held, held1, One
  <2>6. QED BY <1>n, <1>s, <1>a, <2>1, <2>3, <2>4, <2>5
<1>5. ASSUME NEW m \in BagToSet(net), m.to = 0, rx_token(m)
      PROVE  /\ IsFiniteSet(OnTheWay(f)')
             /\ way1 + full1 + held1 + One(got_token)' + One(first = "run")' <= 1 + dups' + early'
  <2>1. m \in Counted(f)
    BY <1>t, <1>5, Sizes DEF Types, TypeOK, PartMsgs, Counted
  <2>2. net' = BagRemove(net, m) /\ UNCHANGED <<laterVars, network>>
    BY <1>5 DEF rx_token
  <2>3. One(got_token) = 0 /\ One(first = "run") = 0 /\ One(first = "run")' = 0
    BY <1>5 DEF rx_token, One
  <2>4. QED BY <1>n, <1>s, <1>l, <1>m, <2>1, <2>2, <2>3
<1>6. ASSUME NEW i \in Later, NEW m \in BagToSet(net), m.to = i, rx_part(i, m)
      PROVE  /\ IsFiniteSet(OnTheWay(f)')
             /\ way1 + full1 + held1 + One(got_token)' + One(first = "run")' <= 1 + dups' + early'
  <2> DEFINE all == Collected(i, m) = PartNos
  <2>1. m \in PartMsgs /\ m.pos # NoPos
    <3>1. m \in PartMsgs
      BY <1>6, <1>t, Sizes DEF Types, TypeOK, TokenMsgs
    <3>2. m.pos \in Positions
      BY <3>1 DEF PartMsgs
    <3>3. m.pos # NoPos
      BY <3>2, Sizes DEF Positions
    <3>4. QED BY <3>1, <3>3
  <2>2. m \in Counted(f) <=> m.part = f[i]
    BY <1>6, <2>1 DEF Counted, TokenMsgs, PartMsgs
  <2>3. f[i] \in PartNos
    BY DEF Chosen
  <2>4. /\ net' = BagRemove(net, m) /\ UNCHANGED <<firstVars, network>>
        /\ part_got' = [part_got EXCEPT ![i] = Collected(i, m)]
        /\ part_pos' = [part_pos EXCEPT ![i] = Collecting(i, m, all)]
        /\ got_hidden' = [got_hidden EXCEPT ![i] = all]
        /\ ~got_hidden[i]
    BY <1>6 DEF rx_part
  <2> HIDE DEF all
  <2>5. /\ part_got'[i] = Collected(i, m) /\ part_pos'[i] = Collecting(i, m, all)
        /\ \A j \in Later : j # i => part_got'[j] = part_got[j] /\ part_pos'[j] = part_pos[j]
        /\ got_hidden'[i] <=> all
        /\ \A j \in Later : j # i => (got_hidden'[j] <=> got_hidden[j])
    BY <1>t, <2>4 DEF Types, TypeOK
  <2>6. One(got_token)' = One(got_token) /\ One(first = "run")' = One(first = "run")
        /\ dups' = dups /\ early' = early
    BY <2>4 DEF One
  <2>7. CASE all
    <3>1. Full' \subseteq Full \cup {i} /\ Held(f)' \subseteq Held(f) \ {i}
      BY <2>5, <2>7 DEF Full, Held, Collecting
    <3>2. full1 <= full + 1
      BY <1>n, <3>1, Grown DEF full, full1
    <3>3. CASE m.part = f[i]
      <4>1. held1 <= held
        BY <1>n, <3>1, Smaller DEF held, held1
      <4>2. QED BY <1>n, <1>s, <1>m, <2>2, <2>4, <2>6, <3>2, <3>3, <4>1
    <3>4. CASE m.part # f[i]
      <4>1. i \in Held(f)
        BY <2>1, <2>3, <2>7, <3>4 DEF Held, all, Collected
      <4>2. held1 + 1 <= held
        BY <1>n, <3>1, <4>1, Shrunk DEF held, held1
      <4>3. QED BY <1>n, <1>s, <1>m, <2>4, <2>6, <3>2, <4>2
    <3>5. QED BY <3>3, <3>4
  <2>8. CASE ~all
    <3>1. Full' \subseteq Full
      BY <2>5, <2>8 DEF Full
    <3>2. full1 <= full
      BY <1>n, <3>1, Smaller DEF full, full1
    <3>3. CASE m.part = f[i]
      <4>1. Held(f)' \subseteq Held(f) \cup {i}
        BY <2>5 DEF Held
      <4>2. held1 <= held + 1
        BY <1>n, <4>1, Grown DEF held, held1
      <4>3. QED BY <1>n, <1>s, <1>m, <2>2, <2>4, <2>6, <3>2, <3>3, <4>2
    <3>4. CASE m.part # f[i]
      <4>1. Held(f)' \subseteq Held(f)
        BY <2>1, <2>5, <3>4 DEF Held, Collected
      <4>2. held1 <= held
        BY <1>n, <4>1, Smaller DEF held, held1
      <4>3. QED BY <1>n, <1>s, <1>m, <2>4, <2>6, <3>2, <4>2
    <3>5. QED BY <3>3, <3>4
  <2>9. QED BY <2>7, <2>8
<1>7. ASSUME NEW i \in 0..Last, rx(i)
      PROVE  /\ IsFiniteSet(OnTheWay(f)')
             /\ way1 + full1 + held1 + One(got_token)' + One(first = "run")' <= 1 + dups' + early'
  <2>1. PICK m \in BagToSet(net) : m.to = i /\ IF i = 0 THEN rx_token(m) ELSE rx_part(i, m)
    BY <1>7 DEF rx
  <2>2. QED BY <1>5, <1>6, <2>1, Sizes
<1>8. ASSUME NEW m \in BagToSet(net), Lose(m)
      PROVE  /\ IsFiniteSet(OnTheWay(f)')
             /\ way1 + full1 + held1 + One(got_token)' + One(first = "run")' <= 1 + dups' + early'
  <2>1. One(got_token)' = One(got_token) /\ One(first = "run")' = One(first = "run")
        /\ dups' = dups /\ early' = early /\ net' = BagRemove(net, m) /\ UNCHANGED laterVars
    BY <1>8 DEF Lose, One
  <2>2. QED BY <1>n, <1>s, <1>l, <1>m, <2>1
<1>9. ASSUME NEW m \in BagToSet(net), Duplicate(m)
      PROVE  /\ IsFiniteSet(OnTheWay(f)')
             /\ way1 + full1 + held1 + One(got_token)' + One(first = "run")' <= 1 + dups' + early'
  <2>1. One(got_token)' = One(got_token) /\ One(first = "run")' = One(first = "run")
        /\ dups' = dups + 1 /\ early' = early /\ net' = BagAdd(net, m) /\ UNCHANGED laterVars
    BY <1>9 DEF Duplicate, One
  <2>2. \E x : OnTheWay(f)' \subseteq OnTheWay(f) \cup {x}
    BY <1>t, <2>1, CopyAdded DEF OnTheWay, Types
  <2>3. QED BY <1>n, <1>s, <1>l, <1>a, <2>1, <2>2
<1>10. CASE UNCHANGED vars
  <2>1. OnTheWay(f)' = OnTheWay(f) /\ One(got_token)' = One(got_token)
        /\ One(first = "run")' = One(first = "run") /\ UNCHANGED <<laterVars, network>>
    BY <1>10 DEF vars, OnTheWay, One
  <2>2. QED BY <1>n, <1>s, <1>l, <1>u, <2>1
<1>11. QED
  BY <1>q, <1>1, <1>2, <1>3, <1>4, <1>7, <1>8, <1>9, <1>10 DEF Next, Finished

\* However often the first stage sends again, the answers under way are no
\* more than one and what the network's copies and early timeouts added.
THEOREM PipelineAnswersBounded == Spec => []AnswersBounded
<1>1. IInv /\ PendingBounded => AnswersBounded
  <2> SUFFICES ASSUME IInv, PendingBounded PROVE AnswersBounded
    OBVIOUS
  <2>1. PICK f \in Chosen : Pending(f)
    BY DEF PendingBounded
  <2>2. Copies(TokenMsgs) \subseteq OnTheWay(f)
    BY DEF Copies, OnTheWay, CopiesOf, Counted
  <2>3. Cardinality(Copies(TokenMsgs)) <= Cardinality(OnTheWay(f))
        /\ Cardinality(Copies(TokenMsgs)) \in Nat /\ Cardinality(OnTheWay(f)) \in Nat
    BY <2>1, <2>2, Smaller DEF Pending
  <2>4. Cardinality(Full) \in Nat /\ Cardinality(Held(f)) \in Nat
    BY FiniteStages, FS_CardinalityType DEF Full, Held
  <2>5. One(got_token) \in {0, 1} /\ One(first = "run") \in {0, 1} /\ dups \in Nat /\ early \in Nat
    BY StageAssumption DEF One, IInv, Types, TypeOK
  <2>6. Cardinality(Copies(TokenMsgs)) + One(got_token) <= 1 + dups + early
    BY <2>1, <2>3, <2>4, <2>5 DEF Pending
  <2>7. QED BY <2>6 DEF AnswersBounded, One
<1>2. QED BY <1>1, InitPending, NextPending, PipelineInvariant, PTL DEF Spec
=============================================================================
