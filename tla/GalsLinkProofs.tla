--------------------------- MODULE GalsLinkProofs ---------------------------
(***************************************************************************)
(* The UART stages for any number of them, of positions and of bytes of a  *)
(* hidden state, any bytes damaged, lost or made of noise, and a host that *)
(* asks again as early as it likes: as long as no message slips through    *)
(* the one edge the stages' check for idleness misses and reaches its      *)
(* payload while they send, every token the host is given is the one       *)
(* board's.  That edge is the only hole.                                   *)
(***************************************************************************)
EXTENDS GalsLink, TLAPS

\* What the parts of the state are made of.
States == {"S0", "S1", "HDR", "PAY", "CRC", "GO"}
RxRec   == [st : States, n : Nat, type : {Token, Hidden}, pos : Int, val : Int, good : BOOLEAN]
TxRec   == [on : BOOLEAN, ti : Nat, pos : Int, best : Int]
CoreRec == [start : BOOLEAN, pos : Int, emb : BOOLEAN, busy : BOOLEAN, done : BOOLEAN,
            right : BOOLEAN]
ByteRec == [at : Int, type : {Token, Hidden}, pos : Int, val : Int]

Types ==
  /\ rx \in [Stages -> RxRec] /\ tx \in [Stages -> TxRec] /\ core \in [Stages -> CoreRec]
  /\ x \in [Stages -> [0..(D - 1) -> Int]] /\ kv \in [Stages -> SUBSET Int]
  /\ line \in [0..NStages -> ByteRec] /\ hrx \in RxRec /\ hpos \in 0..NPos /\ hidx \in Nat

\* A receiver that follows no message yet believes none.
Shape(r) ==
  /\ r.st \in {"S0", "S1"} => r.n = 0 /\ ~r.good
  /\ r.st = "HDR" => r.n \in {0, 1} /\ (r.n = 0 => ~r.good)
  /\ r.st = "PAY" => r.n < Payload(r.type)
  /\ r.st \in {"CRC", "GO"} => r.n = 0

\* The host has asked for position p, and the stages before i have run it right.
Came(i, p) == p \in 0..hpos /\ p < NPos /\ \A j \in 0..(i - 1) : p \in kv[j]

Kind(i) == IF i = 0 \/ i = NStages THEN Token ELSE Hidden

\* A byte of stage i's line that is part of a message.
TrueByte(i, b) ==
  IF i = NStages THEN Came(i, b.pos - 1) /\ b.val = Hid(i, b.pos - 1)
  ELSE /\ b.type = Kind(i) /\ Came(i, b.pos)
       /\ i # 0 /\ b.at \in PAY..(PAY + D - 1) => b.val = Hid(i, b.pos)

\* A stage does one thing at a time.
OneAtATime(i) ==
  /\ rx[i].st # "S0" => ~core[i].start /\ ~core[i].busy /\ ~core[i].done
  /\ tx[i].on => /\ ~core[i].start /\ ~core[i].busy /\ ~core[i].done
                 /\ rx[i].st \in {"S0", "S1", "HDR"}
  /\ core[i].done => ~core[i].start /\ ~core[i].busy

\* What a receiver that believes a message has of it.
Receives(i) ==
  rx[i].good =>
    /\ rx[i].type = Kind(i) /\ Came(i, rx[i].pos)
    /\ i # 0 => \A e \in 0..(D - 1) :
         rx[i].st \in {"CRC", "GO"} \/ (rx[i].st = "PAY" /\ e < rx[i].n)
           => x[i][e] = Hid(i, rx[i].pos)

\* What a core was started with, and has made of it.
Computes(i) ==
  /\ core[i].start \/ core[i].busy => Came(i, core[i].pos)
  /\ core[i].start /\ ~core[i].busy => InputRight(i)
  /\ core[i].busy \/ core[i].done => core[i].right
  /\ core[i].done \/ tx[i].on => /\ Came(i + 1, core[i].pos)
                                 /\ \A e \in 0..(D - 1) : x[i][e] = Hid(i + 1, core[i].pos)
  /\ tx[i].on => tx[i].pos = SentPos(i) /\ tx[i].best = Hid(i + 1, core[i].pos)

StageRight(i) == Shape(rx[i]) /\ OneAtATime(i) /\ Receives(i) /\ Computes(i)

Cached == \A i \in Stages : 0..(hpos - 1) \subseteq kv[i]

LineRight == \A i \in 0..NStages : line[i].at >= 0 => TrueByte(i, line[i])

HostRight == /\ Shape(hrx) /\ hrx.st # "GO"
             /\ hrx.good => /\ Came(NStages, hrx.pos - 1)
                            /\ hrx.st = "CRC" => hrx.val = Hid(NStages, hrx.pos - 1)

\* The inductive invariant.
IInv == /\ Types /\ (\A i \in Stages : StageRight(i))
        /\ Cached /\ LineRight /\ HostRight

-----------------------------------------------------------------------------
(* What the parts are.                                                     *)

SeenRec == [look : {"A5", "5A", "other"}, type : {Token, Hidden}]

\* The numbers of stages and bytes, and the payloads there are.
LEMMA Constants ==
  /\ NStages \in Nat /\ NStages >= 1 /\ D \in Nat /\ D >= 1 /\ NPos \in Nat
  /\ Payload(Token) = 1 /\ Payload(Hidden) = D /\ PAY = 4 /\ Token # Hidden
  /\ \A type \in {Token, Hidden} : Payload(type) \in Nat /\ Payload(type) >= 1
BY GalsAssumption DEF Payload, PAY, Token, Hidden

\* A stage has a line in and a line out, which are two.
LEMMA StagesAre ==
  ASSUME NEW i \in Stages
  PROVE  /\ i \in Nat /\ i < NStages /\ i \in 0..NStages /\ i + 1 \in 0..NStages
         /\ i # i + 1 /\ i # NStages /\ i + 1 # 0 /\ (i = Last <=> i + 1 = NStages)
         /\ 0..((i + 1) - 1) = (0..(i - 1)) \cup {i} /\ 0..(i - 1) \subseteq Stages
BY Constants DEF Stages, Last

\* What a stage should have computed is a number.
LEMMA HidIsInt == ASSUME NEW i \in Int, NEW p \in Int PROVE Hid(i, p) \in Int
BY Constants DEF Hid

\* In the place of the type a byte is read as the type it is.
LEMMA SeenIs ==
  ASSUME NEW b \in ByteRec, NEW s \in Seen(b)
  PROVE  s \in SeenRec /\ (b.at = 2 => s.type = b.type)
BY DEF Seen, SeenRec, ByteRec

\* A receiver at the start of a message believes none.
LEMMA SeekingIs == Seeking \in RxRec /\ Shape(Seeking) /\ Seeking.st = "S0" /\ ~Seeking.good
BY DEF Seeking, RxRec, States, Shape, Token, Wrong

\* Noise, a glitch and an idle line are in no place of a message.
LEMMA NoiseIs ==
  /\ Noise \in ByteRec /\ Glitch \in ByteRec /\ NoByte \in ByteRec
  /\ Noise.at < 0 /\ Glitch.at < 0 /\ NoByte.at < 0
BY DEF Noise, Glitch, NoByte, ByteRec, Token, Wrong

\* What a byte makes of a receiver, and what one that believes its message has
\* just been given.
LEMMA AfterByte ==
  ASSUME NEW r \in RxRec, Shape(r), r.st # "GO", NEW b \in ByteRec, NEW s \in SeenRec,
         NEW idle \in BOOLEAN
  PROVE  LET a == After(r, b, s, idle) IN
         /\ a \in RxRec /\ Shape(a)
         /\ a.st # "S0" => r.st # "S0" \/ idle
         /\ a.st = "GO" => r.st = "CRC"
         /\ a.st = "CRC" => r.st = "PAY"
         /\ a.good => /\ b.at >= 0 /\ a.pos = b.pos /\ a.val = r.val
                      /\ \/ r.st = "HDR" /\ b.at = 2 /\ a.type = s.type /\ a.st = "HDR"
                         \/ /\ r.good /\ a.type = r.type /\ a.pos = r.pos /\ b.type = r.type
                            /\ \/ a.st = "PAY" /\ a.n = 0
                               \/ /\ r.st = "PAY" /\ b.at = PAY + r.n
                                  /\ \/ a.st = "PAY" /\ a.n = r.n + 1
                                     \/ a.st = "CRC" /\ r.n + 1 = Payload(r.type)
                               \/ r.st = "CRC" /\ a.st = "GO"
<1> DEFINE a == After(r, b, s, idle)
<1>1. /\ r.st \in States /\ r.n \in Nat /\ r.type \in {Token, Hidden} /\ r.good \in BOOLEAN
      /\ r.pos \in Int /\ r.val \in Int
      /\ b.at \in Int /\ b.pos \in Int /\ b.type \in {Token, Hidden} /\ s.type \in {Token, Hidden}
  BY DEF RxRec, ByteRec, SeenRec
<1>2. Payload(r.type) \in Nat /\ Payload(r.type) >= 1
  BY <1>1, Constants
<1>3. CASE r.st = "S0"
  <2>1. a = IF s.look = "A5" /\ idle THEN [r EXCEPT !.st = "S1"] ELSE r
    BY <1>3 DEF After
  <2>2. r.n = 0 /\ ~r.good
    BY <1>3 DEF Shape
  <2>3. QED BY <1>1, <1>3, <2>1, <2>2 DEF RxRec, States, Shape
<1>4. CASE r.st = "S1"
  <2>1. a = IF s.look = "5A" THEN [r EXCEPT !.st = "HDR"] ELSE IF s.look = "A5" THEN r ELSE Seeking
    BY <1>4 DEF After
  <2>2. r.n = 0 /\ ~r.good
    BY <1>4 DEF Shape
  <2>3. CASE a = Seeking
    BY <1>4, <2>3, SeekingIs
  <2>4. CASE a = r
    BY <1>4, <2>2, <2>4 DEF Shape
  <2>5. CASE a = [r EXCEPT !.st = "HDR"]
    BY <1>1, <1>4, <2>2, <2>5 DEF RxRec, States, Shape
  <2>6. QED BY <2>1, <2>3, <2>4, <2>5
<1>5. CASE r.st = "HDR" /\ r.n = 0
  <2> DEFINE g == b.at = 2
  <2>1. a = [r EXCEPT !.n = 1, !.type = s.type, !.pos = b.pos, !.good = g]
    BY <1>5 DEF After
  <2>2. g \in BOOLEAN /\ (g <=> b.at = 2)
    OBVIOUS
  <2> HIDE DEF a, g
  <2>3. /\ a \in RxRec /\ a.st = "HDR" /\ a.n = 1 /\ a.type = s.type /\ a.pos = b.pos
        /\ a.good = g /\ a.val = r.val
    BY <1>1, <1>5, <2>1, <2>2 DEF RxRec
  <2>4. QED BY <1>1, <1>5, <2>2, <2>3 DEF Shape, a
<1>6. CASE r.st = "HDR" /\ r.n # 0
  <2> DEFINE g == InPlace(r, b, 3)
  <2>1. a = [r EXCEPT !.st = "PAY", !.n = 0, !.good = g]
    BY <1>6 DEF After
  <2>2. g \in BOOLEAN /\ (g <=> r.good /\ b.at = 3 /\ b.type = r.type /\ b.pos = r.pos)
    BY <1>1 DEF InPlace
  <2> HIDE DEF a, g
  <2>3. /\ a \in RxRec /\ a.st = "PAY" /\ a.n = 0 /\ a.type = r.type /\ a.pos = r.pos
        /\ a.good = g /\ a.val = r.val
    BY <1>1, <2>1, <2>2 DEF RxRec, States
  <2>4. QED BY <1>1, <1>2, <1>6, <2>2, <2>3 DEF Shape, a
<1>7. CASE r.st = "PAY"
  <2> DEFINE g == InPlace(r, b, PAY + r.n)
             r2 == [r EXCEPT !.good = g]
  <2>1. /\ r.n + 1 = Payload(r.type) => a = [r2 EXCEPT !.st = "CRC", !.n = 0]
        /\ r.n + 1 # Payload(r.type) => a = [r2 EXCEPT !.n = r.n + 1]
    BY <1>7 DEF After
  <2>2. g \in BOOLEAN /\ (g <=> r.good /\ b.at = PAY + r.n /\ b.type = r.type /\ b.pos = r.pos)
    BY <1>1 DEF InPlace
  <2> HIDE DEF a, g
  <2>8. /\ r2 \in RxRec /\ r2.st = r.st /\ r2.n = r.n /\ r2.type = r.type /\ r2.pos = r.pos
        /\ r2.good = g /\ r2.val = r.val
    BY <1>1, <2>2 DEF RxRec
  <2> HIDE DEF r2
  <2>3. /\ a \in RxRec /\ a.type = r.type /\ a.pos = r.pos /\ a.good = g /\ a.val = r.val
        /\ \/ a.st = "CRC" /\ a.n = 0 /\ r.n + 1 = Payload(r.type)
           \/ a.st = "PAY" /\ a.n = r.n + 1 /\ r.n + 1 # Payload(r.type)
    <3>1. CASE r.n + 1 = Payload(r.type)
      <4>1. a = [r2 EXCEPT !.st = "CRC", !.n = 0]
        BY <2>1, <3>1
      <4>2. "CRC" \in States /\ 0 \in Nat
        BY DEF States
      <4>3. a \in RxRec
        BY <2>8, <4>1, <4>2 DEF RxRec
      <4>4. a.st = "CRC" /\ a.n = 0 /\ a.type = r2.type /\ a.pos = r2.pos
           /\ a.good = r2.good /\ a.val = r2.val
        BY <2>8, <4>1 DEF RxRec
      <4>5. QED BY <2>8, <3>1, <4>3, <4>4
    <3>2. CASE r.n + 1 # Payload(r.type)
      BY <1>1, <1>7, <2>1, <2>8, <3>2 DEF RxRec, States
    <3>3. QED BY <3>1, <3>2
  <2>4. r.n < Payload(r.type)
    BY <1>7 DEF Shape
  <2>5. PAY + r.n >= 0
    BY <1>1, Constants
  <2>6. Shape(a)
    BY <1>1, <1>2, <2>3, <2>4 DEF Shape
  <2>7. QED BY <1>1, <1>7, <2>2, <2>3, <2>5, <2>6 DEF a
<1>8. CASE r.st = "CRC"
  <2> DEFINE g == InPlace(r, b, PAY + Payload(r.type))
  <2>1. a = [r EXCEPT !.st = "GO", !.good = g]
    BY <1>8 DEF After
  <2>2. g \in BOOLEAN
        /\ (g <=> r.good /\ b.at = PAY + Payload(r.type) /\ b.type = r.type /\ b.pos = r.pos)
    BY <1>1 DEF InPlace
  <2> HIDE DEF a, g
  <2>3. /\ a \in RxRec /\ a.st = "GO" /\ a.n = r.n /\ a.type = r.type /\ a.pos = r.pos
        /\ a.good = g /\ a.val = r.val
    BY <1>1, <2>1, <2>2 DEF RxRec, States
  <2>4. PAY + Payload(r.type) >= 0
    BY <1>2, Constants
  <2>5. QED BY <1>1, <1>8, <2>2, <2>3, <2>4 DEF Shape, a
<1>9. QED BY <1>1, <1>3, <1>4, <1>5, <1>6, <1>7, <1>8 DEF States

\* The host only goes on, and caches only fill.
Grows == hpos <= hpos' /\ \A j \in Stages : kv[j] \subseteq kv'[j]

\* A position that came to a stage has come for good.
LEMMA CameStays ==
  ASSUME Types, Types', Grows, NEW i \in 0..NStages, NEW p, Came(i, p)
  PROVE  Came(i, p)'
<1>1. \A j \in 0..(i - 1) : j \in Stages
  BY Constants DEF Stages
<1>2. hpos \in Int /\ hpos' \in Int
  BY Constants DEF Types
<1>3. QED BY <1>1, <1>2 DEF Came, Grows

\* A byte of a message stays true while it is on the line.
LEMMA ByteStays ==
  ASSUME Types, Types', Grows, NEW i \in 0..NStages, NEW b, TrueByte(i, b)
  PROVE  TrueByte(i, b)'
<1>1. CASE i = NStages
  <2>1. Came(i, b.pos - 1) /\ b.val = Hid(i, b.pos - 1)
    BY <1>1 DEF TrueByte
  <2>2. Came(i, b.pos - 1)'
    BY <2>1, CameStays
  <2>3. QED BY <1>1, <2>1, <2>2 DEF TrueByte, Hid
<1>2. CASE i # NStages
  <2>1. /\ b.type = Kind(i) /\ Came(i, b.pos)
        /\ i # 0 /\ b.at \in PAY..(PAY + D - 1) => b.val = Hid(i, b.pos)
    BY <1>2 DEF TrueByte
  <2>2. Came(i, b.pos)'
    BY <2>1, CameStays
  <2>3. QED BY <1>2, <2>1, <2>2 DEF TrueByte, Hid, Kind
<1>3. QED BY <1>1, <1>2

\* A stage that takes no step stays right.
LEMMA StageStays ==
  ASSUME Types, Types', Grows, NEW j \in Stages, StageRight(j),
         rx'[j] = rx[j], tx'[j] = tx[j], core'[j] = core[j], x'[j] = x[j]
  PROVE  StageRight(j)'
<1>0. j \in 0..NStages /\ j + 1 \in 0..NStages
  BY StagesAre
<1>1. Shape(rx[j])'
  BY DEF StageRight, Shape, Payload
<1>2. OneAtATime(j)'
  BY DEF StageRight, OneAtATime, Idle
<1>3. Receives(j)'
  <2> SUFFICES ASSUME rx[j].good
               PROVE  /\ rx[j].type = Kind(j) /\ Came(j, rx[j].pos)'
                      /\ j # 0 => \A e \in 0..(D - 1) :
                           rx[j].st \in {"CRC", "GO"} \/ (rx[j].st = "PAY" /\ e < rx[j].n)
                             => x[j][e] = Hid(j, rx[j].pos)
    BY DEF Receives, Came, Kind, Hid
  <2>1. /\ rx[j].type = Kind(j) /\ Came(j, rx[j].pos)
        /\ j # 0 => \A e \in 0..(D - 1) :
             rx[j].st \in {"CRC", "GO"} \/ (rx[j].st = "PAY" /\ e < rx[j].n)
               => x[j][e] = Hid(j, rx[j].pos)
    BY DEF StageRight, Receives
  <2>2. Came(j, rx[j].pos)'
    BY <1>0, <2>1, CameStays
  <2>3. QED BY <2>1, <2>2
<1>4. Computes(j)'
  <2> DEFINE p == core[j].pos
  <2>1. /\ core[j].start \/ core[j].busy => Came(j, p)
        /\ core[j].start /\ ~core[j].busy => InputRight(j)
        /\ core[j].busy \/ core[j].done => core[j].right
        /\ core[j].done \/ tx[j].on => Came(j + 1, p) /\ \A e \in 0..(D - 1) : x[j][e] = Hid(j + 1, p)
        /\ tx[j].on => tx[j].pos = SentPos(j) /\ tx[j].best = Hid(j + 1, p)
    BY DEF StageRight, Computes
  <2>2. core[j].start \/ core[j].busy => Came(j, p)'
    BY <1>0, <2>1, CameStays
  <2>3. core[j].done \/ tx[j].on => Came(j + 1, p)'
    BY <1>0, <2>1, CameStays
  <2>4. core[j].start /\ ~core[j].busy => InputRight(j)'
    BY <2>1 DEF InputRight, Grows, Hid
  <2>5. SentPos(j)' = SentPos(j)
    BY DEF SentPos, HasHead, Last
  <2>6. QED BY <2>1, <2>2, <2>3, <2>4, <2>5 DEF Computes, Came, Hid
<1>5. QED BY <1>1, <1>2, <1>3, <1>4 DEF StageRight

\* A step of the host that leaves the stages alone.
LEMMA StagesStay ==
  ASSUME IInv, Types', Grows, UNCHANGED <<rx, tx, core, x, kv>>
  PROVE  \A j \in Stages : StageRight(j)'
<1>1. ASSUME NEW j \in Stages PROVE StageRight(j)'
  BY StageStays DEF IInv
<1>2. QED BY <1>1
-----------------------------------------------------------------------------
(* Every step keeps it.                                                   *)

\* At the start nothing is believed, under way or computed.
LEMMA InitRight == Init => IInv
<1> SUFFICES ASSUME Init PROVE IInv
  OBVIOUS
<1>1. /\ \A i \in Stages : /\ rx[i] = Seeking /\ tx[i] = Off
                           /\ ~core[i].start /\ ~core[i].busy /\ ~core[i].done
      /\ \A i \in 0..NStages : line[i] = NoByte
      /\ hrx = Seeking /\ hpos = 0
  BY DEF Init
<1>2. Types
  <2>1. rx \in [Stages -> RxRec] /\ hrx \in RxRec
    BY SeekingIs DEF Init
  <2>2. Off \in TxRec
    BY DEF Off, TxRec, Wrong
  <2>3. tx \in [Stages -> TxRec]
    BY <2>2 DEF Init
  <2>4. core \in [Stages -> CoreRec]
    BY DEF Init, CoreRec
  <2>5. x \in [Stages -> [0..(D - 1) -> Int]] /\ kv \in [Stages -> SUBSET Int]
    BY DEF Init, Wrong
  <2>6. line \in [0..NStages -> ByteRec]
    BY NoiseIs DEF Init
  <2>7. hpos \in 0..NPos /\ hidx \in Nat
    BY <1>1, Constants DEF Init
  <2>8. QED BY <2>1, <2>3, <2>4, <2>5, <2>6, <2>7 DEF Types
<1>3. ASSUME NEW i \in Stages PROVE StageRight(i)
  <2>1. rx[i].st = "S0" /\ ~rx[i].good /\ Shape(rx[i]) /\ ~tx[i].on
    BY <1>1, SeekingIs DEF Off
  <2>2. QED BY <1>1, <2>1 DEF StageRight, OneAtATime, Receives, Computes
<1>4. Cached
  BY <1>1 DEF Cached
<1>5. LineRight
  <2>1. ~(NoByte.at >= 0)
    BY NoiseIs DEF ByteRec
  <2>2. QED BY <1>1, <2>1 DEF LineRight
<1>6. HostRight
  BY <1>1, SeekingIs DEF HostRight
<1>7. QED BY <1>2, <1>3, <1>4, <1>5, <1>6 DEF IInv

\* The host sends the token of the position it asks for.
LEMMA HostSendRight == ASSUME IInv, HostSend PROVE IInv'
<1> DEFINE b == [at |-> hidx, type |-> Token, pos |-> hpos, val |-> Wrong]
<1>1. /\ hpos < NPos /\ line' = [line EXCEPT ![0] = b] /\ hidx' = hidx + 1
      /\ rx' = rx /\ tx' = tx /\ core' = core /\ x' = x /\ kv' = kv
      /\ hpos' = hpos /\ hrx' = hrx
  BY DEF HostSend, Sending, stage
<1>2. Types
  BY DEF IInv
<1>3. b \in ByteRec /\ b.type = Token /\ b.pos = hpos /\ 0 \in 0..NStages
  BY <1>2, Constants DEF Types, ByteRec, Wrong
<1>4. Types'
  <2>1. line' \in [0..NStages -> ByteRec]
    BY <1>1, <1>2, <1>3 DEF Types
  <2>2. QED BY <1>1, <1>2, <2>1 DEF Types
<1>5. Grows
  BY <1>1, <1>2, Constants DEF Grows, Types
<1>6. \A j \in Stages : StageRight(j)'
  BY <1>1, <1>4, <1>5, StagesStay
<1>7. Cached'
  BY <1>1 DEF IInv, Cached
<1>8. LineRight'
  <2>1. ASSUME NEW i \in 0..NStages, line'[i].at >= 0 PROVE TrueByte(i, line[i])'
    <3>1. CASE i = 0
      <4>1. line'[0] = b /\ 0 # NStages
        BY <1>1, <1>2, <1>3, Constants DEF Types
      <4>2. Came(0, hpos)
        BY <1>1, <1>2, Constants DEF Came, Types
      <4>3. TrueByte(0, b)
        BY <1>3, <4>1, <4>2, Constants DEF TrueByte, Kind
      <4>4. QED BY <1>2, <1>3, <1>4, <1>5, <3>1, <4>1, <4>3, ByteStays
    <3>2. CASE i # 0
      <4>1. line'[i] = line[i]
        BY <1>1, <1>2, <3>2 DEF Types
      <4>2. TrueByte(i, line[i])
        BY <2>1, <4>1 DEF IInv, LineRight
      <4>3. QED BY <1>2, <1>4, <1>5, <4>1, <4>2, ByteStays
    <3>3. QED BY <3>1, <3>2
  <2>2. QED BY <2>1 DEF LineRight
<1>9. HostRight'
  BY <1>1 DEF IInv, HostRight, Shape, Payload, Came, Hid
<1>10. QED BY <1>4, <1>6, <1>7, <1>8, <1>9 DEF IInv

\* Noise puts nothing on a line that is part of a message.
LEMMA DisturbRight == ASSUME IInv, NEW k \in 0..NStages, Disturb(k) PROVE IInv'
<1>1. PICK b \in {Glitch, Noise, NoByte} :
        /\ line' = [line EXCEPT ![k] = b] /\ hidx' = hidx
        /\ rx' = rx /\ tx' = tx /\ core' = core /\ x' = x /\ kv' = kv
        /\ hpos' = hpos /\ hrx' = hrx
  BY DEF Disturb, stage, host
<1>2. Types
  BY DEF IInv
<1>3. b \in ByteRec /\ b.at < 0 /\ b.at \in Int
  BY NoiseIs DEF ByteRec
<1>4. Types'
  <2>1. line' \in [0..NStages -> ByteRec]
    BY <1>1, <1>2, <1>3 DEF Types
  <2>2. QED BY <1>1, <1>2, <2>1 DEF Types
<1>5. Grows
  BY <1>1, <1>2, Constants DEF Grows, Types
<1>6. \A j \in Stages : StageRight(j)'
  BY <1>1, <1>4, <1>5, StagesStay
<1>7. Cached'
  BY <1>1 DEF IInv, Cached
<1>8. LineRight'
  <2>1. ASSUME NEW i \in 0..NStages, line'[i].at >= 0 PROVE TrueByte(i, line[i])'
    <3>1. line'[i] = line[i]
      <4>1. i = k => line'[i] = b
        BY <1>1, <1>2 DEF Types
      <4>2. i # k
        BY <1>3, <2>1, <4>1
      <4>3. QED BY <1>1, <1>2, <4>2 DEF Types
    <3>2. TrueByte(i, line[i])
      BY <2>1, <3>1 DEF IInv, LineRight
    <3>3. QED BY <1>2, <1>4, <1>5, <3>1, <3>2, ByteStays
  <2>2. QED BY <2>1 DEF LineRight
<1>9. HostRight'
  BY <1>1 DEF IInv, HostRight, Shape, Payload, Came, Hid
<1>10. QED BY <1>4, <1>6, <1>7, <1>8, <1>9 DEF IInv

\* A host that asks again forgets what it was receiving.
LEMMA TimeoutRight == ASSUME IInv, Timeout PROVE IInv'
<1>1. /\ line' = line /\ hidx' = 0 /\ hrx' = Seeking /\ hpos' = hpos
      /\ rx' = rx /\ tx' = tx /\ core' = core /\ x' = x /\ kv' = kv
  BY DEF Timeout, stage
<1>2. Types
  BY DEF IInv
<1>3. Types'
  BY <1>1, <1>2, SeekingIs DEF Types
<1>4. Grows
  BY <1>1, <1>2, Constants DEF Grows, Types
<1>5. \A j \in Stages : StageRight(j)'
  BY <1>1, <1>3, <1>4, StagesStay
<1>6. Cached' /\ LineRight'
  BY <1>1 DEF IInv, Cached, LineRight, TrueByte, Came, Hid, Kind
<1>7. HostRight'
  <2>1. hrx'.st = "S0" /\ ~hrx'.good /\ Shape(hrx')
    BY <1>1, SeekingIs
  <2>2. QED BY <2>1 DEF HostRight, Shape, Payload
<1>8. QED BY <1>3, <1>5, <1>6, <1>7 DEF IInv

\* What a byte makes of the host's receiver.
LEMMA HostByte ==
  ASSUME IInv, NEW b \in ByteRec, b.at >= 0 => TrueByte(NStages, b), NEW s \in Seen(b)
  PROVE  LET r == HostAfter(b, s) IN
         /\ r \in RxRec /\ Shape(r)
         /\ r.good => /\ Came(NStages, r.pos - 1)
                      /\ r.st \in {"CRC", "GO"} => r.val = Hid(NStages, r.pos - 1)
<1> DEFINE yes == TRUE
           s2 == [s EXCEPT !.type = Token]
           r == HostAfter(b, s)
<1>1. hrx \in RxRec /\ Shape(hrx) /\ hrx.st # "GO"
  BY DEF IInv, Types, HostRight
<1>2. s2 \in SeenRec
  BY SeenIs DEF SeenRec
<1> HIDE DEF s2
<1> DEFINE a == After(hrx, b, s2, yes)
<1> DEFINE v == IF hrx.st = "PAY" THEN b.val ELSE a.val
<1>3. r = Seeking \/ r = [a EXCEPT !.val = v]
  BY DEF HostAfter, s2, yes
<1>9. yes \in BOOLEAN
  OBVIOUS
<1> HIDE DEF r, yes
<1>4. /\ a \in RxRec /\ Shape(a)
      /\ a.st = "GO" => hrx.st = "CRC"
      /\ a.st = "CRC" => hrx.st = "PAY"
      /\ a.good => /\ b.at >= 0 /\ a.pos = b.pos /\ a.val = hrx.val
                   /\ a.st = "HDR" \/ (hrx.good /\ a.pos = hrx.pos)
  BY <1>1, <1>2, <1>9, AfterByte
<1> HIDE DEF a
<1>5. b.val \in Int /\ v \in Int
  BY <1>4 DEF ByteRec, RxRec
<1>6. CASE r = Seeking
  BY <1>6, SeekingIs DEF r
<1>7. CASE r = [a EXCEPT !.val = v]
  <2> HIDE DEF v
  <2>1. /\ r \in RxRec /\ r.st = a.st /\ r.n = a.n /\ r.type = a.type /\ r.pos = a.pos
        /\ r.good = a.good /\ r.val = v
    BY <1>4, <1>5, <1>7 DEF RxRec
  <2>2. Shape(r)
    BY <1>4, <2>1 DEF Shape
  <2>3. ASSUME r.good
        PROVE  /\ Came(NStages, r.pos - 1)
               /\ r.st \in {"CRC", "GO"} => r.val = Hid(NStages, r.pos - 1)
    <3>1. a.good /\ b.at >= 0 /\ a.pos = b.pos /\ a.val = hrx.val
          /\ (a.st = "HDR" \/ (hrx.good /\ a.pos = hrx.pos))
      BY <1>4, <2>1, <2>3
    <3>2. Came(NStages, b.pos - 1) /\ b.val = Hid(NStages, b.pos - 1)
      BY <3>1 DEF TrueByte
    <3>3. CASE r.st = "CRC"
      BY <1>4, <2>1, <3>1, <3>2, <3>3 DEF v
    <3>4. CASE r.st = "GO"
      <4>1. hrx.st = "CRC" /\ hrx.good /\ a.pos = hrx.pos
        BY <1>4, <2>1, <3>1, <3>4
      <4>2. hrx.val = Hid(NStages, hrx.pos - 1)
        BY <4>1 DEF IInv, HostRight
      <4>3. QED BY <2>1, <3>1, <3>2, <4>1, <4>2 DEF v
    <3>5. QED BY <2>1, <3>1, <3>2, <3>3, <3>4
  <2>4. QED BY <2>1, <2>2, <2>3 DEF r
<1>8. QED BY <1>3, <1>6, <1>7

\* The host goes on by one position, with the token the stages made of it.
LEMMA HostTakeRight ==
  ASSUME IInv, HostTake
  PROVE  IInv' /\ (Board!Step \/ UNCHANGED <<hpos, tok>>)
<1> DEFINE b == line[NStages]
<1>1. /\ line' = [line EXCEPT ![NStages] = NoByte]
      /\ rx' = rx /\ tx' = tx /\ core' = core /\ x' = x /\ kv' = kv
  BY DEF HostTake, stage
<1>2. Types
  BY DEF IInv
<1>3. NStages \in 0..NStages /\ b \in ByteRec /\ (b.at >= 0 => TrueByte(NStages, b))
  <2>1. NStages \in 0..NStages
    BY Constants
  <2>2. QED BY <1>2, <2>1 DEF Types, IInv, LineRight
<1>4. /\ hpos' \in 0..NPos /\ hpos <= hpos' /\ hidx' \in Nat /\ hrx' \in RxRec
      /\ Board!Step \/ UNCHANGED <<hpos, tok>>
      /\ Shape(hrx') /\ hrx'.st # "GO"
      /\ hrx'.good => /\ Came(NStages, hrx'.pos - 1)
                      /\ hrx'.st = "CRC" => hrx'.val = Hid(NStages, hrx'.pos - 1)
      /\ hpos' # hpos => Came(NStages, hpos) /\ hpos' = hpos + 1
  <2>1. hpos \in 0..NPos /\ hidx \in Nat /\ hpos <= hpos
    BY <1>2, Constants DEF Types
  <2>2. CASE UNCHANGED host
    BY <1>2, <2>1, <2>2 DEF host, Types, IInv, HostRight
  <2>3. CASE Waiting /\ ~UNCHANGED host
    <3>1. PICK s \in Seen(b) :
            LET r == HostAfter(b, s) IN
            IF r.st = "GO" THEN hrx' = Seeking /\ Answered(r)
                           ELSE hrx' = r /\ UNCHANGED <<hpos, tok, hidx>>
      BY <2>3 DEF HostTake
    <3> DEFINE r == HostAfter(b, s)
    <3>2. /\ r \in RxRec /\ Shape(r)
          /\ r.good => /\ Came(NStages, r.pos - 1)
                       /\ r.st \in {"CRC", "GO"} => r.val = Hid(NStages, r.pos - 1)
      BY <1>3, HostByte
    <3>3. /\ r.st = "GO" => hrx' = Seeking /\ Answered(r)
          /\ r.st # "GO" => hrx' = r /\ UNCHANGED <<hpos, tok, hidx>>
      BY <3>1
    <3> HIDE DEF r
    <3>4. CASE r.st # "GO"
      BY <2>1, <3>2, <3>3, <3>4
    <3>5. CASE r.st = "GO"
      <4>1. hrx' = Seeking /\ hrx' \in RxRec /\ Shape(hrx') /\ hrx'.st = "S0" /\ ~hrx'.good
        BY <3>3, <3>5, SeekingIs
      <4>2. CASE UNCHANGED <<hpos, tok>>
        <5>1. hidx' = 0 \/ hidx' = hidx
          BY <3>3, <3>5, <4>2, <2>1 DEF Answered
        <5>2. QED BY <2>1, <4>1, <4>2, <5>1
      <4>3. CASE ~UNCHANGED <<hpos, tok>>
        <5>1. /\ r.good /\ r.pos = hpos + 1 /\ hpos' = hpos + 1 /\ hidx' = 0
              /\ tok' = IF r.val = Hid(NStages, hpos) THEN hpos + 1 ELSE Wrong
          BY <3>3, <3>5, <4>3 DEF Answered, Awaited
        <5>2. r.pos - 1 = hpos
          BY <2>1, <5>1, Constants
        <5>3. Came(NStages, hpos) /\ r.val = Hid(NStages, hpos)
          BY <3>2, <3>5, <5>1, <5>2
        <5>4. hpos < NPos /\ hpos' \in 0..NPos /\ hpos <= hpos'
          BY <2>1, <5>1, <5>3, Constants DEF Came
        <5>5. Board!Step
          BY <5>1, <5>3, <5>4 DEF Board!Step
        <5>6. QED BY <4>1, <5>1, <5>3, <5>4, <5>5
      <4>4. QED BY <4>2, <4>3
    <3>6. QED BY <3>4, <3>5
  <2>4. QED BY <2>2, <2>3 DEF HostTake
<1>5. Types'
  <2>1. line' \in [0..NStages -> ByteRec]
    BY <1>1, <1>2, NoiseIs DEF Types
  <2>2. QED BY <1>1, <1>2, <1>4, <2>1 DEF Types
<1>6. Grows
  BY <1>1, <1>4 DEF Grows
<1>7. \A j \in Stages : StageRight(j)'
  BY <1>1, <1>5, <1>6, StagesStay
<1>8. Cached'
  <2> SUFFICES ASSUME NEW j \in Stages, NEW p \in 0..(hpos' - 1) PROVE p \in kv[j]
    BY <1>1 DEF Cached
  <2>1. hpos \in Int
    BY <1>2, Constants DEF Types
  <2>2. p \in 0..(hpos - 1) \/ (p = hpos /\ Came(NStages, hpos))
    <3>1. CASE hpos' = hpos
      BY <3>1
    <3>2. CASE hpos' = hpos + 1 /\ Came(NStages, hpos)
      BY <2>1, <3>2
    <3>3. QED BY <1>4, <3>1, <3>2
  <2>3. j \in 0..(NStages - 1)
    BY DEF Stages
  <2>4. QED BY <2>2, <2>3 DEF IInv, Cached, Came
<1>9. LineRight'
  <2>1. ASSUME NEW i \in 0..NStages, line'[i].at >= 0 PROVE TrueByte(i, line[i])'
    <3>1. line'[i] = line[i]
      <4>1. i = NStages => line'[i] = NoByte
        BY <1>1, <1>2 DEF Types
      <4>2. i # NStages
        BY <2>1, <4>1, NoiseIs DEF ByteRec
      <4>3. QED BY <1>1, <1>2, <4>2 DEF Types
    <3>2. TrueByte(i, line[i])
      BY <2>1, <3>1 DEF IInv, LineRight
    <3>3. QED BY <1>2, <1>5, <1>6, <3>1, <3>2, ByteStays
  <2>2. QED BY <2>1 DEF LineRight
<1>10. HostRight'
  <2>1. hrx'.good => Came(NStages, hrx.pos - 1)'
    <3> SUFFICES ASSUME hrx'.good PROVE Came(NStages, hrx.pos - 1)'
      OBVIOUS
    <3>1. PICK p : p = hrx'.pos - 1
      OBVIOUS
    <3>2. Came(NStages, p)
      BY <1>4, <3>1
    <3>3. Came(NStages, p)'
      BY <1>2, <1>3, <1>5, <1>6, <3>2, CameStays
    <3>4. QED BY <3>1, <3>3 DEF Came
  <2>2. QED BY <1>4, <2>1 DEF HostRight, Shape, Payload, Hid
<1>11. QED BY <1>4, <1>5, <1>7, <1>8, <1>9, <1>10 DEF IInv

\* An edge of stage i's clock, field by field.
LEMMA EdgeIs ==
  ASSUME Types, NEW i \in Stages, NEW take \in BOOLEAN, NEW fin \in BOOLEAN,
         NEW snd \in BOOLEAN, Edge(i, take, fin, snd)
  PROVE  /\ \A j \in Stages \ {i} : /\ rx'[j] = rx[j] /\ tx'[j] = tx[j] /\ core'[j] = core[j]
                                    /\ x'[j] = x[j] /\ kv'[j] = kv[j]
         /\ \A j \in (0..NStages) \ {i, i + 1} : line'[j] = line[j]
         /\ line'[i] = IF take THEN NoByte ELSE line[i]
         /\ line'[i + 1] = IF snd THEN tbyte(i) ELSE line[i + 1]
         /\ core'[i].start <=> Starts(i) \/ (core[i].start /\ ~core[i].busy)
         /\ core'[i].pos = IF Starts(i) THEN rx[i].pos ELSE core[i].pos
         /\ core'[i].emb <=> IF Starts(i) THEN rx[i].type = Token ELSE core[i].emb
         /\ core'[i].busy <=> core[i].start \/ (core[i].busy /\ ~fin)
         /\ core'[i].done <=> fin
         /\ core'[i].right <=> IF core[i].start /\ ~core[i].busy THEN InputRight(i)
                                                                 ELSE core[i].right
         /\ core' \in [Stages -> CoreRec] /\ line' \in [0..NStages -> ByteRec]
<1> DEFINE c == core[i] r == rx[i]
           g1 == Starts(i) \/ (c.start /\ ~c.busy)
           g2 == IF Starts(i) THEN r.pos ELSE c.pos
           g3 == IF Starts(i) THEN r.type = Token ELSE c.emb
           g4 == c.start \/ (c.busy /\ ~fin)
           g6 == IF c.start /\ ~c.busy THEN InputRight(i) ELSE c.right
           n == [start |-> g1, pos |-> g2, emb |-> g3, busy |-> g4, done |-> fin, right |-> g6]
<1>1. /\ c \in CoreRec /\ r \in RxRec /\ tx[i] \in TxRec
      /\ x[i] \in [0..(D - 1) -> Int] /\ line[i] \in ByteRec /\ line[i + 1] \in ByteRec
  BY StagesAre DEF Types
<1>2. core' = [core EXCEPT ![i] = n]
  BY DEF Edge, Core
<1>3. core'[i] = n /\ \A j \in Stages \ {i} : core'[j] = core[j]
  BY <1>2 DEF Types
<1>4. /\ n.start = g1 /\ n.pos = g2 /\ n.emb = g3 /\ n.busy = g4 /\ n.done = fin /\ n.right = g6
  OBVIOUS
<1>5. /\ g1 \in BOOLEAN /\ g2 \in Int /\ g3 \in BOOLEAN /\ g4 \in BOOLEAN /\ g6 \in BOOLEAN
  BY <1>1 DEF CoreRec, RxRec, InputRight
<1>6. n \in CoreRec
  <2> HIDE DEF g1, g2, g3, g4, g6
  <2>1. QED BY <1>5 DEF CoreRec
<1>7. core' \in [Stages -> CoreRec]
  <2> HIDE DEF n
  <2>1. QED BY <1>2, <1>6 DEF Types
<1>8. \A j \in Stages \ {i} : rx'[j] = rx[j] /\ tx'[j] = tx[j] /\ x'[j] = x[j] /\ kv'[j] = kv[j]
  <2>1. \A j \in Stages \ {i} : rx'[j] = rx[j]
    BY DEF Edge, Receiver, Types
  <2>2. \A j \in Stages \ {i} : tx'[j] = tx[j]
    BY DEF Edge, Transmitter, Types
  <2>3. \A j \in Stages \ {i} : x'[j] = x[j] /\ kv'[j] = kv[j]
    BY DEF Edge, State, Types
  <2>4. QED BY <2>1, <2>2, <2>3
<1>9. tbyte(i) \in ByteRec
  <2> DEFINE v == IF HasHead(i) THEN tx[i].best
                  ELSE IF tx[i].ti - PAY \in 0..(D - 1) THEN x[i][tx[i].ti - PAY] ELSE Wrong
             y == IF HasHead(i) THEN Token ELSE Hidden
  <2>4. tx[i].best \in Int
    BY <1>1 DEF TxRec
  <2>5. \A e \in 0..(D - 1) : x[i][e] \in Int
    BY <1>1
  <2>6. Wrong \in Int
    BY DEF Wrong
  <2>1. v \in Int /\ y \in {Token, Hidden}
    BY <2>4, <2>5, <2>6
  <2>2. tbyte(i) = [at |-> tx[i].ti, type |-> y, pos |-> tx[i].pos, val |-> v]
    BY DEF tbyte
  <2> HIDE DEF v, y
  <2>3. QED BY <1>1, <2>1, <2>2 DEF TxRec, ByteRec
<1>10. /\ \A j \in (0..NStages) \ {i, i + 1} : line'[j] = line[j]
       /\ line'[i] = IF take THEN NoByte ELSE line[i]
       /\ line'[i + 1] = IF snd THEN tbyte(i) ELSE line[i + 1]
       /\ line' \in [0..NStages -> ByteRec]
  <2> DEFINE b1 == IF take THEN NoByte ELSE line[i]
             b2 == IF snd THEN tbyte(i) ELSE line[i + 1]
  <2>1. /\ i \in 0..NStages /\ i + 1 \in 0..NStages /\ i # i + 1
    BY StagesAre
  <2>2. b1 \in ByteRec /\ b2 \in ByteRec
    BY <1>1, <1>9, NoiseIs
  <2>3. line' = [line EXCEPT ![i] = b1, ![i + 1] = b2]
    BY <2>1 DEF Edge, Types
  <2> HIDE DEF b1, b2
  <2>4. QED BY <2>1, <2>2, <2>3 DEF Types, b1, b2
<1>11. QED BY <1>3, <1>4, <1>7, <1>8, <1>10

\* What an edge writes into the core's hidden state and its cache.
LEMMA EdgeWrites ==
  ASSUME Types, NEW i \in Stages, NEW take \in BOOLEAN, NEW fin \in BOOLEAN,
         NEW snd \in BOOLEAN, Edge(i, take, fin, snd)
  PROVE  /\ x' \in [Stages -> [0..(D - 1) -> Int]] /\ kv' \in [Stages -> SUBSET Int]
         /\ kv'[i] = IF ~fin THEN kv[i] ELSE IF core[i].right THEN kv[i] \cup {core[i].pos}
                                                              ELSE kv[i] \ {core[i].pos}
         /\ fin => \A e \in 0..(D - 1) : x'[i][e] = Result(i)
         /\ ~fin /\ ~(core[i].start /\ ~core[i].busy)
              => IF take /\ rx[i].st = "PAY" /\ rx[i].type = Hidden /\ ~core[i].busy
                 THEN \A e \in 0..(D - 1) :
                        x'[i][e] = IF e # WriteAt(i) THEN x[i][e]
                                   ELSE IF line[i].at = PAY + rx[i].n THEN line[i].val ELSE Wrong
                 ELSE x'[i] = x[i]
<1>1. x[i] \in [0..(D - 1) -> Int] /\ line[i] \in ByteRec /\ core[i] \in CoreRec
  BY StagesAre DEF Types
<1>2. Wrong \in Int
  BY DEF Wrong
<1>3. core[i].pos \in Int /\ line[i].val \in Int
  <2>1. core[i].pos \in Int
    BY <1>1 DEF CoreRec
  <2>2. line[i].val \in Int
    BY <1>1 DEF ByteRec
  <2>3. QED BY <2>1, <2>2
<1>4. Result(i) \in Int
  <2>1. i + 1 \in Int
    BY StagesAre
  <2>2. QED BY <1>2, <1>3, <2>1, HidIsInt DEF Result
<1> DEFINE w == [e \in 0..(D - 1) |-> IF e # WriteAt(i) THEN x[i][e]
                                      ELSE IF line[i].at = PAY + rx[i].n THEN line[i].val
                                      ELSE Wrong]
           f == [e \in 0..(D - 1) |-> Result(i)]
           z == [e \in 0..(D - 1) |-> Wrong]
           y == IF fin THEN f
                ELSE IF core[i].start /\ ~core[i].busy THEN z
                ELSE IF take /\ rx[i].st = "PAY" /\ rx[i].type = Hidden /\ ~core[i].busy THEN w
                ELSE x[i]
<1>5. f \in [0..(D - 1) -> Int] /\ z \in [0..(D - 1) -> Int]
  BY <1>2, <1>4
<1>6. w \in [0..(D - 1) -> Int]
  BY <1>1, <1>2, <1>3
<1>7. x' = [x EXCEPT ![i] = y]
  BY DEF Edge, State
<1>8. /\ \A e \in 0..(D - 1) : f[e] = Result(i)
      /\ \A e \in 0..(D - 1) :
           w[e] = IF e # WriteAt(i) THEN x[i][e]
                  ELSE IF line[i].at = PAY + rx[i].n THEN line[i].val ELSE Wrong
  OBVIOUS
<1> HIDE DEF w, f, z
<1>9. y \in [0..(D - 1) -> Int]
  BY <1>1, <1>5, <1>6
<1>10. /\ fin => y = f
       /\ ~fin /\ ~(core[i].start /\ ~core[i].busy)
            => y = IF take /\ rx[i].st = "PAY" /\ rx[i].type = Hidden /\ ~core[i].busy
                   THEN w ELSE x[i]
  OBVIOUS
<1> HIDE DEF y
<1>11. x' \in [Stages -> [0..(D - 1) -> Int]] /\ x'[i] = y
  BY <1>7, <1>9 DEF Types
<1> DEFINE k == IF ~fin THEN kv[i] ELSE IF core[i].right THEN kv[i] \cup {core[i].pos}
                                        ELSE kv[i] \ {core[i].pos}
<1>12. kv' = [kv EXCEPT ![i] = k]
  BY DEF Edge, State, Types
<1>13. k \in SUBSET Int
  BY <1>3 DEF Types
<1>14. kv' \in [Stages -> SUBSET Int] /\ kv'[i] = k
  <2> HIDE DEF k
  <2>1. QED BY <1>12, <1>13 DEF Types
<1>15. QED BY <1>8, <1>10, <1>11, <1>14

\* The transmitter goes on with its message, or takes up what the core has made.
LEMMA EdgeSends ==
  ASSUME Types, NEW i \in Stages, NEW take \in BOOLEAN, NEW fin \in BOOLEAN,
         NEW snd \in BOOLEAN, Edge(i, take, fin, snd)
  PROVE  /\ tx' \in [Stages -> TxRec]
         /\ core[i].done /\ ~tx[i].on
              => tx'[i].on /\ tx'[i].pos = SentPos(i) /\ tx'[i].best = Result(i)
         /\ ~(core[i].done /\ ~tx[i].on)
              => (tx'[i].on => tx[i].on /\ tx'[i].pos = tx[i].pos /\ tx'[i].best = tx[i].best)
<1> DEFINE q == tx[i]
           new == [on |-> TRUE, ti |-> 0, pos |-> SentPos(i), best |-> Result(i)]
           on == [q EXCEPT !.ti = q.ti + 1]
           y == IF core[i].done /\ ~q.on THEN new
                ELSE IF ~snd THEN q
                ELSE IF q.ti + 1 = Length(IF HasHead(i) THEN Token ELSE Hidden) THEN Off
                ELSE on
<1>1. q \in TxRec /\ core[i] \in CoreRec /\ i + 1 \in Int
  BY StagesAre DEF Types
<1>2. core[i].pos \in Int /\ Wrong \in Int
  BY <1>1 DEF CoreRec, Wrong
<1>3. Result(i) \in Int /\ SentPos(i) \in Int
  <2>1. i + 1 \in Int
    BY <1>1
  <2>2. Result(i) \in Int
    BY <1>2, <2>1, HidIsInt DEF Result
  <2>3. SentPos(i) \in Int
    BY <1>2 DEF SentPos
  <2>4. QED BY <2>2, <2>3
<1>4. tx' = [tx EXCEPT ![i] = y]
  <2>1. Transmitter(i, snd)
    BY DEF Edge
  <2>2. QED BY <2>1 DEF Transmitter
<1>5. new \in TxRec /\ new.on /\ new.pos = SentPos(i) /\ new.best = Result(i)
  BY <1>3 DEF TxRec
<1>6. on \in TxRec /\ on.on = q.on /\ on.pos = q.pos /\ on.best = q.best
  BY <1>1 DEF TxRec
<1>7. Off \in TxRec /\ ~Off.on
  BY DEF Off, TxRec, Wrong
<1> HIDE DEF new, on
<1>8. y \in TxRec
  BY <1>1, <1>5, <1>6, <1>7
<1>9. /\ core[i].done /\ ~q.on => y = new
      /\ ~(core[i].done /\ ~q.on) => y \in {q, Off, on}
  OBVIOUS
<1> HIDE DEF y
<1>10. tx' \in [Stages -> TxRec] /\ tx'[i] = y
  BY <1>4, <1>8 DEF Types
<1> HIDE DEF q
<1>11. QED BY <1>5, <1>6, <1>7, <1>9, <1>10 DEF q

\* What an edge makes of the receiver, and what one that believes its message
\* has just been given.
LEMMA EdgeReceives ==
  ASSUME Types, NEW i \in Stages, Shape(rx[i]), NEW take \in BOOLEAN, NEW fin \in BOOLEAN,
         NEW snd \in BOOLEAN, Edge(i, take, fin, snd)
  PROVE  /\ rx' \in [Stages -> RxRec] /\ Shape(rx'[i])
         /\ ~take => rx'[i] = IF rx[i].st = "GO" THEN Seeking ELSE rx[i]
         /\ rx'[i].st # "S0" => rx[i].st # "S0" \/ Idle(i)
         /\ take /\ rx'[i].good =>
              /\ line[i].at >= 0 /\ rx'[i].pos = line[i].pos
              /\ \/ rx[i].st = "HDR" /\ rx'[i].type = line[i].type /\ rx'[i].st = "HDR"
                 \/ /\ rx[i].good /\ rx'[i].type = rx[i].type /\ rx'[i].pos = rx[i].pos
                    /\ line[i].type = rx[i].type
                    /\ \/ rx'[i].st = "PAY" /\ rx'[i].n = 0
                       \/ /\ rx[i].st = "PAY" /\ line[i].at = PAY + rx[i].n
                          /\ \/ rx'[i].st = "PAY" /\ rx'[i].n = rx[i].n + 1
                             \/ rx'[i].st = "CRC" /\ rx[i].n + 1 = Payload(rx[i].type)
                       \/ rx[i].st = "CRC" /\ rx'[i].st = "GO"
<1> DEFINE r == rx[i] b == line[i]
<1>1. rx \in [Stages -> RxRec] /\ r \in RxRec /\ b \in ByteRec
  BY StagesAre DEF Types
<1>2. Receiver(i, take) /\ (take => r.st # "GO")
  BY DEF Edge
<1>3. CASE ~take
  <2> DEFINE y == IF r.st = "GO" THEN Seeking ELSE r
  <2>1. rx' = [rx EXCEPT ![i] = y]
    BY <1>2, <1>3 DEF Receiver
  <2>2. y \in RxRec /\ Shape(y) /\ (y.st # "S0" => r.st # "S0")
    BY <1>1, SeekingIs
  <2> HIDE DEF y
  <2>3. rx' \in [Stages -> RxRec] /\ rx'[i] = y
    BY <1>1, <2>1, <2>2
  <2>4. QED BY <1>3, <2>2, <2>3 DEF y
<1>4. CASE take
  <2> DEFINE idle == Idle(i)
  <2>1. PICK s \in Seen(b) : rx' = [rx EXCEPT ![i] = After(r, b, s, idle)]
    BY <1>2, <1>4 DEF Receiver
  <2>2. s \in SeenRec /\ (b.at = 2 => s.type = b.type)
    BY <1>1, SeenIs
  <2>3. idle \in BOOLEAN
    BY DEF Idle
  <2> DEFINE a == After(r, b, s, idle)
  <2>4. /\ a \in RxRec /\ Shape(a)
        /\ a.st # "S0" => r.st # "S0" \/ idle
        /\ a.good => /\ b.at >= 0 /\ a.pos = b.pos
                     /\ \/ r.st = "HDR" /\ b.at = 2 /\ a.type = s.type /\ a.st = "HDR"
                        \/ /\ r.good /\ a.type = r.type /\ a.pos = r.pos /\ b.type = r.type
                           /\ \/ a.st = "PAY" /\ a.n = 0
                              \/ /\ r.st = "PAY" /\ b.at = PAY + r.n
                                 /\ \/ a.st = "PAY" /\ a.n = r.n + 1
                                    \/ a.st = "CRC" /\ r.n + 1 = Payload(r.type)
                              \/ r.st = "CRC" /\ a.st = "GO"
    <3> HIDE DEF idle
    <3>1. QED BY <1>1, <1>2, <1>4, <2>2, <2>3, AfterByte
  <2> HIDE DEF a
  <2>5. rx' \in [Stages -> RxRec] /\ rx'[i] = a
    BY <1>1, <2>1, <2>4 DEF a
  <2>6. QED BY <1>4, <2>2, <2>4, <2>5
<1>5. QED BY <1>3, <1>4

\* An edge keeps the types and leaves the host alone.
LEMMA EdgeTypes ==
  ASSUME Types, NEW i \in Stages, Shape(rx[i]), NEW take \in BOOLEAN, NEW fin \in BOOLEAN,
         NEW snd \in BOOLEAN, Edge(i, take, fin, snd)
  PROVE  Types' /\ hpos' = hpos /\ hrx' = hrx /\ UNCHANGED <<hpos, tok>>
<1>1. hpos' = hpos /\ tok' = tok /\ hidx' = hidx /\ hrx' = hrx
  BY DEF Edge, host
<1>2. rx' \in [Stages -> RxRec]
  BY EdgeReceives
<1>3. tx' \in [Stages -> TxRec]
  BY EdgeSends
<1>4. core' \in [Stages -> CoreRec] /\ line' \in [0..NStages -> ByteRec]
  BY EdgeIs
<1>5. x' \in [Stages -> [0..(D - 1) -> Int]] /\ kv' \in [Stages -> SUBSET Int]
  BY EdgeWrites
<1>6. QED BY <1>1, <1>2, <1>3, <1>4, <1>5 DEF Types

\* A core that ends has been given the right thing, so the cache only fills.
LEMMA EdgeGrows ==
  ASSUME IInv, NEW i \in Stages, NEW take \in BOOLEAN, NEW fin \in BOOLEAN,
         NEW snd \in BOOLEAN, Edge(i, take, fin, snd)
  PROVE  Grows /\ (fin => kv'[i] = kv[i] \cup {core[i].pos}) /\ (~fin => kv'[i] = kv[i])
<1>1. Types /\ StageRight(i)
  BY DEF IInv
<1>2. fin => core[i].right
  BY <1>1 DEF Edge, StageRight, Computes
<1>3. kv'[i] = IF fin THEN kv[i] \cup {core[i].pos} ELSE kv[i]
  BY <1>1, <1>2, EdgeWrites
<1>4. \A j \in Stages \ {i} : kv'[j] = kv[j]
  BY <1>1, EdgeIs
<1>5. hpos' = hpos /\ hpos <= hpos
  <2>1. hpos \in Int
    BY <1>1, Constants DEF Types
  <2>2. QED BY <2>1 DEF Edge, host
<1>6. QED BY <1>3, <1>4, <1>5 DEF Grows

\* An edge of a stage that has begun a message: its core rests.
LEMMA ReceivingStage ==
  ASSUME IInv, Guarded', NEW i \in Stages, NEW take \in BOOLEAN, NEW fin \in BOOLEAN,
         NEW snd \in BOOLEAN, Edge(i, take, fin, snd), rx[i].st # "S0"
  PROVE  StageRight(i)'
<1> DEFINE r == rx[i] b == line[i]
<1>1. Types /\ StageRight(i) /\ Shape(r)
  BY DEF IInv, StageRight
<1>2. i \in 0..NStages /\ i + 1 \in 0..NStages
  BY StagesAre
<1>3. Types' /\ Grows /\ hpos' = hpos
  BY <1>1, EdgeTypes, EdgeGrows
<1>4. /\ ~core[i].start /\ ~core[i].busy /\ ~core[i].done /\ ~fin
      /\ tx[i].on => r.st \in {"S1", "HDR"}
  BY <1>1 DEF StageRight, OneAtATime, Idle, Edge
<1>5. /\ core'[i].start <=> Starts(i)
      /\ core'[i].pos = IF Starts(i) THEN rx[i].pos ELSE core[i].pos
      /\ core'[i].emb <=> IF Starts(i) THEN rx[i].type = Token ELSE core[i].emb
      /\ ~core'[i].busy /\ ~core'[i].done
      /\ Starts(i) => r.st = "GO"
  BY <1>1, <1>4, EdgeIs DEF Starts
<1>6. tx'[i].on => tx[i].on /\ tx'[i].pos = tx[i].pos /\ tx'[i].best = tx[i].best
  BY <1>1, <1>4, EdgeSends
<1>7. Shape(rx[i])'
  BY <1>1, EdgeReceives DEF Shape, Payload
<1>8. IF take /\ r.st = "PAY" /\ r.type = Hidden
      THEN \A e \in 0..(D - 1) :
             x'[i][e] = IF e # r.n THEN x[i][e]
                        ELSE IF b.at = PAY + r.n THEN b.val ELSE Wrong
      ELSE x'[i] = x[i]
  <2>1. IF take /\ rx[i].st = "PAY" /\ rx[i].type = Hidden /\ ~core[i].busy
        THEN \A e \in 0..(D - 1) :
               x'[i][e] = IF e # WriteAt(i) THEN x[i][e]
                          ELSE IF line[i].at = PAY + rx[i].n THEN line[i].val ELSE Wrong
        ELSE x'[i] = x[i]
    BY <1>1, <1>4, EdgeWrites
  <2>2. r.st = "PAY" => WriteAt(i) = r.n
    BY <1>4 DEF WriteAt
  <2>3. QED BY <1>4, <2>1, <2>2
<1>9. kv'[i] = kv[i]
  BY <1>4, EdgeGrows
<1>10. take => r.st # "GO"
  BY DEF Edge
<1>11. PICK p, q : p = r.pos /\ q = b.pos
  OBVIOUS
<1>12. ASSUME r.good
       PROVE  /\ r.type = Kind(i) /\ Came(i, p) /\ Came(i, p)'
              /\ i # 0 => \A e \in 0..(D - 1) :
                   r.st \in {"CRC", "GO"} \/ (r.st = "PAY" /\ e < r.n) => x[i][e] = Hid(i, p)
  <2>1. /\ r.type = Kind(i) /\ Came(i, p)
        /\ i # 0 => \A e \in 0..(D - 1) :
             r.st \in {"CRC", "GO"} \/ (r.st = "PAY" /\ e < r.n) => x[i][e] = Hid(i, p)
    BY <1>1, <1>11, <1>12 DEF StageRight, Receives
  <2>2. Came(i, p)'
    BY <1>1, <1>2, <1>3, <2>1, CameStays
  <2>3. QED BY <2>1, <2>2
<1>13. ASSUME b.at >= 0
       PROVE  /\ b.type = Kind(i) /\ Came(i, q)'
              /\ i # 0 /\ b.at \in PAY..(PAY + D - 1) => b.val = Hid(i, q)
  <2>1. i # NStages /\ TrueByte(i, b)
    BY <1>2, <1>13, StagesAre DEF IInv, LineRight
  <2>2. /\ b.type = Kind(i) /\ Came(i, q)
        /\ i # 0 /\ b.at \in PAY..(PAY + D - 1) => b.val = Hid(i, q)
    BY <1>11, <2>1 DEF TrueByte
  <2>3. Came(i, q)'
    BY <1>1, <1>2, <1>3, <2>2, CameStays
  <2>4. QED BY <2>2, <2>3
<1>14. OneAtATime(i)'
  <2>1. rx'[i].st # "S0" => ~core'[i].start
    <3>1. CASE Starts(i)
      BY <1>1, <1>10, <3>1, EdgeReceives, SeekingIs DEF Starts
    <3>2. CASE ~Starts(i)
      BY <1>5, <3>2
    <3>3. QED BY <3>1, <3>2
  <2>2. tx'[i].on => ~core'[i].start
    BY <1>4, <1>5, <1>6
  <2>3. QED BY <1>5, <2>1, <2>2 DEF OneAtATime, Guarded
<1>15. Computes(i)'
  <2>1. CASE ~Starts(i)
    <3>1. PICK k : k = core[i].pos
      OBVIOUS
    <3>2. ~core'[i].start /\ ~core'[i].busy /\ ~core'[i].done /\ core'[i].pos = k
      BY <1>5, <2>1, <3>1
    <3>3. ASSUME tx'[i].on
          PROVE  /\ Came(i + 1, k)' /\ \A e \in 0..(D - 1) : x'[i][e] = Hid(i + 1, k)
                 /\ tx'[i].pos = SentPos(i) /\ tx'[i].best = Hid(i + 1, k)
      <4>1. tx[i].on /\ tx'[i].pos = tx[i].pos /\ tx'[i].best = tx[i].best
        BY <1>6, <3>3
      <4>2. /\ Came(i + 1, k) /\ \A e \in 0..(D - 1) : x[i][e] = Hid(i + 1, k)
            /\ tx[i].pos = SentPos(i) /\ tx[i].best = Hid(i + 1, k)
        BY <1>1, <3>1, <4>1 DEF StageRight, Computes
      <4>3. x'[i] = x[i]
        BY <1>4, <1>8, <4>1
      <4>4. Came(i + 1, k)'
        BY <1>1, <1>2, <1>3, <4>2, CameStays
      <4>5. QED BY <4>1, <4>2, <4>3, <4>4
    <3>4. SentPos(i)' = SentPos(i)
      BY <3>1, <3>2 DEF SentPos, HasHead, Last
    <3>5. tx'[i].on => Came(i + 1, core[i].pos)'
      BY <3>2, <3>3 DEF Came
    <3>6. QED BY <3>2, <3>3, <3>4, <3>5 DEF Computes, Hid
  <2>2. CASE Starts(i)
    <3>1. r.st = "GO" /\ r.good /\ ~take
      BY <1>10, <2>2 DEF Starts
    <3>2. core'[i].pos = p /\ (core'[i].emb <=> r.type = Token)
      BY <1>5, <1>11, <2>2
    <3>3. Came(i, core[i].pos)'
      BY <1>12, <3>1, <3>2 DEF Came
    <3>4. InputRight(i)'
      <4>1. core'[i].emb \/ \A e \in 0..(D - 1) : x'[i][e] = Hid(i, p)
        <5>1. x'[i] = x[i]
          BY <1>8, <3>1
        <5>2. QED BY <1>12, <3>1, <3>2, <5>1 DEF Kind
      <4>2. 0..(p - 1) \subseteq kv'[i]
        <5>1. hpos \in Int /\ p \in 0..hpos
          BY <1>1, <1>12, <3>1, Constants DEF Came, Types
        <5>2. 0..(p - 1) \subseteq 0..(hpos - 1)
          BY <5>1
        <5>3. 0..(hpos - 1) \subseteq kv[i]
          BY DEF IInv, Cached
        <5>4. QED BY <1>9, <5>2, <5>3
      <4>3. QED BY <3>2, <4>1, <4>2 DEF InputRight, Hid
    <3>5. ~tx'[i].on
      BY <1>4, <1>6, <3>1
    <3>6. QED BY <1>5, <3>3, <3>4, <3>5 DEF Computes
  <2>3. QED BY <2>1, <2>2
<1>16. Receives(i)'
  <2> SUFFICES ASSUME rx'[i].good
               PROVE  /\ rx'[i].type = Kind(i) /\ Came(i, rx[i].pos)'
                      /\ i # 0 => \A e \in 0..(D - 1) :
                           rx'[i].st \in {"CRC", "GO"} \/ (rx'[i].st = "PAY" /\ e < rx'[i].n)
                             => x'[i][e] = Hid(i, rx'[i].pos)
    BY DEF Receives, Hid, Kind
  <2>1. CASE ~take
    <3>1. rx'[i] = r /\ r.good
      BY <1>1, <2>1, EdgeReceives, SeekingIs
    <3>2. x'[i] = x[i]
      BY <1>8, <2>1
    <3>3. Came(i, rx[i].pos)'
      BY <1>11, <1>12, <3>1 DEF Came
    <3>4. QED BY <1>11, <1>12, <3>1, <3>2, <3>3
  <2>2. CASE take
    <3>1. /\ b.at >= 0 /\ rx'[i].pos = q
          /\ \/ r.st = "HDR" /\ rx'[i].type = b.type /\ rx'[i].st = "HDR"
             \/ /\ r.good /\ rx'[i].type = r.type /\ rx'[i].pos = p
                /\ \/ rx'[i].st = "PAY" /\ rx'[i].n = 0
                   \/ /\ r.st = "PAY" /\ b.at = PAY + r.n
                      /\ \/ rx'[i].st = "PAY" /\ rx'[i].n = r.n + 1
                         \/ rx'[i].st = "CRC" /\ r.n + 1 = Payload(r.type)
                   \/ r.st = "CRC" /\ rx'[i].st = "GO"
      BY <1>1, <1>11, <2>2, EdgeReceives
    <3>2. rx'[i].type = Kind(i)
      BY <1>12, <1>13, <3>1
    <3>3. Came(i, rx[i].pos)'
      BY <1>13, <3>1 DEF Came
    <3>4. ASSUME i # 0, NEW e \in 0..(D - 1),
                 rx'[i].st \in {"CRC", "GO"} \/ (rx'[i].st = "PAY" /\ e < rx'[i].n)
          PROVE  x'[i][e] = Hid(i, q)
      <4>1. r.good /\ p = q
        BY <3>1, <3>4
      <4>2. r.type = Hidden /\ Payload(r.type) = D
        BY <1>2, <1>12, <3>4, <4>1, StagesAre, Constants DEF Kind
      <4>3. CASE r.st = "PAY" /\ b.at = PAY + r.n /\ (e = r.n \/ e < r.n)
        <5>1. x'[i][e] = IF e # r.n THEN x[i][e] ELSE b.val
          BY <1>8, <2>2, <4>2, <4>3
        <5>2. CASE e = r.n
          <6>1. b.at \in PAY..(PAY + D - 1)
            BY <4>3, <5>2, Constants
          <6>2. b.val = Hid(i, q)
            BY <1>13, <3>1, <3>4, <6>1
          <6>3. QED BY <5>1, <5>2, <6>2
        <5>3. CASE e # r.n /\ e < r.n
          <6>1. x[i][e] = Hid(i, p)
            BY <1>12, <3>4, <4>1, <4>3, <5>3
          <6>2. QED BY <4>1, <5>1, <5>3, <6>1
        <5>4. QED BY <4>3, <5>2, <5>3
      <4>4. CASE r.st = "CRC"
        <5>1. x'[i] = x[i]
          BY <1>8, <4>4
        <5>2. x[i][e] = Hid(i, p)
          BY <1>12, <3>4, <4>1, <4>4
        <5>3. QED BY <4>1, <5>1, <5>2
      <4>5. r.n \in Nat
        BY <1>1 DEF Types, RxRec
      <4>6. QED BY <3>1, <3>4, <4>2, <4>3, <4>4, <4>5
    <3>5. QED BY <3>1, <3>2, <3>3, <3>4
  <2>3. QED BY <2>1, <2>2
<1>17. QED BY <1>7, <1>14, <1>15, <1>16 DEF StageRight

\* An edge of a stage that looks for a message: its core may work.
LEMMA SeekingStage ==
  ASSUME IInv, Guarded', NEW i \in Stages, NEW take \in BOOLEAN, NEW fin \in BOOLEAN,
         NEW snd \in BOOLEAN, Edge(i, take, fin, snd), rx[i].st = "S0"
  PROVE  StageRight(i)'
<1> DEFINE r == rx[i] c == core[i]
<1>1. Types /\ StageRight(i) /\ Shape(r) /\ ~r.good
  BY DEF IInv, StageRight, Shape
<1>2. i \in 0..NStages /\ i + 1 \in 0..NStages /\ 0..((i + 1) - 1) = (0..(i - 1)) \cup {i}
  BY StagesAre
<1>3. Types' /\ Grows /\ hpos' = hpos
  BY <1>1, EdgeTypes, EdgeGrows
<1>4. ~Starts(i)
  BY DEF Starts
<1>5. /\ core'[i].start <=> c.start /\ ~c.busy
      /\ core'[i].pos = c.pos
      /\ core'[i].busy <=> c.start \/ (c.busy /\ ~fin)
      /\ core'[i].done <=> fin
      /\ core'[i].right <=> IF c.start /\ ~c.busy THEN InputRight(i) ELSE c.right
  BY <1>1, <1>4, EdgeIs
<1>6. /\ fin => c.busy /\ ~c.start
      /\ snd => tx[i].on
  BY DEF Edge
<1>7. /\ tx[i].on => ~c.start /\ ~c.busy /\ ~c.done
      /\ c.done => ~c.start /\ ~c.busy
  BY <1>1 DEF StageRight, OneAtATime
<1>8. /\ c.start \/ c.busy => Came(i, c.pos)
      /\ c.start /\ ~c.busy => InputRight(i)
      /\ c.busy \/ c.done => c.right
      /\ c.done \/ tx[i].on => /\ Came(i + 1, c.pos)
                               /\ \A e \in 0..(D - 1) : x[i][e] = Hid(i + 1, c.pos)
      /\ tx[i].on => tx[i].pos = SentPos(i) /\ tx[i].best = Hid(i + 1, c.pos)
  BY <1>1 DEF StageRight, Computes
<1>9. tx'[i].on => /\ tx'[i].pos = SentPos(i) /\ tx'[i].best = Hid(i + 1, c.pos)
                   /\ c.done \/ tx[i].on
  <2>1. CASE c.done /\ ~tx[i].on
    <3>1. tx'[i].pos = SentPos(i) /\ tx'[i].best = Result(i)
      BY <1>1, <2>1, EdgeSends
    <3>2. Result(i) = Hid(i + 1, c.pos)
      BY <1>8, <2>1 DEF Result
    <3>3. QED BY <2>1, <3>1, <3>2
  <2>2. CASE ~(c.done /\ ~tx[i].on)
    BY <1>1, <1>8, <2>2, EdgeSends
  <2>3. QED BY <2>1, <2>2
<1>10. Shape(rx[i])'
  BY <1>1, EdgeReceives DEF Shape, Payload
<1>11. Receives(i)'
  <2>1. ~rx'[i].good
    <3>1. CASE take
      BY <1>1, <3>1, EdgeReceives
    <3>2. CASE ~take
      BY <1>1, <3>2, EdgeReceives
    <3>3. QED BY <3>1, <3>2
  <2>2. QED BY <2>1 DEF Receives
<1>12. OneAtATime(i)'
  <2>1. rx'[i].st # "S0" => ~core'[i].start /\ ~core'[i].busy /\ ~core'[i].done
    BY <1>1, <1>5, <1>6, EdgeReceives DEF Idle
  <2>2. tx'[i].on => /\ ~core'[i].start /\ ~core'[i].busy /\ ~core'[i].done
                     /\ rx'[i].st \in {"S0", "S1", "HDR"}
    BY <1>5, <1>6, <1>7, <1>9 DEF Guarded
  <2>3. core'[i].done => ~core'[i].start /\ ~core'[i].busy
    BY <1>5, <1>6
  <2>4. QED BY <2>1, <2>2, <2>3 DEF OneAtATime
<1>13. PICK p : p = c.pos
  OBVIOUS
<1>14. core'[i].start \/ core'[i].busy => Came(i, core[i].pos)'
  <2> SUFFICES ASSUME core'[i].start \/ core'[i].busy PROVE Came(i, core[i].pos)'
    OBVIOUS
  <2>1. Came(i, p)
    BY <1>5, <1>8, <1>13
  <2>2. Came(i, p)'
    BY <1>1, <1>2, <1>3, <2>1, CameStays
  <2>3. QED BY <1>5, <1>13, <2>2 DEF Came
<1>15. core'[i].busy \/ core'[i].done => core'[i].right
  BY <1>5, <1>6, <1>8
<1>16. core'[i].done \/ tx'[i].on
         => /\ Came(i + 1, core[i].pos)'
            /\ \A e \in 0..(D - 1) : x'[i][e] = Hid(i + 1, p)
  <2>1. CASE fin
    <3>1. c.right /\ Came(i, p) /\ kv'[i] = kv[i] \cup {p}
      BY <1>6, <1>8, <1>13, <2>1, EdgeGrows
    <3>2. Came(i, p)'
      BY <1>1, <1>2, <1>3, <3>1, CameStays
    <3>3. Came(i + 1, p)'
      <4>1. /\ p \in 0..hpos' /\ p < NPos /\ p \in kv'[i]
            /\ \A j \in 0..(i - 1) : p \in kv'[j]
        BY <3>1, <3>2 DEF Came
      <4>2. \A j \in 0..((i + 1) - 1) : p \in kv'[j]
        BY <1>2, <4>1
      <4>3. QED BY <4>1, <4>2 DEF Came
    <3>4. \A e \in 0..(D - 1) : x'[i][e] = Hid(i + 1, p)
      <4>1. Result(i) = Hid(i + 1, p)
        BY <1>13, <3>1 DEF Result
      <4>2. \A e \in 0..(D - 1) : x'[i][e] = Result(i)
        BY <1>1, <2>1, EdgeWrites
      <4>3. QED BY <4>1, <4>2
    <3>5. QED BY <1>5, <1>13, <3>3, <3>4 DEF Came
  <2>2. CASE tx'[i].on /\ ~fin
    <3>1. /\ Came(i + 1, p) /\ \A e \in 0..(D - 1) : x[i][e] = Hid(i + 1, p)
          /\ ~c.start
      BY <1>7, <1>8, <1>9, <1>13, <2>2
    <3>2. x'[i] = x[i]
      BY <1>1, <2>2, <3>1, EdgeWrites
    <3>3. Came(i + 1, p)'
      BY <1>1, <1>2, <1>3, <3>1, CameStays
    <3>4. QED BY <1>5, <1>13, <3>1, <3>2, <3>3 DEF Came
  <2>3. CASE ~fin /\ ~tx'[i].on
    BY <1>5, <2>3
  <2>4. QED BY <2>1, <2>2, <2>3
<1>17. Computes(i)'
  <2>1. ~(core'[i].start /\ ~core'[i].busy)
    BY <1>5
  <2>2. SentPos(i)' = SentPos(i)
    BY <1>5 DEF SentPos, HasHead, Last
  <2>3. tx'[i].on => tx'[i].pos = SentPos(i)' /\ tx'[i].best = Hid(i + 1, p)
    BY <1>9, <1>13, <2>2
  <2>4. core'[i].pos = p
    BY <1>5, <1>13
  <2>5. QED BY <1>14, <1>15, <1>16, <2>1, <2>3, <2>4 DEF Computes, Hid
<1>18. QED BY <1>10, <1>11, <1>12, <1>17 DEF StageRight

\* An edge of a stage, and what it puts on its line out.
LEMMA EdgeRight ==
  ASSUME IInv, Guarded', NEW i \in Stages, NEW take \in BOOLEAN, NEW fin \in BOOLEAN,
         NEW snd \in BOOLEAN, Edge(i, take, fin, snd)
  PROVE  IInv' /\ UNCHANGED <<hpos, tok>>
<1>1. Types /\ StageRight(i) /\ Shape(rx[i])
  BY DEF IInv, StageRight
<1>2. /\ i \in 0..NStages /\ i + 1 \in 0..NStages /\ i # i + 1 /\ i # NStages
      /\ i + 1 # 0 /\ (i = Last <=> i + 1 = NStages) /\ i \in Nat
  BY StagesAre
<1>3. Types' /\ Grows /\ hpos' = hpos /\ hrx' = hrx /\ UNCHANGED <<hpos, tok>>
  BY <1>1, EdgeTypes, EdgeGrows
<1>4. ASSUME NEW j \in Stages PROVE StageRight(j)'
  <2>1. CASE j = i
    <3>1. StageRight(i)'
      BY ReceivingStage, SeekingStage
    <3>2. QED BY <2>1, <3>1
  <2>2. CASE j # i
    <3>1. rx'[j] = rx[j] /\ tx'[j] = tx[j] /\ core'[j] = core[j] /\ x'[j] = x[j]
      BY <1>1, <2>2, EdgeIs
    <3>2. StageRight(j)
      BY DEF IInv
    <3>3. QED BY <1>1, <1>3, <3>1, <3>2, StageStays
  <2>3. QED BY <2>1, <2>2
<1>5. Cached'
  BY <1>3 DEF IInv, Cached, Grows
<1>6. LineRight'
  <2>1. ASSUME NEW k \in 0..NStages, line'[k].at >= 0 PROVE TrueByte(k, line[k])'
    <3>1. CASE line'[k] = line[k]
      <4>1. TrueByte(k, line[k])
        BY <2>1, <3>1 DEF IInv, LineRight
      <4>2. QED BY <1>1, <1>3, <3>1, <4>1, ByteStays
    <3>2. CASE line'[k] # line[k]
      <4>1. k = i + 1 /\ snd /\ line'[k] = tbyte(i)
        <5>1. k = i \/ k = i + 1
          BY <1>1, <3>2, EdgeIs
        <5>2. k = i => ~take /\ line'[i] = line[i]
          <6>1. line'[i] = IF take THEN NoByte ELSE line[i]
            BY <1>1, EdgeIs
          <6>2. k = i => line'[i] # NoByte
            BY <2>1, NoiseIs DEF ByteRec
          <6>3. QED BY <6>1, <6>2
        <5>3. line'[i + 1] = IF snd THEN tbyte(i) ELSE line[i + 1]
          BY <1>1, EdgeIs
        <5>4. QED BY <3>2, <5>1, <5>2, <5>3
      <4>2. tx[i].on
        BY <4>1 DEF Edge
      <4>3. /\ Came(i + 1, core[i].pos) /\ \A e \in 0..(D - 1) : x[i][e] = Hid(i + 1, core[i].pos)
            /\ tx[i].pos = SentPos(i) /\ tx[i].best = Hid(i + 1, core[i].pos)
        BY <1>1, <4>2 DEF StageRight, Computes
      <4>4. PICK b : b = tbyte(i)
        OBVIOUS
      <4>5. core[i].pos \in Int
        BY <1>1 DEF Types, CoreRec
      <4>6. TrueByte(i + 1, b)
        <5>1. CASE i = Last
          <6>1. b.pos = core[i].pos + 1 /\ b.val = tx[i].best
            BY <4>3, <4>4, <5>1 DEF tbyte, SentPos, HasHead
          <6>2. b.pos - 1 = core[i].pos
            BY <4>5, <6>1
          <6>3. QED BY <1>2, <4>3, <5>1, <6>1, <6>2 DEF TrueByte
        <5>2. CASE i # Last
          <6>1. /\ b.type = Hidden /\ b.pos = core[i].pos /\ b.at = tx[i].ti
                /\ b.val = IF tx[i].ti - PAY \in 0..(D - 1) THEN x[i][tx[i].ti - PAY] ELSE Wrong
            BY <4>3, <4>4, <5>2 DEF tbyte, SentPos, HasHead
          <6>2. tx[i].ti \in Nat
            BY <1>1 DEF Types, TxRec
          <6>3. b.at \in PAY..(PAY + D - 1) => tx[i].ti - PAY \in 0..(D - 1)
            BY <6>1, <6>2, Constants
          <6>4. b.at \in PAY..(PAY + D - 1) => b.val = Hid(i + 1, b.pos)
            BY <4>3, <6>1, <6>3
          <6>5. QED BY <1>2, <4>3, <5>2, <6>1, <6>4 DEF TrueByte, Kind
        <5>3. QED BY <5>1, <5>2
      <4>7. TrueByte(i + 1, b)'
        BY <1>1, <1>2, <1>3, <4>6, ByteStays
      <4>8. QED BY <4>1, <4>4, <4>7 DEF TrueByte
    <3>3. QED BY <3>1, <3>2
  <2>2. QED BY <2>1 DEF LineRight
<1>7. HostRight'
  <2>1. hrx.good => Came(NStages, hrx.pos - 1)'
    <3>1. PICK p : p = hrx.pos - 1
      OBVIOUS
    <3>2. hrx.good => Came(NStages, p)
      BY <3>1 DEF IInv, HostRight
    <3>3. NStages \in 0..NStages
      BY Constants
    <3>4. hrx.good => Came(NStages, p)'
      BY <1>1, <1>3, <3>2, <3>3, CameStays
    <3>5. QED BY <1>3, <3>1, <3>4 DEF Came
  <2>2. QED BY <1>3, <2>1 DEF IInv, HostRight, Shape, Payload, Hid
<1>8. QED BY <1>3, <1>4, <1>5, <1>6, <1>7 DEF IInv

\* Every step, and what it is of the one board.
LEMMA StepRight ==
  ASSUME IInv, Guarded', [Next]_vars
  PROVE  IInv' /\ [Board!Step]_<<hpos, tok>>
<1>1. CASE UNCHANGED vars
  BY <1>1 DEF vars, stage, host, IInv, Types, StageRight, Shape, OneAtATime, Receives,
              Computes, Cached, LineRight, HostRight, Came, TrueByte, Kind, Hid, InputRight,
              Idle, SentPos, HasHead, Last, Payload
<1>2. ASSUME NEW i \in Stages, NEW take \in BOOLEAN, NEW fin \in BOOLEAN, NEW snd \in BOOLEAN,
             Edge(i, take, fin, snd)
      PROVE  IInv' /\ [Board!Step]_<<hpos, tok>>
  BY <1>2, EdgeRight
<1>3. CASE HostSend
  BY <1>3, HostSendRight DEF HostSend
<1>4. CASE HostTake
  BY <1>4, HostTakeRight
<1>5. CASE Timeout
  BY <1>5, TimeoutRight DEF Timeout
<1>6. ASSUME NEW k \in 0..NStages, Disturb(k)
      PROVE  IInv' /\ [Board!Step]_<<hpos, tok>>
  BY <1>6, DisturbRight DEF Disturb, host
<1>7. QED BY <1>1, <1>2, <1>3, <1>4, <1>5, <1>6 DEF Next, Finished

-----------------------------------------------------------------------------
(* The theorems.                                                           *)

\* For any constants, while no message slips past the check for idleness and
\* gets to its payload: a receiver that believes a message has it right so far, a core is
\* started with the right input and computes what it should, a hidden state
\* stands still while it is sent, and a byte on a line is of the position and
\* the value it is taken for (stage_ctrl of gals.py).
THEOREM GalsInvariant == Spec /\ []Guarded => []IInv
<1>1. Init => IInv
  BY InitRight
<1>2. IInv /\ Guarded' /\ [Next]_vars => IInv'
  BY StepRight
<1>3. QED BY <1>1, <1>2, PTL DEF Spec

\* Then every token the host is given is the one board's, however many bytes
\* are damaged, lost or made up, however they look, and however early the host
\* asks again: gals.py, "the tokens and logits have to be one board's".
THEOREM GalsSingleBoard == Spec /\ []Guarded => ImplementsSingleBoard
<1>1. Init => Board!BoardInit
  BY DEF Init, Board!BoardInit
<1>2. IInv /\ Guarded' /\ [Next]_vars => [Board!Step]_<<hpos, tok>>
  BY StepRight
<1>3. QED BY <1>1, <1>2, GalsInvariant, PTL DEF Spec, ImplementsSingleBoard
=============================================================================
