------------------------------ MODULE GalsLink ------------------------------
(***************************************************************************)
(* Stages on their own clocks, joined by UARTs (gals.py): stage_ctrl of    *)
(* render_ctrl beside each stage's core, and the host of render_tb, which  *)
(* sends each position's token to the first stage and sends it again while *)
(* no good answer comes from the last.                                     *)
(*                                                                         *)
(* A step of a stage is one edge of its clock.  A line holds at most the   *)
(* byte being sent.  Messages are cut down to a byte a field: A5, 5A, type,*)
(* header, payload, CRC; a byte knows the message and the place in it that *)
(* it was sent for, and the CRC matches exactly when the bytes counted are *)
(* those of one message, in their places and undamaged.  Flags are left    *)
(* out: the head always runs.                                              *)
(***************************************************************************)
EXTENDS Integers, FiniteSets

CONSTANTS NStages,
          D,           \* bytes of a hidden state
          NPos,        \* positions of the run
          Echo,        \* places in a message whose byte and next are A5 and 5A, too
          MaxDamaged,  \* bound: bytes damaged, lost or made of noise
          MaxEarly     \* bound: timeouts of the host with an answer on its way

PAY == 4               \* the place of the payload
Token == 1
Hidden == 2
Payload(type) == IF type = Hidden THEN D ELSE 1
Length(type) == PAY + Payload(type) + 1

ASSUME GalsAssumption ==
  /\ {NStages, D} \subseteq Nat \ {0} /\ {NPos, MaxDamaged, MaxEarly} \subseteq Nat
  /\ Echo \subseteq (PAY - 1)..(PAY + D)

Stages == 0..(NStages - 1)
Last == NStages - 1
HasEmb(i) == i = 0
HasHead(i) == i = Last

\* What a stage should have computed of position p; anything else is Wrong.
Hid(i, p) == i * NPos + p
Wrong == -1
Values == {Wrong} \cup 0..(NStages * NPos + NPos)

Bytes == [at : 0..(PAY + D), type : {Token, Hidden}, pos : 0..NPos, val : Values]
Noise == [at |-> -1, type |-> Token, pos |-> 0, val |-> Wrong]
Glitch == [at |-> -3, type |-> Token, pos |-> 0, val |-> Wrong]
NoByte == [at |-> -2, type |-> Token, pos |-> 0, val |-> Wrong]

VARIABLES
  rx,         \* each stage's receiver: state, count, type, message followed, CRC so far
  tx,         \* its transmitter: on, next place, position, what the core chose
  core,       \* the core's start, position, embedding, busy, done, and its input's worth
  x, kv,      \* the core's hidden state, byte by byte, and the positions cached right
  line,       \* the byte on each stage's line in; NStages is the host's
  hpos, tok,  \* the host: position, and the last token it was given
  hidx,       \* place it sends next; past the end it waits
  hrx,        \* its receiver
  damaged, early

stage == <<rx, tx, core, x, kv>>
host == <<hpos, tok, hidx, hrx>>
vars == <<stage, line, host, damaged, early>>

Seeking == [st |-> "S0", n |-> 0, type |-> Token, pos |-> 0, val |-> Wrong, good |-> FALSE]
Off == [on |-> FALSE, ti |-> 0, pos |-> 0, best |-> Wrong]

Init ==
  /\ rx = [i \in Stages |-> Seeking]
  /\ tx = [i \in Stages |-> Off]
  /\ core = [i \in Stages |-> [start |-> FALSE, pos |-> 0, emb |-> FALSE,
                               busy |-> FALSE, done |-> FALSE, right |-> FALSE]]
  /\ x = [i \in Stages |-> [e \in 0..(D - 1) |-> Wrong]]
  /\ kv = [i \in Stages |-> {}]
  /\ line = [i \in 0..NStages |-> NoByte]
  /\ hpos = 0 /\ tok = 0 /\ hidx = 0 /\ hrx = Seeking
  /\ damaged = 0 /\ early = 0

-----------------------------------------------------------------------------
(* Receiving.                                                              *)

\* What a byte looks like, and as a type would mean: noise anything, a flip of
\* an idle line only a start bit and ones, a byte of a message what it is, but
\* out of place its meaning is open.
Seen(b) ==
  [look : IF b = Noise THEN {"A5", "5A", "other"}
          ELSE IF b.at = 0 \/ b.at \in Echo THEN {"A5"}
          ELSE IF b.at = 1 \/ b.at - 1 \in Echo THEN {"5A"} ELSE {"other"},
   type : IF b.at = 2 THEN {b.type} ELSE {Token, Hidden}]

\* The CRC so far is that of the message being followed.
InPlace(r, b, at) == r.good /\ b.at = at /\ b.type = r.type /\ b.pos = r.pos

After(r, b, s, idle) ==
  CASE r.st = "S0"  -> IF s.look = "A5" /\ idle THEN [r EXCEPT !.st = "S1"] ELSE r
    [] r.st = "S1"  -> IF s.look = "5A" THEN [r EXCEPT !.st = "HDR"]
                       ELSE IF s.look = "A5" THEN r ELSE Seeking
    [] r.st = "HDR" -> IF r.n = 0
                       THEN [r EXCEPT !.n = 1, !.type = s.type, !.pos = b.pos,
                                      !.good = (b.at = 2)]
                       ELSE [r EXCEPT !.st = "PAY", !.n = 0, !.good = InPlace(r, b, 3)]
    [] r.st = "PAY" -> LET r2 == [r EXCEPT !.good = InPlace(r, b, PAY + r.n)] IN
                       IF r.n + 1 = Payload(r.type) THEN [r2 EXCEPT !.st = "CRC", !.n = 0]
                                                    ELSE [r2 EXCEPT !.n = r.n + 1]
    [] r.st = "CRC" -> [r EXCEPT !.st = "GO", !.good = InPlace(r, b, PAY + Payload(r.type))]

-----------------------------------------------------------------------------
(* A stage.  One edge: a byte may have come in (take), the core may end    *)
(* (fin), and the transmitter may be ready for its next byte (snd).        *)

\* A message is taken only while the stage is idle.
Idle(i) == ~core[i].busy /\ ~tx[i].on /\ ~core[i].start

Receiver(i, take) ==
  IF take THEN \E s \in Seen(line[i]) :
                 rx' = [rx EXCEPT ![i] = After(rx[i], line[i], s, Idle(i))]
  ELSE rx' = [rx EXCEPT ![i] = IF @.st = "GO" THEN Seeking ELSE @]

\* A whole message with its CRC right starts the core.
Starts_AnyCrc(i) == rx[i].st = "GO" /\ (rx[i].type = Hidden \/ HasEmb(i))
Starts(i) == rx[i].st = "GO" /\ rx[i].good /\ (rx[i].type = Hidden \/ HasEmb(i))

\* The core makes the right thing of a position from the right input and a
\* cache right below it.
InputRight(i) ==
  /\ core[i].emb \/ \A e \in 0..(D - 1) : x[i][e] = Hid(i, core[i].pos)
  /\ 0..(core[i].pos - 1) \subseteq kv[i]

Core(i, fin) ==
  LET c == core[i] r == rx[i] IN
  core' = [core EXCEPT ![i] =
            [start |-> Starts(i) \/ (c.start /\ ~c.busy),
             pos   |-> IF Starts(i) THEN r.pos ELSE c.pos,
             emb   |-> IF Starts(i) THEN r.type = Token ELSE c.emb,
             busy  |-> c.start \/ (c.busy /\ ~fin),
             done  |-> fin,
             right |-> IF c.start /\ ~c.busy THEN InputRight(i) ELSE c.right]]

Result(i) == IF core[i].right THEN Hid(i + 1, core[i].pos) ELSE Wrong

\* A byte of a hidden state is written straight into the core; while the
\* transmitter reads the core, at the address it reads.
WriteAt(i) == IF tx[i].on /\ tx[i].ti >= PAY THEN tx[i].ti - PAY ELSE rx[i].n

State(i, take, fin) ==
  /\ x' = [x EXCEPT ![i] =
       IF fin THEN [e \in 0..(D - 1) |-> Result(i)]
       ELSE IF core[i].start /\ ~core[i].busy THEN [e \in 0..(D - 1) |-> Wrong]
       ELSE IF take /\ rx[i].st = "PAY" /\ rx[i].type = Hidden /\ ~core[i].busy
       THEN [e \in 0..(D - 1) |-> IF e # WriteAt(i) THEN x[i][e]
                                  ELSE IF line[i].at = PAY + rx[i].n THEN line[i].val
                                  ELSE Wrong]
       ELSE x[i]]
  /\ kv' = [kv EXCEPT ![i] = IF ~fin THEN @
                             ELSE IF core[i].right THEN @ \cup {core[i].pos}
                             ELSE @ \ {core[i].pos}]

SentPos(i) == IF HasHead(i) THEN core[i].pos + 1 ELSE core[i].pos

Transmitter(i, snd) ==
  LET t == tx[i] IN
  tx' = [tx EXCEPT ![i] =
    IF core[i].done /\ ~t.on
    THEN [on |-> TRUE, ti |-> 0, pos |-> SentPos(i), best |-> Result(i)]
    ELSE IF ~snd THEN t
    ELSE IF t.ti + 1 = Length(IF HasHead(i) THEN Token ELSE Hidden) THEN Off
    ELSE [t EXCEPT !.ti = t.ti + 1]]

tbyte(i) ==
  [at |-> tx[i].ti, type |-> IF HasHead(i) THEN Token ELSE Hidden, pos |-> tx[i].pos,
   val |-> IF HasHead(i) THEN tx[i].best
           ELSE IF tx[i].ti - PAY \in 0..(D - 1) THEN x[i][tx[i].ti - PAY] ELSE Wrong]

Edge(i, take, fin, snd) ==
  /\ take => line[i] # NoByte /\ rx[i].st # "GO"
  /\ fin => core[i].busy /\ ~core[i].start
  /\ snd => tx[i].on /\ line[i + 1] = NoByte
  /\ Receiver(i, take) /\ Core(i, fin) /\ State(i, take, fin) /\ Transmitter(i, snd)
  /\ line' = [line EXCEPT ![i] = IF take THEN NoByte ELSE @,
                          ![i + 1] = IF snd THEN tbyte(i) ELSE @]
  /\ UNCHANGED <<host, damaged, early>>

-----------------------------------------------------------------------------
(* The host, and the noise.                                                *)

Sending == hpos < NPos /\ hidx < Length(Token)
Waiting == hpos < NPos /\ hidx = Length(Token)

HostSend ==
  /\ Sending /\ line[0] = NoByte
  /\ line' = [line EXCEPT ![0] = [at |-> hidx, type |-> Token, pos |-> hpos, val |-> Wrong]]
  /\ hidx' = hidx + 1
  /\ UNCHANGED <<stage, hpos, tok, hrx, damaged, early>>

\* recv_msg: after A5 it wants 5A next; every answer is as long as a token's.
HostAfter(b, s) ==
  IF hrx.st = "S1" /\ s.look # "5A" THEN Seeking
  ELSE [After(hrx, b, [s EXCEPT !.type = Token], TRUE) EXCEPT
          !.val = IF hrx.st = "PAY" THEN b.val ELSE @]

\* A late answer to an earlier try is known by its position.
Awaited(r) == r.pos = hpos + 1

Answered(r) ==
  IF ~r.good THEN hidx' = 0 /\ UNCHANGED <<hpos, tok>>
  ELSE IF ~Awaited(r) THEN UNCHANGED <<hpos, tok, hidx>>
  ELSE /\ hpos' = hpos + 1 /\ hidx' = 0
       /\ tok' = IF r.val = Hid(NStages, hpos) THEN hpos + 1 ELSE Wrong

HostTake ==
  /\ line[NStages] # NoByte
  /\ line' = [line EXCEPT ![NStages] = NoByte]
  /\ IF Waiting
     THEN \E s \in Seen(line[NStages]) : LET r == HostAfter(line[NStages], s) IN
            IF r.st = "GO" THEN hrx' = Seeking /\ Answered(r)
                           ELSE hrx' = r /\ UNCHANGED <<hpos, tok, hidx>>
     ELSE UNCHANGED host
  /\ UNCHANGED <<stage, damaged, early>>

\* Nothing is on its way.
Quiet == /\ \A i \in 0..NStages : line[i] = NoByte
         /\ \A i \in Stages : Idle(i) /\ ~core[i].done /\ rx[i].st # "GO"

\* The host's timer runs out: with nothing left to wait for, or too early.
Timeout ==
  /\ Waiting /\ hidx' = 0 /\ hrx' = Seeking
  /\ \/ Quiet /\ UNCHANGED early
     \/ ~Quiet /\ early < MaxEarly /\ early' = early + 1
  /\ UNCHANGED <<stage, line, hpos, tok, damaged>>

Disturb(i) ==
  /\ damaged < MaxDamaged /\ damaged' = damaged + 1
  /\ \E b \in IF line[i] = NoByte THEN {Glitch} ELSE {Noise, NoByte} \ {line[i]} :
       line' = [line EXCEPT ![i] = b]
  /\ UNCHANGED <<stage, host, early>>

Finished == hpos = NPos /\ UNCHANGED vars

Next ==
  \/ \E i \in Stages, take, fin, snd \in BOOLEAN : Edge(i, take, fin, snd)
  \/ HostSend \/ HostTake \/ Timeout \/ Finished
  \/ \E i \in 0..NStages : Disturb(i)

Spec == Init /\ [][Next]_vars

\* Every clock runs, every core ends, every UART sends and is heard, and the
\* host's timer runs out.
FairSpec ==
  /\ Spec
  /\ WF_vars(HostSend) /\ WF_vars(HostTake) /\ WF_vars(Quiet /\ Timeout)
  /\ \A i \in Stages :
       /\ WF_vars(\E take, fin, snd \in BOOLEAN : Edge(i, take, fin, snd))
       /\ WF_vars(\E fin, snd \in BOOLEAN : Edge(i, TRUE, fin, snd))
       /\ WF_vars(\E take, snd \in BOOLEAN : Edge(i, take, TRUE, snd))
       /\ WF_vars(\E take, fin \in BOOLEAN : Edge(i, take, fin, TRUE))

-----------------------------------------------------------------------------
(* Properties.                                                             *)

TypeOK ==
  /\ \A i \in Stages :
       /\ rx[i].st \in {"S0", "S1", "HDR", "PAY", "CRC", "GO"} /\ rx[i].n \in 0..D
       /\ tx[i].ti \in 0..(PAY + D) /\ tx[i].pos \in 0..NPos /\ tx[i].best \in Values
       /\ core[i].pos \in 0..(NPos - 1) /\ kv[i] \subseteq 0..(NPos - 1)
       /\ \A e \in 0..(D - 1) : x[i][e] \in Values
  /\ \A i \in 0..NStages : line[i] \in Bytes \cup {Noise, Glitch, NoByte}
  /\ hpos \in 0..NPos /\ tok \in {Wrong} \cup 0..NPos /\ hidx \in 0..Length(Token)

\* Every token the host is given is the one board's, "the tokens and logits
\* have to be one board's", and the host goes from one to the next.
Board == INSTANCE SingleBoard WITH pos <- hpos
ImplementsSingleBoard == Board!BoardInit /\ [][Board!Step]_<<hpos, tok>>

\* No message begun on the one edge Idle misses, between a core's end and its
\* transmitter's start, gets as far as its payload while the stage sends.
Guarded == \A i \in Stages : tx[i].on => rx[i].st \in {"S0", "S1", "HDR"}

\* Damaged and lost messages are sent for again until every position has its
\* answer.
EveryPositionAnswered == <>(hpos = NPos)
=============================================================================
