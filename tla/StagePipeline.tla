--------------------------- MODULE StagePipeline ---------------------------
(***************************************************************************)
(* A decode over boards that are pipeline stages (board_zybo.py, the C     *)
(* program STAGE_C, one copy per board).  The first stage runs a position, *)
(* sends the hidden state on in parts, one UDP datagram each, and waits    *)
(* for the last stage's answer; if none comes it sends the state again.    *)
(* The stages between run whatever position arrives, repeated or not.      *)
(*                                                                         *)
(* The right token, hidden state or cache entry for position p is p; what  *)
(* a stage makes of a wrong input, or of a cache with a wrong entry below  *)
(* p, is Wrong.                                                            *)
(***************************************************************************)
EXTENDS Naturals, FiniteSets, BagsExt, Bags

CONSTANTS NStages,   \* STAGE_COUNT
          NParts,    \* NPARTS: datagrams a hidden state takes
          NPrompt,   \* tokens in the prompt
          NPos,      \* positions of the run: prompt and generated
          MaxLost,   \* bound: datagrams lost or damaged
          MaxDups,   \* bound: datagrams the network duplicates
          MaxEarly   \* bound: RESEND_MS passes with an answer on its way

ASSUME StageAssumption ==
  /\ NStages \in Nat /\ NStages > 1 /\ NParts \in Nat \ {0}
  /\ NPos \in Nat /\ NPrompt \in 1..NPos
  /\ MaxLost \in Nat /\ MaxDups \in Nat /\ MaxEarly \in Nat

Later == 1..(NStages - 1)   \* every stage but the first
Last  == NStages - 1
PartNos == 0..(NParts - 1)
Positions == 0..(NPos - 1)
Wrong  == NPos + 1
NoPos  == NPos              \* 0xFFFFFFFF, no position
Values == 0..Wrong

VARIABLES
  first,       \* the first stage: run, wait or done
  pos, tok,    \* its position and token
  got_token,   \* an answer is in ...
  answer,      \* ... and this is it: m_pos, m_tok
  hid,         \* each stage's hidden state, part by part
  part_pos,    \* the position each stage collects parts of
  part_got,    \* and the parts it has
  got_hidden,  \* a whole hidden state is in, at each stage ...
  state_of,    \* ... for this position, with the head or without: m_pos, m_flags
  kv,          \* each stage's KV cache
  net,         \* the datagrams under way
  lost, dups, early

vars == <<first, pos, tok, got_token, answer, hid, part_pos, part_got,
          got_hidden, state_of, kv, net, lost, dups, early>>

network == <<lost, dups, early>>
firstVars == <<first, pos, tok, got_token, answer>>
laterVars == <<part_pos, part_got, got_hidden, state_of>>

PartMsgs  == [type : {"PART"}, to : Later, pos : Positions, head : BOOLEAN,
              part : PartNos, data : Values]
TokenMsgs == [type : {"TOKEN"}, to : {0}, pos : 1..NPos, tok : Values]

Init ==
  /\ first = "run" /\ pos = 0 /\ tok = 0
  /\ got_token = FALSE /\ answer = [pos |-> 0, tok |-> 0]
  /\ hid = [i \in 0..Last |-> [k \in PartNos |-> Wrong]]
  /\ part_pos = [i \in Later |-> NoPos] /\ part_got = [i \in Later |-> {}]
  /\ got_hidden = [i \in Later |-> FALSE]
  /\ state_of = [i \in Later |-> [pos |-> 0, head |-> FALSE]]
  /\ kv = [i \in 0..Last |-> [p \in Positions |-> Wrong]]
  /\ net = EmptyBag /\ lost = 0 /\ dups = 0 /\ early = 0

-----------------------------------------------------------------------------
(* What a stage's layers compute, and what it sends *)

\* run: the cache below p and the input decide the output; the input's own
\* entry is written.
Output(i, p, x) ==
  IF x = p /\ \A q \in 0..(p - 1) : kv[i][q] = q THEN p ELSE Wrong

Cached(i, p, x) == [kv EXCEPT ![i][p] = x]

send_hidden(i, h, p, head) ==
  SetToBag({[type |-> "PART", to |-> i + 1, pos |-> p, head |-> head,
             part |-> k, data |-> h[k]] : k \in PartNos})

\* From the prompt's last token on, the answer carries the next token.
NeedsHead(p) == p >= NPrompt - 1

-----------------------------------------------------------------------------
(* The first stage *)

\* Embed the token, run this stage's layers, send the hidden state.
Run ==
  /\ first = "run" /\ pos < NPos
  /\ LET h == [k \in PartNos |-> Output(0, pos, tok)] IN
     /\ hid' = [hid EXCEPT ![0] = h]
     /\ net' = net (+) send_hidden(0, h, pos, NeedsHead(pos))
  /\ kv' = Cached(0, pos, tok)
  /\ first' = "wait"
  /\ UNCHANGED <<pos, tok, got_token, answer, laterVars, network>>

SendAgain == net' = net (+) send_hidden(0, hid[0], pos, NeedsHead(pos))

Awaited(m) == m.pos = pos + 1

\* wait_for returns 1: on to the next position with the prompt's token or
\* the answer's, or, if the answer is of another position, the state again.
Answered ==
  /\ first = "wait" /\ got_token
  /\ got_token' = FALSE
  /\ IF Awaited(answer)
       THEN /\ pos' = pos + 1
            /\ tok' = IF pos + 1 < NPrompt THEN pos + 1
                      ELSE IF NeedsHead(pos) THEN answer.tok ELSE tok
            /\ first' = IF pos + 1 < NPos THEN "run" ELSE "done"
            /\ UNCHANGED net
       ELSE SendAgain /\ UNCHANGED <<first, pos, tok>>
  /\ UNCHANGED <<answer, hid, kv, laterVars, network>>

\* Nothing is under way and no board has anything to do.
Silent == net = EmptyBag /\ ~got_token /\ \A i \in Later : ~got_hidden[i]

\* wait_for returns 0.  RESEND_MS is "longer than a whole step through
\* every stage": as a rule it passes only in silence, but an answer may be
\* late, or come in the very poll that runs out of time.
Timeout ==
  /\ first = "wait" /\ Silent /\ SendAgain
  /\ UNCHANGED <<firstVars, hid, kv, laterVars, network>>

TimeoutEarly ==
  /\ first = "wait" /\ ~Silent /\ early < MaxEarly /\ SendAgain
  /\ early' = early + 1
  /\ UNCHANGED <<firstVars, hid, kv, laterVars, lost, dups>>

-----------------------------------------------------------------------------
(* The stages after it *)

\* MUTANT: a position this stage has run before is not passed on again.
Outgoing_OnceOnly(i, p, out, head) ==
  IF kv[i][p] # Wrong THEN EmptyBag
  ELSE IF i = Last
    THEN SetToBag({[type |-> "TOKEN", to |-> 0, pos |-> p + 1,
                    tok |-> IF head THEN (IF out = p THEN p + 1 ELSE Wrong)
                                    ELSE 0]})
    ELSE send_hidden(i, [k \in PartNos |-> out], p, head)

\* The next stage's input or, from the last, the answer: the token the head
\* picks, or 0 where the head was not asked for.
Outgoing(i, p, out, head) ==
  IF i = Last
    THEN SetToBag({[type |-> "TOKEN", to |-> 0, pos |-> p + 1,
                    tok |-> IF head THEN (IF out = p THEN p + 1 ELSE Wrong)
                                    ELSE 0]})
    ELSE send_hidden(i, [k \in PartNos |-> out], p, head)

\* A whole hidden state is in: run the layers on it and pass on the result.
Stage(i) ==
  /\ got_hidden[i]
  /\ LET p   == state_of[i].pos
         x   == IF \A k \in PartNos : hid[i][k] = p THEN p ELSE Wrong
         out == Output(i, p, x) IN
     /\ kv' = Cached(i, p, x)
     /\ hid' = IF i = Last THEN hid
               ELSE [hid EXCEPT ![i] = [k \in PartNos |-> out]]
     /\ net' = net (+) Outgoing(i, p, out, state_of[i].head)
  /\ got_hidden' = [got_hidden EXCEPT ![i] = FALSE]
  /\ UNCHANGED <<firstVars, part_pos, part_got, state_of, network>>

-----------------------------------------------------------------------------
(* rx, called only while its stage waits *)

rx_token(m) ==
  /\ first = "wait" /\ ~got_token
  /\ answer' = [pos |-> m.pos, tok |-> m.tok] /\ got_token' = TRUE
  /\ net' = BagRemove(net, m)
  /\ UNCHANGED <<first, pos, tok, hid, kv, laterVars, network>>

\* MUTANTS: the parts of another position stay; a whole state is not closed.
Collected_Mixed(i, m) == part_got[i] \cup {m.part}
Collecting_Open(i, m, all) == m.pos

\* The parts of m's position this stage has with m; parts of another one
\* are forgotten.
Collected(i, m) ==
  (IF part_pos[i] = m.pos THEN part_got[i] ELSE {}) \cup {m.part}

\* When all are in, the next part starts afresh.
Collecting(i, m, all) == IF all THEN NoPos ELSE m.pos

rx_part(i, m) ==
  /\ ~got_hidden[i]
  /\ LET all == Collected(i, m) = PartNos IN
     /\ hid' = [hid EXCEPT ![i][m.part] = m.data]
     /\ part_got' = [part_got EXCEPT ![i] = Collected(i, m)]
     /\ part_pos' = [part_pos EXCEPT ![i] = Collecting(i, m, all)]
     /\ got_hidden' = [got_hidden EXCEPT ![i] = all]
     /\ state_of' = IF all THEN [state_of EXCEPT ![i] = [pos |-> m.pos,
                                                         head |-> m.head]]
                    ELSE state_of
  /\ net' = BagRemove(net, m)
  /\ UNCHANGED <<firstVars, kv, network>>

rx(i) == \E m \in BagToSet(net) : /\ m.to = i
                                  /\ IF i = 0 THEN rx_token(m) ELSE rx_part(i, m)

-----------------------------------------------------------------------------
(* The network and the whole *)

Lose(m) == /\ lost < MaxLost /\ lost' = lost + 1 /\ net' = BagRemove(net, m)
           /\ UNCHANGED <<firstVars, hid, kv, laterVars, dups, early>>

Duplicate(m) == /\ dups < MaxDups /\ dups' = dups + 1 /\ net' = BagAdd(net, m)
                /\ UNCHANGED <<firstVars, hid, kv, laterVars, lost, early>>

Finished == first = "done" /\ UNCHANGED vars

Next == \/ Run \/ Answered \/ Timeout \/ TimeoutEarly
        \/ \E i \in Later : Stage(i)
        \/ \E i \in 0..Last : rx(i)
        \/ \E m \in BagToSet(net) : Lose(m) \/ Duplicate(m)
        \/ Finished

Spec == Init /\ [][Next]_vars

\* Every board runs, polls its network and, the first, its timer.
Fairness == /\ WF_vars(Run) /\ WF_vars(Answered) /\ WF_vars(Timeout)
            /\ \A i \in Later : WF_vars(Stage(i))
            /\ \A i \in 0..Last : WF_vars(rx(i))

FairSpec == Spec /\ Fairness

-----------------------------------------------------------------------------
(* Properties *)

\* Types of the boards' state and of the datagrams.
TypeOK ==
  /\ first \in {"run", "wait", "done"} /\ pos \in 0..NPos /\ tok \in Values
  /\ got_token \in BOOLEAN /\ answer \in [pos : 0..NPos, tok : Values]
  /\ hid \in [0..Last -> [PartNos -> Values]]
  /\ part_pos \in [Later -> 0..NoPos] /\ part_got \in [Later -> SUBSET PartNos]
  /\ got_hidden \in [Later -> BOOLEAN]
  /\ state_of \in [Later -> [pos : Positions, head : BOOLEAN]]
  /\ kv \in [0..Last -> [Positions -> Values]]
  /\ BagToSet(net) \subseteq PartMsgs \cup TokenMsgs
  /\ lost \in 0..MaxLost /\ dups \in 0..MaxDups /\ early \in 0..MaxEarly

\* A hidden state a stage takes for whole is made of the parts of one
\* position, however parts were lost, repeated and mixed on the way.
HiddenWhole ==
  \A i \in Later : got_hidden[i] =>
    \A k \in PartNos : hid[i][k] = state_of[i].pos

\* When the first stage moves on, every stage's cache is right up to the
\* position it moves to; repeated and late states leave it right.
CachesFull ==
  \A i \in 0..Last : \A q \in Positions : q < pos => kv[i][q] = q

\* The copies under way of the datagrams in a set.
Copies(S) == UNION {{m} \X (1..net[m]) : m \in BagToSet(net) \cap S}

\* Sending again multiplies nothing: the answers under way are never more
\* than one and what the network's duplicates and early timeouts added.
AnswersBounded ==
  Cardinality(Copies(TokenMsgs)) + (IF got_token THEN 1 ELSE 0) <= 1 + dups + early

Board == INSTANCE SingleBoard

\* The pipeline runs the tokens a single board would ...
ImplementsSingleBoard ==
  Board!BoardInit /\ [][Board!Step]_<<pos, tok>>

\* ... and, datagrams lost or not, gets to the end.
ImplementsFairSingleBoard == Board!BoardSpec

\* The copies of the hidden state on their way to the second stage.
ToSecond == Cardinality(Copies({m \in PartMsgs : m.to = 1}))

\* "the first stage sends its hidden state again when no answer comes within
\* RESEND_MS": not in the step that takes an answer.
SentAgainOnlyWithoutAnswer ==
  [][pos' = pos /\ first = "wait" /\ ToSecond' > ToSecond
       => got_token' = got_token]_vars
=============================================================================
