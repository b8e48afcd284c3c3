----------------------------- MODULE DdrBridge -----------------------------
(***************************************************************************)
(* The constants' and KV cache's side of the bridge between the core and   *)
(* DDR (zybo.py, render_top; the weights' side is WeightStreamer).  One    *)
(* line of each memory is held beside the core, whose clock waits until    *)
(* the words it reads are held and what it wrote is in DDR; one AXI master *)
(* does one transaction at a time.                                         *)
(*                                                                         *)
(* One step is one edge of the bus clock.  Of the data only this is kept:  *)
(* whether an element, a lane of a word, is what the core last wrote       *)
(* there, in DDR and in the held line.  A line comes in one step.          *)
(***************************************************************************)
EXTENDS Integers, FiniteSets

CONSTANTS DdrLines,  \* lines of each memory
          WPL,       \* words a line
          NLanes     \* lanes of a KV word

ASSUME BridgeAssumption == {DdrLines, WPL, NLanes} \subseteq Nat \ {0}

Memories == {"C", "K", "V"}
Caches == {"K", "V"}
Words == 0..(DdrLines * WPL - 1)
Lanes == 0..(NLanes - 1)
Line(w) == w \div WPL
Unheld == -1

\* The core's write ports, and the cache each writes.
Writers == {"kw0", "kw1", "vw"}
CacheOf(n) == IF n = "vw" THEN "V" ELSE "K"

VARIABLES
  q,          \* the word each memory's port was given at the core's last edge
  wr,         \* the writes the core issued then: the element of each writer, if any
  d,          \* the writers whose write is done
  fs, port, wsel,   \* the master: state, memory it reads, writer it serves
  held,       \* the line held of each memory
  copy,       \* the elements of the held lines that are the core's last
  ddr         \* those of DDR

bridgeVars == <<q, wr, d, fs, port, wsel, held, copy, ddr>>

None == [w |-> -1, l |-> 0]
Elements == [w : Words, l : Lanes]

BridgeInit ==
  /\ q = [m \in Memories |-> 0] /\ wr = [n \in Writers |-> None] /\ d = {}
  /\ fs = "IDLE" /\ port = "C" /\ wsel = "kw0"
  /\ held = [m \in Memories |-> Unheld]
  /\ copy = [m \in Caches |-> {}] /\ ddr = [m \in Caches |-> Elements]

-----------------------------------------------------------------------------
(* The core.                                                               *)

Held(m) == held[m] = Line(q[m])
Pending_AnyTime(n) == wr[n] # None
Pending(n) == wr[n] # None /\ n \notin d

\* Its clock runs: all it reads is held, all it wrote is written.
ce == (\A m \in Memories : Held(m)) /\ (\A n \in Writers : ~Pending(n))

\* The core writes two keys, of one lane of two words, or a value, or nothing.
Writes ==
  {u \in [Writers -> Elements \cup {None}] :
     \/ u["vw"] = None /\ u["kw0"] # u["kw1"] /\ u["kw0"].l = u["kw1"].l
        /\ None \notin {u["kw0"], u["kw1"]}
     \/ u["kw0"] = None /\ u["kw1"] = None}

Aimed(u, m) == {u[n] : n \in {n \in Writers : CacheOf(n) = m}}

\* An edge: other words to read, new writes, and no write of them done.
CoreEdge ==
  /\ ce
  /\ q' \in [Memories -> Words] /\ wr' \in Writes /\ d' = {}
  /\ ddr' = [m \in Caches |-> ddr[m] \ Aimed(wr', m)]
  /\ copy' = [m \in Caches |-> copy[m] \ Aimed(wr', m)]
  /\ UNCHANGED <<fs, port, wsel, held>>

-----------------------------------------------------------------------------
(* The master, while the core is held.                                     *)

\* Writes go before reads, kw0 first; then constants, keys, values.
Next_Write == IF Pending("kw0") THEN "kw0" ELSE IF Pending("kw1") THEN "kw1" ELSE "vw"
Next_Line == IF ~Held("C") THEN "C" ELSE IF ~Held("K") THEN "K" ELSE "V"

MayFetch == \A n \in Writers : ~Pending(n)

StartWrite ==
  /\ fs = "IDLE" /\ \E n \in Writers : Pending(n)
  /\ wsel' = Next_Write /\ fs' = "AW"
  /\ UNCHANGED <<q, wr, d, port, held, copy, ddr>>

StartFetch ==
  /\ fs = "IDLE" /\ MayFetch /\ \E m \in Memories : ~Held(m)
  /\ port' = Next_Line /\ held' = [held EXCEPT ![Next_Line] = Unheld] /\ fs' = "AR"
  /\ UNCHANGED <<q, wr, d, wsel, copy, ddr>>

ReadTaken == fs = "AR" /\ fs' = "R" /\ UNCHANGED <<q, wr, d, port, wsel, held, copy, ddr>>

LineRead ==
  /\ fs = "R" /\ fs' = "IDLE"
  /\ held' = [held EXCEPT ![port] = Line(q[port])]
  /\ copy' = IF port = "C" THEN copy
             ELSE [copy EXCEPT ![port] =
                    {e \in ddr[port] : Line(e.w) = Line(q[port])}]
  /\ UNCHANGED <<q, wr, d, port, wsel, ddr>>

\* A line already holding the word takes the write too.
TakesToo_Never(m, e) == FALSE
TakesToo_SameWord(m, e) == held[m] = Line(e.w) /\ q[m] = e.w
TakesToo(m, e) == held[m] = Line(e.w)

WriteTaken ==
  LET m == CacheOf(wsel) e == wr[wsel] IN
  /\ fs = "AW" /\ fs' = "W"
  /\ copy' = IF TakesToo(m, e) THEN [copy EXCEPT ![m] = @ \cup {e}] ELSE copy
  /\ UNCHANGED <<q, wr, d, port, wsel, held, ddr>>

DataTaken == fs = "W" /\ fs' = "B" /\ UNCHANGED <<q, wr, d, port, wsel, held, copy, ddr>>

\* The response: the element is in DDR, and its writer is done.
Done_First(n) == d \cup {"kw0"}
Done(n) == d \cup {n}

WriteDone ==
  /\ fs = "B" /\ fs' = "IDLE"
  /\ ddr' = [ddr EXCEPT ![CacheOf(wsel)] = @ \cup {wr[wsel]}]
  /\ d' = Done(wsel)
  /\ UNCHANGED <<q, wr, port, wsel, held, copy>>

Bridge == StartWrite \/ StartFetch \/ ReadTaken \/ LineRead
          \/ WriteTaken \/ DataTaken \/ WriteDone
BridgeNext == CoreEdge \/ Bridge

BridgeSpec == BridgeInit /\ [][BridgeNext]_bridgeVars

\* The bus clock runs and DDR answers in the end.
BridgeFairSpec == BridgeSpec /\ WF_bridgeVars(Bridge)

-----------------------------------------------------------------------------
(* Properties.                                                             *)

BridgeTypeOK ==
  /\ q \in [Memories -> Words] /\ wr \in Writes /\ d \subseteq Writers
  /\ fs \in {"IDLE", "AR", "R", "AW", "W", "B"} /\ port \in Memories /\ wsel \in Writers
  /\ held \in [Memories -> {Unheld} \cup 0..(DdrLines - 1)]
  /\ copy \in [Caches -> SUBSET Elements] /\ ddr \in [Caches -> SUBSET Elements]

\* Whenever the core's clock runs, each lane it reads of the caches is the one
\* it last wrote, though a line may have been held since before the write.
ReadsItsLastWrite ==
  ce => \A m \in Caches, l \in Lanes : [w |-> q[m], l |-> l] \in copy[m]

\* And all it wrote is in DDR: a line fetched later has it.
WrittenThrough == ce => \A m \in Caches : ddr[m] = Elements

\* An element of a held line is out of date only while its own write waits for
\* its turn: the copy is never behind DDR.
CopyNotBehind ==
  \A m \in Caches : held[m] # Unheld =>
    \A e \in Elements : Line(e.w) = held[m] /\ e \in ddr[m] => e \in copy[m]

\* The clock is held for as long as a transaction is under way, so nothing it is
\* for changes: its writer still asks, its word is still wanted.
HeldMeanwhile ==
  /\ fs # "IDLE" => ~ce
  /\ fs \in {"AW", "W", "B"} => Pending(wsel)
  /\ fs \in {"AR", "R"} => held[port] = Unheld /\ \A n \in Writers : wr[n] = None \/ n \in d

\* One edge's writes each go to DDR once: never is one sent that DDR has.
SentOnce == [][\A n \in Writers : fs = "IDLE" /\ fs' = "AW" /\ wsel' = n =>
                 wr[n] \notin ddr[CacheOf(n)]]_bridgeVars

\* The core is never held for good.
CoreRuns == []<>ce
=============================================================================
