----------------------------- MODULE GatherPort -----------------------------
(***************************************************************************)
(* The register block between the ARM and the core of a tensor-parallel    *)
(* rank (board_zybo.py, render_wrapper and _window), with the core's side  *)
(* of a gather (qwen_full.py), the gather mover (zybo.py, _mover) and the  *)
(* ARM's side (run, gather and move of the C program TP_C).                *)
(*                                                                         *)
(* One step is one edge of the bus clock, on which every register takes    *)
(* its next value from the old ones.  The core may or may not take an edge *)
(* with it (its clock is held for line fills), and an access of the ARM    *)
(* may or may not land on it (it takes cycles, and a network exchange      *)
(* passes between some).  Data is left out, but for how many words of a    *)
(* vector have been moved.                                                 *)
(***************************************************************************)
EXTENDS Naturals

CONSTANTS NRuns,    \* bound: runs, one per position
          NMoved,   \* gathers of a run whose vectors are moved (all but the head's)
          NWords    \* words a move takes

ASSUME PortAssumption == NRuns \in Nat /\ NMoved \in Nat /\ NWords \in Nat

VARIABLES
  st, ph, passed,   \* the core: state, phase, gathers of this run it has gone on from
  hen, busy, done, g_req,
  start, head_en, done_s, g_done, dma_go, dma_in,   \* the register block
  dm_on, dm_into, dm_left,                 \* the mover, and the words it has left
  pc, runs, n_gathers,  \* the ARM: next access, runs over, gathers answered in this run
  out, into         \* words of the gather's vector moved to the buffer, to the core

core == <<st, ph, passed, hen, busy, done, g_req>>
arm == <<pc, runs, n_gathers>>
portVars == <<core, start, head_en, done_s, g_done, dma_go, dma_in,
              dm_on, dm_into, dm_left, arm, out, into>>

Accesses == {"ctrl", "poll", "status", "move_out", "out_wait", "move_in", "in_wait",
             "answer", "over"}

PortInit ==
  /\ st = "idle" /\ ph = FALSE /\ passed = 0
  /\ hen = FALSE /\ busy = FALSE /\ done = FALSE /\ g_req = FALSE
  /\ start = FALSE /\ head_en = FALSE /\ done_s = FALSE /\ g_done = FALSE /\ dma_go = FALSE /\ dma_in = FALSE
  /\ dm_on = FALSE /\ dm_into = FALSE /\ dm_left = 0
  /\ pc = (IF NRuns > 0 THEN "ctrl" ELSE "over") /\ runs = 0 /\ n_gathers = 0
  /\ out = 0 /\ into = 0

-----------------------------------------------------------------------------
(* The core.  What it computes between gathers is one state of two edges.  *)

Waiting == st = "gather" /\ ph
OnHead == passed = NMoved          \* the gather it is at, or comes to next, is the head's

CoreEnds == st' = "idle" /\ busy' = FALSE /\ done' = TRUE

\* Idle, the core takes a start; done is up for this one edge.
CoreIdle ==
  /\ st = "idle"
  /\ IF start THEN st' = "compute" /\ busy' = TRUE /\ hen' = head_en /\ passed' = 0
              ELSE UNCHANGED <<st, busy, hen, passed>>
  /\ ph' = FALSE /\ done' = FALSE
  /\ UNCHANGED g_req

\* It computes, then asks for its next gather; a run without the head ends here.
CoreCompute ==
  /\ st = "compute"
  /\ ph' = ~ph
  /\ IF ~ph THEN UNCHANGED <<st, busy>> /\ done' = FALSE
     ELSE IF OnHead /\ ~hen THEN CoreEnds
     ELSE st' = "gather" /\ done' = FALSE /\ UNCHANGED busy
  /\ UNCHANGED <<passed, hen, g_req>>

\* It asks once, then waits for the answer; the head's gather ends the run.
CoreGather ==
  /\ st = "gather"
  /\ IF ~ph THEN /\ ph' = TRUE /\ g_req' = TRUE /\ done' = FALSE
                 /\ UNCHANGED <<st, passed, busy>>
     ELSE IF g_done THEN /\ ph' = FALSE /\ g_req' = FALSE /\ passed' = passed + 1
                         /\ IF OnHead THEN CoreEnds
                            ELSE st' = "compute" /\ done' = FALSE /\ UNCHANGED busy
     ELSE done' = FALSE /\ UNCHANGED <<st, ph, passed, busy, g_req>>
  /\ UNCHANGED hen

\* The core's edge, or none.  Its addresses do not change while it waits or
\* idles, so no line fill holds the clock in the cycle done is up.
CoreEdge(ce) == IF ce THEN CoreIdle \/ CoreCompute \/ CoreGather
                ELSE ~done /\ UNCHANGED core

-----------------------------------------------------------------------------
(* The mover: a word with an edge of the core.                             *)

Word(ce) == dm_on /\ dm_left > 0 /\ ce

Mover(ce) ==
  /\ dm_on' = IF dm_on THEN dm_left > 0 /\ ~(Word(ce) /\ dm_into /\ dm_left = 1)
              ELSE dma_go
  /\ dm_into' = IF dm_on THEN dm_into ELSE dma_in
  /\ dm_left' = IF ~dm_on /\ dma_go THEN NWords
                ELSE IF Word(ce) THEN dm_left - 1 ELSE dm_left

\* The words moved for the gather under way.
Moved(ce, l) ==
  IF l /\ pc = "answer" THEN out' = 0 /\ into' = 0
  ELSE /\ out' = IF Word(ce) /\ ~dm_into THEN out + 1 ELSE out
       /\ into' = IF Word(ce) /\ dm_into THEN into + 1 ELSE into

-----------------------------------------------------------------------------
(* The ARM's accesses and what they read.                                  *)

\* GATHER: the core waits on a gather not yet answered.
Gather_AsRequested == g_req
Gather == g_req /\ ~g_done

\* GMOVE: a move is on, or about to be.
Gmove_MoverOnly == dm_on
Gmove == dm_on \/ dma_go

\* The access at pc lands: what the ARM does next.
Lands ==
  /\ pc # "over"
  /\ pc' = CASE pc = "ctrl" -> "poll"
             [] pc = "poll" -> IF ~Gather THEN "status"
                               ELSE IF OnHead THEN "answer" ELSE "move_out"
             [] pc = "status" -> IF ~done_s THEN "poll"
                                 ELSE IF runs + 1 < NRuns THEN "ctrl" ELSE "over"
             [] pc = "move_out" -> "out_wait"
             [] pc = "out_wait" -> IF Gmove THEN pc ELSE "move_in"
             [] pc = "move_in" -> "in_wait"
             [] pc = "in_wait" -> IF Gmove THEN pc ELSE "answer"
             [] pc = "answer" -> "poll"
  /\ runs' = IF pc = "status" /\ done_s THEN runs + 1 ELSE runs
  /\ n_gathers' = CASE pc = "ctrl" -> 0
                    [] pc = "answer" -> n_gathers + 1
                    [] OTHER -> n_gathers

\* The registers the accesses write, and what clears them again.  A start is
\* held until the core shows busy, done kept until the next start, an answer
\* held until the core drops its request.
Start_OneCycle(l) == l /\ pc = "ctrl"
Start(l) == ~(start /\ busy) /\ (start \/ (l /\ pc = "ctrl"))

DoneKept(l) == (done /\ ~start) \/ (done_s /\ ~(l /\ pc = "ctrl"))

Answered_Stays(l) == g_done \/ (l /\ pc = "answer")
Answered(l) == ~(g_done /\ ~g_req) /\ (g_done \/ (l /\ pc = "answer"))

MoveAsked(l) == ~(dma_go /\ dm_on) /\ (dma_go \/ (l /\ pc \in {"move_out", "move_in"}))

Registers(l) ==
  /\ start' = Start(l)
  /\ head_en' \in IF l /\ pc = "ctrl" THEN BOOLEAN ELSE {head_en}
  /\ done_s' = DoneKept(l)
  /\ g_done' = Answered(l)
  /\ dma_go' = MoveAsked(l)
  /\ dma_in' = IF l /\ pc \in {"move_out", "move_in"} THEN pc = "move_in" ELSE dma_in

Edge(ce, l) ==
  /\ CoreEdge(ce) /\ Mover(ce) /\ Registers(l) /\ Moved(ce, l)
  /\ IF l THEN Lands ELSE UNCHANGED arm

PortNext == \E ce, l \in BOOLEAN : Edge(ce, l)

PortSpec == PortInit /\ [][PortNext]_portVars

\* A line fill ends, and so does a bus access and the exchange behind it.
PortFairness == /\ WF_portVars(\E l \in BOOLEAN : Edge(TRUE, l))
                /\ WF_portVars(\E ce \in BOOLEAN : Edge(ce, TRUE))

PortFairSpec == PortSpec /\ PortFairness

-----------------------------------------------------------------------------
(* Properties.                                                             *)

PortTypeOK ==
  /\ st \in {"idle", "compute", "gather"} /\ passed \in 0..(NMoved + 1)
  /\ {ph, hen, busy, done, g_req} \subseteq BOOLEAN
  /\ {start, head_en, done_s, g_done, dma_go, dma_in, dm_on, dm_into} \subseteq BOOLEAN
  /\ dm_left \in 0..NWords /\ out \in 0..NWords /\ into \in 0..NWords
  /\ pc \in Accesses /\ runs \in 0..NRuns /\ n_gathers \in 0..(NMoved + 1)

\* The PL moves words only while the core waits on a gather nobody has
\* answered: a move at any other time would read or write a vector the core
\* is computing, through the core's own port (qwen_full.py, g_req && gx_we).
MovesInsideGather == dm_on \/ dma_go => g_req /\ ~g_done

\* The ARM reads the buffer, and puts the whole vector there, only when its
\* slice is out, and answers only when every word is in the core: GMOVE never
\* reads clear between the write that asks for a move and the move.
MovesWhole ==
  /\ pc \in {"move_in", "in_wait"} => out = NWords
  /\ pc = "answer" /\ ~OnHead => out = NWords /\ into = NWords

\* Each gather the core asks for is answered once and only then left, and the
\* ARM finds a run over exactly when the core has left its last gather: no
\* gather is served twice, no done of an earlier run is taken for this one's.
Begun == pc \notin {"ctrl", "over"}
LeftNow == IF start /\ ~busy THEN 0 ELSE passed
Service == INSTANCE GatherService WITH
  on <- Begun,
  due <- IF ~Begun /\ runs = 0 THEN 0 ELSE NMoved + (IF head_en THEN 1 ELSE 0),
  asked <- LeftNow + (IF g_req THEN 1 ELSE 0), served <- n_gathers, left <- LeftNow

ServesEach == Service!ServiceSpec

\* With fair clocks and accesses every run ends: neither a start nor an answer
\* nor a done is lost to a clock that is held.
EveryRunEnds == <>(pc = "over")
=============================================================================
