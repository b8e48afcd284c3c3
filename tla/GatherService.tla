--------------------------- MODULE GatherService ---------------------------
(***************************************************************************)
(* What the register block of a tensor-parallel rank promises its ARM and  *)
(* its core (board_zybo.py, tp_wrapper): a run has as many gathers as the  *)
(* core asks for, each is answered once, after it is asked for and before  *)
(* the core goes on, and the ARM finds the run over when the core is.      *)
(***************************************************************************)
EXTENDS Naturals

CONSTANTS NRuns,   \* bound: runs, one per position
          NMoved   \* gathers of a run, the head's aside

VARIABLES runs,    \* runs that are over
          on,      \* a run is on ...
          due,     \* ... of this many gathers:
          asked, served, left   \* asked for, answered, and gone on from

ServiceVars == <<runs, on, due, asked, served, left>>

ServiceInit == /\ runs = 0 /\ on = FALSE /\ due = 0
               /\ asked = 0 /\ served = 0 /\ left = 0

Begin == /\ ~on /\ runs < NRuns
         /\ on' = TRUE /\ due' \in {NMoved, NMoved + 1}
         /\ asked' = 0 /\ served' = 0 /\ left' = 0
         /\ UNCHANGED runs

Ask == /\ on /\ asked = left /\ asked < due
       /\ asked' = asked + 1
       /\ UNCHANGED <<runs, on, due, served, left>>

Serve == /\ served < asked
         /\ served' = served + 1
         /\ UNCHANGED <<runs, on, due, asked, left>>

GoOn == /\ left < served
        /\ left' = left + 1
        /\ UNCHANGED <<runs, on, due, asked, served>>

End == /\ on /\ left = due
       /\ on' = FALSE /\ runs' = runs + 1
       /\ UNCHANGED <<due, asked, served, left>>

ServiceNext == Begin \/ Ask \/ Serve \/ GoOn \/ End

ServiceSpec == ServiceInit /\ [][ServiceNext]_ServiceVars
=============================================================================
