---------------------------- MODULE SingleBoard ----------------------------
(***************************************************************************)
(* What a decode split over boards promises (board_zybo.py, STAGE_C;       *)
(* cluster.py): position after position, it runs the very tokens one board *)
(* holding every layer would.  The right token at position p is p itself:  *)
(* what the prompt holds there, or what the model makes of the positions   *)
(* before it.                                                              *)
(***************************************************************************)
EXTENDS Naturals

CONSTANT NPos   \* positions of the run

VARIABLES pos,  \* the position to run next, NPos at the end
          tok   \* the token it is run with

BoardInit == pos = 0 /\ tok = 0

Step == pos < NPos /\ pos' = pos + 1 /\ tok' = pos + 1

BoardSpec == BoardInit /\ [][Step]_<<pos, tok>> /\ WF_<<pos, tok>>(Step)
=============================================================================
