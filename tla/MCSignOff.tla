----------------------------- MODULE MCSignOff -----------------------------
(* A model of SignOff for TLC: timing missed or met; where nothing is
   reported, NoSlack. *)
EXTENDS SignOff

SomeSlacks == {-1, 1}
=============================================================================
