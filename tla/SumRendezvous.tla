--------------------------- MODULE SumRendezvous ---------------------------
(***************************************************************************)
(* What an all-reduce promises (collectives.py): operation after           *)
(* operation, every board ends with the elementwise sum of what all the    *)
(* boards brought, the same on each, and none ends before all have come.   *)
(***************************************************************************)
EXTENDS Naturals

CONSTANTS Boards, NOps

VARIABLES begun,   \* how many operations each board has begun
          ended    \* how many each has ended

SumInit == /\ begun = [b \in Boards |-> 0]
           /\ ended = [b \in Boards |-> 0]

Begin(b) == /\ begun[b] = ended[b] /\ begun[b] < NOps
            /\ begun' = [begun EXCEPT ![b] = @ + 1]
            /\ UNCHANGED ended

End(b) == /\ ended[b] < begun[b]
          /\ \A c \in Boards : begun[c] >= begun[b]
          /\ ended' = [ended EXCEPT ![b] = @ + 1]
          /\ UNCHANGED begun

SumNext == \E b \in Boards : Begin(b) \/ End(b)

SumVars == <<begun, ended>>

SumSpec == /\ SumInit /\ [][SumNext]_SumVars
           /\ \A b \in Boards : WF_SumVars(Begin(b) \/ End(b))
=============================================================================
