-------------------------- MODULE GatherRendezvous --------------------------
(***************************************************************************)
(* What the gathers of a tensor-parallel run promise (board_zybo.py, TP_C; *)
(* tp.py): every rank takes part in the same gathers in the same order,    *)
(* leaves a gather only when every rank has entered it, and takes away the *)
(* slice each rank computed for that very gather.                          *)
(***************************************************************************)
EXTENDS Naturals, Sequences

CONSTANTS NRanks, NGathers

VARIABLES entered,  \* how many gathers each rank has entered
          used      \* the vectors each rank has taken away, one per gather

RendezvousRanks == 0..(NRanks - 1)

RendezvousInit == /\ entered = [r \in RendezvousRanks |-> 0]
                  /\ used = [r \in RendezvousRanks |-> <<>>]

Enter(r) == /\ entered[r] < NGathers /\ Len(used[r]) = entered[r]
            /\ entered' = [entered EXCEPT ![r] = @ + 1]
            /\ UNCHANGED used

\* The vector of gather k is made of the slices computed for k, and of
\* nothing else, whoever takes it.
WholeVector(k) == [s \in RendezvousRanks |-> {k}]

TakeAway(r) ==
  /\ Len(used[r]) < entered[r]
  /\ \A s \in RendezvousRanks : entered[s] >= entered[r]
  /\ used' = [used EXCEPT ![r] = Append(@, WholeVector(entered[r]))]
  /\ UNCHANGED entered

RendezvousNext == \E r \in RendezvousRanks : Enter(r) \/ TakeAway(r)

RendezvousVars == <<entered, used>>

RendezvousSpec ==
  /\ RendezvousInit /\ [][RendezvousNext]_RendezvousVars
  /\ \A r \in RendezvousRanks : WF_RendezvousVars(Enter(r) \/ TakeAway(r))
=============================================================================
