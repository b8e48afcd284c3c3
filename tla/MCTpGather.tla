----------------------------- MODULE MCTpGather -----------------------------
(* Instances of TpGather for TLC.  Gathers alternate between two vectors;  *)
(* the wide instance sends rank 0's slice of one of them in two parts.     *)
EXTENDS TpGather

AlternateVecs == [k \in 1..NGathers |-> IF k % 2 = 1 THEN 1 ELSE 4]

OnePart == [r \in Ranks |-> [v \in Vecs |-> 1]]

UnevenParts == [r \in Ranks |-> [v \in Vecs |-> IF r = 0 /\ v = 1 THEN 2 ELSE 1]]
=============================================================================
