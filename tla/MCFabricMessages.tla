-------------------------- MODULE MCFabricMessages --------------------------
(* Board "a" sends two messages to "b", of two slices and of one, and one to *)
(* "c" that takes two; "b" sends one back.                                   *)
EXTENDS FabricMessages

FourMsgs == {"ab1", "ab2", "ac", "ba"}
Sources  == [m \in Msgs |-> IF m = "ba" THEN "b" ELSE "a"]
Targets  == [m \in Msgs |-> CASE m = "ac" -> "c" [] m = "ba" -> "a" [] OTHER -> "b"]
Sizes    == [m \in Msgs |-> CASE m = "ab1" -> 3 [] m = "ab2" -> 2 [] m = "ac" -> 3 [] OTHER -> 1]
=============================================================================
