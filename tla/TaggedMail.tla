----------------------------- MODULE TaggedMail -----------------------------
(***************************************************************************)
(* What the boards of fabric.py promise one another: a message that is     *)
(* sent is received, whole, by the one recv that asks for its tag, whether *)
(* that recv comes before it or after it.                                  *)
(***************************************************************************)
CONSTANT Msgs

VARIABLES sent,      \* messages handed over to the last packet
          asked,     \* messages a recv has asked for
          received   \* messages a recv has returned

MailInit == sent = {} /\ asked = {} /\ received = {}

Send(m) == m \notin sent /\ sent' = sent \cup {m} /\ UNCHANGED <<asked, received>>

Ask(m) == m \notin asked /\ asked' = asked \cup {m}
          /\ received' \in {received, received \cup ({m} \cap sent)}
          /\ UNCHANGED sent

Return(m) == m \in (sent \cap asked) \ received
             /\ received' = received \cup {m} /\ UNCHANGED <<sent, asked>>

MailNext == \E m \in Msgs : Send(m) \/ Ask(m) \/ Return(m)

MailVars == <<sent, asked, received>>

MailSpec == /\ MailInit /\ [][MailNext]_MailVars
            /\ \A m \in Msgs : WF_MailVars(Return(m))
=============================================================================
