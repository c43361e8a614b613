----------------------------- MODULE MCDelivery -----------------------------
(***************************************************************************)
(* Model values and sets for the TLC instances of Delivery.                *)
(***************************************************************************)
EXTENDS DeliveryProperties, TLC

CONSTANTS a1, a2, t1, t2

TwoAgents  == {a1, a2}
OneAgent   == {a1}
OneThread  == {t1}
TwoThreads == {t1, t2}

FiveTokens == 1..5

\* Agents are interchangeable wherever Closers is empty or all of them.
AgentSymmetry == Permutations(Agents)
=============================================================================
