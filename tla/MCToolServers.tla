---------------------------- MODULE MCToolServers -----------------------------
(* Model checking of ToolServers: two servers that both offer the tool      *)
(* "both", and one of them another.                                         *)
EXTENDS ToolServers

MCOffers == [n \in Names |-> Tools]
===============================================================================
