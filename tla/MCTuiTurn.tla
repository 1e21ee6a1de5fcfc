------------------------------ MODULE MCTuiTurn ------------------------------
(* Model checking of TuiTurn: three turns, three approvals in all.          *)
EXTENDS TuiTurn
===============================================================================
