---------------------------- MODULE MCHarnessTurn ----------------------------
(* Model checking of HarnessTurn: the constants are given in the .cfg files. *)
EXTENDS HarnessTurn
===============================================================================
