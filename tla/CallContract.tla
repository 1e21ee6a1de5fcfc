----------------------------- MODULE CallContract ------------------------------
(***************************************************************************)
(* What a model call promises whoever consumes it: text comes piece by     *)
(* piece and is never taken back or repeated; then the call ends, and the  *)
(* completion it ends with has exactly the text that was told.             *)
(***************************************************************************)
EXTENDS Sequences

CONSTANT Piece

VARIABLES open,   (* the call is under way                                  *)
          told,   (* the text the consumer has got                          *)
          text    (* the text of the last call's completion                 *)

vars == <<open, told, text>>

Init == open = FALSE /\ told = <<>> /\ text = <<>>

Begin == ~open /\ open' = TRUE /\ told' = <<>> /\ text' = <<>>
Tell ==
  /\ open
  /\ \E piece \in Piece : told' = Append(told, piece)
  /\ UNCHANGED <<open, text>>
Finish == open /\ open' = FALSE /\ text' = told /\ UNCHANGED told
Fail   == open /\ open' = FALSE /\ UNCHANGED <<told, text>>

Next == Begin \/ Tell \/ Finish \/ Fail

(* What it never does; that it ends is the fairness of Spec.                *)
SafeSpec == Init /\ [][Next]_vars
Spec     == SafeSpec /\ WF_vars(Finish \/ Fail)
===============================================================================
