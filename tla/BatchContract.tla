---------------------------- MODULE BatchContract ----------------------------
(***************************************************************************)
(* What a batch of tool calls promises the loop that observes it: every    *)
(* call is answered once, its answer never changes, and the batch is over  *)
(* when all of them are answered, in the order of the calls.               *)
(***************************************************************************)
EXTENDS Integers, Sequences

CONSTANTS MaxCalls,   (* how many calls a batch can have                     *)
          Outcomes,   (* what a call can be answered with                    *)
          NoOutcome   (* the answer is not there yet                         *)

VARIABLES answers,    (* the answer of each call                             *)
          over        (* the answers were returned                           *)

vars == <<answers, over>>

Init ==
  /\ \E n \in 1..MaxCalls : answers = [i \in 1..n |-> NoOutcome]
  /\ over = FALSE

Open == {i \in DOMAIN answers : answers[i] = NoOutcome}

(* Some of the open calls are answered together, as a pool of workers does. *)
AnswerSome ==
  /\ ~over
  /\ answers' \in [DOMAIN answers -> Outcomes \cup {NoOutcome}]
  /\ \A i \in DOMAIN answers \ Open : answers'[i] = answers[i]
  /\ UNCHANGED over

Return ==
  /\ ~over /\ Open = {}
  /\ over' = TRUE
  /\ UNCHANGED answers

Next == AnswerSome \/ Return

SafeSpec == Init /\ [][Next]_vars
Spec == SafeSpec /\ WF_vars(Return)
===============================================================================
