-------------------------------- MODULE MCStep --------------------------------
(* Model checking of the two ends of a step of the loop: the request that   *)
(* is cut to the context window (ContextWindow) and the batch of calls its  *)
(* answer asks for (ToolBatch).  They share no state, so a behaviour        *)
(* concerns one of them (focus) and leaves the other in an initial state.   *)
(* Sizes are in characters, four to the token, and chosen so that one       *)
(* message may or may not fill the budget.                                  *)
EXTENDS ToolBatch, ContextWindow

VARIABLE focus      (* "window" or "batch"                                  *)

(* Every batch of at most three calls, and those of four in which two reads *)
(* or skills meet two calls that run alone.                                 *)
Reads == {"read", "skill"}
Alone == {"write", "serial"}

ShortBatches == UNION {[1..n -> Kinds] : n \in 1..3}

MixedBatches ==
  {b \in [1..4 -> Reads \cup Alone] :
     Cardinality({i \in 1..4 : b[i] \in Reads}) = 2}

MCBatches == ShortBatches \cup MixedBatches

(* The part the behaviour does not concern has one initial state.           *)
WindowRests ==
  /\ window = CHOOSE w \in Windows : TRUE
  /\ overhead = CHOOSE o \in Overheads : TRUE
  /\ hardCap = CHOOSE h \in HardCaps : TRUE

BatchRests == calls = <<"read">> /\ enabled /\ skill /\ mode = "ask"

StepInit ==
  /\ Init /\ WindowInit
  /\ focus \in {"window", "batch"}
  /\ IF focus = "batch" THEN WindowRests ELSE BatchRests

StepNext ==
  /\ UNCHANGED focus
  /\ \/ focus = "batch" /\ Next /\ UNCHANGED windowVars
     \/ focus = "window" /\ WindowNext /\ UNCHANGED vars

stepVars == <<vars, windowVars, focus>>

(* The threads of the turn and of the pool are scheduled and every tool     *)
(* ends; the user need not answer.                                          *)
StepSpec ==
  /\ StepInit /\ [][StepNext]_stepVars
  /\ WF_vars(focus = "batch" /\ Resolution)
  /\ WF_vars(focus = "batch" /\ Execution)

(* Left alone, a batch comes to its end or waits for the user.              *)
EndsOrAsks ==
  (focus = "batch" /\ pc # "done") ~> (pc \in {"done", "ask"})

===============================================================================
