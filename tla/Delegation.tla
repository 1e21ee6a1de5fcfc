------------------------------ MODULE Delegation ------------------------------
(***************************************************************************)
(* Delegated work: a turn whose model calls "delegate" (tools/builtin/     *)
(* delegate.py, Harness.spawn_subagent), the loop of a sub-agent           *)
(* (agents/subagent.py) with a circuit breaker of its own, and the         *)
(* supervisor that fans tasks out over a message bus                       *)
(* (agents/orchestrator.py).  A sub-agent runs inside the tool call of     *)
(* its caller, so what is under way is a stack, the root at the bottom.    *)
(*                                                                         *)
(* A model call costs one unit.  The turn itself is HarnessTurn's: here it *)
(* is the calls it makes, the batches it runs and the usage it folds in.   *)
(***************************************************************************)
EXTENDS Integers, Sequences, FiniteSets

CONSTANTS
  MaxSteps,   (* limits.max_steps                                           *)
  SubSteps,   (* agents.max_steps                                           *)
  MaxDepth,   (* agents.max_depth                                           *)
  CostCap,    (* limits.max_cost_usd in units; 0 is no cap                  *)
  MaxErrors,  (* limits.max_consecutive_errors                              *)
  WallClock,  (* whether limits.max_wall_clock_s is set                     *)
  MaxFan,     (* bound: tool calls of one completion, tasks of one fan-out  *)
  MaxRuns     (* bound: turns and fan-outs of a behaviour                   *)

ASSUME DelegationAssumption ==
  /\ MaxSteps \in Nat /\ SubSteps \in Nat /\ MaxDepth \in Nat
  /\ CostCap \in Nat /\ MaxErrors \in Nat /\ WallClock \in BOOLEAN
  /\ MaxFan \in Nat /\ MaxRuns \in Nat

VARIABLES
  root,      (* what is under way: a turn, a fan-out, or nothing            *)
  frames,    (* the root and the sub-agents inside it                       *)
  owed,      (* _subagent_usage                                             *)
  cancel,    (* _cancel                                                     *)
  counted,   (* the turn's usage, or the usage its replies report           *)
  log,       (* the bus: requests and replies of the fan-out                *)
  runs,      (* how many so far                                             *)
  billed,    (* history: model calls paid for since the root began          *)
  raised     (* history: those paid for by sub-agents whose provider raised *)

vars == <<root, frames, owed, cancel, counted, log, runs, billed, raised>>

Minimum(a, b) == IF a <= b THEN a ELSE b

(* A frame: its breaker, the calls of the last completion still to be run,  *)
(* their results still to be observed, and what a sub-agent has spent.      *)
Frame == [steps: Nat, cost: Nat, errors: Nat, todo: Nat,
          results: Seq(BOOLEAN), spent: Nat]
NewFrame == [steps |-> 0, cost |-> 0, errors |-> 0, todo |-> 0,
             results |-> <<>>, spent |-> 0]
Top     == Len(frames)
Current == frames[Top]
InSub   == Top > 1
InTurn  == root = "turn" /\ Top = 1
InFan   == root = "fan" /\ Top = 1
Between == root # "none" /\ ~InFan /\ Current.todo = 0 /\ Current.results = <<>>

Init ==
  /\ root = "none" /\ frames = <<>> /\ owed = 0 /\ cancel = FALSE
  /\ counted = 0 /\ log = <<>> /\ runs = 0 /\ billed = 0 /\ raised = 0

(* run_turn empties the accumulator; a fan-out does not look at it.         *)
OwedAtStart(kind) == IF kind = "turn" THEN 0 ELSE owed

Begin(kind) ==
  /\ root = "none" /\ runs < MaxRuns
  /\ root' = kind /\ runs' = runs + 1
  /\ cancel' = IF kind = "turn" THEN FALSE ELSE cancel
  /\ owed' = OwedAtStart(kind)
  /\ counted' = 0 /\ log' = <<>> /\ billed' = 0 /\ raised' = 0

StartTurn == Begin("turn") /\ frames' = <<NewFrame>>

(* fan_out with n tasks still to be sent.                                   *)
StartFan(n) == Begin("fan") /\ frames' = <<[NewFrame EXCEPT !.todo = n]>>

RootEnds == root' = "none" /\ frames' = <<>>

-----------------------------------------------------------------------------
(* Breakers.                                                                *)

(* The steps a breaker allows: a number passed in can only lower the limit. *)
Budget(depth) == IF depth = 1 THEN MaxSteps ELSE Minimum(SubSteps, MaxSteps)

Tripped ==
  \/ Current.steps >= Budget(Top)
  \/ CostCap > 0 /\ Current.cost >= CostCap

-----------------------------------------------------------------------------
(* Results on their way back to the caller.                                 *)

(* The reply to the request sent last, correlated with it.                  *)
Reply(kind) == <<[kind |-> kind, task |-> Len(log)]>>

(* The top frame is left and its caller gets a result.                      *)
Pop(ok) ==
  frames' = [i \in 1..(Top - 1) |->
               IF i = Top - 1 /\ ~(root = "fan" /\ i = 1)
               THEN [frames[i] EXCEPT !.results = Append(@, ok)]
               ELSE frames[i]]

(* A return that leaves what it cost to the sub-agent it came from.         *)
UnreportedOwed(spent) == owed
(* spawn_subagent adds what the sub-agent hands back to the accumulator.    *)
OwedWith(spent) == owed + spent

(* A sub-agent returns, with an answer or because its breaker tripped.      *)
(* What it spent goes to the accumulator, or into the supervisor's reply.   *)
Return(spent) ==
  /\ Pop(TRUE)
  /\ IF root = "fan" /\ Top = 2
     THEN /\ counted' = counted + spent
          /\ log' = log \o Reply("response")
          /\ UNCHANGED owed
     ELSE owed' = OwedWith(spent) /\ UNCHANGED <<counted, log>>
  /\ UNCHANGED <<root, cancel, runs>>

(* before_step raises, for the steps, the cost or the time: the turn is     *)
(* aborted, a sub-agent answers that it was halted.                         *)
Halt ==
  /\ Between /\ (Tripped \/ WallClock) /\ (InTurn => ~cancel)
  /\ IF InSub THEN Return(Current.spent)
     ELSE RootEnds /\ UNCHANGED <<owed, cancel, counted, log, runs>>
  /\ UNCHANGED <<billed, raised>>

(* record_step, and the n calls of the completion.                          *)
Charged(n) == [Current EXCEPT !.steps = @ + 1, !.cost = @ + 1, !.todo = n,
                              !.spent = IF InSub THEN @ + 1 ELSE @]

(* A model call comes back with n tool calls; without any it is the answer. *)
Think(n) ==
  /\ Between /\ ~Tripped /\ (InTurn => ~cancel)
  /\ billed' = billed + 1
  /\ IF n = 0
     THEN IF InSub THEN Return(Current.spent + 1)
          ELSE /\ RootEnds /\ counted' = counted + 1
               /\ UNCHANGED <<owed, cancel, log, runs>>
     ELSE /\ frames' = [frames EXCEPT ![Top] = Charged(n)]
          /\ counted' = IF InSub THEN counted ELSE counted + 1
          /\ UNCHANGED <<root, owed, cancel, log, runs>>
  /\ UNCHANGED raised

(* The provider raises: the turn fails; a sub-agent is left without a word  *)
(* about what it spent, and its tool call, or its task, has failed.         *)
Raise ==
  /\ Between /\ ~Tripped /\ (InTurn => ~cancel)
  /\ IF InSub
     THEN /\ Pop(FALSE)
          /\ raised' = raised + Current.spent
          /\ log' = IF root = "fan" /\ Top = 2 THEN log \o Reply("error") ELSE log
          /\ UNCHANGED root
     ELSE RootEnds /\ UNCHANGED <<raised, log>>
  /\ UNCHANGED <<owed, cancel, counted, runs, billed>>

-----------------------------------------------------------------------------
(* Tool calls of the current completion, in order.                          *)

Skipped == InTurn /\ cancel

(* The next call has its result.                                            *)
Called(ok) == [Current EXCEPT !.todo = @ - 1, !.results = Append(@, ok)]

(* A call that is run, refused, denied or fails; the calls a cancelled turn *)
(* has left are not executed.                                               *)
RunTool(ok) ==
  /\ root # "none" /\ ~InFan /\ Current.todo > 0 /\ (InSub => Current.results = <<>>)
  /\ (Skipped => ~ok)
  /\ frames' = [frames EXCEPT ![Top] = Called(ok)]
  /\ UNCHANGED <<root, owed, cancel, counted, log, runs, billed, raised>>

(* Nesting that relies on the tool being hidden from the deepest agents.    *)
MayNestHidden(depth) == TRUE
(* spawn_subagent refuses to go deeper than allowed: the specs of a deepest *)
(* agent hide "delegate", and its model may ask for it all the same.        *)
MayNest(depth) == depth <= MaxDepth

(* A call of "delegate".  A refusal is an answer like any other.            *)
Delegate ==
  /\ root # "none" /\ ~InFan /\ Current.todo > 0 /\ (InSub => Current.results = <<>>)
  /\ ~Skipped
  /\ frames' =
       IF MayNest(Top)
       THEN Append([frames EXCEPT ![Top].todo = @ - 1], NewFrame)
       ELSE [frames EXCEPT ![Top] = Called(TRUE)]
  /\ UNCHANGED <<root, owed, cancel, counted, log, runs, billed, raised>>

(* The supervisor sends the next task and runs it on a sub-agent.           *)
FanOut ==
  /\ InFan /\ Current.todo > 0
  /\ frames' = Append([frames EXCEPT ![1].todo = @ - 1], NewFrame)
  /\ log' = Append(log, [kind |-> "request", task |-> Len(log) + 1])
  /\ UNCHANGED <<root, owed, cancel, counted, runs, billed, raised>>

FanEnds ==
  /\ InFan /\ Current.todo = 0
  /\ RootEnds
  /\ UNCHANGED <<owed, cancel, counted, log, runs, billed, raised>>

-----------------------------------------------------------------------------
(* Observing results.                                                       *)

(* The error streak after the first k results: the failures at their end,   *)
(* and the streak there was if they are nothing else.                       *)
Streak(errors, results, k) ==
  LET failed == Cardinality({i \in 1..k : \A j \in i..k : ~results[j]})
  IN IF failed = k THEN errors + k ELSE failed

(* record_tool_result: the first one that makes the streak too long ends it.*)
TooManyErrors == \E k \in 1..Len(Current.results) :
                   Streak(Current.errors, Current.results, k) > MaxErrors

Observed == [Current EXCEPT
  !.errors = Streak(Current.errors, Current.results, Len(Current.results)),
  !.results = <<>>]

(* A sub-agent observes each result before it runs the next call.           *)
ObserveInSub ==
  /\ InSub /\ Current.results # <<>>
  /\ IF TooManyErrors
     THEN Return(Current.spent)
     ELSE /\ frames' = [frames EXCEPT ![Top] = Observed]
          /\ UNCHANGED <<root, owed, cancel, counted, log, runs>>
  /\ UNCHANGED <<billed, raised>>

(* _take_subagent_usage empties the accumulator into the breaker's cost and *)
(* the usage of the step, whether the turn goes on from there or not.       *)
OwedAfterTake == 0

ObserveInTurn ==
  /\ InTurn /\ Current.todo = 0 /\ Current.results # <<>>
  /\ counted' = counted + owed
  /\ owed' = OwedAfterTake
  /\ IF TooManyErrors \/ cancel
     THEN RootEnds
     ELSE frames' = <<[Observed EXCEPT !.cost = @ + owed]>> /\ UNCHANGED root
  /\ UNCHANGED <<cancel, log, runs, billed, raised>>

(* Another thread cancels the turn; the turn looks at the flag before a     *)
(* model call and before each tool call, its sub-agents never do.           *)
Cancel ==
  /\ root = "turn" /\ ~cancel
  /\ cancel' = TRUE
  /\ UNCHANGED <<root, frames, owed, counted, log, runs, billed, raised>>

EndCancelled ==
  /\ InTurn /\ Between /\ cancel
  /\ RootEnds
  /\ UNCHANGED <<owed, cancel, counted, log, runs, billed, raised>>

Next ==
  \/ StartTurn
  \/ \E n \in 0..MaxFan : StartFan(n) \/ Think(n)
  \/ \E ok \in BOOLEAN : RunTool(ok)
  \/ Halt \/ Raise \/ Delegate \/ FanOut \/ FanEnds
  \/ ObserveInSub \/ ObserveInTurn \/ Cancel \/ EndCancelled

Spec == Init /\ [][Next]_vars

-----------------------------------------------------------------------------
TypeOK ==
  /\ root \in {"none", "turn", "fan"} /\ cancel \in BOOLEAN
  /\ frames \in Seq(Frame) /\ (frames = <<>> <=> root = "none")
  /\ {owed, counted, runs, billed, raised} \subseteq Nat
  /\ \A i \in DOMAIN log : log[i] \in [kind : {"request", "response", "error"}, task : Nat]

(* "A delegated turn is bounded and billed like any other work"             *)
(* (ARCHITECTURE, sub-agent accounting).  Whenever the turn is about to     *)
(* call its model again, and when it is over, its usage and its breaker     *)
(* have counted every unit paid for on its behalf, at any depth and         *)
(* whatever an earlier fan-out left behind, but for what sub-agents had     *)
(* spent when their provider raised: that is lost.                          *)
SpendIsCounted ==
  [][/\ InTurn /\ Between => counted = Current.cost /\ counted = billed - raised
     /\ root = "turn" /\ root' = "none" => counted' = billed' - raised']_vars

(* No sub-agent, and no nesting of them, widens a limit of the user: each   *)
(* stays within limits.max_steps as well as agents.max_steps, and none is   *)
(* deeper than agents.max_depth, even for a model that calls a tool it was  *)
(* not offered.  Only the supervisor's own tasks do not ask for the depth.  *)
DelegatesOnlyTighten ==
  /\ \A i \in 2..Top : frames[i].steps <= Minimum(SubSteps, MaxSteps)
  /\ Top - 1 <= MaxDepth \/ (root = "fan" /\ Top = 2)

(* The supervisor's audit trail: every request on the bus is followed by    *)
(* the reply correlated with it before the next task is sent, also when the *)
(* sub-agent, or one it delegated to, failed.                               *)
RequestsAreAnswered ==
  /\ \A i \in DOMAIN log :
       IF i % 2 = 1 THEN log[i].kind = "request"
       ELSE log[i].kind # "request" /\ log[i].task = log[i - 1].task
  /\ InFan => Len(log) % 2 = 0

(* Delegation at any depth stays within the limits of the user, and every   *)
(* task on the supervisor's bus gets its reply (subagent.py,                *)
(* orchestrator.py).                                                        *)
DelegationIsContained == DelegatesOnlyTighten /\ RequestsAreAnswered

===============================================================================
