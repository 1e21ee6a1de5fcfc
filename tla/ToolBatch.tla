------------------------------ MODULE ToolBatch ------------------------------
(***************************************************************************)
(* One batch of tool calls (orchestration/loop.py, Harness._execute_batch):*)
(* the calls are resolved on the thread of the turn, which may wait for a  *)
(* human, reads share a pool of workers, everything else runs alone and in *)
(* call order, and another thread may cancel the turn, change the approval *)
(* mode or answer the prompt at any moment.                                *)
(*                                                                         *)
(* A call is abstracted to its kind:                                       *)
(*   "read"   a tool without side effects that may share the pool          *)
(*   "skill"  use_skill, which may too, and activates a skill              *)
(*   "serial" delegate: without side effects, but never in the pool        *)
(*   "write"  a tool with side effects, which the gate decides about       *)
(*   "bad"    an unknown tool or arguments that could not be parsed        *)
(***************************************************************************)
EXTENDS Integers, Sequences, FiniteSets, SequencesExt

CONSTANTS
  Workers,     (* the pool's max_workers                                    *)
  Allowed,     (* kinds the activated skill allows besides use_skill        *)
  MaxCalls,    (* bound: calls of the batch                                 *)
  Batches,     (* bound: the batches, as sequences of kinds                 *)
  MaxCycles    (* bound: changes of the approval mode                       *)

Kinds    == {"read", "skill", "serial", "write", "bad"}
Modes    == {"ask", "auto", "deny"}
Outcomes == {"ok", "failed", "declined", "invalid", "refused", "cancelled"}
None     == "none"

ASSUME BatchAssumption ==
  /\ Workers \in Nat \ {0} /\ MaxCalls \in Nat /\ MaxCycles \in Nat
  /\ Allowed \subseteq Kinds
  /\ Batches \subseteq UNION {[1..n -> Kinds] : n \in 1..MaxCalls}

VARIABLES
  calls,       (* the kinds of the calls, in call order                     *)
  enabled,     (* limits.parallel_tools                                     *)
  pc,          (* "resolve", "ask", "pool", "serial", "run", "done"         *)
  at,          (* the call that is being resolved                           *)
  settled,     (* the answer of each call, or None                          *)
  todo,        (* calls still to run alone, in order                        *)
  queue,       (* calls submitted to the pool and not yet started           *)
  running,     (* calls being executed now                                  *)
  barred,      (* those of them the active skill refused                    *)
  collected,   (* what the pool's futures returned so far                   *)
  skill,       (* whether a skill with allowed-tools is active              *)
  mode, cycles, cancel,
  approved,    (* history: writes the gate let through                      *)
  ran,         (* history: calls in the order they began to execute         *)
  late         (* history: calls begun outside the pool after the cancel    *)

vars == <<calls, enabled, pc, at, settled, todo, queue, running, barred,
          collected, skill, mode, cycles, cancel, approved, ran, late>>

Indices == 1..Len(calls)

(* A pool that takes every call that was cleared.                           *)
PoolableAny(i) == calls[i] # "bad"

(* _parallel_eligible, decided from the tool alone.                         *)
Poolable(i) == calls[i] \in {"read", "skill"}

Concurrent ==
  enabled /\ Cardinality({i \in Indices : Poolable(i)}) >= 2

Init ==
  /\ calls \in Batches
  /\ enabled \in BOOLEAN
  /\ pc = "resolve" /\ at = 1
  /\ settled = [i \in Indices |-> None]
  /\ todo = <<>> /\ queue = <<>> /\ running = {} /\ barred = {}
  /\ collected = [i \in Indices |-> None]
  /\ skill \in BOOLEAN /\ mode \in Modes /\ cycles = 0 /\ cancel = FALSE
  /\ approved = {} /\ ran = <<>> /\ late = 0

-----------------------------------------------------------------------------
World == UNCHANGED <<calls, enabled, mode, cycles, cancel>>

Settle(i, outcome) == settled' = [settled EXCEPT ![i] = outcome]

(* ToolRegistry.dispatch begins: the active skill lets the call through or  *)
(* refuses it.                                                              *)
Permitted(i) == ~skill \/ calls[i] = "skill" \/ calls[i] \in Allowed

Begin(i) ==
  /\ running' = running \cup {i}
  /\ barred' = IF Permitted(i) THEN barred ELSE barred \cup {i}
  /\ ran' = IF Permitted(i) THEN Append(ran, i) ELSE ran

BeginAlone(i) ==
  /\ Begin(i)
  /\ late' = IF cancel THEN late + 1 ELSE late

(* What a call that ran to its end leaves: a skill that loads is active.    *)
Ends(i, outcome) ==
  /\ outcome \in IF i \in barred THEN {"refused"} ELSE {"ok", "failed"}
  /\ running' = running \ {i} /\ barred' = barred \ {i}
  /\ skill' = (skill \/ (calls[i] = "skill" /\ outcome = "ok"))

(* The members of S as the code lists them, by their place in the batch.    *)
InCallOrder(S) ==
  CHOOSE s \in [1..Cardinality(S) -> S] :
    /\ ToSet(s) = S
    /\ \A j, k \in 1..Cardinality(S) : j < k => s[j] < s[k]

(* Every call was resolved: the reads go to the pool when there are two of  *)
(* them, and otherwise in front of the calls that run alone.                *)
Launch(open) ==
  LET reads  == {i \in open : Poolable(i)}
      writes == InCallOrder(open \ reads)
  IN IF Cardinality(reads) > 1
     THEN pc' = "pool" /\ queue' = InCallOrder(reads) /\ todo' = writes
     ELSE /\ pc' = "serial" /\ todo' = InCallOrder(reads) \o writes
          /\ UNCHANGED queue

(* The next call is resolved, or the batch goes on after the last one.      *)
Advance(answers) ==
  /\ at' = at + 1
  /\ IF at < Len(calls) THEN pc' = "resolve" /\ UNCHANGED <<todo, queue>>
     ELSE IF Concurrent THEN Launch({i \in Indices : answers[i] = None})
     ELSE pc' = "serial" /\ UNCHANGED <<todo, queue>>

(* _not_executed, or a call answered without running.                       *)
Answered(outcome) ==
  /\ Settle(at, outcome)
  /\ Advance([settled EXCEPT ![at] = outcome])
  /\ UNCHANGED <<running, barred, ran, late>>

(* The call may run.  Alone it runs at once; in a concurrent batch it waits *)
(* until the others are resolved.                                           *)
Cleared ==
  /\ UNCHANGED settled
  /\ IF Concurrent
     THEN Advance(settled) /\ UNCHANGED <<running, barred, ran, late>>
     ELSE BeginAlone(at) /\ pc' = "run" /\ UNCHANGED <<at, todo, queue>>

SkipCancelled ==
  /\ pc = "resolve" /\ ~Concurrent /\ cancel
  /\ Answered("cancelled")
  /\ World /\ UNCHANGED <<collected, skill, approved>>

Resolving == pc = "resolve" /\ (Concurrent \/ ~cancel)

ResolveInvalid ==
  /\ Resolving /\ calls[at] = "bad"
  /\ Answered("invalid")
  /\ World /\ UNCHANGED <<collected, skill, approved>>

ResolveFree ==
  /\ Resolving /\ calls[at] \in {"read", "skill", "serial"}
  /\ Cleared
  /\ World /\ UNCHANGED <<collected, skill, approved>>

(* The gate blocks the call under "deny", lets it through under "auto" and  *)
(* asks the user under "ask".                                               *)
GateDenies ==
  /\ Resolving /\ calls[at] = "write" /\ mode = "deny"
  /\ Answered("declined")
  /\ World /\ UNCHANGED <<collected, skill, approved>>

GateApproves ==
  /\ Resolving /\ calls[at] = "write" /\ mode = "auto"
  /\ approved' = approved \cup {at}
  /\ Cleared
  /\ World /\ UNCHANGED <<collected, skill>>

GateAsks ==
  /\ Resolving /\ calls[at] = "write" /\ mode = "ask"
  /\ pc' = "ask"
  /\ World
  /\ UNCHANGED <<at, settled, todo, queue, running, barred, collected, skill,
                 approved, ran, late>>

UserAnswers ==
  /\ pc = "ask"
  /\ \/ Cleared /\ approved' = approved \cup {at}
     \/ Answered("declined") /\ UNCHANGED approved
  /\ World /\ UNCHANGED <<collected, skill>>

-----------------------------------------------------------------------------
(* A pool without max_workers.                                              *)
PoolBeginsUnbounded ==
  /\ pc = "pool" /\ queue # <<>>
  /\ Begin(Head(queue)) /\ queue' = Tail(queue)
  /\ World
  /\ UNCHANGED <<pc, at, settled, todo, collected, skill, approved, late>>

(* A worker of the pool takes the next call.  Nothing checks for a cancel.  *)
PoolBegins ==
  /\ pc = "pool" /\ queue # <<>> /\ Cardinality(running) < Workers
  /\ Begin(Head(queue)) /\ queue' = Tail(queue)
  /\ World
  /\ UNCHANGED <<pc, at, settled, todo, collected, skill, approved, late>>

PoolEnds ==
  /\ pc = "pool"
  /\ \E i \in running, outcome \in Outcomes :
       /\ Ends(i, outcome)
       /\ collected' = [collected EXCEPT ![i] = outcome]
  /\ World
  /\ UNCHANGED <<pc, at, settled, todo, queue, approved, ran, late>>

(* A collection that keeps the answers of the calls that succeeded only.    *)
PoolCollectedSuccesses ==
  /\ pc = "pool" /\ queue = <<>> /\ running = {}
  /\ settled' = [i \in Indices |-> IF collected[i] = "ok" THEN collected[i]
                                   ELSE settled[i]]
  /\ pc' = "serial"
  /\ World
  /\ UNCHANGED <<at, todo, queue, running, barred, collected, skill, approved,
                 ran, late>>

(* Every future has its result: the answers take their calls' places.       *)
PoolCollected ==
  /\ pc = "pool" /\ queue = <<>> /\ running = {}
  /\ settled' = [i \in Indices |-> IF collected[i] # None THEN collected[i]
                                   ELSE settled[i]]
  /\ pc' = "serial"
  /\ World
  /\ UNCHANGED <<at, todo, queue, running, barred, collected, skill, approved,
                 ran, late>>

(* A skip that leaves the call at the head of the list.                     *)
SerialSkipsInPlace ==
  /\ pc = "serial" /\ todo # <<>> /\ cancel
  /\ Settle(Head(todo), "cancelled")
  /\ World
  /\ UNCHANGED <<pc, at, todo, queue, running, barred, collected, skill,
                 approved, ran, late>>

(* Between two calls that run alone, a cancel skips the rest of them.       *)
SerialSkips ==
  /\ pc = "serial" /\ todo # <<>> /\ cancel
  /\ Settle(Head(todo), "cancelled") /\ todo' = Tail(todo)
  /\ World
  /\ UNCHANGED <<pc, at, queue, running, barred, collected, skill, approved,
                 ran, late>>

SerialBegins ==
  /\ pc = "serial" /\ todo # <<>> /\ ~cancel
  /\ BeginAlone(Head(todo)) /\ pc' = "run"
  /\ World
  /\ UNCHANGED <<at, settled, todo, queue, collected, skill, approved>>

(* The call that ran alone is over.                                         *)
RunEnds ==
  /\ pc = "run"
  /\ \E i \in running, outcome \in Outcomes :
       /\ Ends(i, outcome) /\ Settle(i, outcome)
       /\ IF Concurrent
          THEN /\ todo' = Tail(todo) /\ pc' = "serial"
               /\ UNCHANGED <<at, queue>>
          ELSE Advance([settled EXCEPT ![i] = outcome])
  /\ World /\ UNCHANGED <<collected, approved, ran, late>>

Return ==
  /\ pc = "serial" /\ todo = <<>>
  /\ pc' = "done"
  /\ World
  /\ UNCHANGED <<at, settled, todo, queue, running, barred, collected, skill,
                 approved, ran, late>>

-----------------------------------------------------------------------------
Frame == <<calls, enabled, pc, at, settled, todo, queue, running, barred,
           collected, skill, approved, ran, late>>

Cancel ==
  /\ ~cancel /\ pc # "done" /\ cancel' = TRUE
  /\ UNCHANGED <<Frame, mode, cycles>>

(* cycle_mode: ask, auto, deny, and ask again.                              *)
NextMode(m) == CASE m = "ask" -> "auto" [] m = "auto" -> "deny" [] OTHER -> "ask"

(* The user cycles the approval mode, also while a batch is running.        *)
CycleMode ==
  /\ cycles < MaxCycles /\ pc # "done"
  /\ cycles' = cycles + 1
  /\ mode' = NextMode(mode)
  /\ UNCHANGED <<Frame, cancel>>

Resolution == SkipCancelled \/ ResolveInvalid \/ ResolveFree
              \/ GateDenies \/ GateApproves \/ GateAsks
Execution  == PoolBegins \/ PoolEnds \/ PoolCollected
              \/ SerialSkips \/ SerialBegins \/ RunEnds \/ Return

Next == Resolution \/ UserAnswers \/ Execution \/ Cancel \/ CycleMode

Spec == Init /\ [][Next]_vars
-----------------------------------------------------------------------------
(* The answers and the workers of the batch; a call waits in at most one    *)
(* place.                                                                   *)
TypeOK ==
  /\ pc \in {"resolve", "ask", "pool", "serial", "run", "done"}
  /\ at \in 1..(Len(calls) + 1)
  /\ settled \in [Indices -> Outcomes \cup {None}]
  /\ collected \in [Indices -> Outcomes \cup {None}]
  /\ todo \in Seq(Indices) /\ queue \in Seq(Indices)
  /\ running \subseteq Indices /\ Cardinality(running) <= Workers
  /\ barred \subseteq running /\ approved \subseteq Indices
  /\ mode \in Modes /\ skill \in BOOLEAN /\ cancel \in BOOLEAN
  /\ cycles \in 0..MaxCycles /\ late \in Nat
  /\ ran \in Seq(Indices)
  /\ ToSet(todo) \cap ToSet(queue) = {}

(* A call that may not share the pool never runs beside another one, and    *)
(* in a concurrent batch not before every read has its answer (loop.py:     *)
(* "a write racing a read could hand the model a half-written file").       *)
AloneAndAfterTheReads ==
  \A i \in running :
    calls[i] \notin {"read", "skill"} =>
      /\ running = {i}
      /\ Concurrent => \A j \in Indices :
           calls[j] \in {"read", "skill"} => settled[j] # None

(* Side effects happen in the order the model asked for them, whatever the  *)
(* user answered and however long he took.                                  *)
EffectsInCallOrder ==
  LET effects == {k \in 1..Len(ran) : calls[ran[k]] \in {"write", "serial"}}
  IN \A j, k \in effects : j < k => ran[j] < ran[k]

(* No call runs twice, and none with a side effect runs that the gate did   *)
(* not let through, even when the mode changes between the two.             *)
OnlyApprovedEffects ==
  /\ IsInjective(ran)
  /\ \A k \in 1..Len(ran) : calls[ran[k]] = "write" => ran[k] \in approved

(* Once the turn is cancelled at most one more call with effects begins:    *)
(* the one whose prompt was open.  The reads of a pool are not recalled.    *)
CancelStopsTheBatch == late <= 1

(* What a batch does to the world is safe: alone, in order, approved, once, *)
(* and not after a cancel.                                                  *)
EffectsAreSafe ==
  /\ AloneAndAfterTheReads /\ EffectsInCallOrder
  /\ OnlyApprovedEffects /\ CancelStopsTheBatch

(* The batch answers every call once and for all and returns.               *)
Contract == INSTANCE BatchContract WITH
              NoOutcome <- None, answers <- settled, over <- (pc = "done")

KeepsContract == Contract!Spec

=============================================================================
