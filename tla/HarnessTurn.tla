----------------------------- MODULE HarnessTurn -----------------------------
(***************************************************************************)
(* One session of the harness (orchestration/loop.py, Harness.run_turn):   *)
(* the Reason -> Act -> Observe loop of a user turn, its circuit breaker,  *)
(* the continuation of answers cut off at the output cap, compaction of    *)
(* the history, cancellation by another thread, persistence, and a         *)
(* consumer or a process that goes away in the middle.                     *)
(*                                                                         *)
(* The thread that drives run_turn is sequential; a step of the model ends *)
(* where another thread, the consumer or a crash can come in between.      *)
(* Token counts are abstracted: a history may be over budget at any step.  *)
(* Money is counted in units: a model call, a summary and a delegated task *)
(* cost one each.                                                          *)
(***************************************************************************)
EXTENDS Integers, Sequences, Conversation, WorkingMemory

CONSTANTS
  MaxSteps,          (* limits.max_steps: model calls of one turn           *)
  CostCap,           (* limits.max_cost_usd in units; 0 is no cap           *)
  MaxErrors,         (* limits.max_consecutive_errors                       *)
  MaxContinuations,  (* MAX_CONTINUATIONS                                   *)
  KeepRecent,        (* KEEP_RECENT: messages compaction never takes        *)
  WallClock,         (* whether limits.max_wall_clock_s is set              *)
  MaxTurns,          (* bound: user turns of a behaviour                    *)
  MaxCalls,          (* bound: tool calls of one completion                 *)
  MaxCrashes         (* bound: process crashes of a behaviour               *)

ASSUME TurnAssumption ==
  /\ MaxSteps \in Nat
  /\ CostCap \in Nat
  /\ MaxErrors \in Nat
  /\ MaxContinuations \in Nat
  /\ KeepRecent \in Nat \ {0}
  /\ WallClock \in BOOLEAN
  /\ MaxTurns \in Nat
  /\ MaxCalls \in Nat
  /\ MaxCrashes \in Nat

None == -1

Statuses == {"none", "open", "done", "cancelled", "error", "blocked",
             "abandoned", "escaped", "crashed"}
Closed   == {"done", "cancelled", "error", "blocked"}
PCs      == {"idle", "top", "compact", "summary", "stream", "egress",
             "decide", "batch", "observe", "settled"}
Phases   == {"execute", "done", "error"}
Stops    == {"end", "max_tokens"}

SummaryType == [steps: Nat, cost: Nat, tools: Nat, compactions: Nat,
                continuations: Nat]
BreakerType == [steps: Nat, cost: Nat, errors: Nat]
LocalType   == [turnStart: Nat, contStart: Nat \cup {None}, contParts: Nat,
                continuations: Nat]
LateType    == [summaries: Nat, requests: Nat, tasks: Nat]
StepType    == [calls: 0..MaxCalls, stop: Stops, cost: Nat]
RecordType  == [messages: Seq(Message), phase: Phases, usage: Nat,
                lastTurn: SummaryType]

NewSummary  == [steps |-> 0, cost |-> 0, tools |-> 0, compactions |-> 0,
                continuations |-> 0]
NewBreaker  == [steps |-> 0, cost |-> 0, errors |-> 0]
NewLocals   == [turnStart |-> 0, contStart |-> None, contParts |-> 0,
                continuations |-> 0]
NothingLate == [summaries |-> 0, requests |-> 0, tasks |-> 0]
NoStep      == [calls |-> 0, stop |-> "end", cost |-> 0]

VARIABLES
  messages, phase, usage, lastTurn,  (* AgentState                          *)
  summaryOpen,   (* Harness._summary is not None                            *)
  cancel,        (* Harness._cancel, set from another thread                *)
  subUsage,      (* Harness._subagent_usage                                 *)
  pc, breaker, loc, step,  (* the frame of _run_turn                        *)
  results,       (* ok flags of the batch's results so far                  *)
  observed,      (* results already appended as TOOL messages               *)
  db,            (* the session row, as the last save wrote it              *)
  turn,          (* history: number of the last turn that was started       *)
  ended,         (* history: how each turn ended                            *)
  requests,      (* history: model calls of this turn                       *)
  late,          (* history: what was still spent once cancel was set       *)
  baseUsage,     (* history: usage when this turn began                     *)
  pieces,        (* history: texts of this turn since its last tool step    *)
  crashes

agentState == <<messages, phase, usage, lastTurn>>
frame      == <<breaker, loc, step, results, observed>>
history    == <<requests, late, baseUsage, pieces>>
vars == <<messages, phase, usage, lastTurn, summaryOpen, cancel, subUsage, pc,
          breaker, loc, step, results, observed, db, turn, ended,
          requests, late, baseUsage, pieces, crashes>>

Snapshot == [messages |-> messages, phase |-> phase, usage |-> usage,
             lastTurn |-> lastTurn]

(* new_session: an empty state is saved at once.                            *)
Init ==
  /\ messages = <<>> /\ phase = "execute" /\ usage = 0
  /\ lastTurn = NewSummary /\ summaryOpen = FALSE
  /\ cancel = FALSE /\ subUsage = 0
  /\ pc = "idle" /\ breaker = NewBreaker /\ loc = NewLocals /\ step = NoStep
  /\ results = <<>> /\ observed = 0
  /\ db = Snapshot
  /\ turn = 0 /\ ended = [t \in 1..MaxTurns |-> "none"]
  /\ requests = 0 /\ late = NothingLate /\ baseUsage = 0 /\ pieces = 0
  /\ crashes = 0

-----------------------------------------------------------------------------
(* The generator is gone: its locals with it.                               *)
DropFrame ==
  /\ breaker' = NewBreaker /\ loc' = NewLocals /\ step' = NoStep
  /\ results' = <<>> /\ observed' = 0

DropHistory ==
  requests' = 0 /\ late' = NothingLate /\ baseUsage' = 0 /\ pieces' = 0

(* What every exit of run_turn shares: the read-out, the phase, turn_end.   *)
Conclude(t, status, msgs, spent, last) ==
  /\ messages' = msgs /\ usage' = spent /\ lastTurn' = last
  /\ phase' = IF status = "done" THEN "done" ELSE "error"
  /\ summaryOpen' = FALSE
  /\ ended' = [ended EXCEPT ![t] = status]
  /\ DropFrame

(* An exit that forgets to save the session.                                *)
CloseTurnUnsaved(t, status, msgs, spent, last) ==
  /\ Conclude(t, status, msgs, spent, last)
  /\ pc' = "idle"
  /\ UNCHANGED db

(* A cancellation that closes the turn out and does not return.             *)
CloseTurnLoops(t, status, msgs, spent, last) ==
  /\ Conclude(t, status, msgs, spent, last)
  /\ pc' = IF status = "cancelled" THEN "top" ELSE "idle"
  /\ db' = [messages |-> msgs, phase |-> phase', usage |-> spent,
            lastTurn |-> last]

(* _cancelled, _abort, _finish_turn and the ingress refusal: the turn is    *)
(* concluded and the session saved.                                         *)
CloseTurn(t, status, msgs, spent, last) ==
  /\ Conclude(t, status, msgs, spent, last)
  /\ pc' = "idle"
  /\ db' = [messages |-> msgs, phase |-> phase', usage |-> spent,
            lastTurn |-> last]

(* What every start of a turn does first: the flag of a stale cancel is     *)
(* cleared and a fresh summary is published.                                *)
EnterTurn ==
  /\ pc = "idle" /\ turn < MaxTurns
  /\ turn' = turn + 1
  /\ cancel' = FALSE
  /\ requests' = 0 /\ late' = NothingLate /\ pieces' = 0
  /\ baseUsage' = usage
  /\ UNCHANGED crashes

StartBlocked ==
  /\ EnterTurn
  /\ CloseTurn(turn + 1, "blocked",
               messages \o <<AskMsg(turn + 1), RefusalMsg(turn + 1)>>,
               usage, NewSummary)
  /\ UNCHANGED subUsage

(* Routing builds the provider of the model it picked; when that raises,    *)
(* the exception leaves run_turn before the ask is part of the history.     *)
StartRouteFails ==
  /\ EnterTurn
  /\ ended' = [ended EXCEPT ![turn + 1] = "escaped"]
  /\ lastTurn' = NewSummary /\ summaryOpen' = TRUE
  /\ UNCHANGED <<messages, phase, usage, pc, subUsage, db, frame>>

StartTurn ==
  /\ EnterTurn
  /\ ended' = [ended EXCEPT ![turn + 1] = "open"]
  /\ lastTurn' = NewSummary /\ summaryOpen' = TRUE
  /\ messages' = Append(messages, AskMsg(turn + 1))
  /\ loc' = [NewLocals EXCEPT !.turnStart = Len(messages)]
  /\ subUsage' = 0
  /\ pc' = "top"
  /\ UNCHANGED <<phase, usage, db, breaker, step, results, observed>>

-----------------------------------------------------------------------------
(* CircuitBreaker.before_step: the bounds checked before every model call.  *)
BoundReached ==
  \/ breaker.steps >= MaxSteps
  \/ CostCap > 0 /\ breaker.cost >= CostCap

Running == UNCHANGED <<turn, crashes, baseUsage>>

(* Cancellation point (a).                                                  *)
TopCancelled ==
  /\ pc = "top" /\ cancel
  /\ CloseTurn(turn, "cancelled", messages, usage, lastTurn)
  /\ Running /\ UNCHANGED <<cancel, subUsage, requests, late, pieces>>

TopTrips ==
  /\ pc = "top" /\ ~cancel
  /\ BoundReached \/ WallClock
  /\ CloseTurn(turn, "error", messages, usage, lastTurn)
  /\ Running /\ UNCHANGED <<cancel, subUsage, requests, late, pieces>>

TopProceeds ==
  /\ pc = "top" /\ ~cancel /\ ~BoundReached
  /\ pc' = "compact"
  /\ Running
  /\ UNCHANGED <<agentState, summaryOpen, cancel, subUsage, frame, db, ended,
                 requests, late, pieces>>

(* The request of the step goes out; a cancel set by now is noticed only    *)
(* when the first delta arrives.                                            *)
SendRequest ==
  /\ pc' = "stream"
  /\ requests' = requests + 1
  /\ late' = IF cancel THEN [late EXCEPT !.requests = @ + 1] ELSE late

(* The history fits, nothing is old enough to be compacted, or compaction   *)
(* is off: the history stays.                                               *)
CompactSkipped ==
  /\ pc = "compact"
  /\ SendRequest
  /\ Running
  /\ UNCHANGED <<agentState, summaryOpen, cancel, subUsage, frame, db, ended,
                 pieces>>

(* The summarizer is asked for a digest of the prefix: a model call of its  *)
(* own, and no look at the cancel flag stands before it.                    *)
BeginSummary ==
  /\ pc = "compact"
  /\ CutIndex(messages, KeepRecent, loc.turnStart) > 0
  /\ pc' = "summary"
  /\ late' = IF cancel THEN [late EXCEPT !.summaries = @ + 1] ELSE late
  /\ Running
  /\ UNCHANGED <<agentState, summaryOpen, cancel, subUsage, frame, db, ended,
                 requests, pieces>>

(* The summarizer failed or answered nothing: the history stays.            *)
SummaryFails ==
  /\ pc = "summary"
  /\ SendRequest
  /\ Running
  /\ UNCHANGED <<agentState, summaryOpen, cancel, subUsage, frame, db, ended,
                 pieces>>

(* The prefix before the cut becomes a summary, the summarizer's cost goes  *)
(* to the breaker and the read-out, and the session is saved at once.       *)
CompactSucceeds ==
  /\ pc = "summary"
  /\ LET cut  == CutIndex(messages, KeepRecent, loc.turnStart)
         msgs == ApplySummary(Suffix(messages, cut + 1))
         last == [lastTurn EXCEPT !.compactions = @ + 1, !.cost = @ + 1]
     IN /\ cut > 0
        /\ messages' = msgs
        /\ lastTurn' = last
        /\ db' = [messages |-> msgs, phase |-> phase, usage |-> usage,
                  lastTurn |-> last]
  /\ breaker' = [breaker EXCEPT !.cost = @ + 1]
  /\ SendRequest
  /\ Running
  /\ UNCHANGED <<phase, usage, summaryOpen, cancel, subUsage, loc, step,
                 results, observed, ended, pieces>>

-----------------------------------------------------------------------------
(* A failed stream that is requested again, whatever the user asked.        *)
StreamFailsRetries ==
  /\ pc = "stream"
  /\ pc' = "compact"
  /\ Running
  /\ UNCHANGED <<agentState, summaryOpen, cancel, subUsage, frame, db, ended,
                 requests, late, pieces>>

(* The provider raises in mid-stream, or the stream ends without a final    *)
(* completion.                                                              *)
StreamFails ==
  /\ pc = "stream"
  /\ CloseTurn(turn, "error", messages, usage, lastTurn)
  /\ Running /\ UNCHANGED <<cancel, subUsage, requests, late, pieces>>

(* Cancellation point (b): at a delta, or after the last one.               *)
StreamCancelled ==
  /\ pc = "stream" /\ cancel
  /\ CloseTurn(turn, "cancelled", messages, usage, lastTurn)
  /\ Running /\ UNCHANGED <<cancel, subUsage, requests, late, pieces>>

(* A step recorded without being counted against the step budget.           *)
RecordStepUncounted(n, stop) ==
  /\ breaker' = [breaker EXCEPT !.cost = @ + 1]
  /\ lastTurn' = [lastTurn EXCEPT !.steps = breaker.steps, !.cost = @ + 1]
  /\ step' = [calls |-> n, stop |-> stop, cost |-> 1]

(* A step whose cost misses the breaker.                                    *)
RecordStepUncharged(n, stop) ==
  /\ breaker' = [breaker EXCEPT !.steps = @ + 1]
  /\ lastTurn' = [lastTurn EXCEPT !.steps = breaker.steps + 1, !.cost = @ + 1]
  /\ step' = [calls |-> n, stop |-> stop, cost |-> 1]

RecordStep(n, stop) ==
  /\ breaker' = [breaker EXCEPT !.steps = @ + 1, !.cost = @ + 1]
  /\ lastTurn' = [lastTurn EXCEPT !.steps = breaker.steps + 1, !.cost = @ + 1]
  /\ step' = [calls |-> n, stop |-> stop, cost |-> 1]

(* The completion arrived: n tool calls, or a text that ends or hits the    *)
(* output cap.                                                              *)
StreamCompletes ==
  /\ pc = "stream" /\ ~cancel
  /\ \E n \in 0..MaxCalls, stop \in Stops :
       /\ n > 0 => stop = "end"
       /\ RecordStep(n, stop)
  /\ pc' = "egress"
  /\ Running
  /\ UNCHANGED <<messages, phase, usage, summaryOpen, cancel, subUsage, loc,
                 results, observed, db, ended, requests, late, pieces>>

(* The inspected text was shown; the assistant message joins the history.   *)
AddAssistant ==
  /\ pc = "egress"
  /\ messages' = Append(messages, AssistantMsg(turn, step.calls, 1))
  /\ pieces' = IF step.calls = 0 THEN pieces + 1 ELSE 0
  /\ pc' = "decide"
  /\ Running
  /\ UNCHANGED <<phase, usage, lastTurn, summaryOpen, cancel, subUsage, frame,
                 db, ended, requests, late>>

-----------------------------------------------------------------------------
MayContinue ==
  /\ step.calls = 0 /\ step.stop = "max_tokens"
  /\ loc.continuations < MaxContinuations
  /\ ~cancel

(* The model ran out of output tokens: ask for the rest.                    *)
Continue ==
  /\ pc = "decide" /\ MayContinue
  /\ loc' = [loc EXCEPT !.continuations = @ + 1, !.contParts = @ + 1,
                        !.contStart = IF @ = None THEN Len(messages) - 1 ELSE @]
  /\ lastTurn' = [lastTurn EXCEPT !.continuations = loc.continuations + 1]
  /\ messages' = Append(messages, ContinueMsg(turn))
  /\ usage' = usage + step.cost
  /\ step' = NoStep
  /\ pc' = "top"
  /\ Running
  /\ UNCHANGED <<phase, summaryOpen, cancel, subUsage, breaker, results,
                 observed, db, ended, requests, late, pieces>>

(* The partial answers and the prompts between them become one answer:      *)
(* state.messages[cont_start:] = [joined].                                  *)
Collapsed ==
  IF loc.contStart = None THEN messages
  ELSE LET kept == IF loc.contStart <= Len(messages) THEN loc.contStart
                   ELSE Len(messages)
       IN Append(SubSeq(messages, 1, kept),
                 AssistantMsg(turn, 0, loc.contParts + 1))

Finish ==
  /\ pc = "decide" /\ step.calls = 0 /\ ~MayContinue
  /\ CloseTurn(turn, "done", Collapsed, usage + step.cost, lastTurn)
  /\ Running /\ UNCHANGED <<cancel, subUsage, requests, late, pieces>>

(* Cancellation point (c): before the batch.  The assistant message stays,  *)
(* without a result for any of its calls.                                   *)
DecideCancelled ==
  /\ pc = "decide" /\ step.calls > 0 /\ cancel
  /\ CloseTurn(turn, "cancelled", messages, usage + step.cost, lastTurn)
  /\ Running /\ UNCHANGED <<cancel, subUsage, requests, late, pieces>>

DecideTools ==
  /\ pc = "decide" /\ step.calls > 0 /\ ~cancel
  /\ loc' = [loc EXCEPT !.contStart = None, !.contParts = 0]
  /\ pc' = "batch"
  /\ Running
  /\ UNCHANGED <<agentState, summaryOpen, cancel, subUsage, breaker, step,
                 results, observed, db, ended, requests, late, pieces>>

-----------------------------------------------------------------------------
(* _execute_batch, one call.  A call that is skipped is a failed one; once  *)
(* cancel is set only the reads of a pool and a call whose approval was     *)
(* awaited still run (ToolBatch).  A delegated task that has begun runs on, *)
(* for its sub-agent never looks at the flag, and it leaves its cost in the *)
(* accumulator.                                                             *)
RunCall ==
  /\ pc = "batch"
  /\ \E ok \in BOOLEAN, spent \in 0..1 :
       /\ results' = Append(results, ok)
       /\ subUsage' = subUsage + spent
       /\ late' = IF cancel THEN [late EXCEPT !.tasks = @ + spent] ELSE late
  /\ pc' = IF Len(results') = step.calls THEN "observe" ELSE "batch"
  /\ Running
  /\ UNCHANGED <<agentState, summaryOpen, cancel, breaker, loc, step, observed,
                 db, ended, requests, pieces>>

(* One observation, in call order: the TOOL message joins the history, the  *)
(* sub-agents' cost goes to the breaker, the read-out and the step, and the *)
(* error streak is counted.                                                 *)
ObservedMessages == Append(messages, ToolMsg(turn, observed + 1))
ObservedSummary  == [lastTurn EXCEPT !.tools = @ + 1, !.cost = @ + subUsage]
ErrorStreak      == IF results[observed + 1] THEN 0 ELSE breaker.errors + 1

ObserveResult ==
  /\ pc = "observe" /\ ErrorStreak <= MaxErrors
  /\ messages' = ObservedMessages
  /\ lastTurn' = ObservedSummary
  /\ breaker' = [breaker EXCEPT !.cost = @ + subUsage, !.errors = ErrorStreak]
  /\ step' = [step EXCEPT !.cost = @ + subUsage]
  /\ subUsage' = 0
  /\ observed' = observed + 1
  /\ pc' = IF observed + 1 = step.calls THEN "settled" ELSE "observe"
  /\ Running
  /\ UNCHANGED <<phase, usage, summaryOpen, cancel, loc, results, db, ended,
                 requests, late, pieces>>

(* The streak is too long: the turn is aborted with the rest of the batch's *)
(* results unobserved.                                                      *)
ObserveTrips ==
  /\ pc = "observe" /\ ErrorStreak > MaxErrors
  /\ CloseTurn(turn, "error", ObservedMessages, usage + step.cost + subUsage,
               ObservedSummary)
  /\ subUsage' = 0
  /\ Running /\ UNCHANGED <<cancel, requests, late, pieces>>

BatchCancelled ==
  /\ pc = "settled" /\ cancel
  /\ CloseTurn(turn, "cancelled", messages, usage + step.cost, lastTurn)
  /\ Running /\ UNCHANGED <<cancel, subUsage, requests, late, pieces>>

(* The next step begins with the results of this one.                       *)
BatchRecordedKeepsResults ==
  /\ pc = "settled" /\ ~cancel
  /\ usage' = usage + step.cost
  /\ step' = NoStep
  /\ pc' = "top"
  /\ Running
  /\ UNCHANGED <<messages, phase, lastTurn, summaryOpen, cancel, subUsage,
                 breaker, loc, results, observed, db, ended, requests, late,
                 pieces>>

BatchRecorded ==
  /\ pc = "settled" /\ ~cancel
  /\ usage' = usage + step.cost
  /\ step' = NoStep /\ results' = <<>> /\ observed' = 0
  /\ pc' = "top"
  /\ Running
  /\ UNCHANGED <<messages, phase, lastTurn, summaryOpen, cancel, subUsage,
                 breaker, loc, db, ended, requests, late, pieces>>

-----------------------------------------------------------------------------
(* Harness.cancel, from another thread, at any moment.                      *)
Cancel ==
  /\ ~cancel
  /\ cancel' = TRUE
  /\ UNCHANGED <<agentState, summaryOpen, subUsage, pc, frame, db, turn, ended,
                 history, crashes>>

(* The consumer lets go of the generator, or Ctrl+C is raised inside it:    *)
(* nothing is recorded and nothing is saved.                                *)
Abandon ==
  /\ pc # "idle"
  /\ pc' = "idle"
  /\ ended' = [ended EXCEPT ![turn] = "abandoned"]
  /\ DropFrame /\ DropHistory
  /\ UNCHANGED <<agentState, summaryOpen, cancel, subUsage, db, turn, crashes>>

(* The process dies; a new one resumes the session from its row.            *)
CrashAndResume ==
  /\ crashes < MaxCrashes
  /\ crashes' = crashes + 1
  /\ messages' = db.messages /\ phase' = db.phase /\ usage' = db.usage
  /\ lastTurn' = db.lastTurn
  /\ summaryOpen' = FALSE /\ cancel' = FALSE /\ subUsage' = 0
  /\ pc' = "idle"
  /\ DropFrame
  /\ ended' = IF pc = "idle" THEN ended ELSE [ended EXCEPT ![turn] = "crashed"]
  /\ UNCHANGED <<db, turn, history>>

(* What the turn's own thread does next by itself.                          *)
Proceed ==
  \/ TopCancelled \/ TopTrips \/ TopProceeds
  \/ CompactSkipped \/ BeginSummary \/ SummaryFails \/ CompactSucceeds
  \/ StreamFails \/ StreamCancelled \/ StreamCompletes \/ AddAssistant
  \/ Continue \/ Finish \/ DecideCancelled \/ DecideTools
  \/ ObserveResult \/ ObserveTrips \/ BatchCancelled \/ BatchRecorded

Worker == Proceed \/ RunCall

Next ==
  \/ StartBlocked \/ StartRouteFails \/ StartTurn
  \/ Worker
  \/ Cancel \/ Abandon \/ CrashAndResume

Spec == Init /\ [][Next]_vars

(* The worker that drives a turn is always scheduled, and the provider's    *)
(* stream and the summarizer end or time out.  Of a call of a batch nothing *)
(* is assumed: it may wait for an approval, and the gate has no timeout.    *)
(* Nor of the user: no turn has to start and none has to be cancelled.      *)
FairSpec == Spec /\ WF_vars(Proceed)
-----------------------------------------------------------------------------
(* The values the session can hold, and how the frame of the batch counts   *)
(* its calls: no result is observed that was not produced, and none is      *)
(* produced that was not asked for.                                         *)
TypeOK ==
  /\ messages \in Seq(Message) /\ phase \in Phases /\ usage \in Nat
  /\ lastTurn \in SummaryType /\ summaryOpen \in BOOLEAN
  /\ cancel \in BOOLEAN /\ subUsage \in Nat
  /\ pc \in PCs /\ breaker \in BreakerType /\ loc \in LocalType
  /\ step \in StepType
  /\ results \in Seq(BOOLEAN) /\ Len(results) <= step.calls
  /\ observed \in 0..Len(results)
  /\ db \in RecordType
  /\ turn \in 0..MaxTurns /\ ended \in [1..MaxTurns -> Statuses]
  /\ requests \in Nat /\ late \in LateType /\ baseUsage \in Nat /\ pieces \in Nat
  /\ crashes \in 0..MaxCrashes
  /\ pc # "idle" => turn \in 1..MaxTurns /\ ended[turn] = "open"

(* Compaction, the collapse of a continued answer, an abort, a cancel and a *)
(* resume never separate a tool result from the assistant message that made *)
(* the call (working.py, compaction_cut: "every provider rejects a          *)
(* tool_result with no preceding tool_use").                                *)
ToolResultsAnchored == Anchored(messages) /\ Anchored(db.messages)

(* A call without its result stays in the history only where a turn was     *)
(* cut short there: a finished turn answered all of its calls, and a        *)
(* running one all but those of its open batch.                             *)
UnansweredOnlyWhenStopped ==
  \A i \in 1..Len(messages) :
    UnansweredAt(messages, i) =>
      LET t == messages[i].turn
      IN \/ ended[t] \in {"cancelled", "error", "abandoned"}
         \/ /\ t = turn /\ pc \in {"decide", "batch", "observe"}
            /\ i + observed = Len(messages)

(* What the running step has spent and not yet put on the session's bill.   *)
Unbilled == step.cost

(* The three accounts of a turn tell the same story: the read-out and the   *)
(* breaker agree on the money and on the steps, and the session's usage has *)
(* grown by all of it except the summarizer's calls.                        *)
AccountsAgree ==
  /\ pc # "idle" =>
       /\ lastTurn.cost = breaker.cost
       /\ lastTurn.steps = breaker.steps
  /\ (pc # "idle" \/ (turn > 0 /\ ended[turn] \in Closed)) =>
       usage + Unbilled = baseUsage + lastTurn.cost - lastTurn.compactions

(* A turn that recorded its end is in the database as the user saw it: a    *)
(* crash after it loses nothing.                                            *)
ClosedTurnIsDurable ==
  (pc = "idle" /\ turn > 0 /\ ended[turn] \in Closed) => db = Snapshot

(* What a cancel still costs.  Between the look at the flag and the request *)
(* there is none, so a cancel in that gap is followed by the summarizer's   *)
(* call and by the step's request, one of each and no more; the request's   *)
(* answer is dropped before it joins the history.  In a batch it is         *)
(* followed by the delegated tasks of that one batch, and by no other call. *)
CancelEndsTheStep ==
  /\ late.summaries <= 1 /\ late.requests <= 1 /\ late.tasks <= MaxCalls
  /\ late.tasks > 0 => late.summaries = 0 /\ late.requests = 0
  /\ late.requests > 0 => pc \in {"stream", "idle"}

(* However the model answers, a turn makes at most MaxSteps model calls,    *)
(* and overruns the cost cap by at most one step: a summary, a completion   *)
(* and the delegated tasks of its calls.                                    *)
TurnIsBounded ==
  /\ requests <= MaxSteps
  /\ CostCap > 0 => lastTurn.cost < CostCap + 2 + MaxCalls

(* A finished answer is whole: it joins every piece the model wrote for it, *)
(* and neither a piece nor a prompt for the next one stands before it.      *)
(* (When compaction ran in the same turn the start of the collapse is       *)
(* stale; see AskNeverCompacted.)                                           *)
AnswerWhole ==
  (pc = "idle" /\ turn > 0 /\ ended[turn] = "done"
   /\ lastTurn.compactions = 0) =>
    LET n == Len(messages)
    IN /\ messages[n].text = "answer" /\ messages[n].parts = pieces
       /\ \/ messages[n - 1].text = "ask" /\ messages[n - 1].turn = turn
          \/ messages[n - 1].text = "result"

(* The first compaction of a turn keeps the ask the turn is answering.      *)
AskKeptByFirstCompaction ==
  (pc # "idle" /\ lastTurn.compactions <= 1) => Holds(messages, "ask", turn)

(* An ask leaves the history only into a summary that leads it, or with the *)
(* crash of the process that had not saved it.                              *)
NothingForgottenSilently ==
  \A t \in 1..turn :
    \/ ended[t] \in {"escaped", "crashed"}
    \/ Holds(messages, "ask", t)
    \/ HeadIsSummary(messages)
    \/ ended[t] = "abandoned" /\ crashes > 0

(* The history a session keeps is sound: a provider accepts it, a finished  *)
(* turn answered its calls and gave the whole of its answer, and what was   *)
(* asked is in it or in a summary, whatever order compactions,              *)
(* continuations, cancels, aborts and crashes come in.                      *)
HistoryIsSound ==
  /\ ToolResultsAnchored
  /\ UnansweredOnlyWhenStopped
  /\ AnswerWhole
  /\ AskKeptByFirstCompaction
  /\ NothingForgottenSilently

(* Every turn that starts comes to an end, unless a call of one of its      *)
(* batches never returns (an approval nobody answers).                      *)
TurnsEndUnlessACallHangs ==
  <>[](pc = "batch") \/ ((pc # "idle") ~> (pc = "idle"))

-----------------------------------------------------------------------------
(* What the documentation says and the code does not do.                    *)

(* README.md: "the last six messages and the whole current turn are never   *)
(* compacted".                                                              *)
AskNeverCompacted == pc # "idle" => Holds(messages, "ask", turn)

===============================================================================
