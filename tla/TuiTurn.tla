------------------------------- MODULE TuiTurn -------------------------------
(***************************************************************************)
(* A turn between the two threads of the TUI: the app (tui/app.py), which  *)
(* handles keys and messages one at a time, and the worker that drives     *)
(* Harness.run_turn (tui/turn_bridge.py), which posts messages to the app  *)
(* and blocks on a threading.Event while the user decides about a tool.    *)
(* They share the harness's cancel flag, the closing event and the answer  *)
(* box of each approval.                                                   *)
(*                                                                         *)
(* The turn itself is HarnessTurn; here it is a worker that posts a few    *)
(* deltas, asks for a few approvals, notices a cancel at a safe point and  *)
(* ends.  The queue of the app is FIFO and belongs to Textual.             *)
(***************************************************************************)
EXTENDS Integers, Sequences, SequencesExt

CONSTANTS
  MaxTurns,    (* bound: turns of a behaviour                               *)
  MaxDeltas,   (* bound: deltas of a turn                                   *)
  MaxAsks      (* bound: approvals of a behaviour, numbered 1..MaxAsks      *)

ASSUME TuiAssumption == MaxTurns \in Nat /\ MaxDeltas \in Nat /\ MaxAsks \in Nat

Asks  == 1..MaxAsks
Boxes == {"empty", "yes", "no"}
Ends  == {"done", "error"}

VARIABLES
  running,      (* app: _turn_running; the prompt is disabled with it       *)
  requested,    (* app: _cancel_requested                                   *)
  pending,      (* app: _pending_approvals                                  *)
  modals,       (* app: approval modals on the screen stack, top last       *)
  exiting,      (* app: exit() was called                                   *)
  exited,       (* app: the message loop is over                            *)
  queue,        (* messages posted to the app and not handled yet           *)
  closing,      (* shared: _shutdown_event                                  *)
  cancel,       (* shared: Harness._cancel                                  *)
  box, event,   (* shared: the answer of each approval, and its Event       *)
  worker,       (* "off", "starting", "running", "asking"                   *)
  deltas,       (* deltas of this turn                                      *)
  asks,         (* approvals asked so far                                   *)
  turns,        (* history: turns started                                   *)
  pressed,      (* history: approvals the user said yes to                  *)
  granted,      (* history: approvals the worker took for granted           *)
  wanted        (* history: a cancel of this turn was requested             *)

app     == <<running, requested, pending, modals, exiting, exited>>
shared  == <<closing, cancel, box, event>>
thread  == <<worker, deltas, asks>>
history == <<turns, pressed, granted, wanted>>
vars == <<running, requested, pending, modals, exiting, exited, queue, closing,
          cancel, box, event, worker, deltas, asks, turns, pressed, granted,
          wanted>>

Delta    == [kind |-> "delta", ask |-> 0]
Ask(i)   == [kind |-> "ask", ask |-> i]
Ended(e) == [kind |-> e, ask |-> 0]
MessageType == [kind : {"delta", "ask"} \cup Ends, ask : 0..MaxAsks]

Init ==
  /\ running = FALSE /\ requested = FALSE /\ pending = {} /\ modals = <<>>
  /\ exiting = FALSE /\ exited = FALSE /\ queue = <<>>
  /\ closing = FALSE /\ cancel = FALSE
  /\ box = [i \in Asks |-> "empty"] /\ event = [i \in Asks |-> FALSE]
  /\ worker = "off" /\ deltas = 0 /\ asks = 0
  /\ turns = 0 /\ pressed = {} /\ granted = {}
  /\ wanted = FALSE

-----------------------------------------------------------------------------
(* The worker thread (run_turn_worker, approval_cb, run_turn).              *)

Post(m) == queue' = Append(queue, m)

(* The first act of the turn is to clear the cancel flag.                   *)
WorkerEnters ==
  /\ worker = "starting" /\ worker' = "running"
  /\ cancel' = FALSE
  /\ UNCHANGED <<app, queue, closing, box, event, deltas, asks, history>>

(* A delta: a closing app cancels the turn again before it is posted.       *)
WorkerPosts ==
  /\ worker = "running" /\ deltas < MaxDeltas
  /\ deltas' = deltas + 1
  /\ cancel' = (cancel \/ closing)
  /\ Post(Delta)
  /\ UNCHANGED <<app, closing, box, event, worker, asks, history>>

WorkerAsks ==
  /\ worker = "running" /\ asks < MaxAsks
  /\ asks' = asks + 1
  /\ worker' = "asking"
  /\ Post(Ask(asks + 1))
  /\ UNCHANGED <<app, shared, deltas, history>>

(* The event is set: the box holds the answer.  Each approval has its own.  *)
WorkerAnswered ==
  /\ worker = "asking" /\ event[asks]
  /\ worker' = "running"
  /\ granted' = IF box[asks] = "yes" THEN granted \cup {asks} ELSE granted
  /\ UNCHANGED <<app, queue, shared, deltas, asks, turns, pressed,
                 wanted>>

(* A wait without a timeout: it never looks at the closing event.           *)
WorkerPollNever ==
  /\ worker = "asking" /\ FALSE
  /\ UNCHANGED vars

(* The poll finds the app closing: the answer is no.                        *)
WorkerGivesUp ==
  /\ worker = "asking" /\ ~event[asks] /\ closing
  /\ worker' = "running"
  /\ UNCHANGED <<app, queue, shared, deltas, asks, history>>

(* The turn is over: cancelled at a safe point, finished, or failed.        *)
WorkerEnds ==
  /\ worker = "running"
  /\ \E e \in Ends : Post(Ended(e))
  /\ worker' = "off"
  /\ UNCHANGED <<app, shared, deltas, asks, history>>

Worker == WorkerEnters \/ WorkerPosts \/ WorkerAsks \/ WorkerAnswered
          \/ WorkerGivesUp \/ WorkerEnds

-----------------------------------------------------------------------------
(* The app: one key or one message at a time, until its loop is over.       *)

(* Enter in the prompt, which is disabled while a turn runs and hidden      *)
(* under a modal.                                                           *)
Submit ==
  /\ ~exited /\ ~running /\ modals = <<>> /\ turns < MaxTurns
  /\ running' = TRUE /\ requested' = FALSE
  /\ worker' = "starting" /\ deltas' = 0
  /\ turns' = turns + 1 /\ wanted' = FALSE
  /\ UNCHANGED <<pending, modals, exiting, exited, queue, shared, asks,
                 pressed, granted>>

(* A cancel that gives the prompt back before the turn has stopped.         *)
RequestCancelAndEnd ==
  /\ requested' = TRUE /\ cancel' = TRUE /\ wanted' = TRUE /\ running' = FALSE
  /\ UNCHANGED <<pending, modals, exiting, exited, queue, closing,
                 box, event, thread, turns, pressed, granted>>

(* _request_cancel.                                                         *)
RequestCancel ==
  /\ requested' = TRUE /\ cancel' = TRUE /\ wanted' = TRUE
  /\ UNCHANGED <<running, pending, modals, exiting, exited, queue, closing,
                 box, event, thread, turns, pressed, granted>>

(* _shutdown_workers: every approval that is still pending is denied.       *)
Shutdown ==
  /\ closing' = TRUE /\ cancel' = TRUE
  /\ pending' = {}
  /\ box'   = [i \in Asks |-> IF i \in pending THEN "no" ELSE box[i]]
  /\ event' = [i \in Asks |-> event[i] \/ i \in pending]

(* Escape cancels the turn, unless a modal is there to take it.             *)
Escape ==
  /\ ~exited /\ modals = <<>> /\ running /\ ~requested
  /\ RequestCancel

Interrupt ==
  /\ ~exited /\ running /\ ~requested
  /\ RequestCancel

(* Ctrl+C with no turn to cancel, or again, and Ctrl+Q.                     *)
Quit ==
  /\ ~exited /\ ~exiting
  /\ Shutdown /\ exiting' = TRUE
  /\ UNCHANGED <<running, requested, modals, exited, queue, thread, turns,
                 pressed, granted, wanted>>

(* The loop ends and the screens unmount, which shuts down once more.       *)
Exit ==
  /\ exiting /\ ~exited
  /\ exited' = TRUE /\ modals' = <<>>
  /\ Shutdown
  /\ UNCHANGED <<running, requested, exiting, queue, thread, turns, pressed,
                 granted, wanted>>

Received(kinds) ==
  /\ ~exited /\ queue # <<>> /\ Head(queue).kind \in kinds
  /\ queue' = Tail(queue)

OnDelta ==
  /\ Received({"delta"})
  /\ UNCHANGED <<app, shared, thread, history>>

(* A request whose modal opens without being listed as pending.             *)
OnApprovalRequestUnlisted ==
  /\ Received({"ask"})
  /\ modals' = Append(modals, Head(queue).ask)
  /\ UNCHANGED <<pending, box, event>>
  /\ UNCHANGED <<running, requested, exiting, exited, closing, cancel, thread,
                 turns, pressed, granted, wanted>>

(* on_approval_request: a modal for the user, or a no when the app is       *)
(* already shutting down.                                                   *)
OnApprovalRequest ==
  /\ Received({"ask"})
  /\ LET i == Head(queue).ask
     IN IF closing
        THEN /\ box' = [box EXCEPT ![i] = "no"]
             /\ event' = [event EXCEPT ![i] = TRUE]
             /\ UNCHANGED <<pending, modals>>
        ELSE /\ pending' = pending \cup {i}
             /\ modals' = Append(modals, i)
             /\ UNCHANGED <<box, event>>
  /\ UNCHANGED <<running, requested, exiting, exited, closing, cancel, thread,
                 turns, pressed, granted, wanted>>

(* _resolve: the user's answer, whatever the box held.                      *)
AnswerModal(yes) ==
  /\ ~exited /\ modals # <<>>
  /\ LET i == modals[Len(modals)]
     IN /\ modals' = Front(modals) /\ pending' = pending \ {i}
        /\ box' = [box EXCEPT ![i] = IF yes THEN "yes" ELSE "no"]
        /\ event' = [event EXCEPT ![i] = TRUE]
        /\ pressed' = IF yes THEN pressed \cup {i} ELSE pressed
  /\ UNCHANGED <<running, requested, exiting, exited, queue, closing, cancel,
                 thread, turns, granted, wanted>>

(* An error that is shown and leaves the turn running.                      *)
OnTurnEndedUnlessFailed ==
  /\ Received(Ends)
  /\ running' = (Head(queue).kind = "error")
  /\ requested' = FALSE
  /\ UNCHANGED <<pending, modals, exiting, exited, shared, thread, history>>

(* on_turn_done and on_turn_error: the prompt comes back.                   *)
OnTurnEnded ==
  /\ Received(Ends)
  /\ running' = FALSE /\ requested' = FALSE
  /\ UNCHANGED <<pending, modals, exiting, exited, shared, thread, history>>

Handler == OnDelta \/ OnApprovalRequest \/ OnTurnEnded

Answers == \E yes \in BOOLEAN : AnswerModal(yes)

Next == Worker \/ Submit \/ Escape \/ Interrupt \/ Quit \/ Exit \/ Handler
        \/ Answers

(* Both threads are scheduled, and a turn ends by itself (HarnessTurn,      *)
(* TurnsEndUnlessACallHangs).  No key is ever owed.                         *)
Spec == Init /\ [][Next]_vars
FairSpec ==
  /\ Spec
  /\ WF_vars(Worker) /\ WF_vars(Handler) /\ WF_vars(Exit)
-----------------------------------------------------------------------------
(* The values of both threads; an approval is pending while its modal is up *)
(* and the app is not going away.                                           *)
TypeOK ==
  /\ running \in BOOLEAN /\ requested \in BOOLEAN /\ pending \subseteq Asks
  /\ exiting \in BOOLEAN /\ exited \in BOOLEAN
  /\ modals \in Seq(Asks) /\ Len(modals) <= 1
  /\ queue \in Seq(MessageType)
  /\ closing \in BOOLEAN /\ cancel \in BOOLEAN
  /\ box \in [Asks -> Boxes] /\ event \in [Asks -> BOOLEAN]
  /\ worker \in {"off", "starting", "running", "asking"}
  /\ deltas \in 0..MaxDeltas /\ asks \in 0..MaxAsks /\ turns \in 0..MaxTurns
  /\ ~closing => pending = ToSet(modals)

(* A tool runs only when the user said yes to that very call: no answer is  *)
(* left over from an earlier prompt, a cancel or a shutdown.                *)
GrantedWasPressed == granted \subseteq pressed

(* Two turns never drive the harness at once: while a worker is alive, or   *)
(* its end is still in the queue, the app does not take another prompt.     *)
NoOverlap ==
  /\ worker # "off" => running
  /\ (running /\ worker = "off") =>
       \E i \in 1..Len(queue) : queue[i].kind \in Ends

(* A cancel that arrives after its turn has ended does not stop the next.   *)
StaleCancelIsHarmless ==
  (worker \in {"running", "asking"} /\ cancel) => wanted \/ closing

(* Nothing of one turn reaches into another: not a worker, not a yes, not a *)
(* cancel.                                                                  *)
TurnsStayApart == NoOverlap /\ GrantedWasPressed /\ StaleCancelIsHarmless

(* A running turn gives the prompt back, unless the user quits or leaves a  *)
(* question open.                                                           *)
PromptComesBack == running ~> (~running \/ modals # <<>> \/ exiting)

(* Quitting never hangs: the worker ends even when it waits for an answer   *)
(* nobody will give, and even when the cancel was lost to a starting turn.  *)
QuitEndsWorker == closing ~> (worker = "off")

-----------------------------------------------------------------------------
(* README.md: Ctrl+C will "cancel the running turn".                        *)
CancelReachesTurn ==
  (wanted /\ worker \in {"running", "asking"}) => cancel

===============================================================================
