---------------------------- MODULE TuiTurnProofs ----------------------------
(***************************************************************************)
(* What holds of the two threads of the TUI for any number of turns,       *)
(* deltas and approvals.                                                   *)
(*                                                                         *)
(* The argument is about the queue.  The worker posts nothing while it     *)
(* waits for an answer and nothing after the end of its turn, and the app  *)
(* handles the messages in order: so a question is always the last message,*)
(* the end of a turn is too, and an app that takes a prompt has nothing    *)
(* left to handle.                                                         *)
(***************************************************************************)
EXTENDS TuiTurn, SequenceTheorems, TLAPS

(* While the app is not closing there is one question at most.  It is the   *)
(* last message of the queue or the only modal, it is the one the worker    *)
(* waits on, and nobody has answered it.                                    *)
OneQuestion ==
  ~closing =>
    /\ \A k \in 1..Len(queue) : queue[k].kind = "ask" =>
         /\ k = Len(queue) /\ queue[k].ask = asks /\ modals = <<>>
         /\ worker = "asking" /\ ~event[asks]
    /\ modals # <<>> =>
         modals = <<asks>> /\ worker = "asking" /\ ~event[asks]
    /\ \A i \in Asks : event[i] => i <= asks

(* A worker that waits has asked.                                           *)
WaitsForItsQuestion == worker = "asking" => asks \in Asks

(* The end of the turn is the last message of a worker, and an app without  *)
(* a turn has handled everything.                                           *)
EndIsLast ==
  /\ worker # "off" =>
       running /\ \A k \in 1..Len(queue) : queue[k].kind \notin Ends
  /\ ~running => queue = <<>>
  /\ (running /\ worker = "off") =>
       /\ queue # <<>> /\ queue[Len(queue)].kind \in Ends
       /\ \A k \in 1..Len(queue) :
            queue[k].kind \in Ends => k = Len(queue)

(* A yes in a box was pressed by the user.                                  *)
YesWasPressed ==
  /\ granted \subseteq pressed
  /\ \A i \in Asks : box[i] = "yes" => i \in pressed

(* The types, part by part.                                                 *)
AppTypes ==
  /\ running \in BOOLEAN /\ requested \in BOOLEAN /\ pending \subseteq Asks
  /\ exiting \in BOOLEAN /\ exited \in BOOLEAN
  /\ modals \in Seq(Asks) /\ Len(modals) <= 1

SharedTypes ==
  /\ queue \in Seq(MessageType) /\ closing \in BOOLEAN /\ cancel \in BOOLEAN
  /\ box \in [Asks -> Boxes] /\ event \in [Asks -> BOOLEAN]

ThreadTypes ==
  /\ worker \in {"off", "starting", "running", "asking"}
  /\ deltas \in 0..MaxDeltas /\ asks \in 0..MaxAsks /\ turns \in 0..MaxTurns

PendingIsShown == ~closing => pending = ToSet(modals)

ScreenTypes == AppTypes /\ SharedTypes /\ ThreadTypes /\ PendingIsShown

ScreenInv == ScreenTypes /\ OneQuestion /\ WaitsForItsQuestion

(* The messages, and what posting one does to the queue.                    *)
LEMMA Posted ==
  ASSUME NEW q \in Seq(MessageType), NEW m \in MessageType
  PROVE  /\ Append(q, m) \in Seq(MessageType)
         /\ Len(Append(q, m)) = Len(q) + 1 /\ Append(q, m) # <<>>
         /\ Append(q, m)[Len(q) + 1] = m
         /\ \A k \in 1..Len(q) : Append(q, m)[k] = q[k]
OBVIOUS

(* What handling the first message does to the queue.                       *)
LEMMA Handled ==
  ASSUME NEW q \in Seq(MessageType), q # <<>>
  PROVE  /\ Tail(q) \in Seq(MessageType) /\ Head(q) \in MessageType
         /\ Head(q) = q[1] /\ Len(q) \in Nat \ {0}
         /\ Len(Tail(q)) = Len(q) - 1
         /\ \A k \in 1..Len(Tail(q)) : Tail(q)[k] = q[k + 1]
         /\ Tail(q) = <<>> <=> Len(q) = 1
<1>1. Len(q) \in Nat \ {0} /\ Head(q) = q[1] /\ Head(q) \in MessageType
  OBVIOUS
<1>2. Tail(q) \in Seq(MessageType) /\ Len(Tail(q)) = Len(q) - 1
  OBVIOUS
<1>3. \A k \in 1..Len(Tail(q)) : Tail(q)[k] = q[k + 1]
  OBVIOUS
<1>4. Tail(q) = <<>> <=> Len(q) = 1
  BY <1>1, <1>2, EmptySeq
<1> QED
  BY <1>1, <1>2, <1>3, <1>4

(* The messages of the worker, and how they differ.                         *)
LEMMA MessageTypes ==
  /\ Delta \in MessageType /\ Delta.kind = "delta"
  /\ \A i \in Asks : Ask(i) \in MessageType /\ Ask(i).kind = "ask" /\ Ask(i).ask = i
  /\ \A e \in Ends : Ended(e) \in MessageType /\ Ended(e).kind = e
  /\ "ask" \notin Ends /\ "delta" \notin Ends
BY TuiAssumption DEF Delta, Ask, Ended, MessageType, Asks, Ends

(* One modal, and what is left when it is answered.                         *)
LEMMA OneModal ==
  ASSUME NEW i \in Asks
  PROVE  /\ Append(<<>>, i) = <<i>> /\ <<i>> \in Seq(Asks) /\ Len(<<i>>) = 1
         /\ Front(<<i>>) = <<>> /\ ToSet(<<i>>) = {i}
         /\ <<i>>[Len(<<i>>)] = i
<1>1. Append(<<>>, i) = <<i>> /\ <<i>> \in Seq(Asks) /\ Len(<<i>>) = 1
      /\ <<i>>[1] = i
  OBVIOUS
<1>2. Front(<<i>>) = <<>>
  BY <1>1 DEF Front
<1>3. ToSet(<<i>>) = {i}
  BY <1>1 DEF ToSet
<1> QED
  BY <1>1, <1>2, <1>3

(* A screen with one modal at most, and not empty.                          *)
LEMMA OnlyModal ==
  ASSUME NEW s \in Seq(Asks), Len(s) <= 1, s # <<>>
  PROVE  \E i \in Asks : s = <<i>>
<1>1. Len(s) \in Nat /\ Len(s) # 0
  BY EmptySeq
<1>2. Len(s) = 1
  BY <1>1
<1>3. s[1] \in Asks
  BY <1>2, ElementOfSeq
<1>4. s = <<s[1]>>
  BY <1>2, <1>3
<1> QED
  BY <1>3, <1>4

(* The screen is empty.                                                     *)
LEMMA NoModal ==
  ToSet(<<>>) = {} /\ <<>> \in Seq(Asks) /\ Len(<<>>) = 0
BY DEF ToSet

(* The steps of the worker.                                                 *)
LEMMA ScreenWorker ==
  ASSUME ScreenInv, Worker
  PROVE  ScreenInv'
<1> USE TuiAssumption
<1>1. CASE WorkerEnters
  BY <1>1 DEF WorkerEnters, app, shared, thread, history, ScreenInv, ScreenTypes, AppTypes, SharedTypes, ThreadTypes, PendingIsShown,
     OneQuestion, WaitsForItsQuestion
<1>2. CASE WorkerPosts
  <2>1. queue' = Append(queue, Delta) /\ Delta \in MessageType
        /\ Delta.kind = "delta"
    BY <1>2, MessageTypes DEF WorkerPosts, Post
  <2>2. ScreenTypes'
    BY <1>2, <2>1, Posted DEF WorkerPosts, app, history, ScreenInv, ScreenTypes, AppTypes, SharedTypes, ThreadTypes, PendingIsShown
  <2>3. OneQuestion'
    BY <1>2, <2>1, Posted DEF WorkerPosts, app, history, ScreenInv, ScreenTypes, AppTypes, SharedTypes, ThreadTypes, PendingIsShown,
       OneQuestion
  <2> QED
    BY <1>2, <2>2, <2>3 DEF WorkerPosts, ScreenInv, WaitsForItsQuestion
<1>3. CASE WorkerAsks
  <2>1. asks + 1 \in Asks /\ asks' = asks + 1
    BY <1>3 DEF WorkerAsks, ScreenInv, ScreenTypes, AppTypes, SharedTypes, ThreadTypes, PendingIsShown, Asks
  <2>2. queue' = Append(queue, Ask(asks')) /\ Ask(asks') \in MessageType
        /\ Ask(asks').kind = "ask" /\ Ask(asks').ask = asks'
    BY <1>3, <2>1, MessageTypes DEF WorkerAsks, Post
  <2>3. ScreenTypes'
    BY <1>3, <2>1, <2>2, Posted DEF WorkerAsks, app, shared, history,
       ScreenInv, ScreenTypes, AppTypes, SharedTypes, ThreadTypes, PendingIsShown, Asks
  <2>4. OneQuestion'
    BY <1>3, <2>1, <2>2, Posted DEF WorkerAsks, app, shared, history,
       ScreenInv, ScreenTypes, AppTypes, SharedTypes, ThreadTypes, PendingIsShown, OneQuestion, Asks
  <2> QED
    BY <1>3, <2>1, <2>3, <2>4 DEF ScreenInv, WaitsForItsQuestion
<1>4. CASE WorkerAnswered
  BY <1>4 DEF WorkerAnswered, app, shared, ScreenInv, ScreenTypes, AppTypes, SharedTypes, ThreadTypes, PendingIsShown, OneQuestion,
     WaitsForItsQuestion
<1>5. CASE WorkerGivesUp
  BY <1>5 DEF WorkerGivesUp, app, shared, history, ScreenInv, ScreenTypes, AppTypes, SharedTypes, ThreadTypes, PendingIsShown,
     OneQuestion, WaitsForItsQuestion
<1>6. CASE WorkerEnds
  <2>1. PICK e \in Ends : queue' = Append(queue, Ended(e))
    BY <1>6 DEF WorkerEnds, Post
  <2>2. Ended(e) \in MessageType /\ Ended(e).kind # "ask"
    BY MessageTypes
  <2>3. ScreenTypes'
    BY <1>6, <2>1, <2>2, Posted DEF WorkerEnds, app, shared, history,
       ScreenInv, ScreenTypes, AppTypes, SharedTypes, ThreadTypes, PendingIsShown
  <2>4. OneQuestion'
    BY <1>6, <2>1, <2>2, Posted DEF WorkerEnds, app, shared, history,
       ScreenInv, ScreenTypes, AppTypes, SharedTypes, ThreadTypes, PendingIsShown, OneQuestion
  <2> QED
    BY <1>6, <2>3, <2>4 DEF WorkerEnds, ScreenInv, WaitsForItsQuestion
<1> QED
  BY <1>1, <1>2, <1>3, <1>4, <1>5, <1>6 DEF Worker

(* The keys: a prompt, a cancel, and the way out.                           *)
LEMMA ScreenKeys ==
  ASSUME ScreenInv, EndIsLast, Submit \/ Escape \/ Interrupt \/ Quit \/ Exit
  PROVE  ScreenInv'
<1> USE TuiAssumption
<1>1. CASE Submit
  <2>1. turns' \in 0..MaxTurns
    BY <1>1 DEF Submit, ScreenInv, ScreenTypes, AppTypes, SharedTypes, ThreadTypes, PendingIsShown
  <2>2. /\ UNCHANGED <<pending, modals, exiting, exited, queue, closing>>
        /\ UNCHANGED <<cancel, box, event, asks>>
        /\ running' = TRUE /\ requested' = FALSE
        /\ worker' = "starting" /\ deltas' = 0
    BY <1>1 DEF Submit, shared
  <2>3. queue = <<>> /\ modals = <<>>
    BY <1>1 DEF Submit, EndIsLast
  <2>4. ScreenTypes'
    <3>1. AppTypes'
      BY <2>1, <2>2
         DEF ScreenInv, ScreenTypes, AppTypes
    <3>2. SharedTypes'
      BY <2>1, <2>2
         DEF ScreenInv, ScreenTypes, SharedTypes
    <3>3. ThreadTypes'
      BY <2>1, <2>2
         DEF ScreenInv, ScreenTypes, ThreadTypes
    <3>4. PendingIsShown'
      BY <2>1, <2>2
         DEF ScreenInv, ScreenTypes, AppTypes, SharedTypes, ThreadTypes, PendingIsShown
    <3> QED
      BY <3>1, <3>2, <3>3, <3>4 DEF ScreenTypes
  <2>5. OneQuestion'
    BY <2>2, <2>3 DEF ScreenInv, OneQuestion
  <2> QED
    BY <2>2, <2>4, <2>5 DEF ScreenInv, WaitsForItsQuestion
<1>2. CASE Escape \/ Interrupt
  <2>1. /\ UNCHANGED <<running, pending, modals, exiting, exited, queue>>
        /\ UNCHANGED <<closing, box, event, worker, deltas, asks, turns>>
        /\ requested' = TRUE /\ cancel' = TRUE
    BY <1>2 DEF Escape, Interrupt, RequestCancel, thread
  <2>2. ScreenTypes'
    BY <2>1 DEF ScreenInv, ScreenTypes, AppTypes, SharedTypes, ThreadTypes, PendingIsShown
  <2>3. OneQuestion' /\ WaitsForItsQuestion'
    BY <2>1 DEF ScreenInv, OneQuestion, WaitsForItsQuestion
  <2> QED
    BY <2>2, <2>3 DEF ScreenInv
<1>3. ASSUME Shutdown
      PROVE  /\ closing' = TRUE /\ cancel' = TRUE /\ pending' = {}
             /\ box' \in [Asks -> Boxes] /\ event' \in [Asks -> BOOLEAN]
  BY <1>3 DEF Shutdown, ScreenInv, ScreenTypes, AppTypes, SharedTypes, ThreadTypes, PendingIsShown, Boxes
<1>4. CASE Quit \/ Exit
  <2>1. /\ UNCHANGED <<running, requested, queue, worker, deltas, asks, turns>>
        /\ exiting' \in BOOLEAN /\ exited' \in BOOLEAN
        /\ modals' \in Seq(Asks) /\ Len(modals') <= 1
    <3>1. CASE Quit
      BY <3>1 DEF Quit, thread, ScreenInv, ScreenTypes, AppTypes
    <3>2. CASE Exit
      BY <3>2, NoModal DEF Exit, thread, ScreenInv, ScreenTypes, AppTypes
    <3> QED
      BY <1>4, <3>1, <3>2
  <2>2. Shutdown
    BY <1>4 DEF Quit, Exit
  <2>3. ScreenTypes'
    BY <1>3, <2>1, <2>2 DEF ScreenInv, ScreenTypes, AppTypes, SharedTypes, ThreadTypes, PendingIsShown
  <2> QED
    BY <1>3, <2>1, <2>2, <2>3 DEF ScreenInv, OneQuestion, WaitsForItsQuestion
<1> QED
  BY <1>1, <1>2, <1>4

(* The messages the app handles, and the answer to a modal.                 *)
LEMMA ScreenMessages ==
  ASSUME ScreenInv, Handler \/ Answers
  PROVE  ScreenInv'
<1> USE TuiAssumption
<1>1. queue \in Seq(MessageType) /\ asks \in 0..MaxAsks
  BY DEF ScreenInv, ScreenTypes, AppTypes, SharedTypes, ThreadTypes, PendingIsShown
<1>2. CASE OnDelta \/ OnTurnEnded
  <2>1. queue # <<>> /\ queue' = Tail(queue)
    BY <1>2 DEF OnDelta, OnTurnEnded, Received
  <2>2. ScreenTypes'
    BY <1>1, <1>2, <2>1, Handled DEF OnDelta, OnTurnEnded, app, shared, thread,
       history, ScreenInv, ScreenTypes, AppTypes, SharedTypes, ThreadTypes, PendingIsShown
  <2>3. OneQuestion'
    BY <1>1, <1>2, <2>1, Handled DEF OnDelta, OnTurnEnded, app, shared, thread,
       history, ScreenInv, OneQuestion
  <2> QED
    BY <1>2, <2>2, <2>3 DEF OnDelta, OnTurnEnded, app, thread, ScreenInv,
       WaitsForItsQuestion
<1>3. CASE OnApprovalRequest
  <2> DEFINE i == Head(queue).ask
  <2>1. queue # <<>> /\ queue' = Tail(queue) /\ queue[1].kind = "ask"
        /\ i = queue[1].ask
    BY <1>1, <1>3, Handled DEF OnApprovalRequest, Received
  <2>2. CASE closing
    <3>1. /\ box' = [box EXCEPT ![i] = "no"]
          /\ event' = [event EXCEPT ![i] = TRUE]
          /\ UNCHANGED <<pending, modals, closing>>
      BY <1>3, <2>2 DEF OnApprovalRequest
    <3>2. ScreenTypes'
      <4>1. AppTypes'
        BY <1>1, <1>3, <2>1, <2>2, <3>1, Handled
           DEF OnApprovalRequest, thread, ScreenInv, ScreenTypes, Boxes, AppTypes
      <4>2. SharedTypes'
        BY <1>1, <1>3, <2>1, <2>2, <3>1, Handled
           DEF OnApprovalRequest, thread, ScreenInv, ScreenTypes, Boxes, SharedTypes
      <4>3. ThreadTypes'
        BY <1>1, <1>3, <2>1, <2>2, <3>1, Handled
           DEF OnApprovalRequest, thread, ScreenInv, ScreenTypes, Boxes, ThreadTypes
      <4>4. PendingIsShown'
        BY <1>1, <1>3, <2>1, <2>2, <3>1, Handled
           DEF OnApprovalRequest, thread, ScreenInv, ScreenTypes, Boxes, AppTypes, SharedTypes, ThreadTypes, PendingIsShown
      <4> QED
        BY <4>1, <4>2, <4>3, <4>4 DEF ScreenTypes
    <3> QED
      BY <1>3, <2>2, <3>1, <3>2 DEF OnApprovalRequest, thread, ScreenInv,
         OneQuestion, WaitsForItsQuestion
  <2>3. CASE ~closing
    <3>1. /\ pending' = pending \cup {i} /\ modals' = Append(modals, i)
          /\ UNCHANGED <<box, event, closing>>
      BY <1>3, <2>3 DEF OnApprovalRequest
    <3>2. /\ Len(queue) = 1 /\ i = asks /\ modals = <<>>
          /\ worker = "asking" /\ ~event[asks]
      BY <1>1, <2>1, <2>3, Handled DEF ScreenInv, OneQuestion
    <3>3. asks \in Asks
      BY <3>2 DEF ScreenInv, WaitsForItsQuestion
    <3>4. modals' = <<asks>> /\ pending' = {asks} /\ queue' = <<>>
      BY <1>1, <2>1, <2>3, <3>1, <3>2, <3>3, OneModal, NoModal, Handled
         DEF ScreenInv, ScreenTypes, AppTypes, SharedTypes, ThreadTypes, PendingIsShown
    <3>5. ScreenTypes'
      <4>1. AppTypes'
        BY <1>1, <1>3, <2>1, <3>1, <3>3, <3>4, OneModal, Handled
           DEF OnApprovalRequest, thread, ScreenInv, ScreenTypes, AppTypes
      <4>2. SharedTypes'
        BY <1>1, <1>3, <2>1, <3>1, <3>3, <3>4, OneModal, Handled
           DEF OnApprovalRequest, thread, ScreenInv, ScreenTypes, SharedTypes
      <4>3. ThreadTypes'
        BY <1>1, <1>3, <2>1, <3>1, <3>3, <3>4, OneModal, Handled
           DEF OnApprovalRequest, thread, ScreenInv, ScreenTypes, ThreadTypes
      <4>4. PendingIsShown'
        BY <1>1, <1>3, <2>1, <3>1, <3>3, <3>4, OneModal, Handled
           DEF OnApprovalRequest, thread, ScreenInv, ScreenTypes, AppTypes, SharedTypes, ThreadTypes, PendingIsShown
      <4> QED
        BY <4>1, <4>2, <4>3, <4>4 DEF ScreenTypes
    <3> QED
      BY <1>3, <3>1, <3>2, <3>4, <3>5 DEF OnApprovalRequest, thread, ScreenInv,
         OneQuestion, WaitsForItsQuestion
  <2> QED
    BY <2>2, <2>3
<1>4. CASE Answers
  <2>1. PICK yes \in BOOLEAN : AnswerModal(yes)
    BY <1>4 DEF Answers
  <2> DEFINE i == modals[Len(modals)]
  <2>2. /\ modals # <<>> /\ modals' = Front(modals) /\ pending' = pending \ {i}
        /\ box' = [box EXCEPT ![i] = IF yes THEN "yes" ELSE "no"]
        /\ event' = [event EXCEPT ![i] = TRUE]
    BY <2>1 DEF AnswerModal
  <2>3. PICK a \in Asks : modals = <<a>>
    <3>1. modals \in Seq(Asks) /\ Len(modals) <= 1 /\ modals # <<>>
      BY <2>2 DEF ScreenInv, ScreenTypes, AppTypes
    <3> QED
      BY <3>1, OnlyModal
  <2>4. modals' = <<>> /\ i = a
    BY <2>2, <2>3, OneModal
  <2>5. ScreenTypes'
    BY <2>1, <2>2, <2>3, <2>4, OneModal, NoModal DEF AnswerModal, thread,
       ScreenInv, ScreenTypes, AppTypes, SharedTypes, ThreadTypes, PendingIsShown, Boxes
  <2>6. OneQuestion'
    BY <2>1, <2>2, <2>3, <2>4 DEF AnswerModal, thread, ScreenInv,
       OneQuestion, WaitsForItsQuestion, ScreenTypes, AppTypes, SharedTypes, ThreadTypes, Asks
  <2> QED
    BY <2>1, <2>5, <2>6 DEF AnswerModal, thread, ScreenInv,
       WaitsForItsQuestion
<1> QED
  BY <1>2, <1>3, <1>4 DEF Handler

(* The end of a turn stays the last message of its worker.                  *)
LEMMA EndStaysLast ==
  ASSUME ScreenInv, EndIsLast, [Next]_vars
  PROVE  EndIsLast'
<1>1. queue \in Seq(MessageType)
  BY DEF ScreenInv, ScreenTypes, SharedTypes
<1>2. CASE WorkerEnters \/ WorkerAnswered \/ WorkerGivesUp
  BY <1>2 DEF WorkerEnters, WorkerAnswered, WorkerGivesUp, app, EndIsLast
<1>3. CASE WorkerPosts \/ WorkerAsks
  <2>1. PICK m \in MessageType : queue' = Append(queue, m) /\ m.kind \notin Ends
    <3>1. asks + 1 \in Asks \/ WorkerPosts
      BY <1>3, TuiAssumption DEF WorkerAsks, Asks, ScreenInv, ScreenTypes,
         ThreadTypes
    <3> QED
      BY <1>3, <3>1, MessageTypes DEF WorkerPosts, WorkerAsks, Post
  <2> QED
    BY <1>1, <1>3, <2>1, Posted DEF WorkerPosts, WorkerAsks, app, EndIsLast
<1>4. CASE WorkerEnds
  <2>1. PICK m \in MessageType : queue' = Append(queue, m) /\ m.kind \in Ends
    BY <1>4, MessageTypes DEF WorkerEnds, Post
  <2> QED
    BY <1>1, <1>4, <2>1, Posted DEF WorkerEnds, app, EndIsLast
<1>5. CASE Submit
  BY <1>5 DEF Submit, EndIsLast, Ends
<1>6. CASE Escape \/ Interrupt \/ Quit \/ Exit \/ Answers
  <2>1. UNCHANGED <<running, queue, worker>>
    BY <1>6 DEF Escape, Interrupt, RequestCancel, Quit, Exit, Answers,
       AnswerModal, thread
  <2> QED
    BY <2>1 DEF EndIsLast
<1>7. CASE OnDelta \/ OnApprovalRequest
  <2>1. /\ queue # <<>> /\ queue' = Tail(queue) /\ queue[1].kind \notin Ends
        /\ UNCHANGED <<running, worker>>
    BY <1>1, <1>7, Handled, MessageTypes DEF OnDelta, OnApprovalRequest,
       Received, app, thread
  <2> QED
    BY <1>1, <2>1, Handled DEF EndIsLast
<1>8. CASE OnTurnEnded
  <2>1. /\ queue # <<>> /\ queue' = Tail(queue) /\ queue[1].kind \in Ends
        /\ running' = FALSE /\ worker' = worker
    BY <1>1, <1>8, Handled DEF OnTurnEnded, Received, thread
  <2>2. worker = "off" /\ Len(queue) = 1
    BY <1>1, <2>1, Handled DEF EndIsLast
  <2> QED
    BY <1>1, <2>1, <2>2, Handled DEF EndIsLast
<1>9. CASE UNCHANGED vars
  BY <1>9 DEF vars, EndIsLast
<1> QED
  BY <1>2, <1>3, <1>4, <1>5, <1>6, <1>7, <1>8, <1>9 DEF Next, Worker, Handler

(* The invariant of the screen holds in every reachable state.              *)
LEMMA ScreenHolds == Spec => [](ScreenInv /\ EndIsLast)
<1>1. Init => ScreenInv /\ EndIsLast
  <2> SUFFICES ASSUME Init PROVE ScreenInv /\ EndIsLast
    OBVIOUS
  <2>1. modals = <<>> /\ queue = <<>>
    BY DEF Init
  <2>2. /\ modals \in Seq(Asks) /\ Len(modals) = 0 /\ ToSet(modals) = {}
        /\ queue \in Seq(MessageType)
    BY <2>1, NoModal, EmptySeq
  <2>3. /\ running \in BOOLEAN /\ requested \in BOOLEAN /\ pending = {}
        /\ exiting \in BOOLEAN /\ exited \in BOOLEAN
    BY DEF Init
  <2>4. AppTypes
    BY <2>2, <2>3 DEF AppTypes
  <2>5. PendingIsShown
    BY <2>2 DEF Init, PendingIsShown
  <2>6. SharedTypes
    BY <2>2, TuiAssumption DEF Init, SharedTypes, Boxes
  <2>7. ThreadTypes
    BY TuiAssumption DEF Init, ThreadTypes
  <2>8. OneQuestion /\ WaitsForItsQuestion /\ EndIsLast
    BY DEF Init, OneQuestion, WaitsForItsQuestion, EndIsLast
  <2> QED
    BY <2>4, <2>5, <2>6, <2>7, <2>8 DEF ScreenInv, ScreenTypes
<1>2. ScreenInv /\ EndIsLast /\ [Next]_vars => (ScreenInv /\ EndIsLast)'
  <2> SUFFICES ASSUME ScreenInv, EndIsLast, [Next]_vars
               PROVE  ScreenInv' /\ EndIsLast'
    OBVIOUS
  <2>1. CASE UNCHANGED vars
    BY <2>1, EndStaysLast DEF vars, ScreenInv, ScreenTypes, AppTypes,
       SharedTypes, ThreadTypes, PendingIsShown, OneQuestion,
       WaitsForItsQuestion
  <2> QED
    BY <2>1, ScreenWorker, ScreenKeys, ScreenMessages, EndStaysLast DEF Next
<1> QED
  BY <1>1, <1>2, PTL DEF Spec

(* The values of both threads stay in their types, the screen never shows   *)
(* two questions, and an approval is pending exactly while its modal is up. *)
THEOREM ScreenTypeCorrect == Spec => []TypeOK
<1>1. ScreenInv => TypeOK
  BY DEF ScreenInv, ScreenTypes, AppTypes, SharedTypes, ThreadTypes,
     PendingIsShown, TypeOK
<1> QED
  BY <1>1, ScreenHolds, PTL

(* What the answers and the flags of one turn leave of the next: the worker *)
(* takes a yes only from a box the user said yes into, and the flag it reads*)
(* was set for this turn or by a closing app.                               *)
AnswerInv == YesWasPressed /\ StaleCancelIsHarmless

(* Every step keeps the answers and the cancel flag those of their turn.    *)
LEMMA AnswersKept ==
  ASSUME ScreenInv, AnswerInv, [Next]_vars
  PROVE  AnswerInv'
<1>1. box \in [Asks -> Boxes] /\ (worker = "asking" => asks \in Asks)
  BY DEF ScreenInv, ScreenTypes, SharedTypes, WaitsForItsQuestion
<1>2. CASE Worker
  <2>1. CASE WorkerEnters \/ WorkerPosts
    BY <2>1 DEF WorkerEnters, WorkerPosts, app, history, AnswerInv,
       YesWasPressed, StaleCancelIsHarmless
  <2>2. CASE WorkerAsks \/ WorkerGivesUp \/ WorkerEnds
    <3>1. /\ UNCHANGED <<cancel, closing, wanted, box, granted, pressed>>
          /\ worker' \in {"running", "asking"} => worker \in {"running", "asking"}
      BY <2>2 DEF WorkerAsks, WorkerGivesUp, WorkerEnds, app, shared, history
    <3> QED
      BY <3>1 DEF AnswerInv, YesWasPressed, StaleCancelIsHarmless
  <2>3. CASE WorkerAnswered
    BY <1>1, <2>3 DEF WorkerAnswered, app, shared, AnswerInv, YesWasPressed,
       StaleCancelIsHarmless
  <2> QED
    BY <1>2, <2>1, <2>2, <2>3 DEF Worker
<1>3. CASE Submit \/ Escape \/ Interrupt
  BY <1>3 DEF Submit, Escape, Interrupt, RequestCancel, shared, thread,
     AnswerInv, YesWasPressed, StaleCancelIsHarmless
<1>4. CASE Quit \/ Exit
  <2>1. Shutdown /\ UNCHANGED <<worker, wanted, pressed, granted>>
    BY <1>4 DEF Quit, Exit, thread
  <2>2. \A i \in Asks : box'[i] = "yes" => box[i] = "yes"
    BY <2>1 DEF Shutdown
  <2> QED
    BY <2>1, <2>2 DEF Shutdown, AnswerInv, YesWasPressed, StaleCancelIsHarmless
<1>5. CASE OnDelta \/ OnTurnEnded
  BY <1>5 DEF OnDelta, OnTurnEnded, app, shared, thread, history, AnswerInv,
     YesWasPressed, StaleCancelIsHarmless
<1>6. CASE OnApprovalRequest
  <2>1. \A i \in Asks : box'[i] = "yes" => box[i] = "yes"
    BY <1>1, <1>6 DEF OnApprovalRequest
  <2> QED
    BY <1>6, <2>1 DEF OnApprovalRequest, thread, AnswerInv, YesWasPressed,
       StaleCancelIsHarmless
<1>7. CASE Answers
  <2>1. PICK yes \in BOOLEAN : AnswerModal(yes)
    BY <1>7 DEF Answers
  <2>2. \A i \in Asks : box'[i] = "yes" => i \in pressed'
    BY <1>1, <2>1 DEF AnswerModal, AnswerInv, YesWasPressed
  <2> QED
    BY <2>1, <2>2 DEF AnswerModal, thread, AnswerInv, YesWasPressed,
       StaleCancelIsHarmless
<1>8. CASE UNCHANGED vars
  BY <1>8 DEF vars, AnswerInv, YesWasPressed, StaleCancelIsHarmless
<1> QED
  BY <1>2, <1>3, <1>4, <1>5, <1>6, <1>7, <1>8 DEF Next, Handler

(* Nothing of one turn reaches into another, for any number of turns and    *)
(* approvals: the app takes no prompt while a worker is alive or its end is *)
(* still in the queue, no tool runs on a yes that was given to another call,*)
(* and no cancel of an earlier turn stops this one.                         *)
THEOREM TurnsAreApart == Spec => []TurnsStayApart
<1>1. Init => AnswerInv
  BY DEF Init, AnswerInv, YesWasPressed, StaleCancelIsHarmless
<1>2. ScreenInv /\ AnswerInv /\ [Next]_vars => AnswerInv'
  BY AnswersKept
<1>3. ScreenInv /\ EndIsLast /\ AnswerInv => TurnsStayApart
  <2> SUFFICES ASSUME ScreenInv, EndIsLast, AnswerInv PROVE TurnsStayApart
    OBVIOUS
  <2>1. queue # <<>> => Len(queue) \in 1..Len(queue)
    BY Handled DEF ScreenInv, ScreenTypes, SharedTypes
  <2>2. NoOverlap
    BY <2>1 DEF EndIsLast, NoOverlap
  <2> QED
    BY <2>2 DEF AnswerInv, YesWasPressed, TurnsStayApart, GrantedWasPressed
<1> QED
  BY <1>1, <1>2, <1>3, ScreenHolds, PTL DEF Spec
=============================================================================
