---------------------------- MODULE ContextWindow ----------------------------
(***************************************************************************)
(* How the history of a session is brought inside the context window of    *)
(* the model, request after request: Harness._context_budget,              *)
(* _compact_if_needed and _build_request (orchestration/loop.py) over the  *)
(* arithmetic of memory/working.py.  Here a message has a size, and the    *)
(* window and the prompt overhead change between requests, as they do when *)
(* the user switches model, a skill is activated or a tool server mounts.  *)
(*                                                                         *)
(* A turn may be cut short anywhere (HarnessTurn), so the next ask can     *)
(* follow an assistant message whose calls have no result yet.             *)
(***************************************************************************)
EXTENDS Integers, Sequences, Conversation, WorkingMemory

CONSTANTS
  Windows,         (* context windows of the models, in tokens              *)
  Overheads,       (* tokens of the system prompt and the tool catalogue    *)
  Reserve,         (* limits.context_reserve_tokens                         *)
  OutputCap,       (* max_output_tokens_for the model                       *)
  HardCaps,        (* limits.max_context_tokens; 0 is no cap                *)
  MinimumTokens,   (* MIN_CONVERSATION_TOKENS                               *)
  KeepRecent,      (* KEEP_RECENT                                           *)
  Sizes,           (* characters of a message                               *)
  SummarySize,     (* characters of a summary                               *)
  MaxAsked,        (* bound: tool calls of one message                      *)
  MaxLen           (* bound: messages of the history                        *)

ASSUME WindowAssumption ==
  /\ Windows \subseteq Nat /\ Overheads \subseteq Nat /\ HardCaps \subseteq Nat
  /\ Reserve \in Nat /\ OutputCap \in Nat /\ MinimumTokens \in Nat
  /\ KeepRecent \in Nat \ {0}
  /\ Sizes \subseteq Nat /\ SummarySize \in Nat
  /\ MaxAsked \in Nat /\ MaxLen \in Nat

VARIABLES
  history,       (* AgentState.messages, each with its size                 *)
  turnStart,     (* where the running turn began, as _run_turn recorded it  *)
  window, overhead, hardCap,
  request        (* the last request: its messages and what it was cut for  *)

windowVars == <<history, turnStart, window, overhead, hardCap, request>>

Sized(m, size) ==
  [role |-> m.role, text |-> m.text, turn |-> m.turn, calls |-> m.calls,
   call |-> m.call, parts |-> m.parts, sum |-> m.sum, size |-> size]

NoRequest == [msgs |-> <<>>, budget |-> 0, window |-> 0, overhead |-> 0]

Budget ==
  ConversationBudget(window, overhead, Reserve, OutputCap, hardCap,
                     MinimumTokens)

WindowInit ==
  /\ history = <<>> /\ turnStart = 0 /\ request = NoRequest
  /\ window \in Windows /\ overhead \in Overheads /\ hardCap \in HardCaps

-----------------------------------------------------------------------------
Settings == <<window, overhead, hardCap>>

(* The calls of the last assistant message that wait for a result.          *)
OpenCall ==
  LET n == Len(history)
      a == IF n > 0 /\ history[n].role = "tool" THEN n - history[n].call ELSE n
  IN IF n > 0 /\ history[a].calls > n - a THEN n - a + 1 ELSE 0

(* A new turn: its ask joins the history.                                   *)
Ask ==
  /\ Len(history) < MaxLen
  /\ \E size \in Sizes : history' = Append(history, Sized(AskMsg(0), size))
  /\ turnStart' = Len(history)
  /\ request' = NoRequest
  /\ UNCHANGED Settings

(* The answer to the last request.                                          *)
Answer ==
  /\ Len(history) < MaxLen /\ request # NoRequest
  /\ \E size \in Sizes, n \in 0..MaxAsked :
       history' = Append(history, Sized(AssistantMsg(0, n, 1), size))
  /\ request' = NoRequest
  /\ UNCHANGED <<Settings, turnStart>>

Result ==
  /\ Len(history) < MaxLen /\ OpenCall > 0
  /\ \E size \in Sizes :
       history' = Append(history, Sized(ToolMsg(0, OpenCall), size))
  /\ UNCHANGED <<Settings, turnStart, request>>

(* The compacted history with its summary weighed.                          *)
Summarized(rest) ==
  LET msgs   == ApplySummary(rest)
      merged == Len(msgs) = Len(rest)
  IN [msgs EXCEPT ![1] =
        Sized(@, SummarySize + (IF merged THEN rest[1].size ELSE 0))]

Requested(msgs) == [msgs |-> Fit(msgs, Budget), budget |-> Budget,
                    window |-> window, overhead |-> overhead]

(* The history the request is built from: the prefix before the cut is      *)
(* summarized, unless nothing is old enough or the summarizer fails.        *)
Prepared ==
  LET cut == CompactionCut(history, Budget, KeepRecent, turnStart)
  IN {history} \cup (IF cut = 0 THEN {}
                     ELSE {Summarized(Suffix(history, cut + 1))})

(* One step of the loop: the largest recent part of the history that fits   *)
(* goes out.                                                                *)
SendRequest ==
  /\ history # <<>> /\ OpenCall = 0 /\ request = NoRequest
  /\ history[Len(history)].role # "assistant"
  /\ \E msgs \in Prepared : history' = msgs /\ request' = Requested(msgs)
  /\ UNCHANGED <<Settings, turnStart>>

(* set_model, a skill, a tool server: the next request has another budget.  *)
Reconfigure ==
  /\ window' \in Windows /\ overhead' \in Overheads
  /\ <<window', overhead'>> # <<window, overhead>>
  /\ UNCHANGED <<history, turnStart, hardCap, request>>

WindowNext == Ask \/ Answer \/ Result \/ SendRequest \/ Reconfigure

WindowSpec == WindowInit /\ [][WindowNext]_windowVars
-----------------------------------------------------------------------------
Sent == request.msgs

(* A request of several messages never exceeds the budget it was cut for.   *)
RequestFits == Len(Sent) > 1 => Tokens(Sent) <= request.budget

(* The request, the prompt it rides on and the headroom of the answer share *)
(* the model's window, whenever the window is not so small that the floor   *)
(* of the budget applies: no token of it is promised twice.                 *)
Headroom(w) ==
  IF Reserve + OutputCap <= w \div 2 THEN Reserve + OutputCap ELSE w \div 2

WindowHonoured ==
  (Len(Sent) > 1 /\ request.budget > MinimumTokens) =>
    Tokens(Sent) + request.overhead + Headroom(request.window)
      <= request.window

(* Nothing is dropped that would have fitted: what stands before the        *)
(* request in the history is either too much for the budget, or a tool      *)
(* result whose call is.                                                    *)
NothingDroppedInVain ==
  Sent # <<>> =>
    LET start == Len(history) - Len(Sent) + 1
    IN \A i \in 1..(start - 1) :
         \/ Tokens(Suffix(history, i)) > request.budget
         \/ \A j \in i..(start - 1) : history[j].role = "tool"

(* What the model reads is a history a provider accepts: the results it     *)
(* carries follow the message that asked for them.  (A request cut down to  *)
(* one message may be a lone result.)                                       *)
RequestAnchored == Len(Sent) > 1 => Anchored(Sent)

(* However the window, the prompt and the history change between requests,  *)
(* each request is as large as it may be, no larger, and well formed.       *)
RequestIsSound ==
  RequestFits /\ WindowHonoured /\ NothingDroppedInVain /\ RequestAnchored

(* Compaction never takes one of the last KeepRecent messages.              *)
RecentSurvive ==
  [][Len(history') # Len(history) + 1 =>
       \A k \in 0..(KeepRecent - 1) :
         k < Len(history) =>
           LET old == history[Len(history) - k]
               new == history'[Len(history') - k]
           IN /\ Len(history') > k
              /\ new.role = old.role /\ new.call = old.call
              /\ new.size # old.size => new.sum /\ k = Len(history') - 1]_history

(* However often the history is compacted, a result in it follows its call. *)
BlocksSurvive == Anchored(history)

(* Compaction after compaction, the history stays well formed and its       *)
(* recent end stays whole.                                                  *)
CompactionIsSound == []BlocksSurvive /\ RecentSurvive

-----------------------------------------------------------------------------
===============================================================================
