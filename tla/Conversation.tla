----------------------------- MODULE Conversation -----------------------------
(***************************************************************************)
(* The conversation the harness keeps in AgentState.messages: who wrote a  *)
(* message and what kind of message it is.  The text of a message is       *)
(* abstracted to its kind.  The tool calls of one assistant message are    *)
(* numbered 1..calls, and a tool result carries the number of the call it  *)
(* answers, which stands for Message.tool_call_id.                         *)
(***************************************************************************)
EXTENDS Integers, Sequences

Roles == {"user", "assistant", "tool"}

(* "ask": what the user typed; "continue": CONTINUE_PROMPT; "answer": text  *)
(* of the model; "refusal": the ingress guardrail's; "result": a tool       *)
(* observation; "summary": a compaction summary that stands alone.          *)
Texts == {"ask", "continue", "answer", "refusal", "result", "summary"}

(* turn: the user turn that wrote it.  parts: how many pieces of model text *)
(* it is joined from.  sum: a compaction summary was merged in front of it. *)
Message == [role: Roles, text: Texts, turn: Nat, calls: Nat, call: Nat,
            parts: Nat, sum: BOOLEAN]

PlainMsg(role, text, t) ==
  [role |-> role, text |-> text, turn |-> t, calls |-> 0, call |-> 0,
   parts |-> 0, sum |-> FALSE]

AskMsg(t)      == PlainMsg("user", "ask", t)
ContinueMsg(t) == PlainMsg("user", "continue", t)
RefusalMsg(t)  == PlainMsg("assistant", "refusal", t)

AssistantMsg(t, calls, parts) ==
  [PlainMsg("assistant", "answer", t) EXCEPT !.calls = calls, !.parts = parts]

ToolMsg(t, call) == [PlainMsg("tool", "result", t) EXCEPT !.call = call]

SummaryMsg == [PlainMsg("user", "summary", 0) EXCEPT !.sum = TRUE]

-----------------------------------------------------------------------------
(* The tool result at position i is anchored when the messages before it    *)
(* are the results of the calls before its own and, in front of them, the   *)
(* assistant message that made the calls.  This is what a provider requires *)
(* of a tool_result.                                                        *)
AnchoredAt(msgs, i) ==
  LET c == msgs[i].call
      a == i - c
  IN /\ c >= 1 /\ a >= 1
     /\ msgs[a].role = "assistant"
     /\ msgs[a].calls >= c
     /\ \A j \in (a + 1)..i : msgs[j].role = "tool" /\ msgs[j].call = j - a

Anchored(msgs) ==
  \A i \in 1..Len(msgs) : msgs[i].role = "tool" => AnchoredAt(msgs, i)

(* The assistant message at position i asked for tools, and the history     *)
(* does not hold a result for each of its calls.                            *)
UnansweredAt(msgs, i) ==
  /\ msgs[i].role = "assistant"
  /\ \E c \in 1..msgs[i].calls :
       \/ i + c > Len(msgs)
       \/ msgs[i + c].role # "tool"

(* The messages of the turn t that are still in the history.                *)
Holds(msgs, text, t) ==
  \E i \in 1..Len(msgs) : msgs[i].text = text /\ msgs[i].turn = t

HeadIsSummary(msgs) == Len(msgs) > 0 /\ msgs[1].sum
===============================================================================
