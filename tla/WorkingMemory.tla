---------------------------- MODULE WorkingMemory ----------------------------
(***************************************************************************)
(* The context-window arithmetic of memory/working.py: how many tokens the *)
(* conversation may use, which messages a request carries, and which       *)
(* prefix of the history compaction replaces with a summary.               *)
(*                                                                         *)
(* A message weighs its size, in characters, where its size matters.       *)
(* Positions are counted from 1 here and from 0 in the code: a cut of n    *)
(* splits the history into its first n messages and the rest.              *)
(***************************************************************************)
EXTENDS Integers, Sequences, Conversation

Least(a, b)    == IF a <= b THEN a ELSE b
Greatest(a, b) == IF a >= b THEN a ELSE b
Largest(S)     == CHOOSE x \in S : \A y \in S : y <= x

Suffix(msgs, i) == SubSeq(msgs, i, Len(msgs))

-----------------------------------------------------------------------------

(* The budget of the conversation: the window less the prompt overhead and  *)
(* the response headroom, the headroom clamped to half the window, floored  *)
(* at minimum, and only then clamped by the user's hard cap (0: no cap).    *)
ConversationBudget(window, overhead, reserve, output, hardCap, minimum) ==
  LET headroom == Least(reserve + output, window \div 2)
      derived  == Greatest(window - overhead - headroom, minimum)
  IN IF hardCap > 0 THEN Least(derived, hardCap) ELSE derived

(* ModelProvider.count_tokens: about four characters to the token.          *)
Chars(msgs) ==
  LET sum[i \in 0..Len(msgs)] == IF i = 0 THEN 0 ELSE sum[i - 1] + msgs[i].size
  IN sum[Len(msgs)]
Tokens(msgs) == Chars(msgs) \div 4

Fits(msgs, budget) == msgs = <<>> \/ Tokens(msgs) <= budget

(* A loop that looks at the messages it has, not at those it would have.    *)
KeptFromLate(msgs, budget) ==
  LET Stops(i) == i > 1 /\ Tokens(Suffix(msgs, i)) > budget
      from[i \in 1..Len(msgs)] ==
        IF i = 1 \/ Stops(i) THEN i ELSE from[i - 1]
  IN from[Len(msgs)]

(* The loop of fit: messages are taken from the end while the trial still   *)
(* fits; the last message is taken whatever it weighs.  from[i] is where    *)
(* the loop ends once it has taken the message at i.                        *)
KeptFrom(msgs, budget) ==
  LET Stops(i) == i > 1 /\ Tokens(Suffix(msgs, i - 1)) > budget
      from[i \in 1..Len(msgs)] ==
        IF i = 1 \/ Stops(i) THEN i ELSE from[i - 1]
  IN from[Len(msgs)]

(* The position of the first message of a request once the leading tool     *)
(* results are dropped, the last message never being dropped.               *)
PastOrphans(msgs, start) ==
  CHOOSE i \in start..Len(msgs) :
    /\ \A j \in start..(i - 1) : msgs[j].role = "tool"
    /\ i = Len(msgs) \/ msgs[i].role # "tool"

Fit(msgs, budget) ==
  IF Fits(msgs, budget)
  THEN msgs
  ELSE Suffix(msgs, PastOrphans(msgs, KeptFrom(msgs, budget)))

-----------------------------------------------------------------------------
(* The cut that forgets to walk back off the tool results it lands on.      *)
CutIndexNoWalkBack(msgs, keepRecent, protectFrom) ==
  Greatest(Least(Len(msgs) - keepRecent, protectFrom), 0)

(* The cut that keeps the current turn and forgets the recent messages.     *)
CutIndexAnyRecent(msgs, keepRecent, protectFrom) ==
  LET cut == Least(Len(msgs) - 1, protectFrom)
  IN IF cut <= 0 THEN 0
     ELSE Largest({c \in 0..cut : c = 0 \/ msgs[c + 1].role # "tool"})

(* Where compaction cuts a history that is over budget: the last keepRecent *)
(* messages and everything from protectFrom on are kept, and the cut walks  *)
(* back off any tool result, so that no result loses its call.              *)
CutIndex(msgs, keepRecent, protectFrom) ==
  LET cut == Least(Len(msgs) - keepRecent, protectFrom)
  IN IF cut <= 0 THEN 0
     ELSE Largest({c \in 0..cut : c = 0 \/ msgs[c + 1].role # "tool"})

CompactionCut(msgs, budget, keepRecent, protectFrom) ==
  IF Fits(msgs, budget) THEN 0
  ELSE CutIndex(msgs, keepRecent, protectFrom)

(* The compacted history: the summary, merged into the first kept message   *)
(* when that one is a user message, in front of everything that was kept.   *)
ApplySummary(rest) ==
  IF rest # <<>> /\ rest[1].role = "user"
  THEN <<[rest[1] EXCEPT !.sum = TRUE]>> \o Tail(rest)
  ELSE <<SummaryMsg>> \o rest
===============================================================================
