-------------------------- MODULE HarnessTurnProofs --------------------------
(***************************************************************************)
(* What holds of a session for every value of the constants of HarnessTurn:*)
(* whatever order compactions, continuations, batches, cancels, aborts,    *)
(* abandoned turns and crashes come in.                                    *)
(*                                                                         *)
(* First what the operators of Conversation and WorkingMemory return for   *)
(* every history: the cut lies inside the history and never in front of a  *)
(* tool result, and the parts of a history, and a history whose beginning  *)
(* was summarized, are histories again.  Then the types, the bounds and    *)
(* the accounts of a turn, and last the history it leaves behind.          *)
(***************************************************************************)
EXTENDS HarnessTurn, WellFoundedInduction, SequenceTheorems, TLAPS

(* Every nonempty set of numbers below a bound has a largest element, so    *)
(* the CHOOSE of Largest picks it.                                          *)
LEMMA LargestIsMember ==
  ASSUME NEW n \in Nat, NEW S \in SUBSET (0..n), S # {}
  PROVE  Largest(S) \in S /\ \A y \in S : y <= Largest(S)
<1> DEFINE T == {k \in 0..n : n - k \in S}
<1>1. PICK e \in S : TRUE
  OBVIOUS
<1>2. n - e \in T
  BY <1>1
<1>3. T \subseteq Nat /\ T # {}
  BY <1>2
<1>4. PICK x \in T : \A y \in T : ~(<<y, x>> \in OpToRel(<, Nat))
  <2> HIDE DEF T
  <2> QED
    BY <1>3, NatLessThanWellFounded, WFMin
<1>5. ASSUME NEW y \in T PROVE x <= y
  <2>1. x \in Nat /\ y \in Nat
    BY <1>3, <1>4
  <2>2. y < x => <<y, x>> \in OpToRel(<, Nat)
    BY <2>1 DEF OpToRel
  <2> HIDE DEF T
  <2>3. ~(y < x)
    BY <1>4, <2>2
  <2> QED
    BY <2>1, <2>3
<1>6. n - x \in S
  BY <1>4
<1>7. ASSUME NEW y \in S PROVE y <= n - x
  <2>1. n - y \in T
    BY <1>7
  <2>2. x <= n - y
    BY <1>5, <2>1
  <2>3. x \in 0..n /\ y \in 0..n
    BY <1>4
  <2> HIDE DEF T
  <2> QED
    BY <2>2, <2>3
<1> HIDE DEF T
<1>8. \E z \in S : \A y \in S : y <= z
  BY <1>6, <1>7
<1> QED
  BY <1>8 DEF Largest

(* compaction_cut: the cut keeps the last k messages and everything from p  *)
(* on, and the first kept message is not a tool result.                     *)
LEMMA CutIndexProperties ==
  ASSUME NEW msgs \in Seq(Message), NEW k \in Nat \ {0}, NEW p \in Nat
  PROVE  /\ CutIndex(msgs, k, p) \in 0..Len(msgs)
         /\ CutIndex(msgs, k, p) # 0 =>
              /\ CutIndex(msgs, k, p) <= Len(msgs) - k
              /\ CutIndex(msgs, k, p) <= p
              /\ msgs[CutIndex(msgs, k, p) + 1].role # "tool"
<1> DEFINE cut == Least(Len(msgs) - k, p)
           C == {c \in 0..cut : c = 0 \/ msgs[c + 1].role # "tool"}
<1>1. Len(msgs) \in Nat
  OBVIOUS
<1>2. cut \in Int /\ cut <= Len(msgs) - k /\ cut <= p
  BY <1>1 DEF Least
<1>3. CASE cut <= 0
  BY <1>1, <1>3 DEF CutIndex
<1>4. CASE cut > 0
  <2>1. CutIndex(msgs, k, p) = Largest(C)
    BY <1>2, <1>4 DEF CutIndex
  <2>2. cut \in Nat /\ C \in SUBSET (0..cut) /\ 0 \in C
    BY <1>2, <1>4
  <2> HIDE DEF C
  <2>3. Largest(C) \in C
    BY <2>2, LargestIsMember
  <2>4. Largest(C) \in 0..cut
        /\ (Largest(C) = 0 \/ msgs[Largest(C) + 1].role # "tool")
    BY <2>3 DEF C
  <2> HIDE DEF cut
  <2> QED
    BY <1>1, <1>2, <2>1, <2>2, <2>4
<1> QED
  BY <1>2, <1>3, <1>4

-----------------------------------------------------------------------------
(* A suffix of a history is a history.                                      *)
LEMMA SuffixProperties ==
  ASSUME NEW msgs \in Seq(Message), NEW i \in 1..(Len(msgs) + 1)
  PROVE  /\ Suffix(msgs, i) \in Seq(Message)
         /\ Len(Suffix(msgs, i)) = Len(msgs) - i + 1
         /\ \A j \in 1..(Len(msgs) - i + 1) : Suffix(msgs, i)[j] = msgs[i + j - 1]
<1>1. Len(msgs) \in Nat /\ \A j \in 1..Len(msgs) : msgs[j] \in Message
  BY ElementOfSeq
<1> QED
  BY <1>1, SubSeqProperties DEF Suffix

(* So is the beginning of one.                                              *)
LEMMA PrefixProperties ==
  ASSUME NEW msgs \in Seq(Message), NEW n \in 0..Len(msgs)
  PROVE  /\ SubSeq(msgs, 1, n) \in Seq(Message)
         /\ Len(SubSeq(msgs, 1, n)) = n
         /\ \A j \in 1..n : SubSeq(msgs, 1, n)[j] = msgs[j]
<1>1. Len(msgs) \in Nat /\ \A j \in 1..Len(msgs) : msgs[j] \in Message
  BY ElementOfSeq
<1> QED
  BY <1>1, SubSeqProperties

(* The messages the harness writes.                                         *)
LEMMA MessageTypes ==
  /\ SummaryMsg \in Message
  /\ \A t \in Nat : /\ AskMsg(t) \in Message /\ AskMsg(t).role = "user"
                    /\ ContinueMsg(t) \in Message /\ ContinueMsg(t).role = "user"
                    /\ RefusalMsg(t) \in Message /\ RefusalMsg(t).role = "assistant"
  /\ \A t, c, n \in Nat : /\ AssistantMsg(t, c, n) \in Message
                          /\ AssistantMsg(t, c, n).role = "assistant"
                          /\ AssistantMsg(t, c, n).calls = c
  /\ \A t, c \in Nat : /\ ToolMsg(t, c) \in Message
                       /\ ToolMsg(t, c).role = "tool" /\ ToolMsg(t, c).call = c
BY DEF SummaryMsg, AskMsg, ContinueMsg, RefusalMsg, AssistantMsg, ToolMsg,
       PlainMsg, Message, Roles, Texts
-----------------------------------------------------------------------------
(* Two messages that say the same: they differ at most in the summary that  *)
(* was merged in front of one of them.                                      *)
SaysTheSame(x, y) ==
  /\ x.role = y.role /\ x.text = y.text /\ x.turn = y.turn
  /\ x.calls = y.calls /\ x.call = y.call /\ x.parts = y.parts

(* The positions of n beyond e hold what m holds d positions later.         *)
Moved(m, n, d, e) ==
  \A j \in 1..Len(n) :
    j > e => j + d \in 1..Len(m) /\ SaysTheSame(n[j], m[j + d])

(* A history grows at its end.                                              *)
LEMMA AppendedHistory ==
  ASSUME NEW m \in Seq(Message), NEW x \in Message
  PROVE  /\ Append(m, x) \in Seq(Message)
         /\ Len(m) \in Nat /\ Len(Append(m, x)) = Len(m) + 1
         /\ \A j \in 1..Len(m) : Append(m, x)[j] = m[j]
         /\ Append(m, x)[Len(m) + 1] = x
BY AppendProperties

(* Two messages joined at once are two messages joined one by one.          *)
LEMMA TwoAppended ==
  ASSUME NEW m \in Seq(Message), NEW x \in Message, NEW y \in Message
  PROVE  m \o <<x, y>> = Append(Append(m, x), y)
<1> DEFINE l == m \o <<x, y>>
           r == Append(Append(m, x), y)
<1>1. /\ l \in Seq(Message) /\ Len(l) = Len(m) + 2 /\ Len(m) \in Nat
      /\ \A j \in 1..(Len(m) + 2) :
           l[j] = IF j <= Len(m) THEN m[j] ELSE <<x, y>>[j - Len(m)]
  <2>1. <<x, y>> \in Seq(Message) /\ Len(<<x, y>>) = 2
    OBVIOUS
  <2> QED
    BY <2>1, ConcatProperties
<1>2. /\ r \in Seq(Message) /\ Len(r) = Len(m) + 2
      /\ \A j \in 1..Len(m) : r[j] = m[j]
      /\ r[Len(m) + 1] = x /\ r[Len(m) + 2] = y
  BY AppendProperties
<1>3. l[Len(m) + 1] = x /\ l[Len(m) + 2] = y
  BY <1>1
<1> HIDE DEF l, r
<1>4. \A j \in 1..(Len(m) + 2) : l[j] = r[j]
  BY <1>1, <1>2, <1>3
<1>5. l = r
  BY <1>1, <1>2, <1>4, SeqEqual
<1> QED
  BY <1>5 DEF l, r

(* A tool result that was anchored stays so where its history is moved, as  *)
(* long as the part that moves does not begin with a tool result.           *)
LEMMA AnchoredMoves ==
  ASSUME NEW m \in Seq(Message), NEW n \in Seq(Message), NEW d \in Nat,
         NEW e \in Nat, Moved(m, n, d, e),
         e + d = 0 \/ m[e + d + 1].role # "tool",
         NEW i \in 1..Len(n), i > e, AnchoredAt(m, i + d)
  PROVE  AnchoredAt(n, i)
<1>1. /\ Len(n) \in Nat /\ Len(m) \in Nat /\ i \in Nat
      /\ i + d \in 1..Len(m) /\ m[i + d] \in Message
      /\ n[i].call = m[i + d].call
  BY ElementOfSeq DEF Moved, SaysTheSame
<1>2. PICK c \in Nat : c = m[i + d].call
  <2>1. m[i + d].call \in Nat
    BY <1>1 DEF Message
  <2> QED
    BY <2>1
<1>3. PICK a \in Int : a = i + d - c
  BY <1>1
<1>4. /\ c >= 1 /\ a >= 1 /\ m[a].role = "assistant" /\ m[a].calls >= c
      /\ \A j \in (a + 1)..(i + d) : m[j].role = "tool" /\ m[j].call = j - a
  <2>1. PICK k \in Int : k = i + d
    BY <1>1
  <2>2. m[k].call = c /\ a = k - c /\ AnchoredAt(m, k)
    BY <1>2, <1>3, <2>1
  <2>3. /\ c >= 1 /\ a >= 1 /\ m[a].role = "assistant" /\ m[a].calls >= c
        /\ \A j \in (a + 1)..k : m[j].role = "tool" /\ m[j].call = j - a
    BY <2>2 DEF AnchoredAt
  <2> QED
    BY <2>1, <2>3
<1>5. Len(n) \in Nat /\ i \in 1..Len(n) /\ i \in Nat /\ c >= 1 /\ a >= 1
  BY <1>1, <1>4
<1>6. a >= e + d + 1
  <2>1. SUFFICES ASSUME a < e + d + 1 PROVE FALSE
    OBVIOUS
  <2>2. e + d + 1 \in (a + 1)..(i + d)
    BY <1>5, <2>1
  <2>3. e + d # 0
    BY <1>5, <2>1
  <2> QED
    BY <1>4, <2>2, <2>3
<1>7. /\ i - c \in 1..Len(n) /\ i - c > e /\ (i - c) + d = a
  BY <1>3, <1>5, <1>6
<1>8. n[i - c].role = "assistant" /\ n[i - c].calls >= c
  BY <1>4, <1>7 DEF Moved, SaysTheSame
<1>9. ASSUME NEW j \in ((i - c) + 1)..i
      PROVE  n[j].role = "tool" /\ n[j].call = j - (i - c)
  <2>1. j \in Int /\ j > i - c /\ j <= i
    BY <1>5
  <2>2. j \in 1..Len(n) /\ j > e
    BY <1>5, <1>7, <2>1
  <2>3. j + d \in (a + 1)..(i + d) /\ (j + d) - a = j - (i - c)
    BY <1>3, <1>5, <2>1
  <2>4. n[j].role = m[j + d].role /\ n[j].call = m[j + d].call
    BY <2>2 DEF Moved, SaysTheSame
  <2> QED
    BY <1>4, <2>3, <2>4
<1>10. n[i].call = c
  BY <1>1, <1>2
<1> QED
  BY <1>4, <1>7, <1>8, <1>9, <1>10 DEF AnchoredAt

(* A history whose results are anchored may grow by a message that is not a *)
(* result, or by one that is anchored.                                      *)
LEMMA AnchoredAppend ==
  ASSUME NEW m \in Seq(Message), NEW x \in Message, Anchored(m),
         x.role = "tool" => AnchoredAt(Append(m, x), Len(m) + 1)
  PROVE  Anchored(Append(m, x))
<1> DEFINE n == Append(m, x)
<1>1. /\ n \in Seq(Message) /\ Len(m) \in Nat /\ Len(n) = Len(m) + 1
      /\ \A j \in 1..Len(m) : n[j] = m[j]
      /\ n[Len(m) + 1] = x
  BY AppendedHistory
<1> HIDE DEF n
<1>2. ASSUME NEW i \in 1..Len(n), n[i].role = "tool"
      PROVE  AnchoredAt(n, i)
  <2>1. CASE i = Len(m) + 1
    BY <1>1, <1>2, <2>1 DEF n
  <2>2. CASE i # Len(m) + 1
    <3>1. i \in 1..Len(m) /\ m[i].role = "tool"
      BY <1>1, <1>2, <2>2
    <3>2. AnchoredAt(m, i)
      BY <3>1 DEF Anchored
    <3>3. m[i] \in Message
      BY <3>1, ElementOfSeq
    <3>4. n[i].call = m[i].call /\ m[i].call \in Nat
      BY <1>1, <3>1, <3>3 DEF Message
    <3> DEFINE a == i - m[i].call
    <3>5. /\ m[i].call >= 1 /\ a >= 1 /\ m[a].role = "assistant"
          /\ m[a].calls >= m[i].call
          /\ \A j \in (a + 1)..i : m[j].role = "tool" /\ m[j].call = j - a
      BY <3>2 DEF AnchoredAt
    <3>6. a \in 1..Len(m) /\ \A j \in (a + 1)..i : j \in 1..Len(m)
      BY <1>1, <3>1, <3>4, <3>5
    <3>7. /\ n[a].role = "assistant" /\ n[a].calls >= m[i].call
          /\ \A j \in (a + 1)..i : n[j].role = "tool" /\ n[j].call = j - a
      BY <1>1, <3>5, <3>6
    <3> QED
      BY <3>4, <3>5, <3>7 DEF AnchoredAt
  <2> QED
    BY <2>1, <2>2
<1> QED
  BY <1>2 DEF Anchored, n

(* The beginning of a history keeps its results anchored.                   *)
LEMMA AnchoredPrefix ==
  ASSUME NEW m \in Seq(Message), NEW k \in 0..Len(m), Anchored(m)
  PROVE  Anchored(SubSeq(m, 1, k))
<1> DEFINE n == SubSeq(m, 1, k)
<1>1. n \in Seq(Message) /\ Len(n) = k /\ \A j \in 1..k : n[j] = m[j]
  BY PrefixProperties
<1>2. Len(m) \in Nat
  OBVIOUS
<1> HIDE DEF n
<1>3. Moved(m, n, 0, 0)
  BY <1>1, <1>2 DEF Moved, SaysTheSame
<1>4. ASSUME NEW i \in 1..Len(n), n[i].role = "tool"
      PROVE  AnchoredAt(n, i)
  <2>1. i \in 1..Len(m) /\ m[i].role = "tool" /\ i + 0 = i /\ i > 0
    BY <1>1, <1>2, <1>4
  <2>2. AnchoredAt(m, i)
    BY <2>1 DEF Anchored
  <2>3. PICK d \in Nat : d = 0 /\ i + d = i /\ 0 + d = 0
    BY <2>1
  <2>4. AnchoredAt(m, i + d) /\ Moved(m, n, d, 0)
    BY <1>3, <2>2, <2>3
  <2> QED
    BY <1>1, <2>1, <2>3, <2>4, AnchoredMoves
<1> QED
  BY <1>4 DEF Anchored, n

-----------------------------------------------------------------------------
(* Compaction moves what it keeps, and puts the summary at the head.        *)
LEMMA CompactedHistory ==
  ASSUME NEW m \in Seq(Message), NEW cut \in Nat, cut > 0, cut < Len(m)
  PROVE  LET n == ApplySummary(Suffix(m, cut + 1))
         IN /\ n \in Seq(Message) /\ HeadIsSummary(n)
            /\ \E d \in Nat, e \in Nat :
                 /\ d + e = cut /\ Len(n) + d = Len(m)
                 /\ Moved(m, n, d, e)
                 /\ \A j \in 1..Len(n) : j <= e => n[j] = SummaryMsg
<1> DEFINE s == Suffix(m, cut + 1)
           n == ApplySummary(s)
<1>1. Len(m) \in Nat /\ cut + 1 \in 1..(Len(m) + 1)
  OBVIOUS
<1>2. /\ s \in Seq(Message) /\ Len(s) = Len(m) - cut
      /\ \A j \in 1..(Len(m) - cut) : s[j] = m[j + cut]
  <2>1. /\ s \in Seq(Message) /\ Len(s) = Len(m) - (cut + 1) + 1
        /\ \A j \in 1..(Len(m) - (cut + 1) + 1) : s[j] = m[(cut + 1) + j - 1]
    BY <1>1, SuffixProperties
  <2>2. Len(m) - (cut + 1) + 1 = Len(m) - cut
    BY <1>1
  <2> HIDE DEF s
  <2>3. ASSUME NEW j \in 1..(Len(m) - cut) PROVE s[j] = m[j + cut]
    <3>1. (cut + 1) + j - 1 = j + cut /\ j \in 1..(Len(m) - (cut + 1) + 1)
      BY <1>1, <2>2
    <3>2. s[j] = m[(cut + 1) + j - 1]
      BY <2>1, <3>1
    <3> QED
      BY <3>1, <3>2
  <2>4. Len(s) = Len(m) - cut
    BY <2>1, <2>2
  <2> QED
    BY <2>1, <2>3, <2>4
<1> HIDE DEF s
<1>3. Len(s) \in Nat /\ Len(s) > 0 /\ s # <<>>
  BY <1>1, <1>2, EmptySeq
<1>4. CASE s[1].role = "user"
  <2>1. s[1] \in Message /\ Tail(s) \in Seq(Message) /\ Len(Tail(s)) = Len(s) - 1
        /\ \A j \in 1..(Len(s) - 1) : Tail(s)[j] = s[j + 1]
    BY <1>2, <1>3, HeadTailProperties, ElementOfSeq
  <2> DEFINE h == [s[1] EXCEPT !.sum = TRUE]
  <2>2. h \in Message /\ h.sum /\ SaysTheSame(h, s[1])
    BY <2>1 DEF Message, SaysTheSame
  <2>3. n = <<h>> \o Tail(s)
    BY <1>3, <1>4 DEF ApplySummary
  <2> HIDE DEF h
  <2>4. /\ n \in Seq(Message) /\ Len(n) = Len(s) /\ n[1] = h
        /\ \A j \in 2..Len(s) : n[j] = s[j]
    <3>1. <<h>> \in Seq(Message) /\ Len(<<h>>) = 1 /\ <<h>>[1] = h
      BY <2>2
    <3>2. /\ n \in Seq(Message) /\ Len(n) = 1 + Len(Tail(s))
          /\ \A j \in 1..Len(n) : n[j] = IF j <= 1 THEN <<h>>[j] ELSE Tail(s)[j - 1]
      BY <2>1, <2>3, <3>1, ConcatProperties
    <3> HIDE DEF n
    <3> QED
      BY <1>3, <2>1, <3>1, <3>2
  <2> HIDE DEF n
  <2>5. \A j \in 1..Len(n) : SaysTheSame(n[j], s[j])
    <3>1. \A j \in 2..Len(s) : SaysTheSame(n[j], s[j])
      BY <2>4 DEF SaysTheSame
    <3> QED
      BY <1>3, <2>2, <2>4, <3>1
  <2>6. Moved(m, n, cut, 0)
    <3>1. \A j \in 1..Len(n) : j + cut \in 1..Len(m) /\ s[j] = m[j + cut]
      BY <1>1, <1>2, <2>4
    <3> QED
      BY <2>5, <3>1 DEF Moved
  <2>7. HeadIsSummary(n)
    BY <1>3, <2>2, <2>4 DEF HeadIsSummary
  <2>8. cut + 0 = cut /\ Len(n) + cut = Len(m)
        /\ \A j \in 1..Len(n) : ~(j <= 0)
    BY <1>1, <1>2, <2>4
  <2>9. \E d \in Nat, e \in Nat :
          /\ d + e = cut /\ Len(n) + d = Len(m)
          /\ Moved(m, n, d, e)
          /\ \A j \in 1..Len(n) : j <= e => n[j] = SummaryMsg
    BY <2>6, <2>8
  <2> QED
    BY <2>4, <2>7, <2>9 DEF n, s
<1>5. CASE s[1].role # "user"
  <2>1. n = <<SummaryMsg>> \o s
    BY <1>5 DEF ApplySummary
  <2>2. SummaryMsg \in Message /\ SummaryMsg.sum
    BY MessageTypes DEF SummaryMsg, PlainMsg
  <2>3. /\ n \in Seq(Message) /\ Len(n) = Len(s) + 1 /\ n[1] = SummaryMsg
        /\ \A j \in 2..(Len(s) + 1) : n[j] = s[j - 1]
    <3>1. /\ <<SummaryMsg>> \in Seq(Message) /\ Len(<<SummaryMsg>>) = 1
          /\ <<SummaryMsg>>[1] = SummaryMsg
      BY <2>2
    <3>2. <<SummaryMsg>> \o s \in Seq(Message)
      BY <1>2, <3>1, ConcatProperties
    <3>3. /\ Len(<<SummaryMsg>> \o s) = 1 + Len(s)
          /\ \A j \in 1..(1 + Len(s)) :
               (<<SummaryMsg>> \o s)[j] = IF j <= 1 THEN <<SummaryMsg>>[j] ELSE s[j - 1]
      BY <1>2, <3>1, ConcatProperties
    <3> HIDE DEF n
    <3> QED
      BY <1>3, <2>1, <3>1, <3>2, <3>3
  <2> HIDE DEF n
  <2>4. Moved(m, n, cut - 1, 1)
    <3>1. ASSUME NEW j \in 1..Len(n), j > 1
          PROVE  j + (cut - 1) \in 1..Len(m) /\ n[j] = m[j + (cut - 1)]
      <4>1. j \in 2..(Len(s) + 1) /\ j - 1 \in 1..(Len(m) - cut)
            /\ (j - 1) + cut = j + (cut - 1)
        BY <1>1, <1>2, <2>3, <3>1
      <4>2. n[j] = s[j - 1] /\ s[j - 1] = m[(j - 1) + cut]
        BY <1>2, <2>3, <4>1
      <4>3. j + (cut - 1) \in 1..Len(m)
        BY <1>1, <4>1
      <4> QED
        BY <4>1, <4>2, <4>3
    <3> QED
      BY <3>1 DEF Moved, SaysTheSame
  <2>5. HeadIsSummary(n)
    BY <1>3, <2>2, <2>3 DEF HeadIsSummary
  <2>6. /\ cut - 1 \in Nat /\ (cut - 1) + 1 = cut /\ Len(n) + (cut - 1) = Len(m)
        /\ \A j \in 1..Len(n) : j <= 1 => n[j] = SummaryMsg
    BY <1>1, <1>2, <2>3
  <2>7. \E d \in Nat, e \in Nat :
          /\ d + e = cut /\ Len(n) + d = Len(m)
          /\ Moved(m, n, d, e)
          /\ \A j \in 1..Len(n) : j <= e => n[j] = SummaryMsg
    BY <2>4, <2>6
  <2> QED
    BY <2>3, <2>5, <2>7 DEF n, s
<1> QED
  BY <1>4, <1>5

(* A compacted history keeps its results anchored when the first message it *)
(* keeps is not one of them.                                                *)
LEMMA AnchoredCompacted ==
  ASSUME NEW m \in Seq(Message), NEW n \in Seq(Message), NEW d \in Nat,
         NEW e \in Nat, Moved(m, n, d, e), m[d + e + 1].role # "tool",
         \A j \in 1..Len(n) : j <= e => n[j] = SummaryMsg, Anchored(m)
  PROVE  Anchored(n)
<1>1. SummaryMsg.role # "tool"
  BY DEF SummaryMsg, PlainMsg
<1>2. ASSUME NEW i \in 1..Len(n), n[i].role = "tool"
      PROVE  AnchoredAt(n, i)
  <2>1. i > e
    BY <1>1, <1>2
  <2>2. i + d \in 1..Len(m) /\ m[i + d].role = "tool"
    BY <1>2, <2>1 DEF Moved, SaysTheSame
  <2>3. AnchoredAt(m, i + d)
    BY <2>2 DEF Anchored
  <2>4. d + e + 1 = e + d + 1
    OBVIOUS
  <2> QED
    BY <2>1, <2>3, <2>4, AnchoredMoves
<1> QED
  BY <1>2 DEF Anchored

-----------------------------------------------------------------------------
(* What is unanswered after a compaction was so before it.                  *)
LEMMA UnansweredMoves ==
  ASSUME NEW m \in Seq(Message), NEW n \in Seq(Message), NEW d \in Nat,
         NEW e \in Nat, Moved(m, n, d, e), Len(n) + d = Len(m),
         NEW i \in 1..Len(n), i > e, UnansweredAt(n, i)
  PROVE  UnansweredAt(m, i + d)
<1>1. Len(n) \in Nat /\ Len(m) \in Nat /\ i \in Nat /\ n[i] \in Message
  BY ElementOfSeq
<1>2. PICK c \in 1..n[i].calls : i + c > Len(n) \/ n[i + c].role # "tool"
  BY DEF UnansweredAt
<1>3. n[i].role = "assistant" /\ m[i + d].role = "assistant"
      /\ m[i + d].calls = n[i].calls
  BY DEF UnansweredAt, Moved, SaysTheSame
<1>4. c \in Nat /\ c >= 1
  BY <1>1, <1>2 DEF Message
<1>5. (i + d) + c > Len(m) \/ m[(i + d) + c].role # "tool"
  <2>1. CASE i + c > Len(n)
    BY <1>1, <1>4, <2>1
  <2>2. CASE ~(i + c > Len(n))
    <3>1. i + c \in 1..Len(n) /\ i + c > e /\ (i + c) + d = (i + d) + c
      BY <1>1, <1>4, <2>2
    <3>2. n[i + c].role = m[(i + c) + d].role
      BY <3>1 DEF Moved, SaysTheSame
    <3> QED
      BY <1>2, <2>2, <3>1, <3>2
  <2> QED
    BY <2>1, <2>2
<1> QED
  BY <1>2, <1>3, <1>5 DEF UnansweredAt

(* What is unanswered after a message was added was so before, unless it is *)
(* that message.                                                            *)
LEMMA UnansweredAppend ==
  ASSUME NEW m \in Seq(Message), NEW x \in Message,
         NEW i \in 1..Len(m), UnansweredAt(Append(m, x), i)
  PROVE  UnansweredAt(m, i)
<1> DEFINE n == Append(m, x)
<1>1. /\ n \in Seq(Message) /\ Len(m) \in Nat /\ Len(n) = Len(m) + 1
      /\ \A j \in 1..Len(m) : n[j] = m[j]
  BY AppendedHistory
<1> HIDE DEF n
<1>2. UnansweredAt(n, i)
  BY DEF n
<1>3. m[i] \in Message /\ n[i] = m[i]
  BY <1>1, ElementOfSeq
<1>4. PICK c \in 1..n[i].calls : i + c > Len(n) \/ n[i + c].role # "tool"
  BY <1>2 DEF UnansweredAt
<1>5. c \in Nat /\ c >= 1 /\ c \in 1..m[i].calls
  BY <1>3, <1>4 DEF Message
<1>6. i + c > Len(m) \/ m[i + c].role # "tool"
  <2>1. CASE i + c <= Len(m)
    <3>1. i + c \in 1..Len(m) /\ ~(i + c > Len(n))
      BY <1>1, <1>5, <2>1
    <3> QED
      BY <1>1, <1>4, <3>1
  <2> QED
    BY <1>1, <1>5, <2>1
<1> QED
  BY <1>2, <1>3, <1>5, <1>6 DEF UnansweredAt

(* What is unanswered in the beginning of a history is so in the whole of   *)
(* it, when no results follow.                                              *)
LEMMA UnansweredPrefix ==
  ASSUME NEW m \in Seq(Message), NEW k \in 0..Len(m),
         \A j \in 1..Len(m) : j > k => m[j].role # "tool",
         NEW i \in 1..k, UnansweredAt(SubSeq(m, 1, k), i)
  PROVE  UnansweredAt(m, i)
<1> DEFINE n == SubSeq(m, 1, k)
<1>1. n \in Seq(Message) /\ Len(n) = k /\ \A j \in 1..k : n[j] = m[j]
  BY PrefixProperties
<1> HIDE DEF n
<1>2. UnansweredAt(n, i)
  BY DEF n
<1>3. i \in 1..Len(m) /\ Len(m) \in Nat
  OBVIOUS
<1>4. m[i] \in Message /\ n[i] = m[i]
  BY <1>1, <1>3, ElementOfSeq
<1>5. PICK c \in 1..n[i].calls : i + c > Len(n) \/ n[i + c].role # "tool"
  BY <1>2 DEF UnansweredAt
<1>6. c \in Nat /\ c >= 1 /\ c \in 1..m[i].calls
  BY <1>4, <1>5 DEF Message
<1>7. i + c > Len(m) \/ m[i + c].role # "tool"
  <2>1. CASE i + c <= k
    <3>1. i + c \in 1..k /\ ~(i + c > Len(n))
      BY <1>1, <1>3, <1>6, <2>1
    <3> QED
      BY <1>1, <1>5, <3>1
  <2>2. CASE ~(i + c <= k) /\ i + c <= Len(m)
    <3>1. i + c \in 1..Len(m) /\ i + c > k
      BY <1>3, <1>6, <2>2
    <3> QED
      BY <3>1
  <2> QED
    BY <1>3, <1>6, <2>1, <2>2
<1> QED
  BY <1>2, <1>4, <1>6, <1>7 DEF UnansweredAt

(* Nothing is unanswered that asked for nothing, or that is not an answer.  *)
LEMMA NoCallsAnswered ==
  ASSUME NEW m \in Seq(Message), NEW i \in 1..Len(m),
         m[i].role # "assistant" \/ m[i].calls = 0
  PROVE  ~UnansweredAt(m, i)
BY DEF UnansweredAt

-----------------------------------------------------------------------------
(* What a history holds it still holds when it grows, when it is cut behind *)
(* it, and when it is moved.                                                *)
LEMMA HoldsAppend ==
  ASSUME NEW m \in Seq(Message), NEW x \in Message, NEW text, NEW t
  PROVE  /\ Holds(m, text, t) => Holds(Append(m, x), text, t)
         /\ x.text = text /\ x.turn = t => Holds(Append(m, x), text, t)
         /\ HeadIsSummary(m) => HeadIsSummary(Append(m, x))
<1>1. /\ Len(m) \in Nat /\ Len(Append(m, x)) = Len(m) + 1
      /\ \A j \in 1..Len(m) : Append(m, x)[j] = m[j]
      /\ Append(m, x)[Len(m) + 1] = x
  BY AppendedHistory
<1>2. /\ \A j \in 1..Len(m) : j \in 1..Len(Append(m, x))
      /\ Len(m) + 1 \in 1..Len(Append(m, x))
      /\ Len(m) > 0 => 1 \in 1..Len(m) /\ Len(Append(m, x)) > 0
  BY <1>1
<1> QED
  BY <1>1, <1>2 DEF Holds, HeadIsSummary

-----------------------------------------------------------------------------
(* The conversation operators of a turn keep a history a history.           *)
LEMMA ApplySummaryType ==
  ASSUME NEW rest \in Seq(Message)
  PROVE  ApplySummary(rest) \in Seq(Message)
<1>1. CASE rest # <<>> /\ rest[1].role = "user"
  <2>1. rest[1] \in Message /\ Tail(rest) \in Seq(Message)
    BY <1>1, HeadTailProperties, ElementOfSeq, EmptySeq
  <2>2. [rest[1] EXCEPT !.sum = TRUE] \in Message
    BY <2>1 DEF Message
  <2> QED
    BY <1>1, <2>1, <2>2 DEF ApplySummary
<1>2. CASE ~(rest # <<>> /\ rest[1].role = "user")
  BY <1>2, MessageTypes DEF ApplySummary
<1> QED
  BY <1>1, <1>2

(* A collapsed answer leaves a history.                                     *)
LEMMA CollapsedType ==
  ASSUME TypeOK
  PROVE  Collapsed \in Seq(Message)
<1>1. CASE loc.contStart = None
  BY <1>1 DEF Collapsed, TypeOK
<1>2. CASE loc.contStart # None
  <2>1. messages \in Seq(Message) /\ loc.contStart \in Nat
        /\ loc.contParts \in Nat /\ turn \in Nat
    BY <1>2 DEF TypeOK, LocalType, None
  <2> DEFINE kept == IF loc.contStart <= Len(messages) THEN loc.contStart
                     ELSE Len(messages)
  <2>2. kept \in 0..Len(messages)
    BY <2>1
  <2>3. AssistantMsg(turn, 0, loc.contParts + 1) \in Message
    BY <2>1, MessageTypes
  <2>4. SubSeq(messages, 1, kept) \in Seq(Message)
    <3> HIDE DEF kept
    <3> QED BY <2>1, <2>2, PrefixProperties
  <2> QED
    BY <1>2, <2>3, <2>4 DEF Collapsed
<1> QED
  BY <1>1, <1>2

(* A step is recorded with well-typed accounts.                             *)
LEMMA RecordStepType ==
  ASSUME TypeOK, NEW n \in 0..MaxCalls, NEW stop \in Stops, RecordStep(n, stop)
  PROVE  /\ breaker' \in BreakerType /\ lastTurn' \in SummaryType
         /\ step' \in StepType /\ step'.calls = n
<1>1. /\ breaker.steps \in Nat /\ breaker.cost \in Nat
      /\ lastTurn.cost \in Nat
  BY DEF TypeOK, BreakerType, SummaryType
<1>2. breaker.steps + 1 \in Nat /\ breaker.cost + 1 \in Nat
      /\ lastTurn.cost + 1 \in Nat
  BY <1>1
<1>3. breaker' \in BreakerType
  BY <1>2 DEF TypeOK, RecordStep, BreakerType
<1>4. lastTurn' \in SummaryType
  BY <1>2 DEF TypeOK, RecordStep, SummaryType
<1>5. step' \in StepType /\ step'.calls = n
  BY DEF RecordStep, StepType
<1> QED
  BY <1>3, <1>4, <1>5

-----------------------------------------------------------------------------
(* Where the frame of a step stands at each point of the loop.              *)
FrameInv ==
  /\ pc \in {"idle", "top", "compact", "summary", "stream"} => step = NoStep
  /\ pc \notin {"batch", "observe", "settled"} => results = <<>>
  /\ pc = "batch" => Len(results) < step.calls /\ observed = 0
  /\ pc = "observe" => Len(results) = step.calls /\ observed < step.calls

TypeInv == TypeOK /\ FrameInv

(* What leads from the top of the loop to the request of the step.          *)
Asking == TopProceeds \/ CompactSkipped \/ BeginSummary \/ SummaryFails
          \/ CompactSucceeds

(* Nothing was spent yet after a cancel.                                    *)
LEMMA NothingLateType == NothingLate \in LateType
BY DEF NothingLate, LateType

(* The frame after the generator is gone.                                   *)
LEMMA DropFrameType ==
  ASSUME DropFrame, pc' = "idle"
  PROVE  /\ breaker' \in BreakerType /\ loc' \in LocalType /\ step' \in StepType
         /\ results' \in Seq(BOOLEAN) /\ Len(results') <= step'.calls
         /\ observed' \in 0..Len(results')
         /\ FrameInv'
<1>1. 0 \in 0..MaxCalls
  BY TurnAssumption
<1> QED
  BY <1>1 DEF DropFrame, FrameInv, NewBreaker, NewLocals, NoStep, BreakerType,
       LocalType, StepType, Stops, None

(* A turn that is closed leaves a well-typed session and a dropped frame.   *)
LEMMA CloseTurnType ==
  ASSUME TypeOK, NEW t \in 1..MaxTurns, NEW status \in Closed,
         NEW msgs \in Seq(Message), NEW spent \in Nat, NEW last \in SummaryType,
         CloseTurn(t, status, msgs, spent, last),
         turn' \in 0..MaxTurns, cancel' \in BOOLEAN, subUsage' \in Nat,
         requests' \in Nat, late' \in LateType, pieces' \in Nat, baseUsage' \in Nat,
         crashes' \in 0..MaxCrashes
  PROVE  TypeInv'
<1>1. /\ messages' = msgs /\ usage' = spent /\ lastTurn' = last
      /\ phase' \in Phases /\ summaryOpen' \in BOOLEAN /\ pc' = "idle"
      /\ DropFrame
      /\ ended' = [ended EXCEPT ![t] = status]
      /\ db' = [messages |-> msgs, phase |-> phase', usage |-> spent,
                lastTurn |-> last]
  BY DEF CloseTurn, Conclude, Phases
<1>2. ended' \in [1..MaxTurns -> Statuses]
  BY <1>1 DEF TypeOK, Closed, Statuses
<1>3. db' \in RecordType
  BY <1>1 DEF RecordType
<1>4. pc' \in PCs
  BY <1>1 DEF PCs
<1> QED
  BY <1>1, <1>2, <1>3, <1>4, DropFrameType DEF TypeInv, TypeOK

-----------------------------------------------------------------------------
(* The type invariant, one lemma for each group of actions.                 *)
LEMMA TypeInit == Init => TypeInv
<1> SUFFICES ASSUME Init PROVE TypeInv
  OBVIOUS
<1>1. NewSummary \in SummaryType /\ NewBreaker \in BreakerType
      /\ NewLocals \in LocalType /\ NoStep \in StepType
  BY TurnAssumption DEF NewSummary, SummaryType, NewBreaker, BreakerType,
       NewLocals, LocalType, None, NoStep, StepType, Stops
<1>2. db \in RecordType
  BY <1>1 DEF Init, Snapshot, RecordType, Phases
<1>3. ended \in [1..MaxTurns -> Statuses]
  BY DEF Init, Statuses
<1>4. /\ lastTurn \in SummaryType /\ breaker \in BreakerType /\ loc \in LocalType
      /\ step \in StepType /\ step = NoStep /\ step.calls = 0
      /\ messages = <<>> /\ messages \in Seq(Message)
      /\ results = <<>> /\ results \in Seq(BOOLEAN) /\ Len(results) = 0
      /\ observed = 0
  BY <1>1 DEF Init, NoStep
<1>5. /\ usage \in Nat /\ subUsage \in Nat /\ turn \in 0..MaxTurns
      /\ requests \in Nat /\ late \in LateType /\ baseUsage \in Nat
      /\ pieces \in Nat /\ crashes \in 0..MaxCrashes
  BY TurnAssumption, NothingLateType DEF Init
<1>6. /\ phase \in Phases /\ summaryOpen \in BOOLEAN /\ cancel \in BOOLEAN
      /\ pc \in PCs /\ pc = "idle"
  BY DEF Init, Phases, PCs
<1>7. TypeOK
  BY <1>2, <1>3, <1>4, <1>5, <1>6 DEF TypeOK
<1>8. FrameInv
  BY <1>4, <1>6 DEF FrameInv
<1> QED
  BY <1>7, <1>8 DEF TypeInv

(* The start of a turn, in each of its outcomes.                            *)
LEMMA TypeStart ==
  ASSUME TypeInv, StartBlocked \/ StartRouteFails \/ StartTurn
  PROVE  TypeInv'
<1>0. EnterTurn
  BY DEF StartBlocked, StartRouteFails, StartTurn
<1>1. /\ pc = "idle" /\ turn + 1 \in 1..MaxTurns /\ turn' = turn + 1
      /\ turn' \in 0..MaxTurns /\ cancel' \in BOOLEAN /\ requests' \in Nat
      /\ late' \in LateType /\ pieces' \in Nat /\ baseUsage' \in Nat
      /\ crashes' \in 0..MaxCrashes /\ usage \in Nat
  <2>1. /\ pc = "idle" /\ turn < MaxTurns /\ turn' = turn + 1
        /\ cancel' = FALSE /\ requests' = 0 /\ late' = NothingLate
        /\ pieces' = 0
        /\ baseUsage' = usage /\ crashes' = crashes
    BY <1>0 DEF EnterTurn
  <2>2. turn \in 0..MaxTurns /\ usage \in Nat /\ crashes \in 0..MaxCrashes
    BY DEF TypeInv, TypeOK
  <2>3. turn + 1 \in 1..MaxTurns /\ turn + 1 \in 0..MaxTurns
    BY <2>1, <2>2, TurnAssumption
  <2>4. cancel' \in BOOLEAN
    BY <2>1
  <2> QED
    BY <2>1, <2>2, <2>3, <2>4, NothingLateType
<1>2. NewSummary \in SummaryType
  BY DEF NewSummary, SummaryType
<1>3. AskMsg(turn + 1) \in Message /\ RefusalMsg(turn + 1) \in Message
  BY <1>1, MessageTypes
<1>4. CASE StartBlocked
  <2> DEFINE msgs == messages \o <<AskMsg(turn + 1), RefusalMsg(turn + 1)>>
  <2>1. msgs \in Seq(Message)
    <3>1. messages \in Seq(Message)
      BY DEF TypeInv, TypeOK
    <3>2. <<AskMsg(turn + 1), RefusalMsg(turn + 1)>> \in Seq(Message)
      BY <1>3
    <3> QED
      BY <3>1, <3>2, ConcatProperties
  <2>2. CloseTurn(turn + 1, "blocked", msgs, usage, NewSummary)
        /\ subUsage' \in Nat
    BY <1>4 DEF StartBlocked, TypeInv, TypeOK
  <2>3. TypeOK /\ "blocked" \in Closed
    BY DEF TypeInv, Closed
  <2> HIDE DEF msgs
  <2> QED
    BY <1>1, <1>2, <2>1, <2>2, <2>3, CloseTurnType
<1>5. CASE StartRouteFails
  <2>1. ended' \in [1..MaxTurns -> Statuses]
    BY <1>1, <1>5 DEF StartRouteFails, TypeInv, TypeOK, Statuses
  <2>2. /\ messages' = messages /\ phase' = phase /\ usage' = usage
        /\ lastTurn' = NewSummary /\ summaryOpen' = TRUE /\ pc' = "idle"
        /\ subUsage' = subUsage /\ db' = db /\ breaker' = breaker /\ loc' = loc
        /\ step' = step /\ results' = results /\ observed' = observed
    BY <1>1, <1>5 DEF StartRouteFails, frame
  <2>3. TypeOK'
    BY <1>1, <1>2, <2>1, <2>2 DEF TypeInv, TypeOK
  <2>4. FrameInv'
    BY <1>1, <2>2 DEF TypeInv, FrameInv
  <2> QED
    BY <2>3, <2>4 DEF TypeInv
<1>6. CASE StartTurn
  <2>1. ended' \in [1..MaxTurns -> Statuses] /\ ended'[turn + 1] = "open"
    BY <1>1, <1>6 DEF StartTurn, TypeInv, TypeOK, Statuses
  <2>2. messages' \in Seq(Message)
    BY <1>3, <1>6 DEF StartTurn, TypeInv, TypeOK
  <2>3. loc' \in LocalType
    <3>1. Len(messages) \in Nat
      BY DEF TypeInv, TypeOK
    <3>2. loc' = [NewLocals EXCEPT !.turnStart = Len(messages)]
      BY <1>6 DEF StartTurn
    <3> QED
      BY <3>1, <3>2 DEF LocalType, NewLocals, None
  <2>4. pc' = "top" /\ pc' \in PCs
    BY <1>6 DEF StartTurn, PCs
  <2>5. /\ phase' = phase /\ usage' = usage /\ lastTurn' = NewSummary
        /\ summaryOpen' = TRUE /\ subUsage' = 0 /\ db' = db
        /\ breaker' = breaker /\ step' = step /\ results' = results
        /\ observed' = observed
    BY <1>6 DEF StartTurn
  <2>6. step = NoStep /\ results = <<>>
    BY <1>1 DEF TypeInv, FrameInv
  <2>7. TypeOK'
    BY <1>1, <1>2, <2>1, <2>2, <2>3, <2>4, <2>5 DEF TypeInv, TypeOK
  <2>8. FrameInv'
    BY <2>4, <2>5, <2>6 DEF FrameInv
  <2> QED
    BY <2>7, <2>8 DEF TypeInv
<1> QED
  BY <1>4, <1>5, <1>6

(* Each way to close a turn.                                                *)
LEMMA TypeClose ==
  ASSUME TypeInv,
         \/ TopCancelled \/ TopTrips \/ StreamFails \/ StreamCancelled
         \/ Finish \/ DecideCancelled \/ ObserveTrips \/ BatchCancelled
  PROVE  TypeInv'
<1>1. /\ turn \in 1..MaxTurns /\ turn' \in 0..MaxTurns
      /\ crashes' \in 0..MaxCrashes /\ baseUsage' \in Nat
      /\ cancel' \in BOOLEAN /\ requests' \in Nat /\ late' \in LateType
      /\ pieces' \in Nat
  <2>1. pc # "idle" /\ Running /\ cancel' = cancel
        /\ requests' = requests /\ late' = late /\ pieces' = pieces
    BY DEF TopCancelled, TopTrips, StreamFails, StreamCancelled, Finish,
         DecideCancelled, ObserveTrips, BatchCancelled
  <2> QED
    BY <2>1 DEF TypeInv, TypeOK, Running
<1>2. /\ messages \in Seq(Message) /\ Collapsed \in Seq(Message)
      /\ usage \in Nat /\ step.cost \in Nat /\ lastTurn \in SummaryType
      /\ subUsage \in Nat
  BY CollapsedType DEF TypeInv, TypeOK, StepType
<1>3. usage + step.cost \in Nat
  BY <1>2
<1>4. CASE ObserveTrips
  <2>1. ObservedMessages \in Seq(Message)
    <3>1. ToolMsg(turn, observed + 1) \in Message
      BY <1>1, MessageTypes DEF TypeInv, TypeOK
    <3> QED
      BY <1>2, <3>1 DEF ObservedMessages
  <2>2. ObservedSummary \in SummaryType
    <3>1. lastTurn.tools + 1 \in Nat /\ lastTurn.cost + subUsage \in Nat
      BY <1>2 DEF SummaryType
    <3> QED
      BY <1>2, <3>1 DEF ObservedSummary, SummaryType
  <2>3. usage + step.cost + subUsage \in Nat
    BY <1>2
  <2>4. CloseTurn(turn, "error", ObservedMessages, usage + step.cost + subUsage,
                  ObservedSummary) /\ subUsage' = 0
    BY <1>4 DEF ObserveTrips
  <2>5. TypeOK /\ "error" \in Closed
    BY DEF TypeInv, Closed
  <2> QED
    BY <1>1, <2>1, <2>2, <2>3, <2>4, <2>5, CloseTurnType
<1>5. CASE ~ObserveTrips
  <2>1. /\ subUsage' = subUsage
        /\ \E status \in Closed, msgs \in Seq(Message), spent \in Nat :
             CloseTurn(turn, status, msgs, spent, lastTurn)
    BY <1>2, <1>3, <1>5 DEF TopCancelled, TopTrips, StreamFails,
         StreamCancelled, Finish, DecideCancelled, BatchCancelled, Closed
  <2>2. PICK status \in Closed, msgs \in Seq(Message), spent \in Nat :
               CloseTurn(turn, status, msgs, spent, lastTurn)
    BY <2>1
  <2>3. TypeOK /\ subUsage' \in Nat
    BY <1>2, <2>1 DEF TypeInv
  <2> QED
    BY <1>1, <1>2, <2>2, <2>3, CloseTurnType
<1> QED
  BY <1>4, <1>5

(* What a step inside a turn leaves alone, and what it owes the invariant.  *)
LEMMA TypeWithin ==
  ASSUME TypeInv, pc # "idle", pc' # "idle", pc' \in PCs, Running,
         ended' = ended, phase' = phase, summaryOpen' = summaryOpen,
         messages' \in Seq(Message), usage' \in Nat, lastTurn' \in SummaryType,
         cancel' = cancel, subUsage' \in Nat, breaker' \in BreakerType,
         loc' \in LocalType, step' \in StepType, results' \in Seq(BOOLEAN),
         Len(results') <= step'.calls, observed' \in 0..Len(results'),
         db' \in RecordType, requests' \in Nat, late' \in LateType,
         pieces' \in Nat
  PROVE  TypeOK'
<1>1. turn' = turn /\ crashes' = crashes /\ baseUsage' = baseUsage
  BY DEF Running
<1> QED
  BY <1>1 DEF TypeInv, TypeOK

(* The top of the loop and the compaction.                                  *)
LEMMA TypeRequest ==
  ASSUME TypeInv, Asking
  PROVE  TypeInv'
<1>1. /\ pc \in {"top", "compact", "summary"} /\ Running
      /\ pc' \in {"compact", "summary", "stream"}
      /\ pc' # "idle" /\ pc' \in PCs
  BY DEF Asking, TopProceeds, CompactSkipped, BeginSummary, SummaryFails,
         CompactSucceeds, SendRequest, PCs
<1>2. requests' \in Nat /\ late' \in LateType
  <2>1. requests \in Nat /\ late \in LateType
    BY DEF TypeInv, TypeOK
  <2>2. /\ requests' \in {requests, requests + 1}
        /\ \/ late' = late
           \/ late' = [late EXCEPT !.summaries = @ + 1]
           \/ late' = [late EXCEPT !.requests = @ + 1]
    BY DEF Asking, TopProceeds, CompactSkipped, BeginSummary, SummaryFails,
           CompactSucceeds, SendRequest
  <2>3. requests' \in Nat
    BY <2>1, <2>2
  <2>4. late' \in LateType
    BY <2>1, <2>2 DEF LateType
  <2> QED
    BY <2>3, <2>4
<1>3. /\ ended' = ended /\ phase' = phase /\ summaryOpen' = summaryOpen
      /\ usage' = usage /\ cancel' = cancel /\ subUsage' = subUsage
      /\ loc' = loc /\ step' = step /\ results' = results
      /\ observed' = observed /\ pieces' = pieces
  BY DEF Asking, TopProceeds, CompactSkipped, BeginSummary, SummaryFails,
         CompactSucceeds, agentState, frame
<1>4. CASE TopProceeds \/ CompactSkipped \/ BeginSummary \/ SummaryFails
  <2>1. messages' = messages /\ lastTurn' = lastTurn /\ breaker' = breaker
        /\ db' = db
    BY <1>4 DEF TopProceeds, CompactSkipped, BeginSummary, SummaryFails,
         agentState, frame
  <2> QED
    BY <1>1, <1>2, <1>3, <2>1, TypeWithin DEF TypeInv, TypeOK, FrameInv
<1>5. CASE CompactSucceeds
  <2> DEFINE cut  == CutIndex(messages, KeepRecent, loc.turnStart)
             msgs == ApplySummary(Suffix(messages, cut + 1))
             last == [lastTurn EXCEPT !.compactions = @ + 1, !.cost = @ + 1]
  <2>1. /\ messages' = msgs /\ lastTurn' = last
        /\ db' = [messages |-> msgs, phase |-> phase, usage |-> usage,
                  lastTurn |-> last]
        /\ breaker' = [breaker EXCEPT !.cost = @ + 1]
    BY <1>5 DEF CompactSucceeds
  <2>2. msgs \in Seq(Message)
    <3>1. messages \in Seq(Message) /\ loc.turnStart \in Nat
      BY DEF TypeInv, TypeOK, LocalType
    <3>2. cut \in 0..Len(messages)
      BY <3>1, CutIndexProperties, TurnAssumption
    <3>3. cut + 1 \in 1..(Len(messages) + 1)
      <4> HIDE DEF cut
      <4> QED BY <3>1, <3>2
    <3> HIDE DEF cut
    <3>4. Suffix(messages, cut + 1) \in Seq(Message)
      BY <3>1, <3>3, SuffixProperties
    <3> QED
      BY <3>4, ApplySummaryType
  <2>3. last \in SummaryType
    <3>1. lastTurn.compactions + 1 \in Nat /\ lastTurn.cost + 1 \in Nat
      BY DEF TypeInv, TypeOK, SummaryType
    <3> QED
      BY <3>1 DEF SummaryType, TypeInv, TypeOK
  <2>4. breaker' \in BreakerType
    <3>1. breaker.cost + 1 \in Nat
      BY DEF TypeInv, TypeOK, BreakerType
    <3> QED
      BY <2>1, <3>1 DEF BreakerType, TypeInv, TypeOK
  <2>5. db' \in RecordType
    <3> HIDE DEF msgs, last
    <3> QED
      BY <2>1, <2>2, <2>3 DEF RecordType, TypeInv, TypeOK
  <2>6. messages' \in Seq(Message) /\ lastTurn' \in SummaryType
    BY <2>1, <2>2, <2>3
  <2> HIDE DEF msgs, last
  <2> QED
    BY <1>1, <1>2, <1>3, <2>4, <2>5, <2>6, TypeWithin
       DEF TypeInv, TypeOK, FrameInv
<1> QED
  BY <1>4, <1>5 DEF Asking

(* An answer that arrives, is added and decided on.                         *)
LEMMA TypeAnswer ==
  ASSUME TypeInv, StreamCompletes \/ AddAssistant \/ Continue \/ DecideTools
  PROVE  TypeInv'
<1>1. /\ pc \in {"stream", "egress", "decide"} /\ pc # "idle" /\ Running
      /\ pc' # "idle" /\ pc' \in PCs
  BY DEF StreamCompletes, AddAssistant, Continue, DecideTools, PCs
<1>2. /\ ended' = ended /\ phase' = phase /\ summaryOpen' = summaryOpen
      /\ cancel' = cancel /\ subUsage' = subUsage /\ results' = results
      /\ observed' = observed /\ db' = db /\ requests' = requests
      /\ late' = late
  BY DEF StreamCompletes, AddAssistant, Continue, DecideTools, agentState, frame
<1>3. results = <<>> /\ Len(results) = 0 /\ observed = 0 /\ turn \in Nat
      /\ messages \in Seq(Message) /\ usage \in Nat /\ step \in StepType
      /\ loc \in LocalType /\ lastTurn \in SummaryType /\ pieces \in Nat
      /\ breaker \in BreakerType
  BY <1>1 DEF TypeInv, TypeOK, FrameInv
<1>4. CASE StreamCompletes
  <2>1. PICK n \in 0..MaxCalls, stop \in Stops : RecordStep(n, stop)
    BY <1>4 DEF StreamCompletes
  <2>2. /\ breaker' \in BreakerType /\ lastTurn' \in SummaryType
        /\ step' \in StepType /\ step'.calls \in Nat
    BY <2>1, RecordStepType, TurnAssumption DEF TypeInv
  <2>3. messages' = messages /\ usage' = usage /\ loc' = loc
        /\ pieces' = pieces /\ pc' = "egress"
    BY <1>4 DEF StreamCompletes
  <2> QED
    BY <1>1, <1>2, <1>3, <2>2, <2>3, TypeWithin DEF TypeInv, TypeOK, FrameInv
<1>5. CASE AddAssistant
  <2>1. messages' \in Seq(Message)
    <3>1. AssistantMsg(turn, step.calls, 1) \in Message
      BY <1>3, MessageTypes, TurnAssumption DEF StepType
    <3> QED
      BY <1>3, <1>5, <3>1 DEF AddAssistant
  <2>2. /\ usage' = usage /\ lastTurn' = lastTurn /\ breaker' = breaker
        /\ loc' = loc /\ step' = step /\ pieces' \in Nat /\ pc' = "decide"
    BY <1>3, <1>5 DEF AddAssistant, frame
  <2> QED
    BY <1>1, <1>2, <1>3, <2>1, <2>2, TypeWithin DEF TypeInv, TypeOK, FrameInv
<1>6. CASE Continue
  <2>1. messages' \in Seq(Message) /\ Len(messages) \in Nat
    BY <1>3, <1>6, MessageTypes DEF Continue
  <2>2. loc' \in LocalType
    <3>1. loc.continuations + 1 \in Nat /\ loc.contParts + 1 \in Nat
      BY <1>3 DEF LocalType
    <3>2. (IF loc.contStart = None THEN Len(messages) - 1 ELSE loc.contStart)
            \in Nat \cup {None}
      BY <1>3, <2>1 DEF LocalType, None
    <3> QED
      BY <1>3, <1>6, <3>1, <3>2 DEF Continue, LocalType
  <2>3. lastTurn' \in SummaryType
    <3>1. loc.continuations + 1 \in Nat
      BY <1>3 DEF LocalType
    <3> QED
      BY <1>3, <1>6, <3>1 DEF Continue, SummaryType
  <2>4. usage' \in Nat
    BY <1>3, <1>6 DEF Continue, StepType
  <2>5. step' = NoStep /\ step' \in StepType /\ step'.calls = 0
    BY <1>6, TurnAssumption DEF Continue, NoStep, StepType, Stops
  <2>6. breaker' = breaker /\ pieces' = pieces /\ pc' = "top"
    BY <1>6 DEF Continue
  <2> QED
    BY <1>1, <1>2, <1>3, <2>1, <2>2, <2>3, <2>4, <2>5, <2>6, TypeWithin
       DEF TypeInv, TypeOK, FrameInv
<1>7. CASE DecideTools
  <2>1. loc' \in LocalType
    BY <1>3, <1>7 DEF DecideTools, LocalType, None
  <2>2. /\ messages' = messages /\ usage' = usage /\ lastTurn' = lastTurn
        /\ breaker' = breaker /\ step' = step /\ pieces' = pieces
        /\ pc' = "batch" /\ step.calls > 0
    BY <1>7 DEF DecideTools, agentState
  <2> QED
    BY <1>1, <1>2, <1>3, <2>1, <2>2, TypeWithin DEF TypeInv, TypeOK, FrameInv
<1> QED
  BY <1>4, <1>5, <1>6, <1>7

(* The calls of a batch and their results.                                  *)
LEMMA TypeBatch ==
  ASSUME TypeInv, RunCall \/ ObserveResult \/ BatchRecorded
  PROVE  TypeInv'
<1>1. /\ pc \in {"batch", "observe", "settled"} /\ pc # "idle" /\ Running
      /\ pc' # "idle" /\ pc' \in PCs
  BY DEF RunCall, ObserveResult, BatchRecorded, PCs
<1>2. /\ ended' = ended /\ phase' = phase /\ summaryOpen' = summaryOpen
      /\ cancel' = cancel /\ loc' = loc /\ db' = db /\ requests' = requests
      /\ pieces' = pieces
  BY DEF RunCall, ObserveResult, BatchRecorded, agentState
<1>3. late' \in LateType
  <2>1. late \in LateType
    BY DEF TypeInv, TypeOK
  <2>2. CASE RunCall
    <3>1. \E spent \in 0..1 :
            late' = IF cancel THEN [late EXCEPT !.tasks = @ + spent] ELSE late
      BY <2>2, Zenon DEF RunCall
    <3>2. PICK spent \in 0..1 :
            late' = IF cancel THEN [late EXCEPT !.tasks = @ + spent] ELSE late
      BY <3>1
    <3> QED
      BY <2>1, <3>2 DEF LateType
  <2>3. CASE ObserveResult \/ BatchRecorded
    BY <2>1, <2>3 DEF ObserveResult, BatchRecorded
  <2> QED
    BY <2>2, <2>3
<1>4. /\ results \in Seq(BOOLEAN) /\ Len(results) \in Nat /\ observed \in Nat
      /\ turn \in Nat /\ messages \in Seq(Message) /\ usage \in Nat
      /\ step \in StepType /\ subUsage \in Nat /\ lastTurn \in SummaryType
      /\ breaker \in BreakerType /\ step.calls \in Nat /\ step.cost \in Nat
  BY TurnAssumption DEF TypeInv, TypeOK, StepType
<1>5. CASE RunCall
  <2>1. results' \in Seq(BOOLEAN) /\ Len(results') = Len(results) + 1
    <3>1. \E ok \in BOOLEAN : results' = Append(results, ok)
      BY <1>5, Zenon DEF RunCall
    <3>2. PICK ok \in BOOLEAN : results' = Append(results, ok)
      BY <3>1
    <3> QED
      BY <1>4, <3>2, AppendProperties
  <2>2. subUsage' \in Nat
    <3>1. \E spent \in 0..1 : subUsage' = subUsage + spent
      BY <1>5, Zenon DEF RunCall
    <3> QED
      BY <1>4, <3>1
  <2>3. /\ messages' = messages /\ usage' = usage /\ lastTurn' = lastTurn
        /\ breaker' = breaker /\ step' = step /\ observed' = observed
        /\ pc = "batch"
        /\ pc' = IF Len(results') = step.calls THEN "observe" ELSE "batch"
    BY <1>5 DEF RunCall, agentState
  <2>4. Len(results) < step.calls /\ observed = 0
    BY <2>3 DEF TypeInv, FrameInv
  <2>5. /\ Len(results') <= step'.calls /\ observed' \in 0..Len(results')
        /\ pc' = "batch" => Len(results') < step'.calls
        /\ pc' = "observe" => Len(results') = step'.calls /\ observed' < step'.calls
    BY <1>4, <2>1, <2>3, <2>4
  <2>6. TypeOK'
    BY <1>1, <1>2, <1>4, <1>3, <2>1, <2>2, <2>3, <2>5, TypeWithin DEF TypeInv, TypeOK
  <2>7. FrameInv'
    BY <1>4, <2>3, <2>4, <2>5 DEF FrameInv
  <2> QED
    BY <2>6, <2>7 DEF TypeInv
<1>6. CASE ObserveResult
  <2>1. /\ pc = "observe" /\ messages' = ObservedMessages
        /\ lastTurn' = ObservedSummary
        /\ breaker' = [breaker EXCEPT !.cost = @ + subUsage,
                                     !.errors = ErrorStreak]
        /\ step' = [step EXCEPT !.cost = @ + subUsage]
        /\ subUsage' = 0 /\ observed' = observed + 1
        /\ pc' = IF observed + 1 = step.calls THEN "settled" ELSE "observe"
        /\ usage' = usage /\ results' = results
    BY <1>6 DEF ObserveResult
  <2>2. Len(results) = step.calls /\ observed < step.calls
    BY <2>1 DEF TypeInv, FrameInv
  <2>3. messages' \in Seq(Message)
    <3>1. ToolMsg(turn, observed + 1) \in Message
      BY <1>4, MessageTypes
    <3> QED
      BY <1>4, <2>1, <3>1 DEF ObservedMessages
  <2>4. lastTurn' \in SummaryType
    <3>1. lastTurn.tools + 1 \in Nat /\ lastTurn.cost + subUsage \in Nat
      BY <1>4 DEF SummaryType
    <3> QED
      BY <1>4, <2>1, <3>1 DEF ObservedSummary, SummaryType
  <2>5. breaker' \in BreakerType
    <3>1. breaker.cost + subUsage \in Nat /\ ErrorStreak \in Nat
      BY <1>4 DEF BreakerType, ErrorStreak
    <3> QED
      BY <1>4, <2>1, <3>1 DEF BreakerType
  <2>6. step' \in StepType /\ step'.calls = step.calls
    <3>1. step.cost + subUsage \in Nat
      BY <1>4
    <3> QED
      BY <1>4, <2>1, <3>1 DEF StepType
  <2>7. /\ Len(results') <= step'.calls /\ observed' \in 0..Len(results')
        /\ Len(results') = step'.calls
        /\ pc' = "observe" => observed' < step'.calls
    BY <1>4, <2>1, <2>2, <2>6
  <2>8. TypeOK'
    <3>1. usage' \in Nat /\ subUsage' \in Nat /\ results' \in Seq(BOOLEAN)
          /\ loc' \in LocalType /\ db' \in RecordType /\ requests' \in Nat
          /\ late' \in LateType /\ pieces' \in Nat
      BY <1>2, <1>4, <1>3, <2>1 DEF TypeInv, TypeOK
    <3> QED
      BY <1>1, <1>2, <2>3, <2>4, <2>5, <2>6, <2>7, <3>1, TypeWithin
  <2>9. FrameInv'
    BY <2>1, <2>7 DEF FrameInv
  <2> QED
    BY <2>8, <2>9 DEF TypeInv
<1>7. CASE BatchRecorded
  <2>1. usage' \in Nat
    BY <1>4, <1>7 DEF BatchRecorded
  <2>2. step' = NoStep /\ step' \in StepType /\ step'.calls = 0
    BY <1>7, TurnAssumption DEF BatchRecorded, NoStep, StepType, Stops
  <2>3. /\ messages' = messages /\ lastTurn' = lastTurn /\ breaker' = breaker
        /\ subUsage' = subUsage /\ pc' = "top" /\ results' = <<>>
        /\ observed' = 0 /\ Len(results') = 0 /\ results' \in Seq(BOOLEAN)
    BY <1>7 DEF BatchRecorded
  <2> QED
    BY <1>1, <1>2, <1>4, <1>3, <2>1, <2>2, <2>3, TypeWithin
       DEF TypeInv, TypeOK, FrameInv
<1> QED
  BY <1>5, <1>6, <1>7

(* A cancel, a consumer that lets go, and a crash.                          *)
LEMMA TypeEnvironment ==
  ASSUME TypeInv, Cancel \/ Abandon \/ CrashAndResume
  PROVE  TypeInv'
<1>1. CASE Cancel
  BY <1>1 DEF Cancel, agentState, frame, history, TypeInv, TypeOK, FrameInv
<1>2. CASE Abandon
  <2>1. ended' \in [1..MaxTurns -> Statuses]
    BY <1>2 DEF Abandon, TypeInv, TypeOK, Statuses
  <2>2. DropFrame /\ pc' = "idle" /\ pc' \in PCs
    BY <1>2 DEF Abandon, PCs
  <2> QED
    BY <1>2, <2>1, <2>2, DropFrameType, NothingLateType
       DEF Abandon, DropHistory, agentState, TypeInv, TypeOK
<1>3. CASE CrashAndResume
  <2>1. ended' \in [1..MaxTurns -> Statuses]
    BY <1>3 DEF CrashAndResume, TypeInv, TypeOK, Statuses
  <2>2. DropFrame /\ pc' = "idle" /\ pc' \in PCs
    BY <1>3 DEF CrashAndResume, PCs
  <2>3. /\ messages' \in Seq(Message) /\ phase' \in Phases /\ usage' \in Nat
        /\ lastTurn' \in SummaryType /\ db' \in RecordType
    BY <1>3 DEF CrashAndResume, TypeInv, TypeOK, RecordType
  <2>4. crashes' \in 0..MaxCrashes /\ subUsage' \in Nat
    BY <1>3, TurnAssumption DEF CrashAndResume, TypeInv, TypeOK
  <2>5. /\ summaryOpen' \in BOOLEAN /\ cancel' \in BOOLEAN
        /\ turn' \in 0..MaxTurns /\ requests' \in Nat /\ late' \in LateType
        /\ baseUsage' \in Nat /\ pieces' \in Nat
    BY <1>3 DEF CrashAndResume, history, TypeInv, TypeOK
  <2> QED
    BY <2>1, <2>2, <2>3, <2>4, <2>5, DropFrameType DEF TypeInv, TypeOK
<1> QED
  BY <1>1, <1>2, <1>3

(* Every step keeps the types.                                              *)
LEMMA TypeStep == TypeInv /\ [Next]_vars => TypeInv'
<1> SUFFICES ASSUME TypeInv, [Next]_vars PROVE TypeInv'
  OBVIOUS
<1>1. CASE Next
  BY <1>1, TypeStart, TypeClose, TypeRequest, TypeAnswer, TypeBatch,
     TypeEnvironment DEF Next, Worker, Proceed, Asking
<1>2. CASE UNCHANGED vars
  BY <1>2 DEF vars, TypeInv, TypeOK, FrameInv
<1> QED
  BY <1>1, <1>2

(* Whatever the bounds of the breaker and whatever the model, the tools,    *)
(* the user and the process do, the session stays well-typed, and a batch   *)
(* has no more results than calls and no more observations than results.    *)
THEOREM TypeCorrect == Spec => []TypeOK
<1>1. TypeInv => TypeOK
  BY DEF TypeInv
<1> QED
  BY <1>1, TypeInit, TypeStep, PTL DEF Spec

-----------------------------------------------------------------------------
(* The bounds of a turn.  The breaker is asked before a step, so the step   *)
(* that reaches a bound still runs: what it may add until the breaker is    *)
(* asked again is counted along the loop.                                   *)
MostCost == CostCap + 2 + MaxCalls

StepsInv ==
  /\ requests <= MaxSteps
  /\ pc = "idle" => breaker = NewBreaker
  /\ pc # "idle" => requests = breaker.steps + (IF pc = "stream" THEN 1 ELSE 0)
  /\ pc \in {"compact", "summary"} => breaker.steps < MaxSteps

CostInv ==
  /\ pc # "idle" => lastTurn.cost = breaker.cost
  /\ pc \notin {"idle", "batch", "observe"} => subUsage = 0
  /\ CostCap > 0 =>
       /\ lastTurn.cost < MostCost /\ db.lastTurn.cost < MostCost
       /\ pc \in {"compact", "summary"} => breaker.cost < CostCap
       /\ pc = "stream" => breaker.cost < CostCap + 1
       /\ pc \in {"egress", "decide"} => breaker.cost < CostCap + 2
       /\ pc = "batch" => breaker.cost + subUsage < CostCap + 2 + Len(results)
       /\ pc = "observe" => breaker.cost + subUsage < MostCost

BoundInv == TypeInv /\ StepsInv /\ CostInv

(* The facts of arithmetic every step below needs.                          *)
LEMMA NumbersOfATurn ==
  ASSUME TypeInv
  PROVE  /\ MaxSteps \in Nat /\ CostCap \in Nat /\ MaxCalls \in Nat
         /\ requests \in Nat /\ subUsage \in Nat /\ Len(results) \in Nat
         /\ breaker.steps \in Nat /\ breaker.cost \in Nat
         /\ lastTurn.cost \in Nat /\ db.lastTurn.cost \in Nat
         /\ breaker \in BreakerType /\ lastTurn \in SummaryType
         /\ step.calls \in 0..MaxCalls
<1>1. MaxSteps \in Nat /\ CostCap \in Nat /\ MaxCalls \in Nat
  BY TurnAssumption
<1>2. /\ requests \in Nat /\ subUsage \in Nat /\ results \in Seq(BOOLEAN)
      /\ breaker \in BreakerType /\ lastTurn \in SummaryType
      /\ step \in StepType /\ db \in RecordType
  BY DEF TypeInv, TypeOK
<1>3. db.lastTurn \in SummaryType
  BY <1>2 DEF RecordType
<1>4. breaker.steps \in Nat /\ breaker.cost \in Nat
  BY <1>2 DEF BreakerType
<1>5. lastTurn.cost \in Nat /\ db.lastTurn.cost \in Nat
  BY <1>2, <1>3 DEF SummaryType
<1>6. step.calls \in 0..MaxCalls /\ Len(results) \in Nat
  BY <1>2 DEF StepType
<1> QED
  BY <1>1, <1>2, <1>4, <1>5, <1>6

(* Every exit keeps the bounds of the read-out it saves.                    *)
LEMMA BoundClose ==
  ASSUME NEW t, NEW status, NEW msgs, NEW spent, NEW last,
         CloseTurn(t, status, msgs, spent, last),
         CostCap > 0 => last.cost < MostCost, requests' <= MaxSteps
  PROVE  StepsInv' /\ CostInv'
<1>1. /\ pc' = "idle" /\ lastTurn' = last /\ db'.lastTurn = last
      /\ breaker' = NewBreaker
  BY DEF CloseTurn, Conclude, DropFrame
<1> QED
  BY <1>1 DEF StepsInv, CostInv, MostCost

(* No step and no cost at the start.                                        *)
LEMMA BoundInit == Init => StepsInv /\ CostInv
<1> SUFFICES ASSUME Init PROVE StepsInv /\ CostInv
  OBVIOUS
<1>1. /\ pc = "idle" /\ requests = 0 /\ lastTurn.cost = 0
      /\ db.lastTurn.cost = 0 /\ breaker = NewBreaker
  BY DEF Init, Snapshot, NewSummary
<1> QED
  BY <1>1, TurnAssumption DEF StepsInv, CostInv, MostCost

(* A new turn starts with a fresh breaker.                                  *)
LEMMA BoundStart ==
  ASSUME BoundInv, StartBlocked \/ StartRouteFails \/ StartTurn
  PROVE  StepsInv' /\ CostInv'
<1>1. pc = "idle" /\ requests' = 0
  BY DEF StartBlocked, StartRouteFails, StartTurn, EnterTurn
<1>2. NewSummary.cost = 0 /\ breaker = NewBreaker
  BY <1>1 DEF NewSummary, BoundInv, StepsInv
<1>3. /\ MaxSteps \in Nat /\ CostCap \in Nat /\ MaxCalls \in Nat
      /\ breaker.steps = 0 /\ breaker.cost = 0
      /\ CostCap > 0 => 0 < MostCost /\ db.lastTurn.cost < MostCost
  <2>1. breaker.steps = 0 /\ breaker.cost = 0
    BY <1>2 DEF NewBreaker
  <2>2. CostCap > 0 => db.lastTurn.cost < MostCost
    BY DEF BoundInv, CostInv
  <2> QED
    BY <2>1, <2>2, TurnAssumption DEF MostCost
<1>4. CASE StartBlocked
  <2>1. CloseTurn(turn + 1, "blocked",
                  messages \o <<AskMsg(turn + 1), RefusalMsg(turn + 1)>>, usage,
                  NewSummary)
    BY <1>4 DEF StartBlocked
  <2> QED
    BY <1>1, <1>2, <1>3, <2>1, BoundClose
<1>5. CASE StartRouteFails
  <2>1. lastTurn' = NewSummary /\ pc' = "idle" /\ db' = db /\ breaker' = breaker
    BY <1>1, <1>5 DEF StartRouteFails, frame
  <2> QED
    BY <1>1, <1>2, <1>3, <2>1 DEF StepsInv, CostInv
<1>6. CASE StartTurn
  <2>1. lastTurn' = NewSummary /\ pc' = "top" /\ db' = db /\ breaker' = breaker
        /\ subUsage' = 0
    BY <1>6 DEF StartTurn
  <2> QED
    BY <1>1, <1>2, <1>3, <2>1 DEF StepsInv, CostInv
<1> QED
  BY <1>4, <1>5, <1>6

(* An exit taken where the read-out is within the bounds.                   *)
LEMMA BoundEnd ==
  ASSUME BoundInv,
         \/ TopCancelled \/ TopTrips \/ StreamFails \/ StreamCancelled
         \/ Finish \/ DecideCancelled \/ ObserveTrips \/ BatchCancelled
  PROVE  StepsInv' /\ CostInv'
<1>1. requests' <= MaxSteps
  BY DEF BoundInv, StepsInv, TopCancelled, TopTrips, StreamFails,
       StreamCancelled, Finish, DecideCancelled, ObserveTrips, BatchCancelled
<1>2. CostCap > 0 => lastTurn.cost < MostCost
  BY DEF BoundInv, CostInv
<1>3. CASE ObserveTrips
  <2>1. pc = "observe" /\
        CloseTurn(turn, "error", ObservedMessages, usage + step.cost + subUsage,
                  ObservedSummary)
    BY <1>3 DEF ObserveTrips
  <2>2. ObservedSummary.cost = lastTurn.cost + subUsage
    BY NumbersOfATurn DEF ObservedSummary, BoundInv, SummaryType
  <2>3. CostCap > 0 => ObservedSummary.cost < MostCost
    BY <2>1, <2>2 DEF BoundInv, CostInv
  <2> QED
    BY <1>1, <2>1, <2>3, BoundClose
<1>4. CASE ~ObserveTrips
  <2>1. \E status, msgs, spent : CloseTurn(turn, status, msgs, spent, lastTurn)
    BY <1>4 DEF TopCancelled, TopTrips, StreamFails, StreamCancelled, Finish,
         DecideCancelled, BatchCancelled
  <2> QED
    BY <1>1, <1>2, <2>1, BoundClose
<1> QED
  BY <1>3, <1>4

(* The cap is checked before a request goes out.                            *)
LEMMA BoundRequest ==
  ASSUME BoundInv, Asking
  PROVE  StepsInv' /\ CostInv'
<1>1. /\ MaxSteps \in Nat /\ CostCap \in Nat /\ MaxCalls \in Nat
      /\ requests \in Nat /\ breaker.steps \in Nat /\ breaker.cost \in Nat
      /\ breaker \in BreakerType /\ lastTurn \in SummaryType
      /\ subUsage' = subUsage
  BY NumbersOfATurn
     DEF BoundInv, Asking, TopProceeds, CompactSkipped, BeginSummary,
         SummaryFails, CompactSucceeds
<1>2. CASE TopProceeds
  <2>1. /\ pc = "top" /\ pc' = "compact" /\ requests' = requests
        /\ breaker' = breaker /\ lastTurn' = lastTurn /\ db' = db
        /\ ~(breaker.steps >= MaxSteps)
        /\ ~(CostCap > 0 /\ breaker.cost >= CostCap)
    BY <1>2 DEF TopProceeds, agentState, frame, BoundReached
  <2> QED
    BY <1>1, <2>1 DEF BoundInv, StepsInv, CostInv
<1>3. CASE CompactSkipped \/ SummaryFails
  <2>1. /\ pc \in {"compact", "summary"} /\ pc' = "stream"
        /\ requests' = requests + 1
        /\ breaker' = breaker /\ lastTurn' = lastTurn /\ db' = db
    BY <1>3 DEF CompactSkipped, SummaryFails, SendRequest, agentState, frame
  <2> QED
    BY <1>1, <2>1 DEF BoundInv, StepsInv, CostInv
<1>4. CASE CompactSucceeds
  <2> DEFINE last == [lastTurn EXCEPT !.compactions = @ + 1, !.cost = @ + 1]
  <2>1. /\ pc = "summary" /\ pc' = "stream" /\ requests' = requests + 1
        /\ lastTurn' = last /\ db'.lastTurn = last
        /\ breaker' = [breaker EXCEPT !.cost = @ + 1]
    BY <1>4 DEF CompactSucceeds, SendRequest
  <2>2. /\ last.cost = lastTurn.cost + 1
        /\ breaker'.cost = breaker.cost + 1 /\ breaker'.steps = breaker.steps
    BY <1>1, <2>1 DEF SummaryType, BreakerType
  <2> HIDE DEF last
  <2> QED
    BY <1>1, <2>1, <2>2 DEF BoundInv, StepsInv, CostInv, MostCost
<1>5. CASE BeginSummary
  <2>1. /\ pc = "compact" /\ pc' = "summary" /\ requests' = requests
        /\ breaker' = breaker /\ lastTurn' = lastTurn /\ db' = db
    BY <1>5 DEF BeginSummary, agentState, frame
  <2> QED
    BY <1>1, <2>1 DEF BoundInv, StepsInv, CostInv
<1> QED
  BY <1>2, <1>3, <1>4, <1>5 DEF Asking

(* A step is charged when its answer is in.                                 *)
LEMMA BoundAnswer ==
  ASSUME BoundInv, StreamCompletes \/ AddAssistant \/ Continue \/ DecideTools
  PROVE  StepsInv' /\ CostInv'
<1>1. /\ MaxSteps \in Nat /\ CostCap \in Nat /\ MaxCalls \in Nat
      /\ requests \in Nat /\ breaker.steps \in Nat /\ breaker.cost \in Nat
      /\ breaker \in BreakerType /\ lastTurn \in SummaryType
      /\ results = <<>> /\ requests' = requests /\ db' = db
      /\ subUsage' = subUsage /\ subUsage = 0 /\ results' = results
      /\ lastTurn.cost = breaker.cost /\ lastTurn.cost \in Nat
  BY NumbersOfATurn
     DEF BoundInv, TypeInv, FrameInv, CostInv, StreamCompletes, AddAssistant,
         Continue, DecideTools, frame
<1>2. CASE StreamCompletes
  <2>1. /\ pc = "stream" /\ pc' = "egress"
        /\ \E n \in 0..MaxCalls, stop \in Stops : RecordStep(n, stop)
    BY <1>2 DEF StreamCompletes
  <2>2. /\ breaker' = [breaker EXCEPT !.steps = @ + 1, !.cost = @ + 1]
        /\ lastTurn' = [lastTurn EXCEPT !.steps = breaker.steps + 1,
                                       !.cost = @ + 1]
    BY <2>1 DEF RecordStep
  <2>3. /\ breaker'.steps = breaker.steps + 1
        /\ breaker'.cost = breaker.cost + 1
        /\ lastTurn'.cost = lastTurn.cost + 1
    BY <1>1, <2>2 DEF BreakerType, SummaryType
  <2> QED
    BY <1>1, <2>1, <2>3 DEF BoundInv, StepsInv, CostInv, MostCost
<1>3. CASE AddAssistant
  <2>1. pc = "egress" /\ pc' = "decide" /\ breaker' = breaker
        /\ lastTurn' = lastTurn
    BY <1>3 DEF AddAssistant, frame
  <2> QED
    BY <1>1, <2>1 DEF BoundInv, StepsInv, CostInv
<1>4. CASE Continue
  <2>1. /\ pc = "decide" /\ pc' = "top" /\ breaker' = breaker
        /\ lastTurn' = [lastTurn EXCEPT !.continuations = loc.continuations + 1]
    BY <1>4 DEF Continue
  <2>2. lastTurn'.cost = lastTurn.cost
    BY <1>1, <2>1 DEF SummaryType
  <2> QED
    BY <1>1, <2>1, <2>2 DEF BoundInv, StepsInv, CostInv
<1>5. CASE DecideTools
  <2>1. pc = "decide" /\ pc' = "batch" /\ breaker' = breaker
        /\ lastTurn' = lastTurn
    BY <1>5 DEF DecideTools, agentState
  <2>2. Len(results') = 0
    BY <1>1
  <2> QED
    BY <1>1, <2>1, <2>2 DEF BoundInv, StepsInv, CostInv
<1> QED
  BY <1>2, <1>3, <1>4, <1>5

(* A batch charges what its sub-agents spent.                               *)
LEMMA BoundBatch ==
  ASSUME BoundInv, RunCall \/ ObserveResult \/ BatchRecorded
  PROVE  StepsInv' /\ CostInv'
<1>1. /\ MaxSteps \in Nat /\ CostCap \in Nat /\ MaxCalls \in Nat
      /\ requests \in Nat /\ breaker.steps \in Nat /\ breaker.cost \in Nat
      /\ breaker \in BreakerType /\ lastTurn \in SummaryType
      /\ subUsage \in Nat /\ Len(results) \in Nat /\ lastTurn.cost \in Nat
      /\ step.calls \in 0..MaxCalls
      /\ lastTurn.cost = breaker.cost /\ requests' = requests /\ db' = db
  BY NumbersOfATurn
     DEF BoundInv, CostInv, RunCall, ObserveResult, BatchRecorded
<1>2. CASE RunCall
  <2>1. /\ pc = "batch" /\ breaker' = breaker /\ lastTurn' = lastTurn
        /\ pc' = IF Len(results') = step.calls THEN "observe" ELSE "batch"
    BY <1>2 DEF RunCall, agentState
  <2>2. \E spent \in 0..1 : subUsage' = subUsage + spent
    BY <1>2, Zenon DEF RunCall
  <2>3. Len(results') = Len(results) + 1
    <3>1. \E ok \in BOOLEAN : results' = Append(results, ok)
      BY <1>2, Zenon DEF RunCall
    <3> QED
      BY <3>1, AppendProperties DEF BoundInv, TypeInv, TypeOK
  <2>4. subUsage' \in Nat /\ subUsage' <= subUsage + 1
    BY <1>1, <2>2
  <2> QED
    BY <1>1, <2>1, <2>3, <2>4 DEF BoundInv, StepsInv, CostInv, MostCost
<1>3. CASE ObserveResult
  <2>1. /\ pc = "observe" /\ lastTurn' = ObservedSummary
        /\ breaker' = [breaker EXCEPT !.cost = @ + subUsage,
                                     !.errors = ErrorStreak]
        /\ subUsage' = 0
        /\ pc' = IF observed + 1 = step.calls THEN "settled" ELSE "observe"
    BY <1>3 DEF ObserveResult
  <2>2. /\ breaker'.cost = breaker.cost + subUsage
        /\ breaker'.steps = breaker.steps
        /\ lastTurn'.cost = lastTurn.cost + subUsage
    BY <1>1, <2>1 DEF BreakerType, SummaryType, ObservedSummary
  <2> QED
    BY <1>1, <2>1, <2>2 DEF BoundInv, StepsInv, CostInv
<1>4. CASE BatchRecorded
  <2>1. /\ pc = "settled" /\ pc' = "top" /\ breaker' = breaker
        /\ lastTurn' = lastTurn /\ subUsage' = subUsage
    BY <1>4 DEF BatchRecorded
  <2> QED
    BY <1>1, <2>1 DEF BoundInv, StepsInv, CostInv
<1> QED
  BY <1>2, <1>3, <1>4

(* Nothing is charged from outside.                                         *)
LEMMA BoundEnvironment ==
  ASSUME BoundInv, Cancel \/ Abandon \/ CrashAndResume
  PROVE  StepsInv' /\ CostInv'
<1>1. CASE Cancel
  BY <1>1 DEF Cancel, agentState, frame, history, BoundInv, StepsInv, CostInv
<1>2. CASE Abandon
  <2>1. pc' = "idle" /\ breaker' = NewBreaker /\ requests' = 0
        /\ lastTurn' = lastTurn /\ db' = db
    BY <1>2 DEF Abandon, DropFrame, DropHistory, agentState
  <2> QED
    BY <2>1, TurnAssumption DEF BoundInv, StepsInv, CostInv
<1>3. CASE CrashAndResume
  <2>1. pc' = "idle" /\ breaker' = NewBreaker /\ requests' = requests
        /\ lastTurn' = db.lastTurn /\ db' = db
    BY <1>3 DEF CrashAndResume, DropFrame, history
  <2> QED
    BY <2>1 DEF BoundInv, StepsInv, CostInv
<1> QED
  BY <1>1, <1>2, <1>3

(* Every step keeps the bounds.                                             *)
LEMMA BoundStep == BoundInv /\ [Next]_vars => BoundInv'
<1> SUFFICES ASSUME BoundInv, [Next]_vars PROVE BoundInv'
  OBVIOUS
<1>1. TypeInv'
  BY TypeStep DEF BoundInv
<1>2. CASE Next
  BY <1>1, <1>2, BoundStart, BoundEnd, BoundRequest, BoundAnswer, BoundBatch,
     BoundEnvironment DEF Next, Worker, Proceed, Asking, BoundInv
<1>3. CASE UNCHANGED vars
  BY <1>1, <1>3 DEF vars, BoundInv, StepsInv, CostInv
<1> QED
  BY <1>2, <1>3

(* The circuit breaker bounds every turn: whatever the model answers, it is *)
(* asked at most MaxSteps times, and the money spent exceeds the cap by     *)
(* less than one summary, one completion and the delegated tasks of one     *)
(* batch.                                                                   *)
THEOREM TurnBounds == Spec => []TurnIsBounded
<1>1. Init => BoundInv
  BY TypeInit, BoundInit DEF BoundInv
<1>2. BoundInv => TurnIsBounded
  BY DEF BoundInv, StepsInv, CostInv, MostCost, TurnIsBounded
<1> QED
  BY <1>1, <1>2, BoundStep, PTL DEF Spec

-----------------------------------------------------------------------------
(* The accounts and the saved session.  The bill of a turn is settled while *)
(* it runs and once it has closed; a crash between turns keeps it settled   *)
(* only because what was closed had also been saved.                        *)
Billed == usage + step.cost = baseUsage + lastTurn.cost - lastTurn.compactions

TurnClosed == pc = "idle" /\ turn > 0 /\ ended[turn] \in Closed

AuditInv ==
  /\ pc # "idle" => lastTurn.steps = breaker.steps
  /\ pc # "idle" \/ TurnClosed => Billed
  /\ TurnClosed => db = Snapshot

SoundInv == BoundInv /\ AuditInv

(* The facts of type every step below needs.                                *)
LEMMA AccountTypes ==
  ASSUME TypeInv
  PROVE  /\ usage \in Nat /\ baseUsage \in Nat /\ subUsage \in Nat
         /\ lastTurn \in SummaryType /\ breaker \in BreakerType
         /\ lastTurn.cost \in Nat /\ lastTurn.compactions \in Nat
         /\ lastTurn.steps \in Nat /\ breaker.steps \in Nat
         /\ step \in StepType /\ step.cost \in Nat
         /\ turn \in 0..MaxTurns /\ MaxTurns \in Nat
         /\ ended \in [1..MaxTurns -> Statuses] /\ db \in RecordType
         /\ pc \in {"idle", "top", "compact", "summary", "stream"} => step.cost = 0
         /\ pc # "idle" => turn \in 1..MaxTurns
<1>1. /\ usage \in Nat /\ baseUsage \in Nat /\ subUsage \in Nat
      /\ lastTurn \in SummaryType /\ breaker \in BreakerType
      /\ step \in StepType /\ db \in RecordType
      /\ turn \in 0..MaxTurns /\ ended \in [1..MaxTurns -> Statuses]
      /\ pc # "idle" => turn \in 1..MaxTurns
  BY DEF TypeInv, TypeOK
<1>2. /\ lastTurn.cost \in Nat /\ lastTurn.compactions \in Nat
      /\ lastTurn.steps \in Nat /\ breaker.steps \in Nat /\ step.cost \in Nat
  BY <1>1 DEF SummaryType, BreakerType, StepType
<1>3. pc \in {"idle", "top", "compact", "summary", "stream"} => step.cost = 0
  BY DEF TypeInv, FrameInv, NoStep
<1> QED
  BY <1>1, <1>2, <1>3, TurnAssumption

(* Every exit settles the bill and saves what it leaves.                    *)
LEMMA AuditClose ==
  ASSUME NEW t, NEW status, NEW msgs, NEW spent \in Nat,
         NEW last, CloseTurn(t, status, msgs, spent, last),
         spent = baseUsage' + last.cost - last.compactions
  PROVE  AuditInv'
<1>1. /\ pc' = "idle" /\ messages' = msgs /\ usage' = spent /\ lastTurn' = last
      /\ step' = NoStep
      /\ db' = [messages |-> msgs, phase |-> phase', usage |-> spent,
                lastTurn |-> last]
  BY DEF CloseTurn, Conclude, DropFrame
<1>2. db' = Snapshot'
  BY <1>1 DEF Snapshot
<1>3. Billed'
  BY <1>1 DEF Billed, NoStep
<1> QED
  BY <1>1, <1>2, <1>3 DEF AuditInv

(* The accounts are empty at the start.                                     *)
LEMMA AuditInit == Init => AuditInv
<1> SUFFICES ASSUME Init PROVE AuditInv
  OBVIOUS
<1>1. pc = "idle" /\ turn = 0
  BY DEF Init
<1> QED
  BY <1>1 DEF AuditInv, TurnClosed

(* A new turn takes over settled accounts.                                  *)
LEMMA AuditStart ==
  ASSUME SoundInv, StartBlocked \/ StartRouteFails \/ StartTurn
  PROVE  AuditInv'
<1>1. /\ pc = "idle" /\ turn' = turn + 1 /\ baseUsage' = usage
      /\ turn < MaxTurns
  BY DEF StartBlocked, StartRouteFails, StartTurn, EnterTurn
<1>2. /\ usage \in Nat /\ breaker.steps = 0 /\ step.cost = 0
      /\ turn + 1 \in 1..MaxTurns /\ ended \in [1..MaxTurns -> Statuses]
      /\ NewSummary.cost = 0 /\ NewSummary.compactions = 0
      /\ NewSummary.steps = 0
  BY <1>1, AccountTypes
     DEF SoundInv, BoundInv, StepsInv, NewBreaker, NewSummary
<1>3. CASE StartBlocked
  <2>1. CloseTurn(turn + 1, "blocked",
                  messages \o <<AskMsg(turn + 1), RefusalMsg(turn + 1)>>, usage,
                  NewSummary)
    BY <1>3 DEF StartBlocked
  <2>2. usage = baseUsage' + NewSummary.cost - NewSummary.compactions
    BY <1>1, <1>2
  <2> QED
    BY <1>1, <1>2, <2>1, <2>2, AuditClose
<1>4. CASE StartRouteFails
  <2>1. pc' = "idle" /\ ended' = [ended EXCEPT ![turn + 1] = "escaped"]
    BY <1>1, <1>4 DEF StartRouteFails
  <2>2. ended'[turn'] \notin Closed
    BY <1>1, <1>2, <2>1 DEF Closed
  <2> QED
    BY <1>1, <2>1, <2>2 DEF AuditInv, TurnClosed
<1>5. CASE StartTurn
  <2>1. /\ pc' = "top" /\ usage' = usage /\ step' = step /\ breaker' = breaker
        /\ lastTurn' = NewSummary
    BY <1>5 DEF StartTurn
  <2> QED
    BY <1>1, <1>2, <2>1 DEF AuditInv, TurnClosed, Billed
<1> QED
  BY <1>3, <1>4, <1>5

(* Each way to close a turn settles them, and saves.                        *)
LEMMA AuditEnd ==
  ASSUME SoundInv,
         \/ TopCancelled \/ TopTrips \/ StreamFails \/ StreamCancelled
         \/ Finish \/ DecideCancelled \/ ObserveTrips \/ BatchCancelled
  PROVE  AuditInv'
<1>1. /\ pc # "idle" /\ baseUsage' = baseUsage
  BY DEF Running, TopCancelled, TopTrips, StreamFails,
       StreamCancelled, Finish, DecideCancelled, ObserveTrips, BatchCancelled
<1>2. Billed
  BY <1>1 DEF SoundInv, AuditInv
<1>3. /\ usage \in Nat /\ baseUsage \in Nat /\ step.cost \in Nat
      /\ subUsage \in Nat /\ lastTurn \in SummaryType
      /\ lastTurn.cost \in Nat /\ lastTurn.compactions \in Nat
      /\ pc \in {"top", "stream"} => step.cost = 0
  BY AccountTypes DEF SoundInv, BoundInv
<1>4. CASE ObserveTrips
  <2>1. CloseTurn(turn, "error", ObservedMessages, usage + step.cost + subUsage,
                  ObservedSummary)
    BY <1>4 DEF ObserveTrips
  <2>2. /\ ObservedSummary.cost = lastTurn.cost + subUsage
        /\ ObservedSummary.compactions = lastTurn.compactions
    BY <1>3 DEF ObservedSummary, SummaryType
  <2>3. usage + step.cost + subUsage
          = baseUsage' + ObservedSummary.cost - ObservedSummary.compactions
    BY <1>1, <1>2, <1>3, <2>2 DEF Billed
  <2>4. usage + step.cost + subUsage \in Nat
    BY <1>3
  <2> QED
    BY <1>2, <2>1, <2>3, <2>4, AuditClose
<1>5. CASE DecideCancelled \/ Finish \/ BatchCancelled
  <2>1. \E status, msgs :
          CloseTurn(turn, status, msgs, usage + step.cost, lastTurn)
    BY <1>5 DEF Finish, DecideCancelled, BatchCancelled
  <2>2. usage + step.cost = baseUsage' + lastTurn.cost - lastTurn.compactions
        /\ usage + step.cost \in Nat
    BY <1>1, <1>2, <1>3 DEF Billed
  <2> QED
    BY <1>2, <2>1, <2>2, AuditClose
<1>6. CASE TopCancelled \/ TopTrips \/ StreamFails \/ StreamCancelled
  <2>1. /\ pc \in {"top", "stream"}
        /\ \E status, msgs : CloseTurn(turn, status, msgs, usage, lastTurn)
    BY <1>6 DEF TopCancelled, TopTrips, StreamFails, StreamCancelled
  <2>2. usage = baseUsage' + lastTurn.cost - lastTurn.compactions
    BY <1>1, <1>2, <1>3, <2>1 DEF Billed
  <2> QED
    BY <1>2, <1>3, <2>1, <2>2, AuditClose
<1> QED
  BY <1>4, <1>5, <1>6

(* The top of the loop and the compaction, which is paid for like a step.   *)
LEMMA AuditRequest ==
  ASSUME SoundInv, Asking
  PROVE  AuditInv'
<1>1. /\ lastTurn \in SummaryType /\ breaker \in BreakerType
      /\ lastTurn.cost \in Nat /\ lastTurn.compactions \in Nat
      /\ usage \in Nat /\ baseUsage \in Nat /\ step.cost \in Nat
  BY AccountTypes DEF SoundInv, BoundInv
<1>2. /\ pc # "idle" /\ pc' # "idle"
      /\ usage' = usage /\ step' = step /\ baseUsage' = baseUsage
  BY DEF Asking, TopProceeds, CompactSkipped, BeginSummary, SummaryFails,
         CompactSucceeds, SendRequest, Running, agentState, frame
<1>3. Billed /\ lastTurn.steps = breaker.steps
  BY <1>2 DEF SoundInv, AuditInv
<1>4. lastTurn'.steps = breaker'.steps /\ Billed'
  <2>1. CASE TopProceeds \/ CompactSkipped \/ BeginSummary \/ SummaryFails
    <3>1. lastTurn' = lastTurn /\ breaker' = breaker
      BY <2>1 DEF TopProceeds, CompactSkipped, BeginSummary, SummaryFails,
           agentState, frame
    <3> QED
      BY <1>2, <1>3, <3>1 DEF Billed
  <2>2. CASE CompactSucceeds
    <3>1. /\ lastTurn' = [lastTurn EXCEPT !.compactions = @ + 1, !.cost = @ + 1]
          /\ breaker' = [breaker EXCEPT !.cost = @ + 1]
      BY <2>2 DEF CompactSucceeds
    <3>2. /\ lastTurn'.cost = lastTurn.cost + 1
          /\ lastTurn'.compactions = lastTurn.compactions + 1
          /\ lastTurn'.steps = lastTurn.steps /\ breaker'.steps = breaker.steps
      BY <1>1, <3>1 DEF SummaryType, BreakerType
    <3>3. usage' = usage /\ step'.cost = step.cost /\ baseUsage' = baseUsage
      BY <1>2
    <3>4. Billed'
      BY <1>1, <1>3, <3>2, <3>3 DEF Billed
    <3> QED
      BY <1>3, <3>2, <3>4
  <2> QED
    BY <2>1, <2>2, Zenon DEF Asking
<1> QED
  BY <1>2, <1>4 DEF AuditInv, TurnClosed

(* An answer is charged to each account once.                               *)
LEMMA AuditAnswer ==
  ASSUME SoundInv, StreamCompletes \/ AddAssistant \/ Continue \/ DecideTools
  PROVE  AuditInv'
<1>1. /\ lastTurn \in SummaryType /\ breaker \in BreakerType
      /\ lastTurn.cost \in Nat /\ lastTurn.compactions \in Nat
      /\ lastTurn.steps \in Nat /\ breaker.steps \in Nat
      /\ usage \in Nat /\ baseUsage \in Nat /\ step.cost \in Nat
      /\ pc = "stream" => step.cost = 0
  BY AccountTypes DEF SoundInv, BoundInv
<1>2. /\ pc \in {"stream", "egress", "decide"} /\ pc' # "idle"
      /\ baseUsage' = baseUsage
  BY DEF StreamCompletes, AddAssistant, Continue, DecideTools, Running
<1>3. Billed /\ lastTurn.steps = breaker.steps
  BY <1>2 DEF SoundInv, AuditInv
<1>4. lastTurn'.steps = breaker'.steps /\ Billed'
  <2>1. CASE StreamCompletes
    <3>1. pc = "stream" /\ usage' = usage
          /\ \E n \in 0..MaxCalls, stop \in Stops : RecordStep(n, stop)
      BY <2>1 DEF StreamCompletes
    <3>2. /\ breaker' = [breaker EXCEPT !.steps = @ + 1, !.cost = @ + 1]
          /\ lastTurn' = [lastTurn EXCEPT !.steps = breaker.steps + 1,
                                         !.cost = @ + 1]
          /\ step'.cost = 1
      BY <3>1 DEF RecordStep
    <3>3. /\ breaker'.steps = breaker.steps + 1
          /\ lastTurn'.steps = breaker.steps + 1
          /\ lastTurn'.cost = lastTurn.cost + 1
          /\ lastTurn'.compactions = lastTurn.compactions
      BY <1>1, <3>2 DEF SummaryType, BreakerType
    <3> QED
      BY <1>1, <1>2, <1>3, <3>1, <3>2, <3>3 DEF Billed
  <2>2. CASE AddAssistant \/ DecideTools
    <3>1. /\ usage' = usage /\ lastTurn' = lastTurn /\ breaker' = breaker
          /\ step' = step
      BY <2>2 DEF AddAssistant, DecideTools, agentState, frame
    <3> QED
      BY <1>2, <1>3, <3>1 DEF Billed
  <2>3. CASE Continue
    <3>1. /\ usage' = usage + step.cost /\ step' = NoStep /\ breaker' = breaker
          /\ lastTurn' = [lastTurn EXCEPT !.continuations
                                            = loc.continuations + 1]
      BY <2>3 DEF Continue
    <3>2. /\ lastTurn'.cost = lastTurn.cost
          /\ lastTurn'.compactions = lastTurn.compactions
          /\ lastTurn'.steps = lastTurn.steps /\ step'.cost = 0
      BY <1>1, <3>1 DEF SummaryType, NoStep
    <3> QED
      BY <1>1, <1>2, <1>3, <3>1, <3>2 DEF Billed
  <2> QED
    BY <2>1, <2>2, <2>3
<1> QED
  BY <1>2, <1>3, <1>4 DEF AuditInv, TurnClosed

(* What a batch spent is charged with its results.                          *)
LEMMA AuditBatch ==
  ASSUME SoundInv, RunCall \/ ObserveResult \/ BatchRecorded
  PROVE  AuditInv'
<1>1. /\ lastTurn \in SummaryType /\ breaker \in BreakerType
      /\ lastTurn.cost \in Nat /\ lastTurn.compactions \in Nat
      /\ usage \in Nat /\ baseUsage \in Nat /\ step.cost \in Nat
      /\ step \in StepType /\ subUsage \in Nat
  BY AccountTypes DEF SoundInv, BoundInv
<1>2. /\ pc \in {"batch", "observe", "settled"} /\ pc' # "idle"
      /\ baseUsage' = baseUsage
  BY DEF RunCall, ObserveResult, BatchRecorded, Running
<1>3. Billed /\ lastTurn.steps = breaker.steps
  BY <1>2 DEF SoundInv, AuditInv
<1>4. lastTurn'.steps = breaker'.steps /\ Billed'
  <2>1. CASE RunCall
    <3>1. /\ usage' = usage /\ lastTurn' = lastTurn /\ breaker' = breaker
          /\ step' = step
      BY <2>1 DEF RunCall, agentState
    <3> QED
      BY <1>2, <1>3, <3>1 DEF Billed
  <2>2. CASE ObserveResult
    <3>1. /\ lastTurn' = ObservedSummary /\ usage' = usage
          /\ breaker' = [breaker EXCEPT !.cost = @ + subUsage,
                                       !.errors = ErrorStreak]
          /\ step' = [step EXCEPT !.cost = @ + subUsage]
      BY <2>2 DEF ObserveResult
    <3>2. /\ lastTurn'.cost = lastTurn.cost + subUsage
          /\ lastTurn'.compactions = lastTurn.compactions
          /\ lastTurn'.steps = lastTurn.steps /\ breaker'.steps = breaker.steps
          /\ step'.cost = step.cost + subUsage
      BY <1>1, <3>1 DEF SummaryType, BreakerType, StepType, ObservedSummary
    <3> QED
      BY <1>1, <1>2, <1>3, <3>1, <3>2 DEF Billed
  <2>3. CASE BatchRecorded
    <3>1. /\ usage' = usage + step.cost /\ step' = NoStep /\ breaker' = breaker
          /\ lastTurn' = lastTurn /\ step'.cost = 0
      BY <2>3 DEF BatchRecorded, NoStep
    <3> QED
      BY <1>1, <1>2, <1>3, <3>1 DEF Billed
  <2> QED
    BY <2>1, <2>2, <2>3
<1> QED
  BY <1>2, <1>3, <1>4 DEF AuditInv, TurnClosed

(* A cancel, a consumer that lets go, and a crash.                          *)
LEMMA AuditEnvironment ==
  ASSUME SoundInv, Cancel \/ Abandon \/ CrashAndResume
  PROVE  AuditInv'
<1>1. /\ turn \in 0..MaxTurns /\ ended \in [1..MaxTurns -> Statuses]
      /\ db \in RecordType
      /\ pc # "idle" => turn \in 1..MaxTurns
      /\ pc = "idle" => step.cost = 0
  BY AccountTypes DEF SoundInv, BoundInv
<1>2. CASE Cancel
  BY <1>2 DEF Cancel, agentState, frame, history, SoundInv, AuditInv,
       TurnClosed, Billed, Snapshot
<1>3. CASE Abandon
  <2>1. /\ pc # "idle" /\ pc' = "idle" /\ turn' = turn
        /\ ended' = [ended EXCEPT ![turn] = "abandoned"]
    BY <1>3 DEF Abandon, DropHistory
  <2>2. ended'[turn'] \notin Closed
    BY <1>1, <2>1 DEF Closed
  <2> QED
    BY <2>1, <2>2 DEF AuditInv, TurnClosed
<1>4. CASE CrashAndResume
  <2>1. /\ pc' = "idle" /\ turn' = turn /\ db' = db
        /\ messages' = db.messages /\ phase' = db.phase /\ usage' = db.usage
        /\ lastTurn' = db.lastTurn /\ baseUsage' = baseUsage /\ step' = NoStep
        /\ ended' = IF pc = "idle" THEN ended
                    ELSE [ended EXCEPT ![turn] = "crashed"]
    BY <1>4 DEF CrashAndResume, DropFrame, history
  <2>2. db' = Snapshot'
    BY <1>1, <2>1 DEF Snapshot, RecordType
  <2>3. TurnClosed' => TurnClosed
    <3>1. pc # "idle" => ended'[turn'] \notin Closed
      BY <1>1, <2>1 DEF Closed
    <3> QED
      BY <2>1, <3>1 DEF TurnClosed
  <2>4. TurnClosed => usage = db.usage /\ lastTurn = db.lastTurn
    BY DEF SoundInv, AuditInv, Snapshot
  <2>5. TurnClosed => Billed'
    <3>1. TurnClosed => Billed /\ step.cost = 0
      BY <1>1 DEF SoundInv, AuditInv, TurnClosed
    <3> QED
      BY <2>1, <2>4, <3>1 DEF Billed, NoStep
  <2> QED
    BY <2>1, <2>2, <2>3, <2>5 DEF AuditInv, SoundInv
<1> QED
  BY <1>2, <1>3, <1>4

(* Every step keeps the bounds and the accounts.                            *)
LEMMA AuditStep == SoundInv /\ [Next]_vars => SoundInv'
<1> SUFFICES ASSUME SoundInv, [Next]_vars PROVE SoundInv'
  OBVIOUS
<1>1. BoundInv'
  BY BoundStep DEF SoundInv
<1>2. CASE Next
  BY <1>1, <1>2, AuditStart, AuditEnd, AuditRequest, AuditAnswer, AuditBatch,
     AuditEnvironment DEF Next, Worker, Proceed, Asking, SoundInv
<1>3. CASE UNCHANGED vars
  BY <1>1, <1>3 DEF vars, SoundInv, AuditInv, TurnClosed, Billed, Snapshot
<1> QED
  BY <1>2, <1>3

(* The bounds and the accounts hold in every reachable state.               *)
LEMMA AuditHolds == Spec => []SoundInv
<1>1. Init => SoundInv
  BY TypeInit, BoundInit, AuditInit DEF SoundInv, BoundInv
<1> QED
  BY <1>1, AuditStep, PTL DEF Spec

(* The read-out, the breaker and the session's bill agree at every moment   *)
(* of a turn and after every turn that closed, also in a process that was   *)
(* resumed.                                                                 *)
THEOREM AccountsSettle == Spec => []AccountsAgree
<1>1. SoundInv => AccountsAgree
  BY DEF SoundInv, BoundInv, CostInv, AuditInv, AccountsAgree, TurnClosed,
         Billed, Unbilled
<1> QED
  BY <1>1, AuditHolds, PTL

(* A turn that told its user it was over has been saved as it stood.        *)
THEOREM ClosedIsSaved == Spec => []ClosedTurnIsDurable
<1>1. SoundInv => ClosedTurnIsDurable
  BY DEF SoundInv, AuditInv, TurnClosed, ClosedTurnIsDurable
<1> QED
  BY <1>1, AuditHolds, PTL

(* Where the turn stands when something was still spent after a cancel.     *)
(* Nothing is asked for at the top of the loop or before the compaction is  *)
(* decided; what a late summary and a late request leave is noticed before  *)
(* the answer is taken, and what late tasks leave before the next step.     *)
LateInv ==
  /\ CancelEndsTheStep
  /\ pc # "idle" =>
       /\ late # NothingLate => cancel
       /\ late.tasks <= Len(results)
       /\ pc \in {"top", "compact"} => late = NothingLate
       /\ pc = "summary" => late.requests = 0
       /\ pc \notin {"summary", "stream"} =>
            late.summaries = 0 /\ late.requests = 0

(* A turn that stops counts nothing any more.                               *)
LEMMA LateStops ==
  ASSUME LateInv, pc' = "idle", late' \in {late, NothingLate}
  PROVE  LateInv'
<1>1. /\ NothingLate.summaries = 0 /\ NothingLate.requests = 0
      /\ NothingLate.tasks = 0 /\ MaxCalls \in Nat
  BY TurnAssumption DEF NothingLate
<1> QED
  BY <1>1 DEF LateInv, CancelEndsTheStep

(* On the way to the request at most one summary and the request are late.  *)
LEMMA LateAsking ==
  ASSUME TypeInv, LateInv, Asking
  PROVE  LateInv'
<1>1. /\ late \in LateType /\ MaxCalls \in Nat /\ results = <<>>
      /\ Len(results) = 0 /\ pc \in {"top", "compact", "summary"}
      /\ late.tasks <= Len(results) /\ late.summaries <= 1
      /\ late # NothingLate => cancel
      /\ pc \in {"top", "compact"} => late = NothingLate
      /\ pc = "summary" => late.requests = 0
  <2>1. pc \in {"top", "compact", "summary"}
    BY DEF Asking, TopProceeds, CompactSkipped, BeginSummary, SummaryFails,
           CompactSucceeds
  <2> QED
    BY <2>1, TurnAssumption
       DEF TypeInv, TypeOK, FrameInv, LateInv, CancelEndsTheStep
<1>2. /\ late.summaries \in Nat /\ late.requests \in Nat /\ late.tasks = 0
      /\ pc \in {"top", "compact"} => late.summaries = 0 /\ late.requests = 0
  BY <1>1 DEF LateType, NothingLate
<1>3. cancel' = cancel /\ results' = results
  BY DEF Asking, TopProceeds, CompactSkipped, BeginSummary, SummaryFails,
         CompactSucceeds, frame
<1>4. CASE TopProceeds
  <2>1. pc = "top" /\ pc' = "compact" /\ late' = late
    BY <1>4 DEF TopProceeds
  <2> QED
    BY <1>1, <1>2, <1>3, <2>1 DEF LateInv, CancelEndsTheStep
<1>5. CASE BeginSummary
  <2>1. /\ pc = "compact" /\ pc' = "summary"
        /\ late' = IF cancel THEN [late EXCEPT !.summaries = @ + 1] ELSE late
    BY <1>5 DEF BeginSummary
  <2>2. /\ late'.summaries <= 1 /\ late'.requests = 0 /\ late'.tasks = 0
        /\ late' # NothingLate => cancel
    BY <1>1, <1>2, <2>1 DEF LateType
  <2> QED
    BY <1>1, <1>3, <2>1, <2>2 DEF LateInv, CancelEndsTheStep
<1>6. CASE CompactSkipped \/ SummaryFails \/ CompactSucceeds
  <2>1. /\ pc \in {"compact", "summary"} /\ pc' = "stream"
        /\ late' = IF cancel THEN [late EXCEPT !.requests = @ + 1] ELSE late
    BY <1>6 DEF CompactSkipped, SummaryFails, CompactSucceeds, SendRequest
  <2>2. /\ late'.summaries <= 1 /\ late'.requests <= 1 /\ late'.tasks = 0
        /\ late' # NothingLate => cancel
    BY <1>1, <1>2, <2>1 DEF LateType
  <2> QED
    BY <1>1, <1>3, <2>1, <2>2 DEF LateInv, CancelEndsTheStep
<1> QED
  BY <1>4, <1>5, <1>6 DEF Asking

(* An answer is taken, and a new step begun, only where nothing was late.   *)
LEMMA LateAnswer ==
  ASSUME TypeInv, LateInv,
         \/ StreamCompletes \/ AddAssistant \/ Continue \/ DecideTools
  PROVE  LateInv'
<1>1. /\ pc \in {"stream", "egress", "decide"} /\ late' = late
      /\ pc' \in {"egress", "decide", "top", "batch"}
      /\ cancel' = cancel /\ results' = results
      /\ pc = "stream" \/ pc' = "top" => ~cancel
  BY DEF StreamCompletes, AddAssistant, Continue, MayContinue, DecideTools,
         frame
<1>2. /\ late \in LateType /\ MaxCalls \in Nat /\ results = <<>>
      /\ Len(results) = 0
  BY <1>1, TurnAssumption DEF TypeInv, TypeOK, FrameInv
<1>3. late.summaries = 0 /\ late.requests = 0 /\ late.tasks = 0
  BY <1>1, <1>2 DEF LateInv, LateType, NothingLate
<1>4. late = NothingLate
  BY <1>2, <1>3 DEF LateType, NothingLate
<1> QED
  BY <1>1, <1>2, <1>3, <1>4 DEF LateInv, CancelEndsTheStep

(* In a batch the late tasks are calls of that batch.                       *)
LEMMA LateBatch ==
  ASSUME TypeInv, TypeInv', LateInv, RunCall \/ ObserveResult \/ BatchRecorded
  PROVE  LateInv'
<1>1. /\ pc \in {"batch", "observe", "settled"} /\ cancel' = cancel
      /\ pc' \in {"batch", "observe", "settled", "top"}
  BY DEF RunCall, ObserveResult, BatchRecorded
<1>2. /\ late \in LateType /\ late' \in LateType /\ MaxCalls \in Nat
      /\ results \in Seq(BOOLEAN) /\ Len(results) \in Nat
      /\ Len(results) <= MaxCalls
      /\ Len(results') \in Nat /\ Len(results') <= MaxCalls
      /\ late.summaries = 0 /\ late.requests = 0
      /\ late.tasks \in Nat /\ late.tasks <= Len(results)
      /\ late # NothingLate => cancel
  <2>1. /\ results \in Seq(BOOLEAN) /\ Len(results) <= step.calls
        /\ step \in StepType /\ late \in LateType /\ MaxCalls \in Nat
    BY TurnAssumption DEF TypeInv, TypeOK
  <2>2. /\ results' \in Seq(BOOLEAN) /\ Len(results') <= step'.calls
        /\ step' \in StepType /\ late' \in LateType
    BY DEF TypeInv, TypeOK
  <2>3. step.calls \in 0..MaxCalls /\ step'.calls \in 0..MaxCalls
    BY <2>1, <2>2 DEF StepType
  <2>4. Len(results) \in Nat /\ Len(results') \in Nat
    BY <2>1, <2>2
  <2>5. late.tasks \in Nat
    BY <2>1 DEF LateType
  <2> QED
    BY <1>1, <2>1, <2>2, <2>3, <2>4, <2>5 DEF LateInv
<1>3. CASE RunCall
  <2>1. /\ \E spent \in 0..1 :
             late' = IF cancel THEN [late EXCEPT !.tasks = @ + spent] ELSE late
        /\ \E ok \in BOOLEAN : results' = Append(results, ok)
        /\ pc' \in {"batch", "observe"}
    BY <1>3, Zenon DEF RunCall
  <2>2. PICK spent \in 0..1 :
          late' = IF cancel THEN [late EXCEPT !.tasks = @ + spent] ELSE late
    BY <2>1
  <2>3. Len(results') = Len(results) + 1
    BY <1>2, <2>1, AppendProperties
  <2>4. /\ late'.summaries = 0 /\ late'.requests = 0
        /\ late'.tasks <= Len(results) + 1
        /\ late' # NothingLate => cancel
    BY <1>2, <2>2 DEF LateType
  <2>5. late'.tasks \in Nat
    BY <1>2 DEF LateType
  <2> QED
    BY <1>1, <1>2, <2>1, <2>3, <2>4, <2>5 DEF LateInv, CancelEndsTheStep
<1>4. CASE ObserveResult
  <2>1. /\ late' = late /\ results' = results
        /\ pc' \in {"observe", "settled"}
    BY <1>4 DEF ObserveResult
  <2> QED
    BY <1>1, <1>2, <2>1 DEF LateInv, CancelEndsTheStep
<1>5. CASE BatchRecorded
  <2>1. late' = late /\ ~cancel
    BY <1>5 DEF BatchRecorded
  <2>2. late' = NothingLate
    BY <1>2, <2>1
  <2> QED
    BY <1>1, <1>2, <2>2 DEF LateInv, CancelEndsTheStep, NothingLate
<1> QED
  BY <1>3, <1>4, <1>5

(* Every step keeps it.                                                     *)
LEMMA LateStep == TypeInv /\ LateInv /\ [Next]_vars => LateInv'
<1> SUFFICES ASSUME TypeInv, LateInv, [Next]_vars PROVE LateInv'
  OBVIOUS
<1>1. TypeInv'
  BY TypeStep
<1>2. CASE StartBlocked \/ StartRouteFails
  <2>1. pc' = "idle" /\ late' = NothingLate
    BY <1>2 DEF StartBlocked, StartRouteFails, EnterTurn, CloseTurn
  <2> QED
    BY <2>1, LateStops
<1>3. CASE StartTurn
  <2>1. /\ pc' = "top" /\ late' = NothingLate /\ results' = results
        /\ results = <<>>
    BY <1>3 DEF StartTurn, EnterTurn, TypeInv, FrameInv
  <2> QED
    BY <2>1, TurnAssumption DEF LateInv, CancelEndsTheStep, NothingLate
<1>4. CASE \/ TopCancelled \/ TopTrips \/ StreamFails \/ StreamCancelled
           \/ Finish \/ DecideCancelled \/ ObserveTrips \/ BatchCancelled
  <2>1. pc' = "idle" /\ late' = late
    BY <1>4 DEF TopCancelled, TopTrips, StreamFails, StreamCancelled, Finish,
         DecideCancelled, ObserveTrips, BatchCancelled, CloseTurn
  <2> QED
    BY <2>1, LateStops
<1>5. CASE Cancel
  BY <1>5 DEF Cancel, frame, history, LateInv, CancelEndsTheStep
<1>6. CASE Abandon \/ CrashAndResume
  <2>1. pc' = "idle" /\ late' \in {late, NothingLate}
    BY <1>6 DEF Abandon, CrashAndResume, DropHistory, history
  <2> QED
    BY <2>1, LateStops
<1>7. CASE UNCHANGED vars
  BY <1>7 DEF vars, LateInv, CancelEndsTheStep
<1> QED
  BY <1>1, <1>2, <1>3, <1>4, <1>5, <1>6, <1>7, LateAsking, LateAnswer, LateBatch
     DEF Next, Worker, Proceed, Asking

(* However often and whenever the user cancels: after it at most a summary  *)
(* and the request it was for begin, and the request's answer never joins   *)
(* the history; or, in a batch, only delegated tasks of that batch.         *)
THEOREM CancelIsPrompt == Spec => []CancelEndsTheStep
<1>1. Init => LateInv
  BY TurnAssumption DEF Init, LateInv, CancelEndsTheStep, NothingLate
<1>2. LateInv => CancelEndsTheStep
  BY DEF LateInv
<1>3. TypeInv /\ LateInv /\ [Next]_vars => (TypeInv /\ LateInv)'
  BY TypeStep, LateStep
<1> QED
  BY <1>1, <1>2, <1>3, TypeInit, PTL DEF Spec

-----------------------------------------------------------------------------
(* The strengthening.  Every assistant message was written by one of the    *)
(* turns that were started, and no turn but the running one is open.        *)
SignedBy(msgs, n) ==
  \A i \in 1..Len(msgs) : msgs[i].role = "assistant" => msgs[i].turn \in 1..n

TurnsInv ==
  /\ \A t \in 1..MaxTurns : ended[t] = "open" => t = turn /\ pc # "idle"
  /\ SignedBy(messages, turn) /\ SignedBy(db.messages, turn)

(* The open batch is the end of the history: the assistant message that     *)
(* made the calls and the observations so far, in call order.               *)
OpenBatch(msgs, n, calls, t) ==
  LET a == Len(msgs) - n
  IN /\ a >= 1
     /\ msgs[a].role = "assistant" /\ msgs[a].text = "answer"
     /\ msgs[a].calls = calls /\ msgs[a].turn = t
     /\ \A j \in 1..n :
          /\ msgs[a + j].role = "tool" /\ msgs[a + j].text = "result"
          /\ msgs[a + j].call = j

BatchInv ==
  /\ pc \in {"decide", "batch", "observe", "settled"} =>
       OpenBatch(messages, observed, step.calls, turn)
  /\ pc \in {"batch", "observe", "settled"} =>
       step.calls > 0 /\ loc.contStart = None
  /\ pc = "settled" => observed = step.calls
  /\ Anchored(messages) /\ Anchored(db.messages)

(* A call is left unanswered by a turn that was cut short, and by the one   *)
(* whose batch is open.                                                     *)
CutShort == {"cancelled", "error", "abandoned"}

ShortExcept(msgs, e, k) ==
  \A i \in 1..Len(msgs) :
    UnansweredAt(msgs, i) /\ i # k => e[msgs[i].turn] \in CutShort

OpenPosition ==
  IF pc \in {"decide", "batch", "observe"} THEN Len(messages) - observed ELSE 0

CallsInv ==
  /\ ShortExcept(messages, ended, OpenPosition)
  /\ ShortExcept(db.messages, ended, 0)

(* What follows the start of a collapse is the answer in pieces: wherever   *)
(* compaction has moved the history under it, the collapse never takes a    *)
(* tool result or an ask.                                                   *)
ChainFrom(msgs, s) ==
  /\ s >= 1
  /\ \A j \in 1..Len(msgs) :
       j > s => msgs[j].role # "tool" /\ msgs[j].text # "ask"

ChainInv ==
  /\ pc # "idle" => Len(messages) > 0
  /\ pc = "decide" => Len(messages) > 1
  /\ pc # "idle" /\ loc.contStart # None => ChainFrom(messages, loc.contStart)

(* The ask of the running turn, where it was put and then where the first   *)
(* compaction left it.                                                      *)
IsAskOf(msgs, k, t) ==
  k \in 1..Len(msgs) /\ msgs[k].text = "ask" /\ msgs[k].turn = t

AskInv ==
  /\ pc # "idle" /\ lastTurn.compactions = 0 =>
       IsAskOf(messages, loc.turnStart + 1, turn)
  /\ pc # "idle" /\ lastTurn.compactions = 1 => Holds(messages, "ask", turn)

Remembered(msgs, t) == Holds(msgs, "ask", t) \/ HeadIsSummary(msgs)

MemoryInv ==
  /\ NothingForgottenSilently
  /\ \A t \in 1..turn :
       \/ ended[t] \in {"escaped", "crashed", "abandoned", "open"}
       \/ Remembered(db.messages, t)

(* Where the answer of a turn that was not compacted begins: after the ask, *)
(* or after the results of a batch.                                         *)
Begins(msgs, k, t) ==
  /\ k \in 1..Len(msgs)
  /\ \/ msgs[k].text = "ask" /\ msgs[k].turn = t
     \/ msgs[k].text = "result"

AnswerInv ==
  pc # "idle" /\ lastTurn.compactions = 0 =>
    /\ loc.contStart = None => loc.contParts = 0
    /\ pc \in {"top", "compact", "summary", "stream", "egress"} =>
         /\ pieces = loc.contParts
         /\ Begins(messages, IF loc.contStart = None THEN Len(messages)
                             ELSE loc.contStart, turn)
    /\ pc = "decide" /\ step.calls = 0 =>
         /\ pieces = loc.contParts + 1
         /\ Begins(messages, IF loc.contStart = None THEN Len(messages) - 1
                             ELSE loc.contStart, turn)
         /\ messages[Len(messages)].parts = 1
    /\ pc \in {"batch", "observe", "settled"} => pieces = 0
    /\ pc = "decide" /\ step.calls > 0 => pieces = 0

HistoryInv ==
  /\ SoundInv
  /\ TurnsInv /\ BatchInv /\ CallsInv /\ ChainInv /\ AskInv /\ MemoryInv
  /\ AnswerInv /\ AnswerWhole

-----------------------------------------------------------------------------
(* The types of what the proofs below read.                                 *)
LEMMA HistoryTypes ==
  ASSUME TypeInv
  PROVE  /\ messages \in Seq(Message) /\ Len(messages) \in Nat
         /\ db \in RecordType /\ db.messages \in Seq(Message)
         /\ MaxTurns \in Nat /\ turn \in 0..MaxTurns /\ crashes \in Nat
         /\ ended \in [1..MaxTurns -> Statuses]
         /\ observed \in Nat /\ step \in StepType /\ step.calls \in Nat
         /\ loc \in LocalType /\ loc.turnStart \in Nat
         /\ loc.contStart \in Nat \cup {None} /\ loc.contParts \in Nat
         /\ lastTurn \in SummaryType /\ lastTurn.compactions \in Nat
         /\ pieces \in Nat
         /\ pc # "idle" => turn \in 1..MaxTurns /\ ended[turn] = "open"
         /\ pc \notin {"observe", "settled"} => observed = 0
         /\ pc = "observe" => observed < step.calls
<1>1. /\ messages \in Seq(Message) /\ db \in RecordType
      /\ turn \in 0..MaxTurns /\ crashes \in 0..MaxCrashes
      /\ ended \in [1..MaxTurns -> Statuses]
      /\ results \in Seq(BOOLEAN) /\ observed \in 0..Len(results)
      /\ step \in StepType /\ loc \in LocalType /\ lastTurn \in SummaryType
      /\ pieces \in Nat
      /\ pc # "idle" => turn \in 1..MaxTurns /\ ended[turn] = "open"
  BY DEF TypeInv, TypeOK
<1>2. /\ db.messages \in Seq(Message) /\ step.calls \in 0..MaxCalls
      /\ loc.turnStart \in Nat /\ loc.contParts \in Nat
      /\ loc.contStart \in Nat \cup {None} /\ lastTurn.compactions \in Nat
  BY <1>1 DEF RecordType, StepType, LocalType, SummaryType
<1>3. /\ pc \notin {"batch", "observe", "settled"} => results = <<>>
      /\ pc = "batch" => observed = 0
      /\ pc = "observe" => observed < step.calls
  BY DEF TypeInv, FrameInv
<1>4. Len(messages) \in Nat /\ observed \in Nat /\ step.calls \in Nat
      /\ MaxTurns \in Nat /\ crashes \in Nat
  BY <1>1, <1>2, TurnAssumption
<1>5. pc \notin {"observe", "settled"} => observed = 0
  BY <1>1, <1>3
<1> QED
  BY <1>1, <1>2, <1>3, <1>4, <1>5

(* What the properties of the history say of it, put together.              *)
LEMMA HistoryInvImplies == HistoryInv => HistoryIsSound
<1> SUFFICES ASSUME HistoryInv PROVE HistoryIsSound
  OBVIOUS
<1>1. ToolResultsAnchored
  BY DEF HistoryInv, BatchInv, ToolResultsAnchored
<1>2. UnansweredOnlyWhenStopped
  <2> SUFFICES ASSUME NEW i \in 1..Len(messages), UnansweredAt(messages, i),
                      ended[messages[i].turn] \notin CutShort
               PROVE  /\ messages[i].turn = turn
                      /\ pc \in {"decide", "batch", "observe"}
                      /\ i + observed = Len(messages)
    BY DEF UnansweredOnlyWhenStopped, CutShort
  <2>1. i = OpenPosition
    BY DEF HistoryInv, CallsInv, ShortExcept
  <2>2. pc \in {"decide", "batch", "observe"} /\ i = Len(messages) - observed
    BY <2>1 DEF OpenPosition
  <2>3. messages[i].turn = turn
    BY <2>2 DEF HistoryInv, BatchInv, OpenBatch
  <2>4. observed \in Nat /\ Len(messages) \in Nat
    BY HistoryTypes DEF HistoryInv, SoundInv, BoundInv
  <2> QED
    BY <2>2, <2>3, <2>4
<1>3. AskKeptByFirstCompaction
  <2>1. lastTurn.compactions \in Nat
    BY HistoryTypes DEF HistoryInv, SoundInv, BoundInv
  <2> QED
    BY <2>1 DEF HistoryInv, AskInv, IsAskOf, Holds, AskKeptByFirstCompaction
<1> QED
  BY <1>1, <1>2, <1>3 DEF HistoryInv, MemoryInv, HistoryIsSound

-----------------------------------------------------------------------------
(* Who signed a history, as it grows, is compacted and is cut.              *)
LEMMA SignedLater ==
  ASSUME NEW m, NEW n \in Nat, NEW k \in Nat, n <= k, SignedBy(m, n)
  PROVE  SignedBy(m, k)
BY DEF SignedBy

(* A message of an earlier or the running turn may be added.                *)
LEMMA SignedAppend ==
  ASSUME NEW m \in Seq(Message), NEW x \in Message, NEW n \in Nat,
         SignedBy(m, n), x.role = "assistant" => x.turn \in 1..n
  PROVE  SignedBy(Append(m, x), n)
<1>1. /\ Len(m) \in Nat /\ Len(Append(m, x)) = Len(m) + 1
      /\ \A j \in 1..Len(m) : Append(m, x)[j] = m[j]
      /\ Append(m, x)[Len(m) + 1] = x
  BY AppendedHistory
<1> QED
  BY <1>1 DEF SignedBy

(* What a compaction keeps is signed as before.                             *)
LEMMA SignedMoved ==
  ASSUME NEW m \in Seq(Message), NEW k \in Seq(Message), NEW d \in Nat,
         NEW e \in Nat, Moved(m, k, d, e), NEW n \in Nat, SignedBy(m, n),
         \A j \in 1..Len(k) : j <= e => k[j] = SummaryMsg
  PROVE  SignedBy(k, n)
<1> SUFFICES ASSUME NEW i \in 1..Len(k), k[i].role = "assistant"
             PROVE  k[i].turn \in 1..n
  BY DEF SignedBy
<1>1. i > e
  BY DEF SummaryMsg, PlainMsg
<1>2. i + d \in 1..Len(m) /\ SaysTheSame(k[i], m[i + d])
  BY <1>1 DEF Moved
<1> QED
  BY <1>2 DEF SignedBy, SaysTheSame

-----------------------------------------------------------------------------
(* Which calls a history leaves unanswered.                                 *)
LEMMA ShortAppendPlain ==
  ASSUME NEW m \in Seq(Message), NEW x \in Message, NEW e, NEW k,
         ShortExcept(m, e, k), x.role # "assistant" \/ x.calls = 0
  PROVE  ShortExcept(Append(m, x), e, k)
<1> DEFINE n == Append(m, x)
<1>1. /\ n \in Seq(Message) /\ Len(m) \in Nat /\ Len(n) = Len(m) + 1
      /\ \A j \in 1..Len(m) : n[j] = m[j]
      /\ n[Len(m) + 1] = x
  BY AppendedHistory
<1>2. SUFFICES ASSUME NEW i \in 1..Len(n), UnansweredAt(n, i), i # k
               PROVE  e[n[i].turn] \in CutShort
  BY DEF ShortExcept
<1>3. i # Len(m) + 1
  <2> HIDE DEF n
  <2> QED
    BY <1>1, <1>2, NoCallsAnswered
<1>4. i \in 1..Len(m)
  BY <1>1, <1>3
<1>5. UnansweredAt(m, i)
  BY <1>2, <1>4, UnansweredAppend
<1> QED
  BY <1>1, <1>2, <1>4, <1>5 DEF ShortExcept

(* The message that is added may be the one that lacks results.             *)
LEMMA ShortAppendOpen ==
  ASSUME NEW m \in Seq(Message), NEW x \in Message, NEW e, ShortExcept(m, e, 0)
  PROVE  ShortExcept(Append(m, x), e, Len(m) + 1)
<1> DEFINE n == Append(m, x)
<1>1. /\ n \in Seq(Message) /\ Len(m) \in Nat /\ Len(n) = Len(m) + 1
      /\ \A j \in 1..Len(m) : n[j] = m[j]
  BY AppendedHistory
<1>2. SUFFICES ASSUME NEW i \in 1..Len(n), UnansweredAt(n, i), i # Len(m) + 1
               PROVE  e[n[i].turn] \in CutShort
  BY DEF ShortExcept
<1>3. i \in 1..Len(m) /\ i # 0
  BY <1>1, <1>2
<1>4. UnansweredAt(m, i)
  BY <1>2, <1>3, UnansweredAppend
<1> QED
  BY <1>1, <1>3, <1>4 DEF ShortExcept

(* Turns only get cut short: what was excused stays so.                     *)
LEMMA ShortLater ==
  ASSUME NEW m, NEW e, NEW f, NEW k, NEW n \in Nat,
         ShortExcept(m, e, k), SignedBy(m, n),
         \A t \in 1..n : e[t] \in CutShort => f[t] \in CutShort
  PROVE  ShortExcept(m, f, k)
BY DEF ShortExcept, SignedBy, UnansweredAt

(* The open batch is excused by the end of its turn, or by being answered.  *)
LEMMA ShortClosed ==
  ASSUME NEW m, NEW e, NEW k, ShortExcept(m, e, k),
         k \in 1..Len(m) /\ UnansweredAt(m, k) => e[m[k].turn] \in CutShort
  PROVE  ShortExcept(m, e, 0)
BY DEF ShortExcept

(* A compaction leaves no other batch short of results.                     *)
LEMMA ShortMoved ==
  ASSUME NEW m \in Seq(Message), NEW n \in Seq(Message), NEW d \in Nat,
         NEW p \in Nat, Moved(m, n, d, p), Len(n) + d = Len(m),
         \A j \in 1..Len(n) : j <= p => n[j] = SummaryMsg,
         NEW e, ShortExcept(m, e, 0)
  PROVE  ShortExcept(n, e, 0)
<1> SUFFICES ASSUME NEW i \in 1..Len(n), UnansweredAt(n, i)
             PROVE  e[n[i].turn] \in CutShort
  BY DEF ShortExcept
<1>1. i > p
  BY DEF UnansweredAt, SummaryMsg, PlainMsg
<1>2. UnansweredAt(m, i + d)
  BY <1>1, UnansweredMoves
<1>3. i + d \in 1..Len(m) /\ n[i].turn = m[i + d].turn /\ i + d # 0
  BY <1>1 DEF Moved, SaysTheSame
<1> QED
  BY <1>2, <1>3 DEF ShortExcept

(* Nor does the collapse of an answer, behind which no result stands.       *)
LEMMA ShortPrefix ==
  ASSUME NEW m \in Seq(Message), NEW k \in 0..Len(m), NEW e,
         ShortExcept(m, e, 0),
         \A j \in 1..Len(m) : j > k => m[j].role # "tool"
  PROVE  ShortExcept(SubSeq(m, 1, k), e, 0)
<1> DEFINE n == SubSeq(m, 1, k)
<1>1. n \in Seq(Message) /\ Len(n) = k /\ \A j \in 1..k : n[j] = m[j]
  BY PrefixProperties
<1>2. SUFFICES ASSUME NEW i \in 1..Len(n), UnansweredAt(n, i)
               PROVE  e[n[i].turn] \in CutShort
  BY DEF ShortExcept
<1>3. i \in 1..k /\ i \in 1..Len(m) /\ i # 0
  BY <1>1
<1>4. UnansweredAt(m, i)
  BY <1>2, <1>3, UnansweredPrefix
<1> QED
  BY <1>1, <1>3, <1>4 DEF ShortExcept

(* The assistant message of a batch is answered once all of its results are *)
(* there.                                                                   *)
LEMMA BatchAnswered ==
  ASSUME NEW m \in Seq(Message), NEW n \in Nat, NEW t,
         OpenBatch(m, n, n, t)
  PROVE  Len(m) - n \in 1..Len(m) /\ ~UnansweredAt(m, Len(m) - n)
BY DEF OpenBatch, UnansweredAt

-----------------------------------------------------------------------------
(* A chain of pieces, as its history grows and is compacted.                *)
LEMMA ChainAppend ==
  ASSUME NEW m \in Seq(Message), NEW x \in Message, NEW s, ChainFrom(m, s),
         x.role # "tool" /\ x.text # "ask"
  PROVE  ChainFrom(Append(m, x), s)
<1>1. /\ Len(m) \in Nat /\ Len(Append(m, x)) = Len(m) + 1
      /\ \A j \in 1..Len(m) : Append(m, x)[j] = m[j]
      /\ Append(m, x)[Len(m) + 1] = x
  BY AppendedHistory
<1> QED
  BY <1>1 DEF ChainFrom

(* The parts of a continued answer stay a chain through a compaction.       *)
LEMMA ChainMoved ==
  ASSUME NEW m \in Seq(Message), NEW n \in Seq(Message), NEW d \in Nat,
         NEW e \in Nat, Moved(m, n, d, e),
         \A j \in 1..Len(n) : j <= e => n[j] = SummaryMsg,
         NEW s \in Nat, ChainFrom(m, s)
  PROVE  ChainFrom(n, s)
<1> SUFFICES ASSUME NEW j \in 1..Len(n), j > s
             PROVE  n[j].role # "tool" /\ n[j].text # "ask"
  BY DEF ChainFrom
<1>1. CASE j <= e
  BY <1>1 DEF SummaryMsg, PlainMsg
<1>2. CASE j > e
  <2>1. j + d \in 1..Len(m) /\ SaysTheSame(n[j], m[j + d]) /\ j + d > s
    BY <1>2 DEF Moved
  <2> QED
    BY <2>1 DEF ChainFrom, SaysTheSame
<1> QED
  BY <1>1, <1>2

-----------------------------------------------------------------------------
(* What a history remembers.                                                *)
LEMMA RememberedAppend ==
  ASSUME NEW m \in Seq(Message), NEW x \in Message, NEW t
  PROVE  /\ Remembered(m, t) => Remembered(Append(m, x), t)
         /\ x.text = "ask" /\ x.turn = t => Remembered(Append(m, x), t)
BY HoldsAppend DEF Remembered

(* A prefix that drops no ask remembers the same asks.                      *)
LEMMA RememberedPrefix ==
  ASSUME NEW m \in Seq(Message), NEW k \in 0..Len(m), k >= 1,
         \A j \in 1..Len(m) : j > k => m[j].text # "ask",
         NEW t, Remembered(m, t)
  PROVE  Remembered(SubSeq(m, 1, k), t)
<1> DEFINE n == SubSeq(m, 1, k)
<1>1. /\ n \in Seq(Message) /\ Len(n) = k /\ \A j \in 1..k : n[j] = m[j]
      /\ Len(m) \in Nat
  BY PrefixProperties
<1> HIDE DEF n
<1>2. CASE HeadIsSummary(m)
  BY <1>1, <1>2 DEF HeadIsSummary, Remembered, n
<1>3. CASE Holds(m, "ask", t)
  <2>1. PICK i \in 1..Len(m) : m[i].text = "ask" /\ m[i].turn = t
    BY <1>3 DEF Holds
  <2>2. i \in 1..Len(n) /\ n[i] = m[i]
    BY <1>1, <2>1
  <2> QED
    BY <2>1, <2>2 DEF Holds, Remembered, n
<1> QED
  BY <1>2, <1>3 DEF Remembered

(* An ask behind the cut is still held after the compaction.                *)
LEMMA AskMoved ==
  ASSUME NEW m \in Seq(Message), NEW n \in Seq(Message), NEW d \in Nat,
         NEW e \in Nat, Moved(m, n, d, e), Len(n) + d = Len(m),
         NEW k \in Nat, NEW t, IsAskOf(m, k, t), k > d + e
  PROVE  Holds(n, "ask", t)
<1>1. k - d \in 1..Len(n) /\ k - d > e /\ (k - d) + d = k
  BY DEF IsAskOf
<1>2. n[k - d].text = "ask" /\ n[k - d].turn = t
  BY <1>1 DEF Moved, SaysTheSame, IsAskOf
<1> QED
  BY <1>1, <1>2 DEF Holds

-----------------------------------------------------------------------------
(* The open batch, as its results join the history.                         *)
LEMMA BatchOpens ==
  ASSUME NEW m \in Seq(Message), NEW c \in Nat, NEW t \in Nat
  PROVE  OpenBatch(Append(m, AssistantMsg(t, c, 1)), 0, c, t)
<1> DEFINE x == AssistantMsg(t, c, 1)
           n == Append(m, x)
<1>1. x \in Message /\ x.role = "assistant" /\ x.text = "answer"
      /\ x.calls = c /\ x.turn = t
  <2>1. x \in Message
    BY MessageTypes
  <2> QED
    BY <2>1 DEF AssistantMsg, PlainMsg
<1> HIDE DEF x
<1>2. Len(m) \in Nat /\ Len(n) = Len(m) + 1 /\ n[Len(m) + 1] = x
  BY <1>1, AppendedHistory
<1> HIDE DEF n
<1>3. Len(n) - 0 = Len(m) + 1
  BY <1>2
<1>4. OpenBatch(n, 0, c, t)
  BY <1>1, <1>2, <1>3 DEF OpenBatch
<1> QED
  BY <1>4 DEF n, x

(* The next result of a batch is anchored to the call before it.            *)
LEMMA BatchGrows ==
  ASSUME NEW m \in Seq(Message), NEW k \in Nat, NEW calls \in Nat, k < calls,
         NEW t \in Nat, OpenBatch(m, k, calls, t), Anchored(m)
  PROVE  /\ OpenBatch(Append(m, ToolMsg(t, k + 1)), k + 1, calls, t)
         /\ Anchored(Append(m, ToolMsg(t, k + 1)))
<1> DEFINE x == ToolMsg(t, k + 1)
           n == Append(m, x)
           a == Len(m) - k
<1>1. x \in Message /\ x.role = "tool" /\ x.text = "result" /\ x.call = k + 1
  <2>1. x \in Message
    BY MessageTypes
  <2> QED
    BY <2>1 DEF ToolMsg, PlainMsg
<1> HIDE DEF x
<1>2. /\ n \in Seq(Message) /\ Len(m) \in Nat /\ Len(n) = Len(m) + 1
      /\ \A j \in 1..Len(m) : n[j] = m[j]
      /\ n[Len(m) + 1] = x
  BY <1>1, AppendedHistory
<1>3. /\ a >= 1 /\ m[a].role = "assistant" /\ m[a].text = "answer"
      /\ m[a].calls = calls /\ m[a].turn = t
      /\ \A j \in 1..k :
           /\ m[a + j].role = "tool" /\ m[a + j].text = "result"
           /\ m[a + j].call = j
  BY DEF OpenBatch
<1>4. a \in 1..Len(m) /\ Len(n) - (k + 1) = a /\ Len(m) + 1 = a + (k + 1)
  BY <1>2, <1>3
<1> HIDE DEF a, n
<1>5. /\ n[a].role = "assistant" /\ n[a].text = "answer"
      /\ n[a].calls = calls /\ n[a].turn = t
  BY <1>2, <1>3, <1>4
<1>6. \A j \in 1..(k + 1) :
        n[a + j].role = "tool" /\ n[a + j].text = "result" /\ n[a + j].call = j
  <2> TAKE j \in 1..(k + 1)
  <2>1. CASE j = k + 1
    BY <1>1, <1>2, <1>4, <2>1
  <2>2. CASE j # k + 1
    <3>1. j \in 1..k /\ a + j \in 1..Len(m)
      BY <1>2, <1>4, <2>2
    <3> QED
      BY <1>2, <1>3, <3>1
  <2> QED
    BY <2>1, <2>2
<1>7. OpenBatch(n, k + 1, calls, t)
  <2>1. a >= 1 /\ a \in Int
    BY <1>4
  <2> QED
    BY <1>4, <1>5, <1>6, <2>1, Zenon DEF OpenBatch
<1>8. AnchoredAt(n, Len(m) + 1)
  <2>1. (Len(m) + 1) - (k + 1) = a /\ n[Len(m) + 1].call = k + 1
    BY <1>1, <1>2, <1>4
  <2>2. \A j \in (a + 1)..(Len(m) + 1) :
          n[j].role = "tool" /\ n[j].call = j - a
    <3> TAKE j \in (a + 1)..(Len(m) + 1)
    <3>1. j - a \in 1..(k + 1) /\ a + (j - a) = j
      BY <1>2, <1>4
    <3> QED
      BY <1>6, <3>1
  <2> QED
    <3>1. a >= 1 /\ k + 1 >= 1 /\ n[a].calls >= k + 1
      BY <1>4, <1>5
    <3> QED
      BY <1>5, <2>1, <2>2, <3>1, Zenon DEF AnchoredAt
<1>9. Anchored(n)
  BY <1>1, <1>8, AnchoredAppend DEF n
<1> QED
  BY <1>7, <1>9 DEF n, x

-----------------------------------------------------------------------------
(* What the steps do to the history, in groups.                             *)
Waiting == TopProceeds \/ CompactSkipped \/ BeginSummary \/ SummaryFails
Staying == \/ Waiting \/ StreamCompletes \/ DecideTools
           \/ RunCall \/ BatchRecorded
Growing == AddAssistant \/ Continue \/ ObserveResult
Ending  == \/ TopCancelled \/ TopTrips \/ StreamFails \/ StreamCancelled
           \/ DecideCancelled \/ BatchCancelled
Closing == Ending \/ ObserveTrips \/ Finish

(* What a step that leaves the history alone leaves alone as well.          *)
LEMMA StayingEffect ==
  ASSUME TypeInv, Staying
  PROVE  /\ messages' = messages /\ db' = db /\ ended' = ended /\ turn' = turn
         /\ crashes' = crashes /\ pc # "idle" /\ pc' # "idle"
         /\ loc'.turnStart = loc.turnStart
         /\ lastTurn'.compactions = lastTurn.compactions
<1>1. /\ messages' = messages /\ db' = db /\ ended' = ended
      /\ turn' = turn /\ crashes' = crashes /\ pc # "idle" /\ pc' # "idle"
  BY DEF Staying, Waiting, TopProceeds, CompactSkipped,
         BeginSummary, SummaryFails, StreamCompletes, DecideTools,
         RunCall, BatchRecorded, Running, SendRequest, agentState
<1>2. loc'.turnStart = loc.turnStart
  <2>1. loc \in LocalType
    BY HistoryTypes
  <2> QED
    BY <2>1 DEF Staying, Waiting, TopProceeds, CompactSkipped,
         BeginSummary, SummaryFails, StreamCompletes,
         DecideTools, RunCall, BatchRecorded, frame, LocalType
<1>3. CASE StreamCompletes
  <2>1. PICK n \in 0..MaxCalls, stop \in Stops : RecordStep(n, stop)
    BY <1>3 DEF StreamCompletes
  <2>2. lastTurn \in SummaryType
    BY HistoryTypes
  <2>3. lastTurn'.compactions = lastTurn.compactions
    BY <2>1, <2>2 DEF RecordStep, SummaryType
  <2> QED
    BY <1>1, <1>2, <2>3
<1>4. CASE ~StreamCompletes
  <2>1. lastTurn' = lastTurn
    BY <1>4 DEF Staying, Waiting, TopProceeds, CompactSkipped,
         BeginSummary, SummaryFails, DecideTools, RunCall,
         BatchRecorded, agentState
  <2> QED
    BY <1>1, <1>2, <2>1
<1> QED
  BY <1>3, <1>4

(* The message a step of a running turn adds.                               *)
Added == IF pc = "egress" THEN AssistantMsg(turn, step.calls, 1)
         ELSE IF pc = "decide" THEN ContinueMsg(turn)
         ELSE ToolMsg(turn, observed + 1)

(* What a step of a turn adds to the history, by where the thread stands.   *)
LEMMA AddedMessage ==
  ASSUME TypeInv
  PROVE  /\ Added \in Message /\ Added.text # "ask"
         /\ Added.role = "assistant" => pc = "egress" /\ Added.turn = turn
         /\ pc = "decide" => Added.role = "user"
         /\ pc = "egress" =>
              /\ Added.role = "assistant" /\ Added.calls = step.calls
              /\ Added.parts = 1 /\ Added.text = "answer"
<1>1. turn \in Nat /\ step.calls \in Nat /\ observed + 1 \in Nat
  BY HistoryTypes
<1>2. Added \in Message
  BY <1>1, MessageTypes DEF Added
<1> QED
  BY <1>2 DEF Added, AssistantMsg, ContinueMsg, ToolMsg, PlainMsg

(* What a step that adds one message changes.                               *)
LEMMA GrowingEffect ==
  ASSUME TypeInv, Growing
  PROVE  /\ messages' = Append(messages, Added) /\ db' = db /\ ended' = ended
         /\ turn' = turn /\ crashes' = crashes /\ pc # "idle" /\ pc' # "idle"
         /\ loc'.turnStart = loc.turnStart
         /\ lastTurn'.compactions = lastTurn.compactions
<1>1. /\ loc \in LocalType /\ lastTurn \in SummaryType
  BY HistoryTypes
<1>2. CASE AddAssistant
  BY <1>2 DEF AddAssistant, Added, Running, frame
<1>3. CASE Continue
  <2>1. loc'.turnStart = loc.turnStart
    BY <1>1, <1>3 DEF Continue, LocalType
  <2>2. lastTurn'.compactions = lastTurn.compactions
    BY <1>1, <1>3 DEF Continue, SummaryType
  <2> QED
    BY <1>3, <2>1, <2>2 DEF Continue, Added, Running
<1>4. CASE ObserveResult
  <2>1. lastTurn'.compactions = lastTurn.compactions
    BY <1>1, <1>4 DEF ObserveResult, ObservedSummary, SummaryType
  <2> QED
    BY <1>4, <2>1 DEF ObserveResult, ObservedMessages, Added, Running
<1> QED
  BY <1>2, <1>3, <1>4 DEF Growing

(* What a compaction changes: it keeps an end of the history, behind a      *)
(* summary.                                                                 *)
LEMMA CompactEffect ==
  ASSUME TypeInv, CompactSucceeds
  PROVE  /\ pc = "summary" /\ pc' = "stream" /\ loc' = loc
         /\ ended' = ended /\ turn' = turn /\ crashes' = crashes
         /\ lastTurn'.compactions = lastTurn.compactions + 1
         /\ messages' \in Seq(Message) /\ db'.messages = messages'
         /\ HeadIsSummary(messages')
         /\ \E d \in Nat, e \in Nat :
              /\ d + e > 0 /\ d + e <= loc.turnStart
              /\ messages[d + e + 1].role # "tool"
              /\ Len(messages') + d = Len(messages)
              /\ Moved(messages, messages', d, e)
              /\ \A j \in 1..Len(messages') : j <= e => messages'[j] = SummaryMsg
<1> DEFINE cut == CutIndex(messages, KeepRecent, loc.turnStart)
<1>1. /\ pc = "summary" /\ pc' = "stream" /\ loc' = loc
      /\ ended' = ended /\ turn' = turn /\ crashes' = crashes
      /\ cut > 0 /\ messages' = ApplySummary(Suffix(messages, cut + 1))
      /\ lastTurn' = [lastTurn EXCEPT !.compactions = @ + 1, !.cost = @ + 1]
      /\ db'.messages = messages'
  BY DEF CompactSucceeds, SendRequest, Running
<1>2. /\ messages \in Seq(Message) /\ loc.turnStart \in Nat
      /\ lastTurn \in SummaryType /\ KeepRecent \in Nat \ {0}
  BY HistoryTypes, TurnAssumption
<1>3. lastTurn'.compactions = lastTurn.compactions + 1
  BY <1>1, <1>2 DEF SummaryType
<1>4. /\ cut \in Nat /\ cut < Len(messages) /\ cut <= loc.turnStart
      /\ messages[cut + 1].role # "tool"
  <2>1. /\ cut \in 0..Len(messages)
        /\ cut # 0 => /\ cut <= Len(messages) - KeepRecent
                      /\ cut <= loc.turnStart
                      /\ messages[cut + 1].role # "tool"
    BY <1>2, CutIndexProperties
  <2> HIDE DEF cut
  <2> QED
    BY <1>1, <1>2, <2>1
<1> HIDE DEF cut
<1>5. /\ messages' \in Seq(Message) /\ HeadIsSummary(messages')
      /\ \E d \in Nat, e \in Nat :
           /\ d + e = cut /\ Len(messages') + d = Len(messages)
           /\ Moved(messages, messages', d, e)
           /\ \A j \in 1..Len(messages') : j <= e => messages'[j] = SummaryMsg
  BY <1>1, <1>2, <1>4, CompactedHistory
<1>6. PICK d \in Nat, e \in Nat :
           /\ d + e = cut /\ Len(messages') + d = Len(messages)
           /\ Moved(messages, messages', d, e)
           /\ \A j \in 1..Len(messages') : j <= e => messages'[j] = SummaryMsg
  BY <1>5
<1>7. /\ d + e > 0 /\ d + e <= loc.turnStart
      /\ messages[d + e + 1].role # "tool"
  BY <1>1, <1>4, <1>6
<1> QED
  BY <1>1, <1>3, <1>5, <1>6, <1>7

(* What the end of a turn changes: the history is saved as it is then.      *)
LEMMA ClosingEffect ==
  ASSUME Closing
  PROVE  /\ pc # "idle" /\ pc' = "idle" /\ turn' = turn /\ crashes' = crashes
         /\ db'.messages = messages'
         /\ Ending => messages' = messages /\ pc # "observe"
         /\ ObserveTrips => messages' = ObservedMessages /\ pc = "observe"
         /\ Finish => messages' = Collapsed
         /\ \E status \in {"done", "cancelled", "error"} :
              /\ ended' = [ended EXCEPT ![turn] = status]
              /\ status = "done" => Finish
<1>1. /\ pc # "idle" /\ turn' = turn /\ crashes' = crashes
  BY DEF Closing, Ending, TopCancelled, TopTrips, StreamFails, StreamCancelled,
         DecideCancelled, BatchCancelled, ObserveTrips, Finish, Running
<1>2. ASSUME NEW status, NEW msgs, NEW spent, NEW last,
             CloseTurn(turn, status, msgs, spent, last)
      PROVE  /\ pc' = "idle" /\ db'.messages = messages' /\ messages' = msgs
             /\ ended' = [ended EXCEPT ![turn] = status]
  BY <1>2 DEF CloseTurn, Conclude
<1>3. CASE Ending
  <2>1. /\ pc # "observe" /\ ~(pc = "decide" /\ step.calls = 0)
        /\ \E status \in {"cancelled", "error"} : \E spent :
             CloseTurn(turn, status, messages, spent, lastTurn)
    BY <1>3 DEF Ending, TopCancelled, TopTrips, StreamFails, StreamCancelled,
         DecideCancelled, BatchCancelled
  <2>2. ~ObserveTrips /\ ~Finish
    BY <2>1 DEF ObserveTrips, Finish
  <2>3. PICK status \in {"cancelled", "error"} :
          \E spent : CloseTurn(turn, status, messages, spent, lastTurn)
    BY <2>1
  <2> QED
    BY <1>1, <1>2, <2>1, <2>2, <2>3
<1>4. CASE ObserveTrips
  <2>1. /\ pc = "observe"
        /\ \E spent : CloseTurn(turn, "error", ObservedMessages, spent,
                                ObservedSummary)
    BY <1>4 DEF ObserveTrips
  <2>2. ~Ending /\ ~Finish
    BY <2>1 DEF Ending, TopCancelled, TopTrips, StreamFails, StreamCancelled,
         DecideCancelled, BatchCancelled, Finish
  <2> QED
    BY <1>1, <1>2, <1>4, <2>1, <2>2
<1>5. CASE Finish
  <2>1. /\ pc = "decide" /\ step.calls = 0
        /\ \E spent : CloseTurn(turn, "done", Collapsed, spent, lastTurn)
    BY <1>5 DEF Finish
  <2>2. ~ObserveTrips
    BY <2>1 DEF ObserveTrips
  <2>3. step.calls = 0 /\ pc = "decide" => ~Ending
    BY DEF Ending, TopCancelled, TopTrips, StreamFails, StreamCancelled,
         DecideCancelled, BatchCancelled
  <2> QED
    BY <1>1, <1>2, <1>5, <2>1, <2>2, <2>3
<1> QED
  BY <1>3, <1>4, <1>5 DEF Closing

(* Every step is of one of these kinds.                                     *)
LEMMA StepCases ==
  ASSUME Next
  PROVE  \/ Staying \/ Growing \/ CompactSucceeds \/ Closing
         \/ StartBlocked \/ StartRouteFails \/ StartTurn
         \/ Cancel \/ Abandon \/ CrashAndResume
BY DEF Next, Worker, Proceed, Staying, Waiting, Growing, Closing, Ending

-----------------------------------------------------------------------------
(* The collapse at the end of a turn: it takes nothing but the pieces of    *)
(* the answer, and what it leaves is the history with the whole answer.     *)
LEMMA FinishHistory ==
  ASSUME HistoryInv, pc = "decide", step.calls = 0
  PROVE  /\ Anchored(Collapsed) /\ ShortExcept(Collapsed, ended, 0)
         /\ SignedBy(Collapsed, turn)
         /\ \A t : Remembered(messages, t) => Remembered(Collapsed, t)
         /\ Collapsed \in Seq(Message)
         /\ lastTurn.compactions = 0 =>
              LET n == Len(Collapsed)
              IN /\ Collapsed[n].text = "answer" /\ Collapsed[n].parts = pieces
                 /\ Begins(Collapsed, n - 1, turn)
<1>1. /\ messages \in Seq(Message) /\ Len(messages) \in Nat
      /\ turn \in 1..MaxTurns /\ turn \in Nat /\ observed = 0
      /\ loc.contStart \in Nat \cup {None} /\ loc.contParts \in Nat
      /\ loc.contParts + 1 \in Nat /\ pieces \in Nat
  BY HistoryTypes DEF HistoryInv, SoundInv, BoundInv
<1>2. /\ Len(messages) >= 1
      /\ messages[Len(messages)].calls = 0
      /\ messages[Len(messages)].text = "answer"
  <2>1. OpenBatch(messages, 0, 0, turn)
    BY <1>1 DEF HistoryInv, BatchInv
  <2>2. Len(messages) - 0 = Len(messages)
    BY <1>1
  <2> QED
    BY <2>1, <2>2 DEF OpenBatch
<1>3. Anchored(messages) /\ SignedBy(messages, turn)
  BY DEF HistoryInv, BatchInv, TurnsInv
<1>4. ShortExcept(messages, ended, 0)
  <2>1. ShortExcept(messages, ended, Len(messages))
    BY <1>1 DEF HistoryInv, CallsInv, OpenPosition
  <2>2. ~UnansweredAt(messages, Len(messages))
    BY <1>1, <1>2, NoCallsAnswered
  <2> QED
    BY <2>1, <2>2, ShortClosed
<1>5. CASE loc.contStart = None
  <2>1. Collapsed = messages
    BY <1>5 DEF Collapsed
  <2>2. lastTurn.compactions = 0 =>
          /\ messages[Len(messages)].parts = pieces
          /\ Begins(messages, Len(messages) - 1, turn)
    BY <1>1, <1>5 DEF HistoryInv, AnswerInv
  <2> QED
    BY <1>1, <1>2, <1>3, <1>4, <2>1, <2>2
<1>6. CASE loc.contStart # None
  <2> DEFINE s == loc.contStart
             k == IF s <= Len(messages) THEN s ELSE Len(messages)
             p == SubSeq(messages, 1, k)
             x == AssistantMsg(turn, 0, loc.contParts + 1)
  <2>1. Collapsed = Append(p, x)
    BY <1>6 DEF Collapsed
  <2>2. /\ s \in Nat /\ s >= 1
        /\ \A j \in 1..Len(messages) :
             j > s => messages[j].role # "tool" /\ messages[j].text # "ask"
    BY <1>1, <1>6 DEF HistoryInv, ChainInv, ChainFrom
  <2>3. k \in 0..Len(messages) /\ k >= 1
        /\ \A j \in 1..Len(messages) :
             j > k => messages[j].role # "tool" /\ messages[j].text # "ask"
    BY <1>1, <1>2, <2>2
  <2>4. x \in Message /\ x.role = "assistant" /\ x.text = "answer"
        /\ x.calls = 0 /\ x.turn = turn /\ x.parts = loc.contParts + 1
    <3>1. x \in Message
      BY <1>1, MessageTypes
    <3> QED
      BY <3>1 DEF AssistantMsg, PlainMsg
  <2> HIDE DEF x
  <2>5. lastTurn.compactions = 0 =>
          k = s /\ Begins(messages, s, turn) /\ pieces = loc.contParts + 1
    <3>1. lastTurn.compactions = 0 =>
            Begins(messages, s, turn) /\ pieces = loc.contParts + 1
      BY <1>6 DEF HistoryInv, AnswerInv
    <3> QED
      BY <1>1, <3>1 DEF Begins
  <2> HIDE DEF k, s
  <2>6. /\ p \in Seq(Message) /\ Len(p) = k
        /\ \A j \in 1..k : p[j] = messages[j]
    BY <1>1, <2>3, PrefixProperties
  <2>7. Anchored(p) /\ ShortExcept(p, ended, 0)
    BY <1>1, <1>3, <1>4, <2>3, AnchoredPrefix, ShortPrefix
  <2>8. SignedBy(p, turn)
    BY <1>1, <1>3, <2>3, <2>6 DEF SignedBy
  <2>9. \A t : Remembered(messages, t) => Remembered(p, t)
    BY <1>1, <2>3, RememberedPrefix
  <2> HIDE DEF p
  <2>10. Anchored(Append(p, x)) /\ ShortExcept(Append(p, x), ended, 0)
         /\ SignedBy(Append(p, x), turn)
    <3>1. Anchored(Append(p, x))
      BY <2>4, <2>6, <2>7, AnchoredAppend
    <3>2. ShortExcept(Append(p, x), ended, 0)
      BY <2>4, <2>6, <2>7, ShortAppendPlain
    <3>3. SignedBy(Append(p, x), turn)
      <4>1. turn \in 1..turn
        BY <1>1
      <4> QED
        BY <1>1, <2>4, <2>6, <2>8, <4>1, SignedAppend
    <3> QED
      BY <3>1, <3>2, <3>3
  <2>11. \A t : Remembered(messages, t) => Remembered(Append(p, x), t)
    BY <2>4, <2>6, <2>9, RememberedAppend
  <2>12. /\ Append(p, x) \in Seq(Message) /\ Len(Append(p, x)) = k + 1
         /\ \A j \in 1..k : Append(p, x)[j] = messages[j]
         /\ Append(p, x)[k + 1] = x
    BY <2>4, <2>6, AppendedHistory
  <2> DEFINE c == Append(p, x)
  <2>13. lastTurn.compactions = 0 =>
           /\ c[k + 1].text = "answer" /\ c[k + 1].parts = pieces
           /\ Begins(c, k, turn)
    <3> SUFFICES ASSUME lastTurn.compactions = 0
                 PROVE  /\ c[k + 1].text = "answer" /\ c[k + 1].parts = pieces
                        /\ Begins(c, k, turn)
      OBVIOUS
    <3> HIDE DEF c
    <3>1. k \in 1..Len(c) /\ c[k] = messages[k] /\ c[k + 1] = x
      BY <2>3, <2>12 DEF c
    <3>2. Begins(messages, k, turn)
      BY <2>5
    <3> QED
      BY <2>4, <2>5, <3>1, <3>2 DEF Begins
  <2>14. (k + 1) - 1 = k
    BY <2>3
  <2> QED
    BY <2>1, <2>10, <2>11, <2>12, <2>13, <2>14
<1> QED
  BY <1>5, <1>6

-----------------------------------------------------------------------------
(* The inductive step, one lemma for each part of the invariant.            *)
LEMMA TurnsKept ==
  ASSUME HistoryInv, Next, TypeInv'
  PROVE  TurnsInv'
<1>1. /\ TypeInv /\ TurnsInv
  BY DEF HistoryInv, SoundInv, BoundInv
<1>2. /\ messages \in Seq(Message) /\ db \in RecordType
      /\ turn \in 0..MaxTurns /\ turn \in Nat /\ turn + 1 \in Nat
      /\ ended \in [1..MaxTurns -> Statuses]
      /\ pc # "idle" => turn \in 1..MaxTurns /\ turn \in 1..turn
  BY <1>1, HistoryTypes
<1>3. CASE Staying
  BY <1>1, <1>3, StayingEffect DEF TurnsInv
<1>4. CASE Growing
  <2>1. /\ messages' = Append(messages, Added) /\ db' = db /\ ended' = ended
        /\ turn' = turn /\ pc # "idle" /\ pc' # "idle"
    BY <1>1, <1>4, GrowingEffect
  <2>2. SignedBy(messages', turn)
    BY <1>1, <1>2, <2>1, AddedMessage, SignedAppend DEF TurnsInv
  <2> QED
    BY <1>1, <2>1, <2>2 DEF TurnsInv
<1>5. CASE CompactSucceeds
  <2>1. /\ pc = "summary" /\ pc' = "stream" /\ ended' = ended /\ turn' = turn
        /\ messages' \in Seq(Message) /\ db'.messages = messages'
        /\ \E d \in Nat, e \in Nat :
             /\ Moved(messages, messages', d, e)
             /\ \A j \in 1..Len(messages') : j <= e => messages'[j] = SummaryMsg
    BY <1>1, <1>5, CompactEffect
  <2>2. SignedBy(messages', turn)
    BY <1>1, <1>2, <2>1, SignedMoved DEF TurnsInv
  <2> QED
    BY <1>1, <2>1, <2>2 DEF TurnsInv
<1>6. CASE Closing
  <2>1. /\ pc # "idle" /\ pc' = "idle" /\ turn' = turn
        /\ db'.messages = messages'
        /\ \E status \in {"done", "cancelled", "error"} :
             ended' = [ended EXCEPT ![turn] = status]
    BY <1>6, ClosingEffect
  <2>2. SignedBy(messages', turn)
    <3>1. CASE Ending
      BY <1>1, <1>6, <3>1, ClosingEffect DEF TurnsInv
    <3>2. CASE ObserveTrips
      <4>1. messages' = Append(messages, ToolMsg(turn, observed + 1))
        BY <1>6, <3>2, ClosingEffect DEF ObservedMessages
      <4>2. ToolMsg(turn, observed + 1) \in Message
            /\ ToolMsg(turn, observed + 1).role = "tool"
        <5>1. observed + 1 \in Nat /\ turn \in Nat
          BY <1>1, <1>2, HistoryTypes
        <5> QED
          BY <5>1, MessageTypes
      <4> QED
        BY <1>1, <1>2, <4>1, <4>2, SignedAppend DEF TurnsInv
    <3>3. CASE Finish
      BY <1>6, <3>3, ClosingEffect, FinishHistory DEF Finish
    <3> QED
      BY <1>6, <3>1, <3>2, <3>3 DEF Closing
  <2>3. \A t \in 1..MaxTurns : ended'[t] # "open"
    BY <1>1, <1>2, <2>1 DEF TurnsInv
  <2> QED
    BY <2>1, <2>2, <2>3 DEF TurnsInv
<1>7. CASE StartBlocked \/ StartRouteFails \/ StartTurn
  <2>1. pc = "idle" /\ turn' = turn + 1 /\ turn + 1 \in 1..(turn + 1)
        /\ turn <= turn + 1
    BY <1>2, <1>7 DEF StartBlocked, StartRouteFails, StartTurn, EnterTurn
  <2>2. SignedBy(messages, turn + 1) /\ SignedBy(db.messages, turn + 1)
    BY <1>1, <1>2, <2>1, SignedLater DEF TurnsInv
  <2>3. AskMsg(turn + 1) \in Message /\ RefusalMsg(turn + 1) \in Message
        /\ AskMsg(turn + 1).role = "user" /\ RefusalMsg(turn + 1).turn = turn + 1
    BY <1>2, MessageTypes DEF RefusalMsg, PlainMsg
  <2>4. SignedBy(Append(messages, AskMsg(turn + 1)), turn + 1)
        /\ Append(messages, AskMsg(turn + 1)) \in Seq(Message)
    BY <1>2, <2>2, <2>3, SignedAppend, AppendedHistory
  <2>5. CASE StartBlocked
    <3>1. /\ pc' = "idle" /\ db'.messages = messages'
          /\ messages' = messages \o <<AskMsg(turn + 1), RefusalMsg(turn + 1)>>
          /\ ended' = [ended EXCEPT ![turn + 1] = "blocked"]
      BY <2>5 DEF StartBlocked, CloseTurn, Conclude
    <3>2. messages' = Append(Append(messages, AskMsg(turn + 1)),
                             RefusalMsg(turn + 1))
      BY <1>2, <2>3, <3>1, TwoAppended
    <3>3. SignedBy(messages', turn + 1)
      BY <1>2, <2>1, <2>3, <2>4, <3>2, SignedAppend
    <3>4. \A t \in 1..MaxTurns : ended'[t] # "open"
      BY <1>1, <1>2, <2>1, <3>1 DEF TurnsInv
    <3> QED
      BY <2>1, <3>1, <3>3, <3>4 DEF TurnsInv
  <2>6. CASE StartRouteFails
    <3>1. messages' = messages /\ db' = db
          /\ ended' = [ended EXCEPT ![turn + 1] = "escaped"]
      BY <2>6 DEF StartRouteFails
    <3>2. \A t \in 1..MaxTurns : ended'[t] # "open"
      BY <1>1, <1>2, <2>1, <3>1 DEF TurnsInv
    <3> QED
      BY <2>1, <2>2, <3>1, <3>2 DEF TurnsInv
  <2>7. CASE StartTurn
    <3>1. /\ messages' = Append(messages, AskMsg(turn + 1)) /\ db' = db
          /\ ended' = [ended EXCEPT ![turn + 1] = "open"] /\ pc' = "top"
      BY <2>7 DEF StartTurn
    <3>2. \A t \in 1..MaxTurns : ended'[t] = "open" => t = turn + 1
      BY <1>1, <1>2, <2>1, <3>1 DEF TurnsInv
    <3> QED
      BY <2>1, <2>2, <2>4, <3>1, <3>2 DEF TurnsInv
  <2> QED
    BY <1>7, <2>5, <2>6, <2>7
<1>8. CASE Cancel
  BY <1>1, <1>8 DEF Cancel, agentState, TurnsInv
<1>9. CASE Abandon
  <2>1. /\ pc # "idle" /\ messages' = messages /\ db' = db /\ turn' = turn
        /\ ended' = [ended EXCEPT ![turn] = "abandoned"]
    BY <1>9 DEF Abandon, agentState
  <2>2. \A t \in 1..MaxTurns : ended'[t] # "open"
    BY <1>1, <1>2, <2>1 DEF TurnsInv
  <2> QED
    BY <1>1, <2>1, <2>2 DEF TurnsInv
<1>10. CASE CrashAndResume
  <2>1. /\ messages' = db.messages /\ db' = db /\ turn' = turn
        /\ ended' = IF pc = "idle" THEN ended
                    ELSE [ended EXCEPT ![turn] = "crashed"]
    BY <1>10 DEF CrashAndResume
  <2>2. \A t \in 1..MaxTurns : ended'[t] # "open"
    BY <1>1, <1>2, <2>1 DEF TurnsInv
  <2> QED
    BY <1>1, <2>1, <2>2 DEF TurnsInv
<1> QED
  BY <1>3, <1>4, <1>5, <1>6, <1>7, <1>8, <1>9, <1>10, StepCases

(* A result that joins the history of an open batch.                        *)
LEMMA ObservedHistory ==
  ASSUME HistoryInv, pc = "observe"
  PROVE  /\ ToolMsg(turn, observed + 1) \in Message
         /\ ToolMsg(turn, observed + 1).role = "tool"
         /\ ObservedMessages = Append(messages, ToolMsg(turn, observed + 1))
         /\ OpenBatch(ObservedMessages, observed + 1, step.calls, turn)
         /\ Anchored(ObservedMessages)
<1>1. /\ messages \in Seq(Message) /\ observed \in Nat /\ step.calls \in Nat
      /\ observed < step.calls /\ turn \in Nat /\ observed + 1 \in Nat
  BY HistoryTypes DEF HistoryInv, SoundInv, BoundInv
<1>2. /\ OpenBatch(messages, observed, step.calls, turn) /\ Anchored(messages)
  BY DEF HistoryInv, BatchInv
<1> QED
  BY <1>1, <1>2, BatchGrows, MessageTypes DEF ObservedMessages

(* Every step keeps results behind their calls, and the open batch one that *)
(* may be completed.                                                        *)
LEMMA BatchKept ==
  ASSUME HistoryInv, Next, TypeInv'
  PROVE  BatchInv'
<1>1. /\ TypeInv /\ BatchInv /\ Anchored(messages) /\ Anchored(db.messages)
  BY DEF HistoryInv, SoundInv, BoundInv, BatchInv
<1>2. /\ messages \in Seq(Message) /\ db \in RecordType
      /\ turn \in Nat /\ turn + 1 \in Nat
      /\ observed \in Nat /\ step \in StepType /\ step.calls \in Nat
      /\ loc \in LocalType
  BY <1>1, HistoryTypes
<1>3. CASE Staying
  <2>1. Anchored(messages') /\ Anchored(db'.messages)
    BY <1>1, <1>3, StayingEffect
  <2>2. CASE DecideTools
    <3>1. /\ pc = "decide" /\ pc' = "batch" /\ step' = step /\ step.calls > 0
          /\ observed' = observed /\ messages' = messages /\ turn' = turn
          /\ loc' = [loc EXCEPT !.contStart = None, !.contParts = 0]
      BY <2>2 DEF DecideTools, agentState, Running
    <3>2. loc'.contStart = None
      BY <1>2, <3>1 DEF LocalType
    <3> QED
      BY <1>1, <2>1, <3>1, <3>2 DEF BatchInv
  <2>3. CASE RunCall
    <3>1. /\ pc = "batch" /\ pc' \in {"batch", "observe"} /\ step' = step
          /\ observed' = observed /\ messages' = messages /\ turn' = turn
          /\ loc' = loc
      BY <2>3 DEF RunCall, agentState, Running
    <3> QED
      BY <1>1, <2>1, <3>1 DEF BatchInv
  <2>4. CASE Waiting \/ StreamCompletes \/ BatchRecorded
    <3>1. pc' \in {"top", "compact", "summary", "stream", "egress"}
      BY <2>4 DEF Waiting, TopProceeds, CompactSkipped,
         BeginSummary, SummaryFails, SendRequest, StreamCompletes,
           BatchRecorded
    <3> QED
      BY <2>1, <3>1 DEF BatchInv
  <2> QED
    BY <1>3, <2>2, <2>3, <2>4 DEF Staying
<1>4. CASE AddAssistant
  <2>1. /\ pc = "egress" /\ pc' = "decide" /\ step' = step /\ turn' = turn
        /\ observed' = observed /\ db' = db
        /\ messages' = Append(messages, AssistantMsg(turn, step.calls, 1))
    BY <1>4 DEF AddAssistant, frame, Running
  <2>2. observed = 0
    BY <1>1, <2>1, HistoryTypes
  <2>3. AssistantMsg(turn, step.calls, 1) \in Message
        /\ AssistantMsg(turn, step.calls, 1).role = "assistant"
    BY <1>2, MessageTypes
  <2>4. Anchored(messages')
    BY <1>1, <1>2, <2>1, <2>3, AnchoredAppend
  <2>5. OpenBatch(messages', 0, step.calls, turn)
    BY <1>2, <2>1, BatchOpens
  <2> QED
    BY <1>1, <2>1, <2>2, <2>4, <2>5 DEF BatchInv
<1>5. CASE Continue
  <2>1. /\ pc' = "top" /\ db' = db
        /\ messages' = Append(messages, ContinueMsg(turn))
    BY <1>5 DEF Continue
  <2>2. ContinueMsg(turn) \in Message /\ ContinueMsg(turn).role = "user"
    BY <1>2, MessageTypes
  <2>3. Anchored(messages')
    BY <1>1, <1>2, <2>1, <2>2, AnchoredAppend
  <2> QED
    BY <1>1, <2>1, <2>3 DEF BatchInv
<1>6. CASE ObserveResult
  <2>1. /\ pc = "observe" /\ messages' = ObservedMessages /\ db' = db
        /\ step' = [step EXCEPT !.cost = @ + subUsage] /\ loc' = loc
        /\ observed' = observed + 1 /\ turn' = turn
        /\ pc' = IF observed + 1 = step.calls THEN "settled" ELSE "observe"
    BY <1>6 DEF ObserveResult, Running
  <2>2. step'.calls = step.calls
    BY <1>2, <2>1 DEF StepType
  <2> QED
    BY <1>1, <2>1, <2>2, ObservedHistory DEF BatchInv
<1>7. CASE CompactSucceeds
  <2>1. /\ pc' = "stream" /\ db'.messages = messages'
        /\ messages' \in Seq(Message)
        /\ \E d \in Nat, e \in Nat :
             /\ messages[d + e + 1].role # "tool"
             /\ Moved(messages, messages', d, e)
             /\ \A j \in 1..Len(messages') : j <= e => messages'[j] = SummaryMsg
    BY <1>1, <1>7, CompactEffect
  <2>2. Anchored(messages')
    BY <1>1, <1>2, <2>1, AnchoredCompacted
  <2> QED
    BY <2>1, <2>2 DEF BatchInv
<1>8. CASE Closing
  <2>1. /\ pc' = "idle" /\ db'.messages = messages'
    BY <1>8, ClosingEffect
  <2>2. Anchored(messages')
    <3>1. CASE Ending
      BY <1>1, <1>8, <3>1, ClosingEffect
    <3>2. CASE ObserveTrips
      BY <1>8, <3>2, ClosingEffect, ObservedHistory
    <3>3. CASE Finish
      BY <1>8, <3>3, ClosingEffect, FinishHistory DEF Finish
    <3> QED
      BY <1>8, <3>1, <3>2, <3>3 DEF Closing
  <2> QED
    BY <2>1, <2>2 DEF BatchInv
<1>9. CASE StartBlocked \/ StartRouteFails \/ StartTurn
  <2>1. /\ AskMsg(turn + 1) \in Message /\ RefusalMsg(turn + 1) \in Message
        /\ AskMsg(turn + 1).role = "user"
        /\ RefusalMsg(turn + 1).role = "assistant"
    BY <1>2, MessageTypes
  <2>2. Anchored(Append(messages, AskMsg(turn + 1)))
        /\ Append(messages, AskMsg(turn + 1)) \in Seq(Message)
    BY <1>1, <1>2, <2>1, AnchoredAppend, AppendedHistory
  <2>3. CASE StartBlocked
    <3>1. /\ pc' = "idle" /\ db'.messages = messages'
          /\ messages' = messages \o <<AskMsg(turn + 1), RefusalMsg(turn + 1)>>
      BY <2>3 DEF StartBlocked, CloseTurn, Conclude
    <3>2. messages' = Append(Append(messages, AskMsg(turn + 1)),
                             RefusalMsg(turn + 1))
      BY <1>2, <2>1, <3>1, TwoAppended
    <3>3. Anchored(messages')
      BY <2>1, <2>2, <3>2, AnchoredAppend
    <3> QED
      BY <3>1, <3>3 DEF BatchInv
  <2>4. CASE StartRouteFails
    <3>1. pc' = "idle" /\ messages' = messages /\ db' = db
      BY <2>4 DEF StartRouteFails, EnterTurn
    <3> QED
      BY <1>1, <3>1 DEF BatchInv
  <2>5. CASE StartTurn
    <3>1. /\ messages' = Append(messages, AskMsg(turn + 1)) /\ db' = db
          /\ pc' = "top"
      BY <2>5 DEF StartTurn
    <3> QED
      BY <1>1, <2>2, <3>1 DEF BatchInv
  <2> QED
    BY <1>9, <2>3, <2>4, <2>5
<1>10. CASE Cancel
  BY <1>1, <1>10 DEF Cancel, agentState, frame, BatchInv
<1>11. CASE Abandon
  BY <1>1, <1>11 DEF Abandon, agentState, BatchInv
<1>12. CASE CrashAndResume
  BY <1>1, <1>12 DEF CrashAndResume, BatchInv
<1> QED
  BY <1>3, <1>4, <1>5, <1>6, <1>7, <1>8, <1>9, <1>10, <1>11, <1>12, StepCases
     DEF Growing

-----------------------------------------------------------------------------
(* Every step keeps calls without results to turns that were stopped.       *)
LEMMA CallsKept ==
  ASSUME HistoryInv, Next, TypeInv'
  PROVE  CallsInv'
<1>1. /\ TypeInv /\ TurnsInv /\ BatchInv
      /\ ShortExcept(messages, ended, OpenPosition)
      /\ ShortExcept(db.messages, ended, 0)
      /\ SignedBy(messages, turn) /\ SignedBy(db.messages, turn)
  BY DEF HistoryInv, SoundInv, BoundInv, CallsInv, TurnsInv
<1>2. /\ messages \in Seq(Message) /\ db \in RecordType
      /\ Len(messages) \in Nat /\ MaxTurns \in Nat
      /\ turn \in Nat /\ turn <= MaxTurns /\ turn + 1 \in Nat
      /\ ended \in [1..MaxTurns -> Statuses]
      /\ observed \in Nat /\ step \in StepType /\ step.calls \in Nat
      /\ pc # "idle" => turn \in 1..MaxTurns /\ ended[turn] = "open"
      /\ pc \notin {"observe", "settled"} => observed = 0
  BY <1>1, HistoryTypes
<1>3. CASE Staying
  <2>1. messages' = messages /\ db' = db /\ ended' = ended
    BY <1>1, <1>3, StayingEffect
  <2>2. OpenPosition' = OpenPosition
    <3>1. CASE DecideTools
      BY <3>1 DEF DecideTools, agentState, OpenPosition
    <3>2. CASE RunCall
      BY <3>2 DEF RunCall, agentState, OpenPosition
    <3>3. CASE Waiting \/ StreamCompletes \/ BatchRecorded
      BY <3>3 DEF Waiting, TopProceeds, CompactSkipped,
         BeginSummary, SummaryFails, SendRequest, StreamCompletes,
           BatchRecorded, OpenPosition
    <3> QED
      BY <1>3, <3>1, <3>2, <3>3 DEF Staying
  <2> QED
    BY <1>1, <2>1, <2>2 DEF CallsInv
<1>4. CASE AddAssistant
  <2>1. /\ pc = "egress" /\ pc' = "decide" /\ ended' = ended
        /\ observed' = observed /\ db' = db
        /\ messages' = Append(messages, AssistantMsg(turn, step.calls, 1))
    BY <1>4 DEF AddAssistant, frame
  <2>2. AssistantMsg(turn, step.calls, 1) \in Message
    BY <1>2, MessageTypes
  <2>3. ShortExcept(messages, ended, 0) /\ observed = 0
    BY <1>1, <1>2, <2>1 DEF OpenPosition
  <2>4. OpenPosition' = Len(messages) + 1
    BY <1>2, <2>1, <2>2, <2>3, AppendedHistory DEF OpenPosition
  <2>5. ShortExcept(messages', ended, Len(messages) + 1)
    BY <1>2, <2>1, <2>2, <2>3, ShortAppendOpen
  <2> QED
    BY <1>1, <2>1, <2>4, <2>5 DEF CallsInv
<1>5. CASE Continue
  <2>1. /\ pc = "decide" /\ pc' = "top" /\ ended' = ended /\ db' = db
        /\ step.calls = 0
        /\ messages' = Append(messages, ContinueMsg(turn))
    BY <1>5 DEF Continue, MayContinue
  <2>2. ContinueMsg(turn) \in Message /\ ContinueMsg(turn).role = "user"
    BY <1>2, MessageTypes
  <2>3. ~UnansweredAt(messages, Len(messages)) /\ OpenPosition = Len(messages)
    <3>1. observed = 0 /\ OpenBatch(messages, 0, 0, turn)
      BY <1>1, <1>2, <2>1 DEF BatchInv
    <3> QED
      BY <1>2, <2>1, <3>1, BatchAnswered DEF OpenPosition
  <2>4. ShortExcept(messages, ended, 0)
    BY <1>1, <2>3, ShortClosed
  <2>5. ShortExcept(messages', ended, 0)
    BY <1>2, <2>1, <2>2, <2>4, ShortAppendPlain
  <2> QED
    BY <1>1, <2>1, <2>5 DEF CallsInv, OpenPosition
<1>6. CASE ObserveResult
  <2>1. /\ pc = "observe" /\ messages' = ObservedMessages /\ db' = db
        /\ observed' = observed + 1 /\ ended' = ended
        /\ pc' = IF observed + 1 = step.calls THEN "settled" ELSE "observe"
    BY <1>6 DEF ObserveResult
  <2>2. /\ ToolMsg(turn, observed + 1) \in Message
        /\ ToolMsg(turn, observed + 1).role = "tool"
        /\ messages' = Append(messages, ToolMsg(turn, observed + 1))
        /\ OpenBatch(messages', observed + 1, step.calls, turn)
    BY <2>1, ObservedHistory
  <2>3. /\ messages' \in Seq(Message) /\ Len(messages') = Len(messages) + 1
    BY <1>2, <2>2, AppendedHistory
  <2>4. ShortExcept(messages', ended, OpenPosition)
    BY <1>1, <1>2, <2>2, ShortAppendPlain
  <2>5. OpenPosition = Len(messages') - (observed + 1)
    BY <1>2, <2>1, <2>3 DEF OpenPosition
  <2>6. CASE observed + 1 = step.calls
    <3>1. pc' = "settled"
      BY <2>1, <2>6
    <3>2. ~UnansweredAt(messages', OpenPosition)
      BY <1>2, <2>2, <2>3, <2>5, <2>6, BatchAnswered
    <3>3. ShortExcept(messages', ended, 0)
      BY <2>4, <3>2, ShortClosed
    <3> QED
      BY <1>1, <2>1, <3>1, <3>3 DEF CallsInv, OpenPosition
  <2>7. CASE observed + 1 # step.calls
    <3>1. OpenPosition' = OpenPosition
      BY <2>1, <2>5, <2>7 DEF OpenPosition
    <3> QED
      BY <1>1, <2>1, <2>4, <3>1 DEF CallsInv
  <2> QED
    BY <2>6, <2>7
<1>7. CASE CompactSucceeds
  <2>1. /\ pc = "summary" /\ pc' = "stream" /\ db'.messages = messages'
        /\ ended' = ended /\ messages' \in Seq(Message)
        /\ \E d \in Nat, e \in Nat :
             /\ Len(messages') + d = Len(messages)
             /\ Moved(messages, messages', d, e)
             /\ \A j \in 1..Len(messages') : j <= e => messages'[j] = SummaryMsg
    BY <1>1, <1>7, CompactEffect
  <2>2. ShortExcept(messages, ended, 0)
    BY <1>1, <2>1 DEF OpenPosition
  <2>3. ShortExcept(messages', ended, 0)
    BY <1>2, <2>1, <2>2, ShortMoved
  <2> QED
    BY <2>1, <2>3 DEF CallsInv, OpenPosition
<1>8. CASE Closing
  <2>1. /\ pc # "idle" /\ pc' = "idle" /\ db'.messages = messages'
        /\ \E status \in {"done", "cancelled", "error"} :
             /\ ended' = [ended EXCEPT ![turn] = status]
             /\ status = "done" => Finish
    BY <1>8, ClosingEffect
  <2>2. PICK status \in {"done", "cancelled", "error"} :
               /\ ended' = [ended EXCEPT ![turn] = status]
               /\ status = "done" => Finish
    BY <2>1
  <2>3. /\ \A t \in 1..turn : ended[t] \in CutShort => ended'[t] \in CutShort
        /\ ~Finish => ended'[turn] \in CutShort
    BY <1>2, <2>1, <2>2 DEF CutShort
  <2>4. pc \in {"decide", "batch", "observe"} =>
          messages[OpenPosition].turn = turn
    BY <1>1 DEF BatchInv, OpenBatch, OpenPosition
  <2>5. ~Finish => ShortExcept(messages, ended', 0)
    <3>1. ShortExcept(messages, ended', OpenPosition)
      BY <1>1, <1>2, <2>3, ShortLater
    <3>2. ~Finish => (OpenPosition \in 1..Len(messages) =>
                        ended'[messages[OpenPosition].turn] \in CutShort)
      BY <2>3, <2>4 DEF OpenPosition
    <3> QED
      BY <3>1, <3>2, ShortClosed
  <2>6. ShortExcept(messages', ended', 0)
    <3>1. CASE Ending
      <4>1. messages' = messages
        BY <1>8, <3>1, ClosingEffect
      <4>2. ~Finish
        BY <3>1 DEF Finish, Ending, TopCancelled, TopTrips, StreamFails,
             StreamCancelled, DecideCancelled, BatchCancelled
      <4> QED
        BY <2>5, <4>1, <4>2
    <3>2. CASE ObserveTrips
      <4>1. pc = "observe" /\ messages' = ObservedMessages
        BY <1>8, <3>2, ClosingEffect
      <4>2. /\ ToolMsg(turn, observed + 1) \in Message
            /\ ToolMsg(turn, observed + 1).role = "tool"
            /\ messages' = Append(messages, ToolMsg(turn, observed + 1))
        BY <4>1, ObservedHistory
      <4>3. ShortExcept(messages, ended', 0)
        BY <2>5, <4>1 DEF Finish
      <4> QED
        BY <1>2, <4>2, <4>3, ShortAppendPlain
    <3>3. CASE Finish
      <4>1. messages' = Collapsed /\ ShortExcept(Collapsed, ended, 0)
            /\ SignedBy(Collapsed, turn)
        BY <1>8, <3>3, ClosingEffect, FinishHistory DEF Finish
      <4> QED
        BY <1>2, <2>3, <4>1, ShortLater
    <3> QED
      BY <1>8, <3>1, <3>2, <3>3 DEF Closing
  <2> QED
    BY <2>1, <2>6 DEF CallsInv, OpenPosition
<1>9. CASE StartBlocked \/ StartRouteFails \/ StartTurn
  <2>1. /\ pc = "idle" /\ turn < MaxTurns
        /\ \E status \in Statuses : ended' = [ended EXCEPT ![turn + 1] = status]
    BY <1>9 DEF StartBlocked, StartRouteFails, StartTurn, EnterTurn, CloseTurn,
         Conclude, Statuses
  <2>2. \A t \in 1..turn : ended'[t] = ended[t]
    BY <1>2, <2>1
  <2>3. ShortExcept(messages, ended', 0) /\ ShortExcept(db.messages, ended', 0)
    <3>1. ShortExcept(messages, ended, 0)
      BY <1>1, <2>1 DEF OpenPosition
    <3> QED
      BY <1>1, <1>2, <2>2, <3>1, ShortLater
  <2>4. /\ AskMsg(turn + 1) \in Message /\ RefusalMsg(turn + 1) \in Message
        /\ AskMsg(turn + 1).role = "user" /\ RefusalMsg(turn + 1).calls = 0
    BY <1>2, MessageTypes DEF RefusalMsg, PlainMsg
  <2>5. /\ ShortExcept(Append(messages, AskMsg(turn + 1)), ended', 0)
        /\ Append(messages, AskMsg(turn + 1)) \in Seq(Message)
    BY <1>2, <2>3, <2>4, ShortAppendPlain, AppendedHistory
  <2>6. CASE StartBlocked
    <3>1. /\ pc' = "idle" /\ db'.messages = messages'
          /\ messages' = messages \o <<AskMsg(turn + 1), RefusalMsg(turn + 1)>>
      BY <2>6 DEF StartBlocked, CloseTurn, Conclude
    <3>2. messages' = Append(Append(messages, AskMsg(turn + 1)),
                             RefusalMsg(turn + 1))
      BY <1>2, <2>4, <3>1, TwoAppended
    <3>3. ShortExcept(messages', ended', 0)
      BY <2>4, <2>5, <3>2, ShortAppendPlain
    <3> QED
      BY <3>1, <3>3 DEF CallsInv, OpenPosition
  <2>7. CASE StartRouteFails
    <3>1. pc' = "idle" /\ messages' = messages /\ db' = db
      BY <2>1, <2>7 DEF StartRouteFails
    <3> QED
      BY <2>3, <3>1 DEF CallsInv, OpenPosition
  <2>8. CASE StartTurn
    <3>1. /\ messages' = Append(messages, AskMsg(turn + 1)) /\ db' = db
          /\ pc' = "top"
      BY <2>8 DEF StartTurn
    <3> QED
      BY <2>3, <2>5, <3>1 DEF CallsInv, OpenPosition
  <2> QED
    BY <1>9, <2>6, <2>7, <2>8
<1>10. CASE Cancel
  BY <1>1, <1>10 DEF Cancel, agentState, frame, CallsInv, OpenPosition
<1>11. CASE Abandon
  <2>1. /\ pc # "idle" /\ pc' = "idle" /\ messages' = messages /\ db' = db
        /\ ended' = [ended EXCEPT ![turn] = "abandoned"]
    BY <1>11 DEF Abandon, agentState
  <2>2. /\ \A t \in 1..turn : ended[t] \in CutShort => ended'[t] \in CutShort
        /\ ended'[turn] \in CutShort
    BY <1>2, <2>1 DEF CutShort
  <2>3. /\ ShortExcept(messages, ended', OpenPosition)
        /\ ShortExcept(db.messages, ended', 0)
    BY <1>1, <1>2, <2>2, ShortLater
  <2>4. OpenPosition \in 1..Len(messages) =>
          ended'[messages[OpenPosition].turn] \in CutShort
    BY <1>1, <2>2 DEF BatchInv, OpenBatch, OpenPosition
  <2>5. ShortExcept(messages, ended', 0)
    BY <2>3, <2>4, ShortClosed
  <2> QED
    BY <2>1, <2>3, <2>5 DEF CallsInv, OpenPosition
<1>12. CASE CrashAndResume
  <2>1. /\ pc' = "idle" /\ messages' = db.messages /\ db' = db
        /\ ended' = IF pc = "idle" THEN ended
                    ELSE [ended EXCEPT ![turn] = "crashed"]
    BY <1>12 DEF CrashAndResume
  <2>2. \A t \in 1..turn : ended[t] \in CutShort => ended'[t] \in CutShort
    BY <1>2, <2>1 DEF CutShort
  <2>3. ShortExcept(db.messages, ended', 0)
    BY <1>1, <1>2, <2>2, ShortLater
  <2> QED
    BY <2>1, <2>3 DEF CallsInv, OpenPosition
<1> QED
  BY <1>3, <1>4, <1>5, <1>6, <1>7, <1>8, <1>9, <1>10, <1>11, <1>12, StepCases
     DEF Growing

-----------------------------------------------------------------------------
(* Every step keeps the parts of the running answer together.               *)
LEMMA ChainKept ==
  ASSUME HistoryInv, Next, TypeInv'
  PROVE  ChainInv'
<1>1. /\ TypeInv /\ ChainInv /\ BatchInv
  BY DEF HistoryInv, SoundInv, BoundInv
<1>2. /\ messages \in Seq(Message) /\ Len(messages) \in Nat
      /\ turn \in Nat /\ step.calls \in Nat /\ loc \in LocalType
      /\ loc.contStart \in Nat \cup {None}
      /\ pc \notin {"observe", "settled"} => observed = 0
  BY <1>1, HistoryTypes
<1>3. CASE Staying
  <2>1. messages' = messages /\ pc # "idle" /\ pc' # "idle"
    BY <1>1, <1>3, StayingEffect
  <2>2. loc'.contStart \in {loc.contStart, None} /\ pc' # "decide"
    BY <1>2, <1>3 DEF Staying, Waiting, TopProceeds, CompactSkipped,
         BeginSummary, SummaryFails, SendRequest,
       StreamCompletes, DecideTools, RunCall, BatchRecorded, frame, LocalType
  <2> QED
    BY <1>1, <2>1, <2>2 DEF ChainInv
<1>4. CASE AddAssistant
  <2>1. /\ pc = "egress" /\ pc' = "decide" /\ loc' = loc
        /\ messages' = Append(messages, AssistantMsg(turn, step.calls, 1))
    BY <1>4 DEF AddAssistant, frame
  <2>2. /\ AssistantMsg(turn, step.calls, 1) \in Message
        /\ AssistantMsg(turn, step.calls, 1).role = "assistant"
        /\ AssistantMsg(turn, step.calls, 1).text = "answer"
    BY <1>2, MessageTypes DEF AssistantMsg, PlainMsg
  <2>3. Len(messages') = Len(messages) + 1 /\ Len(messages) > 0
    BY <1>1, <1>2, <2>1, <2>2, AppendedHistory DEF ChainInv
  <2>4. loc.contStart # None => ChainFrom(messages', loc.contStart)
    BY <1>1, <1>2, <2>1, <2>2, ChainAppend DEF ChainInv
  <2> QED
    BY <1>2, <2>1, <2>3, <2>4 DEF ChainInv
<1>5. CASE Continue
  <2>1. /\ pc = "decide" /\ pc' = "top" /\ step.calls = 0
        /\ loc' = [loc EXCEPT !.continuations = @ + 1, !.contParts = @ + 1,
                     !.contStart = IF @ = None THEN Len(messages) - 1 ELSE @]
        /\ messages' = Append(messages, ContinueMsg(turn))
    BY <1>5 DEF Continue, MayContinue
  <2>2. /\ ContinueMsg(turn) \in Message /\ ContinueMsg(turn).role = "user"
        /\ ContinueMsg(turn).text = "continue"
    BY <1>2, MessageTypes DEF ContinueMsg, PlainMsg
  <2>3. loc'.contStart = IF loc.contStart = None THEN Len(messages) - 1
                         ELSE loc.contStart
    BY <1>2, <2>1 DEF LocalType
  <2>4. Len(messages') = Len(messages) + 1 /\ Len(messages) > 1
    BY <1>1, <1>2, <2>1, <2>2, AppendedHistory DEF ChainInv
  <2>5. /\ messages[Len(messages)].role = "assistant"
        /\ messages[Len(messages)].text = "answer"
    <3>1. observed = 0 /\ OpenBatch(messages, 0, 0, turn)
      BY <1>1, <1>2, <2>1 DEF BatchInv
    <3> QED
      BY <1>2, <3>1 DEF OpenBatch
  <2>6. ChainFrom(messages, Len(messages) - 1)
    BY <1>2, <2>4, <2>5 DEF ChainFrom
  <2>7. ChainFrom(messages, loc'.contStart)
    BY <1>1, <2>1, <2>3, <2>6 DEF ChainInv
  <2>8. ChainFrom(messages', loc'.contStart)
    BY <1>2, <2>1, <2>2, <2>7, ChainAppend
  <2> QED
    BY <1>2, <2>1, <2>4, <2>8 DEF ChainInv
<1>6. CASE ObserveResult
  <2>1. /\ pc = "observe" /\ pc' \in {"settled", "observe"} /\ loc' = loc
        /\ messages' = ObservedMessages
    BY <1>6 DEF ObserveResult
  <2>2. Len(messages') = Len(messages) + 1
    BY <1>2, <2>1, ObservedHistory, AppendedHistory
  <2>3. loc.contStart = None
    BY <1>1, <2>1 DEF BatchInv
  <2> QED
    BY <1>2, <2>1, <2>2, <2>3 DEF ChainInv
<1>7. CASE CompactSucceeds
  <2>1. /\ pc = "summary" /\ pc' = "stream" /\ loc' = loc
        /\ messages' \in Seq(Message) /\ HeadIsSummary(messages')
        /\ \E d \in Nat, e \in Nat :
             /\ Moved(messages, messages', d, e)
             /\ \A j \in 1..Len(messages') : j <= e => messages'[j] = SummaryMsg
    BY <1>1, <1>7, CompactEffect
  <2>2. loc.contStart # None => ChainFrom(messages', loc.contStart)
    <3>1. loc.contStart # None =>
            loc.contStart \in Nat /\ ChainFrom(messages, loc.contStart)
      BY <1>1, <1>2, <2>1 DEF ChainInv
    <3> QED
      BY <1>2, <2>1, <3>1, ChainMoved
  <2> QED
    BY <2>1, <2>2 DEF ChainInv, HeadIsSummary
<1>8. CASE \/ Closing \/ StartBlocked \/ StartRouteFails
           \/ Abandon \/ CrashAndResume
  <2>1. pc' = "idle"
    BY <1>8, ClosingEffect DEF StartBlocked, CloseTurn, StartRouteFails,
       EnterTurn, Abandon, CrashAndResume
  <2> QED
    BY <2>1 DEF ChainInv
<1>9. CASE StartTurn
  <2>1. /\ pc' = "top" /\ messages' = Append(messages, AskMsg(turn + 1))
        /\ loc' = [NewLocals EXCEPT !.turnStart = Len(messages)]
    BY <1>9 DEF StartTurn
  <2>2. loc'.contStart = None
    BY <2>1 DEF NewLocals
  <2>3. Len(messages') = Len(messages) + 1
    BY <1>2, <2>1, MessageTypes, AppendedHistory
  <2> QED
    BY <1>2, <2>1, <2>2, <2>3 DEF ChainInv
<1>10. CASE Cancel
  BY <1>1, <1>10 DEF Cancel, agentState, frame, ChainInv
<1> QED
  BY <1>3, <1>4, <1>5, <1>6, <1>7, <1>8, <1>9, <1>10, StepCases DEF Growing

-----------------------------------------------------------------------------
(* Every step keeps the ask of the running turn, up to its second           *)
(* compaction.                                                              *)
LEMMA AskKept ==
  ASSUME HistoryInv, Next, TypeInv'
  PROVE  AskInv'
<1>1. TypeInv /\ AskInv
  BY DEF HistoryInv, SoundInv, BoundInv
<1>2. /\ messages \in Seq(Message) /\ Len(messages) \in Nat
      /\ turn \in Nat /\ loc.turnStart \in Nat /\ loc.turnStart + 1 \in Nat
      /\ lastTurn.compactions \in Nat
  BY <1>1, HistoryTypes
<1>3. CASE Staying
  BY <1>1, <1>3, StayingEffect DEF AskInv
<1>4. CASE Growing
  <2>1. /\ messages' = Append(messages, Added) /\ turn' = turn
        /\ pc # "idle" /\ pc' # "idle" /\ loc'.turnStart = loc.turnStart
        /\ lastTurn'.compactions = lastTurn.compactions
    BY <1>1, <1>4, GrowingEffect
  <2>2. Added \in Message
    BY <1>1, AddedMessage
  <2>3. IsAskOf(messages, loc.turnStart + 1, turn) =>
          IsAskOf(messages', loc.turnStart + 1, turn)
    BY <1>2, <2>1, <2>2, AppendedHistory DEF IsAskOf
  <2>4. Holds(messages, "ask", turn) => Holds(messages', "ask", turn)
    BY <1>2, <2>1, <2>2, HoldsAppend
  <2> QED
    BY <1>1, <2>1, <2>3, <2>4 DEF AskInv
<1>5. CASE CompactSucceeds
  <2>1. /\ pc = "summary" /\ pc' = "stream" /\ turn' = turn
        /\ lastTurn'.compactions = lastTurn.compactions + 1
        /\ messages' \in Seq(Message)
        /\ \E d \in Nat, e \in Nat :
             /\ d + e <= loc.turnStart
             /\ Len(messages') + d = Len(messages)
             /\ Moved(messages, messages', d, e)
    BY <1>1, <1>5, CompactEffect
  <2>2. PICK d \in Nat, e \in Nat :
             /\ d + e <= loc.turnStart
             /\ Len(messages') + d = Len(messages)
             /\ Moved(messages, messages', d, e)
    BY <2>1
  <2>3. lastTurn.compactions = 0 => Holds(messages', "ask", turn)
    <3>1. loc.turnStart + 1 > d + e
      BY <1>2, <2>2
    <3>2. lastTurn.compactions = 0 =>
            IsAskOf(messages, loc.turnStart + 1, turn)
      BY <1>1, <2>1 DEF AskInv
    <3> QED
      BY <1>2, <2>1, <2>2, <3>1, <3>2, AskMoved
  <2> QED
    BY <1>2, <2>1, <2>3 DEF AskInv
<1>6. CASE \/ Closing \/ StartBlocked \/ StartRouteFails
           \/ Abandon \/ CrashAndResume
  <2>1. pc' = "idle"
    BY <1>6, ClosingEffect DEF StartBlocked, CloseTurn, StartRouteFails,
       EnterTurn, Abandon, CrashAndResume
  <2> QED
    BY <2>1 DEF AskInv
<1>7. CASE StartTurn
  <2>1. /\ messages' = Append(messages, AskMsg(turn + 1)) /\ turn' = turn + 1
        /\ loc' = [NewLocals EXCEPT !.turnStart = Len(messages)]
        /\ lastTurn' = NewSummary
    BY <1>7 DEF StartTurn, EnterTurn
  <2>2. loc'.turnStart = Len(messages) /\ lastTurn'.compactions = 0
    BY <2>1 DEF NewLocals, NewSummary
  <2>3. /\ AskMsg(turn + 1) \in Message
        /\ AskMsg(turn + 1).text = "ask" /\ AskMsg(turn + 1).turn = turn + 1
    BY <1>2, MessageTypes DEF AskMsg, PlainMsg
  <2>4. IsAskOf(messages', Len(messages) + 1, turn + 1)
    BY <1>2, <2>1, <2>3, AppendedHistory DEF IsAskOf
  <2> QED
    BY <2>1, <2>2, <2>4 DEF AskInv
<1>8. CASE Cancel
  BY <1>1, <1>8 DEF Cancel, agentState, frame, AskInv
<1> QED
  BY <1>3, <1>4, <1>5, <1>6, <1>7, <1>8, StepCases

-----------------------------------------------------------------------------
(* What every step that keeps the asks owes the memory of the session.      *)
LEMMA MemoryCarried ==
  ASSUME TypeInv, MemoryInv, turn' = turn, crashes' = crashes,
         \A t \in 1..turn : Remembered(messages, t) => Remembered(messages', t),
         \A t \in 1..turn : ended'[t] = ended[t]
                            \/ (ended[t] = "open" /\ t = turn),
         db'.messages = db.messages \/ db'.messages = messages',
         \A t \in 1..turn :
           db'.messages = db.messages /\ ended'[t] # ended[t] =>
             ended'[t] \in {"escaped", "crashed", "abandoned", "open"}
  PROVE  MemoryInv'
<1>1. \A t \in 1..turn :
        \/ ended[t] \in {"escaped", "crashed"}
        \/ Remembered(messages, t)
        \/ ended[t] = "abandoned" /\ crashes > 0
  BY DEF MemoryInv, NothingForgottenSilently, Remembered
<1>2. \A t \in 1..turn :
        \/ ended'[t] \in {"escaped", "crashed"}
        \/ Remembered(messages', t)
        \/ ended'[t] = "abandoned" /\ crashes > 0
  BY <1>1
<1>3. NothingForgottenSilently'
  BY <1>2 DEF NothingForgottenSilently, Remembered
<1>4. \A t \in 1..turn :
        \/ ended'[t] \in {"escaped", "crashed", "abandoned", "open"}
        \/ Remembered(db'.messages, t)
  <2>1. CASE db'.messages = messages'
    BY <1>2, <2>1
  <2>2. CASE db'.messages = db.messages
    BY <2>2 DEF MemoryInv
  <2> QED
    BY <2>1, <2>2
<1> QED
  BY <1>3, <1>4 DEF MemoryInv

(* Every step keeps the asks of the turns in the history, or a summary at   *)
(* its head.                                                                *)
LEMMA MemoryKept ==
  ASSUME HistoryInv, Next, TypeInv'
  PROVE  MemoryInv'
<1>1. TypeInv /\ MemoryInv /\ TurnsInv
  BY DEF HistoryInv, SoundInv, BoundInv
<1>2. /\ messages \in Seq(Message) /\ db \in RecordType
      /\ turn \in Nat /\ turn <= MaxTurns /\ MaxTurns \in Nat /\ crashes \in Nat
      /\ ended \in [1..MaxTurns -> Statuses] /\ turn + 1 \in Nat
      /\ pc # "idle" => turn \in 1..MaxTurns /\ ended[turn] = "open"
  BY <1>1, HistoryTypes
<1>3. CASE Staying
  <2>1. /\ messages' = messages /\ db' = db /\ ended' = ended /\ turn' = turn
        /\ crashes' = crashes
    BY <1>1, <1>3, StayingEffect
  <2> QED
    BY <1>1, <2>1, MemoryCarried
<1>4. CASE Growing
  <2>1. /\ messages' = Append(messages, Added) /\ db' = db /\ ended' = ended
        /\ turn' = turn /\ crashes' = crashes
    BY <1>1, <1>4, GrowingEffect
  <2>2. \A t : Remembered(messages, t) => Remembered(messages', t)
    BY <1>1, <1>2, <2>1, AddedMessage, RememberedAppend
  <2> QED
    BY <1>1, <2>1, <2>2, MemoryCarried
<1>5. CASE CompactSucceeds
  <2>1. /\ db'.messages = messages' /\ ended' = ended
        /\ turn' = turn /\ crashes' = crashes /\ HeadIsSummary(messages')
    BY <1>1, <1>5, CompactEffect
  <2> QED
    BY <1>1, <2>1, MemoryCarried DEF Remembered
<1>6. CASE Closing
  <2>1. /\ pc # "idle" /\ turn' = turn /\ crashes' = crashes
        /\ db'.messages = messages'
        /\ \E status \in {"done", "cancelled", "error"} :
             ended' = [ended EXCEPT ![turn] = status]
    BY <1>6, ClosingEffect
  <2>2. \A t \in 1..turn : ended'[t] = ended[t]
                           \/ (ended[t] = "open" /\ t = turn)
    BY <1>2, <2>1
  <2>3. \A t : Remembered(messages, t) => Remembered(messages', t)
    <3>1. CASE Ending
      BY <1>6, <3>1, ClosingEffect
    <3>2. CASE ObserveTrips
      BY <1>2, <1>6, <3>2, ClosingEffect, ObservedHistory, RememberedAppend
    <3>3. CASE Finish
      BY <1>6, <3>3, ClosingEffect, FinishHistory DEF Finish
    <3> QED
      BY <1>6, <3>1, <3>2, <3>3 DEF Closing
  <2>4. \A t \in 1..turn :
          \/ ended'[t] \in {"escaped", "crashed"}
          \/ Remembered(messages', t)
          \/ ended'[t] = "abandoned" /\ crashes > 0
    <3>1. \A t \in 1..turn :
            \/ ended[t] \in {"escaped", "crashed"}
            \/ Remembered(messages, t)
            \/ ended[t] = "abandoned" /\ crashes > 0
      BY <1>1 DEF MemoryInv, NothingForgottenSilently, Remembered
    <3> QED
      BY <2>2, <2>3, <3>1
  <2> QED
    BY <2>1, <2>4 DEF MemoryInv, NothingForgottenSilently, Remembered
<1>7. CASE StartBlocked \/ StartRouteFails \/ StartTurn
  <2>1. /\ pc = "idle" /\ turn' = turn + 1 /\ crashes' = crashes
        /\ turn + 1 \in 1..MaxTurns
    BY <1>2, <1>7 DEF StartBlocked, StartRouteFails, StartTurn, EnterTurn
  <2>2. \A t \in 1..(turn + 1) : t \in 1..turn \/ t = turn + 1
    BY <1>2
  <2>3. \A t \in 1..turn :
          \/ ended[t] \in {"escaped", "crashed"}
          \/ Remembered(messages, t)
          \/ ended[t] = "abandoned" /\ crashes > 0
    BY <1>1 DEF MemoryInv, NothingForgottenSilently, Remembered
  <2>4. /\ AskMsg(turn + 1) \in Message /\ RefusalMsg(turn + 1) \in Message
        /\ AskMsg(turn + 1).text = "ask" /\ AskMsg(turn + 1).turn = turn + 1
    BY <1>2, MessageTypes DEF AskMsg, PlainMsg
  <2>5. /\ Append(messages, AskMsg(turn + 1)) \in Seq(Message)
        /\ Remembered(Append(messages, AskMsg(turn + 1)), turn + 1)
        /\ \A t : Remembered(messages, t) =>
                    Remembered(Append(messages, AskMsg(turn + 1)), t)
    BY <1>2, <2>4, AppendedHistory, RememberedAppend
  <2>6. CASE StartBlocked
    <3>1. /\ db'.messages = messages'
          /\ messages' = messages \o <<AskMsg(turn + 1), RefusalMsg(turn + 1)>>
          /\ ended' = [ended EXCEPT ![turn + 1] = "blocked"]
      BY <2>6 DEF StartBlocked, CloseTurn, Conclude
    <3>2. messages' = Append(Append(messages, AskMsg(turn + 1)),
                             RefusalMsg(turn + 1))
      BY <1>2, <2>4, <3>1, TwoAppended
    <3>3. /\ Remembered(messages', turn + 1)
          /\ \A t : Remembered(messages, t) => Remembered(messages', t)
      BY <2>4, <2>5, <3>2, RememberedAppend
    <3>4. \A t \in 1..turn : ended'[t] = ended[t]
      BY <1>2, <3>1
    <3>5. \A t \in 1..(turn + 1) :
            \/ ended'[t] \in {"escaped", "crashed"}
            \/ Remembered(messages', t)
            \/ ended'[t] = "abandoned" /\ crashes > 0
      BY <2>2, <2>3, <3>3, <3>4
    <3> QED
      BY <2>1, <3>1, <3>5 DEF MemoryInv, NothingForgottenSilently, Remembered
  <2>7. CASE StartRouteFails
    <3>1. /\ messages' = messages /\ db' = db
          /\ ended' = [ended EXCEPT ![turn + 1] = "escaped"]
      BY <2>7 DEF StartRouteFails
    <3>2. ended'[turn + 1] = "escaped" /\ \A t \in 1..turn : ended'[t] = ended[t]
      BY <1>2, <2>1, <3>1
    <3>3. \A t \in 1..(turn + 1) :
            /\ \/ ended'[t] \in {"escaped", "crashed"}
               \/ Remembered(messages', t)
               \/ ended'[t] = "abandoned" /\ crashes > 0
            /\ \/ ended'[t] \in {"escaped", "crashed", "abandoned", "open"}
               \/ Remembered(db'.messages, t)
      BY <1>1, <2>2, <2>3, <3>1, <3>2 DEF MemoryInv
    <3> QED
      BY <2>1, <3>3 DEF MemoryInv, NothingForgottenSilently, Remembered
  <2>8. CASE StartTurn
    <3>1. /\ messages' = Append(messages, AskMsg(turn + 1)) /\ db' = db
          /\ ended' = [ended EXCEPT ![turn + 1] = "open"]
      BY <2>8 DEF StartTurn
    <3>2. ended'[turn + 1] = "open" /\ \A t \in 1..turn : ended'[t] = ended[t]
      BY <1>2, <2>1, <3>1
    <3>3. \A t \in 1..(turn + 1) :
            /\ \/ ended'[t] \in {"escaped", "crashed"}
               \/ Remembered(messages', t)
               \/ ended'[t] = "abandoned" /\ crashes > 0
            /\ \/ ended'[t] \in {"escaped", "crashed", "abandoned", "open"}
               \/ Remembered(db'.messages, t)
      BY <1>1, <2>2, <2>3, <2>5, <3>1, <3>2 DEF MemoryInv
    <3> QED
      BY <2>1, <3>3 DEF MemoryInv, NothingForgottenSilently, Remembered
  <2> QED
    BY <1>7, <2>6, <2>7, <2>8
<1>8. CASE Cancel
  <2>1. /\ messages' = messages /\ db' = db /\ ended' = ended /\ turn' = turn
        /\ crashes' = crashes
    BY <1>8 DEF Cancel, agentState
  <2> QED
    BY <1>1, <2>1, MemoryCarried
<1>9. CASE Abandon
  <2>1. /\ messages' = messages /\ db' = db /\ turn' = turn
        /\ crashes' = crashes /\ pc # "idle"
        /\ ended' = [ended EXCEPT ![turn] = "abandoned"]
    BY <1>9 DEF Abandon, agentState
  <2>2. \A t \in 1..turn : \/ ended'[t] = ended[t]
                           \/ /\ ended[t] = "open" /\ t = turn
                              /\ ended'[t] = "abandoned"
    BY <1>2, <2>1
  <2> QED
    BY <1>1, <2>1, <2>2, MemoryCarried
<1>10. CASE CrashAndResume
  <2>1. /\ messages' = db.messages /\ db' = db /\ turn' = turn
        /\ crashes' = crashes + 1
        /\ ended' = IF pc = "idle" THEN ended
                    ELSE [ended EXCEPT ![turn] = "crashed"]
    BY <1>10 DEF CrashAndResume
  <2>2. \A t \in 1..turn :
          \/ ended[t] \in {"escaped", "crashed", "abandoned", "open"}
          \/ Remembered(db.messages, t)
    BY <1>1 DEF MemoryInv
  <2>3. \A t \in 1..turn :
          /\ ended[t] = "open" => ended'[t] = "crashed"
          /\ ended[t] # "open" => ended'[t] = ended[t]
    BY <1>1, <1>2, <2>1 DEF TurnsInv
  <2>4. crashes' > 0
    BY <1>2, <2>1
  <2>5. \A t \in 1..turn :
          \/ ended'[t] \in {"escaped", "crashed"}
          \/ Remembered(messages', t)
          \/ ended'[t] = "abandoned" /\ crashes' > 0
    BY <2>1, <2>2, <2>3, <2>4
  <2> QED
    BY <2>1, <2>2, <2>3, <2>5
       DEF MemoryInv, NothingForgottenSilently, Remembered
<1> QED
  BY <1>3, <1>4, <1>5, <1>6, <1>7, <1>8, <1>9, <1>10, StepCases

-----------------------------------------------------------------------------
(* Where an answer begins does not move while the history grows.            *)
LEMMA BeginsAppend ==
  ASSUME NEW m \in Seq(Message), NEW x \in Message, NEW k, NEW t,
         Begins(m, k, t)
  PROVE  Begins(Append(m, x), k, t)
<1>1. /\ Len(m) \in Nat /\ Len(Append(m, x)) = Len(m) + 1
      /\ \A j \in 1..Len(m) : Append(m, x)[j] = m[j]
  BY AppendedHistory
<1>2. k \in 1..Len(m) /\ k \in 1..Len(Append(m, x))
  BY <1>1 DEF Begins
<1> QED
  BY <1>1, <1>2 DEF Begins

(* Every step keeps the answer of a turn where its end looks for it.        *)
LEMMA AnswerKept ==
  ASSUME HistoryInv, Next, TypeInv'
  PROVE  AnswerInv'
<1>1. TypeInv /\ AnswerInv /\ BatchInv
  BY DEF HistoryInv, SoundInv, BoundInv
<1>2. /\ messages \in Seq(Message) /\ Len(messages) \in Nat
      /\ turn \in Nat /\ loc \in LocalType /\ step.calls \in Nat
      /\ loc.contStart \in Nat \cup {None} /\ loc.contParts \in Nat
      /\ pieces \in Nat /\ lastTurn.compactions \in Nat
      /\ pc \notin {"observe", "settled"} => observed = 0
  BY <1>1, HistoryTypes
<1>3. CASE Staying
  <2>1. /\ messages' = messages /\ turn' = turn /\ pc # "idle"
        /\ lastTurn'.compactions = lastTurn.compactions
    BY <1>1, <1>3, StayingEffect
  <2>2. CASE Waiting \/ StreamCompletes
    <3>1. /\ pc \in {"top", "compact", "summary", "stream"} /\ loc' = loc
          /\ pieces' = pieces /\ pc' \in {"compact", "summary", "stream", "egress"}
      BY <2>2 DEF Waiting, TopProceeds, CompactSkipped,
         BeginSummary, SummaryFails, SendRequest, StreamCompletes,
           frame
    <3> QED
      BY <1>1, <2>1, <3>1 DEF AnswerInv
  <2>3. CASE DecideTools
    <3>1. /\ pc = "decide" /\ pc' = "batch" /\ step.calls > 0
          /\ pieces' = pieces
          /\ loc' = [loc EXCEPT !.contStart = None, !.contParts = 0]
      BY <2>3 DEF DecideTools
    <3>2. loc'.contStart = None /\ loc'.contParts = 0
      BY <1>2, <3>1 DEF LocalType
    <3> QED
      BY <1>1, <2>1, <3>1, <3>2 DEF AnswerInv
  <2>4. CASE RunCall
    <3>1. /\ pc = "batch" /\ pc' \in {"batch", "observe"} /\ loc' = loc
          /\ pieces' = pieces
      BY <2>4 DEF RunCall
    <3> QED
      BY <1>1, <2>1, <3>1 DEF AnswerInv
  <2>5. CASE BatchRecorded
    <3>1. /\ pc = "settled" /\ pc' = "top" /\ loc' = loc /\ pieces' = pieces
      BY <2>5 DEF BatchRecorded
    <3>2. /\ OpenBatch(messages, observed, observed, turn)
          /\ observed > 0 /\ observed \in Nat /\ loc.contStart = None
      BY <1>1, <1>2, <3>1 DEF BatchInv
    <3>3. /\ (Len(messages) - observed) + observed = Len(messages)
          /\ Len(messages) >= 1 /\ observed \in 1..observed
      BY <1>2, <3>2 DEF OpenBatch
    <3>4. messages[Len(messages)].text = "result"
      BY <3>2, <3>3 DEF OpenBatch
    <3>5. Begins(messages, Len(messages), turn)
      BY <1>2, <3>3, <3>4 DEF Begins
    <3> QED
      BY <1>1, <2>1, <3>1, <3>2, <3>5 DEF AnswerInv
  <2> QED
    BY <1>3, <2>2, <2>3, <2>4, <2>5 DEF Staying
<1>4. CASE AddAssistant
  <2>1. /\ pc = "egress" /\ pc' = "decide" /\ loc' = loc /\ step' = step
        /\ turn' = turn /\ lastTurn' = lastTurn
        /\ messages' = Append(messages, AssistantMsg(turn, step.calls, 1))
        /\ pieces' = IF step.calls = 0 THEN pieces + 1 ELSE 0
    BY <1>4 DEF AddAssistant, frame, Running
  <2>2. /\ AssistantMsg(turn, step.calls, 1) \in Message
        /\ AssistantMsg(turn, step.calls, 1).parts = 1
    BY <1>2, MessageTypes DEF AssistantMsg, PlainMsg
  <2>3. /\ Len(messages') = Len(messages) + 1 /\ Len(messages') - 1 = Len(messages)
        /\ messages'[Len(messages')].parts = 1
    BY <1>2, <2>1, <2>2, AppendedHistory
  <2>4. \A k : Begins(messages, k, turn) => Begins(messages', k, turn)
    BY <1>2, <2>1, <2>2, BeginsAppend
  <2>5. lastTurn.compactions = 0 /\ step.calls = 0 =>
          Begins(messages', IF loc.contStart = None THEN Len(messages') - 1
                            ELSE loc.contStart, turn)
    BY <1>1, <2>1, <2>3, <2>4 DEF AnswerInv
  <2>6. lastTurn.compactions = 0 => pieces = loc.contParts
    BY <1>1, <2>1 DEF AnswerInv
  <2>7. lastTurn.compactions = 0 /\ loc.contStart = None => loc.contParts = 0
    BY <1>1, <2>1 DEF AnswerInv
  <2> QED
    BY <2>1, <2>3, <2>5, <2>6, <2>7 DEF AnswerInv
<1>5. CASE Continue
  <2>1. /\ pc = "decide" /\ pc' = "top" /\ step.calls = 0
        /\ loc' = [loc EXCEPT !.continuations = @ + 1, !.contParts = @ + 1,
                     !.contStart = IF @ = None THEN Len(messages) - 1 ELSE @]
        /\ messages' = Append(messages, ContinueMsg(turn))
        /\ turn' = turn /\ pieces' = pieces
    BY <1>5 DEF Continue, MayContinue, Running
  <2>2. /\ loc'.contStart = IF loc.contStart = None THEN Len(messages) - 1
                            ELSE loc.contStart
        /\ loc'.contParts = loc.contParts + 1
    BY <1>2, <2>1 DEF LocalType
  <2>3. lastTurn'.compactions = lastTurn.compactions
    BY <1>1, <1>5, GrowingEffect DEF Growing
  <2>4. SUFFICES ASSUME lastTurn.compactions = 0
                 PROVE  /\ loc'.contStart # None
                        /\ pieces' = loc'.contParts
                        /\ Begins(messages', loc'.contStart, turn)
    BY <2>1, <2>3 DEF AnswerInv
  <2>5. Begins(messages, loc'.contStart, turn) /\ pieces = loc.contParts + 1
    BY <1>1, <2>1, <2>2, <2>4 DEF AnswerInv
  <2>6. loc'.contStart # None
    BY <1>2, <2>5 DEF Begins, None
  <2>7. Begins(messages', loc'.contStart, turn)
    BY <1>2, <2>1, <2>5, MessageTypes, BeginsAppend
  <2> QED
    BY <2>1, <2>2, <2>5, <2>6, <2>7
<1>6. CASE ObserveResult
  <2>1. /\ pc = "observe" /\ pc' \in {"observe", "settled"} /\ loc' = loc
        /\ pieces' = pieces
    BY <1>6 DEF ObserveResult
  <2>2. lastTurn'.compactions = lastTurn.compactions
    BY <1>1, <1>6, GrowingEffect DEF Growing
  <2> QED
    BY <1>1, <2>1, <2>2 DEF AnswerInv
<1>7. CASE CompactSucceeds
  <2>1. lastTurn'.compactions # 0
    BY <1>1, <1>2, <1>7, CompactEffect
  <2> QED
    BY <2>1 DEF AnswerInv
<1>8. CASE \/ Closing \/ StartBlocked \/ StartRouteFails
           \/ Abandon \/ CrashAndResume
  <2>1. pc' = "idle"
    BY <1>8, ClosingEffect DEF StartBlocked, CloseTurn, StartRouteFails,
       EnterTurn, Abandon, CrashAndResume
  <2> QED
    BY <2>1 DEF AnswerInv
<1>9. CASE StartTurn
  <2>1. /\ pc' = "top" /\ messages' = Append(messages, AskMsg(turn + 1))
        /\ loc' = [NewLocals EXCEPT !.turnStart = Len(messages)]
        /\ pieces' = 0 /\ turn' = turn + 1
    BY <1>9 DEF StartTurn, EnterTurn
  <2>2. loc'.contStart = None /\ loc'.contParts = 0
    BY <2>1 DEF NewLocals
  <2>3. /\ AskMsg(turn + 1) \in Message
        /\ AskMsg(turn + 1).text = "ask" /\ AskMsg(turn + 1).turn = turn + 1
    BY <1>2, MessageTypes DEF AskMsg, PlainMsg
  <2>4. Begins(messages', Len(messages'), turn + 1)
    BY <1>2, <2>1, <2>3, AppendedHistory DEF Begins
  <2> QED
    BY <2>1, <2>2, <2>4 DEF AnswerInv
<1>10. CASE Cancel
  BY <1>1, <1>10 DEF Cancel, agentState, frame, history, AnswerInv
<1> QED
  BY <1>3, <1>4, <1>5, <1>6, <1>7, <1>8, <1>9, <1>10, StepCases DEF Growing

-----------------------------------------------------------------------------
(* Every step keeps the answers of closed turns whole.                      *)
LEMMA WholeKept ==
  ASSUME HistoryInv, Next, TypeInv'
  PROVE  AnswerWhole'
<1>1. TypeInv /\ AuditInv /\ AnswerWhole
  BY DEF HistoryInv, SoundInv, BoundInv
<1>2. /\ turn \in Nat /\ turn <= MaxTurns /\ MaxTurns \in Nat
      /\ ended \in [1..MaxTurns -> Statuses]
      /\ pc # "idle" => turn \in 1..MaxTurns
  BY <1>1, HistoryTypes
<1>3. CASE Staying \/ Growing \/ CompactSucceeds \/ StartTurn
  <2>1. pc' # "idle"
    BY <1>1, <1>3, StayingEffect, GrowingEffect, CompactEffect DEF StartTurn
  <2> QED
    BY <2>1 DEF AnswerWhole
<1>4. CASE Finish
  <2>1. /\ pc = "decide" /\ step.calls = 0 /\ turn' = turn /\ pieces' = pieces
        /\ messages' = Collapsed /\ lastTurn' = lastTurn
    BY <1>4 DEF Finish, CloseTurn, Conclude, Running
  <2>2. lastTurn.compactions = 0 =>
          LET n == Len(Collapsed)
          IN /\ Collapsed[n].text = "answer" /\ Collapsed[n].parts = pieces
             /\ Begins(Collapsed, n - 1, turn)
    BY <2>1, FinishHistory
  <2> QED
    BY <2>1, <2>2 DEF AnswerWhole, Begins
<1>5. CASE Closing /\ ~Finish
  <2>1. /\ pc # "idle" /\ turn' = turn
        /\ \E status \in {"cancelled", "error"} :
             ended' = [ended EXCEPT ![turn] = status]
    BY <1>5, ClosingEffect
  <2>2. ended'[turn] # "done"
    BY <1>2, <2>1
  <2> QED
    BY <2>1, <2>2 DEF AnswerWhole
<1>6. CASE StartBlocked \/ StartRouteFails
  <2>1. /\ turn' = turn + 1 /\ turn < MaxTurns
        /\ \E status \in {"blocked", "escaped"} :
             ended' = [ended EXCEPT ![turn + 1] = status]
    BY <1>6 DEF StartBlocked, StartRouteFails, EnterTurn, CloseTurn, Conclude
  <2>2. ended'[turn + 1] # "done"
    BY <1>2, <2>1
  <2> QED
    BY <2>1, <2>2 DEF AnswerWhole
<1>7. CASE Cancel
  BY <1>1, <1>7 DEF Cancel, agentState, history, AnswerWhole
<1>8. CASE Abandon
  <2>1. /\ pc # "idle" /\ turn' = turn
        /\ ended' = [ended EXCEPT ![turn] = "abandoned"]
    BY <1>8 DEF Abandon
  <2>2. ended'[turn] # "done"
    BY <1>2, <2>1
  <2> QED
    BY <2>1, <2>2 DEF AnswerWhole
<1>9. CASE CrashAndResume
  <2>1. /\ messages' = db.messages /\ lastTurn' = db.lastTurn /\ turn' = turn
        /\ pieces' = pieces
        /\ ended' = IF pc = "idle" THEN ended
                    ELSE [ended EXCEPT ![turn] = "crashed"]
    BY <1>9 DEF CrashAndResume, history
  <2>2. CASE pc = "idle" /\ turn > 0 /\ ended[turn] = "done"
    <3>1. db = Snapshot
      BY <1>1, <2>2 DEF AuditInv, TurnClosed, Closed
    <3>2. messages' = messages /\ lastTurn' = lastTurn
      BY <2>1, <3>1 DEF Snapshot
    <3> QED
      BY <1>1, <2>1, <2>2, <3>2 DEF AnswerWhole
  <2>3. CASE ~(pc = "idle" /\ turn > 0 /\ ended[turn] = "done")
    <3>1. ~(turn > 0 /\ ended'[turn] = "done")
      BY <1>2, <2>1, <2>3
    <3> QED
      BY <2>1, <3>1 DEF AnswerWhole
  <2> QED
    BY <2>2, <2>3
<1> QED
  BY <1>3, <1>4, <1>5, <1>6, <1>7, <1>8, <1>9, StepCases

-----------------------------------------------------------------------------
(* The history is empty at the start.                                       *)
LEMMA HistoryInit == Init => HistoryInv
<1> SUFFICES ASSUME Init PROVE HistoryInv
  OBVIOUS
<1>1. SoundInv
  BY TypeInit, BoundInit, AuditInit DEF SoundInv, BoundInv
<1>2. /\ messages = <<>> /\ db.messages = <<>> /\ pc = "idle" /\ turn = 0
      /\ ended = [t \in 1..MaxTurns |-> "none"]
  BY DEF Init, Snapshot
<1>3. Len(messages) = 0 /\ Len(db.messages) = 0
  BY <1>2
<1> QED
  BY <1>1, <1>2, <1>3
     DEF HistoryInv, TurnsInv, SignedBy, BatchInv, Anchored, CallsInv,
         ShortExcept, ChainInv, AskInv, MemoryInv, NothingForgottenSilently,
         AnswerInv, AnswerWhole

(* Every step keeps the invariant of the history.                           *)
LEMMA HistoryStep == HistoryInv /\ [Next]_vars => HistoryInv'
<1> SUFFICES ASSUME HistoryInv, [Next]_vars PROVE HistoryInv'
  OBVIOUS
<1>1. SoundInv' /\ TypeInv'
  <2>1. SoundInv'
    BY AuditStep DEF HistoryInv
  <2> QED
    BY <2>1 DEF SoundInv, BoundInv
<1>2. CASE Next
  BY <1>1, <1>2, TurnsKept, BatchKept, CallsKept, ChainKept, AskKept,
     MemoryKept, AnswerKept, WholeKept DEF HistoryInv
<1>3. CASE UNCHANGED vars
  BY <1>1, <1>3 DEF vars, HistoryInv, TurnsInv, BatchInv, CallsInv,
     OpenPosition, ChainInv, AskInv, MemoryInv, NothingForgottenSilently,
     AnswerInv, AnswerWhole
<1> QED
  BY <1>2, <1>3

(* For every length of turn, batch and conversation: a provider accepts the *)
(* history, a finished turn answered its calls and gave its whole answer,   *)
(* the first compaction keeps the ask it works on, and what was asked is in *)
(* the history or in its summary.                                           *)
THEOREM HistoryStaysSound == Spec => []HistoryIsSound
<1> QED
  BY HistoryInit, HistoryStep, HistoryInvImplies, PTL DEF Spec
===============================================================================
