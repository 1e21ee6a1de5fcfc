------------------------- MODULE ContextWindowProofs -------------------------
(***************************************************************************)
(* What holds of the requests of a session for every window, overhead, cap *)
(* and size of message, and of its history for every KeepRecent.           *)
(*                                                                         *)
(* First the operators of WorkingMemory over messages that have a size:    *)
(* what the recent parts of a history weigh, what Fit takes of it, where   *)
(* CutIndex cuts it and what a summary makes of the rest.  Then the        *)
(* invariant that joins the history to the last request, action by action. *)
(***************************************************************************)
EXTENDS ContextWindow, WellFoundedInduction, SequenceTheorems, TLAPS

(* A message as the window sees it: only an answer of the model asks for    *)
(* tools.                                                                   *)
SizedMessage ==
  {m \in [role: Roles, text: Texts, turn: Nat, calls: Nat, call: Nat,
          parts: Nat, sum: BOOLEAN, size: Nat] :
     m.role # "assistant" => m.calls = 0}

(* Induction over the numbers, said of the set of those that have the       *)
(* property.                                                                *)
LEMMA InductionOnNat ==
  ASSUME NEW S \in SUBSET Nat, 0 \in S, \A n \in S : n + 1 \in S
  PROVE  S = Nat
<1> SUFFICES ASSUME Nat \ S # {} PROVE FALSE
  OBVIOUS
<1>1. PICK x \in Nat \ S : \A y \in Nat \ S : ~(<<y, x>> \in OpToRel(<, Nat))
  BY NatLessThanWellFounded, WFMin
<1>2. x \in Nat /\ x # 0 /\ x - 1 \in Nat /\ x - 1 < x
  OBVIOUS
<1>3. <<x - 1, x>> \in OpToRel(<, Nat)
  BY <1>2 DEF OpToRel
<1>4. x - 1 \in S
  BY <1>1, <1>2, <1>3
<1>5. (x - 1) + 1 \in S
  BY <1>4
<1>6. (x - 1) + 1 = x
  BY <1>2
<1> QED
  BY <1>1, <1>5, <1>6

(* Every nonempty set of numbers below a bound has a largest element, so    *)
(* the CHOOSE of Largest picks it.                                          *)
LEMMA LargestIsMember ==
  ASSUME NEW n \in Nat, NEW S \in SUBSET (0..n), S # {}
  PROVE  Largest(S) \in S /\ \A y \in S : y <= Largest(S)
<1> DEFINE T == {k \in 0..n : n - k \in S}
<1>1. PICK e \in S : TRUE
  OBVIOUS
<1>2. n - e \in T
  BY <1>1
<1>3. T \subseteq Nat /\ T # {}
  BY <1>2
<1>4. PICK x \in T : \A y \in T : ~(<<y, x>> \in OpToRel(<, Nat))
  <2> HIDE DEF T
  <2> QED
    BY <1>3, NatLessThanWellFounded, WFMin
<1>5. ASSUME NEW y \in T PROVE x <= y
  <2>1. x \in Nat /\ y \in Nat
    BY <1>3, <1>4
  <2>2. y < x => <<y, x>> \in OpToRel(<, Nat)
    BY <2>1 DEF OpToRel
  <2> HIDE DEF T
  <2>3. ~(y < x)
    BY <1>4, <2>2
  <2> QED
    BY <2>1, <2>3
<1>6. n - x \in S
  BY <1>4
<1>7. ASSUME NEW y \in S PROVE y <= n - x
  <2>1. n - y \in T
    BY <1>7
  <2>2. x <= n - y
    BY <1>5, <2>1
  <2>3. x \in 0..n /\ y \in 0..n
    BY <1>4
  <2> HIDE DEF T
  <2> QED
    BY <2>2, <2>3
<1> HIDE DEF T
<1>8. \E z \in S : \A y \in S : y <= z
  BY <1>6, <1>7
<1> QED
  BY <1>8 DEF Largest

(* compaction_cut: the cut keeps the last k messages and everything from p  *)
(* on, and the first kept message is not a tool result.                     *)
LEMMA CutIndexProperties ==
  ASSUME NEW msgs \in Seq(SizedMessage), NEW k \in Nat \ {0}, NEW p \in Nat
  PROVE  /\ CutIndex(msgs, k, p) \in 0..Len(msgs)
         /\ CutIndex(msgs, k, p) # 0 =>
              /\ CutIndex(msgs, k, p) <= Len(msgs) - k
              /\ CutIndex(msgs, k, p) <= p
              /\ msgs[CutIndex(msgs, k, p) + 1].role # "tool"
<1> DEFINE cut == Least(Len(msgs) - k, p)
           C == {c \in 0..cut : c = 0 \/ msgs[c + 1].role # "tool"}
<1>1. Len(msgs) \in Nat
  OBVIOUS
<1>2. cut \in Int /\ cut <= Len(msgs) - k /\ cut <= p
  BY <1>1 DEF Least
<1>3. CASE cut <= 0
  BY <1>1, <1>3 DEF CutIndex
<1>4. CASE cut > 0
  <2>1. CutIndex(msgs, k, p) = Largest(C)
    BY <1>2, <1>4 DEF CutIndex
  <2>2. cut \in Nat /\ C \in SUBSET (0..cut) /\ 0 \in C
    BY <1>2, <1>4
  <2> HIDE DEF C
  <2>3. Largest(C) \in C
    BY <2>2, LargestIsMember
  <2>4. Largest(C) \in 0..cut
        /\ (Largest(C) = 0 \/ msgs[Largest(C) + 1].role # "tool")
    BY <2>3 DEF C
  <2> HIDE DEF cut
  <2> QED
    BY <1>1, <1>2, <2>1, <2>2, <2>4
<1> QED
  BY <1>2, <1>3, <1>4

(* A suffix of a history is a history.                                      *)
LEMMA SuffixProperties ==
  ASSUME NEW msgs \in Seq(SizedMessage), NEW i \in 1..(Len(msgs) + 1)
  PROVE  /\ Suffix(msgs, i) \in Seq(SizedMessage)
         /\ Len(Suffix(msgs, i)) = Len(msgs) - i + 1
         /\ \A j \in 1..(Len(msgs) - i + 1) : Suffix(msgs, i)[j] = msgs[i + j - 1]
<1>1. Len(msgs) \in Nat /\ \A j \in 1..Len(msgs) : msgs[j] \in SizedMessage
  BY ElementOfSeq
<1> QED
  BY <1>1, SubSeqProperties DEF Suffix

(* Two messages that say the same: they differ at most in the summary that  *)
(* was merged in front of one of them.                                      *)
SaysTheSame(x, y) ==
  /\ x.role = y.role /\ x.text = y.text /\ x.turn = y.turn
  /\ x.calls = y.calls /\ x.call = y.call /\ x.parts = y.parts

(* The positions of n beyond e hold what m holds d positions later.         *)
Moved(m, n, d, e) ==
  \A j \in 1..Len(n) :
    j > e => j + d \in 1..Len(m) /\ SaysTheSame(n[j], m[j + d])

(* A history grows at its end.                                              *)
LEMMA AppendedHistory ==
  ASSUME NEW m \in Seq(SizedMessage), NEW x \in SizedMessage
  PROVE  /\ Append(m, x) \in Seq(SizedMessage)
         /\ Len(m) \in Nat /\ Len(Append(m, x)) = Len(m) + 1
         /\ \A j \in 1..Len(m) : Append(m, x)[j] = m[j]
         /\ Append(m, x)[Len(m) + 1] = x
BY AppendProperties

(* A tool result that was anchored stays so where its history is moved, as  *)
(* long as the part that moves does not begin with a tool result.           *)
LEMMA AnchoredMoves ==
  ASSUME NEW m \in Seq(SizedMessage), NEW n \in Seq(SizedMessage), NEW d \in Nat,
         NEW e \in Nat, Moved(m, n, d, e),
         e + d = 0 \/ m[e + d + 1].role # "tool",
         NEW i \in 1..Len(n), i > e, AnchoredAt(m, i + d)
  PROVE  AnchoredAt(n, i)
<1>1. /\ Len(n) \in Nat /\ Len(m) \in Nat /\ i \in Nat
      /\ i + d \in 1..Len(m) /\ m[i + d] \in SizedMessage
      /\ n[i].call = m[i + d].call
  BY ElementOfSeq DEF Moved, SaysTheSame
<1>2. PICK c \in Nat : c = m[i + d].call
  <2>1. m[i + d].call \in Nat
    BY <1>1 DEF SizedMessage
  <2> QED
    BY <2>1
<1>3. PICK a \in Int : a = i + d - c
  BY <1>1
<1>4. /\ c >= 1 /\ a >= 1 /\ m[a].role = "assistant" /\ m[a].calls >= c
      /\ \A j \in (a + 1)..(i + d) : m[j].role = "tool" /\ m[j].call = j - a
  <2>1. PICK k \in Int : k = i + d
    BY <1>1
  <2>2. m[k].call = c /\ a = k - c /\ AnchoredAt(m, k)
    BY <1>2, <1>3, <2>1
  <2>3. /\ c >= 1 /\ a >= 1 /\ m[a].role = "assistant" /\ m[a].calls >= c
        /\ \A j \in (a + 1)..k : m[j].role = "tool" /\ m[j].call = j - a
    BY <2>2 DEF AnchoredAt
  <2> QED
    BY <2>1, <2>3
<1>5. Len(n) \in Nat /\ i \in 1..Len(n) /\ i \in Nat /\ c >= 1 /\ a >= 1
  BY <1>1, <1>4
<1>6. a >= e + d + 1
  <2>1. SUFFICES ASSUME a < e + d + 1 PROVE FALSE
    OBVIOUS
  <2>2. e + d + 1 \in (a + 1)..(i + d)
    BY <1>5, <2>1
  <2>3. e + d # 0
    BY <1>5, <2>1
  <2> QED
    BY <1>4, <2>2, <2>3
<1>7. /\ i - c \in 1..Len(n) /\ i - c > e /\ (i - c) + d = a
  BY <1>3, <1>5, <1>6
<1>8. n[i - c].role = "assistant" /\ n[i - c].calls >= c
  BY <1>4, <1>7 DEF Moved, SaysTheSame
<1>9. ASSUME NEW j \in ((i - c) + 1)..i
      PROVE  n[j].role = "tool" /\ n[j].call = j - (i - c)
  <2>1. j \in Int /\ j > i - c /\ j <= i
    BY <1>5
  <2>2. j \in 1..Len(n) /\ j > e
    BY <1>5, <1>7, <2>1
  <2>3. j + d \in (a + 1)..(i + d) /\ (j + d) - a = j - (i - c)
    BY <1>3, <1>5, <2>1
  <2>4. n[j].role = m[j + d].role /\ n[j].call = m[j + d].call
    BY <2>2 DEF Moved, SaysTheSame
  <2> QED
    BY <1>4, <2>3, <2>4
<1>10. n[i].call = c
  BY <1>1, <1>2
<1> QED
  BY <1>4, <1>7, <1>8, <1>9, <1>10 DEF AnchoredAt

(* A history whose results are anchored may grow by a message that is not a *)
(* result, or by one that is anchored.                                      *)
LEMMA AnchoredAppend ==
  ASSUME NEW m \in Seq(SizedMessage), NEW x \in SizedMessage, Anchored(m),
         x.role = "tool" => AnchoredAt(Append(m, x), Len(m) + 1)
  PROVE  Anchored(Append(m, x))
<1> DEFINE n == Append(m, x)
<1>1. /\ n \in Seq(SizedMessage) /\ Len(m) \in Nat /\ Len(n) = Len(m) + 1
      /\ \A j \in 1..Len(m) : n[j] = m[j]
      /\ n[Len(m) + 1] = x
  BY AppendedHistory
<1> HIDE DEF n
<1>2. ASSUME NEW i \in 1..Len(n), n[i].role = "tool"
      PROVE  AnchoredAt(n, i)
  <2>1. CASE i = Len(m) + 1
    BY <1>1, <1>2, <2>1 DEF n
  <2>2. CASE i # Len(m) + 1
    <3>1. i \in 1..Len(m) /\ m[i].role = "tool"
      BY <1>1, <1>2, <2>2
    <3>2. AnchoredAt(m, i)
      BY <3>1 DEF Anchored
    <3>3. m[i] \in SizedMessage
      BY <3>1, ElementOfSeq
    <3>4. n[i].call = m[i].call /\ m[i].call \in Nat
      BY <1>1, <3>1, <3>3 DEF SizedMessage
    <3> DEFINE a == i - m[i].call
    <3>5. /\ m[i].call >= 1 /\ a >= 1 /\ m[a].role = "assistant"
          /\ m[a].calls >= m[i].call
          /\ \A j \in (a + 1)..i : m[j].role = "tool" /\ m[j].call = j - a
      BY <3>2 DEF AnchoredAt
    <3>6. a \in 1..Len(m) /\ \A j \in (a + 1)..i : j \in 1..Len(m)
      BY <1>1, <3>1, <3>4, <3>5
    <3>7. /\ n[a].role = "assistant" /\ n[a].calls >= m[i].call
          /\ \A j \in (a + 1)..i : n[j].role = "tool" /\ n[j].call = j - a
      BY <1>1, <3>5, <3>6
    <3> QED
      BY <3>4, <3>5, <3>7 DEF AnchoredAt
  <2> QED
    BY <2>1, <2>2
<1> QED
  BY <1>2 DEF Anchored, n

-----------------------------------------------------------------------------
(* Chars.  Sums(m, n, f) says that f[i] is what the first i messages of m   *)
(* weigh together.                                                          *)
Sums(m, n, f) ==
  f = [i \in 0..n |-> IF i = 0 THEN 0 ELSE f[i - 1] + m[i].size]

(* There is such a function.                                                *)
LEMMA SumsExist ==
  ASSUME NEW m, NEW n \in Nat
  PROVE  \E f : Sums(m, n, f)
<1> DEFINE S == {k \in Nat : \E f : Sums(m, k, f)}
<1>1. 0 \in S
  <2>1. PICK f : f = [i \in 0..0 |-> 0]
    OBVIOUS
  <2>2. Sums(m, 0, f)
    BY <2>1 DEF Sums
  <2> QED
    BY <2>2
<1>2. ASSUME NEW k \in S PROVE k + 1 \in S
  <2>1. PICK f : Sums(m, k, f)
    OBVIOUS
  <2>2. k \in Nat
    OBVIOUS
  <2>3. PICK g : g = [i \in 0..(k + 1) |-> IF i = 0 THEN 0 ELSE f[i - 1] + m[i].size]
    OBVIOUS
  <2>4. ASSUME NEW i \in 0..k PROVE g[i] = f[i]
    <3>1. g[i] = IF i = 0 THEN 0 ELSE f[i - 1] + m[i].size
      BY <2>2, <2>3
    <3>2. f[i] = IF i = 0 THEN 0 ELSE f[i - 1] + m[i].size
      BY <2>1 DEF Sums
    <3> QED
      BY <3>1, <3>2
  <2>5. ASSUME NEW i \in 0..(k + 1), i # 0 PROVE g[i - 1] = f[i - 1]
    <3>1. i - 1 \in 0..k
      BY <2>2, <2>5
    <3> QED
      BY <2>4, <3>1
  <2> HIDE DEF S
  <2>6. Sums(m, k + 1, g)
    BY <2>3, <2>5 DEF Sums
  <2> QED
    BY <2>2, <2>6 DEF S
<1> HIDE DEF S
<1>3. S = Nat
  BY <1>1, <1>2, InductionOnNat DEF S
<1>4. n \in S
  BY <1>3
<1> QED
  BY <1>4 DEF S

(* What it says of the messages one by one.                                 *)
LEMMA SumsStep ==
  ASSUME NEW m, NEW n \in Nat, NEW f, Sums(m, n, f)
  PROVE  /\ f[0] = 0
         /\ \A i \in 1..n : f[i] = f[i - 1] + m[i].size
<1>1. 0 \in 0..n /\ \A i \in 1..n : i \in 0..n /\ i # 0
  OBVIOUS
<1> QED
  BY <1>1 DEF Sums

(* The sums are numbers, and grow.                                          *)
LEMMA SumsGrow ==
  ASSUME NEW m \in Seq(SizedMessage), NEW f, Sums(m, Len(m), f)
  PROVE  /\ \A i \in 0..Len(m) : f[i] \in Nat
         /\ \A i \in 0..Len(m), j \in 0..Len(m) : i <= j => f[i] <= f[j]
<1>1. PICK n \in Nat : n = Len(m)
  BY LenProperties
<1>2. f[0] = 0 /\ \A i \in 1..n : f[i] = f[i - 1] + m[i].size /\ m[i].size \in Nat
  <2>1. f[0] = 0 /\ \A i \in 1..n : f[i] = f[i - 1] + m[i].size
    BY <1>1, SumsStep
  <2>2. \A i \in 1..n : m[i] \in SizedMessage
    BY <1>1, ElementOfSeq
  <2>3. \A i \in 1..n : m[i].size \in Nat
    BY <2>2 DEF SizedMessage
  <2> QED
    BY <2>1, <2>3
<1> DEFINE S == {k \in Nat : k \in 0..n =>
                   f[k] \in Nat /\ \A i \in 0..k : f[i] \in Nat /\ f[i] <= f[k]}
<1>3. 0 \in S
  BY <1>2
<1>4. ASSUME NEW k \in S PROVE k + 1 \in S
  <2>1. SUFFICES ASSUME k + 1 \in 0..n
                 PROVE  /\ f[k + 1] \in Nat
                        /\ \A i \in 0..(k + 1) : f[i] \in Nat /\ f[i] <= f[k + 1]
    OBVIOUS
  <2>2. k \in Nat /\ k \in 0..n /\ k + 1 \in 1..n /\ (k + 1) - 1 = k
    BY <2>1
  <2>3. f[k] \in Nat /\ \A i \in 0..k : f[i] \in Nat /\ f[i] <= f[k]
    BY <2>2
  <2>4. f[k + 1] = f[k] + m[k + 1].size /\ m[k + 1].size \in Nat
    <3>1. f[k + 1] = f[(k + 1) - 1] + m[k + 1].size
      BY <1>2, <2>2
    <3> QED
      BY <1>2, <2>2, <3>1
  <2>5. f[k + 1] \in Nat /\ f[k] <= f[k + 1]
    BY <2>3, <2>4
  <2>6. ASSUME NEW i \in 0..(k + 1) PROVE f[i] \in Nat /\ f[i] <= f[k + 1]
    <3>1. CASE i = k + 1
      BY <2>5, <3>1
    <3>2. CASE i # k + 1
      <4>1. i \in 0..k
        BY <2>2, <3>2
      <4>2. f[i] \in Nat /\ f[i] <= f[k]
        BY <2>3, <4>1
      <4> QED
        BY <2>3, <2>5, <4>2
    <3> QED
      BY <3>1, <3>2
  <2> QED
    BY <2>5, <2>6
<1> HIDE DEF S
<1>5. S = Nat
  BY <1>3, <1>4, InductionOnNat DEF S
<1>6. ASSUME NEW k \in 0..n
      PROVE  f[k] \in Nat /\ \A i \in 0..k : f[i] \in Nat /\ f[i] <= f[k]
  <2>1. k \in S
    BY <1>1, <1>5
  <2> QED
    BY <2>1 DEF S
<1>7. ASSUME NEW i \in 0..n, NEW j \in 0..n, i <= j PROVE f[i] <= f[j]
  <2>1. i \in 0..j
    BY <1>7
  <2> QED
    BY <1>6, <2>1
<1> QED
  BY <1>1, <1>6, <1>7

(* Chars is what such a function has at the end of the messages.            *)
LEMMA CharsIsSum ==
  ASSUME NEW m \in Seq(SizedMessage)
  PROVE  \E f : Sums(m, Len(m), f) /\ Chars(m) = f[Len(m)]
<1> DEFINE sum == CHOOSE f : Sums(m, Len(m), f)
<1>1. Len(m) \in Nat
  BY LenProperties
<1>2. Sums(m, Len(m), sum)
  BY <1>1, SumsExist
<1>3. Chars(m) = sum[Len(m)]
  BY DEF Chars, Sums
<1> QED
  BY <1>2, <1>3

(* What a recent part of a history weighs is the sum of the whole less the  *)
(* sum of what stands before it.                                            *)
LEMMA CharsOfSuffix ==
  ASSUME NEW m \in Seq(SizedMessage), NEW f, Sums(m, Len(m), f),
         NEW i \in 1..(Len(m) + 1)
  PROVE  Chars(Suffix(m, i)) = f[Len(m)] - f[i - 1]
<1>1. PICK n \in Nat : n = Len(m)
  BY LenProperties
<1>2. PICK a \in Nat : a = i - 1 /\ i = a + 1 /\ a \in 0..n
  BY <1>1
<1>3. PICK b \in Nat : b = n - a /\ a + b = n
  BY <1>1, <1>2
<1>4. PICK s : s = Suffix(m, i)
  OBVIOUS
<1>5. s \in Seq(SizedMessage) /\ Len(s) = b /\ \A j \in 1..b : s[j] = m[a + j]
  <2>1. /\ s \in Seq(SizedMessage) /\ Len(s) = Len(m) - i + 1
        /\ \A j \in 1..(Len(m) - i + 1) : s[j] = m[i + j - 1]
    BY <1>4, SuffixProperties
  <2>2. Len(m) - i + 1 = b
    BY <1>1, <1>2, <1>3
  <2>3. ASSUME NEW j \in 1..b PROVE s[j] = m[a + j]
    <3>1. i + j - 1 = a + j
      BY <1>2
    <3> QED
      BY <2>1, <2>2, <3>1
  <2> QED
    BY <2>1, <2>2, <2>3
<1>6. PICK g : Sums(s, Len(s), g) /\ Chars(s) = g[Len(s)]
  BY <1>5, CharsIsSum
<1>7. /\ \A j \in 0..n : f[j] \in Nat
      /\ \A j \in 1..n : f[j] = f[j - 1] + m[j].size
  BY <1>1, SumsGrow, SumsStep
<1>8. /\ g[0] = 0 /\ \A j \in 0..b : g[j] \in Nat
      /\ \A j \in 1..b : g[j] = g[j - 1] + s[j].size
  <2>1. s \in Seq(SizedMessage) /\ Sums(s, Len(s), g) /\ Len(s) = b
    BY <1>5, <1>6
  <2>2. \A j \in 0..Len(s) : g[j] \in Nat
    BY <2>1, SumsGrow
  <2>3. Sums(s, b, g)
    BY <2>1
  <2>4. g[0] = 0 /\ \A j \in 1..b : g[j] = g[j - 1] + s[j].size
    BY <2>3, SumsStep
  <2> QED
    BY <2>1, <2>2, <2>4
<1> DEFINE S == {k \in Nat : k \in 0..b => f[a + k] = f[a] + g[k]}
<1>9. 0 \in S
  <2>1. a + 0 = a /\ f[a] \in Nat
    BY <1>2, <1>7
  <2> QED
    BY <1>8, <2>1
<1>10. ASSUME NEW k \in S PROVE k + 1 \in S
  <2>1. SUFFICES ASSUME k + 1 \in 0..b PROVE f[a + (k + 1)] = f[a] + g[k + 1]
    OBVIOUS
  <2>2. /\ k \in Nat /\ k \in 0..b /\ k + 1 \in 1..b /\ (k + 1) - 1 = k
        /\ a + (k + 1) \in 1..n /\ (a + (k + 1)) - 1 = a + k /\ a + k \in 0..n
    BY <1>3, <2>1
  <2>3. f[a + k] = f[a] + g[k]
    BY <2>2
  <2>4. PICK w : w = m[a + (k + 1)].size /\ w = s[k + 1].size
    BY <1>5, <2>2
  <2>5. f[a + (k + 1)] = f[a + k] + w
    <3>1. f[a + (k + 1)] = f[(a + (k + 1)) - 1] + m[a + (k + 1)].size
      BY <1>7, <2>2
    <3> QED
      BY <2>2, <2>4, <3>1
  <2>6. g[k + 1] = g[k] + w
    <3>1. g[k + 1] = g[(k + 1) - 1] + s[k + 1].size
      BY <1>8, <2>2
    <3> QED
      BY <2>2, <2>4, <3>1
  <2>7. w \in Nat
    <3>1. s[k + 1] \in SizedMessage
      BY <1>5, <2>2, ElementOfSeq
    <3> QED
      BY <2>4, <3>1 DEF SizedMessage
  <2>8. f[a] \in Nat /\ g[k] \in Nat
    BY <1>2, <1>7, <1>8, <2>2
  <2> QED
    BY <2>3, <2>5, <2>6, <2>7, <2>8
<1> HIDE DEF S
<1>11. S = Nat
  BY <1>9, <1>10, InductionOnNat DEF S
<1>12. b \in S /\ b \in 0..b
  BY <1>11
<1>13. f[a + b] = f[a] + g[b]
  BY <1>12 DEF S
<1>14. f[n] \in Nat /\ f[a] \in Nat /\ g[b] \in Nat
  BY <1>2, <1>7, <1>8
<1>15. g[b] = f[n] - f[a]
  BY <1>3, <1>13, <1>14
<1> QED
  BY <1>1, <1>2, <1>4, <1>5, <1>6, <1>15

(* The longer part of a history weighs no less.                             *)
LEMMA SuffixTokens ==
  ASSUME NEW m \in Seq(SizedMessage),
         NEW i \in 1..(Len(m) + 1), NEW j \in 1..(Len(m) + 1), i <= j
  PROVE  /\ Tokens(Suffix(m, i)) \in Nat /\ Tokens(Suffix(m, j)) \in Nat
         /\ Tokens(Suffix(m, j)) <= Tokens(Suffix(m, i))
<1>1. PICK f : Sums(m, Len(m), f)
  BY CharsIsSum
<1>2. PICK n \in Nat : n = Len(m)
  BY LenProperties
<1>3. i - 1 \in 0..n /\ j - 1 \in 0..n /\ i - 1 <= j - 1 /\ n \in 0..n
      /\ i - 1 <= n /\ j - 1 <= n
  BY <1>2
<1>4. PICK x \in Nat : x = f[n]
  BY <1>1, <1>2, <1>3, SumsGrow
<1>5. PICK y \in Nat : y = f[i - 1]
  BY <1>1, <1>2, <1>3, SumsGrow
<1>6. PICK z \in Nat : z = f[j - 1]
  BY <1>1, <1>2, <1>3, SumsGrow
<1>7. y <= z /\ y <= x /\ z <= x
  BY <1>1, <1>2, <1>3, <1>4, <1>5, <1>6, SumsGrow
<1>8. Chars(Suffix(m, i)) = x - y /\ Chars(Suffix(m, j)) = x - z
  BY <1>1, <1>2, <1>4, <1>5, <1>6, CharsOfSuffix
<1>9. PICK p \in Nat : p = x - y
  BY <1>7
<1>10. PICK q \in Nat : q = x - z
  BY <1>7
<1>11. q <= p
  BY <1>7, <1>9, <1>10
<1>12. p \div 4 \in Nat /\ q \div 4 \in Nat /\ q \div 4 <= p \div 4
  BY <1>11
<1> QED
  BY <1>8, <1>9, <1>10, <1>12 DEF Tokens

(* The whole history is its longest recent part.                            *)
LEMMA WholeSuffix ==
  ASSUME NEW m \in Seq(SizedMessage)
  PROVE  Suffix(m, 1) = m
<1>1. Len(m) \in Nat /\ 1 \in 1..(Len(m) + 1)
  BY LenProperties
<1>2. PICK s : s = Suffix(m, 1)
  OBVIOUS
<1>3. /\ s \in Seq(SizedMessage) /\ Len(s) = Len(m) - 1 + 1
      /\ \A j \in 1..(Len(m) - 1 + 1) : s[j] = m[1 + j - 1]
  BY <1>1, <1>2, SuffixProperties
<1>4. Len(m) - 1 + 1 = Len(m) /\ \A j \in 1..Len(m) : 1 + j - 1 = j
  BY <1>1
<1>5. Len(s) = Len(m) /\ \A j \in 1..Len(m) : s[j] = m[j]
  BY <1>3, <1>4
<1>6. s = m
  BY <1>3, <1>5, SeqEqual
<1> QED
  BY <1>2, <1>6

-----------------------------------------------------------------------------
(* The loop of fit.  Kept(m, b, n, f): f[i] is where the loop ends once it  *)
(* has taken the message at i.                                              *)
TooMuch(m, b, i) == i > 1 /\ Tokens(Suffix(m, i - 1)) > b

Kept(m, b, n, f) ==
  f = [i \in 1..n |-> IF i = 1 \/ TooMuch(m, b, i) THEN i ELSE f[i - 1]]

(* There is such a function.                                                *)
LEMMA KeptExists ==
  ASSUME NEW m, NEW b, NEW n \in Nat
  PROVE  \E f : Kept(m, b, n, f)
<1> DEFINE S == {k \in Nat : \E f : Kept(m, b, k, f)}
<1>1. 0 \in S
  <2>1. PICK f : f = [i \in 1..0 |-> 0]
    OBVIOUS
  <2>2. Kept(m, b, 0, f)
    BY <2>1 DEF Kept
  <2> QED
    BY <2>2
<1>2. ASSUME NEW k \in S PROVE k + 1 \in S
  <2>1. PICK f : Kept(m, b, k, f)
    OBVIOUS
  <2>2. k \in Nat
    OBVIOUS
  <2>3. PICK g : g = [i \in 1..(k + 1) |->
                        IF i = 1 \/ TooMuch(m, b, i) THEN i ELSE f[i - 1]]
    OBVIOUS
  <2>4. ASSUME NEW i \in 1..k PROVE g[i] = f[i]
    <3>1. g[i] = IF i = 1 \/ TooMuch(m, b, i) THEN i ELSE f[i - 1]
      BY <2>2, <2>3
    <3>2. f[i] = IF i = 1 \/ TooMuch(m, b, i) THEN i ELSE f[i - 1]
      BY <2>1 DEF Kept
    <3> QED
      BY <3>1, <3>2
  <2>5. ASSUME NEW i \in 1..(k + 1), i # 1 PROVE g[i - 1] = f[i - 1]
    <3>1. i - 1 \in 1..k
      BY <2>2, <2>5
    <3> QED
      BY <2>4, <3>1
  <2> HIDE DEF S
  <2>6. Kept(m, b, k + 1, g)
    BY <2>3, <2>5 DEF Kept
  <2> QED
    BY <2>2, <2>6 DEF S
<1> HIDE DEF S
<1>3. S = Nat
  BY <1>1, <1>2, InductionOnNat DEF S
<1>4. n \in S
  BY <1>3
<1> QED
  BY <1>4 DEF S

(* Where the loop ends the messages before do not fit, and those from there *)
(* on do, unless it is where it began.                                      *)
LEMMA KeptIsMaximal ==
  ASSUME NEW m \in Seq(SizedMessage), NEW b \in Int, NEW n \in Nat, NEW f,
         Kept(m, b, n, f)
  PROVE  \A i \in 1..n :
           /\ f[i] \in 1..i
           /\ f[i] = 1 \/ TooMuch(m, b, f[i])
           /\ f[i] = i \/ ~TooMuch(m, b, f[i] + 1)
<1> DEFINE Good(i) == /\ f[i] \in 1..i
                      /\ f[i] = 1 \/ TooMuch(m, b, f[i])
                      /\ f[i] = i \/ ~TooMuch(m, b, f[i] + 1)
           S == {k \in Nat : k \in 1..n => Good(k)}
<1>1. 0 \in S
  OBVIOUS
<1>2. ASSUME NEW k \in S PROVE k + 1 \in S
  <2>1. SUFFICES ASSUME k + 1 \in 1..n PROVE Good(k + 1)
    OBVIOUS
  <2>2. k \in Nat /\ (k + 1) - 1 = k
    OBVIOUS
  <2>3. f[k + 1] = IF k + 1 = 1 \/ TooMuch(m, b, k + 1) THEN k + 1
                   ELSE f[(k + 1) - 1]
    BY <2>1 DEF Kept
  <2>4. CASE k + 1 = 1 \/ TooMuch(m, b, k + 1)
    BY <2>2, <2>3, <2>4
  <2>5. CASE ~(k + 1 = 1 \/ TooMuch(m, b, k + 1))
    <3>1. k \in 1..n /\ f[k + 1] = f[k]
      BY <2>1, <2>2, <2>3, <2>5
    <3>2. Good(k)
      BY <3>1
    <3>3. f[k] = k => ~TooMuch(m, b, f[k] + 1)
      BY <2>5
    <3>4. f[k] \in 1..(k + 1)
      BY <2>2, <3>2
    <3> QED
      BY <3>1, <3>2, <3>3, <3>4
  <2> QED
    BY <2>4, <2>5
<1> HIDE DEF S
<1>3. S = Nat
  BY <1>1, <1>2, InductionOnNat DEF S
<1>4. \A i \in 1..n : i \in S
  BY <1>3
<1> QED
  BY <1>4 DEF S

(* KeptFrom is where it ends for the last message.                          *)
LEMMA KeptFromProperties ==
  ASSUME NEW m \in Seq(SizedMessage), m # <<>>, NEW b \in Int
  PROVE  /\ KeptFrom(m, b) \in 1..Len(m)
         /\ KeptFrom(m, b) = 1 \/ Tokens(Suffix(m, KeptFrom(m, b) - 1)) > b
         /\ KeptFrom(m, b) = Len(m) \/ ~(Tokens(Suffix(m, KeptFrom(m, b))) > b)
<1> DEFINE from == CHOOSE f : Kept(m, b, Len(m), f)
<1>1. PICK n \in Nat : n = Len(m)
  BY LenProperties
<1>2. Kept(m, b, n, from)
  BY <1>1, KeptExists
<1>3. KeptFrom(m, b) = from[n]
  BY <1>1 DEF KeptFrom, Kept, TooMuch
<1>4. n # 0
  BY <1>1, EmptySeq
<1>5. PICK p : p = from[n]
  OBVIOUS
<1>6. n \in 1..n
  BY <1>4
<1>7. p \in 1..n /\ (p = 1 \/ TooMuch(m, b, p)) /\ (p = n \/ ~TooMuch(m, b, p + 1))
  BY <1>2, <1>5, <1>6, KeptIsMaximal
<1>8. (p + 1) - 1 = p /\ p + 1 > 1
  BY <1>7
<1>9. p = 1 \/ Tokens(Suffix(m, p - 1)) > b
  BY <1>7 DEF TooMuch
<1>10. p = n \/ ~(Tokens(Suffix(m, p)) > b)
  BY <1>7, <1>8 DEF TooMuch
<1>11. KeptFrom(m, b) = p
  BY <1>3, <1>5
<1> QED
  BY <1>1, <1>7, <1>9, <1>10, <1>11

(* Every nonempty set of numbers has a least element.                       *)
LEMMA LeastExists ==
  ASSUME NEW S \in SUBSET Nat, S # {}
  PROVE  \E x \in S : \A y \in S : x <= y
<1>1. PICK x \in S : \A y \in S : ~(<<y, x>> \in OpToRel(<, Nat))
  BY NatLessThanWellFounded, WFMin
<1>2. ASSUME NEW y \in S PROVE x <= y
  <2>1. x \in Nat /\ y \in Nat
    OBVIOUS
  <2>2. y < x => <<y, x>> \in OpToRel(<, Nat)
    BY <2>1 DEF OpToRel
  <2>3. ~(y < x)
    BY <1>1, <2>2
  <2> QED
    BY <2>1, <2>3
<1> QED
  BY <1>2

(* PastOrphans skips tool results, and ends on a message that is none or on *)
(* the last one.                                                            *)
LEMMA PastOrphansProperties ==
  ASSUME NEW m, NEW n \in Nat, n = Len(m), NEW start \in 1..n
  PROVE  /\ PastOrphans(m, start) \in start..n
         /\ \A j \in start..(PastOrphans(m, start) - 1) : m[j].role = "tool"
         /\ PastOrphans(m, start) = n \/ m[PastOrphans(m, start)].role # "tool"
<1> DEFINE S == {i \in start..n : i = n \/ m[i].role # "tool"}
<1>1. n \in S /\ S \in SUBSET Nat
  OBVIOUS
<1>2. PICK x \in S : \A y \in S : x <= y
  BY <1>1, LeastExists
<1>3. x \in start..n /\ (x = n \/ m[x].role # "tool")
  OBVIOUS
<1>4. ASSUME NEW j \in start..(x - 1) PROVE m[j].role = "tool"
  <2>1. j \in start..n /\ ~(x <= j)
    BY <1>3
  <2>2. j \notin S
    BY <1>2, <2>1
  <2> QED
    BY <2>1, <2>2
<1> HIDE DEF S
<1>5. \E i \in start..n :
        /\ \A j \in start..(i - 1) : m[j].role = "tool"
        /\ i = n \/ m[i].role # "tool"
  BY <1>3, <1>4
<1> QED
  BY <1>5 DEF PastOrphans

(* What a request takes of the messages m under the budget b: those from p  *)
(* on.                                                                      *)
TakenFrom(m, b, p) ==
  /\ p \in 1..Len(m)
  /\ p = Len(m) \/ Tokens(Suffix(m, p)) <= b
  /\ p = 1 \/ p = Len(m) \/ m[p].role # "tool"
  /\ \A i \in 1..(p - 1) : \/ Tokens(Suffix(m, i)) > b
                           \/ \A j \in i..(p - 1) : m[j].role = "tool"

(* Fit takes the largest recent part of the messages that fits, and drops   *)
(* of it the tool results in front.                                         *)
LEMMA FitProperties ==
  ASSUME NEW m \in Seq(SizedMessage), m # <<>>, NEW b \in Int
  PROVE  \E p \in 1..Len(m) : Fit(m, b) = Suffix(m, p) /\ TakenFrom(m, b, p)
<1>1. PICK n \in Nat : n = Len(m) /\ n # 0
  BY LenProperties, EmptySeq
<1>2. CASE Fits(m, b)
  <2>1. Suffix(m, 1) = m /\ Fit(m, b) = m
    BY <1>2, WholeSuffix DEF Fit
  <2>2. Tokens(Suffix(m, 1)) <= b
    BY <1>2, <2>1 DEF Fits
  <2>3. 1 \in 1..Len(m) /\ ~(\E i \in 1..(1 - 1) : TRUE)
    BY <1>1
  <2>4. TakenFrom(m, b, 1)
    BY <2>2, <2>3 DEF TakenFrom
  <2> QED
    BY <2>1, <2>3, <2>4
<1>3. CASE ~Fits(m, b)
  <2>1. PICK s \in 1..n : s = KeptFrom(m, b)
    BY <1>1, KeptFromProperties
  <2>2. /\ s = 1 \/ Tokens(Suffix(m, s - 1)) > b
        /\ s = n \/ ~(Tokens(Suffix(m, s)) > b)
    BY <1>1, <2>1, KeptFromProperties
  <2>3. PICK p \in s..n : p = PastOrphans(m, s)
    BY <1>1, PastOrphansProperties
  <2>4. /\ \A j \in s..(p - 1) : m[j].role = "tool"
        /\ p = n \/ m[p].role # "tool"
    BY <1>1, <2>3, PastOrphansProperties
  <2>5. Fit(m, b) = Suffix(m, p)
    BY <1>3, <2>1, <2>3 DEF Fit
  <2>6. p \in 1..n /\ s \in 1..(n + 1) /\ p \in 1..(n + 1) /\ s <= p /\ p <= n
    OBVIOUS
  <2>7. p = n \/ Tokens(Suffix(m, p)) <= b
    <3>1. SUFFICES ASSUME p # n PROVE Tokens(Suffix(m, p)) <= b
      OBVIOUS
    <3>2. s # n
      BY <2>6, <3>1
    <3>3. ~(Tokens(Suffix(m, s)) > b)
      BY <2>2, <3>2
    <3>4. /\ Tokens(Suffix(m, s)) \in Nat /\ Tokens(Suffix(m, p)) \in Nat
          /\ Tokens(Suffix(m, p)) <= Tokens(Suffix(m, s))
      BY <1>1, <2>6, SuffixTokens
    <3> QED
      BY <3>3, <3>4
  <2>8. ASSUME NEW i \in 1..(p - 1)
        PROVE  \/ Tokens(Suffix(m, i)) > b
               \/ \A j \in i..(p - 1) : m[j].role = "tool"
    <3>1. CASE i >= s
      <4>1. \A j \in i..(p - 1) : j \in s..(p - 1)
        BY <3>1
      <4> QED
        BY <2>4, <4>1
    <3>2. CASE ~(i >= s)
      <4>1. s # 1 /\ s - 1 \in 1..(n + 1) /\ i \in 1..(n + 1) /\ i <= s - 1
        BY <2>6, <3>2
      <4>2. Tokens(Suffix(m, s - 1)) > b
        BY <2>2, <4>1
      <4>3. PICK k \in 1..(n + 1) : k = s - 1
        BY <4>1
      <4>4. i <= k
        BY <4>1, <4>3
      <4>5. /\ Tokens(Suffix(m, i)) \in Nat /\ Tokens(Suffix(m, k)) \in Nat
            /\ Tokens(Suffix(m, k)) <= Tokens(Suffix(m, i))
        BY <1>1, <4>1, <4>4, SuffixTokens
      <4>6. Tokens(Suffix(m, k)) > b
        BY <4>2, <4>3
      <4>7. Tokens(Suffix(m, i)) > b
        BY <4>5, <4>6
      <4> QED
        BY <4>7
    <3> QED
      BY <3>1, <3>2
  <2>9. TakenFrom(m, b, p)
    BY <1>1, <2>4, <2>6, <2>7, <2>8 DEF TakenFrom
  <2> QED
    BY <1>1, <2>5, <2>6, <2>9
<1> QED
  BY <1>2, <1>3

-----------------------------------------------------------------------------
(* A recent part of a history keeps its results anchored when it does not   *)
(* begin with one.                                                          *)
LEMMA AnchoredSuffix ==
  ASSUME NEW m \in Seq(SizedMessage), NEW p \in 1..Len(m), Anchored(m),
         p = 1 \/ m[p].role # "tool"
  PROVE  Anchored(Suffix(m, p))
<1>1. PICK n \in Nat : n = Len(m)
  BY LenProperties
<1>2. PICK d \in Nat : d = p - 1 /\ d + 1 = p /\ 0 + d = d
  BY <1>1
<1>3. PICK s : s = Suffix(m, p)
  OBVIOUS
<1>4. p \in 1..(Len(m) + 1)
  BY <1>1
<1>5. /\ s \in Seq(SizedMessage) /\ Len(s) = Len(m) - p + 1
      /\ \A j \in 1..(Len(m) - p + 1) : s[j] = m[p + j - 1]
  BY <1>3, <1>4, SuffixProperties
<1>6. ASSUME NEW j \in 1..Len(s) PROVE j + d \in 1..Len(m) /\ s[j] = m[j + d]
  <2>1. j \in 1..(n - p + 1) /\ p + j - 1 = j + d /\ j + d \in 1..n
    BY <1>1, <1>2, <1>5
  <2> QED
    BY <1>1, <1>5, <2>1
<1>7. Moved(m, s, d, 0)
  BY <1>6 DEF Moved, SaysTheSame
<1>8. 0 + d = 0 \/ m[0 + d + 1].role # "tool"
  BY <1>2
<1>9. ASSUME NEW i \in 1..Len(s), s[i].role = "tool" PROVE AnchoredAt(s, i)
  <2>1. i + d \in 1..Len(m) /\ m[i + d].role = "tool"
    BY <1>6, <1>9
  <2>2. AnchoredAt(m, i + d)
    BY <2>1 DEF Anchored
  <2>3. i > 0 /\ 0 \in Nat
    BY <1>5
  <2> QED
    BY <1>5, <1>7, <1>8, <2>2, <2>3, AnchoredMoves
<1>10. Anchored(s)
  BY <1>9 DEF Anchored
<1> QED
  BY <1>3, <1>10

(* The headroom of the answer is a number.                                  *)
LEMMA HeadroomIsNat ==
  ASSUME NEW w \in Nat
  PROVE  Headroom(w) \in Nat /\ Headroom(w) = Least(Reserve + OutputCap, w \div 2)
<1>1. w \div 2 \in Nat /\ Reserve + OutputCap \in Nat
  BY WindowAssumption
<1> QED
  BY <1>1 DEF Headroom, Least

(* A budget above the floor leaves the prompt and the answer their share of *)
(* the window.                                                              *)
LEMMA BudgetLeavesHeadroom ==
  ASSUME window \in Nat, overhead \in Nat, hardCap \in Nat
  PROVE  /\ Budget \in Int
         /\ Budget > MinimumTokens => Budget + overhead + Headroom(window) <= window
<1>1. PICK h \in Nat : h = Headroom(window)
                       /\ h = Least(Reserve + OutputCap, window \div 2)
  BY HeadroomIsNat
<1>2. MinimumTokens \in Nat
  BY WindowAssumption
<1>3. PICK d \in Int : d = Greatest(window - overhead - h, MinimumTokens)
  BY <1>1, <1>2 DEF Greatest
<1>4. Budget = IF hardCap > 0 THEN Least(d, hardCap) ELSE d
  BY <1>1, <1>3 DEF Budget, ConversationBudget
<1>5. Budget \in Int /\ Budget <= d
  BY <1>3, <1>4 DEF Least
<1>6. d > MinimumTokens => d = window - overhead - h
  BY <1>1, <1>2, <1>3 DEF Greatest
<1>7. PICK b \in Int : b = Budget
  BY <1>5
<1>8. b > MinimumTokens => b + overhead + h <= window
  <2>1. SUFFICES ASSUME b > MinimumTokens PROVE b + overhead + h <= window
    OBVIOUS
  <2>2. b <= d
    BY <1>5, <1>7
  <2>3. d = window - overhead - h
    BY <1>2, <1>6, <2>1, <2>2
  <2> QED
    BY <1>1, <2>2, <2>3
<1> QED
  BY <1>1, <1>7, <1>8

-----------------------------------------------------------------------------
(* A request built from a history that is well formed is sound: it fits its *)
(* budget and the window it is sent to, drops nothing in vain, and its      *)
(* results follow their calls.                                              *)
LEMMA RequestedIsSound ==
  ASSUME NEW m \in Seq(SizedMessage), m # <<>>, Anchored(m),
         window \in Nat, overhead \in Nat, hardCap \in Nat,
         history' = m, request' = Requested(m)
  PROVE  RequestIsSound' /\ request' # NoRequest
<1>1. PICK b \in Int : b = Budget
  BY BudgetLeavesHeadroom
<1>2. PICK p \in 1..Len(m) : Fit(m, b) = Suffix(m, p) /\ TakenFrom(m, b, p)
  BY FitProperties
<1>3. PICK s : s = Suffix(m, p)
  OBVIOUS
<1>4. PICK n \in Nat : n = Len(m)
  BY LenProperties
<1>5. /\ request'.msgs = s /\ request'.budget = b
      /\ request'.window = window /\ request'.overhead = overhead
  BY <1>1, <1>2, <1>3 DEF Requested
<1>6. s \in Seq(SizedMessage) /\ Len(s) = n - p + 1
  <2>1. p \in 1..(Len(m) + 1)
    BY <1>4
  <2> QED
    BY <1>3, <1>4, <2>1, SuffixProperties
<1>7. Len(s) > 1 => p # n
  BY <1>4, <1>6
<1>8. Sent' = s
  BY <1>5 DEF Sent
<1>9. PICK t \in Nat : t = Tokens(s)
  <2>1. p \in 1..(Len(m) + 1)
    BY <1>4
  <2> QED
    BY <1>3, <2>1, SuffixTokens
<1>10. Len(s) > 1 => t <= b
  BY <1>2, <1>3, <1>4, <1>7, <1>9 DEF TakenFrom
<1>11. RequestFits'
  BY <1>5, <1>8, <1>9, <1>10 DEF RequestFits
<1>12. WindowHonoured'
  <2>1. b > MinimumTokens => b + overhead + Headroom(window) <= window
    BY <1>1, BudgetLeavesHeadroom
  <2>2. PICK h \in Nat : h = Headroom(window)
    BY HeadroomIsNat
  <2>3. MinimumTokens \in Nat
    BY WindowAssumption
  <2>4. Len(s) > 1 /\ b > MinimumTokens => t + overhead + h <= window
    BY <1>9, <1>10, <2>1, <2>2, <2>3
  <2>5. Headroom(request'.window) = h
    BY <1>5, <2>2
  <2>6. Headroom(request.window)' = h
    BY <2>5 DEF Headroom
  <2> QED
    BY <1>5, <1>8, <1>9, <2>4, <2>6 DEF WindowHonoured
<1>13. NothingDroppedInVain'
  <2>1. Len(history') - Len(Sent') + 1 = p
    BY <1>4, <1>6, <1>8
  <2>2. \A i \in 1..(p - 1) : \/ Tokens(Suffix(m, i)) > b
                              \/ \A j \in i..(p - 1) : m[j].role = "tool"
    BY <1>2 DEF TakenFrom
  <2> QED
    BY <1>5, <2>1, <2>2 DEF NothingDroppedInVain
<1>14. RequestAnchored'
  <2>1. Len(s) > 1 => Anchored(s)
    <3>1. SUFFICES ASSUME Len(s) > 1 PROVE Anchored(s)
      OBVIOUS
    <3>2. p # Len(m)
      BY <1>4, <1>7, <3>1
    <3>3. p = 1 \/ m[p].role # "tool"
      BY <1>2, <3>2 DEF TakenFrom
    <3> QED
      BY <1>3, <3>3, AnchoredSuffix
  <2> QED
    BY <1>8, <2>1 DEF RequestAnchored
<1>15. request' # NoRequest
  <2>1. s # <<>>
    BY <1>4, <1>6, EmptySeq
  <2> QED
    BY <1>5, <2>1 DEF NoRequest
<1> QED
  BY <1>11, <1>12, <1>13, <1>14, <1>15 DEF RequestIsSound

(* No request is sound.                                                     *)
LEMMA NoRequestIsSound ==
  ASSUME request = NoRequest
  PROVE  RequestIsSound
<1>1. Sent = <<>> /\ Len(Sent) = 0
  BY EmptySeq DEF Sent, NoRequest
<1>2. ~(Len(Sent) > 1)
  BY <1>1
<1> QED
  BY <1>1, <1>2 DEF RequestIsSound, RequestFits, WindowHonoured,
                    NothingDroppedInVain, RequestAnchored

-----------------------------------------------------------------------------
(* The messages the session writes, once they have a size.                  *)
LEMMA SizedMessages ==
  ASSUME NEW size \in Nat
  PROVE  /\ Sized(AskMsg(0), size) \in SizedMessage
         /\ Sized(AskMsg(0), size).role = "user"
         /\ Sized(SummaryMsg, size) \in SizedMessage
         /\ Sized(SummaryMsg, size).role = "user"
         /\ Sized(SummaryMsg, size).sum
         /\ \A n \in Nat : /\ Sized(AssistantMsg(0, n, 1), size) \in SizedMessage
                           /\ Sized(AssistantMsg(0, n, 1), size).role = "assistant"
         /\ \A c \in Nat : /\ Sized(ToolMsg(0, c), size) \in SizedMessage
                           /\ Sized(ToolMsg(0, c), size).role = "tool"
                           /\ Sized(ToolMsg(0, c), size).call = c
BY DEF Sized, AskMsg, SummaryMsg, AssistantMsg, ToolMsg, PlainMsg,
       SizedMessage, Roles, Texts

(* The message at the head of what is kept, with the summary in front of it.*)
LEMMA MergedMessage ==
  ASSUME NEW x \in SizedMessage, NEW k \in Nat
  PROVE  LET y == Sized([x EXCEPT !.sum = TRUE], k)
         IN /\ y \in SizedMessage /\ y.sum = TRUE
            /\ SaysTheSame(y, x)
BY DEF Sized, SizedMessage, SaysTheSame

(* A history m after its first messages were summarized: in n stands at     *)
(* every position but the first what stood d positions later in m, and at   *)
(* the first the same message with the summary merged in front of it, or    *)
(* the summary alone.                                                       *)
CompactedTo(m, cut, n, d, e) ==
  /\ d + e = cut /\ Len(n) + d = Len(m) /\ Len(n) > 0
  /\ Moved(m, n, d, e)
  /\ \A j \in 2..Len(n) : n[j] = m[j + d]
  /\ \A j \in 1..Len(n) : j <= e => n[j].role = "user"
  /\ n[1].sum /\ e <= 1

(* The sequence that has y in front of s.                                   *)
LEMMA InFront ==
  ASSUME NEW T, NEW s \in Seq(T), NEW y \in T
  PROVE  /\ <<y>> \o s \in Seq(T) /\ Len(<<y>> \o s) = Len(s) + 1
         /\ (<<y>> \o s)[1] = y
         /\ \A j \in 1..Len(s) : (<<y>> \o s)[j + 1] = s[j]
<1>1. <<y>> \in Seq(T) /\ Len(<<y>>) = 1 /\ <<y>>[1] = y
  OBVIOUS
<1>2. PICK n \in Nat : n = Len(s)
  BY LenProperties
<1>3. PICK r : r = <<y>> \o s
  OBVIOUS
<1>4. /\ r \in Seq(T) /\ Len(r) = 1 + n
      /\ \A j \in 1..(1 + n) : r[j] = IF j <= 1 THEN <<y>>[j] ELSE s[j - 1]
  BY <1>1, <1>2, <1>3, ConcatProperties
<1>5. r[1] = y
  <2>1. 1 \in 1..(1 + n) /\ 1 <= 1
    OBVIOUS
  <2> QED
    BY <1>1, <1>4, <2>1
<1>6. ASSUME NEW j \in 1..n PROVE r[j + 1] = s[j]
  <2>1. j + 1 \in 1..(1 + n) /\ ~(j + 1 <= 1) /\ (j + 1) - 1 = j
    OBVIOUS
  <2> QED
    BY <1>4, <2>1
<1>7. Len(r) = n + 1
  BY <1>4
<1> QED
  BY <1>2, <1>3, <1>4, <1>5, <1>6, <1>7

(* The first element of a sequence replaced.                                *)
LEMMA NewHead ==
  ASSUME NEW T, NEW U, T \subseteq U, NEW s \in Seq(T), s # <<>>, NEW y \in U
  PROVE  /\ [s EXCEPT ![1] = y] \in Seq(U)
         /\ Len([s EXCEPT ![1] = y]) = Len(s)
         /\ [s EXCEPT ![1] = y][1] = y
         /\ \A j \in 2..Len(s) : [s EXCEPT ![1] = y][j] = s[j]
<1>1. Len(s) \in Nat /\ Len(s) > 0 /\ \A j \in 1..Len(s) : s[j] \in U
  BY EmptySeq, ElementOfSeq, LenProperties
<1>2. s \in Seq(U)
  BY <1>1
<1> QED
  BY <1>1, <1>2

(* A sequence of messages that all have a size.                             *)
LEMMA AllSized ==
  ASSUME NEW U, NEW n \in Seq(U), \A j \in 1..Len(n) : n[j] \in SizedMessage
  PROVE  n \in Seq(SizedMessage)
OBVIOUS

(* The summary goes in front of the first kept message, or alone before it. *)
LEMMA CompactedHistory ==
  ASSUME NEW m \in Seq(SizedMessage), NEW cut \in Nat, cut > 0, cut < Len(m)
  PROVE  /\ Summarized(Suffix(m, cut + 1)) \in Seq(SizedMessage)
         /\ \E d \in Nat, e \in Nat :
              CompactedTo(m, cut, Summarized(Suffix(m, cut + 1)), d, e)
<1>1. PICK l \in Nat : l = Len(m)
  BY LenProperties
<1>2. PICK s : s = Suffix(m, cut + 1)
  OBVIOUS
<1>3. PICK k \in Nat : k = l - cut /\ k > 0 /\ k + cut = l
  <2>1. cut < l
    BY <1>1
  <2> QED
    BY <2>1
<1>4. /\ s \in Seq(SizedMessage) /\ Len(s) = k
      /\ \A j \in 1..k : s[j] = m[j + cut] /\ j + cut \in 1..l
  <2>1. cut + 1 \in 1..(Len(m) + 1)
    BY <1>1
  <2>2. /\ s \in Seq(SizedMessage) /\ Len(s) = Len(m) - (cut + 1) + 1
        /\ \A j \in 1..(Len(m) - (cut + 1) + 1) : s[j] = m[(cut + 1) + j - 1]
    BY <1>2, <2>1, SuffixProperties
  <2>3. Len(m) - (cut + 1) + 1 = k
    BY <1>1, <1>3
  <2>4. ASSUME NEW j \in 1..k PROVE s[j] = m[j + cut] /\ j + cut \in 1..l
    <3>1. (cut + 1) + j - 1 = j + cut /\ j + cut \in 1..l
      BY <1>3
    <3> QED
      BY <2>2, <2>3, <3>1
  <2> QED
    BY <2>2, <2>3, <2>4
<1>5. s # <<>> /\ s[1] \in SizedMessage /\ 1 \in 1..k
  BY <1>3, <1>4, EmptySeq, ElementOfSeq
<1>6. SummarySize \in Nat
  BY WindowAssumption
<1>7. PICK n : n = Summarized(s)
  OBVIOUS
<1>8. CASE s[1].role = "user"
  <2>1. PICK t : t = Tail(s)
    OBVIOUS
  <2>2. /\ t \in Seq(SizedMessage) /\ Len(t) = k - 1
        /\ \A j \in 1..(k - 1) : t[j] = s[j + 1]
    BY <1>4, <1>5, <2>1, HeadTailProperties
  <2>3. PICK h : h = [s[1] EXCEPT !.sum = TRUE]
    OBVIOUS
  <2>4. h \in SizedMessage
    BY <1>5, <2>3 DEF SizedMessage
  <2>5. PICK a : a = ApplySummary(s)
    OBVIOUS
  <2>6. a = <<h>> \o t
    BY <1>5, <1>8, <2>1, <2>3, <2>5 DEF ApplySummary
  <2>7. /\ a \in Seq(SizedMessage) /\ Len(a) = k /\ a[1] = h
        /\ \A j \in 1..(k - 1) : a[j + 1] = t[j]
    <3>1. /\ a \in Seq(SizedMessage) /\ Len(a) = Len(t) + 1 /\ a[1] = h
          /\ \A j \in 1..Len(t) : a[j + 1] = t[j]
      BY <2>2, <2>4, <2>6, InFront
    <3>2. (k - 1) + 1 = k
      BY <1>3
    <3> QED
      BY <2>2, <3>1, <3>2
  <2>8. PICK w \in Nat : w = SummarySize + s[1].size
    <3>1. s[1].size \in Nat
      BY <1>5 DEF SizedMessage
    <3> QED
      BY <1>6, <3>1
  <2>9. PICK y : y = Sized(h, w)
    OBVIOUS
  <2>10. y \in SizedMessage /\ y.sum = TRUE /\ SaysTheSame(y, s[1])
    BY <1>5, <2>3, <2>8, <2>9, MergedMessage
  <2>11. n = [a EXCEPT ![1] = y]
    BY <1>4, <1>7, <2>5, <2>7, <2>8, <2>9 DEF Summarized
  <2>12. a # <<>>
    BY <1>3, <2>7, EmptySeq
  <2>13. /\ n \in Seq(SizedMessage) /\ Len(n) = k /\ n[1] = y
         /\ \A j \in 2..k : n[j] = a[j]
    BY <2>7, <2>10, <2>11, <2>12, NewHead
  <2>14. ASSUME NEW j \in 2..k PROVE n[j] = m[j + cut]
    <3>1. j - 1 \in 1..(k - 1) /\ (j - 1) + 1 = j /\ j \in 1..k
      BY <1>3
    <3>2. a[j] = t[j - 1] /\ t[j - 1] = s[j]
      BY <2>2, <2>7, <3>1
    <3> QED
      BY <1>4, <2>13, <3>1, <3>2
  <2>15. Moved(m, n, cut, 0)
    <3>1. ASSUME NEW j \in 1..Len(n)
          PROVE  j + cut \in 1..Len(m) /\ SaysTheSame(n[j], m[j + cut])
      <4>1. j + cut \in 1..Len(m)
        BY <1>1, <1>4, <2>13
      <4>2. CASE j = 1
        BY <1>4, <1>5, <2>10, <2>13, <4>1, <4>2
      <4>3. CASE j # 1
        <5>1. j \in 2..k
          BY <2>13, <4>3
        <5>2. n[j] = m[j + cut]
          BY <2>14, <5>1
        <5> QED
          BY <4>1, <5>2 DEF SaysTheSame
      <4> QED
        BY <4>2, <4>3
    <3> QED
      BY <3>1 DEF Moved
  <2>16. /\ cut + 0 = cut /\ Len(n) + cut = Len(m) /\ Len(n) > 0
         /\ \A j \in 1..Len(n) : ~(j <= 0)
    BY <1>1, <1>3, <2>13
  <2>17. n[1].sum
    BY <2>10, <2>13
  <2>18. CompactedTo(m, cut, n, cut, 0)
    BY <2>13, <2>14, <2>15, <2>16, <2>17 DEF CompactedTo
  <2> QED
    BY <1>2, <1>7, <2>13, <2>18
<1>9. CASE s[1].role # "user"
  <2> DEFINE U == SizedMessage \cup {SummaryMsg}
  <2>1. SummaryMsg \in U /\ SizedMessage \subseteq U /\ s \in Seq(U)
    <3>1. \A j \in 1..Len(s) : s[j] \in U
      BY <1>4, ElementOfSeq
    <3> HIDE DEF U
    <3>2. s \in Seq(U)
      BY <1>4, <3>1
    <3> QED
      BY <3>2 DEF U
  <2>2. PICK a : a = ApplySummary(s)
    OBVIOUS
  <2>3. a = <<SummaryMsg>> \o s
    BY <1>9, <2>2 DEF ApplySummary
  <2> HIDE DEF U
  <2>4. /\ a \in Seq(U) /\ Len(a) = k + 1 /\ a[1] = SummaryMsg
        /\ \A j \in 1..k : a[j + 1] = s[j]
    BY <1>4, <2>1, <2>3, InFront
  <2>5. PICK y : y = Sized(SummaryMsg, SummarySize)
    OBVIOUS
  <2>6. y \in SizedMessage /\ y.sum /\ y.role = "user"
    BY <1>6, <2>5, SizedMessages
  <2>7. n = [a EXCEPT ![1] = y]
    <3>1. Len(a) # Len(s)
      BY <1>4, <2>4
    <3>2. SummarySize + 0 = SummarySize
      BY <1>6
    <3> QED
      BY <1>7, <2>2, <2>4, <2>5, <3>1, <3>2 DEF Summarized
  <2>8. a # <<>> /\ y \in U
    BY <1>3, <2>1, <2>4, <2>6, EmptySeq
  <2>9. /\ n \in Seq(U) /\ Len(n) = k + 1 /\ n[1] = y
        /\ \A j \in 2..(k + 1) : n[j] = a[j]
    BY <2>4, <2>7, <2>8, NewHead
  <2>10. PICK d \in Nat : d = cut - 1 /\ d + 1 = cut
    OBVIOUS
  <2>11. ASSUME NEW j \in 2..(k + 1)
         PROVE  n[j] = m[j + d] /\ j + d \in 1..l /\ n[j] \in SizedMessage
    <3>1. j - 1 \in 1..k /\ (j - 1) + 1 = j /\ (j - 1) + cut = j + d
      BY <1>3, <2>10
    <3>2. n[j] = s[j - 1]
      BY <2>4, <2>9, <3>1
    <3>3. s[j - 1] = m[j + d] /\ j + d \in 1..l
      BY <1>4, <3>1
    <3>4. s[j - 1] \in SizedMessage
      BY <1>4, <3>1, ElementOfSeq
    <3> QED
      BY <3>2, <3>3, <3>4
  <2>12. \A j \in 1..Len(n) : j > 1 => j \in 2..(k + 1)
    BY <2>9
  <2>13. n \in Seq(SizedMessage)
    <3>1. ASSUME NEW j \in 1..Len(n) PROVE n[j] \in SizedMessage
      <4>1. j = 1 \/ j > 1
        OBVIOUS
      <4> QED
        BY <2>6, <2>9, <2>11, <2>12, <4>1
    <3> QED
      BY <2>9, <3>1, AllSized
  <2>14. Moved(m, n, d, 1)
    BY <1>1, <2>11, <2>12 DEF Moved, SaysTheSame
  <2>15. /\ Len(n) + d = Len(m) /\ Len(n) > 0
         /\ \A j \in 1..Len(n) : j <= 1 => j = 1
    BY <1>1, <1>3, <2>9, <2>10
  <2>16. CompactedTo(m, cut, n, d, 1)
    BY <2>6, <2>9, <2>10, <2>11, <2>14, <2>15 DEF CompactedTo
  <2> QED
    BY <1>2, <1>7, <2>13, <2>16
<1> QED
  BY <1>8, <1>9

(* A compacted history keeps its results anchored when the first message it *)
(* keeps is not one of them.                                                *)
LEMMA AnchoredCompacted ==
  ASSUME NEW m \in Seq(SizedMessage), NEW n \in Seq(SizedMessage),
         NEW cut \in Nat, NEW d \in Nat, NEW e \in Nat,
         CompactedTo(m, cut, n, d, e), m[cut + 1].role # "tool", Anchored(m)
  PROVE  Anchored(n)
<1>1. /\ Moved(m, n, d, e) /\ d + e = cut
      /\ \A j \in 1..Len(n) : j <= e => n[j].role = "user"
  BY DEF CompactedTo
<1>2. e + d = cut /\ m[e + d + 1].role # "tool"
  BY <1>1
<1>3. ASSUME NEW i \in 1..Len(n), n[i].role = "tool"
      PROVE  AnchoredAt(n, i)
  <2>1. i > e
    BY <1>1, <1>3
  <2>2. i + d \in 1..Len(m) /\ m[i + d].role = "tool"
    BY <1>1, <1>3, <2>1 DEF Moved, SaysTheSame
  <2>3. AnchoredAt(m, i + d)
    BY <2>2 DEF Anchored
  <2> QED
    BY <1>1, <1>2, <2>1, <2>3, AnchoredMoves
<1> QED
  BY <1>3 DEF Anchored

-----------------------------------------------------------------------------
(* The result of a call that waits for one is anchored behind it.           *)
LEMMA OpenCallIsAnchored ==
  ASSUME history \in Seq(SizedMessage), Anchored(history), OpenCall > 0,
         NEW size \in Nat
  PROVE  /\ OpenCall \in Nat
         /\ AnchoredAt(Append(history, Sized(ToolMsg(0, OpenCall), size)),
                       Len(history) + 1)
<1>1. PICK n \in Nat : n = Len(history)
  BY LenProperties
<1>2. PICK a : a = IF n > 0 /\ history[n].role = "tool"
                   THEN n - history[n].call ELSE n
  OBVIOUS
<1>3. OpenCall = IF n > 0 /\ history[a].calls > n - a THEN n - a + 1 ELSE 0
  BY <1>1, <1>2 DEF OpenCall
<1>4. n > 0 /\ history[a].calls > n - a /\ OpenCall = n - a + 1
  BY <1>3
<1>5. history[n] \in SizedMessage /\ n \in 1..n
  BY <1>1, <1>4, ElementOfSeq
<1>6. /\ a \in 1..n /\ history[a].role = "assistant"
      /\ \A j \in (a + 1)..n : history[j].role = "tool" /\ history[j].call = j - a
  <2>1. CASE history[n].role = "tool"
    <3>1. PICK c \in Nat : c = history[n].call
      BY <1>5 DEF SizedMessage
    <3>2. a = n - c
      BY <1>2, <1>4, <2>1, <3>1
    <3>3. AnchoredAt(history, n)
      BY <1>1, <1>5, <2>1 DEF Anchored
    <3>4. /\ c >= 1 /\ a >= 1 /\ history[a].role = "assistant"
          /\ \A j \in (a + 1)..n : history[j].role = "tool" /\ history[j].call = j - a
      BY <3>1, <3>2, <3>3 DEF AnchoredAt
    <3>5. a \in 1..n
      BY <3>2, <3>4
    <3> QED
      BY <3>4, <3>5
  <2>2. CASE history[n].role # "tool"
    <3>1. a = n /\ history[n].calls > n - n
      BY <1>2, <1>4, <2>2
    <3>2. history[n].calls # 0
      BY <3>1
    <3>3. history[n].role = "assistant"
      BY <1>5, <3>2 DEF SizedMessage
    <3>4. ~(\E j \in (n + 1)..n : TRUE)
      OBVIOUS
    <3> QED
      BY <1>5, <3>1, <3>3, <3>4
  <2> QED
    BY <2>1, <2>2
<1>7. PICK c \in Nat : c = OpenCall /\ c = n - a + 1 /\ c >= 1 /\ (n + 1) - c = a
  BY <1>4, <1>6
<1>8. history[a] \in SizedMessage
  BY <1>1, <1>6, ElementOfSeq
<1>9. history[a].calls >= c
  <2>1. PICK k \in Nat : k = history[a].calls
    BY <1>8 DEF SizedMessage
  <2>2. k > n - a
    BY <1>4, <2>1
  <2>3. k >= c
    BY <1>6, <1>7, <2>2
  <2> QED
    BY <2>1, <2>3
<1>10. PICK x \in SizedMessage : /\ x = Sized(ToolMsg(0, OpenCall), size)
                                 /\ x.role = "tool" /\ x.call = c
  BY <1>7, SizedMessages
<1>11. PICK r : r = Append(history, x)
  OBVIOUS
<1>12. /\ \A j \in 1..n : r[j] = history[j]
       /\ r[n + 1] = x
  BY <1>1, <1>11, AppendedHistory
<1>13. /\ r[n + 1].call = c /\ r[a].role = "assistant" /\ r[a].calls >= c
  BY <1>6, <1>9, <1>10, <1>12
<1>14. ASSUME NEW j \in (a + 1)..(n + 1)
       PROVE  r[j].role = "tool" /\ r[j].call = j - a
  <2>1. CASE j = n + 1
    <3>1. (n + 1) - a = c
      BY <1>6, <1>7
    <3> QED
      BY <1>10, <1>12, <2>1, <3>1
  <2>2. CASE j # n + 1
    <3>1. j \in (a + 1)..n /\ j \in 1..n
      BY <1>6, <2>2
    <3> QED
      BY <1>6, <1>12, <3>1
  <2> QED
    BY <2>1, <2>2
<1>15. a >= 1
  BY <1>6
<1>16. AnchoredAt(r, n + 1)
  BY <1>7, <1>13, <1>14, <1>15 DEF AnchoredAt
<1> QED
  BY <1>1, <1>7, <1>10, <1>11, <1>16

(* No call waits for its result in a compacted history, if none did before. *)
LEMMA OpenCallCompacted ==
  ASSUME history \in Seq(SizedMessage), Anchored(history), OpenCall = 0,
         NEW cut \in Nat, NEW d \in Nat, NEW e \in Nat, cut < Len(history),
         history[Len(history)].role # "assistant",
         history[cut + 1].role # "tool", NEW m \in Seq(SizedMessage),
         history' = m, CompactedTo(history, cut, m, d, e)
  PROVE  OpenCall' = 0
<1>1. PICK n \in Nat : n = Len(history)
  BY LenProperties
<1>2. PICK k \in Nat : k = Len(m)
  BY LenProperties
<1>3. /\ d + e = cut /\ k + d = n /\ k > 0 /\ Moved(history, m, d, e) /\ cut < n
  BY <1>1, <1>2 DEF CompactedTo
<1>4. k > e /\ k \in 1..k /\ n > 0 /\ n \in 1..n
  BY <1>3
<1>5. history[n] \in SizedMessage
  BY <1>1, <1>4, ElementOfSeq
<1>6. SaysTheSame(m[k], history[n])
  BY <1>2, <1>3, <1>4 DEF Moved
<1>7. PICK c \in Nat : c = history[n].call
  BY <1>5 DEF SizedMessage
<1>8. /\ m[k].role = history[n].role /\ m[k].call = c
      /\ m[k].calls = history[n].calls
  BY <1>6, <1>7 DEF SaysTheSame
<1>9. PICK a : a = IF k > 0 /\ m[k].role = "tool" THEN k - m[k].call ELSE k
  OBVIOUS
<1>10. OpenCall' = IF k > 0 /\ m[a].calls > k - a THEN k - a + 1 ELSE 0
  BY <1>2, <1>9 DEF OpenCall
<1>11. ~(m[a].calls > k - a)
  <2>1. CASE history[n].role = "tool"
    <3>1. PICK b : b = n - c
      OBVIOUS
    <3>2. AnchoredAt(history, n)
      BY <1>1, <1>4, <2>1 DEF Anchored
    <3>3. /\ c >= 1 /\ b >= 1 /\ \A j \in (b + 1)..n : history[j].role = "tool"
      BY <1>7, <3>1, <3>2 DEF AnchoredAt
    <3>4. b \in 1..n /\ b >= cut + 1
      <4>1. b \in Int /\ b <= n
        BY <3>1, <3>3
      <4>2. SUFFICES ASSUME b < cut + 1 PROVE FALSE
        BY <3>3, <4>1
      <4>3. cut + 1 \in (b + 1)..n
        BY <1>3, <4>1, <4>2
      <4> QED
        BY <3>3, <4>3
    <3>5. ~(history[b].calls > n - b)
      <4>1. OpenCall = IF n > 0 /\ history[b].calls > n - b THEN n - b + 1 ELSE 0
        BY <1>1, <1>4, <1>7, <2>1, <3>1 DEF OpenCall
      <4>2. n - b + 1 # 0
        BY <3>4
      <4> QED
        BY <1>4, <4>1, <4>2
    <3>6. a = k - c
      BY <1>4, <1>8, <1>9, <2>1
    <3>7. a + d = b /\ a \in 1..k /\ a > e /\ k - a = n - b
      BY <1>3, <3>1, <3>4, <3>6
    <3>8. m[a].calls = history[b].calls
      <4>1. SaysTheSame(m[a], history[a + d])
        BY <1>2, <1>3, <3>7 DEF Moved
      <4> QED
        BY <3>7, <4>1 DEF SaysTheSame
    <3> QED
      BY <3>5, <3>7, <3>8
  <2>2. CASE history[n].role # "tool"
    <3>1. a = k
      BY <1>8, <1>9, <2>2
    <3>2. history[n].calls = 0
      BY <1>1, <1>5 DEF SizedMessage
    <3>3. m[a].calls = 0 /\ k - a = 0
      BY <1>8, <3>1, <3>2
    <3> QED
      BY <3>3
  <2> QED
    BY <2>1, <2>2
<1> QED
  BY <1>10, <1>11

-----------------------------------------------------------------------------
(* What a session keeps from request to request: its history is well formed,*)
(* the last request is sound, and no call waits for a result while an       *)
(* answer is awaited, so that what a request was cut from stays the history *)
(* until the answer comes.                                                  *)
SettingsInv == window \in Nat /\ overhead \in Nat /\ hardCap \in Nat

WindowInv ==
  /\ history \in Seq(SizedMessage) /\ turnStart \in Nat
  /\ SettingsInv
  /\ Anchored(history)
  /\ RequestIsSound
  /\ request # NoRequest => OpenCall = 0

(* The history a request is built from is the whole one, or the compacted   *)
(* one, cut in front of a message that is no result and of the last         *)
(* KeepRecent.                                                              *)
LEMMA PreparedHistory ==
  ASSUME history \in Seq(SizedMessage), turnStart \in Nat, NEW m \in Prepared,
         m # history
  PROVE  /\ m \in Seq(SizedMessage)
         /\ \E cut \in Nat, d \in Nat, e \in Nat :
              /\ CompactedTo(history, cut, m, d, e)
              /\ cut > 0 /\ cut + KeepRecent <= Len(history)
              /\ history[cut + 1].role # "tool"
<1>1. PICK c : c = CompactionCut(history, Budget, KeepRecent, turnStart)
  OBVIOUS
<1>2. c # 0 /\ m = Summarized(Suffix(history, c + 1))
  BY <1>1 DEF Prepared
<1>3. c = CutIndex(history, KeepRecent, turnStart)
  BY <1>1, <1>2 DEF CompactionCut
<1>4. PICK n \in Nat : n = Len(history)
  BY LenProperties
<1>5. KeepRecent \in Nat \ {0}
  BY WindowAssumption
<1>6. c \in 0..n /\ c <= n - KeepRecent /\ history[c + 1].role # "tool"
  BY <1>2, <1>3, <1>4, <1>5, CutIndexProperties
<1>7. c \in Nat /\ c > 0 /\ c < n /\ c + KeepRecent <= n
  BY <1>2, <1>5, <1>6
<1>8. c < Len(history)
  BY <1>4, <1>7
<1>9. /\ m \in Seq(SizedMessage)
      /\ \E d \in Nat, e \in Nat : CompactedTo(history, c, m, d, e)
  BY <1>2, <1>7, <1>8, CompactedHistory
<1> QED
  BY <1>4, <1>6, <1>7, <1>9

(* A session begins with an empty history.                                  *)
LEMMA InitWindow == WindowInit => WindowInv
<1> SUFFICES ASSUME WindowInit PROVE WindowInv
  OBVIOUS
<1>1. history = <<>> /\ turnStart = 0 /\ request = NoRequest
  BY DEF WindowInit
<1>2. history \in Seq(SizedMessage) /\ Len(history) = 0
  BY <1>1, EmptySeq
<1>3. SettingsInv
  BY WindowAssumption DEF WindowInit, SettingsInv
<1>4. Anchored(history)
  BY <1>2 DEF Anchored
<1>5. RequestIsSound
  BY <1>1, NoRequestIsSound
<1> QED
  BY <1>1, <1>2, <1>3, <1>4, <1>5 DEF WindowInv

(* What a message that joins the history leaves well formed.                *)
LEMMA GrownHistory ==
  ASSUME WindowInv, NEW x \in SizedMessage, history' = Append(history, x),
         x.role = "tool" => AnchoredAt(Append(history, x), Len(history) + 1)
  PROVE  (history \in Seq(SizedMessage))' /\ Anchored(history)'
<1>1. history \in Seq(SizedMessage) /\ Anchored(history)
  BY DEF WindowInv
<1>2. Append(history, x) \in Seq(SizedMessage)
  BY <1>1, AppendedHistory
<1>3. Anchored(Append(history, x))
  BY <1>1, AnchoredAppend
<1> QED
  BY <1>2, <1>3

(* The settings of a session stay what they are.                            *)
LEMMA SettingsKept ==
  ASSUME SettingsInv, UNCHANGED Settings
  PROVE  SettingsInv'
BY DEF SettingsInv, Settings

(* An ask.                                                                  *)
LEMMA AskWindow ==
  ASSUME WindowInv, Ask
  PROVE  WindowInv'
<1>1. PICK size \in Sizes : history' = Append(history, Sized(AskMsg(0), size))
  BY DEF Ask
<1>2. size \in Nat
  BY WindowAssumption
<1>3. Sized(AskMsg(0), size) \in SizedMessage /\ Sized(AskMsg(0), size).role = "user"
  BY <1>2, SizedMessages
<1>4. (history \in Seq(SizedMessage))' /\ Anchored(history)'
  BY <1>1, <1>3, GrownHistory
<1>5. SettingsInv'
  BY SettingsKept DEF Ask, WindowInv
<1>6. (turnStart \in Nat)'
  <2>1. history \in Seq(SizedMessage)
    BY DEF WindowInv
  <2> QED
    BY <2>1, LenProperties DEF Ask
<1>7. request' = NoRequest
  BY DEF Ask
<1>8. (request = NoRequest)'
  BY <1>7 DEF NoRequest
<1>9. RequestIsSound'
  BY <1>8, NoRequestIsSound, PTL
<1> QED
  BY <1>4, <1>5, <1>6, <1>8, <1>9 DEF WindowInv

(* An answer.                                                               *)
LEMMA AnswerWindow ==
  ASSUME WindowInv, Answer
  PROVE  WindowInv'
<1>1. PICK size \in Sizes, n \in 0..MaxAsked :
        history' = Append(history, Sized(AssistantMsg(0, n, 1), size))
  BY DEF Answer
<1>2. size \in Nat /\ n \in Nat
  BY WindowAssumption
<1>3. /\ Sized(AssistantMsg(0, n, 1), size) \in SizedMessage
      /\ Sized(AssistantMsg(0, n, 1), size).role = "assistant"
  BY <1>2, SizedMessages
<1>4. (history \in Seq(SizedMessage))' /\ Anchored(history)'
  BY <1>1, <1>3, GrownHistory
<1>5. SettingsInv'
  BY SettingsKept DEF Answer, WindowInv
<1>6. (turnStart \in Nat)'
  BY DEF Answer, WindowInv
<1>7. request' = NoRequest
  BY DEF Answer
<1>8. (request = NoRequest)'
  BY <1>7 DEF NoRequest
<1>9. RequestIsSound'
  BY <1>8, NoRequestIsSound, PTL
<1> QED
  BY <1>4, <1>5, <1>6, <1>8, <1>9 DEF WindowInv

(* A result: no request is out, so none was cut from the shorter history.   *)
LEMMA ResultWindow ==
  ASSUME WindowInv, Result
  PROVE  WindowInv'
<1>1. OpenCall > 0 /\ request' = request /\ turnStart' = turnStart
      /\ UNCHANGED Settings
  BY DEF Result
<1>2. PICK size \in Sizes :
        history' = Append(history, Sized(ToolMsg(0, OpenCall), size))
  BY DEF Result
<1>3. size \in Nat /\ history \in Seq(SizedMessage) /\ Anchored(history)
  BY WindowAssumption DEF WindowInv
<1>4. /\ OpenCall \in Nat
      /\ AnchoredAt(Append(history, Sized(ToolMsg(0, OpenCall), size)),
                    Len(history) + 1)
  BY <1>1, <1>3, OpenCallIsAnchored
<1>5. Sized(ToolMsg(0, OpenCall), size) \in SizedMessage
  BY <1>3, <1>4, SizedMessages
<1>6. (history \in Seq(SizedMessage))' /\ Anchored(history)'
  BY <1>2, <1>4, <1>5, GrownHistory
<1>7. SettingsInv'
  BY <1>1, SettingsKept DEF WindowInv
<1>8. (turnStart \in Nat)'
  BY <1>1 DEF WindowInv
<1>9. request = NoRequest
  <2>1. OpenCall # 0
    BY <1>1, <1>4
  <2> QED
    BY <2>1 DEF WindowInv
<1>10. (request = NoRequest)'
  BY <1>1, <1>9 DEF NoRequest
<1>11. RequestIsSound'
  BY <1>10, NoRequestIsSound, PTL
<1> QED
  BY <1>6, <1>7, <1>8, <1>10, <1>11 DEF WindowInv

(* A step of the loop.                                                      *)
LEMMA SendRequestWindow ==
  ASSUME WindowInv, SendRequest
  PROVE  WindowInv'
<1>1. /\ history # <<>> /\ OpenCall = 0
      /\ history[Len(history)].role # "assistant"
      /\ turnStart' = turnStart /\ UNCHANGED Settings
  BY DEF SendRequest
<1>2. PICK m \in Prepared : history' = m /\ request' = Requested(m)
  BY DEF SendRequest
<1>3. /\ history \in Seq(SizedMessage) /\ Anchored(history)
      /\ turnStart \in Nat
  BY DEF WindowInv
<1>4. window \in Nat /\ overhead \in Nat /\ hardCap \in Nat
  BY DEF WindowInv, SettingsInv
<1>5. /\ m \in Seq(SizedMessage) /\ m # <<>> /\ Anchored(m)
      /\ OpenCall' = 0
  <2>1. CASE m = history
    <3>1. history' = history
      BY <1>2, <2>1
    <3>2. OpenCall' = OpenCall
      BY <3>1 DEF OpenCall
    <3> QED
      BY <1>1, <1>3, <2>1, <3>2
  <2>2. CASE m # history
    <3>1. m \in Seq(SizedMessage)
      BY <1>3, <2>2, PreparedHistory
    <3>2. PICK cut \in Nat, d \in Nat, e \in Nat :
            /\ CompactedTo(history, cut, m, d, e)
            /\ cut > 0 /\ cut + KeepRecent <= Len(history)
            /\ history[cut + 1].role # "tool"
      BY <1>3, <2>2, PreparedHistory
    <3>3. cut < Len(history)
      <4>1. KeepRecent \in Nat \ {0} /\ Len(history) \in Nat
        BY <1>3, WindowAssumption, LenProperties
      <4> QED
        BY <3>2, <4>1
    <3>4. Anchored(m)
      BY <1>3, <3>1, <3>2, AnchoredCompacted
    <3>5. OpenCall' = 0
      BY <1>1, <1>2, <1>3, <3>1, <3>2, <3>3, OpenCallCompacted
    <3>6. m # <<>>
      <4>1. Len(m) > 0
        BY <3>2 DEF CompactedTo
      <4> QED
        BY <4>1, EmptySeq
    <3> QED
      BY <3>1, <3>4, <3>5, <3>6
  <2> QED
    BY <2>1, <2>2
<1>6. RequestIsSound'
  BY <1>2, <1>4, <1>5, RequestedIsSound
<1>7. SettingsInv'
  BY <1>1, SettingsKept DEF WindowInv
<1> QED
  BY <1>1, <1>2, <1>3, <1>5, <1>6, <1>7 DEF WindowInv

(* Another model, skill or tool server.                                     *)
LEMMA ReconfigureWindow ==
  ASSUME WindowInv, Reconfigure
  PROVE  WindowInv'
<1>1. /\ history' = history /\ turnStart' = turnStart /\ request' = request
      /\ hardCap' = hardCap /\ window' \in Windows /\ overhead' \in Overheads
  BY DEF Reconfigure
<1>2. SettingsInv'
  BY <1>1, WindowAssumption DEF WindowInv, SettingsInv
<1>3. RequestIsSound' = RequestIsSound
  BY <1>1 DEF RequestIsSound, RequestFits, WindowHonoured,
              NothingDroppedInVain, RequestAnchored, Sent, Headroom
<1>4. OpenCall' = OpenCall
  BY <1>1 DEF OpenCall
<1>5. NoRequest' = NoRequest
  BY DEF NoRequest
<1> QED
  BY <1>1, <1>2, <1>3, <1>4, <1>5 DEF WindowInv

(* A step that changes nothing.                                             *)
LEMMA StutterWindow ==
  ASSUME WindowInv, UNCHANGED windowVars
  PROVE  WindowInv'
<1>1. /\ history' = history /\ turnStart' = turnStart /\ request' = request
      /\ hardCap' = hardCap /\ window' = window /\ overhead' = overhead
  BY DEF windowVars
<1>2. SettingsInv'
  BY <1>1 DEF WindowInv, SettingsInv
<1>3. RequestIsSound' = RequestIsSound
  BY <1>1 DEF RequestIsSound, RequestFits, WindowHonoured,
              NothingDroppedInVain, RequestAnchored, Sent, Headroom
<1>4. OpenCall' = OpenCall
  BY <1>1 DEF OpenCall
<1>5. NoRequest' = NoRequest
  BY DEF NoRequest
<1> QED
  BY <1>1, <1>2, <1>3, <1>4, <1>5 DEF WindowInv

(* Every step keeps it.                                                     *)
LEMMA NextWindow == WindowInv /\ [WindowNext]_windowVars => WindowInv'
<1> SUFFICES ASSUME WindowInv, [WindowNext]_windowVars PROVE WindowInv'
  OBVIOUS
<1>1. CASE Ask
  BY <1>1, AskWindow
<1>2. CASE Answer
  BY <1>2, AnswerWindow
<1>3. CASE Result
  BY <1>3, ResultWindow
<1>4. CASE SendRequest
  BY <1>4, SendRequestWindow
<1>5. CASE Reconfigure
  BY <1>5, ReconfigureWindow
<1>6. CASE UNCHANGED windowVars
  BY <1>6, StutterWindow
<1> QED
  BY <1>1, <1>2, <1>3, <1>4, <1>5, <1>6 DEF WindowNext

(* For every set of windows, overheads and caps: however the history, the   *)
(* model and the prompt change between requests, each request fits the      *)
(* budget it was cut for, leaves the prompt and the answer their share of   *)
(* the model's window, drops nothing that would have fitted, and carries no *)
(* tool result without its call (Harness._context_budget, fit).             *)
THEOREM RequestsAreSound == WindowSpec => []RequestIsSound
<1>1. WindowInv => RequestIsSound
  BY DEF WindowInv
<1> QED
  BY <1>1, InitWindow, NextWindow, PTL DEF WindowSpec

-----------------------------------------------------------------------------
(* The step of RecentSurvive.                                               *)
RecentKept ==
  Len(history') # Len(history) + 1 =>
    \A k \in 0..(KeepRecent - 1) :
      k < Len(history) =>
        LET old == history[Len(history) - k]
            new == history'[Len(history') - k]
        IN /\ Len(history') > k
           /\ new.role = old.role /\ new.call = old.call
           /\ new.size # old.size => new.sum /\ k = Len(history') - 1

(* A message that joins the history takes none away.                        *)
LEMMA GrowthKeepsRecent ==
  ASSUME WindowInv, NEW x \in SizedMessage, history' = Append(history, x)
  PROVE  RecentKept
<1>1. Len(history') = Len(history) + 1
  BY AppendedHistory DEF WindowInv
<1> QED
  BY <1>1 DEF RecentKept

(* Nor does a step that leaves it alone.                                    *)
LEMMA SameKeepsRecent ==
  ASSUME WindowInv, history' = history
  PROVE  RecentKept
<1>1. Len(history) \in Nat
  BY LenProperties DEF WindowInv
<1> QED
  BY <1>1 DEF RecentKept

(* Nor does a step of the loop, compacted or not.                           *)
LEMMA SendRequestKeepsRecent ==
  ASSUME WindowInv, SendRequest
  PROVE  RecentKept
<1>1. PICK m \in Prepared : history' = m
  BY DEF SendRequest
<1>2. history \in Seq(SizedMessage) /\ turnStart \in Nat
  BY DEF WindowInv
<1>3. CASE m = history
  BY <1>1, <1>3, SameKeepsRecent
<1>4. CASE m # history
  <2>1. PICK cut \in Nat, d \in Nat, e \in Nat :
          /\ CompactedTo(history, cut, m, d, e)
          /\ cut > 0 /\ cut + KeepRecent <= Len(history)
    BY <1>2, <1>4, PreparedHistory
  <2>2. m \in Seq(SizedMessage)
    BY <1>2, <1>4, PreparedHistory
  <2>3. PICK n \in Nat : n = Len(history)
    BY <1>2, LenProperties
  <2>4. PICK l \in Nat : l = Len(m)
    BY <2>2, LenProperties
  <2>5. PICK r \in Nat : r = KeepRecent
    BY WindowAssumption
  <2>6. /\ d + e = cut /\ l + d = n /\ l > 0 /\ e <= 1 /\ cut + r <= n
        /\ Moved(history, m, d, e) /\ m[1].sum
        /\ \A j \in 2..l : m[j] = history[j + d]
    BY <2>1, <2>3, <2>4, <2>5 DEF CompactedTo
  <2>7. ASSUME NEW k \in 0..(r - 1)
        PROVE  /\ l > k
               /\ m[l - k].role = history[n - k].role
               /\ m[l - k].call = history[n - k].call
               /\ m[l - k].size # history[n - k].size => m[l - k].sum /\ k = l - 1
    <3>1. PICK i \in Int : i = l - k /\ i + d = n - k
      BY <2>6
    <3>2. i > e /\ i \in 1..l /\ l > k
      BY <2>6, <3>1
    <3>3. SaysTheSame(m[i], history[i + d])
      BY <2>4, <2>6, <3>2 DEF Moved
    <3>4. m[i].role = history[n - k].role /\ m[i].call = history[n - k].call
      BY <3>1, <3>3 DEF SaysTheSame
    <3>5. ASSUME m[i].size # history[n - k].size PROVE m[i].sum /\ k = l - 1
      <4>1. i = 1
        <5>1. SUFFICES ASSUME i # 1 PROVE FALSE
          OBVIOUS
        <5>2. i \in 2..l
          BY <3>2, <5>1
        <5>3. m[i] = history[n - k]
          BY <2>6, <3>1, <5>2
        <5> QED
          BY <3>5, <5>3
      <4> QED
        BY <2>6, <3>1, <4>1
    <3> QED
      BY <3>1, <3>2, <3>4, <3>5
  <2> QED
    BY <1>1, <2>3, <2>4, <2>5, <2>7 DEF RecentKept
<1> QED
  BY <1>3, <1>4

(* No step takes one of the last KeepRecent messages.                       *)
LEMMA NextKeepsRecent == WindowInv /\ [WindowNext]_windowVars => [RecentKept]_history
<1> SUFFICES ASSUME WindowInv, [WindowNext]_windowVars, history' # history PROVE RecentKept
  OBVIOUS
<1>1. CASE Ask
  <2>1. PICK size \in Sizes : history' = Append(history, Sized(AskMsg(0), size))
    BY <1>1 DEF Ask
  <2>2. Sized(AskMsg(0), size) \in SizedMessage
    BY WindowAssumption, SizedMessages
  <2> QED
    BY <2>1, <2>2, GrowthKeepsRecent
<1>2. CASE Answer
  <2>1. PICK size \in Sizes, n \in 0..MaxAsked :
          history' = Append(history, Sized(AssistantMsg(0, n, 1), size))
    BY <1>2 DEF Answer
  <2>2. size \in Nat /\ n \in Nat
    BY WindowAssumption
  <2>3. Sized(AssistantMsg(0, n, 1), size) \in SizedMessage
    BY <2>2, SizedMessages
  <2> QED
    BY <2>1, <2>3, GrowthKeepsRecent
<1>3. CASE Result
  <2>1. PICK size \in Sizes :
          history' = Append(history, Sized(ToolMsg(0, OpenCall), size))
    BY <1>3 DEF Result
  <2>2. size \in Nat /\ history \in Seq(SizedMessage) /\ Anchored(history)
    BY WindowAssumption DEF WindowInv
  <2>3. OpenCall \in Nat
    BY <1>3, <2>2, OpenCallIsAnchored DEF Result
  <2>4. Sized(ToolMsg(0, OpenCall), size) \in SizedMessage
    BY <2>2, <2>3, SizedMessages
  <2> QED
    BY <2>1, <2>4, GrowthKeepsRecent
<1>4. CASE SendRequest
  BY <1>4, SendRequestKeepsRecent
<1>5. CASE Reconfigure
  BY <1>5, SameKeepsRecent DEF Reconfigure
<1>6. CASE UNCHANGED windowVars
  BY <1>6, SameKeepsRecent DEF windowVars
<1> QED
  BY <1>1, <1>2, <1>3, <1>4, <1>5, <1>6 DEF WindowNext

(* For every KeepRecent and every order of compactions and requests: the    *)
(* results that stay in the history follow their calls, and the last        *)
(* KeepRecent messages stay, the first of them at most with a summary       *)
(* merged in front of it (Harness._compact_if_needed, compaction_cut).      *)
THEOREM CompactionsAreSound == WindowSpec => CompactionIsSound
<1>1. WindowInv => BlocksSurvive
  BY DEF WindowInv, BlocksSurvive
<1>2. WindowSpec => []WindowInv
  BY InitWindow, NextWindow, PTL DEF WindowSpec
<1>3. WindowInv /\ [WindowNext]_windowVars => [RecentKept]_history
  BY NextKeepsRecent
<1>4. WindowSpec => [][RecentKept]_history
  BY <1>2, <1>3, PTL DEF WindowSpec
<1>5. WindowSpec => RecentSurvive
  BY <1>4 DEF RecentSurvive, RecentKept
<1> QED
  BY <1>1, <1>2, <1>5, PTL DEF CompactionIsSound

===============================================================================
