------------------------------ MODULE AgentsProofs ------------------------------
(***************************************************************************)
(* What holds of a model call, of delegated work and of the tools that     *)
(* change the workspace, for any limits, any depth of nesting, any files   *)
(* and any number of calls.                                                *)
(*                                                                         *)
(* A call: while it is under way, what was shown is what its attempt has   *)
(* got, so that no attempt is given up that showed anything.               *)
(*                                                                         *)
(* The tools: a preview is compared with what is made from the file the    *)
(* tool read, which is the file of the preview unless somebody wrote it.   *)
(* What an edit leaves alone is followed through str.replace line by line. *)
(*                                                                         *)
(* Delegated work: the money is the difficult part.  While sub-agents are  *)
(* under way it lies in three places, and a sub-agent three levels down    *)
(* pays into an accumulator its caller does not look at.  The invariant    *)
(* adds up what the frames hold, from the bottom of the stack to its top.  *)
(***************************************************************************)
EXTENDS MCAgents, WellFoundedInduction, SequenceTheorems, FiniteSetTheorems, TLAPS

(* Induction over the numbers, said of the set of those that have the       *)
(* property.                                                                *)
LEMMA InductionOnNat ==
  ASSUME NEW S \in SUBSET Nat, 0 \in S, \A n \in S : n + 1 \in S
  PROVE  S = Nat
<1> SUFFICES ASSUME Nat \ S # {} PROVE FALSE
  OBVIOUS
<1>1. PICK x \in Nat \ S : \A y \in Nat \ S : ~(<<y, x>> \in OpToRel(<, Nat))
  BY NatLessThanWellFounded, WFMin
<1>2. x \in Nat /\ x # 0 /\ x - 1 \in Nat /\ x - 1 < x
  OBVIOUS
<1>3. <<x - 1, x>> \in OpToRel(<, Nat)
  BY <1>2 DEF OpToRel
<1>4. x - 1 \in S
  BY <1>1, <1>2, <1>3
<1>5. (x - 1) + 1 \in S
  BY <1>4
<1>6. (x - 1) + 1 = x
  BY <1>2
<1> QED
  BY <1>1, <1>5, <1>6


(* The larger and the smaller of two numbers.                               *)
LEMMA MaxOfTwo ==
  ASSUME NEW a \in Int, NEW b \in Int
  PROVE  Stream!Max({a, b}) = IF a >= b THEN a ELSE b
<1>1. \A x \in {a, b} : (\A y \in {a, b} : x >= y) <=> x = (IF a >= b THEN a ELSE b)
  OBVIOUS
<1>2. (IF a >= b THEN a ELSE b) \in {a, b}
  OBVIOUS
<1>3. (CHOOSE x \in {a, b} : \A y \in {a, b} : x >= y) = IF a >= b THEN a ELSE b
  BY <1>1, <1>2
<1> QED
  BY <1>3 DEF Stream!Max

(* The smaller of two numbers.                                              *)
LEMMA MinOfTwo ==
  ASSUME NEW a \in Int, NEW b \in Int
  PROVE  Stream!Min({a, b}) = IF a <= b THEN a ELSE b
<1>1. \A x \in {a, b} : (\A y \in {a, b} : x <= y) <=> x = (IF a <= b THEN a ELSE b)
  OBVIOUS
<1>2. (IF a <= b THEN a ELSE b) \in {a, b}
  OBVIOUS
<1>3. (CHOOSE x \in {a, b} : \A y \in {a, b} : x <= y) = IF a <= b THEN a ELSE b
  BY <1>1, <1>2
<1> QED
  BY <1>3 DEF Stream!Min

(* The most attempts a call makes beyond its first.                         *)
LastAttempt == IF MaxRetries >= 1 THEN MaxRetries ELSE 1

(* max(cfg.max_retries, 1), the number of attempts a call may take, is the  *)
(* LastAttempt of the proof.                                                *)
LEMMA LastAttemptIsMax ==
  /\ LastAttempt \in Nat /\ MaxRetries <= LastAttempt /\ 1 <= LastAttempt
  /\ Stream!Max({MaxRetries, 1}) = LastAttempt
BY CallAssumption, MaxOfTwo DEF LastAttempt

(* The window of backoff_delay doubles from attempt to attempt.             *)
LEMMA DoubledIsNat ==
  ASSUME NEW n \in Nat,
         NEW f, f = [i \in 0..n |-> IF i = 0 THEN 1 ELSE 2 * f[i - 1]]
  PROVE  \A i \in 0..n : f[i] \in Nat
<1> DEFINE S == {i \in Nat : i \in 0..n => f[i] \in Nat}
<1>1. 0 \in S
  OBVIOUS
<1>2. ASSUME NEW i \in S PROVE i + 1 \in S
  <2>1. SUFFICES ASSUME i + 1 \in 0..n PROVE f[i + 1] \in Nat
    OBVIOUS
  <2>2. i \in 0..n /\ f[i] \in Nat /\ i + 1 # 0 /\ (i + 1) - 1 = i
    BY <2>1
  <2>3. f[i + 1] = 2 * f[i]
    BY <2>1, <2>2
  <2> QED
    BY <2>2, <2>3
<1> HIDE DEF S
<1>3. S = Nat
  BY <1>1, <1>2, InductionOnNat DEF S
<1>4. \A i \in 0..n : i \in S
  BY <1>3
<1> QED
  BY <1>4 DEF S

(* There is such a window for every attempt.                                *)
LEMMA DoubledExists ==
  ASSUME NEW n \in Nat
  PROVE  \E f : f = [i \in 0..n |-> IF i = 0 THEN 1 ELSE 2 * f[i - 1]]
<1> DEFINE S == {m \in Nat : \E f : f = [i \in 0..m |-> IF i = 0 THEN 1 ELSE 2 * f[i - 1]]}
<1>1. 0 \in S
  <2>1. PICK f : f = [i \in 0..0 |-> 1]
    OBVIOUS
  <2>2. f = [i \in 0..0 |-> IF i = 0 THEN 1 ELSE 2 * f[i - 1]]
    BY <2>1
  <2> QED
    BY <2>2
<1>2. ASSUME NEW m \in S PROVE m + 1 \in S
  <2>1. PICK f : f = [i \in 0..m |-> IF i = 0 THEN 1 ELSE 2 * f[i - 1]]
    OBVIOUS
  <2>2. m \in Nat
    OBVIOUS
  <2>3. PICK g : g = [i \in 0..(m + 1) |-> IF i = 0 THEN 1 ELSE 2 * f[i - 1]]
    OBVIOUS
  <2>4. ASSUME NEW i \in 0..m PROVE g[i] = f[i]
    BY <2>1, <2>2, <2>3
  <2>5. ASSUME NEW i \in 0..(m + 1), i # 0 PROVE g[i - 1] = f[i - 1]
    <3>1. i - 1 \in 0..m
      BY <2>2, <2>5
    <3> QED
      BY <2>4, <3>1
  <2> HIDE DEF S
  <2>6. g = [i \in 0..(m + 1) |-> IF i = 0 THEN 1 ELSE 2 * g[i - 1]]
    BY <2>3, <2>5
  <2> QED
    BY <2>2, <2>6 DEF S
<1> HIDE DEF S
<1>3. S = Nat
  BY <1>1, <1>2, InductionOnNat DEF S
<1> QED
  BY <1>3 DEF S

(* parse_retry_after and backoff_delay: a wait is never negative and never  *)
(* longer than the cap, whatever the header says and however often the call *)
(* was tried.                                                               *)
LEMMA WaitsAreCapped ==
  ASSUME NEW header \in RetryAfters \cup {NoHeader}, attempt \in Nat,
         NEW w \in Stream!Waits(header)
  PROVE  w \in 0..60
<1>1. CASE header = NoHeader
  <2>1. w \in Stream!Backoff(attempt)
    BY <1>1 DEF Stream!Waits
  <2>2. PICK k \in Nat : Stream!Backoff(attempt) =
          (Stream!Min({k, 30}) \div 2)..Stream!Min({k, 30})
    <3> DEFINE F(f) == f = [i \in 0..attempt |-> IF i = 0 THEN 1 ELSE 2 * f[i - 1]]
               doubled == CHOOSE f : F(f)
    <3>1. F(doubled)
      BY DoubledExists
    <3>2. doubled[attempt] \in Nat
      <4> HIDE DEF doubled
      <4> QED
        BY <3>1, DoubledIsNat
    <3>3. Stream!Backoff(attempt) = (Stream!Min({doubled[attempt], 30}) \div 2)
                                     ..Stream!Min({doubled[attempt], 30})
      BY DEF Stream!Backoff, Stream!BaseDelay, Stream!MaxDelay
    <3> QED
      BY <3>2, <3>3
  <2>3. PICK window \in 0..30 : window = Stream!Min({k, 30})
    BY MinOfTwo
  <2>4. w \in (window \div 2)..window
    BY <2>1, <2>2, <2>3
  <2>5. window \div 2 \in Int /\ window \div 2 >= 0
    OBVIOUS
  <2> QED
    BY <2>4, <2>5
<1>2. CASE header # NoHeader
  <2>1. w = Stream!ParseRetryAfter(header) /\ header \in Int
    BY <1>2, CallAssumption DEF Stream!Waits
  <2>2. w = Stream!Max({0, Stream!Min({header, 60})})
    BY <2>1 DEF Stream!ParseRetryAfter, Stream!MaxRetryAfter
  <2>3. PICK m \in Int : m = Stream!Min({header, 60}) /\ m <= 60
    BY <2>1, MinOfTwo
  <2>4. Stream!Max({0, m}) = IF 0 >= m THEN 0 ELSE m
    BY MaxOfTwo
  <2> QED
    <3>1. w = Stream!Max({0, m})
      BY <2>2, <2>3
    <3>2. w = IF 0 >= m THEN 0 ELSE m
      BY <2>4, <3>1
    <3>3. m \in Int /\ m <= 60
      BY <2>3
    <3> QED
      BY <3>2, <3>3
<1> QED
  BY <1>1, <1>2

-----------------------------------------------------------------------------
(* What holds of a call between any two of its steps.  While it is under    *)
(* way, what was shown is what this attempt has got: an attempt that showed *)
(* something is never given up for another.                                 *)
CallInv ==
  /\ adapter \in Adapters /\ {picky, known, plain} \subseteq BOOLEAN
  /\ phase \in {"idle", "request", "reading", "done", "failed", "closed"}
  /\ attempt \in 0..LastAttempt /\ calls \in 0..MaxCalls
  /\ Stream!WaitIsBounded
  /\ parts \in Seq(0..LastAttempt) /\ shown \in Seq(0..LastAttempt)
  /\ answer.text \in Seq(0..LastAttempt)
  /\ Stream!Under => shown = parts
  /\ phase = "request" => parts = <<>>
  /\ adapter = "anthropic" /\ ~plain => attempt = 0

(* The attempt that is counted, and the wait that leads to it, stay bounded *)
(* in a retry.                                                              *)
LEMMA RetryKeepsInv ==
  ASSUME CallInv, Stream!Under, NEW header \in RetryAfters \cup {NoHeader},
         Stream!RetryOrRaise(header), UNCHANGED Stream!settled
  PROVE  CallInv'
<1> USE DEF Stream!settled, Stream!Under
<1>1. CASE Stream!Raise
  BY <1>1 DEF Stream!Raise, CallInv, Stream!WaitIsBounded
<1>2. CASE Stream!Retry(header)
  <2>1. /\ parts = <<>> /\ attempt < MaxRetries /\ adapter # "anthropic"
        /\ phase' = "request" /\ parts' = <<>> /\ attempt' = attempt + 1
        /\ UNCHANGED <<plain, shown, answer, known, adapter, picky, calls>>
        /\ \E w \in Stream!Waits(header) : waited' = waited + w
    BY <1>2 DEF Stream!Retry, Stream!MayRetry, Stream!emitted, Stream!FreshAttempt
  <2>2. PICK w \in 0..60 : waited' = waited + w
    <3>1. PICK w \in Stream!Waits(header) : waited' = waited + w
      BY <2>1
    <3>2. attempt \in Nat
      BY LastAttemptIsMax DEF CallInv
    <3> QED
      BY <3>1, <3>2, WaitsAreCapped
  <2>3. attempt' \in 0..LastAttempt
    BY <2>1, LastAttemptIsMax, CallAssumption DEF CallInv
  <2>4. waited' \in 0..(attempt' * 60)
    <3>1. attempt \in Nat /\ waited \in 0..(attempt * 60)
      BY LastAttemptIsMax DEF CallInv, Stream!WaitIsBounded, Stream!MaxRetryAfter
    <3>2. (attempt + 1) * 60 = attempt * 60 + 60
      BY <3>1
    <3> QED
      BY <2>1, <2>2, <3>1, <3>2
  <2> QED
    BY <2>1, <2>3, <2>4
       DEF CallInv, Stream!WaitIsBounded, Stream!MaxRetryAfter
<1> QED
  BY <1>1, <1>2 DEF Stream!RetryOrRaise

(* Every step of a call keeps it.                                           *)
LEMMA CallInvStep ==
  ASSUME CallInv, Stream!Next
  PROVE  CallInv'
<1> USE DEF Stream!settled, Stream!Under
<1>1. CASE Stream!Begin
  BY <1>1, LastAttemptIsMax, CallAssumption
     DEF Stream!Begin, Stream!FreshAttempt, CallInv, Stream!WaitIsBounded,
         Stream!MaxRetryAfter, Stream!NoAnswer
<1>2. ASSUME NEW h \in RetryAfters \cup {NoHeader}, Stream!Busy(h) PROVE CallInv'
  BY <1>2, RetryKeepsInv DEF Stream!Busy
<1>3. CASE Stream!Breaks
  BY <1>3, RetryKeepsInv DEF Stream!Breaks
<1>4. CASE Stream!Fails
  BY <1>4 DEF Stream!Fails, Stream!Raise, CallInv, Stream!WaitIsBounded
<1>5. CASE Stream!Reject
  <2>1. /\ phase = "request" /\ ~plain /\ plain' = TRUE /\ known' = TRUE
        /\ attempt' = IF adapter = "anthropic" THEN attempt + 1 ELSE attempt
        /\ phase' = "request" /\ parts' = <<>>
        /\ UNCHANGED <<waited, shown, answer, adapter, picky, calls>>
    BY <1>5 DEF Stream!Reject, Stream!Disputes, Stream!FreshAttempt
  <2>2. attempt' \in 0..LastAttempt /\ attempt' >= attempt
    BY <2>1, LastAttemptIsMax DEF CallInv
  <2>3. waited' \in 0..(attempt' * 60)
    <3>1. attempt \in Nat /\ waited \in 0..(attempt * 60)
      BY LastAttemptIsMax DEF CallInv, Stream!WaitIsBounded, Stream!MaxRetryAfter
    <3> QED
      BY <2>1, <2>2, <3>1
  <2> QED
    BY <2>1, <2>2, <2>3 DEF CallInv, Stream!WaitIsBounded, Stream!MaxRetryAfter
<1>6. CASE Stream!Deliver
  <2>1. /\ Stream!Under /\ phase' = "reading"
        /\ parts' = Append(parts, attempt) /\ shown' = Append(shown, attempt)
        /\ UNCHANGED <<plain, attempt, waited, answer, known, adapter, picky, calls>>
    BY <1>6 DEF Stream!Deliver, Stream!Accepted
  <2>2. parts' \in Seq(0..LastAttempt) /\ shown' \in Seq(0..LastAttempt)
    BY <2>1 DEF CallInv
  <2> QED
    BY <2>1, <2>2 DEF CallInv, Stream!WaitIsBounded
<1>7. ASSUME NEW c \in Stream!Sent, Stream!SendCall(c) PROVE CallInv'
  BY <1>7 DEF Stream!SendCall, Stream!Accepted, CallInv, Stream!WaitIsBounded
<1>8. ASSUME NEW raw \in Stream!Stops, Stream!Finish(raw) PROVE CallInv'
  BY <1>8 DEF Stream!Finish, CallInv, Stream!WaitIsBounded
<1>9. CASE Stream!Close
  BY <1>9 DEF Stream!Close, CallInv, Stream!WaitIsBounded
<1> QED
  BY <1>1, <1>2, <1>3, <1>4, <1>5, <1>6, <1>7, <1>8, <1>9
     DEF Stream!Next, Stream!Progress

(* Every step of a call is one of the promise's, or changes nothing the     *)
(* consumer can see: a retry and a correction only happen before anything   *)
(* was shown, so that what the attempt forgets is nothing.                  *)
LEMMA CallStepKeepsContract ==
  ASSUME CallInv, Stream!Next
  PROVE  [Stream!Contract!Next]_(Stream!Contract!vars)
<1> USE DEF Stream!Contract!Next, Stream!Contract!vars, Stream!Under
<1>1. CASE Stream!Begin
  BY <1>1 DEF Stream!Begin, Stream!FreshAttempt, Stream!Contract!Begin, Stream!NoAnswer
<1>2. ASSUME NEW h, Stream!Under, Stream!RetryOrRaise(h)
      PROVE  [Stream!Contract!Next]_(Stream!Contract!vars)
  BY <1>2 DEF Stream!RetryOrRaise, Stream!Retry, Stream!FreshAttempt, Stream!Raise,
              Stream!Contract!Fail
<1>3. CASE Stream!Fails
  BY <1>3 DEF Stream!Fails, Stream!Raise, Stream!Contract!Fail
<1>4. CASE Stream!Reject
  BY <1>4 DEF Stream!Reject, Stream!Disputes, Stream!FreshAttempt
<1>5. CASE Stream!Deliver
  <2>1. attempt \in 0..Stream!Max({MaxRetries, 1})
    BY LastAttemptIsMax DEF CallInv
  <2> QED
    BY <1>5, <2>1 DEF Stream!Deliver, Stream!Accepted, Stream!Contract!Tell
<1>6. ASSUME NEW c \in Stream!Sent, Stream!SendCall(c)
      PROVE  [Stream!Contract!Next]_(Stream!Contract!vars)
  BY <1>6 DEF Stream!SendCall, Stream!Accepted
<1>7. ASSUME NEW raw \in Stream!Stops, Stream!Finish(raw)
      PROVE  [Stream!Contract!Next]_(Stream!Contract!vars)
  BY <1>7 DEF Stream!Finish, Stream!Accepted, CallInv, Stream!Contract!Finish
<1>8. CASE Stream!Close
  BY <1>8 DEF Stream!Close, Stream!Contract!Fail
<1> QED
  BY <1>1, <1>2, <1>3, <1>4, <1>5, <1>6, <1>7, <1>8
     DEF Stream!Next, Stream!Progress, Stream!Busy, Stream!Breaks

(* A call starts within the invariant.                                      *)
LEMMA CallInvInit ==
  ASSUME Stream!Init
  PROVE  CallInv /\ Stream!Contract!Init
<1> USE DEF Stream!Init, Stream!NoAnswer
<1>1. CallInv
  <2>1. attempt \in 0..LastAttempt /\ calls \in 0..MaxCalls
    BY LastAttemptIsMax, CallAssumption
  <2>2. Stream!WaitIsBounded
    BY DEF Stream!WaitIsBounded, Stream!MaxRetryAfter
  <2>3. <<>> \in Seq(0..LastAttempt) /\ answer.text = <<>>
    OBVIOUS
  <2> QED
    BY <2>1, <2>2, <2>3 DEF CallInv, Stream!Under
<1>2. ~Stream!Under
  BY DEF Stream!Under
<1>3. Stream!Contract!Init
  BY <1>2 DEF Stream!Contract!Init, Stream!Under
<1> QED
  BY <1>1, <1>3

(* The rest of what a step of a turn waits for does not touch a call.       *)
LEMMA CallRests ==
  ASSUME UNCHANGED streamVars
  PROVE  /\ CallInv => CallInv'
         /\ UNCHANGED Stream!Contract!vars
BY DEF streamVars, CallInv, Stream!WaitIsBounded, Stream!Under, Stream!Contract!vars

(* Whatever fails, is retried or is corrected on the way, what a call has   *)
(* shown is never taken back or shown again, its completion has the text    *)
(* that was shown, and between its attempts it waits no longer than the cap *)
(* for each.                                                                *)
THEOREM CallsKeepContract ==
  AgentsSpec => Stream!Contract!SafeSpec /\ []Stream!WaitIsBounded
<1>1. AgentsInit => CallInv /\ Stream!Contract!Init
  BY CallInvInit DEF AgentsInit
<1>2. CallInv /\ [CallSteps \/ AgentSteps \/ WorkSteps]_all
      => CallInv' /\ [Stream!Contract!Next]_(Stream!Contract!vars)
  <2> SUFFICES ASSUME CallInv, [CallSteps \/ AgentSteps \/ WorkSteps]_all
               PROVE  CallInv' /\ [Stream!Contract!Next]_(Stream!Contract!vars)
    OBVIOUS
  <2>1. CASE CallSteps
    BY <2>1, CallInvStep, CallStepKeepsContract DEF CallSteps
  <2>2. CASE AgentSteps \/ WorkSteps \/ UNCHANGED all
    BY <2>2, CallRests DEF AgentSteps, WorkSteps, all
  <2> QED
    BY <2>1, <2>2
<1>3. CallInv => Stream!WaitIsBounded
  BY DEF CallInv
<1> QED
  BY <1>1, <1>2, <1>3, PTL DEF AgentsSpec, Stream!Contract!SafeSpec

-----------------------------------------------------------------------------
(* Induction over sequences, said of the set of those that have the         *)
(* property.                                                                *)
LEMMA InductionOnSeq ==
  ASSUME NEW T, NEW A \in SUBSET Seq(T), <<>> \in A,
         \A s \in A, e \in T : Append(s, e) \in A
  PROVE  A = Seq(T)
<1> DEFINE S == {n \in Nat : \A s \in Seq(T) : Len(s) = n => s \in A}
<1>1. 0 \in S
  BY EmptySeq DEF S
<1>2. ASSUME NEW n \in S PROVE n + 1 \in S
  <2>1. SUFFICES ASSUME NEW s \in Seq(T), Len(s) = n + 1 PROVE s \in A
    BY DEF S
  <2>2. s # <<>> /\ n \in Nat
    BY <2>1
  <2>3. PICK r \in Seq(T), e \in T : s = Append(r, e)
    BY <2>2, SequenceEmptyOrAppend
  <2>4. Len(r) + 1 = n + 1 /\ Len(r) \in Nat
    BY <2>1, <2>3, AppendProperties, LenProperties
  <2>5. Len(r) = n
    BY <2>2, <2>4
  <2>6. r \in A
    BY <2>5 DEF S
  <2> QED
    BY <2>3, <2>6
<1> HIDE DEF S
<1>3. S = Nat
  BY <1>1, <1>2, InductionOnNat DEF S
<1>4. ASSUME NEW s \in Seq(T) PROVE s \in A
  <2>1. Len(s) \in S
    BY <1>3, LenProperties
  <2> QED
    BY <2>1 DEF S
<1> QED
  BY <1>4

-----------------------------------------------------------------------------
(* FlattenSeq.  Joins(ss, n, f) says that f[i] is what the first i of the   *)
(* sequences make, one after the other.                                     *)
Joins(ss, n, f) ==
  f = [i \in 1..n |-> IF i = 1 THEN ss[i] ELSE f[i - 1] \o ss[i]]

(* There is such a function.                                                *)
LEMMA JoinsExists ==
  ASSUME NEW ss, NEW n \in Nat
  PROVE  \E f : Joins(ss, n, f)
<1> DEFINE S == {m \in Nat : \E f : Joins(ss, m, f)}
<1>1. 0 \in S
  <2>1. PICK f : f = [i \in 1..0 |-> <<>>]
    OBVIOUS
  <2>2. Joins(ss, 0, f)
    BY <2>1 DEF Joins
  <2> QED
    BY <2>2
<1>2. ASSUME NEW m \in S PROVE m + 1 \in S
  <2>1. PICK f : Joins(ss, m, f)
    OBVIOUS
  <2>2. m \in Nat
    OBVIOUS
  <2>3. PICK g : g = [i \in 1..(m + 1) |-> IF i = 1 THEN ss[i] ELSE f[i - 1] \o ss[i]]
    OBVIOUS
  <2>4. ASSUME NEW i \in 1..m PROVE g[i] = f[i]
    <3>1. g[i] = IF i = 1 THEN ss[i] ELSE f[i - 1] \o ss[i]
      BY <2>2, <2>3
    <3>2. f[i] = IF i = 1 THEN ss[i] ELSE f[i - 1] \o ss[i]
      BY <2>1 DEF Joins
    <3> QED
      BY <3>1, <3>2
  <2>5. ASSUME NEW i \in 1..(m + 1), i # 1 PROVE g[i - 1] = f[i - 1]
    <3>1. i - 1 \in 1..m
      BY <2>2, <2>5
    <3> QED
      BY <2>4, <3>1
  <2> HIDE DEF S
  <2>6. Joins(ss, m + 1, g)
    BY <2>3, <2>5 DEF Joins
  <2> QED
    BY <2>2, <2>6 DEF S
<1> HIDE DEF S
<1>3. S = Nat
  BY <1>1, <1>2, InductionOnNat DEF S
<1>4. n \in S
  BY <1>3
<1> QED
  BY <1>4 DEF S

(* Where two lists of sequences agree, so do the functions.                 *)
LEMMA JoinsAgree ==
  ASSUME NEW ss, NEW tt, NEW n \in Nat, NEW m \in Nat, n <= m,
         NEW f, NEW g, Joins(ss, n, f), Joins(tt, m, g),
         \A i \in 1..n : ss[i] = tt[i]
  PROVE  \A i \in 1..n : f[i] = g[i]
<1> DEFINE S == {i \in Nat : i \in 1..n => f[i] = g[i]}
<1>1. 0 \in S
  OBVIOUS
<1>2. ASSUME NEW i \in S PROVE i + 1 \in S
  <2>1. SUFFICES ASSUME i + 1 \in 1..n PROVE f[i + 1] = g[i + 1]
    OBVIOUS
  <2>2. i \in Nat /\ i + 1 \in 1..m /\ ss[i + 1] = tt[i + 1] /\ (i + 1) - 1 = i
    BY <2>1
  <2>3. CASE i = 0
    BY <2>1, <2>2, <2>3 DEF Joins
  <2>4. CASE i # 0
    <3>1. i \in 1..n /\ i + 1 # 1
      BY <2>1, <2>2, <2>4
    <3>2. f[i] = g[i]
      BY <3>1
    <3>3. f[i + 1] = f[(i + 1) - 1] \o ss[i + 1]
      BY <2>1, <3>1 DEF Joins
    <3>4. g[i + 1] = g[(i + 1) - 1] \o tt[i + 1]
      BY <2>2, <3>1 DEF Joins
    <3> QED
      BY <2>2, <3>2, <3>3, <3>4
  <2> QED
    BY <2>3, <2>4
<1> HIDE DEF S
<1>3. S = Nat
  BY <1>1, <1>2, InductionOnNat DEF S
<1>4. \A i \in 1..n : i \in S
  BY <1>3
<1> QED
  BY <1>4 DEF S

(* The function for one sequence more.                                      *)
OneMore(ss, n, tt, m) == n # 0 /\ m = n + 1 /\ \A i \in 1..n : ss[i] = tt[i]

(* Two sequences of lists that agree up to n join to the same lines as far as*)
(* n, if the second only has one list more.                                 *)
LEMMA JoinsStep ==
  ASSUME NEW ss, NEW tt, NEW n \in Nat, NEW m \in Nat,
         NEW f, NEW g, Joins(ss, n, f), Joins(tt, m, g), OneMore(ss, n, tt, m)
  PROVE  f[n] = g[n]
<1>1. n <= m /\ \A i \in 1..n : ss[i] = tt[i]
  BY DEF OneMore
<1>2. \A i \in 1..n : f[i] = g[i]
  BY <1>1, JoinsAgree
<1>3. n \in 1..n
  BY DEF OneMore
<1> QED
  BY <1>2, <1>3

(* FlattenSeq of a list is what such a function has at the end of it.       *)
LEMMA FlattenIsJoined ==
  ASSUME NEW S, NEW ss \in Seq(S), ss # <<>>
  PROVE  \E f : Joins(ss, Len(ss), f) /\ Work!FlattenSeq(ss) = f[Len(ss)]
<1> DEFINE flatten == CHOOSE f : Joins(ss, Len(ss), f)
<1>1. Len(ss) \in Nat /\ Len(ss) # 0
  BY EmptySeq
<1>2. Joins(ss, Len(ss), flatten)
  BY <1>1, JoinsExists
<1>3. Work!FlattenSeq(ss) = flatten[Len(ss)]
  BY <1>1 DEF Work!FlattenSeq, Joins
<1> QED
  BY <1>2, <1>3

(* FlattenSeq, sequence by sequence.                                        *)
LEMMA FlattenAppend ==
  ASSUME NEW T, NEW ss \in Seq(Seq(T)), NEW t \in Seq(T)
  PROVE  /\ Work!FlattenSeq(<<>>) = <<>>
         /\ Work!FlattenSeq(Append(ss, t)) =
              IF ss = <<>> THEN t ELSE Work!FlattenSeq(ss) \o t
<1>1. Work!FlattenSeq(<<>>) = <<>>
  BY EmptySeq DEF Work!FlattenSeq
<1>2. PICK tt \in Seq(Seq(T)) : tt = Append(ss, t)
  BY AppendProperties
<1>3. PICK n \in Nat : n = Len(ss)
  BY LenProperties
<1>4. tt # <<>> /\ Len(tt) = n + 1 /\ tt[n + 1] = t /\ \A i \in 1..n : tt[i] = ss[i]
  BY <1>2, <1>3, AppendProperties
<1>5. PICK g : Joins(tt, n + 1, g) /\ Work!FlattenSeq(tt) = g[n + 1]
  BY <1>4, FlattenIsJoined
<1>6. CASE ss = <<>>
  <2>1. n = 0
    BY <1>3, <1>6, EmptySeq
  <2>2. g[1] = t
    BY <1>4, <1>5, <2>1 DEF Joins
  <2> QED
    BY <1>1, <1>2, <1>5, <1>6, <2>1, <2>2
<1>7. CASE ss # <<>>
  <2>1. n # 0 /\ n \in 1..n /\ n + 1 # 1 /\ n + 1 \in 1..(n + 1) /\ (n + 1) - 1 = n
    BY <1>3, <1>7, EmptySeq
  <2>2. PICK f : Joins(ss, n, f) /\ Work!FlattenSeq(ss) = f[n]
    BY <1>3, <1>7, FlattenIsJoined
  <2>3. PICK m \in Nat : m = n + 1
    OBVIOUS
  <2>4. OneMore(ss, n, tt, m)
    BY <1>4, <2>1, <2>3 DEF OneMore
  <2>5. Joins(ss, n, f) /\ Joins(tt, m, g)
    BY <1>5, <2>2, <2>3
  <2>6. f[n] = g[n]
    BY <2>4, <2>5, JoinsStep
  <2>7. g[n + 1] = g[n] \o t
    BY <1>4, <1>5, <2>1 DEF Joins
  <2> QED
    BY <1>1, <1>2, <1>4, <1>5, <1>7, <2>2, <2>6, <2>7
<1> QED
  BY <1>6, <1>7

(* What it makes of sequences over a set is a sequence over that set.       *)
LEMMA FlattenType ==
  ASSUME NEW T, NEW ss \in Seq(Seq(T))
  PROVE  Work!FlattenSeq(ss) \in Seq(T)
<1> DEFINE A == {s \in Seq(Seq(T)) : Work!FlattenSeq(s) \in Seq(T)}
<1>1. <<>> \in A
  <2>1. <<>> \in Seq(T) /\ <<>> \in Seq(Seq(T))
    OBVIOUS
  <2> QED
    BY <2>1, FlattenAppend
<1>2. ASSUME NEW s \in A, NEW t \in Seq(T) PROVE Append(s, t) \in A
  <2>1. /\ s \in Seq(Seq(T)) /\ Work!FlattenSeq(s) \in Seq(T)
        /\ Append(s, t) \in Seq(Seq(T))
    BY AppendProperties
  <2>2. Work!FlattenSeq(s) \o t \in Seq(T)
    BY <2>1, ConcatProperties
  <2>3. Work!FlattenSeq(Append(s, t)) \in Seq(T)
    BY <2>1, <2>2, FlattenAppend
  <2> QED
    BY <2>1, <2>3
<1> HIDE DEF A
<1>3. A = Seq(Seq(T))
  BY <1>1, <1>2, InductionOnSeq DEF A
<1> QED
  BY <1>3 DEF A

-----------------------------------------------------------------------------
(* Cat is concatenation, by a name the provers do not take apart.           *)
Cat(s, t) == s \o t

(* It is associative, and the empty sequence adds nothing.                  *)
LEMMA CatProperties ==
  ASSUME NEW T, NEW s \in Seq(T), NEW t \in Seq(T), NEW u \in Seq(T)
  PROVE  /\ Cat(s, t) \in Seq(T)
         /\ Cat(<<>>, s) = s /\ Cat(s, <<>>) = s
         /\ Cat(Cat(s, t), u) = Cat(s, Cat(t, u))
<1>1. s \o t \in Seq(T)
  BY ConcatProperties
<1>2. <<>> \o s = s /\ s \o <<>> = s
  BY ConcatEmptySeq
<1>3. (s \o t) \o u = s \o (t \o u)
  BY ConcatAssociative
<1> QED
  BY <1>1, <1>2, <1>3 DEF Cat

(* What is appended to the second is appended to both.                      *)
LEMMA CatAppend ==
  ASSUME NEW T, NEW s \in Seq(T), NEW t \in Seq(T), NEW e \in T
  PROVE  Cat(s, Append(t, e)) = Append(Cat(s, t), e)
<1>0. <<e>> \in Seq(T)
  OBVIOUS
<1>1. PICK u \in Seq(T) : u = <<e>>
  BY <1>0
<1>2. Append(t, e) = Cat(t, u)
  BY <1>1, AppendIsConcat DEF Cat
<1>3. Append(Cat(s, t), e) = Cat(Cat(s, t), u)
  BY <1>1, CatProperties, AppendIsConcat DEF Cat
<1>4. Cat(Cat(s, t), u) = Cat(s, Cat(t, u))
  BY CatProperties
<1> QED
  BY <1>2, <1>3, <1>4

(* FlattenSeq, one sequence more.                                           *)
LEMMA FlattenStep ==
  ASSUME NEW T, NEW ss \in Seq(Seq(T)), NEW t \in Seq(T)
  PROVE  Work!FlattenSeq(Append(ss, t)) = Cat(Work!FlattenSeq(ss), t)
<1>1. Work!FlattenSeq(<<>>) = <<>>
  BY FlattenAppend
<1>2. CASE ss = <<>>
  BY <1>1, <1>2, FlattenAppend, CatProperties
<1>3. CASE ss # <<>>
  <2>1. Work!FlattenSeq(Append(ss, t)) = Work!FlattenSeq(ss) \o t
    BY <1>3, FlattenAppend
  <2> QED
    BY <2>1 DEF Cat
<1> QED
  BY <1>2, <1>3

-----------------------------------------------------------------------------
(* The lines an edit leaves alone.                                          *)
Kept(l, E) == IF l.text \in E THEN <<>> ELSE <<l>>
Unaffected(lines, E) == Work!FlattenSeq([i \in DOMAIN lines |-> Kept(lines[i], E)])

(* They are lines.                                                          *)
LEMMA UnaffectedType ==
  ASSUME NEW E, NEW s \in Seq(Work!Line)
  PROVE  /\ [i \in DOMAIN s |-> Kept(s[i], E)] \in Seq(Seq(Work!Line))
         /\ Unaffected(s, E) \in Seq(Work!Line)
<1>1. ASSUME NEW i \in DOMAIN s PROVE Kept(s[i], E) \in Seq(Work!Line)
  <2>1. s[i] \in Work!Line
    BY ElementOfSeq, LenProperties
  <2>2. <<>> \in Seq(Work!Line) /\ <<s[i]>> \in Seq(Work!Line)
    BY <2>1
  <2> QED
    BY <2>2 DEF Kept
<1>2. [i \in DOMAIN s |-> Kept(s[i], E)] \in Seq(Seq(Work!Line))
  <2>1. DOMAIN s = 1..Len(s) /\ Len(s) \in Nat
    BY LenProperties
  <2> QED
    BY <1>1, <2>1
<1> QED
  BY <1>2, FlattenType DEF Unaffected

(* Of an empty text there are none.                                         *)
LEMMA UnaffectedEmpty ==
  ASSUME NEW E
  PROVE  Unaffected(<<>>, E) = <<>>
<1>1. [i \in DOMAIN <<>> |-> Kept(<<>>[i], E)] = <<>>
  OBVIOUS
<1>2. Work!FlattenSeq(<<>>) = <<>>
  BY FlattenAppend, EmptySeq
<1> QED
  BY <1>1, <1>2 DEF Unaffected

(* Line by line.                                                            *)
LEMMA UnaffectedStep ==
  ASSUME NEW E, NEW s \in Seq(Work!Line), NEW l \in Work!Line
  PROVE  Unaffected(Append(s, l), E) = Cat(Unaffected(s, E), Kept(l, E))
<1> DEFINE ks == [i \in DOMAIN s |-> Kept(s[i], E)]
           a  == Append(s, l)
           ka == [i \in DOMAIN a |-> Kept(a[i], E)]
<1>1. ks \in Seq(Seq(Work!Line)) /\ ka \in Seq(Seq(Work!Line))
  BY UnaffectedType, AppendProperties
<1>2. Kept(l, E) \in Seq(Work!Line)
  <2>1. <<>> \in Seq(Work!Line) /\ <<l>> \in Seq(Work!Line)
    OBVIOUS
  <2> QED
    BY <2>1 DEF Kept
<1>3. /\ a \in Seq(Work!Line) /\ DOMAIN s = 1..Len(s) /\ Len(s) \in Nat
      /\ DOMAIN a = 1..(Len(s) + 1)
      /\ a[Len(s) + 1] = l /\ \A i \in 1..Len(s) : a[i] = s[i]
  BY AppendProperties, LenProperties
<1>4. Len(ks) = Len(s)
  BY <1>3
<1> DEFINE b == Append(ks, Kept(l, E))
<1>5. b \in Seq(Seq(Work!Line)) /\ DOMAIN b = 1..(Len(s) + 1)
      /\ b[Len(s) + 1] = Kept(l, E) /\ \A i \in 1..Len(s) : b[i] = ks[i]
  <2> HIDE DEF ks
  <2> QED
    BY <1>1, <1>2, <1>4, AppendProperties, LenProperties
<1>6. ASSUME NEW i \in 1..(Len(s) + 1) PROVE ka[i] = b[i]
  <2>1. CASE i \in 1..Len(s)
    BY <1>3, <1>5, <2>1
  <2>2. CASE i = Len(s) + 1
    BY <1>3, <1>5, <2>2
  <2> QED
    BY <1>3, <2>1, <2>2
<1>7. ka = b
  <2>1. DOMAIN ka = 1..(Len(s) + 1)
    BY <1>3
  <2>2. Len(ka) = Len(b)
    <3> HIDE DEF ka, b
    <3> QED
      BY <1>1, <1>3, <1>5, <2>1, LenProperties
  <2>3. 1..Len(ka) = 1..(Len(s) + 1)
    <3> HIDE DEF ka, b
    <3> QED
      BY <1>1, <1>3, <2>1, LenProperties
  <2> HIDE DEF ka, b
  <2> QED
    BY <1>1, <1>5, <1>6, <2>2, <2>3, SeqEqual
<1>8. Work!FlattenSeq(b) = Cat(Work!FlattenSeq(ks), Kept(l, E))
  <2> HIDE DEF ks
  <2> QED
    BY <1>1, <1>2, FlattenStep
<1> QED
  BY <1>7, <1>8 DEF Unaffected

(* Of two texts one after the other, those of the one and of the other.     *)
LEMMA UnaffectedCat ==
  ASSUME NEW E, NEW s \in Seq(Work!Line), NEW t \in Seq(Work!Line)
  PROVE  Unaffected(Cat(s, t), E) = Cat(Unaffected(s, E), Unaffected(t, E))
<1> DEFINE A == {u \in Seq(Work!Line) :
                   Unaffected(Cat(s, u), E) = Cat(Unaffected(s, E), Unaffected(u, E))}
<1>1. <<>> \in A
  <2>1. <<>> \in Seq(Work!Line)
    OBVIOUS
  <2>2. Unaffected(<<>>, E) = <<>> /\ Unaffected(s, E) \in Seq(Work!Line)
    BY UnaffectedEmpty, UnaffectedType
  <2>3. Cat(s, <<>>) = s /\ Cat(Unaffected(s, E), <<>>) = Unaffected(s, E)
    BY <2>2, CatProperties
  <2> QED
    BY <2>1, <2>2, <2>3
<1>2. ASSUME NEW u \in A, NEW l \in Work!Line PROVE Append(u, l) \in A
  <2>1. u \in Seq(Work!Line) /\ Append(u, l) \in Seq(Work!Line)
    BY AppendProperties
  <2>2. Kept(l, E) \in Seq(Work!Line)
    <3>1. <<>> \in Seq(Work!Line) /\ <<l>> \in Seq(Work!Line)
      OBVIOUS
    <3> QED
      BY <3>1 DEF Kept
  <2>3. Cat(s, Append(u, l)) = Append(Cat(s, u), l) /\ Cat(s, u) \in Seq(Work!Line)
    BY <2>1, CatAppend, CatProperties
  <2>4. Unaffected(Append(Cat(s, u), l), E) = Cat(Unaffected(Cat(s, u), E), Kept(l, E))
    BY <2>3, UnaffectedStep
  <2>5. Unaffected(Cat(s, u), E) = Cat(Unaffected(s, E), Unaffected(u, E))
    OBVIOUS
  <2>6. Unaffected(s, E) \in Seq(Work!Line) /\ Unaffected(u, E) \in Seq(Work!Line)
    BY <2>1, UnaffectedType
  <2>7. Cat(Cat(Unaffected(s, E), Unaffected(u, E)), Kept(l, E))
        = Cat(Unaffected(s, E), Cat(Unaffected(u, E), Kept(l, E)))
    BY <2>2, <2>6, CatProperties
  <2>8. Unaffected(Append(u, l), E) = Cat(Unaffected(u, E), Kept(l, E))
    BY <2>1, UnaffectedStep
  <2> QED
    BY <2>1, <2>3, <2>4, <2>5, <2>7, <2>8
<1> HIDE DEF A
<1>3. A = Seq(Work!Line)
  BY <1>1, <1>2, InductionOnSeq DEF A
<1>4. t \in A
  BY <1>3
<1> QED
  BY <1>4 DEF A

(* Lists of texts that leave the same alone, text by text, leave the same   *)
(* alone.                                                                   *)
SameRest(E, ss, tt) ==
  /\ Len(ss) = Len(tt)
  /\ \A i \in 1..Len(ss) : Unaffected(ss[i], E) = Unaffected(tt[i], E)

(* Joining keeps what an edit leaves alone: if the lists agree on it one by *)
(* one, their joins agree.                                                  *)
LEMMA FlattenKeeps ==
  ASSUME NEW E, NEW ss \in Seq(Seq(Work!Line)), NEW tt \in Seq(Seq(Work!Line)),
         SameRest(E, ss, tt)
  PROVE  Unaffected(Work!FlattenSeq(ss), E) = Unaffected(Work!FlattenSeq(tt), E)
<1> DEFINE A == {us \in Seq(Seq(Work!Line)) : \A vs \in Seq(Seq(Work!Line)) :
                   SameRest(E, us, vs)
                   => Unaffected(Work!FlattenSeq(us), E) = Unaffected(Work!FlattenSeq(vs), E)}
<1>1. <<>> \in A
  <2>1. <<>> \in Seq(Seq(Work!Line))
    OBVIOUS
  <2>2. ASSUME NEW vs \in Seq(Seq(Work!Line)), SameRest(E, <<>>, vs) PROVE vs = <<>>
    BY <2>2, EmptySeq DEF SameRest
  <2> QED
    BY <2>1, <2>2
<1>2. ASSUME NEW us \in A, NEW u \in Seq(Work!Line) PROVE Append(us, u) \in A
  <2>1. us \in Seq(Seq(Work!Line)) /\ Append(us, u) \in Seq(Seq(Work!Line))
    BY AppendProperties
  <2>2. ASSUME NEW ws \in Seq(Seq(Work!Line)), SameRest(E, Append(us, u), ws)
        PROVE  Unaffected(Work!FlattenSeq(Append(us, u)), E)
               = Unaffected(Work!FlattenSeq(ws), E)
    <3>1. PICK n \in Nat : n = Len(us)
      BY <2>1, LenProperties
    <3>2. Len(ws) = n + 1 /\ ws # <<>>
      BY <2>1, <2>2, <3>1, AppendProperties, EmptySeq DEF SameRest
    <3>3. PICK vs \in Seq(Seq(Work!Line)), v \in Seq(Work!Line) : ws = Append(vs, v)
      BY <3>2, SequenceEmptyOrAppend
    <3>4. Len(vs) = n
      BY <3>1, <3>2, <3>3, AppendProperties, LenProperties
    <3>5. /\ Append(us, u)[n + 1] = u /\ \A i \in 1..n : Append(us, u)[i] = us[i]
          /\ Append(vs, v)[n + 1] = v /\ \A i \in 1..n : Append(vs, v)[i] = vs[i]
      BY <2>1, <3>1, <3>4, AppendProperties
    <3>6. \A i \in 1..(n + 1) :
            Unaffected(Append(us, u)[i], E) = Unaffected(Append(vs, v)[i], E)
      <4>1. Len(Append(us, u)) = n + 1
        BY <2>1, <3>1, AppendProperties
      <4> QED
        BY <2>2, <3>3, <4>1 DEF SameRest
    <3>7. Unaffected(u, E) = Unaffected(v, E)
      <4>1. n + 1 \in 1..(n + 1)
        OBVIOUS
      <4> QED
        BY <3>5, <3>6, <4>1
    <3>8. SameRest(E, us, vs)
      <4>1. ASSUME NEW i \in 1..n PROVE Unaffected(us[i], E) = Unaffected(vs[i], E)
        <5>1. i \in 1..(n + 1)
          OBVIOUS
        <5> QED
          BY <3>5, <3>6, <5>1
      <4> QED
        BY <3>1, <3>4, <4>1 DEF SameRest
    <3>9. Unaffected(Work!FlattenSeq(us), E) = Unaffected(Work!FlattenSeq(vs), E)
      BY <3>8
    <3>10. /\ Work!FlattenSeq(Append(us, u)) = Cat(Work!FlattenSeq(us), u)
           /\ Work!FlattenSeq(Append(vs, v)) = Cat(Work!FlattenSeq(vs), v)
      BY <2>1, FlattenStep
    <3>11. /\ Unaffected(Cat(Work!FlattenSeq(us), u), E)
              = Cat(Unaffected(Work!FlattenSeq(us), E), Unaffected(u, E))
           /\ Unaffected(Cat(Work!FlattenSeq(vs), v), E)
              = Cat(Unaffected(Work!FlattenSeq(vs), E), Unaffected(v, E))
      BY <2>1, FlattenType, UnaffectedCat
    <3> QED
      BY <3>3, <3>7, <3>9, <3>10, <3>11
  <2> HIDE DEF A
  <2> QED
    BY <2>1, <2>2 DEF A
<1> HIDE DEF A
<1>3. A = Seq(Seq(Work!Line))
  BY <1>1, <1>2, InductionOnSeq DEF A
<1>4. ss \in A
  BY <1>3
<1> QED
  BY <1>4 DEF A

(* Where nothing is affected, all of the text is left alone.                *)
LEMMA UnaffectedAll ==
  ASSUME NEW s \in Seq(Work!Line)
  PROVE  Unaffected(s, {}) = s
<1> DEFINE A == {u \in Seq(Work!Line) : Unaffected(u, {}) = u}
<1>1. <<>> \in A
  BY UnaffectedEmpty
<1>2. ASSUME NEW u \in A, NEW l \in Work!Line PROVE Append(u, l) \in A
  <2>1. u \in Seq(Work!Line) /\ Append(u, l) \in Seq(Work!Line) /\ Unaffected(u, {}) = u
    BY AppendProperties
  <2>2. Unaffected(Append(u, l), {}) = Cat(u, <<l>>)
    BY <2>1, UnaffectedStep DEF Kept
  <2>3. Cat(u, <<l>>) = Append(u, l)
    BY <2>1, AppendIsConcat DEF Cat
  <2> QED
    BY <2>1, <2>2, <2>3
<1> HIDE DEF A
<1>3. A = Seq(Work!Line)
  BY <1>1, <1>2, InductionOnSeq DEF A
<1> QED
  BY <1>3 DEF A

(* Where everything is affected, nothing is left alone.                     *)
LEMMA UnaffectedNone ==
  ASSUME NEW E, NEW s \in Seq({l \in Work!Line : l.text \in E})
  PROVE  Unaffected(s, E) = <<>>
<1> DEFINE L == {l \in Work!Line : l.text \in E}
           A == {u \in Seq(L) : Unaffected(u, E) = <<>>}
<1>1. <<>> \in A
  BY UnaffectedEmpty
<1>2. ASSUME NEW u \in A, NEW l \in L PROVE Append(u, l) \in A
  <2>1. u \in Seq(L) /\ Append(u, l) \in Seq(L) /\ Unaffected(u, E) = <<>>
    BY AppendProperties
  <2>2. u \in Seq(Work!Line) /\ l \in Work!Line
    BY <2>1, SeqMonotonic
  <2>3. Unaffected(Append(u, l), E) = Cat(<<>>, <<>>)
    BY <2>1, <2>2, UnaffectedStep DEF Kept
  <2>4. Cat(<<>>, <<>>) = <<>>
    BY DEF Cat
  <2> QED
    BY <2>1, <2>3, <2>4
<1> HIDE DEF A
<1>3. A = Seq(L)
  BY <1>1, <1>2, InductionOnSeq DEF A
<1> QED
  BY <1>3 DEF A

-----------------------------------------------------------------------------
(* What str.replace makes of the i-th line.                                 *)
Hit(lines, old, every, i) ==
  i \in Work!Found(lines, old) /\ (every \/ \A j \in Work!Found(lines, old) : i <= j)
Inserted(new, l) ==
  Append(Work!Ended(Work!Front(new), "lf"), [text |-> Work!Last(new), end |-> l.end])
Pieces(lines, old, new, every) ==
  [i \in DOMAIN lines |->
    IF Hit(lines, old, every, i) THEN Inserted(new, lines[i]) ELSE <<lines[i]>>]

(* Where something is sought, the replaced text is made of these.           *)
LEMMA ReplacedInPieces ==
  ASSUME NEW lines, NEW old, NEW new, NEW every, old # Work!Empty
  PROVE  Work!Replaced(lines, old, new, every)
         = Work!FlattenSeq(Pieces(lines, old, new, every))
BY DEF Work!Replaced, Pieces, Hit, Inserted

(* Lines with one ending.                                                   *)
LinesEnding(end) == {l \in Work!Line : l.end = end}

(* The text of an edit, with one ending in each line.                       *)
LEMMA EndedType ==
  ASSUME NEW tokens \in Seq(Tokens), NEW end \in {"lf", "crlf"}
  PROVE  /\ Work!Ended(tokens, end) \in Seq(LinesEnding(end))
         /\ Work!Ended(tokens, end) \in Seq(Work!Line)
         /\ DOMAIN Work!Ended(tokens, end) = DOMAIN tokens
         /\ Len(Work!Ended(tokens, end)) = Len(tokens)
         /\ Work!Texts(Work!Ended(tokens, end)) = tokens
<1> DEFINE e == [i \in DOMAIN tokens |-> [text |-> tokens[i], end |-> end]]
<1>1. DOMAIN tokens = 1..Len(tokens) /\ Len(tokens) \in Nat
  BY LenProperties
<1>2. ASSUME NEW i \in DOMAIN tokens
      PROVE  [text |-> tokens[i], end |-> end] \in LinesEnding(end)
  <2>1. tokens[i] \in Tokens
    BY <1>1, ElementOfSeq
  <2> QED
    BY <2>1 DEF Work!Line, LinesEnding
<1>3. e \in Seq(LinesEnding(end))
  BY <1>1, <1>2
<1>4. e \in Seq(Work!Line)
  <2> HIDE DEF e
  <2> QED
    BY <1>3, SeqMonotonic DEF LinesEnding
<1>5. DOMAIN e = DOMAIN tokens /\ Len(e) = Len(tokens)
  BY <1>1
<1>6. [i \in DOMAIN e |-> e[i].text] = tokens
  BY <1>1
<1> QED
  BY <1>3, <1>4, <1>5, <1>6 DEF Work!Ended, Work!Texts

(* The texts of lines.                                                      *)
LEMMA TextsType ==
  ASSUME NEW lines \in Seq(Work!Line)
  PROVE  /\ Work!Texts(lines) \in Seq(Tokens)
         /\ DOMAIN Work!Texts(lines) = DOMAIN lines
         /\ Len(Work!Texts(lines)) = Len(lines)
<1> DEFINE t == [i \in DOMAIN lines |-> lines[i].text]
<1>1. DOMAIN lines = 1..Len(lines) /\ Len(lines) \in Nat
  BY LenProperties
<1>2. ASSUME NEW i \in DOMAIN lines PROVE lines[i].text \in Tokens
  <2>1. lines[i] \in Work!Line
    BY <1>1, ElementOfSeq
  <2> QED
    BY <2>1 DEF Work!Line
<1>3. t \in Seq(Tokens) /\ DOMAIN t = DOMAIN lines /\ Len(t) = Len(lines)
  BY <1>1, <1>2
<1> QED
  BY <1>3 DEF Work!Texts

(* What is inserted for a line has the texts of the edit, and the ending of *)
(* that line where the text inserted before it has it.                      *)
LEMMA InsertedType ==
  ASSUME NEW new \in Seq(Tokens), new # <<>>, NEW l \in Work!Line
  PROVE  /\ Inserted(new, l) \in Seq({k \in Work!Line : k.text \in Work!ToSet(new)})
         /\ Inserted(new, l) \in Seq(Work!Line)
         /\ l.end = "lf" => Inserted(new, l) \in Seq(LinesEnding("lf"))
<1> DEFINE K == {k \in Work!Line : k.text \in Work!ToSet(new)}
           f == Work!Front(new)
           z == [text |-> Work!Last(new), end |-> l.end]
<1>1. /\ DOMAIN new = 1..Len(new) /\ Len(new) \in Nat \ {0}
  BY LenProperties, EmptySeq
<1>2. Work!Last(new) \in Tokens /\ Work!Last(new) \in Work!ToSet(new)
  BY <1>1, ElementOfSeq DEF Work!Last, Work!ToSet
<1>3. f \in Seq(Tokens) /\ \A i \in DOMAIN f : f[i] \in Work!ToSet(new)
  <2>1. f = SubSeq(new, 1, Len(new) - 1)
    BY DEF Work!Front
  <2>2. \A i \in 1..(Len(new) - 1) : new[i] \in Tokens /\ new[i] \in Work!ToSet(new)
    BY <1>1, ElementOfSeq DEF Work!ToSet
  <2>3. SubSeq(new, 1, Len(new) - 1) \in Seq(Tokens)
    BY <1>1, <2>2, SubSeqProperties
  <2>4. SubSeq(new, 1, Len(new) - 1) \in Seq(Work!ToSet(new))
    BY <1>1, <2>2, SubSeqProperties
  <2> QED
    BY <2>1, <2>3, <2>4, ElementOfSeq, LenProperties
<1>4. z \in K /\ z \in Work!Line /\ z.end = l.end
  BY <1>2 DEF Work!Line
<1> HIDE DEF f, z
<1>5. Work!Ended(f, "lf") \in Seq(LinesEnding("lf"))
  BY <1>3, EndedType
<1>6. Work!Ended(f, "lf") \in Seq(K)
  <2>1. Work!Ended(f, "lf") \in Seq(Work!Line) /\ DOMAIN Work!Ended(f, "lf") = DOMAIN f
    BY <1>3, EndedType
  <2>2. ASSUME NEW i \in DOMAIN f PROVE Work!Ended(f, "lf")[i] \in K
    <3>1. Work!Ended(f, "lf")[i] \in Work!Line
      BY <2>1, ElementOfSeq, LenProperties
    <3>2. Work!Ended(f, "lf")[i].text = f[i]
      BY DEF Work!Ended
    <3> QED
      BY <1>3, <3>1, <3>2
  <2>3. DOMAIN f = 1..Len(f) /\ Len(f) \in Nat
    BY <1>3, LenProperties
  <2>4. Len(Work!Ended(f, "lf")) = Len(f)
    BY <1>3, EndedType
  <2>5. PICK e \in Seq(Work!Line) : e = Work!Ended(f, "lf")
    BY <2>1
  <2>6. e \in [1..Len(f) -> Work!Line] /\ \A i \in 1..Len(f) : e[i] \in K
    BY <2>2, <2>3, <2>4, <2>5, LenProperties
  <2>7. e \in [1..Len(f) -> K]
    BY <2>6
  <2>8. e \in Seq(K)
    BY <2>3, <2>7, SeqDef
  <2> QED
    BY <2>5, <2>8
<1>7. Append(Work!Ended(f, "lf"), z) \in Seq(K)
  BY <1>4, <1>6, AppendProperties
<1>8. l.end = "lf" => Append(Work!Ended(f, "lf"), z) \in Seq(LinesEnding("lf"))
  <2> SUFFICES ASSUME l.end = "lf"
               PROVE  Append(Work!Ended(f, "lf"), z) \in Seq(LinesEnding("lf"))
    OBVIOUS
  <2>1. z \in LinesEnding("lf")
    BY <1>4 DEF LinesEnding
  <2> QED
    BY <1>5, <2>1, AppendProperties
<1>9. Append(Work!Ended(f, "lf"), z) \in Seq(Work!Line)
  <2> K \subseteq Work!Line
    OBVIOUS
  <2> HIDE DEF K
  <2> QED
    BY <1>7, SeqMonotonic
<1> QED
  BY <1>7, <1>8, <1>9 DEF Inserted, f, z

(* The pieces are texts, and those of lines that end in "lf" end in "lf".   *)
LEMMA PiecesType ==
  ASSUME NEW L \in SUBSET Work!Line, NEW lines \in Seq(L), NEW old, NEW every,
         NEW new \in Seq(Tokens), new # <<>>,
         \A l \in L : Inserted(new, l) \in Seq(L)
  PROVE  /\ Pieces(lines, old, new, every) \in Seq(Seq(L))
         /\ Len(Pieces(lines, old, new, every)) = Len(lines)
<1> DEFINE p == [i \in DOMAIN lines |->
                   IF Hit(lines, old, every, i) THEN Inserted(new, lines[i]) ELSE <<lines[i]>>]
<1>1. DOMAIN lines = 1..Len(lines) /\ Len(lines) \in Nat
  BY LenProperties
<1>2. ASSUME NEW i \in DOMAIN lines PROVE p[i] \in Seq(L)
  <2>1. lines[i] \in L
    BY <1>1, ElementOfSeq
  <2>2. Inserted(new, lines[i]) \in Seq(L) /\ <<lines[i]>> \in Seq(L)
    BY <2>1
  <2> QED
    BY <2>2
<1>3. p \in Seq(Seq(L)) /\ Len(p) = Len(lines)
  <2>1. p \in Seq(Seq(L)) /\ DOMAIN p = 1..Len(lines)
    BY <1>1, <1>2
  <2> HIDE DEF p
  <2> QED
    BY <1>1, <2>1, LenProperties
<1> QED
  BY <1>3 DEF Pieces

(* The lines an edit leaves alone are in the result as they were in the     *)
(* text, and the result of an edit of lines that end in "lf" is of such     *)
(* lines.                                                                   *)
LEMMA ReplacedKeeps ==
  ASSUME NEW lines \in Seq(Work!Line), NEW old, old # Work!Empty, NEW every,
         NEW new \in Seq(Tokens), new # <<>>,
         NEW E, old \in E, Work!ToSet(new) \subseteq E
  PROVE  /\ Work!Replaced(lines, old, new, every) \in Seq(Work!Line)
         /\ lines \in Seq(LinesEnding("lf"))
            => Work!Replaced(lines, old, new, every) \in Seq(LinesEnding("lf"))
         /\ Unaffected(Work!Replaced(lines, old, new, every), E) = Unaffected(lines, E)
<1> DEFINE p == Pieces(lines, old, new, every)
           single == [i \in DOMAIN lines |-> Kept(lines[i], {})]
<1>1. Work!Replaced(lines, old, new, every) = Work!FlattenSeq(p)
  BY ReplacedInPieces
<1>2. p \in Seq(Seq(Work!Line)) /\ Len(p) = Len(lines)
  <2>1. \A l \in Work!Line : Inserted(new, l) \in Seq(Work!Line)
    BY InsertedType
  <2> HIDE DEF p
  <2>2. Work!Line \in SUBSET Work!Line
    OBVIOUS
  <2> QED
    BY <2>1, <2>2, PiecesType DEF p
<1>3. lines \in Seq(LinesEnding("lf"))
      => p \in Seq(Seq(LinesEnding("lf")))
  <2> DEFINE L == LinesEnding("lf")
  <2>1. \A l \in L : Inserted(new, l) \in Seq(L)
    BY InsertedType DEF LinesEnding
  <2>2. L \in SUBSET Work!Line
    BY DEF LinesEnding
  <2> HIDE DEF L
  <2>3. lines \in Seq(L) => p \in Seq(Seq(L))
    BY <2>1, <2>2, PiecesType
  <2> QED
    BY <2>3 DEF L
<1>4. single \in Seq(Seq(Work!Line)) /\ Len(single) = Len(lines)
  <2>1. DOMAIN single = 1..Len(lines) /\ Len(lines) \in Nat
    BY LenProperties
  <2>2. single \in Seq(Seq(Work!Line))
    BY UnaffectedType
  <2> HIDE DEF single
  <2> QED
    BY <2>1, <2>2, LenProperties
<1>5. Work!FlattenSeq(single) = lines
  BY UnaffectedAll DEF Unaffected
<1>6. ASSUME NEW i \in 1..Len(lines)
      PROVE  Unaffected(p[i], E) = Unaffected(single[i], E)
  <2>1. i \in DOMAIN lines /\ lines[i] \in Work!Line
    BY ElementOfSeq, LenProperties
  <2>2. single[i] = <<lines[i]>>
    BY <2>1 DEF Kept
  <2>3. CASE Hit(lines, old, every, i)
    <3>1. p[i] = Inserted(new, lines[i])
      BY <2>1, <2>3 DEF Pieces
    <3>2. Inserted(new, lines[i]) \in Seq({l \in Work!Line : l.text \in E})
      <4> DEFINE K == {l \in Work!Line : l.text \in Work!ToSet(new)}
                 L == {l \in Work!Line : l.text \in E}
      <4>1. Inserted(new, lines[i]) \in Seq(K) /\ K \subseteq L
        BY <2>1, InsertedType
      <4> HIDE DEF K, L
      <4>2. Inserted(new, lines[i]) \in Seq(L)
        BY <4>1, SeqMonotonic
      <4> QED
        BY <4>2 DEF L
    <3>3. lines[i].text = old
      BY <2>3 DEF Hit, Work!Found
    <3>4. <<lines[i]>> \in Seq({l \in Work!Line : l.text \in E})
      BY <2>1, <3>3
    <3> QED
      BY <2>2, <3>1, <3>2, <3>4, UnaffectedNone
  <2>4. CASE ~Hit(lines, old, every, i)
    BY <2>1, <2>2, <2>4 DEF Pieces
  <2> QED
    BY <2>3, <2>4
<1> HIDE DEF p, single
<1>7. SameRest(E, p, single)
  BY <1>2, <1>4, <1>6 DEF SameRest
<1>8. Unaffected(Work!FlattenSeq(p), E) = Unaffected(Work!FlattenSeq(single), E)
  BY <1>2, <1>4, <1>7, FlattenKeeps
<1> QED
  BY <1>1, <1>2, <1>3, <1>5, <1>8, FlattenType

(* Endings given to all of a text are given to what is left alone of it.    *)
Retold(s, end) == Work!Ended(Work!Texts(s), end)

(* A file whose line ends are rewritten is a file with the same lines and the*)
(* one line end asked for.                                                  *)
LEMMA RetoldType ==
  ASSUME NEW s \in Seq(Work!Line), NEW end \in {"lf", "crlf"}
  PROVE  /\ Retold(s, end) \in Seq(LinesEnding(end))
         /\ Retold(s, end) \in Seq(Work!Line)
         /\ DOMAIN Retold(s, end) = DOMAIN s
         /\ Len(Retold(s, end)) = Len(s)
         /\ \A i \in DOMAIN s : Retold(s, end)[i] = [text |-> s[i].text, end |-> end]
<1>1. /\ Work!Texts(s) \in Seq(Tokens)
      /\ DOMAIN Work!Texts(s) = DOMAIN s /\ Len(Work!Texts(s)) = Len(s)
  BY TextsType
<1>2. \A i \in DOMAIN s : Work!Texts(s)[i] = s[i].text
  BY DEF Work!Texts
<1>3. \A i \in DOMAIN s : Retold(s, end)[i] = [text |-> s[i].text, end |-> end]
  BY <1>1, <1>2 DEF Retold, Work!Ended
<1> QED
  BY <1>1, <1>3, EndedType DEF Retold

(* Line by line.                                                            *)
LEMMA RetoldStep ==
  ASSUME NEW s \in Seq(Work!Line), NEW l \in Work!Line, NEW end \in {"lf", "crlf"}
  PROVE  Retold(Append(s, l), end) = Append(Retold(s, end), [text |-> l.text, end |-> end])
<1> DEFINE k == [text |-> l.text, end |-> end]
           a == Append(s, l)
           b == Append(Retold(s, end), k)
           n == Len(s)
<1>1. k \in Work!Line
  BY DEF Work!Line
<1>2. /\ a \in Seq(Work!Line) /\ n \in Nat /\ DOMAIN a = 1..(n + 1) /\ DOMAIN s = 1..n
      /\ Len(a) = n + 1 /\ a[n + 1] = l /\ \A i \in 1..n : a[i] = s[i]
  BY AppendProperties, LenProperties
<1>3. Retold(s, end) \in Seq(Work!Line) /\ Len(Retold(s, end)) = n
  BY RetoldType
<1> HIDE DEF k
<1>4. /\ b \in Seq(Work!Line) /\ Len(b) = n + 1
      /\ b[n + 1] = k /\ \A i \in 1..n : b[i] = Retold(s, end)[i]
  BY <1>1, <1>2, <1>3, AppendProperties
<1>5. Retold(a, end) \in Seq(Work!Line) /\ Len(Retold(a, end)) = n + 1
  BY <1>2, RetoldType
<1> HIDE DEF a, b, n
<1>6. ASSUME NEW i \in 1..(n + 1) PROVE Retold(a, end)[i] = b[i]
  <2>1. Retold(a, end)[i] = [text |-> a[i].text, end |-> end]
    BY <1>2, RetoldType
  <2>2. CASE i \in 1..n
    <3>1. Retold(s, end)[i] = [text |-> s[i].text, end |-> end]
      BY <1>2, <2>2, RetoldType
    <3> QED
      BY <1>2, <1>4, <2>1, <2>2, <3>1
  <2>3. CASE i = n + 1
    <3>1. a[i] = l /\ b[i] = k
      BY <1>2, <1>4, <2>3
    <3>2. [text |-> a[i].text, end |-> end] = k
      BY <3>1 DEF k
    <3> QED
      BY <2>1, <3>1, <3>2
  <2> QED
    BY <1>2, <2>2, <2>3
<1>7. Retold(a, end) = b
  BY <1>4, <1>5, <1>6, SeqEqual
<1> QED
  BY <1>7 DEF a, b, k

(* What an edit leaves alone does not depend on whether the line ends are   *)
(* rewritten before it is taken or after.                                   *)
LEMMA UnaffectedRetold ==
  ASSUME NEW E, NEW s \in Seq(Work!Line), NEW end \in {"lf", "crlf"}
  PROVE  Unaffected(Retold(s, end), E) = Retold(Unaffected(s, E), end)
<1> DEFINE A == {u \in Seq(Work!Line) :
                   Unaffected(Retold(u, end), E) = Retold(Unaffected(u, E), end)}
<1>0. Retold(<<>>, end) = <<>>
  BY DEF Retold, Work!Ended, Work!Texts
<1>1. <<>> \in A
  BY <1>0, UnaffectedEmpty
<1>2. ASSUME NEW u \in A, NEW l \in Work!Line PROVE Append(u, l) \in A
  <2> DEFINE k == [text |-> l.text, end |-> end]
  <2>1. u \in Seq(Work!Line) /\ Append(u, l) \in Seq(Work!Line) /\ k \in Work!Line
    BY AppendProperties DEF Work!Line
  <2>2. Unaffected(Retold(Append(u, l), end), E)
        = Cat(Unaffected(Retold(u, end), E), Kept(k, E))
    <3>1. Retold(Append(u, l), end) = Append(Retold(u, end), k)
      BY <2>1, RetoldStep
    <3>2. PICK r \in Seq(Work!Line) : r = Retold(u, end)
      BY <2>1, RetoldType
    <3> HIDE DEF k
    <3> QED
      BY <2>1, <3>1, <3>2, UnaffectedStep
  <2>3. Unaffected(Append(u, l), E) = Cat(Unaffected(u, E), Kept(l, E))
    BY <2>1, UnaffectedStep
  <2>4. Unaffected(Retold(u, end), E) = Retold(Unaffected(u, E), end)
    BY <2>1
  <2>5. PICK v \in Seq(Work!Line) : v = Unaffected(u, E)
    BY <2>1, UnaffectedType
  <2>6. CASE l.text \in E
    <3>1. Kept(k, E) = <<>> /\ Kept(l, E) = <<>>
      BY <2>6 DEF Kept
    <3>2. Cat(v, <<>>) = v /\ Cat(Retold(v, end), <<>>) = Retold(v, end)
      BY RetoldType, CatProperties
    <3> QED
      BY <2>1, <2>2, <2>3, <2>4, <2>5, <3>1, <3>2
  <2>7. CASE l.text \notin E
    <3>1. Kept(k, E) = <<k>> /\ Kept(l, E) = <<l>>
      BY <2>7 DEF Kept
    <3>2. Cat(v, <<l>>) = Append(v, l) /\ Cat(Retold(v, end), <<k>>) = Append(Retold(v, end), k)
      <4> HIDE DEF k
      <4> QED
        BY <2>1, RetoldType, AppendIsConcat DEF Cat
    <3>3. Retold(Append(v, l), end) = Append(Retold(v, end), k)
      BY RetoldStep
    <3> HIDE DEF k
    <3> QED
      BY <2>1, <2>2, <2>3, <2>4, <2>5, <3>1, <3>2, <3>3
  <2> QED
    BY <2>6, <2>7
<1> HIDE DEF A
<1>3. A = Seq(Work!Line)
  BY <1>1, <1>2, InductionOnSeq DEF A
<1>4. s \in A
  BY <1>3
<1> QED
  BY <1>4 DEF A

-----------------------------------------------------------------------------
(* A call of a tool is of the kind its tool takes.                          *)
LEMMA CallKinds ==
  ASSUME NEW c \in Changes
  PROVE  /\ c.tool \in {"edit_file", "write_file", "run_command"}
         /\ c.tool = "edit_file"
            => /\ c.inside \in BOOLEAN /\ c.old \in Tokens \cup {Work!Empty}
               /\ c.new \in Seq(Tokens) /\ c.new # <<>>
         /\ c.tool = "write_file" => c.inside \in BOOLEAN /\ c.content \in Seq(Tokens)
BY WorkAssumption DEF Work!Call

(* The text of a file as edit_file reads it.                                *)
LEMMA DecodedType ==
  ASSUME NEW f \in Work!File
  PROVE  /\ Work!Decoded(f) \in Seq(Work!Line)
         /\ Work!Texts(Work!Decoded(f)) = Work!Texts(f.lines)
         /\ Work!Texts(f.lines) \in Seq(Tokens)
<1>1. f.lines \in Seq(Work!Line) /\ Work!Texts(f.lines) \in Seq(Tokens)
  BY TextsType DEF Work!File
<1>2. /\ Work!Ended(Work!Texts(f.lines), "lf") \in Seq(Work!Line)
      /\ Work!Texts(Work!Ended(Work!Texts(f.lines), "lf")) = Work!Texts(f.lines)
  BY <1>1, EndedType
<1> QED
  BY <1>1, <1>2 DEF Work!Decoded

(* Whatever is sought, what replaces it makes a text.                       *)
LEMMA UpdatedType ==
  ASSUME NEW lines \in Seq(Work!Line), NEW c \in Changes, c.tool = "edit_file"
  PROVE  Work!Updated(lines, c) \in Seq(Work!Line)
<1>1. /\ c.new \in Seq(Tokens) /\ c.new # <<>>
  BY CallKinds
<1>2. CASE c.old # Work!Empty
  <2> DEFINE E == {c.old} \cup Work!ToSet(c.new)
  <2>1. c.old \in E /\ Work!ToSet(c.new) \subseteq E
    OBVIOUS
  <2> HIDE DEF E
  <2>2. Work!Replaced(lines, c.old, c.new, c.every) \in Seq(Work!Line)
    BY <1>1, <1>2, <2>1, ReplacedKeeps
  <2> QED
    BY <2>2 DEF Work!Updated
<1>3. CASE c.old = Work!Empty
  <2> DEFINE n == Work!Ended(c.new, "lf")
             p == [i \in DOMAIN lines |-> <<lines[i]>> \o n]
  <2>1. n \in Seq(Work!Line)
    BY <1>1, EndedType
  <2> HIDE DEF n
  <2>2. ASSUME NEW i \in DOMAIN lines PROVE p[i] \in Seq(Work!Line)
    <3>1. lines[i] \in Work!Line
      BY ElementOfSeq, LenProperties
    <3>2. <<lines[i]>> \in Seq(Work!Line)
      BY <3>1
    <3>3. <<lines[i]>> \o n \in Seq(Work!Line)
      BY <2>1, <3>2, ConcatProperties
    <3> QED
      BY <3>3
  <2>3. p \in Seq(Seq(Work!Line))
    <3>1. DOMAIN lines = 1..Len(lines) /\ Len(lines) \in Nat
      BY LenProperties
    <3> QED
      BY <2>2, <3>1
  <2> HIDE DEF p
  <2>4. n \o Work!FlattenSeq(p) \in Seq(Work!Line)
    BY <2>1, <2>3, FlattenType, ConcatProperties
  <2>5. Work!Replaced(lines, c.old, c.new, c.every) = n \o Work!FlattenSeq(p)
    BY <1>3 DEF Work!Replaced, n, p
  <2> QED
    BY <2>4, <2>5 DEF Work!Updated
<1> QED
  BY <1>2, <1>3

(* The lines of a text that is all "crlf", with that ending given to them   *)
(* again, are the same.                                                     *)
LEMMA RetoldAgain ==
  ASSUME NEW s \in Seq(Work!Line), \A i \in DOMAIN s : s[i].end = "crlf"
  PROVE  Retold(Retold(s, "lf"), "crlf") = s
<1> DEFINE r == Retold(s, "lf")
           q == Retold(r, "crlf")
<1>1. /\ r \in Seq(Work!Line) /\ Len(r) = Len(s) /\ DOMAIN r = DOMAIN s
      /\ \A i \in DOMAIN s : r[i] = [text |-> s[i].text, end |-> "lf"]
  BY RetoldType
<1> HIDE DEF r
<1>2. /\ q \in Seq(Work!Line) /\ Len(q) = Len(r)
      /\ \A i \in DOMAIN r : q[i] = [text |-> r[i].text, end |-> "crlf"]
  BY <1>1, RetoldType
<1> HIDE DEF q
<1>3. ASSUME NEW i \in 1..Len(s) PROVE q[i] = s[i]
  <2>1. i \in DOMAIN s /\ s[i] \in Work!Line
    BY ElementOfSeq, LenProperties
  <2>2. r[i].text = s[i].text
    BY <1>1, <2>1
  <2>3. q[i] = [text |-> s[i].text, end |-> "crlf"]
    BY <1>1, <1>2, <2>1, <2>2
  <2>4. s[i] = [text |-> s[i].text, end |-> "crlf"]
    BY <2>1 DEF Work!Line
  <2> QED
    BY <2>3, <2>4
<1>4. Len(q) = Len(s)
  BY <1>1, <1>2
<1>5. \A i \in 1..Len(q) : q[i] = s[i]
  BY <1>3, <1>4
<1>6. q = s
  BY <1>2, <1>4, <1>5, SeqEqual
<1> QED
  BY <1>6 DEF q, r

(* What edit_file writes.                                                   *)
LEMMA EditOfFile ==
  ASSUME NEW f \in Work!File, NEW c \in Changes, c.tool = "edit_file", c.old # Work!Empty,
         Work!Found(Work!Decoded(f), c.old) # {},
         NEW d, d = Work!Encoded(f, Work!Updated(Work!Decoded(f), c))
  PROVE  /\ d \in Work!File /\ d.bom = f.bom
         /\ Work!Texts(d.lines) = Work!Texts(Work!Updated(Work!Decoded(f), c))
         /\ Work!Rest(d, c) = Work!Rest(f, c)
         /\ \A end \in {"lf", "crlf"} : Work!OneEnding(f, end) => Work!OneEnding(d, end)
<1> DEFINE E == Work!Edited(c)
           x == Work!Decoded(f)
           y == Work!Updated(x, c)
<1>1. /\ f.lines \in Seq(Work!Line) /\ f.bom \in BOOLEAN
      /\ x \in Seq(Work!Line) /\ y \in Seq(Work!Line)
  BY DecodedType, UpdatedType DEF Work!File
<1>2. /\ Unaffected(y, E) = Unaffected(x, E)
      /\ x \in Seq(LinesEnding("lf"))
         => y \in Seq(LinesEnding("lf"))
  <2>1. c.new \in Seq(Tokens) /\ c.new # <<>>
    BY CallKinds
  <2>2. c.old \in E /\ Work!ToSet(c.new) \subseteq E
    BY DEF Work!Edited
  <2>3. y = Work!Replaced(x, c.old, c.new, c.every)
    BY DEF Work!Updated
  <2> HIDE DEF E, x, y
  <2>4. PICK old, new, every : old = c.old /\ new = c.new /\ every = c.every
    OBVIOUS
  <2>5. /\ new \in Seq(Tokens) /\ new # <<>> /\ old # Work!Empty
        /\ old \in E /\ Work!ToSet(new) \subseteq E
    BY <2>1, <2>2, <2>4
  <2>6. Unaffected(Work!Replaced(x, old, new, every), E) = Unaffected(x, E)
    BY <1>1, <2>5, ReplacedKeeps
  <2>7. x \in Seq(LinesEnding("lf"))
        => Work!Replaced(x, old, new, every) \in Seq(LinesEnding("lf"))
    BY <1>1, <2>5, ReplacedKeeps
  <2> QED
    BY <2>3, <2>4, <2>6, <2>7
<1>3. f.lines # <<>>
  <2>1. ASSUME f.lines = <<>> PROVE FALSE
    <3>1. x = <<>>
      BY <2>1 DEF Work!Decoded, Work!Consistent
    <3>2. Work!Found(<<>>, c.old) = {}
      BY DEF Work!Found
    <3> QED
      BY <3>1, <3>2
  <2> QED
    BY <2>1
<1>4. /\ Work!Rest(d, c) = Unaffected(d.lines, E)
      /\ Work!Rest(f, c) = Unaffected(f.lines, E)
  BY DEF Work!Rest, Unaffected, Kept
<1>5. CASE Work!Consistent(f)
  <2>1. /\ x = Retold(f.lines, "lf")
        /\ d = [lines |-> Retold(y, "crlf"), bom |-> f.bom, utf8 |-> TRUE]
    BY <1>5 DEF Work!Decoded, Work!Encoded, Retold
  <2>2. \A i \in DOMAIN f.lines : f.lines[i].end = "crlf"
    BY <1>5 DEF Work!Consistent
  <2> HIDE DEF x, y, E
  <2>3. d.lines = Retold(y, "crlf") /\ d.bom = f.bom
    BY <2>1
  <2>4. /\ Retold(y, "crlf") \in Seq(Work!Line)
        /\ Retold(y, "crlf") \in Seq(LinesEnding("crlf"))
    BY <1>1, RetoldType
  <2>5. d \in Work!File
    BY <1>1, <2>1, <2>4 DEF Work!File
  <2>6. Work!Texts(d.lines) = Work!Texts(y)
    BY <1>1, <2>3, TextsType, EndedType DEF Retold
  <2>7. Unaffected(d.lines, E) = Unaffected(f.lines, E)
    <3>1. Unaffected(d.lines, E) = Retold(Unaffected(y, E), "crlf")
      BY <1>1, <2>3, UnaffectedRetold
    <3>2. Unaffected(Retold(x, "crlf"), E) = Retold(Unaffected(x, E), "crlf")
      BY <1>1, UnaffectedRetold
    <3>3. Retold(x, "crlf") = f.lines
      BY <1>1, <2>1, <2>2, RetoldAgain
    <3> QED
      BY <1>2, <3>1, <3>2, <3>3
  <2>8. Work!OneEnding(d, "crlf")
    BY <2>3, <2>4, ElementOfSeq, LenProperties DEF Work!OneEnding, LinesEnding
  <2>9. ~Work!OneEnding(f, "lf")
    <3>1. 1 \in DOMAIN f.lines
      BY <1>1, <1>3, LenProperties, EmptySeq
    <3> QED
      BY <2>2, <3>1 DEF Work!OneEnding
  <2> QED
    BY <1>4, <2>3, <2>5, <2>6, <2>7, <2>8, <2>9 DEF x, y
<1>6. CASE ~Work!Consistent(f)
  <2>1. x = f.lines /\ d = [lines |-> y, bom |-> f.bom, utf8 |-> TRUE]
    BY <1>6 DEF Work!Decoded, Work!Encoded
  <2>2. ~Work!OneEnding(f, "crlf")
    BY <1>3, <1>6 DEF Work!Consistent, Work!OneEnding
  <2> HIDE DEF x, y, E
  <2>3. d.lines = y /\ d.bom = f.bom
    BY <2>1
  <2>4. d \in Work!File
    BY <1>1, <2>1 DEF Work!File
  <2>5. Work!OneEnding(f, "lf") => Work!OneEnding(d, "lf")
    <3> SUFFICES ASSUME Work!OneEnding(f, "lf") PROVE Work!OneEnding(d, "lf")
      OBVIOUS
    <3>1. f.lines \in Seq(LinesEnding("lf"))
      <4> DEFINE L == LinesEnding("lf")
      <4>1. \A i \in 1..Len(f.lines) : f.lines[i] \in L
        BY <1>1, ElementOfSeq, LenProperties DEF Work!OneEnding, LinesEnding
      <4> HIDE DEF L
      <4>2. f.lines \in [1..Len(f.lines) -> L] /\ Len(f.lines) \in Nat
        BY <1>1, <4>1, LenProperties
      <4>3. f.lines \in Seq(L)
        BY <4>2, SeqDef
      <4> QED
        BY <4>3 DEF L
    <3>2. y \in Seq(LinesEnding("lf"))
      BY <1>2, <2>1, <3>1
    <3> QED
      BY <2>3, <3>2, ElementOfSeq, LenProperties DEF Work!OneEnding, LinesEnding
  <2> QED
    BY <1>2, <1>4, <2>1, <2>2, <2>3, <2>4, <2>5 DEF x, y
<1> QED
  BY <1>5, <1>6

-----------------------------------------------------------------------------
(* The invariant of the tools: a preview is what the call would change as   *)
(* long as nobody wrote the file since, and a file that was read is the one *)
(* on the disk, or somebody wrote it since.                                 *)
ShownIsCurrent ==
  (~touched /\ shownDiff # Work!NoDiff) => shownDiff = Work!Preview(call)
ReadIsCurrent ==
  /\ call.tool # "run_command" /\ call.inside
  /\ call.tool = "edit_file" =>
       /\ Work!Readable(seen) /\ call.old # Work!Empty
       /\ Work!Count(Work!Decoded(seen), call.old) # 0
       /\ ~Work!Ambiguous(Work!Decoded(seen), call)
  /\ ~touched => seen = disk
WorkInv ==
  /\ Work!TypeOK
  /\ pc # "idle" => call \in Changes
  /\ pc \in {"asked", "cleared", "read"} => ShownIsCurrent
  /\ pc = "read" => ReadIsCurrent
  /\ Work!DiffShownIsDiffMade

(* Differences are between texts.                                           *)
LEMMA DiffTypes ==
  ASSUME NEW s \in Seq(Tokens), NEW t \in Seq(Tokens)
  PROVE  /\ Work!Diff(s, t) \in Work!DiffType /\ Work!NewFile(t) \in Work!DiffType
         /\ Work!NoDiff \in Work!DiffType /\ Work!Refused \in Work!DiffType
<1>1. <<>> \in Seq(Tokens)
  OBVIOUS
<1> QED
  BY <1>1 DEF Work!DiffType, Work!Diff, Work!NewFile, Work!NoDiff, Work!Refused

(* So is a preview.                                                         *)
LEMMA PreviewType ==
  ASSUME NEW c \in Changes, disk \in Work!File \cup {Absent}
  PROVE  Work!Preview(c) \in Work!DiffType
<1>1. ASSUME c.tool = "edit_file" PROVE Work!EditPreview(c) \in Work!DiffType
  <2>1. CASE ~c.inside \/ ~Work!Readable(disk)
    BY <2>1, DiffTypes, EmptySeq DEF Work!EditPreview
  <2>2. CASE c.inside /\ Work!Readable(disk)
    <3>1. disk \in Work!File
      BY <2>2 DEF Work!Readable
    <3>2. PICK x \in Seq(Work!Line) : x = Work!Decoded(disk)
      BY <3>1, DecodedType
    <3>3. Work!Updated(x, c) \in Seq(Work!Line)
      BY <1>1, UpdatedType
    <3>4. Work!Diff(Work!Texts(x), Work!Texts(Work!Updated(x, c))) \in Work!DiffType
      BY <3>3, TextsType, DiffTypes
    <3>5. Work!Refused \in Work!DiffType
      BY DiffTypes, EmptySeq
    <3> QED
      BY <2>2, <3>2, <3>4, <3>5 DEF Work!EditPreview
  <2> QED
    BY <2>1, <2>2
<1>2. ASSUME c.tool = "write_file" PROVE Work!WritePreview(c) \in Work!DiffType
  <2>1. c.content \in Seq(Tokens)
    BY <1>2, CallKinds
  <2>2. Work!Readable(disk) => Work!Texts(disk.lines) \in Seq(Tokens)
    BY DecodedType DEF Work!Readable
  <2> QED
    BY <2>1, <2>2, DiffTypes DEF Work!WritePreview
<1>3. Work!NoDiff \in Work!DiffType
  BY DiffTypes, EmptySeq
<1> QED
  BY <1>1, <1>2, <1>3, CallKinds DEF Work!Preview

(* The tools start within the invariant.                                    *)
LEMMA WorkInvInit ==
  ASSUME Work!Init
  PROVE  WorkInv
<1>1. disk \in Work!File \cup {Absent}
  BY WorkAssumption DEF Work!Init
<1>2. Work!NoDiff \in Work!DiffType
  BY DiffTypes, EmptySeq
<1>3. Work!NoReport \in [ok : BOOLEAN, diff : Work!DiffType, timed : BOOLEAN, note : BOOLEAN]
  BY <1>2 DEF Work!NoReport, Work!Result
<1>4. Work!TypeOK
  <2>1. /\ {disk, seen} \subseteq Work!File \cup {Absent} /\ pc = "idle" /\ call = Absent
        /\ shownDiff \in Work!DiffType
        /\ report \in [ok : BOOLEAN, diff : Work!DiffType, timed : BOOLEAN, note : BOOLEAN]
    BY <1>1, <1>2, <1>3 DEF Work!Init
  <2>2. {touched, child, missed, container} \subseteq BOOLEAN /\ kids \subseteq Work!Kid
    BY DEF Work!Init
  <2>3. handled \in 0..MaxCalls
    BY CallAssumption DEF Work!Init
  <2> QED
    BY <2>1, <2>2, <2>3 DEF Work!TypeOK
<1>5. Work!DiffShownIsDiffMade
  BY DEF Work!Init, Work!DiffShownIsDiffMade
<1> QED
  BY <1>4, <1>5 DEF Work!Init, WorkInv

(* A call that is refused, that fails or that is a command makes no         *)
(* difference.                                                              *)
Reports == [ok : BOOLEAN, diff : Work!DiffType, timed : BOOLEAN, note : BOOLEAN]

(* The answers of the tools are reports, and a failed one carries no diff.  *)
LEMMA ReportTypes ==
  /\ \A ok \in BOOLEAN, d \in Work!DiffType : Work!Result(ok, d) \in Reports
  /\ \A ok \in BOOLEAN :
       /\ Work!Result(ok, Work!NoDiff) \in Reports
       /\ Work!Result(ok, Work!NoDiff).diff = Work!NoDiff
  /\ \A note \in BOOLEAN :
       Work!TimedOut(note) \in Reports /\ ~Work!TimedOut(note).ok
  /\ Work!NoReport \in Reports
<1>1. Work!NoDiff \in Work!DiffType
  BY DiffTypes, EmptySeq
<1> QED
  BY <1>1 DEF Work!Result, Work!TimedOut, Work!NoReport, Reports

(* The steps that neither read nor write the file.                          *)
LEMMA WorkKeepsElsewhere ==
  ASSUME WorkInv, UNCHANGED <<disk, seen, touched, call, shownDiff, handled>>,
         pc' \in {"idle", "talking", "draining"},
         (pc' # "idle") => call \in Changes,
         report' \in Reports,
         (report' = report /\ pc' = pc) \/ ~report'.ok \/ report'.diff = Work!NoDiff,
         {child', missed', container'} \subseteq BOOLEAN, kids' \subseteq Work!Kid
  PROVE  WorkInv'
<1>1. Work!TypeOK'
  BY DEF WorkInv, Work!TypeOK, Reports
<1>2. Work!DiffShownIsDiffMade'
  BY DEF WorkInv, Work!DiffShownIsDiffMade
<1> QED
  BY <1>1, <1>2 DEF WorkInv

(* The loop hands a call to a tool, with a preview if it asks the user.     *)
LEMMA WorkReceives ==
  ASSUME WorkInv, NEW c \in Changes, NEW asks \in BOOLEAN, Work!Receive(c, asks)
  PROVE  WorkInv'
<1>1. /\ handled' = handled + 1 /\ handled < MaxCalls /\ call' = c /\ touched' = FALSE
      /\ pc' \in {"asked", "cleared"}
      /\ shownDiff' \in {Work!Preview(c), Work!NoDiff}
      /\ seen' = Absent /\ report' = Work!NoReport
      /\ child' = FALSE /\ kids' = {} /\ missed' = FALSE /\ container' = FALSE
      /\ disk' = disk
  BY DEF Work!Receive
<1>2. shownDiff' \in Work!DiffType
  BY <1>1, PreviewType, DiffTypes, EmptySeq DEF WorkInv, Work!TypeOK
<1>3. report' \in Reports
  BY <1>1, ReportTypes
<1>4. handled' \in 0..MaxCalls
  BY <1>1, CallAssumption DEF WorkInv, Work!TypeOK
<1>5. Work!TypeOK'
  BY <1>1, <1>2, <1>3, <1>4 DEF WorkInv, Work!TypeOK, Reports
<1>6. Work!Preview(call)' = Work!Preview(c)
  BY <1>1 DEF Work!Preview, Work!EditPreview, Work!WritePreview
<1>7. ShownIsCurrent'
  BY <1>1, <1>6 DEF ShownIsCurrent
<1> QED
  BY <1>1, <1>5, <1>7 DEF WorkInv, Work!DiffShownIsDiffMade

(* The user answers; a refusal ends the call.                               *)
LEMMA WorkAnswered ==
  ASSUME WorkInv, NEW yes \in BOOLEAN, Work!Answered(yes)
  PROVE  WorkInv'
<1>1. /\ pc = "asked" /\ pc' \in {"cleared", "idle"}
      /\ report' \in {Work!NoReport, Work!Result(FALSE, Work!NoDiff)}
      /\ UNCHANGED <<disk, seen, touched, child, kids, missed, container, call, shownDiff, handled>>
  BY DEF Work!Answered, Work!fileVars, Work!procVars
<1>2. report' \in Reports /\ ~report'.ok
  <2>1. Work!Result(FALSE, Work!NoDiff) = Work!NoReport /\ ~Work!NoReport.ok
    BY DEF Work!NoReport, Work!Result
  <2> QED
    BY <1>1, <2>1, ReportTypes
<1>3. Work!TypeOK'
  BY <1>1, <1>2 DEF WorkInv, Work!TypeOK, Reports
<1>4. Work!Preview(call)' = Work!Preview(call)
  BY <1>1 DEF Work!Preview, Work!EditPreview, Work!WritePreview
<1> QED
  BY <1>1, <1>2, <1>3, <1>4 DEF WorkInv, Work!DiffShownIsDiffMade, ShownIsCurrent

(* The tool reads the file it is about to change.                           *)
LEMMA WorkReads ==
  ASSUME WorkInv, Work!ReadOld
  PROVE  WorkInv'
<1>1. /\ pc = "cleared" /\ call.tool # "run_command" /\ Work!Accepted
      /\ pc' = "read" /\ seen' = disk
      /\ UNCHANGED <<disk, report, touched, child, kids, missed, container, call, shownDiff, handled>>
  BY DEF Work!ReadOld, Work!CallStays, Work!procVars
<1>2. Work!TypeOK'
  BY <1>1 DEF WorkInv, Work!TypeOK
<1>3. Work!Preview(call)' = Work!Preview(call)
  BY <1>1 DEF Work!Preview, Work!EditPreview, Work!WritePreview
<1>4. ReadIsCurrent'
  <2>1. call.inside /\ (call.tool = "edit_file" => Work!Editable)
    BY <1>1 DEF Work!Accepted
  <2>2. call.tool = "edit_file" =>
          /\ Work!Readable(seen') /\ call.old # Work!Empty
          /\ Work!Count(Work!Decoded(seen'), call.old) # 0
          /\ ~Work!Ambiguous(Work!Decoded(seen'), call)
    BY <1>1, <2>1 DEF Work!Editable
  <2> QED
    BY <1>1, <2>1, <2>2 DEF ReadIsCurrent
<1>5. ShownIsCurrent'
  BY <1>1, <1>3 DEF WorkInv, ShownIsCurrent
<1> QED
  BY <1>1, <1>2, <1>4, <1>5 DEF WorkInv, Work!DiffShownIsDiffMade

(* An edit is of a file that could be read and holds what is sought; where  *)
(* nobody wrote the file meanwhile it was announced as it is made.          *)
LEMMA EditIsOfFile ==
  ASSUME WorkInv, Work!EditFile
  PROVE  /\ seen \in Work!File /\ call \in Changes /\ call.tool = "edit_file"
         /\ call.old # Work!Empty /\ Work!Found(Work!Decoded(seen), call.old) # {}
         /\ disk' = Work!Encoded(seen, Work!Updated(Work!Decoded(seen), call))
<1>1. pc = "read" /\ call.tool = "edit_file" /\ call \in Changes /\ ReadIsCurrent
  BY DEF WorkInv, Work!EditFile
<1>2. seen \in Work!File /\ call.old # Work!Empty
      /\ Work!Count(Work!Decoded(seen), call.old) # 0
  BY <1>1 DEF ReadIsCurrent, Work!Readable, WorkInv, Work!TypeOK
<1>3. Work!Found(Work!Decoded(seen), call.old) # {}
  <2>1. Work!Cardinality({}) = Cardinality({})
    BY DEF Work!Cardinality, Cardinality
  <2> QED
    BY <1>2, <2>1, FS_EmptySet DEF Work!Count
<1> QED
  BY <1>1, <1>2, <1>3 DEF Work!EditFile

(* edit_file writes what str.replace makes of the file it read.             *)
LEMMA WorkEdits ==
  ASSUME WorkInv, Work!EditFile
  PROVE  WorkInv'
<1> DEFINE x == Work!Decoded(seen)
           y == Work!Updated(x, call)
<1>1. /\ pc = "read" /\ pc' = "idle" /\ report' = Work!Result(TRUE, Work!Diff(Work!Texts(x), Work!Texts(y)))
      /\ UNCHANGED <<seen, touched, child, kids, missed, container, call, shownDiff, handled>>
  BY DEF Work!EditFile, Work!Return, Work!CallStays, Work!procVars
<1>2. /\ seen \in Work!File /\ call \in Changes /\ call.tool = "edit_file"
      /\ disk' \in Work!File /\ Work!Texts(disk'.lines) = Work!Texts(y)
  BY EditIsOfFile, EditOfFile
<1>3. Work!Diff(Work!Texts(x), Work!Texts(y)) \in Work!DiffType
  <2>1. x \in Seq(Work!Line)
    BY <1>2, DecodedType
  <2>2. y \in Seq(Work!Line)
    BY <1>2, <2>1, UpdatedType
  <2> HIDE DEF x, y
  <2> QED
    BY <2>1, <2>2, TextsType, DiffTypes
<1>4. (~touched /\ shownDiff # Work!NoDiff)
      => shownDiff = Work!Diff(Work!Texts(x), Work!Texts(y))
  <2> SUFFICES ASSUME ~touched, shownDiff # Work!NoDiff
               PROVE  shownDiff = Work!Diff(Work!Texts(x), Work!Texts(y))
    OBVIOUS
  <2>1. ReadIsCurrent /\ ShownIsCurrent
    BY <1>1 DEF WorkInv
  <2>2. /\ seen = disk /\ shownDiff = Work!Preview(call) /\ call.inside
        /\ Work!Readable(disk) /\ Work!Count(Work!Decoded(disk), call.old) # 0
        /\ ~Work!Ambiguous(Work!Decoded(disk), call)
    BY <1>2, <2>1 DEF ReadIsCurrent, ShownIsCurrent
  <2>3. shownDiff = Work!EditPreview(call)
    BY <1>2, <2>2 DEF Work!Preview
  <2> QED
    BY <2>2, <2>3 DEF Work!EditPreview
<1> HIDE DEF x, y
<1>5. report' \in Reports /\ report'.diff = Work!Diff(Work!Texts(x), Work!Texts(y))
  BY <1>1, <1>3, ReportTypes DEF Work!Result
<1>6. Work!TypeOK'
  BY <1>1, <1>2, <1>5 DEF WorkInv, Work!TypeOK, Reports
<1>7. Work!DiffShownIsDiffMade'
  <2>1. Work!Diff(Work!Texts(x), Work!Texts(y)).to = Work!Texts(y)
    BY DEF Work!Diff
  <2> QED
    BY <1>1, <1>2, <1>4, <1>5, <2>1 DEF Work!DiffShownIsDiffMade
<1> QED
  BY <1>1, <1>6, <1>7 DEF WorkInv

(* write_file writes its content over the file it read, or where none was.  *)
LEMMA WorkWrites ==
  ASSUME WorkInv, Work!WriteFile
  PROVE  WorkInv'
<1> DEFINE d == IF Work!Readable(seen) THEN Work!Diff(Work!Texts(seen.lines), call.content)
                ELSE Work!NewFile(call.content)
<1>1. /\ pc = "read" /\ call.tool = "write_file" /\ pc' = "idle" /\ report' = Work!Result(TRUE, d)
      /\ disk' = [lines |-> Work!Ended(call.content, Newline), bom |-> FALSE, utf8 |-> TRUE]
      /\ UNCHANGED <<seen, touched, child, kids, missed, container, call, shownDiff, handled>>
  BY DEF Work!WriteFile, Work!Return, Work!CallStays, Work!procVars
<1>2. call \in Changes /\ call.content \in Seq(Tokens)
  BY <1>1, CallKinds DEF WorkInv
<1>3. /\ Work!Ended(call.content, Newline) \in Seq(Work!Line)
      /\ Work!Texts(Work!Ended(call.content, Newline)) = call.content
  BY <1>2, EndedType, WorkAssumption
<1>4. disk' \in Work!File /\ Work!Texts(disk'.lines) = call.content
  BY <1>1, <1>3 DEF Work!File
<1>5. d \in Work!DiffType
  <2>1. Work!Readable(seen) => Work!Texts(seen.lines) \in Seq(Tokens)
    BY DecodedType DEF Work!Readable, WorkInv, Work!TypeOK
  <2> QED
    BY <1>2, <2>1, DiffTypes
<1>6. d.to = call.content
  BY DEF Work!Diff, Work!NewFile
<1>7. (~touched /\ shownDiff # Work!NoDiff) => shownDiff = d
  <2> SUFFICES ASSUME ~touched, shownDiff # Work!NoDiff PROVE shownDiff = d
    OBVIOUS
  <2>1. seen = disk /\ shownDiff = Work!Preview(call) /\ call.inside
    BY <1>1 DEF WorkInv, ReadIsCurrent, ShownIsCurrent
  <2>2. shownDiff = Work!WritePreview(call)
    BY <1>1, <2>1 DEF Work!Preview
  <2> QED
    BY <2>1, <2>2 DEF Work!WritePreview
<1> HIDE DEF d
<1>8. report' \in Reports /\ report'.diff = d
  BY <1>1, <1>5, ReportTypes DEF Work!Result
<1>9. Work!TypeOK'
  BY <1>1, <1>4, <1>8 DEF WorkInv, Work!TypeOK, Reports
<1>10. Work!DiffShownIsDiffMade'
  BY <1>1, <1>4, <1>6, <1>7, <1>8 DEF Work!DiffShownIsDiffMade
<1> QED
  BY <1>1, <1>9, <1>10 DEF WorkInv

(* The file is changed by a write that failed, or by somebody else.         *)
LEMMA WorkFails ==
  ASSUME WorkInv, Work!WriteFails
  PROVE  WorkInv'
<1>1. /\ pc = "read" /\ pc' = "idle" /\ report' = Work!Result(FALSE, Work!NoDiff)
      /\ disk' \in {disk, [lines |-> <<>>, bom |-> FALSE, utf8 |-> TRUE]}
      /\ UNCHANGED <<seen, touched, child, kids, missed, container, call, shownDiff, handled>>
  BY DEF Work!WriteFails, Work!Return, Work!CallStays, Work!procVars
<1>2. report' \in Reports /\ report'.diff = Work!NoDiff
  BY <1>1, ReportTypes
<1>3. [lines |-> <<>>, bom |-> FALSE, utf8 |-> TRUE] \in Work!File
  <2>1. <<>> \in Seq(Work!Line)
    OBVIOUS
  <2> QED
    BY <2>1 DEF Work!File
<1>4. Work!TypeOK'
  BY <1>1, <1>2, <1>3 DEF WorkInv, Work!TypeOK, Reports
<1> QED
  BY <1>1, <1>2, <1>4 DEF WorkInv, Work!DiffShownIsDiffMade

(* Somebody else writes the file while a call is under way.                 *)
LEMMA WorkMeddles ==
  ASSUME WorkInv, Work!Meddle
  PROVE  WorkInv'
<1>1. /\ pc # "idle" /\ disk' \in Others /\ touched' = TRUE
      /\ UNCHANGED <<seen, pc, report, child, kids, missed, container, call, shownDiff, handled>>
  BY DEF Work!Meddle, Work!CallStays, Work!procVars
<1>2. Work!TypeOK'
  BY <1>1, WorkAssumption DEF WorkInv, Work!TypeOK
<1>3. pc' = "read" => ReadIsCurrent'
  BY <1>1 DEF WorkInv, ReadIsCurrent
<1> QED
  BY <1>1, <1>2, <1>3 DEF WorkInv, ShownIsCurrent, Work!DiffShownIsDiffMade

(* What runs: commands, their processes, and the time they are given.       *)
LEMMA WorkRuns ==
  ASSUME WorkInv,
         \/ Work!Refuse \/ Work!Launch \/ Work!LaunchFails
         \/ Work!Completes \/ Work!TimesOut \/ Work!DrainEnds \/ Work!ContainerTimesOut
  PROVE  WorkInv'
<1> USE DEF Work!CallStays, Work!CommandStays, Work!procVars, Work!fileVars, Work!Return
<1>1. /\ report \in Reports /\ {child, missed, container} \subseteq BOOLEAN
      /\ kids \subseteq Work!Kid
      /\ pc # "idle" => call \in Changes
  BY DEF WorkInv, Work!TypeOK, Reports
<1>2. /\ Work!Result(FALSE, Work!NoDiff) \in Reports
      /\ Work!Result(FALSE, Work!NoDiff).diff = Work!NoDiff
  BY ReportTypes
<1>3. CASE Work!Refuse
  BY <1>1, <1>2, <1>3, WorkKeepsElsewhere DEF Work!Refuse
<1>4. CASE Work!Launch
  <2>1. pc' = "talking" /\ report' = report /\ call \in Changes
    BY <1>1, <1>4 DEF Work!Launch
  <2>2. Work!TypeOK'
    BY <1>4 DEF Work!Launch, WorkInv, Work!TypeOK
  <2>3. Work!DiffShownIsDiffMade'
    BY <2>1 DEF Work!DiffShownIsDiffMade
  <2> QED
    BY <1>4, <2>1, <2>2, <2>3 DEF WorkInv, Work!Launch
<1>5. CASE Work!LaunchFails
  BY <1>1, <1>2, <1>5, WorkKeepsElsewhere DEF Work!LaunchFails
<1>6. CASE Work!Completes
  <2>1. PICK ok \in BOOLEAN : report' = Work!Result(ok, Work!NoDiff)
    BY <1>6 DEF Work!Completes
  <2>2. report' \in Reports /\ report'.diff = Work!NoDiff
    BY <2>1, ReportTypes
  <2> QED
    BY <1>1, <1>6, <2>2, WorkKeepsElsewhere DEF Work!Completes
<1>7. CASE Work!TimesOut
  <2>1. /\ pc = "talking" /\ pc' = "draining" /\ report' = report
        /\ UNCHANGED <<disk, seen, touched, call, shownDiff, handled, container>>
    BY <1>7 DEF Work!TimesOut
  <2>2. {child', missed'} \subseteq BOOLEAN /\ kids' \subseteq Work!Kid
    BY <1>1, <1>7 DEF Work!TimesOut, Work!KillProcessTree
  <2>3. Work!TypeOK'
    BY <2>1, <2>2 DEF WorkInv, Work!TypeOK
  <2> QED
    BY <2>1, <2>3 DEF WorkInv, Work!DiffShownIsDiffMade
<1>8. CASE Work!DrainEnds
  <2>1. report' = Work!TimedOut(FALSE)
    BY <1>8 DEF Work!DrainEnds
  <2>2. report' \in Reports /\ ~report'.ok
    BY <2>1, ReportTypes
  <2> QED
    BY <1>1, <1>8, <2>2, WorkKeepsElsewhere DEF Work!DrainEnds
<1>9. CASE Work!ContainerTimesOut
  <2>1. PICK killed \in {FALSE, container} :
          container' = (container /\ ~killed) /\ report' = Work!TimedOut(~killed)
    BY <1>9 DEF Work!ContainerTimesOut
  <2>2. report' \in Reports /\ ~report'.ok
    BY <1>1, <2>1, ReportTypes
  <2>3. container' \in BOOLEAN
    BY <2>1
  <2> QED
    BY <1>1, <1>9, <2>2, <2>3, WorkKeepsElsewhere DEF Work!ContainerTimesOut
<1> QED
  BY <1>3, <1>4, <1>5, <1>6, <1>7, <1>8, <1>9

(* Processes come and go.                                                   *)
LEMMA WorkProcesses ==
  ASSUME WorkInv, UNCHANGED <<disk, seen, touched, call, shownDiff, handled, pc, report>>,
         {child', missed', container'} \subseteq BOOLEAN, kids' \subseteq Work!Kid
  PROVE  WorkInv'
<1>1. Work!TypeOK'
  BY DEF WorkInv, Work!TypeOK
<1>2. Work!Preview(call)' = Work!Preview(call)
  BY DEF Work!Preview, Work!EditPreview, Work!WritePreview
<1>3. (ShownIsCurrent => ShownIsCurrent') /\ (ReadIsCurrent => ReadIsCurrent')
  BY <1>2 DEF ShownIsCurrent, ReadIsCurrent
<1>4. Work!DiffShownIsDiffMade => Work!DiffShownIsDiffMade'
  BY DEF Work!DiffShownIsDiffMade
<1> QED
  BY <1>1, <1>3, <1>4 DEF WorkInv

(* Every step of the tools keeps the invariant.                             *)
LEMMA WorkInvStep ==
  ASSUME WorkInv, Work!Next
  PROVE  WorkInv'
<1> USE DEF Work!CommandStays, Work!fileVars
<1>0. {child, missed, container} \subseteq BOOLEAN /\ kids \subseteq Work!Kid
  BY DEF WorkInv, Work!TypeOK
<1>1. ASSUME NEW k \in Work!Kid, Work!Spawn(k) PROVE WorkInv'
  BY <1>0, <1>1, WorkProcesses DEF Work!Spawn
<1>2. ASSUME NEW k \in kids, Work!KidExits(k) PROVE WorkInv'
  BY <1>0, <1>2, WorkProcesses DEF Work!KidExits
<1>3. CASE Work!ChildExits
  BY <1>0, <1>3, WorkProcesses DEF Work!ChildExits
<1>4. CASE Work!ContainerStarts
  BY <1>0, <1>4, WorkProcesses DEF Work!ContainerStarts
<1> QED
  BY <1>1, <1>2, <1>3, <1>4, WorkReceives, WorkAnswered, WorkReads, WorkEdits, WorkWrites,
     WorkFails, WorkMeddles, WorkRuns DEF Work!Next, Work!Clock

(* A step that leaves the tools alone keeps it.                             *)
LEMMA WorkRests ==
  ASSUME WorkInv, UNCHANGED workVars
  PROVE  WorkInv'
<1>1. {child, missed, container} \subseteq BOOLEAN /\ kids \subseteq Work!Kid
  BY DEF WorkInv, Work!TypeOK
<1> QED
  BY <1>1, WorkProcesses DEF workVars

(* What an edit leaves alone.                                               *)
EditKeeps ==
  pc = "read" /\ call.tool = "edit_file" /\ report'.ok /\ pc' = "idle"
  => /\ disk'.bom = seen.bom
     /\ \A end \in {"lf", "crlf"} : Work!OneEnding(seen, end) => Work!OneEnding(disk', end)
     /\ Work!Rest(disk', call) = Work!Rest(seen, call)

(* An edit that succeeds keeps the byte-order mark, the line end of a file  *)
(* that has one, and every line it does not name.                           *)
LEMMA EditKeepsStep ==
  ASSUME WorkInv, Work!Next
  PROVE  EditKeeps
<1> SUFFICES ASSUME pc = "read", call.tool = "edit_file", report'.ok, pc' = "idle"
             PROVE  /\ disk'.bom = seen.bom
                    /\ \A end \in {"lf", "crlf"} :
                         Work!OneEnding(seen, end) => Work!OneEnding(disk', end)
                    /\ Work!Rest(disk', call) = Work!Rest(seen, call)
  BY DEF EditKeeps
<1>1. Work!EditFile
  <2>1. ~Work!Result(FALSE, Work!NoDiff).ok
    BY DEF Work!Result
  <2>2. ~Work!WriteFails
    BY <2>1 DEF Work!WriteFails, Work!Return
  <2>3. call \in Changes
    BY DEF WorkInv
  <2>4. /\ \A c \in Changes, asks \in BOOLEAN : ~Work!Receive(c, asks)
        /\ \A yes \in BOOLEAN : ~Work!Answered(yes)
        /\ ~Work!Refuse /\ ~Work!ReadOld /\ ~Work!WriteFile /\ ~Work!Meddle
    BY DEF Work!Receive, Work!Answered, Work!Refuse, Work!ReadOld, Work!WriteFile, Work!Meddle
  <2>5. /\ ~Work!Launch /\ ~Work!LaunchFails /\ ~Work!ContainerStarts /\ ~Work!ChildExits
        /\ \A k \in Work!Kid : ~Work!Spawn(k)
        /\ \A k \in kids : ~Work!KidExits(k)
        /\ ~Work!Clock
    BY DEF Work!Launch, Work!LaunchFails, Work!ContainerStarts, Work!ChildExits, Work!Spawn,
           Work!KidExits, Work!Clock, Work!Completes, Work!TimesOut, Work!DrainEnds,
           Work!ContainerTimesOut
  <2> QED
    BY <2>2, <2>4, <2>5 DEF Work!Next
<1> QED
  BY <1>1, EditIsOfFile, EditOfFile

(* For every workspace, every call of a tool and every moment somebody else *)
(* writes the file: a change the user saw is the change that was made,      *)
(* unless the file was written meanwhile, and an edit leaves the byte order *)
(* mark, the line endings and the lines it does not change as they were.    *)
THEOREM EditsAreMadeAsShown == AgentsSpec => EditsAreFaithful /\ []Work!TypeOK
<1>1. AgentsInit => WorkInv
  BY WorkInvInit DEF AgentsInit
<1>2. WorkInv /\ [CallSteps \/ AgentSteps \/ WorkSteps]_all
      => WorkInv' /\ [EditKeeps]_(Work!vars)
  <2> SUFFICES ASSUME WorkInv, [CallSteps \/ AgentSteps \/ WorkSteps]_all
               PROVE  WorkInv' /\ [EditKeeps]_(Work!vars)
    OBVIOUS
  <2>1. CASE WorkSteps
    BY <2>1, WorkInvStep, EditKeepsStep DEF WorkSteps
  <2>2. CASE CallSteps \/ AgentSteps \/ UNCHANGED all
    <3>1. UNCHANGED workVars
      BY <2>2 DEF CallSteps, AgentSteps, all
    <3>2. UNCHANGED Work!vars
      BY <3>1 DEF workVars, Work!vars, Work!fileVars, Work!procVars
    <3> QED
      BY <3>1, <3>2, WorkRests
  <2> QED
    BY <2>1, <2>2
<1>3. WorkInv => Work!DiffShownIsDiffMade /\ Work!TypeOK
  BY DEF WorkInv
<1> QED
  BY <1>1, <1>2, <1>3, PTL DEF AgentsSpec, EditsAreFaithful, Work!EditKeepsTheRest, EditKeeps

-----------------------------------------------------------------------------
(* Delegated work.                                                          *)

(* What the frames 1 to i hold together, for every i: the root holds        *)
(* nothing, a sub-agent what it has spent and not yet handed back.          *)
Held(h) ==
  /\ h \in [1..Top -> Nat] /\ h[1] = 0
  /\ \A i \in 2..Top : h[i] = h[i - 1] + frames[i].spent

(* While a turn is under way, what was paid for is counted, waits in the    *)
(* accumulator, was lost with a sub-agent, or is held by a frame; the       *)
(* accumulator is empty unless there is a result left to observe.           *)
SpendInv ==
  root = "turn" =>
    /\ counted = frames[1].cost
    /\ Top = 1 /\ frames[1].results = <<>> => owed = 0
    /\ \E h : Held(h) /\ billed = counted + owed + raised + h[Top]

(* The bus holds pairs; a task under way has sent the first of its pair.    *)
BusInv ==
  /\ \A i \in DOMAIN log :
       IF i % 2 = 1 THEN log[i].kind = "request" /\ log[i].task = i
       ELSE log[i].kind # "request" /\ log[i].task = i - 1
  /\ root = "fan" => (Len(log) % 2 = 0 <=> Top = 1)

BusType == log \in Seq([kind : {"request", "response", "error"}, task : Nat])

Types == TypeOK /\ BusType

DelegationInv == Types /\ SpendInv /\ BusInv /\ DelegatesOnlyTighten

-----------------------------------------------------------------------------
(* Lemmas about the operators.                                              *)

(* A streak is a number.                                                    *)
LEMMA StreakIsNat ==
  ASSUME NEW e \in Nat, NEW r, NEW k \in Nat
  PROVE  Streak(e, r, k) \in Nat
<1> DEFINE F == {i \in 1..k : \A j \in i..k : ~r[j]}
<1>1. IsFiniteSet(1..k)
  BY FS_Interval
<1>2. IsFiniteSet(F)
  BY <1>1, FS_Subset
<1>3. Cardinality(F) \in Nat
  BY <1>2, FS_CardinalityType
<1> QED
  BY <1>3 DEF Streak

(* What is under way is a stack of frames, and the frame on top is one.     *)
LEMMA TopIsFrame ==
  ASSUME Types, root # "none"
  PROVE  Top \in Nat \ {0} /\ Current \in Frame /\ \A i \in 1..Top : frames[i] \in Frame
  BY DEF Types, TypeOK, Top, Current

(* What a frame holds, and its changes by one field.                        *)
LEMMA FrameFields ==
  ASSUME NEW f \in Frame
  PROVE  /\ f.steps \in Nat /\ f.cost \in Nat /\ f.errors \in Nat
         /\ f.todo \in Nat /\ f.results \in Seq(BOOLEAN) /\ f.spent \in Nat
         /\ \A n \in Nat : [f EXCEPT !.cost = n] \in Frame
         /\ \A n \in Nat :
              /\ [f EXCEPT !.todo = n] \in Frame
              /\ [f EXCEPT !.todo = n].steps = f.steps
              /\ [f EXCEPT !.todo = n].cost = f.cost
              /\ [f EXCEPT !.todo = n].spent = f.spent
BY DEF Frame

(* The frames a step puts in the place of the top one.                      *)
LEMMA FramesMade ==
  ASSUME Types, Current \in Frame
  PROVE  /\ Observed \in Frame /\ Observed.cost = Current.cost
         /\ Observed.steps = Current.steps /\ Observed.spent = Current.spent
         /\ \A n \in Nat :
              /\ Charged(n) \in Frame
              /\ Charged(n).steps = Current.steps + 1
              /\ Charged(n).cost = Current.cost + 1
              /\ Charged(n).results = Current.results
              /\ Charged(n).spent = IF InSub THEN Current.spent + 1 ELSE Current.spent
         /\ Current.todo > 0 => \A ok \in BOOLEAN :
              /\ Called(ok) \in Frame /\ Called(ok).results # <<>>
              /\ Called(ok).steps = Current.steps
              /\ Called(ok).cost = Current.cost
              /\ Called(ok).spent = Current.spent
<1>1. /\ Current.steps + 1 \in Nat /\ Current.cost + 1 \in Nat
      /\ Current.spent \in Nat /\ Current.spent + 1 \in Nat
      /\ Current.errors \in Nat /\ Current.results \in Seq(BOOLEAN)
      /\ Len(Current.results) \in Nat
  BY DEF Frame
<1>2. /\ Observed \in Frame /\ Observed.cost = Current.cost
      /\ Observed.steps = Current.steps /\ Observed.spent = Current.spent
  <2>1. <<>> \in Seq(BOOLEAN)
    OBVIOUS
  <2>2. Streak(Current.errors, Current.results, Len(Current.results)) \in Nat
    BY <1>1, StreakIsNat
  <2> QED
    BY <2>1, <2>2 DEF Observed, Frame
<1>3. ASSUME NEW n \in Nat
      PROVE  /\ Charged(n) \in Frame
             /\ Charged(n).steps = Current.steps + 1
             /\ Charged(n).cost = Current.cost + 1
             /\ Charged(n).results = Current.results
             /\ Charged(n).spent = IF InSub THEN Current.spent + 1 ELSE Current.spent
  <2>1. (IF InSub THEN Current.spent + 1 ELSE Current.spent) \in Nat
    BY <1>1
  <2> QED
    BY <1>1, <2>1 DEF Charged, Frame
<1>4. ASSUME Current.todo > 0, NEW ok \in BOOLEAN
      PROVE  /\ Called(ok) \in Frame /\ Called(ok).results # <<>>
             /\ Called(ok).steps = Current.steps
             /\ Called(ok).cost = Current.cost
             /\ Called(ok).spent = Current.spent
  <2>1. /\ Current.todo \in Nat /\ Current.todo - 1 \in Nat
        /\ Append(Current.results, ok) \in Seq(BOOLEAN)
        /\ Append(Current.results, ok) # <<>>
    <3>1. Current.todo \in Nat /\ Current.todo > 0
      BY <1>4 DEF Frame
    <3>2. Append(Current.results, ok) \in Seq(BOOLEAN) /\ Append(Current.results, ok) # <<>>
      BY <1>1
    <3> QED
      BY <3>1, <3>2
  <2> QED
    BY <2>1 DEF Called, Frame
<1> QED
  BY <1>2, <1>3, <1>4

(* Leaving the top frame keeps the money and the steps of the others, and   *)
(* gives the caller a result, except the supervisor.                        *)
LEMMA PopKeeps ==
  ASSUME Types, root # "none", InSub, NEW ok \in BOOLEAN, Pop(ok)
  PROVE  /\ frames' \in Seq(Frame) /\ Top' = Top - 1 /\ Top' \in Nat \ {0}
         /\ frames' # <<>>
         /\ \A i \in 1..(Top - 1) :
              /\ frames'[i].steps = frames[i].steps
              /\ frames'[i].cost = frames[i].cost
              /\ frames'[i].spent = frames[i].spent
         /\ root = "turn" => frames'[Top - 1].results # <<>>
<1>1. Top \in Nat \ {0} /\ Top > 1 /\ \A i \in 1..Top : frames[i] \in Frame
  BY TopIsFrame DEF InSub
<1> DEFINE g(i) == IF i = Top - 1 /\ ~(root = "fan" /\ i = 1)
                   THEN [frames[i] EXCEPT !.results = Append(@, ok)]
                   ELSE frames[i]
<1>2. ASSUME NEW i \in 1..(Top - 1)
      PROVE  /\ g(i) \in Frame /\ g(i).steps = frames[i].steps
             /\ g(i).cost = frames[i].cost /\ g(i).spent = frames[i].spent
             /\ (root = "turn" /\ i = Top - 1) => g(i).results # <<>>
  <2>1. frames[i] \in Frame
    BY <1>1
  <2>2. frames[i].results \in Seq(BOOLEAN)
    BY <2>1 DEF Frame
  <2>3. Append(frames[i].results, ok) \in Seq(BOOLEAN)
        /\ Append(frames[i].results, ok) # <<>>
    BY <2>2
  <2> QED
    BY <2>1, <2>3 DEF Frame
<1>3. frames' = [i \in 1..(Top - 1) |-> g(i)]
  BY DEF Pop
<1> HIDE DEF g
<1>4. frames' \in Seq(Frame) /\ Len(frames') = Top - 1
  BY <1>1, <1>2, <1>3
<1>5. Top' = Top - 1
  BY <1>4 DEF Top
<1> QED
  BY <1>1, <1>2, <1>3, <1>4, <1>5

(* Changing the top frame.                                                  *)
LEMMA ReplaceKeeps ==
  ASSUME Types, root # "none", NEW f \in Frame, frames' = [frames EXCEPT ![Top] = f]
  PROVE  /\ frames' \in Seq(Frame) /\ Top' = Top /\ frames' # <<>>
         /\ frames'[Top] = f
         /\ \A i \in 1..(Top - 1) : frames'[i] = frames[i]
<1>1. Top \in Nat \ {0} /\ frames \in Seq(Frame) /\ Top = Len(frames)
  BY TopIsFrame DEF Types, TypeOK, Top
<1>2. frames' \in Seq(Frame) /\ Len(frames') = Len(frames)
  BY <1>1
<1>3. Top' = Top /\ frames' # <<>>
  BY <1>1, <1>2 DEF Top
<1>4. frames'[Top] = f /\ \A i \in 1..(Top - 1) : frames'[i] = frames[i]
  BY <1>1
<1> QED
  BY <1>2, <1>3, <1>4

(* A stack with one frame more.                                             *)
LEMMA Appended ==
  ASSUME NEW s \in Seq(Frame), NEW f \in Frame, NEW t, t = Append(s, f)
  PROVE  /\ t \in Seq(Frame) /\ Len(t) = Len(s) + 1 /\ t[Len(s) + 1] = f
         /\ \A i \in 1..Len(s) : t[i] = s[i]
BY AppendProperties

(* A call that starts a sub-agent is taken off the top frame, and the       *)
(* sub-agent gets a frame of its own.                                       *)
Pushes == frames' = Append([frames EXCEPT ![Top].todo = @ - 1], NewFrame)

(* The steps and the money of the frames below it stay.                     *)
LEMMA PushKeeps ==
  ASSUME Types, root # "none", Current.todo > 0, Pushes
  PROVE  /\ frames' \in Seq(Frame) /\ Top' = Top + 1 /\ frames' # <<>>
         /\ frames'[Top + 1] = NewFrame
         /\ \A i \in 1..Top :
              /\ frames'[i].steps = frames[i].steps
              /\ frames'[i].cost = frames[i].cost
              /\ frames'[i].spent = frames[i].spent
<1>1. Top \in Nat \ {0} /\ frames \in Seq(Frame) /\ Top = Len(frames) /\ Current \in Frame
  BY TopIsFrame DEF Types, TypeOK, Top
<1> DEFINE f == [Current EXCEPT !.todo = @ - 1]
           g == [frames EXCEPT ![Top] = f]
<1>2. f \in Frame /\ f.steps = Current.steps /\ f.cost = Current.cost
      /\ f.spent = Current.spent
  <2>1. Current.todo \in Nat
    BY <1>1, FrameFields
  <2>2. Current.todo - 1 \in Nat
    BY <2>1
  <2> QED
    BY <1>1, <2>2, FrameFields
<1>3. frames' = Append(g, NewFrame)
  BY <1>1 DEF Current, Pushes
<1> HIDE DEF f
<1>4. g \in Seq(Frame) /\ Len(g) = Top
  BY <1>1, <1>2
<1>5. NewFrame \in Frame
  BY DEF NewFrame, Frame
<1>6. frames' \in Seq(Frame) /\ Len(frames') = Top + 1 /\ frames' # <<>>
      /\ frames'[Top + 1] = NewFrame /\ \A i \in 1..Top : frames'[i] = g[i]
  <2> HIDE DEF g
  <2>1. /\ frames' \in Seq(Frame) /\ Len(frames') = Len(g) + 1
        /\ frames'[Len(g) + 1] = NewFrame
        /\ \A i \in 1..Len(g) : frames'[i] = g[i]
    BY <1>3, <1>4, <1>5, Appended
  <2>2. frames' # <<>>
    BY <1>1, <1>4, <2>1
  <2> QED
    BY <1>4, <2>1, <2>2
<1>7. \A i \in 1..Top : frames'[i].steps = frames[i].steps
        /\ frames'[i].cost = frames[i].cost /\ frames'[i].spent = frames[i].spent
  BY <1>1, <1>2, <1>6 DEF Current
<1> QED
  BY <1>6, <1>7 DEF Top

(* A reply goes to the end of the bus and names the request before it.      *)
LEMMA ReplyKeeps ==
  ASSUME BusType, NEW k \in {"response", "error"}
  PROVE  /\ log \o Reply(k) \in
              Seq([kind : {"request", "response", "error"}, task : Nat])
         /\ Len(log \o Reply(k)) = Len(log) + 1
         /\ \A i \in 1..Len(log) : (log \o Reply(k))[i] = log[i]
         /\ (log \o Reply(k))[Len(log) + 1].kind = k
         /\ (log \o Reply(k))[Len(log) + 1].task = Len(log)
<1> DEFINE m == [kind |-> k, task |-> Len(log)]
<1>1. Len(log) \in Nat /\ m \in [kind : {"request", "response", "error"}, task : Nat]
      /\ m.kind = k /\ m.task = Len(log)
  BY DEF BusType
<1> HIDE DEF m
<1>2. Reply(k) = <<m>>
  BY DEF Reply, m
<1>3. log \in Seq([kind : {"request", "response", "error"}, task : Nat])
  BY DEF BusType
<1> QED
  BY <1>1, <1>2, <1>3

(* The numbers of the history.                                              *)
LEMMA Amounts ==
  ASSUME Types
  PROVE  owed \in Nat /\ counted \in Nat /\ runs \in Nat /\ billed \in Nat /\ raised \in Nat
  BY DEF Types, TypeOK

(* Types, from a step's own account of them.                                *)
LEMMA TypesFrom ==
  ASSUME root' \in {"none", "turn", "fan"}, cancel' \in BOOLEAN,
         frames' \in Seq(Frame), frames' = <<>> <=> root' = "none",
         owed' \in Nat, counted' \in Nat, runs' \in Nat, billed' \in Nat, raised' \in Nat,
         log' \in Seq([kind : {"request", "response", "error"}, task : Nat])
  PROVE  Types'
<1>1. \A i \in DOMAIN log' : log'[i] \in [kind : {"request", "response", "error"}, task : Nat]
  <2> DEFINE M == [kind : {"request", "response", "error"}, task : Nat]
  <2>1. log' \in Seq(M)
    OBVIOUS
  <2> HIDE DEF M
  <2>2. \A i \in DOMAIN log' : log'[i] \in M
    BY <2>1
  <2> QED
    BY <2>2 DEF M
<1>2. {owed', counted', runs', billed', raised'} \subseteq Nat
  OBVIOUS
<1> QED
  BY <1>1, <1>2 DEF Types, TypeOK, BusType

(* At the start nothing is under way.                                       *)
LEMMA TypesInit ==
  ASSUME Init
  PROVE  Types
<1>1. /\ <<>> \in Seq(Frame) /\ DOMAIN <<>> = {}
      /\ <<>> \in Seq([kind : {"request", "response", "error"}, task : Nat])
  OBVIOUS
<1>2. frames = <<>> /\ log = <<>> /\ root = "none" /\ cancel = FALSE
      /\ owed = 0 /\ counted = 0 /\ runs = 0 /\ billed = 0 /\ raised = 0
  BY DEF Init
<1>3. \A i \in DOMAIN log : log[i] \in [kind : {"request", "response", "error"}, task : Nat]
  BY <1>1, <1>2
<1>4. {owed, counted, runs, billed, raised} \subseteq Nat
  BY <1>2
<1>5. frames \in Seq(Frame) /\ (frames = <<>> <=> root = "none")
  BY <1>1, <1>2
<1>6. BusType
  BY <1>1, <1>2 DEF BusType
<1> QED
  BY <1>2, <1>3, <1>4, <1>5, <1>6 DEF Types, TypeOK

(* A sub-agent that returns.                                                *)
LEMMA ReturnKeepsTypes ==
  ASSUME Types, root # "none", InSub, NEW n \in Nat, Return(n),
         billed' \in Nat, raised' \in Nat
  PROVE  Types'
<1>1. frames' \in Seq(Frame) /\ frames' # <<>>
  BY PopKeeps DEF Return
<1>2. counted' \in Nat /\ owed' \in Nat
  BY Amounts DEF Return, OwedWith
<1>3. log' \in Seq([kind : {"request", "response", "error"}, task : Nat])
  BY ReplyKeeps DEF Return, Types, BusType
<1>4. root' = root /\ cancel' = cancel /\ runs' = runs
  BY DEF Return
<1> QED
  BY <1>1, <1>2, <1>3, <1>4, Amounts, TypesFrom DEF Types, TypeOK

(* Every step keeps the types, the stack of frames among them.              *)
LEMMA TypesNext ==
  ASSUME Types, [Next]_vars
  PROVE  Types'
<1> DEFINE Log == Seq([kind : {"request", "response", "error"}, task : Nat])
<1>t. /\ root \in {"none", "turn", "fan"} /\ cancel \in BOOLEAN
      /\ frames \in Seq(Frame) /\ (frames = <<>> <=> root = "none")
      /\ owed \in Nat /\ counted \in Nat /\ runs \in Nat /\ billed \in Nat
      /\ raised \in Nat /\ log \in Log
  BY DEF Types, TypeOK, BusType
<1>e. <<>> \in Log /\ <<>> \in Seq(Frame)
  OBVIOUS
<1> HIDE DEF Log
<1>n. NewFrame \in Frame
  BY DEF NewFrame, Frame
<1>z. RootEnds => root' = "none" /\ frames' = <<>>
  BY DEF RootEnds
<1>l. ASSUME log' \in Log, root' \in {"none", "turn", "fan"}, cancel' \in BOOLEAN,
             frames' \in Seq(Frame), frames' = <<>> <=> root' = "none",
             owed' \in Nat, counted' \in Nat, runs' \in Nat, billed' \in Nat, raised' \in Nat
      PROVE  Types'
  BY <1>l, TypesFrom DEF Log
<1>1. CASE StartTurn
  <2>1. <<NewFrame>> \in Seq(Frame) /\ <<NewFrame>> # <<>>
    BY <1>n
  <2> QED
    BY <1>1, <1>t, <1>e, <2>1, <1>l DEF StartTurn, Begin, OwedAtStart
<1>2. ASSUME NEW n \in 0..MaxFan, StartFan(n) PROVE Types'
  <2>1. [NewFrame EXCEPT !.todo = n] \in Frame
    <3>1. n \in Nat
      BY DelegationAssumption
    <3> QED
      BY <1>n, <3>1, FrameFields
  <2>2. PICK f \in Frame : frames' = <<f>>
    BY <1>2, <2>1 DEF StartFan
  <2>3. frames' \in Seq(Frame) /\ frames' # <<>>
    BY <2>2
  <2> QED
    BY <1>2, <1>t, <1>e, <2>3, <1>l DEF StartFan, Begin, OwedAtStart
<1>3. ASSUME NEW n \in 0..MaxFan, Think(n) PROVE Types'
  <2>1. root # "none" /\ Current \in Frame /\ n \in Nat
    BY <1>3, TopIsFrame, DelegationAssumption DEF Think, Between
  <2>2. CASE n = 0 /\ InSub
    <3>1. Return(Current.spent + 1) /\ billed' \in Nat /\ raised' = raised
      BY <1>3, <1>t, <2>2 DEF Think
    <3> QED
      BY <3>1, <2>1, <2>2, <1>t, ReturnKeepsTypes DEF Frame
  <2>3. CASE n = 0 /\ ~InSub
    BY <1>3, <1>t, <1>e, <1>z, <1>l, <2>3 DEF Think
  <2>4. CASE n # 0
    <3>1. Charged(n) \in Frame /\ frames' = [frames EXCEPT ![Top] = Charged(n)]
      BY <1>3, <2>1, <2>4, FramesMade DEF Think
    <3>2. frames' \in Seq(Frame) /\ frames' # <<>>
      BY <3>1, <2>1, ReplaceKeeps
    <3>3. counted' \in Nat /\ billed' \in Nat /\ root' = root /\ owed' = owed
          /\ cancel' = cancel /\ log' = log /\ runs' = runs /\ raised' = raised
      BY <1>3, <1>t, <2>4 DEF Think
    <3> QED
      BY <1>t, <2>1, <3>2, <3>3, <1>l
  <2> QED
    BY <2>2, <2>3, <2>4
<1>4. ASSUME NEW ok \in BOOLEAN, RunTool(ok) PROVE Types'
  <2>1. root # "none" /\ Current \in Frame /\ Current.todo > 0
    BY <1>4, TopIsFrame DEF RunTool
  <2>2. Called(ok) \in Frame /\ frames' = [frames EXCEPT ![Top] = Called(ok)]
    BY <1>4, <2>1, FramesMade DEF RunTool
  <2>3. frames' \in Seq(Frame) /\ frames' # <<>>
    BY <2>1, <2>2, ReplaceKeeps
  <2> QED
    BY <1>4, <1>t, <2>1, <2>3, <1>l DEF RunTool
<1>5. CASE Halt
  <2>1. root # "none" /\ Current \in Frame
    BY <1>5, TopIsFrame DEF Halt, Between
  <2>2. CASE InSub
    BY <1>5, <1>t, <2>1, <2>2, ReturnKeepsTypes DEF Halt, Frame
  <2>3. CASE ~InSub
    BY <1>5, <1>t, <1>e, <1>z, <1>l, <2>3 DEF Halt
  <2> QED
    BY <2>2, <2>3
<1>6. CASE Raise
  <2>1. root # "none" /\ Current \in Frame
    BY <1>6, TopIsFrame DEF Raise, Between
  <2>2. CASE InSub
    <3>1. frames' \in Seq(Frame) /\ frames' # <<>>
      BY <1>6, <2>1, <2>2, PopKeeps DEF Raise
    <3>2. raised' \in Nat
      <4>1. raised' = raised + Current.spent
        BY <1>6, <2>2 DEF Raise
      <4>2. Current.spent \in Nat
        BY <2>1 DEF Frame
      <4> QED
        BY <1>t, <4>1, <4>2
    <3>3. log' \in Log
      BY <1>6, <1>t, <2>2, ReplyKeeps DEF Raise, Types, Log
    <3> QED
      BY <1>6, <1>t, <2>1, <2>2, <3>1, <3>2, <3>3, <1>l DEF Raise
  <2>3. CASE ~InSub
    BY <1>6, <1>t, <1>e, <1>z, <1>l, <2>3 DEF Raise
  <2> QED
    BY <2>2, <2>3
<1>7. CASE Delegate
  <2>1. root # "none" /\ Current \in Frame /\ Current.todo > 0
    BY <1>7, TopIsFrame DEF Delegate
  <2>2. frames' \in Seq(Frame) /\ frames' # <<>>
    <3>1. CASE MayNest(Top)
      BY <1>7, <2>1, <3>1, PushKeeps DEF Delegate, Pushes
    <3>2. CASE ~MayNest(Top)
      <4>1. Called(TRUE) \in Frame /\ frames' = [frames EXCEPT ![Top] = Called(TRUE)]
        BY <1>7, <2>1, <3>2, FramesMade DEF Delegate
      <4> QED
        BY <2>1, <4>1, ReplaceKeeps
    <3> QED
      BY <3>1, <3>2
  <2> QED
    BY <1>7, <1>t, <2>1, <2>2, <1>l DEF Delegate
<1>8. CASE FanOut
  <2>1. root # "none" /\ Current.todo > 0 /\ Top = 1
    BY <1>8 DEF FanOut, InFan
  <2>2. frames' \in Seq(Frame) /\ frames' # <<>>
    BY <1>8, <2>1, PushKeeps DEF FanOut, Pushes
  <2>3. log' \in Log
    BY <1>8, <1>t DEF FanOut, Log
  <2> QED
    BY <1>8, <1>t, <2>1, <2>2, <2>3, <1>l DEF FanOut
<1>9. CASE FanEnds
  BY <1>9, <1>t, <1>e, <1>z, <1>l DEF FanEnds
<1>10. CASE ObserveInSub
  <2>1. root # "none" /\ Current \in Frame /\ InSub
    BY <1>10, <1>t, TopIsFrame DEF ObserveInSub, InSub, Top
  <2>2. CASE TooManyErrors
    BY <1>10, <1>t, <2>1, <2>2, ReturnKeepsTypes DEF ObserveInSub, Frame
  <2>3. CASE ~TooManyErrors
    <3>1. frames' \in Seq(Frame) /\ frames' # <<>>
      BY <1>10, FramesMade, <2>1, <2>3, ReplaceKeeps DEF ObserveInSub
    <3> QED
      BY <1>10, <1>t, <2>1, <2>3, <3>1, <1>l DEF ObserveInSub
  <2> QED
    BY <2>2, <2>3
<1>11. CASE ObserveInTurn
  <2>1. root = "turn" /\ Current \in Frame
    BY <1>11, TopIsFrame DEF ObserveInTurn, InTurn
  <2>2. counted' \in Nat /\ owed' \in Nat
    BY <1>11, <1>t DEF ObserveInTurn, OwedAfterTake
  <2>3. CASE TooManyErrors \/ cancel
    BY <1>11, <1>t, <1>e, <1>z, <1>l, <2>2, <2>3 DEF ObserveInTurn
  <2>4. CASE ~(TooManyErrors \/ cancel)
    <3>1. Observed \in Frame
      BY <2>1, FramesMade
    <3>2. [Observed EXCEPT !.cost = @ + owed] \in Frame
      <4>1. Observed.cost \in Nat
        BY <3>1, FrameFields
      <4>2. Observed.cost + owed \in Nat
        BY <4>1, <1>t
      <4> QED
        BY <3>1, <4>2, FrameFields
    <3>3. PICK f \in Frame : frames' = <<f>>
      BY <1>11, <2>4, <3>2 DEF ObserveInTurn
    <3>4. frames' \in Seq(Frame) /\ frames' # <<>>
      BY <3>3
    <3> QED
      BY <1>11, <1>t, <2>1, <2>2, <2>4, <3>4, <1>l DEF ObserveInTurn
  <2> QED
    BY <2>3, <2>4
<1>12. CASE Cancel
  BY <1>12, <1>t, <1>l DEF Cancel
<1>13. CASE EndCancelled
  BY <1>13, <1>t, <1>e, <1>z, <1>l DEF EndCancelled
<1>14. CASE UNCHANGED vars
  BY <1>14, <1>t, <1>l DEF vars
<1> QED
  BY <1>1, <1>2, <1>3, <1>4, <1>5, <1>6, <1>7, <1>8, <1>9, <1>10, <1>11, <1>12,
     <1>13, <1>14 DEF Next

-----------------------------------------------------------------------------
(* The limits.                                                              *)

(* The limits hold where there is no frame.                                 *)
LEMMA TightenInit ==
  ASSUME Init
  PROVE  DelegatesOnlyTighten
<1>1. Top = 0
  BY DEF Init, Top
<1> QED
  BY <1>1, DelegationAssumption DEF DelegatesOnlyTighten

(* A frame is pushed at the depth that was asked for or by the supervisor,  *)
(* and a breaker that has not tripped has a step left.                      *)
LEMMA TightenNext ==
  ASSUME Types, DelegatesOnlyTighten, [Next]_vars
  PROVE  DelegatesOnlyTighten'
<1> DEFINE limit == Minimum(SubSteps, MaxSteps)
<1>d. MaxDepth \in Nat /\ SubSteps \in Nat /\ MaxSteps \in Nat /\ limit \in Nat
  BY DelegationAssumption DEF Minimum
<1>h. \A i \in 2..Top : frames[i].steps <= limit
  BY DEF DelegatesOnlyTighten
<1>g. Top - 1 <= MaxDepth \/ (root = "fan" /\ Top = 2)
  BY DEF DelegatesOnlyTighten
<1>t. Types'
  BY TypesNext
<1>q. ASSUME \A i \in 2..Top' : frames'[i].steps <= limit,
             Top' - 1 <= MaxDepth \/ (root' = "fan" /\ Top' = 2)
      PROVE  DelegatesOnlyTighten'
  BY <1>q DEF DelegatesOnlyTighten
<1> HIDE DEF limit
<1>b. ASSUME Top' \in {0, 1} PROVE DelegatesOnlyTighten'
  <2>1. PICK n \in {0, 1} : Top' = n
    BY <1>b
  <2>2. 2..n = {} /\ n - 1 <= MaxDepth
    BY <1>d
  <2> QED
    BY <2>1, <2>2, <1>q
<1>z. ASSUME RootEnds PROVE DelegatesOnlyTighten'
  BY <1>z, <1>b DEF RootEnds, Top
<1>p. ASSUME root # "none", InSub, NEW ok \in BOOLEAN, Pop(ok)
      PROVE  DelegatesOnlyTighten'
  <2>1. Top' = Top - 1 /\ Top' \in Nat \ {0} /\ Top \in Nat
        /\ \A i \in 1..(Top - 1) : frames'[i].steps = frames[i].steps
    BY <1>p, PopKeeps, TopIsFrame
  <2>2. \A i \in 2..Top' : frames'[i].steps <= limit
    BY <2>1, <1>h
  <2> QED
    BY <2>1, <2>2, <1>g, <1>d, <1>q, <1>b
<1>s. ASSUME root # "none", NEW f \in Frame, frames' = [frames EXCEPT ![Top] = f],
             root' = root, InSub => f.steps <= limit
      PROVE  DelegatesOnlyTighten'
  <2>1. Top' = Top /\ Top \in Nat \ {0} /\ frames'[Top] = f
        /\ \A i \in 1..(Top - 1) : frames'[i] = frames[i]
    BY <1>s, ReplaceKeeps, TopIsFrame
  <2>2. \A i \in 2..Top' : frames'[i].steps <= limit
    <3> SUFFICES ASSUME NEW i \in 2..Top' PROVE frames'[i].steps <= limit
      OBVIOUS
    <3>1. CASE i = Top
      BY <3>1, <2>1, <1>s DEF InSub
    <3>2. CASE i # Top
      BY <3>2, <2>1, <1>h
    <3> QED
      BY <3>1, <3>2
  <2> QED
    BY <2>1, <2>2, <1>s, <1>g, <1>q
<1>c. root # "none" => /\ Top \in Nat \ {0} /\ Current \in Frame
                       /\ InSub => Current.steps <= limit
  BY TopIsFrame, <1>h DEF InSub, Current
<1>u. ASSUME root # "none", Current.todo > 0,
             frames' = Append([frames EXCEPT ![Top].todo = @ - 1], NewFrame),
             Top <= MaxDepth \/ (root' = "fan" /\ Top = 1)
      PROVE  DelegatesOnlyTighten'
  <2>1. Top' = Top + 1 /\ Top \in Nat \ {0} /\ frames'[Top + 1] = NewFrame
        /\ \A i \in 1..Top : frames'[i].steps = frames[i].steps
    BY <1>u, PushKeeps, TopIsFrame DEF Pushes
  <2>2. NewFrame.steps <= limit
    BY <1>d DEF NewFrame
  <2>3. \A i \in 2..Top' : frames'[i].steps <= limit
    <3> SUFFICES ASSUME NEW i \in 2..Top' PROVE frames'[i].steps <= limit
      OBVIOUS
    <3>1. CASE i = Top + 1
      BY <3>1, <2>1, <2>2
    <3>2. CASE i # Top + 1
      BY <3>2, <2>1, <1>h
    <3> QED
      BY <3>1, <3>2
  <2>4. Top' - 1 <= MaxDepth \/ (root' = "fan" /\ Top' = 2)
    BY <2>1, <1>u, <1>d
  <2> QED
    BY <2>3, <2>4, <1>q
<1>1. CASE StartTurn
  BY <1>1, <1>b DEF StartTurn, Top
<1>2. ASSUME NEW n \in 0..MaxFan, StartFan(n) PROVE DelegatesOnlyTighten'
  BY <1>2, <1>b DEF StartFan, Top
<1>3. ASSUME NEW n \in 0..MaxFan, Think(n) PROVE DelegatesOnlyTighten'
  <2>0. root # "none" /\ n \in Nat
    BY <1>3, DelegationAssumption DEF Think, Between
  <2>1. CASE n = 0
    BY <1>3, <1>p, <1>z, <2>0, <2>1 DEF Think, Return
  <2>2. CASE n # 0
    <3>1. frames' = [frames EXCEPT ![Top] = Charged(n)] /\ root' = root
      BY <1>3, <2>2 DEF Think
    <3>2. Charged(n) \in Frame /\ Charged(n).steps = Current.steps + 1
      BY <1>c, <2>0, FramesMade
    <3>3. InSub => Current.steps + 1 <= limit
      <4> SUFFICES ASSUME InSub PROVE Current.steps + 1 <= limit
        OBVIOUS
      <4>1. ~(Current.steps >= Budget(Top))
        BY <1>3 DEF Think, Tripped
      <4>2. Budget(Top) = limit
        BY <1>c, <2>0 DEF Budget, InSub, limit
      <4>3. Current.steps \in Nat
        BY <1>c, <2>0 DEF Frame
      <4> QED
        BY <4>1, <4>2, <4>3, <1>d
    <3> QED
      BY <2>0, <3>1, <3>2, <3>3, <1>s
  <2> QED
    BY <2>1, <2>2
<1>4. ASSUME NEW ok \in BOOLEAN, RunTool(ok) PROVE DelegatesOnlyTighten'
  <2>1. root # "none" /\ Current.todo > 0 /\ root' = root
        /\ frames' = [frames EXCEPT ![Top] = Called(ok)]
    BY <1>4 DEF RunTool
  <2>2. Called(ok) \in Frame /\ Called(ok).steps = Current.steps
    BY <2>1, <1>c, FramesMade
  <2> QED
    BY <2>1, <2>2, <1>c, <1>s
<1>5. CASE Halt
  <2>1. root # "none"
    BY <1>5 DEF Halt, Between
  <2> QED
    BY <1>5, <1>p, <1>z, <2>1 DEF Halt, Return
<1>6. CASE Raise
  <2>1. root # "none"
    BY <1>6 DEF Raise, Between
  <2> QED
    BY <1>6, <1>p, <1>z, <2>1 DEF Raise
<1>7. CASE Delegate
  <2>1. root # "none" /\ Current.todo > 0 /\ root' = root
    BY <1>7 DEF Delegate
  <2>2. CASE MayNest(Top)
    BY <1>7, <1>u, <2>1, <2>2 DEF Delegate, MayNest
  <2>3. CASE ~MayNest(Top)
    <3>1. frames' = [frames EXCEPT ![Top] = Called(TRUE)]
      BY <1>7, <2>3 DEF Delegate
    <3>2. Called(TRUE) \in Frame /\ Called(TRUE).steps = Current.steps
      BY <2>1, <1>c, FramesMade
    <3> QED
      BY <2>1, <3>1, <3>2, <1>c, <1>s
  <2> QED
    BY <2>2, <2>3
<1>8. CASE FanOut
  BY <1>8, <1>u DEF FanOut, InFan
<1>9. CASE FanEnds
  BY <1>9, <1>z DEF FanEnds
<1>10. CASE ObserveInSub
  <2>1. root # "none" /\ InSub
    BY <1>10 DEF ObserveInSub, InSub, Top, Types, TypeOK
  <2>2. CASE TooManyErrors
    BY <1>10, <1>p, <2>1, <2>2 DEF ObserveInSub, Return
  <2>3. CASE ~TooManyErrors
    <3>1. frames' = [frames EXCEPT ![Top] = Observed] /\ root' = root
      BY <1>10, <2>3 DEF ObserveInSub
    <3>2. Observed \in Frame /\ Observed.steps = Current.steps
      BY <2>1, <1>c, FramesMade
    <3> QED
      BY <2>1, <3>1, <3>2, <1>c, <1>s
  <2> QED
    BY <2>2, <2>3
<1>11. CASE ObserveInTurn
  <2>1. CASE TooManyErrors \/ cancel
    BY <1>11, <2>1, <1>z DEF ObserveInTurn
  <2>2. CASE ~(TooManyErrors \/ cancel)
    BY <1>11, <2>2, <1>b DEF ObserveInTurn, Top
  <2> QED
    BY <2>1, <2>2
<1>12. CASE Cancel
  BY <1>12, <1>h, <1>g, <1>q DEF Cancel, Top
<1>13. CASE EndCancelled
  BY <1>13, <1>z DEF EndCancelled
<1>14. CASE UNCHANGED vars
  BY <1>14, <1>h, <1>g, <1>q DEF vars, Top
<1> QED
  BY <1>1, <1>2, <1>3, <1>4, <1>5, <1>6, <1>7, <1>8, <1>9, <1>10, <1>11, <1>12,
     <1>13, <1>14 DEF Next

-----------------------------------------------------------------------------
(* The bus.                                                                 *)

(* The bus is empty at the start.                                           *)
LEMMA BusInit ==
  ASSUME Init
  PROVE  BusInv
  BY DEF Init, BusInv

(* The supervisor is alone between two tasks, and its sub-agent's end is    *)
(* the reply: nothing else touches the bus.                                 *)
LEMMA BusNext ==
  ASSUME Types, BusInv, [Next]_vars
  PROVE  BusInv'
<1> DEFINE Paired(l) ==
      \A i \in DOMAIN l :
        IF i % 2 = 1 THEN l[i].kind = "request" /\ l[i].task = i
        ELSE l[i].kind # "request" /\ l[i].task = i - 1
<1>1. Paired(log) /\ (root = "fan" => (Len(log) % 2 = 0 <=> Top = 1))
  BY DEF BusInv
<1>2. ASSUME Paired(log'), root' = "fan" => (Len(log') % 2 = 0 <=> Top' = 1)
      PROVE  BusInv'
  BY <1>2 DEF BusInv
<1>l. Len(log) \in Nat
  BY DEF Types, BusType
<1>3. ASSUME NEW k \in {"response", "error"}, log' = log \o Reply(k),
             root = "fan", Top = 2, Top' = 1
      PROVE  BusInv'
  <2>1. /\ Len(log') = Len(log) + 1
        /\ \A i \in 1..Len(log) : log'[i] = log[i]
        /\ log'[Len(log) + 1].kind = k /\ log'[Len(log) + 1].task = Len(log)
        /\ DOMAIN log' = 1..Len(log') /\ DOMAIN log = 1..Len(log)
    BY <1>3, ReplyKeeps DEF Types, BusType
  <2>2. Len(log) % 2 # 0
    BY <1>1, <1>3
  <2>3. (Len(log) + 1) % 2 = 0
    BY <2>2, <1>l
  <2>4. ASSUME NEW i \in DOMAIN log'
        PROVE  IF i % 2 = 1 THEN log'[i].kind = "request" /\ log'[i].task = i
               ELSE log'[i].kind # "request" /\ log'[i].task = i - 1
    <3>1. CASE i \in 1..Len(log)
      BY <3>1, <2>1, <1>1
    <3>2. CASE i = Len(log) + 1
      <4>1. i % 2 # 1 /\ i - 1 = Len(log)
        BY <3>2, <2>3, <1>l
      <4>2. log'[i].kind # "request" /\ log'[i].task = Len(log)
        BY <3>2, <2>1, <1>3
      <4> QED
        BY <4>1, <4>2
    <3> QED
      BY <3>1, <3>2, <2>1, <1>l
  <2> QED
    BY <2>1, <2>3, <2>4, <1>2, <1>3
<1>4. ASSUME UNCHANGED <<log, root>>, root = "fan" => (Top' = 1 <=> Top = 1)
      PROVE  BusInv'
  BY <1>4, <1>1, <1>2
<1>5. ASSUME log' = log, RootEnds
      PROVE  BusInv'
  BY <1>5, <1>1, <1>2 DEF RootEnds
<1>6. ASSUME root # "none", InSub, NEW ok \in BOOLEAN, Pop(ok), root' = root,
             NEW k \in {"response", "error"},
             log' = IF root = "fan" /\ Top = 2 THEN log \o Reply(k) ELSE log
      PROVE  BusInv'
  <2>1. Top' = Top - 1 /\ Top \in Nat /\ Top > 1
    BY <1>6, PopKeeps, TopIsFrame DEF InSub
  <2>2. CASE root = "fan" /\ Top = 2
    <3>1. log' = log \o Reply(k) /\ Top' = 1
      BY <2>1, <2>2, <1>6
    <3> QED
      BY <2>2, <3>1, <1>3
  <2>3. CASE ~(root = "fan" /\ Top = 2)
    BY <2>1, <2>3, <1>4, <1>6
  <2> QED
    BY <2>2, <2>3
<1>7. ASSUME root # "none", InSub, NEW n, Return(n) PROVE BusInv'
  <2>1. Pop(TRUE) /\ root' = root
        /\ log' = IF root = "fan" /\ Top = 2 THEN log \o Reply("response") ELSE log
    BY <1>7 DEF Return
  <2> QED
    BY <1>6, <1>7, <2>1
<1>8. ASSUME root # "none", NEW f \in Frame, frames' = [frames EXCEPT ![Top] = f],
             UNCHANGED <<log, root>>
      PROVE  BusInv'
  BY <1>8, <1>4, ReplaceKeeps
<1>c. root # "none" => Top \in Nat \ {0} /\ Current \in Frame
  BY TopIsFrame
<1> HIDE DEF Paired
<1>e. Paired(<<>>)
  BY DEF Paired
<1>9. CASE StartTurn
  <2>1. log' = <<>> /\ root' = "turn"
    BY <1>9 DEF StartTurn, Begin
  <2> QED
    BY <2>1, <1>e, <1>2
<1>10. ASSUME NEW n \in 0..MaxFan, StartFan(n) PROVE BusInv'
  <2>1. log' = <<>> /\ Top' = 1
    BY <1>10 DEF StartFan, Begin, Top
  <2>2. Len(log') % 2 = 0
    BY <2>1
  <2> QED
    BY <2>1, <2>2, <1>e, <1>2
<1>11. ASSUME NEW n \in 0..MaxFan, Think(n) PROVE BusInv'
  <2>0. root # "none" /\ n \in Nat
    BY <1>11, DelegationAssumption DEF Think, Between
  <2>1. CASE n = 0 /\ InSub
    BY <1>11, <1>7, <2>0, <2>1 DEF Think
  <2>2. CASE n = 0 /\ ~InSub
    BY <1>11, <1>5, <2>2 DEF Think
  <2>3. CASE n # 0
    <3>1. frames' = [frames EXCEPT ![Top] = Charged(n)] /\ UNCHANGED <<log, root>>
      BY <1>11, <2>3 DEF Think
    <3> QED
      BY <2>0, <3>1, <1>8, <1>c, FramesMade
  <2> QED
    BY <2>1, <2>2, <2>3
<1>12. ASSUME NEW ok \in BOOLEAN, RunTool(ok) PROVE BusInv'
  <2>1. root # "none" /\ Current.todo > 0 /\ UNCHANGED <<log, root>>
        /\ frames' = [frames EXCEPT ![Top] = Called(ok)]
    BY <1>12 DEF RunTool
  <2> QED
    BY <2>1, <1>8, <1>c, FramesMade
<1>13. CASE Halt
  <2>0. root # "none"
    BY <1>13 DEF Halt, Between
  <2>1. CASE InSub
    BY <1>13, <1>7, <2>0, <2>1 DEF Halt
  <2>2. CASE ~InSub
    BY <1>13, <1>5, <2>2 DEF Halt
  <2> QED
    BY <2>1, <2>2
<1>14. CASE Raise
  <2>0. root # "none"
    BY <1>14 DEF Raise, Between
  <2>1. CASE InSub
    <3>1. Pop(FALSE) /\ root' = root
          /\ log' = IF root = "fan" /\ Top = 2 THEN log \o Reply("error") ELSE log
      BY <1>14, <2>1 DEF Raise
    <3> QED
      BY <2>0, <2>1, <3>1, <1>6
  <2>2. CASE ~InSub
    BY <1>14, <1>5, <2>2 DEF Raise
  <2> QED
    BY <2>1, <2>2
<1>15. CASE Delegate
  <2>1. root # "none" /\ Current.todo > 0 /\ UNCHANGED <<log, root>> /\ ~InFan
    BY <1>15 DEF Delegate
  <2>2. CASE MayNest(Top)
    <3>1. Top' = Top + 1
      BY <1>15, <2>1, <2>2, PushKeeps DEF Delegate, Pushes
    <3> QED
      BY <2>1, <3>1, <1>c, <1>4 DEF InFan
  <2>3. CASE ~MayNest(Top)
    <3>1. frames' = [frames EXCEPT ![Top] = Called(TRUE)]
      BY <1>15, <2>3 DEF Delegate
    <3> QED
      BY <2>1, <3>1, <1>8, <1>c, FramesMade
  <2> QED
    BY <2>2, <2>3
<1>16. CASE FanOut
  <2>1. root = "fan" /\ Top = 1 /\ Current.todo > 0 /\ root' = root
        /\ log' = Append(log, [kind |-> "request", task |-> Len(log) + 1])
    BY <1>16 DEF FanOut, InFan
  <2>2. Top' = 2
    BY <1>16, <2>1, PushKeeps DEF FanOut, Pushes
  <2>3. Len(log) % 2 = 0
    BY <2>1, <1>1
  <2>4. (Len(log) + 1) % 2 = 1
    BY <2>3, <1>l
  <2> DEFINE m == [kind |-> "request", task |-> Len(log) + 1]
  <2>5. m.kind = "request" /\ m.task = Len(log) + 1
    OBVIOUS
  <2> HIDE DEF m
  <2>6. /\ Len(log') = Len(log) + 1 /\ DOMAIN log' = 1..Len(log') /\ DOMAIN log = 1..Len(log)
        /\ \A i \in 1..Len(log) : log'[i] = log[i]
        /\ log'[Len(log) + 1] = m
    BY <2>1 DEF m, Types, BusType
  <2>7. Paired(log')
    <3> SUFFICES ASSUME NEW i \in DOMAIN log'
                 PROVE  IF i % 2 = 1 THEN log'[i].kind = "request" /\ log'[i].task = i
                        ELSE log'[i].kind # "request" /\ log'[i].task = i - 1
      BY DEF Paired
    <3>1. CASE i \in 1..Len(log)
      BY <3>1, <2>6, <1>1 DEF Paired
    <3>2. CASE i = Len(log) + 1
      BY <3>2, <2>4, <2>5, <2>6
    <3> QED
      BY <3>1, <3>2, <2>6, <1>l
  <2> QED
    BY <2>2, <2>4, <2>6, <2>7, <1>2
<1>17. CASE FanEnds
  BY <1>17, <1>5 DEF FanEnds
<1>18. CASE ObserveInSub
  <2>1. root # "none" /\ InSub
    BY <1>18 DEF ObserveInSub, InSub, Top, Types, TypeOK
  <2>2. CASE TooManyErrors
    BY <1>18, <1>7, <2>1, <2>2 DEF ObserveInSub
  <2>3. CASE ~TooManyErrors
    <3>1. frames' = [frames EXCEPT ![Top] = Observed] /\ UNCHANGED <<log, root>>
      BY <1>18, <2>3 DEF ObserveInSub
    <3> QED
      BY <2>1, <3>1, <1>8, <1>c, FramesMade
  <2> QED
    BY <2>2, <2>3
<1>19. CASE ObserveInTurn
  <2>1. CASE TooManyErrors \/ cancel
    BY <1>19, <2>1, <1>5 DEF ObserveInTurn
  <2>2. CASE ~(TooManyErrors \/ cancel)
    BY <1>19, <2>2, <1>4 DEF ObserveInTurn, InTurn
  <2> QED
    BY <2>1, <2>2
<1>20. CASE Cancel
  BY <1>20, <1>4 DEF Cancel, Top
<1>21. CASE EndCancelled
  BY <1>21, <1>5 DEF EndCancelled
<1>22. CASE UNCHANGED vars
  BY <1>22, <1>4 DEF vars, Top
<1> QED
  BY <1>9, <1>10, <1>11, <1>12, <1>13, <1>14, <1>15, <1>16, <1>17, <1>18, <1>19,
     <1>20, <1>21, <1>22 DEF Next

-----------------------------------------------------------------------------
(* The money.                                                               *)

(* Held, for the frames after a step.                                       *)
HeldThen(h) ==
  /\ h \in [1..Top' -> Nat] /\ h[1] = 0
  /\ \A i \in 2..Top' : h[i] = h[i - 1] + frames'[i].spent

(* The partial sums of the new stack settle the account after a step.       *)
LEMMA SpendThen ==
  ASSUME counted' = frames'[1].cost,
         Top' = 1 /\ frames'[1].results = <<>> => owed' = 0,
         NEW h, HeldThen(h), billed' = counted' + owed' + raised' + h[Top']
  PROVE  SpendInv'
BY DEF SpendInv, Held, HeldThen

(* A sub-agent is left: what its frame held, and what its last call cost,   *)
(* goes to the accumulator or is lost.                                      *)
LEMMA PopSpends ==
  ASSUME Types, SpendInv, root = "turn", InSub, NEW ok \in BOOLEAN, Pop(ok),
         NEW d \in Nat, counted' = counted, billed' = billed + d,
         owed' + raised' = owed + raised + Current.spent + d,
         owed' \in Nat, raised' \in Nat
  PROVE  SpendInv'
<1>1. /\ Top \in Nat \ {0} /\ Top > 1 /\ Current \in Frame
  BY TopIsFrame DEF InSub
<1>2. /\ Top' = Top - 1 /\ Top' \in Nat \ {0}
      /\ \A i \in 1..(Top - 1) : /\ frames'[i].cost = frames[i].cost
                                 /\ frames'[i].spent = frames[i].spent
      /\ frames'[Top - 1].results # <<>>
  BY PopKeeps
<1>3. PICK h : Held(h) /\ billed = counted + owed + raised + h[Top]
  BY DEF SpendInv
<1>4. /\ h \in [1..Top -> Nat] /\ h[1] = 0 /\ h[Top] = h[Top - 1] + Current.spent
      /\ \A i \in 2..Top : h[i] = h[i - 1] + frames[i].spent
  BY <1>1, <1>3 DEF Held, Current
<1>5. PICK g : g = [i \in 1..(Top - 1) |-> h[i]]
  OBVIOUS
<1>6. HeldThen(g)
  BY <1>1, <1>2, <1>4, <1>5 DEF HeldThen
<1>7. g[Top'] = h[Top - 1] /\ h[Top - 1] \in Nat /\ h[Top] \in Nat
  BY <1>1, <1>2, <1>4, <1>5
<1>8. billed' = counted' + owed' + raised' + g[Top']
  <2>1. Current.spent \in Nat
    BY <1>1 DEF Frame
  <2>2. billed' = counted + owed + raised + h[Top] + d
    BY <1>3
  <2>3. counted + owed + raised + h[Top] + d = counted + owed' + raised' + h[Top - 1]
    <3>1. h[Top] = h[Top - 1] + Current.spent
      BY <1>4
    <3> QED
      BY <3>1, <1>7, <2>1, Amounts
  <2> QED
    BY <1>7, <2>2, <2>3
<1>9. counted' = frames'[1].cost
  BY <1>1, <1>2 DEF SpendInv
<1> QED
  BY <1>2, <1>6, <1>8, <1>9, SpendThen

(* A sub-agent goes on, having spent d more.                                *)
LEMMA ReplaceSpends ==
  ASSUME Types, SpendInv, root = "turn", InSub,
         NEW f \in Frame, frames' = [frames EXCEPT ![Top] = f],
         NEW d \in Nat, f.spent = Current.spent + d,
         counted' = counted, billed' = billed + d, owed' = owed, raised' = raised
  PROVE  SpendInv'
<1>1. Top \in Nat \ {0} /\ Top > 1 /\ Current \in Frame
  BY TopIsFrame DEF InSub
<1>2. Top' = Top /\ frames'[Top] = f /\ \A i \in 1..(Top - 1) : frames'[i] = frames[i]
  BY ReplaceKeeps
<1>3. PICK h : Held(h) /\ billed = counted + owed + raised + h[Top]
  BY DEF SpendInv
<1>4. /\ h \in [1..Top -> Nat] /\ h[1] = 0 /\ h[Top] = h[Top - 1] + Current.spent
      /\ \A i \in 2..Top : h[i] = h[i - 1] + frames[i].spent
  BY <1>1, <1>3 DEF Held, Current
<1>5. PICK g : g = [h EXCEPT ![Top] = h[Top] + d]
  OBVIOUS
<1>6. /\ g \in [1..Top -> Nat] /\ g[Top] = h[Top] + d
      /\ \A i \in 1..(Top - 1) : g[i] = h[i]
  BY <1>1, <1>4, <1>5
<1>7. HeldThen(g)
  <2>1. \A i \in 2..Top : g[i] = g[i - 1] + frames'[i].spent
    <3> SUFFICES ASSUME NEW i \in 2..Top PROVE g[i] = g[i - 1] + frames'[i].spent
      OBVIOUS
    <3>1. CASE i = Top
      <4>1. Current.spent \in Nat /\ h[Top - 1] \in Nat
        BY <1>1, <1>4 DEF Frame
      <4> QED
        BY <3>1, <1>1, <1>2, <1>4, <1>6, <4>1
    <3>2. CASE i # Top
      BY <3>2, <1>1, <1>2, <1>4, <1>6
    <3> QED
      BY <3>1, <3>2
  <2> QED
    BY <2>1, <1>1, <1>2, <1>4, <1>6 DEF HeldThen
<1>8. billed' = counted' + owed' + raised' + g[Top']
  <2>1. h[Top] \in Nat
    BY <1>1, <1>4
  <2> QED
    BY <1>2, <1>3, <1>6, <2>1, Amounts
<1>9. counted' = frames'[1].cost
  BY <1>1, <1>2 DEF SpendInv
<1> QED
  BY <1>1, <1>2, <1>7, <1>8, <1>9, SpendThen

(* The root goes on by itself: what it counts covers what was paid for.     *)
LEMMA RootSpends ==
  ASSUME Types, NEW f, frames' = <<f>>, f.cost = counted',
         f.results = <<>> => owed' = 0,
         counted' \in Nat, owed' \in Nat, raised' \in Nat,
         billed' = counted' + owed' + raised'
  PROVE  SpendInv'
<1>1. Top' = 1 /\ frames'[1] = f
  BY DEF Top
<1>2. PICK g : g = [i \in 1..1 |-> 0]
  OBVIOUS
<1>3. HeldThen(g)
  <2>1. 2..1 = {} /\ g \in [1..1 -> Nat] /\ g[1] = 0
    BY <1>2
  <2> QED
    BY <2>1, <1>1 DEF HeldThen
<1>4. billed' = counted' + owed' + raised' + g[Top']
  <2>1. g[Top'] = 0
    BY <1>1, <1>2
  <2>2. ASSUME NEW a \in Nat, NEW b \in Nat, NEW c \in Nat PROVE a + b + c = a + b + c + 0
    BY ONLY <2>2
  <2> QED
    BY <2>1, <2>2
<1> QED
  BY <1>1, <1>3, <1>4, SpendThen

(* With nothing inside it, the root has all of it.                          *)
LEMMA RootAlone ==
  ASSUME Types, SpendInv, root = "turn", ~InSub
  PROVE  /\ Top = 1 /\ Current = frames[1] /\ frames = <<Current>>
         /\ counted = Current.cost /\ billed = counted + owed + raised
         /\ Current.results = <<>> => owed = 0
<1>1. Top = 1
  BY TopIsFrame DEF InSub
<1>2. Current = frames[1] /\ frames = <<Current>>
  <2>1. Current = frames[1]
    BY <1>1 DEF Current
  <2> QED
    BY <1>1, <2>1 DEF Top, Types, TypeOK
<1>3. PICK h : Held(h) /\ billed = counted + owed + raised + h[Top]
  BY DEF SpendInv
<1>4. h[Top] = 0
  BY <1>1, <1>3 DEF Held
<1> QED
  BY <1>1, <1>2, <1>3, <1>4, Amounts DEF SpendInv

(* A call that changes only the breaker, the calls and the results of the   *)
(* top frame spends nothing.                                                *)
LEMMA CallSpends ==
  ASSUME Types, SpendInv, root = "turn", NEW f \in Frame,
         frames' = [frames EXCEPT ![Top] = f],
         f.spent = Current.spent, f.cost = Current.cost,
         f.results = <<>> => InSub,
         UNCHANGED <<counted, billed, owed, raised>>
  PROVE  SpendInv'
<1>1. CASE InSub
  <2>1. Current.spent \in Nat
    BY TopIsFrame DEF Frame
  <2>2. f.spent = Current.spent + 0 /\ billed' = billed + 0
    BY <2>1, Amounts
  <2> QED
    BY <1>1, <2>2, ReplaceSpends
<1>2. CASE ~InSub
  <2>1. Top = 1 /\ frames = <<Current>> /\ counted = Current.cost
        /\ billed = counted + owed + raised
    BY <1>2, RootAlone
  <2>2. frames' = <<f>>
    BY <2>1
  <2> QED
    BY <1>2, <2>1, <2>2, RootSpends, Amounts
<1> QED
  BY <1>1, <1>2

(* A sub-agent that returns n, which its frame held but for d.              *)
LEMMA ReturnSpends ==
  ASSUME Types, SpendInv, root = "turn", InSub, NEW d \in Nat,
         Return(Current.spent + d), billed' = billed + d, raised' = raised
  PROVE  SpendInv'
<1>1. Pop(TRUE) /\ counted' = counted /\ owed' = owed + (Current.spent + d)
  BY DEF Return, OwedWith
<1>2. Current.spent \in Nat
  BY TopIsFrame DEF Frame
<1>3. owed' \in Nat /\ raised' \in Nat
      /\ owed' + raised' = owed + raised + Current.spent + d
  BY <1>1, <1>2, Amounts
<1> QED
  BY <1>1, <1>3, PopSpends

(* Nothing has been paid for at the start.                                  *)
LEMMA SpendInit ==
  ASSUME Init
  PROVE  SpendInv
  BY DEF Init, SpendInv

(* Every step moves the money it pays for to one of the places counted.     *)
LEMMA SpendNext ==
  ASSUME Types, SpendInv, [Next]_vars
  PROVE  SpendInv'
<1> SUFFICES ASSUME root' = "turn" PROVE SpendInv'
  BY DEF SpendInv
<1>c. root # "none" => Top \in Nat \ {0} /\ Current \in Frame
  BY TopIsFrame
<1>z. ~RootEnds
  BY DEF RootEnds
<1>1. CASE StartTurn
  <2>1. NewFrame.cost = 0 /\ NewFrame.results = <<>>
    BY DEF NewFrame
  <2>2. frames' = <<NewFrame>> /\ counted' = 0 /\ owed' = 0 /\ billed' = 0 /\ raised' = 0
    BY <1>1 DEF StartTurn, Begin, OwedAtStart
  <2> QED
    BY <2>1, <2>2, RootSpends
<1>2. ASSUME NEW n \in 0..MaxFan, StartFan(n) PROVE FALSE
  BY <1>2 DEF StartFan, Begin
<1>3. ASSUME NEW n \in 0..MaxFan, Think(n) PROVE SpendInv'
  <2>0. root # "none" /\ n \in Nat /\ billed' = billed + 1 /\ raised' = raised
    BY <1>3, DelegationAssumption DEF Think, Between
  <2>1. CASE n = 0
    <3>1. InSub /\ Return(Current.spent + 1)
      BY <1>3, <2>1, <1>z DEF Think
    <3>2. root = "turn"
      BY <3>1 DEF Return
    <3> QED
      BY <2>0, <3>1, <3>2, ReturnSpends
  <2>2. CASE n # 0
    <3>1. /\ frames' = [frames EXCEPT ![Top] = Charged(n)] /\ root = "turn"
          /\ counted' = IF InSub THEN counted ELSE counted + 1
          /\ owed' = owed
      BY <1>3, <2>2 DEF Think
    <3>2. /\ Charged(n) \in Frame /\ Charged(n).cost = Current.cost + 1
          /\ Charged(n).results = Current.results
          /\ Charged(n).spent = IF InSub THEN Current.spent + 1 ELSE Current.spent
      BY <1>c, <2>0, FramesMade
    <3>3. CASE InSub
      BY <2>0, <3>1, <3>2, <3>3, ReplaceSpends
    <3>4. CASE ~InSub
      <4>1. /\ Top = 1 /\ frames = <<Current>> /\ counted = Current.cost
            /\ billed = counted + owed + raised
            /\ Current.results = <<>> => owed = 0
        BY <3>1, <3>4, RootAlone
      <4>2. frames' = <<Charged(n)>>
        BY <3>1, <4>1
      <4>3. billed' = counted' + owed' + raised' /\ Charged(n).cost = counted'
            /\ counted' \in Nat
        <5>1. counted' = counted + 1 /\ owed' = owed
          BY <3>1, <3>4
        <5>2. counted \in Nat /\ owed \in Nat /\ raised \in Nat
          BY Amounts
        <5>3. Charged(n).cost = counted'
          BY <3>2, <4>1, <5>1
        <5> QED
          BY <2>0, <4>1, <5>1, <5>2, <5>3
      <4>4. Charged(n).results = <<>> => owed' = 0
        BY <3>1, <3>2, <4>1
      <4>5. owed' \in Nat /\ raised' \in Nat
        BY <2>0, <3>1, Amounts
      <4> QED
        BY <4>2, <4>3, <4>4, <4>5, RootSpends
    <3> QED
      BY <3>3, <3>4
  <2> QED
    BY <2>1, <2>2
<1>4. ASSUME NEW ok \in BOOLEAN, RunTool(ok) PROVE SpendInv'
  <2>1. /\ root = "turn" /\ Current.todo > 0
        /\ UNCHANGED <<counted, billed, owed, raised>>
        /\ frames' = [frames EXCEPT ![Top] = Called(ok)]
    BY <1>4 DEF RunTool
  <2>2. /\ Called(ok) \in Frame /\ Called(ok).results # <<>>
        /\ Called(ok).spent = Current.spent /\ Called(ok).cost = Current.cost
    BY <2>1, <1>c, FramesMade
  <2> QED
    BY <2>1, <2>2, CallSpends
<1>5. CASE Halt
  <2>1. InSub /\ Return(Current.spent) /\ billed' = billed /\ raised' = raised
    BY <1>5, <1>z DEF Halt
  <2>2. root = "turn"
    BY <2>1 DEF Return
  <2>3. Return(Current.spent + 0) /\ billed' = billed + 0
    <3>1. Current.spent \in Nat
      BY <2>2, <1>c DEF Frame
    <3>2. Current.spent + 0 = Current.spent
      BY <3>1
    <3> QED
      BY <2>1, <3>2, Amounts
  <2> QED
    BY <2>1, <2>2, <2>3, ReturnSpends
<1>6. CASE Raise
  <2>1. /\ InSub /\ Pop(FALSE) /\ root = "turn" /\ raised' = raised + Current.spent
        /\ UNCHANGED <<owed, counted, billed>>
    BY <1>6, <1>z DEF Raise
  <2>2. Current.spent \in Nat
    BY <2>1, <1>c DEF Frame
  <2>3. /\ owed' \in Nat /\ raised' \in Nat /\ billed' = billed + 0
        /\ owed' + raised' = owed + raised + Current.spent + 0
    BY <2>1, <2>2, Amounts
  <2> QED
    BY <2>1, <2>3, PopSpends
<1>7. CASE Delegate
  <2>1. root = "turn" /\ Current.todo > 0 /\ UNCHANGED <<counted, billed, owed, raised>>
    BY <1>7 DEF Delegate
  <2>2. CASE ~MayNest(Top)
    <3>1. frames' = [frames EXCEPT ![Top] = Called(TRUE)]
      BY <1>7, <2>2 DEF Delegate
    <3>2. /\ Called(TRUE) \in Frame /\ Called(TRUE).results # <<>>
          /\ Called(TRUE).spent = Current.spent /\ Called(TRUE).cost = Current.cost
      BY <2>1, <1>c, FramesMade
    <3> QED
      BY <2>1, <3>1, <3>2, CallSpends
  <2>3. CASE MayNest(Top)
    <3>1. /\ Top' = Top + 1 /\ Top \in Nat \ {0} /\ frames'[Top + 1] = NewFrame
          /\ \A i \in 1..Top : /\ frames'[i].cost = frames[i].cost
                               /\ frames'[i].spent = frames[i].spent
      BY <1>7, <2>1, <2>3, <1>c, PushKeeps DEF Delegate, Pushes
    <3>2. PICK h : Held(h) /\ billed = counted + owed + raised + h[Top]
      BY <2>1 DEF SpendInv
    <3>3. PICK g : g = [i \in 1..(Top + 1) |-> IF i = Top + 1 THEN h[Top] ELSE h[i]]
      OBVIOUS
    <3>4. /\ h \in [1..Top -> Nat] /\ h[1] = 0 /\ h[Top] \in Nat
          /\ \A i \in 2..Top : h[i] = h[i - 1] + frames[i].spent
      BY <3>1, <3>2 DEF Held
    <3>5. /\ g \in [1..(Top + 1) -> Nat] /\ g[Top + 1] = h[Top]
          /\ \A i \in 1..Top : g[i] = h[i]
      BY <3>1, <3>3, <3>4
    <3>6. \A i \in 2..(Top + 1) : g[i] = g[i - 1] + frames'[i].spent
      <4> SUFFICES ASSUME NEW i \in 2..(Top + 1) PROVE g[i] = g[i - 1] + frames'[i].spent
        OBVIOUS
      <4>1. CASE i = Top + 1
        <5>1. frames'[i].spent = 0
          BY <4>1, <3>1 DEF NewFrame
        <5>2. g[i - 1] = h[Top] /\ g[i] = h[Top]
          BY <4>1, <3>1, <3>5
        <5> QED
          BY <5>1, <5>2, <3>4
      <4>2. CASE i # Top + 1
        BY <4>2, <3>1, <3>4, <3>5
      <4> QED
        BY <4>1, <4>2
    <3>7. HeldThen(g)
      BY <3>1, <3>4, <3>5, <3>6 DEF HeldThen
    <3>8. billed' = counted' + owed' + raised' + g[Top']
      BY <2>1, <3>1, <3>2, <3>5
    <3>9. counted' = frames'[1].cost /\ Top' # 1
      BY <2>1, <3>1 DEF SpendInv
    <3> QED
      BY <3>7, <3>8, <3>9, SpendThen
  <2> QED
    BY <2>2, <2>3
<1>8. CASE FanOut
  BY <1>8 DEF FanOut, InFan
<1>9. CASE FanEnds
  BY <1>9, <1>z DEF FanEnds
<1>10. CASE ObserveInSub
  <2>1. InSub
    BY <1>10 DEF ObserveInSub
  <2>2. CASE TooManyErrors
    <3>1. Return(Current.spent) /\ billed' = billed /\ raised' = raised
      BY <1>10, <2>2 DEF ObserveInSub
    <3>2. root = "turn"
      BY <3>1 DEF Return
    <3>3. Return(Current.spent + 0) /\ billed' = billed + 0
      <4>1. Current.spent \in Nat
        BY <3>2, <1>c DEF Frame
      <4>2. Current.spent + 0 = Current.spent
        BY <4>1
      <4> QED
        BY <3>1, <4>2, Amounts
    <3> QED
      BY <2>1, <3>1, <3>2, <3>3, ReturnSpends
  <2>3. CASE ~TooManyErrors
    <3>1. /\ frames' = [frames EXCEPT ![Top] = Observed] /\ root = "turn"
          /\ UNCHANGED <<counted, billed, owed, raised>>
      BY <1>10, <2>3 DEF ObserveInSub
    <3>2. Observed \in Frame /\ Observed.cost = Current.cost /\ Observed.spent = Current.spent
      BY <3>1, <1>c, FramesMade
    <3> QED
      BY <2>1, <3>1, <3>2, CallSpends
  <2> QED
    BY <2>2, <2>3
<1>11. CASE ObserveInTurn
  <2>1. /\ root = "turn" /\ ~InSub /\ counted' = counted + owed /\ owed' = 0
        /\ UNCHANGED <<billed, raised>>
    BY <1>11, TopIsFrame DEF ObserveInTurn, InTurn, InSub, OwedAfterTake
  <2>2. frames' = <<[Observed EXCEPT !.cost = @ + owed]>>
    BY <1>11, <1>z DEF ObserveInTurn
  <2>3. counted = Current.cost /\ billed = counted + owed + raised
    BY <2>1, RootAlone
  <2>4. Observed \in Frame /\ Observed.cost = Current.cost
    BY <2>1, <1>c, FramesMade
  <2>5. PICK f : f = [Observed EXCEPT !.cost = @ + owed]
    OBVIOUS
  <2>6. f.cost = counted'
    BY <2>1, <2>3, <2>4, <2>5 DEF Frame
  <2>7. counted' \in Nat /\ billed' = counted' + owed' + raised'
    BY <2>1, <2>3, Amounts
  <2> QED
    BY <2>1, <2>2, <2>5, <2>6, <2>7, RootSpends, Amounts
<1>12. CASE Cancel
  BY <1>12 DEF Cancel, SpendInv, Held, Top
<1>13. CASE EndCancelled
  BY <1>13, <1>z DEF EndCancelled
<1>14. CASE UNCHANGED vars
  BY <1>14 DEF vars, SpendInv, Held, Top
<1> QED
  BY <1>1, <1>2, <1>3, <1>4, <1>5, <1>6, <1>7, <1>8, <1>9, <1>10, <1>11, <1>12,
     <1>13, <1>14 DEF Next

(* When the turn is over.                                                   *)
LEMMA EndSettles ==
  ASSUME Types, SpendInv, root = "turn", root' = "none", [Next]_vars
  PROVE  counted' = billed' - raised'
<1>1. ASSUME ~InSub PROVE billed = counted + owed + raised /\ (Current.results = <<>> => owed = 0)
  BY <1>1, RootAlone
<1>2. ASSUME NEW n \in 0..MaxFan, Think(n) PROVE counted' = billed' - raised'
  <2>1. ~InSub /\ Current.results = <<>> /\ counted' = counted + 1 /\ billed' = billed + 1
        /\ raised' = raised
    BY <1>2 DEF Think, Return, Between
  <2> QED
    BY <2>1, <1>1, Amounts
<1>3. CASE Halt
  <2>1. ~InSub /\ Current.results = <<>> /\ UNCHANGED <<counted, billed, raised>>
    BY <1>3 DEF Halt, Return, Between
  <2> QED
    BY <2>1, <1>1, Amounts
<1>4. CASE Raise
  <2>1. ~InSub /\ Current.results = <<>> /\ UNCHANGED <<counted, billed, raised>>
    BY <1>4 DEF Raise, Between
  <2> QED
    BY <2>1, <1>1, Amounts
<1>5. CASE ObserveInTurn
  <2>1. ~InSub /\ counted' = counted + owed /\ UNCHANGED <<billed, raised>>
    BY <1>5 DEF ObserveInTurn, InTurn, InSub
  <2> QED
    BY <2>1, <1>1, Amounts
<1>6. CASE EndCancelled
  <2>1. ~InSub /\ Current.results = <<>> /\ UNCHANGED <<counted, billed, raised>>
    BY <1>6 DEF EndCancelled, InTurn, InSub, Between
  <2> QED
    BY <2>1, <1>1, Amounts
<1>7. ASSUME NEW n \in 0..MaxFan PROVE ~StartFan(n)
  BY DEF StartFan, Begin
<1>8. ASSUME NEW ok \in BOOLEAN PROVE ~RunTool(ok)
  BY DEF RunTool
<1>9. ~StartTurn /\ ~FanOut /\ ~FanEnds /\ ~Delegate /\ ~Cancel /\ ~ObserveInSub
  BY DEF StartTurn, Begin, FanOut, FanEnds, InFan, Delegate, Cancel, ObserveInSub, Return
<1>10. ~UNCHANGED vars
  BY DEF vars
<1> QED
  BY <1>2, <1>3, <1>4, <1>5, <1>6, <1>7, <1>8, <1>9, <1>10 DEF Next

-----------------------------------------------------------------------------
(* The invariant of delegation holds at the start.                          *)
LEMMA DelegationInitially ==
  ASSUME Init
  PROVE  DelegationInv
  BY TypesInit, SpendInit, BusInit, TightenInit DEF DelegationInv

(* Every step keeps the invariant of delegation.                            *)
LEMMA DelegationInductive ==
  ASSUME DelegationInv, [Next]_vars
  PROVE  DelegationInv'
  BY TypesNext, SpendNext, BusNext, TightenNext DEF DelegationInv

(* The invariant of delegation holds in every reachable state.              *)
LEMMA DelegationAlways == Spec => []DelegationInv
  BY DelegationInitially, DelegationInductive, PTL DEF Spec

(* What is under way is always a stack of well-formed frames, and the       *)
(* numbers never become negative (subagent.py, Harness.spawn_subagent).     *)
THEOREM StackTypeCorrect == Spec => []TypeOK
<1>1. DelegationInv => TypeOK
  BY DEF DelegationInv, Types
<1> QED
  BY <1>1, DelegationAlways, PTL

(* For any limits, at any depth: no sub-agent outruns its steps or the      *)
(* user's, nothing nests deeper than agents.max_depth, and every request on *)
(* the bus has the reply that names it.                                     *)
THEOREM DelegatesContained == Spec => []DelegationIsContained
<1>1. DelegationInv => DelegatesOnlyTighten
  BY DEF DelegationInv
<1>2. DelegationInv => RequestsAreAnswered
  <2> SUFFICES ASSUME DelegationInv PROVE RequestsAreAnswered
    OBVIOUS
  <2>1. Len(log) \in Nat /\ DOMAIN log = 1..Len(log)
    BY DEF DelegationInv, Types, BusType
  <2>2. \A i \in DOMAIN log :
          IF i % 2 = 1 THEN log[i].kind = "request" /\ log[i].task = i
          ELSE log[i].kind # "request" /\ log[i].task = i - 1
    BY DEF DelegationInv, BusInv
  <2>3. ASSUME NEW i \in DOMAIN log, i % 2 # 1
        PROVE  log[i].task = log[i - 1].task
    <3>1. i - 1 \in DOMAIN log /\ (i - 1) % 2 = 1
      BY <2>1, <2>3
    <3> QED
      BY <2>2, <2>3, <3>1
  <2>4. InFan => Len(log) % 2 = 0
    BY DEF DelegationInv, BusInv, InFan
  <2> QED
    BY <2>2, <2>3, <2>4 DEF RequestsAreAnswered
<1> QED
  BY <1>1, <1>2, DelegationAlways, PTL DEF DelegationIsContained

(* Whatever is delegated, at any depth, is on the bill of the turn and in   *)
(* its breaker before the next model call, and when the turn is over, but   *)
(* for what sub-agents had spent when their provider raised                 *)
(* (_take_subagent_usage).                                                  *)
THEOREM DelegatesAreBilled == Spec => SpendIsCounted
<1> DEFINE Ok == /\ InTurn /\ Between => counted = Current.cost /\ counted = billed - raised
                 /\ root = "turn" /\ root' = "none" => counted' = billed' - raised'
<1>1. DelegationInv /\ [Next]_vars => [Ok]_vars
  <2> SUFFICES ASSUME DelegationInv, [Next]_vars PROVE Ok
    OBVIOUS
  <2>1. ASSUME InTurn, Between PROVE counted = Current.cost /\ counted = billed - raised
    <3>1. root = "turn" /\ ~InSub /\ Current.results = <<>>
      BY <2>1 DEF InTurn, InSub, Between
    <3>2. Types /\ SpendInv
      BY DEF DelegationInv
    <3> QED
      BY <3>1, <3>2, RootAlone, Amounts
  <2>2. root = "turn" /\ root' = "none" => counted' = billed' - raised'
    BY EndSettles DEF DelegationInv
  <2> QED
    BY <2>1, <2>2
<1> QED
  BY <1>1, DelegationAlways, PTL DEF Spec, SpendIsCounted

-----------------------------------------------------------------------------
(* The types of what a call has been sent, and of its completion.           *)
SentInv ==
  /\ waited \in Int
  /\ frags \in Seq(Stream!Sent) /\ answer.tools \in Seq(Stream!Sent)
  /\ answer.stop \in {"end_turn", "max_tokens", "tool_use", "other", "none"}

(* The tool calls of a completion are among those that were sent.           *)
LEMMA AssembledType ==
  ASSUME frags \in Seq(Stream!Sent)
  PROVE  Stream!Assemble \in Seq(Stream!Sent)
<1> DEFINE p == [i \in DOMAIN frags |->
                  IF adapter = "openai" /\ frags[i] = "nameless" THEN <<>> ELSE <<frags[i]>>]
<1>1. DOMAIN frags = 1..Len(frags) /\ Len(frags) \in Nat
  BY LenProperties
<1>2. ASSUME NEW i \in DOMAIN frags PROVE p[i] \in Seq(Stream!Sent)
  <2>1. frags[i] \in Stream!Sent
    BY <1>1, ElementOfSeq
  <2>2. <<>> \in Seq(Stream!Sent) /\ <<frags[i]>> \in Seq(Stream!Sent)
    BY <2>1
  <2> QED
    BY <2>2
<1>3. p \in Seq(Seq(Stream!Sent))
  BY <1>1, <1>2
<1>4. Stream!FlattenSeq(p) = Work!FlattenSeq(p)
  BY DEF Stream!FlattenSeq, Work!FlattenSeq
<1> HIDE DEF p
<1>5. Work!FlattenSeq(p) \in Seq(Stream!Sent)
  BY <1>3, FlattenType
<1> QED
  BY <1>4, <1>5 DEF Stream!Assemble, p

(* normalize_stop_reason knows what to say of every stop.                   *)
LEMMA StopType ==
  ASSUME NEW raw \in Stream!Stops, NEW tools
  PROVE  Stream!StopOf(raw, tools) \in {"end_turn", "max_tokens", "tool_use", "other", "none"}
BY DEF Stream!StopOf, Stream!Stops

(* What is sent upstream while an attempt is under way stays what the attempt*)
(* has received.                                                            *)
LEMMA SentInvStep ==
  ASSUME CallInv, SentInv, Stream!Next
  PROVE  SentInv'
<1>1. CASE Stream!Begin
  BY <1>1, EmptySeq DEF Stream!Begin, Stream!FreshAttempt, Stream!NoAnswer, SentInv
<1>2. ASSUME NEW h \in RetryAfters \cup {NoHeader}, Stream!RetryOrRaise(h) PROVE SentInv'
  <2>1. CASE Stream!Raise
    BY <2>1 DEF Stream!Raise, SentInv
  <2>2. CASE Stream!Retry(h)
    <3>1. frags' = <<>> /\ answer' = answer
      BY <2>2 DEF Stream!Retry, Stream!FreshAttempt
    <3>2. PICK w \in Stream!Waits(h) : waited' = waited + w
      BY <2>2 DEF Stream!Retry
    <3>3. attempt \in Nat
      BY LastAttemptIsMax DEF CallInv
    <3>4. w \in 0..60
      BY <3>2, <3>3, WaitsAreCapped
    <3>5. waited' \in Int
      BY <3>2, <3>4 DEF SentInv
    <3> QED
      BY <3>1, <3>5, EmptySeq DEF SentInv
  <2> QED
    BY <1>2, <2>1, <2>2 DEF Stream!RetryOrRaise
<1>3. CASE Stream!Fails
  BY <1>3 DEF Stream!Fails, Stream!Raise, SentInv
<1>4. CASE Stream!Reject
  BY <1>4, EmptySeq DEF Stream!Reject, Stream!FreshAttempt, SentInv
<1>5. CASE Stream!Deliver
  BY <1>5 DEF Stream!Deliver, SentInv
<1>6. ASSUME NEW c \in Stream!Sent, Stream!SendCall(c) PROVE SentInv'
  <2>1. frags' = Append(frags, c) /\ UNCHANGED <<answer, waited>>
    BY <1>6 DEF Stream!SendCall
  <2>2. Append(frags, c) \in Seq(Stream!Sent)
    BY AppendProperties DEF SentInv
  <2> QED
    BY <2>1, <2>2 DEF SentInv
<1>7. ASSUME NEW raw \in Stream!Stops, Stream!Finish(raw) PROVE SentInv'
  <2>1. /\ answer' = [text |-> parts, tools |-> Stream!Assemble,
                      stop |-> Stream!StopOf(raw, Stream!Assemble)]
        /\ UNCHANGED <<frags, waited>>
    BY <1>7 DEF Stream!Finish
  <2>2. Stream!Assemble \in Seq(Stream!Sent)
    BY AssembledType DEF SentInv
  <2>3. Stream!StopOf(raw, Stream!Assemble)
        \in {"end_turn", "max_tokens", "tool_use", "other", "none"}
    BY StopType
  <2> QED
    BY <2>1, <2>2, <2>3 DEF SentInv
<1>8. CASE Stream!Close
  BY <1>8 DEF Stream!Close, SentInv
<1> QED
  BY <1>1, <1>2, <1>3, <1>4, <1>5, <1>6, <1>7, <1>8
     DEF Stream!Next, Stream!Progress, Stream!Busy, Stream!Breaks

(* Together, the types of a call.                                           *)
LEMMA CallTypes ==
  ASSUME CallInv, SentInv
  PROVE  Stream!TypeOK
<1>1. Stream!Max({MaxRetries, 1}) = LastAttempt
  BY LastAttemptIsMax
<1> QED
  BY <1>1 DEF CallInv, SentInv, Stream!TypeOK

(* The delegation of the composition is the one of Delegation, with the     *)
(* other two resting: what is proved of it holds here.                      *)
THEOREM DelegationIsComposed == AgentsSpec => Spec
<1>1. AgentsInit => Init
  BY DEF AgentsInit
<1>2. [CallSteps \/ AgentSteps \/ WorkSteps]_all => [Next]_vars
  BY DEF CallSteps, AgentSteps, WorkSteps, all
<1> QED
  BY <1>1, <1>2, PTL DEF AgentsSpec, Spec

(* For every limit, budget and workspace, calls, delegates and tools stay   *)
(* in their types together.                                                 *)
THEOREM AgentsTypeCorrect == AgentsSpec => []AgentsTypeOK
<1>1. AgentsInit => CallInv /\ SentInv
  <2> SUFFICES ASSUME AgentsInit PROVE CallInv /\ SentInv
    OBVIOUS
  <2>1. /\ Stream!Init /\ waited = 0 /\ frags = <<>>
        /\ answer.tools = <<>> /\ answer.stop = "none"
    BY DEF AgentsInit, Stream!Init, Stream!NoAnswer
  <2>2. SentInv
    BY <2>1, EmptySeq DEF SentInv
  <2> QED
    BY <2>1, <2>2, CallInvInit
<1>2. CallInv /\ SentInv /\ [CallSteps \/ AgentSteps \/ WorkSteps]_all => CallInv' /\ SentInv'
  <2> SUFFICES ASSUME CallInv, SentInv, [CallSteps \/ AgentSteps \/ WorkSteps]_all
               PROVE  CallInv' /\ SentInv'
    OBVIOUS
  <2>1. CASE CallSteps
    BY <2>1, CallInvStep, SentInvStep DEF CallSteps
  <2>2. CASE AgentSteps \/ WorkSteps \/ UNCHANGED all
    <3>1. UNCHANGED streamVars
      BY <2>2 DEF AgentSteps, WorkSteps, all
    <3>2. SentInv'
      BY <3>1 DEF streamVars, SentInv
    <3> QED
      BY <3>1, <3>2, CallRests
  <2> QED
    BY <2>1, <2>2
<1>3. AgentsSpec => [](CallInv /\ SentInv)
  BY <1>1, <1>2, PTL DEF AgentsSpec
<1>4. CallInv /\ SentInv => Stream!TypeOK
  BY CallTypes
<1>5. AgentsSpec => []Work!TypeOK
  BY EditsAreMadeAsShown, PTL
<1>6. AgentsSpec => []TypeOK
  BY DelegationIsComposed, StackTypeCorrect, PTL
<1> QED
  BY <1>3, <1>4, <1>5, <1>6, PTL DEF AgentsTypeOK
=============================================================================
