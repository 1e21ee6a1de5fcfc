--------------------------- MODULE ToolBatchProofs ---------------------------
(***************************************************************************)
(* What holds of a batch for any number of calls, of workers and of changes*)
(* of the approval mode.                                                   *)
(*                                                                         *)
(* A batch is concurrent or it is not, from its beginning to its end, and  *)
(* the argument has one invariant for each.  Alone, the calls behind "at"  *)
(* are answered and have begun in order.  In a concurrent batch every call *)
(* that is not answered waits in exactly one place: it is still to be      *)
(* resolved, it is queued, it is running, or it is on the list of the      *)
(* calls that run alone, which is in call order and holds no read.         *)
(***************************************************************************)
EXTENDS ToolBatch, FiniteSetTheorems, WellFoundedInduction, SequenceTheorems,
        TLAPS

(* The types, part by part; the pool's workers are a finite set.            *)
BatchTypes ==
  /\ \E n \in 1..MaxCalls : calls \in [1..n -> Kinds]
  /\ enabled \in BOOLEAN
  /\ pc \in {"resolve", "ask", "pool", "serial", "run", "done"}
  /\ at \in 1..(Len(calls) + 1)

AnswerTypes ==
  /\ settled \in [Indices -> Outcomes \cup {None}]
  /\ collected \in [Indices -> Outcomes \cup {None}]

WaitingTypes ==
  /\ todo \in Seq(Indices) /\ queue \in Seq(Indices)
  /\ ran \in Seq(Indices)

RunningTypes ==
  /\ running \subseteq Indices /\ IsFiniteSet(running)
  /\ Cardinality(running) <= Workers
  /\ barred \subseteq running /\ approved \subseteq Indices

FlagTypes ==
  /\ mode \in Modes /\ skill \in BOOLEAN /\ cancel \in BOOLEAN
  /\ cycles \in 0..MaxCycles /\ late \in Nat

Types == BatchTypes /\ AnswerTypes /\ WaitingTypes /\ RunningTypes /\ FlagTypes

(* Where a batch is while its calls are resolved, and while one runs alone. *)
Resolves == pc \in {"resolve", "ask"}
RunsOnly(i) == running = IF pc = "run" THEN {i} ELSE {}

(* A batch without concurrency.  The answered calls are those before at,    *)
(* and the calls that began came in order.                                  *)
AloneInv ==
  /\ pc # "pool" /\ todo = <<>> /\ queue = <<>>
  /\ pc \in {"resolve", "ask", "run"} <=> at <= Len(calls)
  /\ RunsOnly(at)
  /\ \A i \in Indices : settled[i] = None <=> i >= at
  /\ \A k \in 1..Len(ran) : ran[k] < at \/ (pc = "run" /\ ran[k] = at)
  /\ \A j, k \in 1..Len(ran) : j < k => ran[j] < ran[k]

(* A concurrent batch whose calls are still being resolved.                 *)
GatheringInv ==
  /\ at <= Len(calls)
  /\ todo = <<>> /\ queue = <<>> /\ running = {} /\ ran = <<>>
  /\ \A i \in Indices : collected[i] = None
  /\ \A i \in Indices : i >= at \/ Poolable(i) => settled[i] = None
  /\ \A i \in Indices :
       (i < at /\ settled[i] = None /\ calls[i] = "write") => i \in approved

(* The calls that will run alone: in order, unanswered and approved; what   *)
(* began before was before all of them in the batch.                        *)
TodoInv ==
  /\ \A j, k \in 1..Len(todo) : j < k => todo[j] < todo[k]
  /\ \A k \in 1..Len(todo) :
       /\ ~Poolable(todo[k]) /\ settled[todo[k]] = None
       /\ calls[todo[k]] = "write" => todo[k] \in approved
  /\ \A k \in 1..Len(todo), j \in 1..Len(ran) :
       \/ Poolable(ran[j]) \/ ran[j] < todo[k]
       \/ pc = "run" /\ k = 1 /\ ran[j] = todo[1]

(* The pool: a read is queued, running or has its result.                   *)
PoolInv ==
  /\ running \subseteq {i \in Indices : Poolable(i)}
  /\ \A k \in 1..Len(queue) :
       /\ Poolable(queue[k]) /\ queue[k] \notin running
       /\ collected[queue[k]] = None
       /\ \A j \in 1..Len(ran) : ran[j] # queue[k]
  /\ \A j, k \in 1..Len(queue) : queue[j] = queue[k] => j = k
  /\ \A i \in Indices :
       /\ Poolable(i) => settled[i] = None
       /\ collected[i] # None => Poolable(i)
       /\ Poolable(i) => \/ collected[i] # None \/ i \in running
                         \/ \E k \in 1..Len(queue) : queue[k] = i
       /\ settled[i] = None => \/ Poolable(i)
                               \/ \E k \in 1..Len(todo) : todo[k] = i

(* After the pool: every read is answered, and what is not is on the list.  *)
AfterInv ==
  /\ queue = <<>>
  /\ pc = "run" => todo # <<>>
  /\ RunsOnly(todo[1])
  /\ \A i \in Indices :
       settled[i] = None => \E k \in 1..Len(todo) : todo[k] = i

ConcurrentInv ==
  /\ Resolves => GatheringInv
  /\ ~Resolves => TodoInv
  /\ pc = "pool" => PoolInv
  /\ pc \in {"serial", "run", "done"} => AfterInv

(* No call begins twice, none with a side effect without its approval, and  *)
(* those that may not share the pool begin in call order.                   *)
BegunInv ==
  /\ \A j, k \in 1..Len(ran) : ran[j] = ran[k] => j = k
  /\ \A k \in 1..Len(ran) : calls[ran[k]] = "write" => ran[k] \in approved
  /\ \A j, k \in 1..Len(ran) :
       (j < k /\ ~Poolable(ran[j]) /\ ~Poolable(ran[k])) => ran[j] < ran[k]

(* After the cancel one call began at most: the one whose prompt was open.  *)
LateInv == late <= 1 /\ (late = 1 => cancel /\ ~Concurrent /\ pc # "ask")

(* The user is asked about a write.                                         *)
AskInv == pc = "ask" => calls[at] = "write"

BatchInv ==
  /\ Types
  /\ ~Concurrent => AloneInv
  /\ Concurrent => ConcurrentInv
  /\ BegunInv /\ LateInv /\ AskInv

-----------------------------------------------------------------------------
(* InCallOrder lists a set of calls from the first to the last.             *)

Sorts(s, S) ==
  /\ s \in Seq(S) /\ Len(s) = Cardinality(S)
  /\ \A x \in S : \E k \in 1..Len(s) : s[k] = x
  /\ \A j, k \in 1..Len(s) : j < k => s[j] < s[k]

(* Every set of calls is finite.                                            *)
LEMMA FiniteCalls ==
  ASSUME NEW n \in Nat, NEW S \in SUBSET (1..n)
  PROVE  IsFiniteSet(S) /\ Cardinality(S) \in Nat
<1>1. IsFiniteSet(1..n)
  BY FS_Interval
<1>2. IsFiniteSet(S)
  BY <1>1, FS_Subset
<1> QED
  BY <1>2, FS_CardinalityType

(* A set is listed by listing what is below its largest member first.       *)
LEMMA SortedWithLargest ==
  ASSUME NEW n \in Nat, NEW S \in SUBSET (1..(n + 1)), n + 1 \in S,
         NEW s, Sorts(s, S \ {n + 1})
  PROVE  Sorts(Append(s, n + 1), S)
<1> DEFINE R == S \ {n + 1}
<1>1. R \subseteq 1..n /\ s \in Seq(R) /\ Len(s) \in Nat
  BY DEF Sorts
<1>2. /\ IsFiniteSet(S) /\ Cardinality(S) \in Nat
      /\ Cardinality(R) = Cardinality(S) - 1
  <2>1. IsFiniteSet(S) /\ Cardinality(S) \in Nat
    <3>1. n + 1 \in Nat
      OBVIOUS
    <3> QED
      BY <3>1, FiniteCalls
  <2> QED
    BY <2>1, FS_RemoveElement
<1>3. s \in Seq(S) /\ Append(s, n + 1) \in Seq(S)
      /\ Len(Append(s, n + 1)) = Cardinality(S)
  BY <1>1, <1>2 DEF Sorts
<1>4. \A x \in S : \E k \in 1..Len(Append(s, n + 1)) : Append(s, n + 1)[k] = x
  <2> TAKE x \in S
  <2>1. CASE x = n + 1
    BY <1>1, <1>3, <2>1, AppendProperties
  <2>2. CASE x # n + 1
    <3>1. PICK k \in 1..Len(s) : s[k] = x
      BY <2>2 DEF Sorts
    <3> QED
      BY <1>1, <1>3, <3>1, AppendProperties
  <2> QED
    BY <2>1, <2>2
<1>5. \A j, k \in 1..Len(Append(s, n + 1)) :
        j < k => Append(s, n + 1)[j] < Append(s, n + 1)[k]
  <2>1. \A k \in 1..Len(s) : s[k] \in 1..n
    BY <1>1, ElementOfSeq
  <2>2. \A k \in 1..Len(s) : Append(s, n + 1)[k] = s[k]
    BY <1>1
  <2>3. Append(s, n + 1)[Len(s) + 1] = n + 1 /\ Len(Append(s, n + 1)) = Len(s) + 1
    BY <1>1
  <2>4. \A j, k \in 1..Len(s) : j < k => s[j] < s[k]
    BY DEF Sorts
  <2> DEFINE t == Append(s, n + 1)
  <2> HIDE DEF R, t
  <2>5. ASSUME NEW j \in 1..Len(t), NEW k \in 1..Len(t), j < k
        PROVE  t[j] < t[k]
    <3>1. j \in 1..Len(s) /\ k \in 1..(Len(s) + 1)
      BY <1>1, <2>3, <2>5 DEF t
    <3>2. CASE k = Len(s) + 1
      BY <1>1, <2>1, <2>2, <2>3, <3>1, <3>2 DEF t
    <3>3. CASE k \in 1..Len(s)
      BY <2>2, <2>4, <2>5, <3>1, <3>3 DEF t
    <3> QED
      BY <1>1, <3>1, <3>2, <3>3
  <2> QED
    BY <2>5 DEF t
<1> QED
  BY <1>3, <1>4, <1>5 DEF Sorts

(* Every set of numbers up to a bound can be listed: there is no least bound*)
(* for which one cannot.                                                    *)
LEMMA SortingExists ==
  ASSUME NEW n \in Nat, NEW S \in SUBSET (1..n)
  PROVE  \E s : Sorts(s, S)
<1> DEFINE Bad == {m \in Nat : \E T \in SUBSET (1..m) : ~ \E s : Sorts(s, T)}
<1>1. Bad = {}
  <2> SUFFICES ASSUME Bad # {} PROVE FALSE
    OBVIOUS
  <2>1. PICK m \in Bad : \A k \in Bad : ~(<<k, m>> \in OpToRel(<, Nat))
    BY NatLessThanWellFounded, WFMin
  <2>2. m \in Nat
    OBVIOUS
  <2>3. PICK T \in SUBSET (1..m) : ~ \E s : Sorts(s, T)
    OBVIOUS
  <2>4. m # 0
    <3> SUFFICES ASSUME m = 0 PROVE FALSE
      OBVIOUS
    <3>1. T = {}
      BY <2>2
    <3>2. Sorts(<<>>, {})
      BY FS_EmptySet DEF Sorts
    <3> QED
      BY <2>3, <3>1, <3>2
  <2>5. m - 1 \in Nat /\ m - 1 \notin Bad
    <3>1. m - 1 \in Nat /\ m - 1 < m
      BY <2>2, <2>4
    <3>2. <<m - 1, m>> \in OpToRel(<, Nat)
      BY <2>2, <3>1 DEF OpToRel
    <3> HIDE DEF Bad
    <3> QED
      BY <2>1, <3>1, <3>2
  <2>6. \A R \in SUBSET (1..(m - 1)) : \E s : Sorts(s, R)
    BY <2>5
  <2>7. CASE m \in T
    <3>1. T \ {m} \in SUBSET (1..(m - 1))
      BY <2>2
    <3>2. PICK s : Sorts(s, T \ {m})
      BY <2>6, <3>1
    <3>3. m = (m - 1) + 1
      BY <2>2
    <3>4. Sorts(Append(s, m), T)
      BY <2>5, <2>7, <3>2, <3>3, SortedWithLargest
    <3> QED
      BY <2>3, <3>4
  <2>8. CASE m \notin T
    <3>1. T \in SUBSET (1..(m - 1))
      BY <2>2, <2>8
    <3> QED
      BY <2>3, <2>6, <3>1
  <2> QED
    BY <2>7, <2>8
<1>2. n \notin Bad
  BY <1>1
<1> QED
  BY <1>2

(* The calls of a set in call order: each once, ascending.                  *)
LEMMA InCallOrderSorts ==
  ASSUME NEW n \in Nat, NEW S \in SUBSET (1..n)
  PROVE  Sorts(InCallOrder(S), S)
<1> DEFINE c == Cardinality(S)
           Listing(s) == /\ ToSet(s) = S
                         /\ \A j, k \in 1..c : j < k => s[j] < s[k]
<1>1. c \in Nat
  BY FiniteCalls
<1>2. PICK s : Sorts(s, S)
  BY SortingExists
<1>3. s \in [1..c -> S] /\ DOMAIN s = 1..c
  BY <1>2 DEF Sorts
<1>4. Listing(s)
  <2>1. ToSet(s) = S
    BY <1>2, <1>3 DEF Sorts, ToSet
  <2> QED
    BY <1>2, <2>1 DEF Sorts
<1>5. \E t \in [1..c -> S] : Listing(t)
  BY <1>3, <1>4
<1>6. InCallOrder(S) \in [1..c -> S] /\ Listing(InCallOrder(S))
  BY <1>5 DEF InCallOrder
<1>7. InCallOrder(S) \in Seq(S) /\ Len(InCallOrder(S)) = c
  BY <1>1, <1>6
<1>8. \A x \in S : \E k \in 1..c : InCallOrder(S)[k] = x
  BY <1>6, <1>7 DEF ToSet
<1> QED
  BY <1>6, <1>7, <1>8 DEF Sorts

-----------------------------------------------------------------------------
(* The batch itself never changes.                                          *)
LEMMA Fixed ==
  ASSUME UNCHANGED <<calls, enabled>>
  PROVE  /\ Indices' = Indices /\ (Concurrent' <=> Concurrent)
         /\ \A i : Poolable(i)' <=> Poolable(i)
BY DEF Indices, Concurrent, Poolable

(* A batch has a call, and stands at one of them or behind the last.        *)
LEMMA BatchFacts ==
  ASSUME Types
  PROVE  /\ Len(calls) \in Nat \ {0} /\ Indices = 1..Len(calls)
         /\ \A i \in Indices : calls[i] \in Kinds
         /\ at \in 1..(Len(calls) + 1) /\ 1 \in Indices
BY BatchAssumption DEF Types, BatchTypes, Indices

(* While calls are resolved there is a call to resolve.                     *)
LEMMA SomeCallLeft ==
  ASSUME BatchInv, Resolves
  PROVE  at \in Indices /\ settled[at] = None /\ running = {}
<1>1. at <= Len(calls) /\ running = {}
  <2>1. CASE Concurrent
    BY <2>1 DEF BatchInv, ConcurrentInv, GatheringInv
  <2>2. CASE ~Concurrent
    BY <2>2 DEF BatchInv, AloneInv, Resolves, RunsOnly
  <2> QED
    BY <2>1, <2>2
<1>2. at \in Indices
  BY <1>1, BatchFacts DEF BatchInv
<1>3. settled[at] = None
  <2>1. CASE Concurrent
    BY <1>2, <2>1, BatchFacts DEF BatchInv, ConcurrentInv, GatheringInv
  <2>2. CASE ~Concurrent
    BY <1>2, <2>2, BatchFacts DEF BatchInv, AloneInv
  <2> QED
    BY <2>1, <2>2
<1> QED
  BY <1>1, <1>2, <1>3

(* The calls of a concurrent batch go on: to the next one, or to the pool   *)
(* and to the list of the calls that run alone.                             *)
LEMMA GatheringStep ==
  ASSUME BatchInv, Concurrent, Resolves, UNCHANGED <<calls, enabled>>,
         Advance(settled'), UNCHANGED <<running, ran, collected>>,
         \A i \in Indices : i > at \/ Poolable(i) => settled'[i] = None,
         \A i \in Indices : (i <= at /\ settled'[i] = None
                               /\ calls[i] = "write") => i \in approved'
  PROVE  /\ ConcurrentInv'
         /\ at' = at + 1 /\ pc' \in {"resolve", "pool"}
         /\ todo' \in Seq(Indices) /\ queue' \in Seq(Indices)
<1>1. GatheringInv
  BY DEF BatchInv, ConcurrentInv
<1>2. /\ Len(calls) \in Nat \ {0} /\ Indices = 1..Len(calls)
      /\ at \in 1..Len(calls) /\ at' = at + 1
  BY <1>1, BatchFacts DEF BatchInv, GatheringInv, Advance
<1>3. /\ Indices' = Indices /\ Len(calls') = Len(calls) /\ calls' = calls
      /\ \A i : Poolable(i)' <=> Poolable(i)
  BY Fixed
<1>4. CASE at < Len(calls)
  <2>1. pc' = "resolve" /\ UNCHANGED <<todo, queue>>
    BY <1>4 DEF Advance
  <2>2. GatheringInv'
    <3>1. /\ todo' = <<>> /\ queue' = <<>> /\ running' = {} /\ ran' = <<>>
          /\ \A i \in Indices' : collected'[i] = None
      BY <1>1, <1>3, <2>1 DEF GatheringInv
    <3>2. at' <= Len(calls')
      BY <1>2, <1>3, <1>4
    <3>3. \A i \in Indices : (i >= at' => i > at) /\ (i < at' => i <= at)
      BY <1>2
    <3>4. \A i \in Indices' : i >= at' \/ Poolable(i)' => settled'[i] = None
      BY <1>3, <3>3
    <3>5. \A i \in Indices' : (i < at' /\ settled'[i] = None
                              /\ calls'[i] = "write") => i \in approved'
      BY <1>3, <3>3
    <3> QED
      BY <3>1, <3>2, <3>4, <3>5 DEF GatheringInv
  <2> QED
    BY <1>1, <1>2, <2>1, <2>2, EmptySeq
       DEF ConcurrentInv, Resolves, GatheringInv
<1>5. CASE ~(at < Len(calls))
  <2> DEFINE open  == {i \in Indices : settled'[i] = None}
             reads == {i \in open : Poolable(i)}
             alone == open \ reads
  <2>1. Launch(open)
    BY <1>5 DEF Advance
  <2>2. reads = {i \in Indices : Poolable(i)}
    OBVIOUS
  <2>3. Cardinality(reads) > 1
    <3>1. Cardinality({i \in Indices : Poolable(i)}) >= 2
      BY DEF Concurrent
    <3>2. Cardinality({i \in Indices : Poolable(i)}) \in Nat
      BY <1>2, FiniteCalls
    <3> QED
      BY <2>2, <3>1, <3>2
  <2>4. pc' = "pool" /\ queue' = InCallOrder(reads) /\ todo' = InCallOrder(alone)
    BY <2>1, <2>3 DEF Launch
  <2>5. Sorts(queue', reads) /\ Sorts(todo', alone)
    BY <1>2, <2>4, InCallOrderSorts
  <2>6. queue' \in Seq(reads) /\ todo' \in Seq(alone)
    BY <2>5 DEF Sorts
  <2>7. /\ queue' \in Seq(Indices) /\ todo' \in Seq(Indices)
        /\ Len(queue') \in Nat /\ Len(todo') \in Nat
        /\ \A k \in 1..Len(queue') : queue'[k] \in reads
        /\ \A k \in 1..Len(todo') : todo'[k] \in alone
    <3>1. reads \subseteq Indices /\ alone \subseteq Indices
      OBVIOUS
    <3> HIDE DEF reads, alone
    <3> QED
      BY <2>6, <3>1
  <2>8. at = Len(calls) /\ \A i \in Indices : i <= at
    BY <1>2, <1>5
  <2>9. TodoInv'
    <3>1. ran' = <<>>
      BY <1>1 DEF GatheringInv
    <3>2. \A i \in alone :
            /\ ~Poolable(i)' /\ settled'[i] = None
            /\ calls'[i] = "write" => i \in approved'
      BY <1>3, <2>8
    <3>3. \A j, k \in 1..Len(todo') : j < k => todo'[j] < todo'[k]
      BY <2>5 DEF Sorts
    <3>4. Len(ran') = 0
      BY <3>1
    <3> HIDE DEF alone
    <3>5. \A k \in 1..Len(todo') :
            /\ ~Poolable(todo[k])' /\ settled'[todo'[k]] = None
            /\ calls'[todo'[k]] = "write" => todo'[k] \in approved'
      BY <2>7, <3>2 DEF Poolable
    <3> QED
      BY <3>3, <3>4, <3>5 DEF TodoInv
  <2>10. PoolInv'
    <3>1. running' = {} /\ Len(ran') = 0 /\ \A i \in Indices : collected'[i] = None
      BY <1>1 DEF GatheringInv
    <3>2. \A i \in Indices :
            /\ i \in reads <=> Poolable(i)
            /\ settled'[i] = None => i \in reads \/ i \in alone
            /\ i \in reads => \E k \in 1..Len(queue') : queue'[k] = i
            /\ i \in alone => \E k \in 1..Len(todo') : todo'[k] = i
      BY <2>2, <2>5 DEF Sorts
    <3>3. \A j, k \in 1..Len(queue') : j < k => queue'[j] < queue'[k]
      BY <2>5 DEF Sorts
    <3>4. \A k \in 1..Len(queue') : queue'[k] \in Indices /\ Poolable(queue'[k])
      BY <2>7
    <3> HIDE DEF reads, alone
    <3>5. ASSUME NEW j \in 1..Len(queue'), NEW k \in 1..Len(queue'), queue'[j] = queue'[k]
          PROVE  j = k
      <4>1. j \in Int /\ k \in Int /\ queue'[j] \in Int /\ queue'[k] \in Int
        BY <1>2, <2>7, <3>4
      <4> QED
        BY <3>3, <3>5, <4>1
    <3>6. \A k \in 1..Len(queue') : Poolable(queue[k])'
      BY <1>3, <3>4 DEF Poolable
    <3> QED
      BY <1>3, <3>1, <3>2, <3>4, <3>5, <3>6 DEF PoolInv
  <2> QED
    BY <1>2, <2>4, <2>7, <2>9, <2>10 DEF ConcurrentInv, Resolves
<1> QED
  BY <1>4, <1>5

(* A call is answered without running.                                      *)
LEMMA AnsweredStep ==
  ASSUME BatchInv, Resolves, NEW o \in Outcomes, Answered(o), World,
         UNCHANGED <<collected, skill, approved>>,
         Concurrent => ~Poolable(at)
  PROVE  BatchInv'
<1>1. /\ Len(calls) \in Nat \ {0} /\ Indices = 1..Len(calls)
      /\ at \in Indices /\ settled[at] = None /\ None \notin Outcomes
  BY SomeCallLeft, BatchFacts DEF BatchInv, Outcomes, None
<1>2. /\ settled' = [settled EXCEPT ![at] = o]
      /\ Advance([settled EXCEPT ![at] = o])
      /\ UNCHANGED <<running, barred, ran, late, collected, skill, approved>>
      /\ UNCHANGED <<calls, enabled, mode, cycles, cancel>>
  BY DEF Answered, Settle, World
<1>3. /\ Indices' = Indices /\ (Concurrent' <=> Concurrent) /\ calls' = calls
      /\ \A i : Poolable(i)' <=> Poolable(i)
  BY <1>2, Fixed
<1>4. settled \in [Indices -> Outcomes \cup {None}]
  BY DEF BatchInv, Types, AnswerTypes
<1>5. /\ Concurrent => ConcurrentInv' /\ pc' \in {"resolve", "pool"}
      /\ ~Concurrent => AloneInv' /\ pc' \in {"resolve", "serial"}
      /\ at' = at + 1 /\ todo' \in Seq(Indices) /\ queue' \in Seq(Indices)
  <2>1. CASE Concurrent
    <3>1. GatheringInv
      BY <2>1 DEF BatchInv, ConcurrentInv
    <3>2. \A i \in Indices : i > at \/ Poolable(i) => settled'[i] = None
      BY <1>1, <1>2, <1>4, <2>1, <3>1 DEF GatheringInv
    <3>3. \A i \in Indices : (i <= at /\ settled'[i] = None
                               /\ calls[i] = "write") => i \in approved'
      BY <1>1, <1>2, <1>4, <3>1 DEF GatheringInv
    <3>4. Advance(settled')
      BY <1>2
    <3> QED
      BY <1>2, <2>1, <3>2, <3>3, <3>4, GatheringStep
  <2>2. CASE ~Concurrent
    <3>1. AloneInv
      BY <2>2 DEF BatchInv
    <3>2. /\ at' = at + 1 /\ UNCHANGED <<todo, queue>>
          /\ pc' = IF at < Len(calls) THEN "resolve" ELSE "serial"
      BY <1>2, <2>2 DEF Advance
    <3>3. \A i \in Indices : settled'[i] = None <=> i >= at'
      BY <1>1, <1>2, <1>4, <3>1, <3>2 DEF AloneInv
    <3>4. \A k \in 1..Len(ran) : ran[k] < at'
      <4>1. \A k \in 1..Len(ran) : ran[k] < at /\ ran[k] \in Indices
        BY <3>1, ElementOfSeq
           DEF AloneInv, Resolves, BatchInv, Types, WaitingTypes
      <4> QED
        BY <1>1, <3>2, <4>1
    <3>5. RunsOnly(at)'
      BY <3>2, SomeCallLeft, <1>2 DEF RunsOnly
    <3>6. pc' \in {"resolve", "ask", "run"} <=> at' <= Len(calls')
      BY <1>1, <1>3, <3>2
    <3>7. AloneInv'
      BY <1>2, <1>3, <3>1, <3>2, <3>3, <3>4, <3>5, <3>6 DEF AloneInv
    <3> QED
      BY <2>2, <3>1, <3>2, <3>7, EmptySeq DEF AloneInv
  <2> QED
    BY <2>1, <2>2
<1>6. Types'
  <2>1. BatchTypes'
    BY <1>1, <1>2, <1>5 DEF BatchInv, Types, BatchTypes
  <2>2. AnswerTypes'
    BY <1>2, <1>3 DEF BatchInv, Types, AnswerTypes
  <2>3. WaitingTypes'
    BY <1>2, <1>3, <1>5 DEF BatchInv, Types, WaitingTypes
  <2>4. RunningTypes' /\ FlagTypes'
    BY <1>2, <1>3 DEF BatchInv, Types, RunningTypes, FlagTypes
  <2> QED
    BY <2>1, <2>2, <2>3, <2>4 DEF Types
<1>7. BegunInv'
  BY <1>2, <1>3 DEF BatchInv, BegunInv, Poolable
<1>8. LateInv' /\ AskInv'
  BY <1>2, <1>3, <1>5 DEF BatchInv, LateInv, AskInv
<1> QED
  BY <1>3, <1>5, <1>6, <1>7, <1>8 DEF BatchInv

(* A call begins: it is running, and it began after those that began before *)
(* it, unless the active skill refuses it.                                  *)
LEMMA Begins ==
  ASSUME Types, NEW i \in Indices, Begin(i),
         running = {} \/ Cardinality(running) < Workers
  PROVE  /\ running' = running \cup {i} /\ IsFiniteSet(running')
         /\ Cardinality(running') <= Workers /\ barred' \subseteq running'
         /\ ran' \in Seq(Indices) /\ Len(ran) \in Nat /\ Len(ran') \in Nat
         /\ Len(ran) <= Len(ran')
         /\ \A k \in 1..Len(ran) : ran'[k] = ran[k]
         /\ \A k \in 1..Len(ran') :
              k \in 1..Len(ran) \/ (k = Len(ran) + 1 /\ ran'[k] = i)
<1>1. /\ ran \in Seq(Indices) /\ IsFiniteSet(running)
      /\ Cardinality(running) <= Workers /\ barred \subseteq running
  BY DEF Types, WaitingTypes, RunningTypes
<1>2. running' = running \cup {i} /\ barred' \subseteq running'
  BY <1>1 DEF Begin
<1>3. IsFiniteSet(running') /\ Cardinality(running') <= Workers
  <2>1. Cardinality(running) \in Nat /\ Workers \in Nat \ {0}
    BY <1>1, FS_CardinalityType, BatchAssumption
  <2>2. running = {} => Cardinality(running) = 0
    BY FS_EmptySet
  <2>3. IsFiniteSet(running') /\ Cardinality(running') <= Cardinality(running) + 1
    <3>1. /\ IsFiniteSet(running \cup {i})
          /\ Cardinality(running \cup {i}) =
               IF i \in running THEN Cardinality(running) ELSE Cardinality(running) + 1
      BY <1>1, FS_AddElement
    <3> QED
      BY <1>2, <2>1, <3>1
  <2>4. Cardinality(running') \in Nat
    BY <2>3, FS_CardinalityType
  <2> QED
    BY <2>1, <2>2, <2>3, <2>4
<1>4. ran' = ran \/ ran' = Append(ran, i)
  BY DEF Begin
<1>5. /\ ran' \in Seq(Indices) /\ Len(ran) \in Nat /\ Len(ran') \in Nat
      /\ Len(ran) <= Len(ran')
      /\ \A k \in 1..Len(ran) : ran'[k] = ran[k]
      /\ \A k \in 1..Len(ran') :
              k \in 1..Len(ran) \/ (k = Len(ran) + 1 /\ ran'[k] = i)
  <2>1. CASE ran' = ran
    BY <1>1, <2>1
  <2>2. CASE ran' = Append(ran, i)
    BY <1>1, <2>2, AppendProperties
  <2> QED
    BY <1>4, <2>1, <2>2
<1> QED
  BY <1>2, <1>3, <1>5

(* What began stays begun once, approved and in order.                      *)
LEMMA BegunGrows ==
  ASSUME Types, BegunInv, NEW i \in Indices, Begin(i),
         running = {} \/ Cardinality(running) < Workers,
         UNCHANGED calls, approved \subseteq approved',
         calls[i] = "write" => i \in approved',
         \A k \in 1..Len(ran) : ran[k] # i,
         \A k \in 1..Len(ran) : ~Poolable(ran[k]) /\ ~Poolable(i) => ran[k] < i
  PROVE  BegunInv'
<1>1. /\ Len(ran) \in Nat /\ Len(ran') \in Nat
      /\ Len(ran) <= Len(ran')
      /\ \A k \in 1..Len(ran) : ran'[k] = ran[k]
      /\ \A k \in 1..Len(ran') :
           k \in 1..Len(ran) \/ (k = Len(ran) + 1 /\ ran'[k] = i)
  BY Begins
<1>2. \A j, k \in 1..Len(ran') : ran'[j] = ran'[k] => j = k
  BY <1>1 DEF BegunInv
<1>3. \A k \in 1..Len(ran') : calls'[ran'[k]] = "write" => ran'[k] \in approved'
  BY <1>1 DEF BegunInv
<1>4. \A j, k \in 1..Len(ran') :
        (j < k /\ calls[ran'[j]] \notin {"read", "skill"}
         /\ calls[ran'[k]] \notin {"read", "skill"}) => ran'[j] < ran'[k]
  <2> TAKE j, k \in 1..Len(ran')
  <2> HAVE j < k /\ calls[ran'[j]] \notin {"read", "skill"}
           /\ calls[ran'[k]] \notin {"read", "skill"}
  <2>1. j \in 1..Len(ran)
    BY <1>1
  <2>2. CASE k \in 1..Len(ran)
    BY <1>1, <2>1, <2>2 DEF BegunInv, Poolable
  <2>3. CASE k = Len(ran) + 1 /\ ran'[k] = i
    BY <1>1, <2>1, <2>3 DEF Poolable
  <2> QED
    BY <1>1, <2>2, <2>3
<1> QED
  BY <1>2, <1>3, <1>4 DEF BegunInv, Poolable

(* A call may run: alone it begins, and a concurrent batch goes on.         *)
LEMMA ClearedStep ==
  ASSUME BatchInv, Resolves, Cleared, World, UNCHANGED <<collected, skill>>,
         approved \subseteq approved', approved' \subseteq Indices,
         calls[at] = "write" => at \in approved',
         cancel => pc = "ask" \/ Concurrent
  PROVE  BatchInv'
<1>1. /\ Len(calls) \in Nat \ {0} /\ Indices = 1..Len(calls)
      /\ at \in Indices /\ settled[at] = None /\ running = {}
  BY SomeCallLeft, BatchFacts DEF BatchInv
<1>2. UNCHANGED <<calls, enabled, mode, cycles, cancel, settled>>
  BY DEF Cleared, World
<1>3. /\ Indices' = Indices /\ (Concurrent' <=> Concurrent) /\ calls' = calls
      /\ \A i : Poolable(i)' <=> Poolable(i)
  BY <1>2, Fixed
<1>4. CASE Concurrent
  <2>1. Advance(settled') /\ UNCHANGED <<running, barred, ran, late>>
    BY <1>2, <1>4 DEF Cleared
  <2>2. GatheringInv
    BY <1>4 DEF BatchInv, ConcurrentInv
  <2>3. \A i \in Indices : i > at \/ Poolable(i) => settled'[i] = None
    BY <1>1, <1>2, <2>2 DEF GatheringInv
  <2>4. \A i \in Indices : (i <= at /\ settled'[i] = None
                             /\ calls[i] = "write") => i \in approved'
    BY <1>1, <1>2, <2>2 DEF GatheringInv
  <2>5. /\ ConcurrentInv' /\ pc' \in {"resolve", "pool"}
        /\ at' = at + 1 /\ todo' \in Seq(Indices) /\ queue' \in Seq(Indices)
    BY <1>2, <1>4, <2>1, <2>3, <2>4, GatheringStep
  <2>6. BatchTypes'
    BY <1>1, <1>2, <2>5 DEF BatchInv, Types, BatchTypes
  <2>7. AnswerTypes'
    BY <1>2, <1>3 DEF BatchInv, Types, AnswerTypes
  <2>8. WaitingTypes' /\ RunningTypes'
    BY <1>2, <1>3, <2>1, <2>5 DEF BatchInv, Types, WaitingTypes, RunningTypes
  <2>9. FlagTypes'
    BY <1>2, <2>1 DEF BatchInv, Types, FlagTypes
  <2>10. BegunInv'
    BY <1>2, <1>3, <2>1 DEF BatchInv, BegunInv, Poolable
  <2>11. LateInv' /\ AskInv'
    BY <1>2, <1>3, <2>1, <2>5 DEF BatchInv, LateInv, AskInv
  <2> QED
    BY <1>3, <1>4, <2>5, <2>6, <2>7, <2>8, <2>9, <2>10, <2>11 DEF BatchInv, Types
<1>5. CASE ~Concurrent
  <2>1. /\ BeginAlone(at) /\ pc' = "run" /\ UNCHANGED <<at, todo, queue>>
        /\ Begin(at) /\ late' = IF cancel THEN late + 1 ELSE late
    BY <1>5 DEF Cleared, BeginAlone
  <2>2. AloneInv /\ Types /\ BegunInv
    BY <1>5 DEF BatchInv
  <2>3. /\ running' = {at} /\ IsFiniteSet(running')
        /\ Cardinality(running') <= Workers /\ barred' \subseteq running'
        /\ ran' \in Seq(Indices) /\ Len(ran) \in Nat /\ Len(ran') \in Nat
        /\ Len(ran) <= Len(ran')
        /\ \A k \in 1..Len(ran) : ran'[k] = ran[k]
        /\ \A k \in 1..Len(ran') :
             k \in 1..Len(ran) \/ (k = Len(ran) + 1 /\ ran'[k] = at)
    BY <1>1, <2>1, <2>2, Begins
  <2>4. \A k \in 1..Len(ran) : ran[k] < at /\ ran[k] \in Nat
    <3>1. \A k \in 1..Len(ran) : ran[k] \in Indices
      BY <2>2, ElementOfSeq DEF Types, WaitingTypes
    <3> QED
      BY <1>1, <2>2, <3>1 DEF AloneInv, Resolves
  <2>5. AloneInv'
    <3>1. \A k \in 1..Len(ran') : ran'[k] < at \/ ran'[k] = at
      BY <2>3, <2>4
    <3>2. \A j, k \in 1..Len(ran') : j < k => ran'[j] < ran'[k]
      BY <2>2, <2>3, <2>4 DEF AloneInv
    <3>3. RunsOnly(at)'
      BY <2>1, <2>3 DEF RunsOnly
    <3> QED
      BY <1>1, <1>2, <1>3, <2>1, <2>2, <3>1, <3>2, <3>3 DEF AloneInv
  <2>6. BegunInv'
    BY <1>1, <1>2, <2>1, <2>2, <2>4, BegunGrows
  <2>7. late' <= 1 /\ late' \in Nat /\ (late' = 1 => cancel)
    BY <1>5, <2>1, <2>2 DEF BatchInv, LateInv, Types, FlagTypes
  <2>8. LateInv' /\ AskInv'
    BY <1>2, <1>3, <1>5, <2>1, <2>7 DEF LateInv, AskInv
  <2>9. BatchTypes'
    BY <1>2, <2>1, <2>2 DEF Types, BatchTypes
  <2>10. AnswerTypes' /\ WaitingTypes'
    BY <1>2, <1>3, <2>1, <2>2, <2>3 DEF Types, AnswerTypes, WaitingTypes
  <2>11. RunningTypes' /\ FlagTypes'
    BY <1>1, <1>2, <1>3, <2>2, <2>3, <2>7 DEF Types, RunningTypes, FlagTypes
  <2> QED
    BY <1>3, <1>5, <2>5, <2>6, <2>8, <2>9, <2>10, <2>11 DEF BatchInv, Types
<1> QED
  BY <1>4, <1>5

-----------------------------------------------------------------------------
(* A step that leaves the calls of the batch where they are.                *)
LEMMA FrameStep ==
  ASSUME BatchInv,
         UNCHANGED <<calls, enabled, at, settled, todo, queue, running, barred>>,
         UNCHANGED <<collected, skill, approved, ran, late>>,
         \/ pc' = pc /\ mode' \in Modes /\ cycles' \in 0..MaxCycles
            /\ cancel' \in BOOLEAN /\ (cancel => cancel')
         \/ /\ UNCHANGED <<mode, cycles, cancel>>
            /\ \/ pc' = "ask" /\ Resolves /\ calls[at] = "write"
                  /\ (cancel => Concurrent)
               \/ pc = "serial" /\ pc' = "done"
  PROVE  BatchInv'
<1>1. /\ Indices' = Indices /\ (Concurrent' <=> Concurrent) /\ calls' = calls
      /\ \A i : Poolable(i)' <=> Poolable(i)
  BY Fixed
<1>2. Types'
  <2>1. BatchTypes'
    BY DEF BatchInv, Types, BatchTypes
  <2>2. AnswerTypes' /\ WaitingTypes'
    BY <1>1 DEF BatchInv, Types, AnswerTypes, WaitingTypes
  <2>3. RunningTypes'
    BY <1>1 DEF BatchInv, Types, RunningTypes
  <2>4. FlagTypes'
    BY DEF BatchInv, Types, FlagTypes
  <2> QED
    BY <2>1, <2>2, <2>3, <2>4 DEF Types
<1>3. CASE Concurrent
  <2>1. ConcurrentInv
    BY <1>3 DEF BatchInv
  <2>2. /\ Resolves' <=> Resolves
        /\ pc' = "pool" <=> pc = "pool"
        /\ pc' = "run" <=> pc = "run"
        /\ pc' \in {"serial", "run", "done"} <=> pc \in {"serial", "run", "done"}
    BY DEF Resolves
  <2>3. GatheringInv => GatheringInv'
    BY <1>1 DEF GatheringInv
  <2>4. TodoInv => TodoInv'
    BY <1>1, <2>2 DEF TodoInv, Poolable
  <2>5. PoolInv => PoolInv'
    BY <1>1 DEF PoolInv, Poolable
  <2>6. AfterInv => AfterInv'
    BY <1>1, <2>2 DEF AfterInv, RunsOnly
  <2> QED
    BY <1>1, <1>2, <1>3, <2>1, <2>2, <2>3, <2>4, <2>5, <2>6
       DEF BatchInv, ConcurrentInv, BegunInv, LateInv, AskInv, Poolable, Resolves
<1>4. CASE ~Concurrent
  <2>1. AloneInv
    BY <1>4 DEF BatchInv
  <2>2. /\ pc' \in {"resolve", "ask", "run"} <=> pc \in {"resolve", "ask", "run"}
        /\ pc' = "pool" <=> pc = "pool"
        /\ pc' = "run" <=> pc = "run"
    BY DEF Resolves
  <2>3. AloneInv'
    BY <1>1, <2>1, <2>2 DEF AloneInv, RunsOnly
  <2>4. BegunInv'
    BY <1>1 DEF BatchInv, BegunInv, Poolable
  <2>5. LateInv' /\ AskInv'
    BY <1>1, <1>4 DEF BatchInv, LateInv, AskInv, Types, FlagTypes
  <2> QED
    BY <1>1, <1>2, <1>4, <2>3, <2>4, <2>5 DEF BatchInv
<1> QED
  BY <1>3, <1>4

(* Everything the thread of the turn does while it resolves the calls, and  *)
(* what the user does to it.                                                *)
LEMMA ResolutionKeeps ==
  ASSUME BatchInv, Resolution \/ UserAnswers
  PROVE  BatchInv'
<1>1. approved \subseteq Indices /\ cancel \in BOOLEAN
  BY DEF BatchInv, Types, RunningTypes, FlagTypes
<1>2. CASE SkipCancelled
  <2>1. "cancelled" \in Outcomes
    BY DEF Outcomes
  <2> QED
    BY <1>2, <2>1, AnsweredStep DEF SkipCancelled, Resolves
<1>3. CASE ResolveInvalid
  <2>1. "invalid" \in Outcomes /\ ~Poolable(at)
    BY <1>3 DEF Outcomes, ResolveInvalid, Poolable
  <2> QED
    BY <1>3, <2>1, AnsweredStep DEF ResolveInvalid, Resolving, Resolves
<1>4. CASE GateDenies
  <2>1. "declined" \in Outcomes /\ ~Poolable(at)
    BY <1>4 DEF Outcomes, GateDenies, Poolable
  <2> QED
    BY <1>4, <2>1, AnsweredStep DEF GateDenies, Resolving, Resolves
<1>5. CASE ResolveFree
  BY <1>1, <1>5, ClearedStep DEF ResolveFree, Resolving, Resolves
<1>6. CASE GateApproves
  <2>1. Resolves
    BY <1>6 DEF GateApproves, Resolving, Resolves
  <2>2. approved' \subseteq Indices /\ at \in approved'
    BY <1>1, <1>6, <2>1, SomeCallLeft DEF GateApproves
  <2> QED
    BY <1>6, <2>1, <2>2, ClearedStep DEF GateApproves, Resolving
<1>7. CASE GateAsks
  BY <1>7, FrameStep DEF GateAsks, World, Resolving, Resolves
<1>8. CASE UserAnswers
  <2>1. Resolves /\ calls[at] = "write" /\ ~Poolable(at)
    BY <1>8 DEF UserAnswers, Resolves, BatchInv, AskInv, Poolable
  <2>2. CASE Cleared /\ approved' = approved \cup {at}
    <3>1. approved' \subseteq Indices /\ at \in approved'
      BY <1>1, <2>1, <2>2, SomeCallLeft
    <3> QED
      BY <1>8, <2>1, <2>2, <3>1, ClearedStep DEF UserAnswers
  <2>3. CASE Answered("declined") /\ UNCHANGED approved
    <3>1. "declined" \in Outcomes
      BY DEF Outcomes
    <3> QED
      BY <1>8, <2>1, <2>3, <3>1, AnsweredStep DEF UserAnswers
  <2> QED
    BY <1>8, <2>2, <2>3 DEF UserAnswers
<1> QED
  BY <1>2, <1>3, <1>4, <1>5, <1>6, <1>7, <1>8 DEF Resolution

(* A cancel, a change of the mode, the return, and a step of somebody else. *)
LEMMA FlagsKeep ==
  ASSUME BatchInv, Cancel \/ CycleMode \/ Return \/ UNCHANGED vars
  PROVE  BatchInv'
<1>1. mode \in Modes /\ cycles \in 0..MaxCycles /\ cancel \in BOOLEAN
  BY DEF BatchInv, Types, FlagTypes
<1>2. CASE Cancel
  BY <1>1, <1>2, FrameStep DEF Cancel, Frame
<1>3. CASE CycleMode
  <2>1. mode' \in Modes /\ cycles' \in 0..MaxCycles
    BY <1>1, <1>3, BatchAssumption DEF CycleMode, NextMode, Modes
  <2> QED
    BY <1>1, <1>3, <2>1, FrameStep DEF CycleMode, Frame
<1>4. CASE Return
  BY <1>4, FrameStep DEF Return, World
<1>5. CASE UNCHANGED vars
  BY <1>1, <1>5, FrameStep DEF vars
<1> QED
  BY <1>2, <1>3, <1>4, <1>5

-----------------------------------------------------------------------------
(* A call that ends leaves the pool of running calls smaller.               *)
LEMMA EndsFacts ==
  ASSUME Types, NEW i \in running, NEW o \in Outcomes, Ends(i, o)
  PROVE  /\ i \in Indices /\ o # None
         /\ running' = running \ {i} /\ running' \subseteq Indices
         /\ IsFiniteSet(running') /\ Cardinality(running') <= Workers
         /\ barred' \subseteq running' /\ skill' \in BOOLEAN
<1>1. running \subseteq Indices /\ IsFiniteSet(running) /\ barred \subseteq running
      /\ Cardinality(running) <= Workers
  BY DEF Types, RunningTypes
<1>2. running' = running \ {i} /\ barred' = barred \ {i} /\ skill' \in BOOLEAN
  BY DEF Ends, Types, FlagTypes
<1>3. IsFiniteSet(running') /\ Cardinality(running') <= Workers
  <2>1. /\ IsFiniteSet(running') /\ Cardinality(running') <= Cardinality(running)
    BY <1>1, <1>2, FS_Subset
  <2>2. Cardinality(running) \in Nat /\ Cardinality(running') \in Nat
    BY <1>1, <2>1, FS_CardinalityType
  <2> QED
    BY <1>1, <2>1, <2>2, BatchAssumption
<1> QED
  BY <1>1, <1>2, <1>3 DEF Outcomes, None

(* A worker takes the next read of the queue.                               *)
LEMMA PoolBeginsKeeps ==
  ASSUME BatchInv, PoolBegins
  PROVE  BatchInv'
<1> DEFINE i == Head(queue)
<1>1. /\ pc = "pool" /\ queue # <<>> /\ Cardinality(running) < Workers
      /\ Begin(i) /\ queue' = Tail(queue)
      /\ UNCHANGED <<calls, enabled, mode, cycles, cancel>>
      /\ UNCHANGED <<pc, at, settled, todo, collected, skill, approved, late>>
  BY DEF PoolBegins, World
<1>2. Concurrent /\ PoolInv /\ TodoInv /\ Types /\ BegunInv
  BY <1>1 DEF BatchInv, AloneInv, ConcurrentInv, Resolves
<1>3. /\ Indices' = Indices /\ (Concurrent' <=> Concurrent) /\ calls' = calls
      /\ \A j : Poolable(j)' <=> Poolable(j)
  BY <1>1, Fixed
<1>4. /\ queue \in Seq(Indices) /\ Len(queue) \in Nat \ {0}
      /\ i = queue[1] /\ i \in Indices
      /\ queue' \in Seq(Indices) /\ Len(queue') = Len(queue) - 1
      /\ \A k \in 1..Len(queue') : queue'[k] = queue[k + 1]
  <2>1. queue \in Seq(Indices)
    BY <1>2 DEF Types, WaitingTypes
  <2>2. Len(queue) \in Nat \ {0}
    BY <1>1, <2>1, EmptySeq
  <2> QED
    BY <1>1, <2>1, <2>2, HeadTailProperties
<1>5. Poolable(i) /\ i \notin running /\ \A j \in 1..Len(ran) : ran[j] # i
  BY <1>2, <1>4 DEF PoolInv
<1> HIDE DEF i
<1>6. /\ running' = running \cup {i} /\ IsFiniteSet(running')
      /\ Cardinality(running') <= Workers /\ barred' \subseteq running'
      /\ ran' \in Seq(Indices) /\ Len(ran) \in Nat /\ Len(ran') \in Nat
      /\ Len(ran) <= Len(ran')
      /\ \A k \in 1..Len(ran) : ran'[k] = ran[k]
      /\ \A k \in 1..Len(ran') :
           k \in 1..Len(ran) \/ (k = Len(ran) + 1 /\ ran'[k] = i)
  BY <1>1, <1>2, <1>4, Begins
<1>7. BegunInv'
  BY <1>1, <1>2, <1>4, <1>5, BegunGrows DEF Poolable
<1>8. TodoInv'
  <2>1. \A j \in 1..Len(ran') : j \in 1..Len(ran) \/ Poolable(ran'[j])
    BY <1>5, <1>6
  <2>2. \A k \in 1..Len(todo), j \in 1..Len(ran') :
          Poolable(ran'[j]) \/ ran'[j] < todo[k]
    BY <1>1, <1>2, <1>6, <2>1 DEF TodoInv
  <2> QED
    BY <1>1, <1>2, <2>2 DEF TodoInv, Poolable
<1>9. PoolInv'
  <2>1. running' \subseteq {j \in Indices : Poolable(j)}
    BY <1>2, <1>4, <1>5, <1>6 DEF PoolInv
  <2>2. \A k \in 1..Len(queue') : queue'[k] # i
    BY <1>2, <1>4 DEF PoolInv
  <2>3. \A j, k \in 1..Len(queue') : queue'[j] = queue'[k] => j = k
    BY <1>2, <1>4 DEF PoolInv
  <2>4. \A k \in 1..Len(queue') :
          /\ Poolable(queue'[k]) /\ queue'[k] \notin running'
          /\ collected[queue'[k]] = None
          /\ \A j \in 1..Len(ran') : ran'[j] # queue'[k]
    <3> TAKE k \in 1..Len(queue')
    <3>1. k + 1 \in 1..Len(queue) /\ queue'[k] = queue[k + 1] /\ queue'[k] # i
      BY <1>4, <2>2
    <3>2. \A j \in 1..Len(ran') : ran'[j] = i \/ \E m \in 1..Len(ran) : ran'[j] = ran[m]
      BY <1>6
    <3> QED
      BY <1>2, <1>6, <3>1, <3>2 DEF PoolInv
  <2>5. \A j \in Indices : Poolable(j) =>
          \/ collected[j] # None \/ j \in running'
          \/ \E k \in 1..Len(queue') : queue'[k] = j
    <3> TAKE j \in Indices
    <3> HAVE Poolable(j)
    <3>1. CASE \E k \in 1..Len(queue) : queue[k] = j
      <4>1. PICK k \in 1..Len(queue) : queue[k] = j
        BY <3>1
      <4>2. CASE k = 1
        BY <1>4, <1>6, <4>1, <4>2
      <4>3. CASE k # 1
        <5>1. k - 1 \in 1..Len(queue') /\ queue'[k - 1] = j
          BY <1>4, <4>1, <4>3
        <5> QED
          BY <5>1
      <4> QED
        BY <4>2, <4>3
    <3> QED
      BY <1>2, <1>6, <3>1 DEF PoolInv
  <2>6. \A j \in Indices :
          /\ Poolable(j) => settled[j] = None
          /\ collected[j] # None => Poolable(j)
          /\ settled[j] = None => \/ Poolable(j)
                                  \/ \E k \in 1..Len(todo) : todo[k] = j
    BY <1>2 DEF PoolInv
  <2>7. \A k \in 1..Len(queue') : Poolable(queue[k])'
    BY <1>1, <2>4 DEF Poolable
  <2> QED
    BY <1>1, <1>3, <2>1, <2>3, <2>4, <2>5, <2>6, <2>7 DEF PoolInv
<1>10. Types'
  <2>1. BatchTypes'
    BY <1>1, <1>2 DEF Types, BatchTypes
  <2>2. AnswerTypes' /\ WaitingTypes'
    BY <1>1, <1>2, <1>3, <1>4, <1>6 DEF Types, AnswerTypes, WaitingTypes
  <2>3. RunningTypes'
    BY <1>1, <1>2, <1>3, <1>4, <1>6 DEF Types, RunningTypes
  <2>4. FlagTypes'
    BY <1>1, <1>2 DEF Types, FlagTypes
  <2> QED
    BY <2>1, <2>2, <2>3, <2>4 DEF Types
<1>11. LateInv' /\ AskInv'
  BY <1>1, <1>3 DEF BatchInv, LateInv, AskInv
<1> QED
  BY <1>1, <1>2, <1>3, <1>7, <1>8, <1>9, <1>10, <1>11
     DEF BatchInv, ConcurrentInv, Resolves

(* A read of the pool has its result.                                       *)
LEMMA PoolEndsKeeps ==
  ASSUME BatchInv, PoolEnds
  PROVE  BatchInv'
<1>1. PICK i \in running, o \in Outcomes :
        Ends(i, o) /\ collected' = [collected EXCEPT ![i] = o]
  BY DEF PoolEnds
<1>2. /\ pc = "pool" /\ UNCHANGED <<calls, enabled, mode, cycles, cancel>>
      /\ UNCHANGED <<pc, at, settled, todo, queue, approved, ran, late>>
  BY DEF PoolEnds, World
<1>3. Concurrent /\ PoolInv /\ TodoInv /\ Types /\ BegunInv
  BY <1>2 DEF BatchInv, AloneInv, ConcurrentInv, Resolves
<1>4. /\ Indices' = Indices /\ (Concurrent' <=> Concurrent) /\ calls' = calls
      /\ \A j : Poolable(j)' <=> Poolable(j)
  BY <1>2, Fixed
<1>5. /\ i \in Indices /\ o # None
      /\ running' = running \ {i} /\ running' \subseteq Indices
      /\ IsFiniteSet(running') /\ Cardinality(running') <= Workers
      /\ barred' \subseteq running' /\ skill' \in BOOLEAN
  BY <1>1, <1>3, EndsFacts
<1>6. collected \in [Indices -> Outcomes \cup {None}] /\ Poolable(i)
      /\ \A k \in 1..Len(queue) : queue[k] # i
  BY <1>1, <1>3 DEF Types, AnswerTypes, PoolInv
<1>7. /\ collected' \in [Indices -> Outcomes \cup {None}]
      /\ \A j \in Indices : collected'[j] = IF j = i THEN o ELSE collected[j]
  BY <1>1, <1>6
<1>8. PoolInv'
  <2>1. \A k \in 1..Len(queue) : queue[k] \in Indices
    BY <1>3, ElementOfSeq DEF Types, WaitingTypes
  <2>2. \A k \in 1..Len(queue) : collected'[queue[k]] = None
    BY <1>3, <1>6, <1>7, <2>1 DEF PoolInv
  <2>3. \A j \in Indices :
          /\ collected'[j] # None => Poolable(j)
          /\ Poolable(j) => \/ collected'[j] # None \/ j \in running'
                            \/ \E k \in 1..Len(queue) : queue[k] = j
    BY <1>3, <1>5, <1>6, <1>7 DEF PoolInv
  <2> QED
    BY <1>2, <1>3, <1>4, <1>5, <2>2, <2>3 DEF PoolInv, Poolable
<1>9. TodoInv' /\ BegunInv'
  BY <1>2, <1>3 DEF TodoInv, BegunInv, Poolable
<1>10. Types'
  <2>1. BatchTypes' /\ FlagTypes'
    BY <1>2, <1>3, <1>5 DEF Types, BatchTypes, FlagTypes
  <2>2. AnswerTypes' /\ WaitingTypes' /\ RunningTypes'
    BY <1>2, <1>3, <1>4, <1>5, <1>7
       DEF Types, AnswerTypes, WaitingTypes, RunningTypes
  <2> QED
    BY <2>1, <2>2 DEF Types
<1>11. LateInv' /\ AskInv'
  BY <1>2, <1>4 DEF BatchInv, LateInv, AskInv
<1> QED
  BY <1>2, <1>3, <1>4, <1>8, <1>9, <1>10, <1>11
     DEF BatchInv, ConcurrentInv, Resolves

(* The results of the pool take their places.                               *)
LEMMA PoolCollectedKeeps ==
  ASSUME BatchInv, PoolCollected
  PROVE  BatchInv'
<1>1. /\ pc = "pool" /\ queue = <<>> /\ running = {} /\ pc' = "serial"
      /\ settled' = [j \in Indices |-> IF collected[j] # None THEN collected[j]
                                       ELSE settled[j]]
      /\ UNCHANGED <<calls, enabled, mode, cycles, cancel>>
      /\ UNCHANGED <<at, todo, queue, running, barred, collected, skill>>
      /\ UNCHANGED <<approved, ran, late>>
  BY DEF PoolCollected, World
<1>2. Concurrent /\ PoolInv /\ TodoInv /\ Types
  BY <1>1 DEF BatchInv, AloneInv, ConcurrentInv, Resolves
<1>3. /\ Indices' = Indices /\ (Concurrent' <=> Concurrent) /\ calls' = calls
      /\ \A j : Poolable(j)' <=> Poolable(j)
  BY <1>1, Fixed
<1>4. /\ settled' \in [Indices -> Outcomes \cup {None}]
      /\ \A j \in Indices : ~Poolable(j) => settled'[j] = settled[j]
      /\ \A j \in Indices : Poolable(j) => settled'[j] # None
  <2>1. /\ settled \in [Indices -> Outcomes \cup {None}]
        /\ collected \in [Indices -> Outcomes \cup {None}] /\ Len(queue) = 0
    BY <1>1, <1>2 DEF Types, AnswerTypes
  <2> QED
    BY <1>1, <1>2, <2>1 DEF PoolInv
<1>5. TodoInv'
  <2>1. \A k \in 1..Len(todo) : todo[k] \in Indices
    BY <1>2, ElementOfSeq DEF Types, WaitingTypes
  <2> QED
    BY <1>1, <1>2, <1>4, <2>1 DEF TodoInv, Poolable
<1>6. AfterInv'
  BY <1>1, <1>2, <1>3, <1>4 DEF AfterInv, PoolInv, RunsOnly
<1>7. Types'
  <2>1. BatchTypes' /\ FlagTypes'
    BY <1>1, <1>2 DEF Types, BatchTypes, FlagTypes
  <2>2. AnswerTypes' /\ WaitingTypes' /\ RunningTypes'
    BY <1>1, <1>2, <1>3, <1>4 DEF Types, AnswerTypes, WaitingTypes, RunningTypes
  <2> QED
    BY <2>1, <2>2 DEF Types
<1>8. BegunInv' /\ LateInv' /\ AskInv'
  BY <1>1, <1>3 DEF BatchInv, BegunInv, LateInv, AskInv, Poolable
<1> QED
  BY <1>1, <1>2, <1>3, <1>5, <1>6, <1>7, <1>8 DEF BatchInv, ConcurrentInv, Resolves

-----------------------------------------------------------------------------
(* The list of a concurrent batch without its first call, once that call is *)
(* answered.                                                                *)
LEMMA FirstAnswered ==
  ASSUME BatchInv, Concurrent, TodoInv, AfterInv, todo # <<>>,
         UNCHANGED <<calls, enabled, queue, approved, ran, at>>,
         NEW o \in Outcomes, settled' = [settled EXCEPT ![todo[1]] = o],
         todo' = Tail(todo), pc' = "serial", running' = {}
  PROVE  /\ TodoInv' /\ AfterInv' /\ todo' \in Seq(Indices)
         /\ settled' \in [Indices -> Outcomes \cup {None}]
         /\ todo[1] \in Indices /\ settled[todo[1]] = None
<1>1. /\ todo \in Seq(Indices) /\ settled \in [Indices -> Outcomes \cup {None}]
      /\ ran \in Seq(Indices)
  BY DEF BatchInv, Types, WaitingTypes, AnswerTypes
<1>2. /\ Len(todo) \in Nat \ {0} /\ todo' \in Seq(Indices)
      /\ Len(todo') = Len(todo) - 1
      /\ \A k \in 1..Len(todo') : todo'[k] = todo[k + 1]
  BY <1>1, EmptySeq, HeadTailProperties
<1>3. /\ \A k \in 1..Len(todo) : todo[k] \in Indices
      /\ \A k \in 1..Len(ran) : ran[k] \in Indices
      /\ Indices \subseteq Nat /\ Indices' = Indices /\ o # None
  BY <1>1, ElementOfSeq, BatchFacts, Fixed DEF BatchInv, Outcomes, None
<1>4. /\ settled' \in [Indices -> Outcomes \cup {None}]
      /\ \A i \in Indices : settled'[i] = IF i = todo[1] THEN o ELSE settled[i]
  BY <1>1, <1>2, <1>3
<1>5. \A k \in 1..Len(todo') : k + 1 \in 1..Len(todo) /\ todo'[k] # todo[1]
  <2> TAKE k \in 1..Len(todo')
  <2>1. k + 1 \in 1..Len(todo) /\ 1 \in 1..Len(todo) /\ 1 < k + 1
    BY <1>2
  <2>2. todo[1] < todo[k + 1] /\ todo[1] \in Nat /\ todo[k + 1] \in Nat
    BY <1>3, <2>1 DEF TodoInv
  <2> QED
    BY <1>2, <2>1, <2>2
<1>6. TodoInv'
  <2>1. \A j, k \in 1..Len(todo') : j < k => todo'[j] < todo'[k]
    BY <1>2, <1>5 DEF TodoInv
  <2>2. \A k \in 1..Len(todo') :
          /\ ~Poolable(todo'[k]) /\ settled'[todo'[k]] = None
          /\ calls[todo'[k]] = "write" => todo'[k] \in approved
    BY <1>2, <1>3, <1>4, <1>5 DEF TodoInv
  <2>3. \A k \in 1..Len(todo'), j \in 1..Len(ran) :
          Poolable(ran[j]) \/ ran[j] < todo'[k]
    <3> TAKE k \in 1..Len(todo'), j \in 1..Len(ran)
    <3>1. /\ 1 \in 1..Len(todo) /\ k + 1 \in 1..Len(todo) /\ k + 1 # 1
          /\ todo[1] < todo[k + 1] /\ todo'[k] = todo[k + 1]
      BY <1>2, <1>5 DEF TodoInv
    <3> QED
      BY <1>3, <3>1 DEF TodoInv
  <2> QED
    BY <2>1, <2>2, <2>3 DEF TodoInv, Poolable
<1>7. AfterInv'
  <2>1. \A i \in Indices :
          settled'[i] = None => \E k \in 1..Len(todo') : todo'[k] = i
    <3> TAKE i \in Indices
    <3> HAVE settled'[i] = None
    <3>1. i # todo[1] /\ settled[i] = None
      BY <1>3, <1>4
    <3>2. PICK k \in 1..Len(todo) : todo[k] = i
      BY <3>1 DEF AfterInv
    <3>3. k - 1 \in 1..Len(todo') /\ todo'[k - 1] = i
      BY <1>2, <3>1, <3>2
    <3> QED
      BY <3>3
  <2> QED
    BY <1>3, <2>1 DEF AfterInv, RunsOnly
<1> QED
  BY <1>2, <1>3, <1>4, <1>6, <1>7 DEF TodoInv

(* After a cancel the rest of the list is skipped.                          *)
LEMMA SerialSkipsKeeps ==
  ASSUME BatchInv, SerialSkips
  PROVE  BatchInv'
<1>1. /\ pc = "serial" /\ todo # <<>> /\ todo' = Tail(todo) /\ Head(todo) = todo[1]
      /\ settled' = [settled EXCEPT ![todo[1]] = "cancelled"]
      /\ UNCHANGED <<calls, enabled, mode, cycles, cancel>>
      /\ UNCHANGED <<pc, at, queue, running, barred, collected, skill, approved>>
      /\ UNCHANGED <<ran, late>>
  BY DEF SerialSkips, World, Settle
<1>2. Concurrent /\ TodoInv /\ AfterInv /\ Types
  BY <1>1 DEF BatchInv, AloneInv, ConcurrentInv, Resolves
<1>3. /\ TodoInv' /\ AfterInv' /\ todo' \in Seq(Indices)
      /\ settled' \in [Indices -> Outcomes \cup {None}]
  <2>1. running' = {} /\ "cancelled" \in Outcomes
    BY <1>1, <1>2 DEF AfterInv, RunsOnly, Outcomes
  <2> QED
    BY <1>1, <1>2, <2>1, FirstAnswered
<1>4. /\ Indices' = Indices /\ (Concurrent' <=> Concurrent) /\ calls' = calls
      /\ \A i : Poolable(i)' <=> Poolable(i)
  BY <1>1, Fixed
<1>5. Types'
  <2>1. BatchTypes' /\ FlagTypes'
    BY <1>1, <1>2 DEF Types, BatchTypes, FlagTypes
  <2>2. AnswerTypes' /\ WaitingTypes' /\ RunningTypes'
    BY <1>1, <1>2, <1>3, <1>4 DEF Types, AnswerTypes, WaitingTypes, RunningTypes
  <2> QED
    BY <2>1, <2>2 DEF Types
<1>6. BegunInv' /\ LateInv' /\ AskInv'
  BY <1>1, <1>4 DEF BatchInv, BegunInv, LateInv, AskInv, Poolable
<1> QED
  BY <1>1, <1>2, <1>3, <1>4, <1>5, <1>6 DEF BatchInv, ConcurrentInv, Resolves

(* The next call of the list begins.                                        *)
LEMMA SerialBeginsKeeps ==
  ASSUME BatchInv, SerialBegins
  PROVE  BatchInv'
<1> DEFINE i == todo[1]
<1>1. /\ pc = "serial" /\ todo # <<>> /\ ~cancel /\ Head(todo) = i
      /\ BeginAlone(i) /\ pc' = "run"
      /\ UNCHANGED <<calls, enabled, mode, cycles, cancel>>
      /\ UNCHANGED <<at, settled, todo, queue, collected, skill, approved>>
  BY DEF SerialBegins, World
<1>2. /\ Concurrent /\ TodoInv /\ AfterInv /\ Types /\ BegunInv
      /\ running = {}
  BY <1>1 DEF BatchInv, AloneInv, ConcurrentInv, Resolves, AfterInv, RunsOnly
<1>3. /\ Indices' = Indices /\ (Concurrent' <=> Concurrent) /\ calls' = calls
      /\ \A j : Poolable(j)' <=> Poolable(j)
  BY <1>1, Fixed
<1>4. /\ Len(todo) \in Nat \ {0} /\ i \in Indices /\ ~Poolable(i)
      /\ calls[i] = "write" => i \in approved
      /\ \A k \in 1..Len(ran) : Poolable(ran[k]) \/ ran[k] < i
      /\ \A k \in 1..Len(ran) : ran[k] \in Indices /\ ran[k] # i
  <2>1. todo \in Seq(Indices) /\ ran \in Seq(Indices)
    BY <1>2 DEF Types, WaitingTypes
  <2>2. Len(todo) \in Nat \ {0} /\ 1 \in 1..Len(todo) /\ i \in Indices
    BY <1>1, <2>1, EmptySeq
  <2>3. /\ ~Poolable(i) /\ (calls[i] = "write" => i \in approved)
        /\ \A k \in 1..Len(ran) : Poolable(ran[k]) \/ ran[k] < i
    BY <1>1, <1>2, <2>2 DEF TodoInv
  <2>4. \A k \in 1..Len(ran) : ran[k] \in Indices
    BY <2>1, ElementOfSeq
  <2>5. Indices \subseteq Nat
    BY <1>2, BatchFacts
  <2> HIDE DEF i
  <2> QED
    BY <2>2, <2>3, <2>4, <2>5
<1> HIDE DEF i
<1>5. Begin(i) /\ late' = late
  BY <1>1 DEF BeginAlone
<1>6. /\ running' = {i} /\ IsFiniteSet(running')
      /\ Cardinality(running') <= Workers /\ barred' \subseteq running'
      /\ ran' \in Seq(Indices) /\ Len(ran) \in Nat /\ Len(ran') \in Nat
      /\ Len(ran) <= Len(ran')
      /\ \A k \in 1..Len(ran) : ran'[k] = ran[k]
      /\ \A k \in 1..Len(ran') :
           k \in 1..Len(ran) \/ (k = Len(ran) + 1 /\ ran'[k] = i)
  BY <1>2, <1>4, <1>5, Begins
<1>7. BegunInv'
  BY <1>1, <1>2, <1>4, <1>5, BegunGrows DEF Poolable
<1>8. TodoInv'
  <2>1. \A k \in 1..Len(todo), j \in 1..Len(ran') :
          Poolable(ran'[j]) \/ ran'[j] < todo[k] \/ (k = 1 /\ ran'[j] = todo[1])
    <3> TAKE k \in 1..Len(todo), j \in 1..Len(ran')
    <3>1. CASE j \in 1..Len(ran)
      BY <1>1, <1>2, <1>6, <3>1 DEF TodoInv
    <3>2. CASE ran'[j] = i
      <4>1. k = 1 \/ (1 \in 1..Len(todo) /\ 1 < k)
        BY <1>4
      <4> QED
        BY <1>2, <3>2, <4>1 DEF TodoInv, i
    <3> QED
      BY <1>6, <3>1, <3>2
  <2> QED
    BY <1>1, <1>2, <2>1 DEF TodoInv, Poolable
<1>9. AfterInv'
  BY <1>1, <1>2, <1>3, <1>6 DEF AfterInv, RunsOnly, i
<1>10. Types'
  <2>1. BatchTypes' /\ FlagTypes'
    BY <1>1, <1>2, <1>5 DEF Types, BatchTypes, FlagTypes
  <2>2. AnswerTypes' /\ WaitingTypes'
    BY <1>1, <1>2, <1>3, <1>6 DEF Types, AnswerTypes, WaitingTypes
  <2>3. RunningTypes'
    BY <1>1, <1>2, <1>3, <1>4, <1>6 DEF Types, RunningTypes
  <2> QED
    BY <2>1, <2>2, <2>3 DEF Types
<1>11. LateInv' /\ AskInv'
  BY <1>1, <1>3, <1>5 DEF BatchInv, LateInv, AskInv
<1> QED
  BY <1>1, <1>2, <1>3, <1>7, <1>8, <1>9, <1>10, <1>11
     DEF BatchInv, ConcurrentInv, Resolves

(* A call that ran alone ends: the list goes on without it, or the next call*)
(* is resolved.                                                             *)
LEMMA RunEndsKeeps ==
  ASSUME BatchInv, RunEnds
  PROVE  BatchInv'
<1>1. PICK i \in running, o \in Outcomes :
        /\ Ends(i, o) /\ settled' = [settled EXCEPT ![i] = o]
        /\ IF Concurrent
           THEN /\ todo' = Tail(todo) /\ pc' = "serial"
                /\ UNCHANGED <<at, queue>>
           ELSE Advance([settled EXCEPT ![i] = o])
  BY DEF RunEnds, Settle
<1>2. /\ pc = "run" /\ UNCHANGED <<calls, enabled, mode, cycles, cancel>>
      /\ UNCHANGED <<collected, approved, ran, late>>
  BY DEF RunEnds, World
<1>3. /\ Indices' = Indices /\ (Concurrent' <=> Concurrent) /\ calls' = calls
      /\ \A j : Poolable(j)' <=> Poolable(j)
  BY <1>2, Fixed
<1>4. /\ i \in Indices /\ o # None
      /\ running' = running \ {i} /\ running' \subseteq Indices
      /\ IsFiniteSet(running') /\ Cardinality(running') <= Workers
      /\ barred' \subseteq running' /\ skill' \in BOOLEAN
  BY <1>1, EndsFacts DEF BatchInv
<1>5. /\ Concurrent => TodoInv' /\ AfterInv'
      /\ ~Concurrent => AloneInv'
      /\ pc' \in {"resolve", "serial"} /\ (Concurrent => pc' = "serial")
      /\ at' \in 1..(Len(calls) + 1)
      /\ todo' \in Seq(Indices) /\ queue' \in Seq(Indices)
      /\ settled' \in [Indices -> Outcomes \cup {None}]
  <2>1. CASE Concurrent
    <3>1. TodoInv /\ AfterInv
      BY <1>2, <2>1 DEF BatchInv, ConcurrentInv, Resolves
    <3>2. todo # <<>> /\ i = todo[1] /\ running' = {}
      BY <1>1, <1>2, <1>4, <3>1 DEF AfterInv, RunsOnly
    <3>3. /\ TodoInv' /\ AfterInv' /\ todo' \in Seq(Indices)
          /\ settled' \in [Indices -> Outcomes \cup {None}]
      BY <1>1, <1>2, <2>1, <3>1, <3>2, FirstAnswered
    <3> QED
      BY <1>1, <2>1, <3>3 DEF BatchInv, Types, BatchTypes, WaitingTypes
  <2>2. CASE ~Concurrent
    <3>1. AloneInv
      BY <2>2 DEF BatchInv
    <3>2. /\ at' = at + 1 /\ UNCHANGED <<todo, queue>>
          /\ pc' = IF at < Len(calls) THEN "resolve" ELSE "serial"
      BY <1>1, <2>2 DEF Advance
    <3>3. /\ i = at /\ running' = {} /\ at <= Len(calls)
          /\ Len(calls) \in Nat /\ Indices = 1..Len(calls) /\ at \in 1..Len(calls)
      BY <1>1, <1>2, <1>4, <3>1, BatchFacts DEF AloneInv, RunsOnly, BatchInv
    <3>4. /\ settled' \in [Indices -> Outcomes \cup {None}]
          /\ \A j \in Indices : settled'[j] = IF j = at THEN o ELSE settled[j]
      BY <1>1, <1>4, <3>3 DEF BatchInv, Types, AnswerTypes
    <3>5. \A j \in Indices : settled'[j] = None <=> j >= at'
      BY <1>4, <3>1, <3>2, <3>3, <3>4 DEF AloneInv
    <3>6. \A k \in 1..Len(ran) : ran[k] < at'
      <4>1. \A k \in 1..Len(ran) :
              (ran[k] < at \/ ran[k] = at) /\ ran[k] \in Indices
        BY <3>1, ElementOfSeq DEF AloneInv, BatchInv, Types, WaitingTypes
      <4> QED
        BY <3>2, <3>3, <4>1
    <3>7. pc' \in {"resolve", "ask", "run"} <=> at' <= Len(calls')
      BY <1>3, <3>2, <3>3
    <3>8. RunsOnly(at)' /\ pc' # "pool"
      BY <3>2, <3>3 DEF RunsOnly
    <3>9. AloneInv'
      BY <1>2, <1>3, <3>1, <3>2, <3>5, <3>6, <3>7, <3>8 DEF AloneInv
    <3> QED
      BY <2>2, <3>1, <3>2, <3>3, <3>4, <3>9, EmptySeq DEF AloneInv
  <2> QED
    BY <2>1, <2>2
<1>6. Types'
  <2>1. BatchTypes' /\ FlagTypes'
    BY <1>2, <1>4, <1>5 DEF BatchInv, Types, BatchTypes, FlagTypes
  <2>2. AnswerTypes' /\ WaitingTypes' /\ RunningTypes'
    BY <1>2, <1>3, <1>4, <1>5
       DEF BatchInv, Types, AnswerTypes, WaitingTypes, RunningTypes
  <2> QED
    BY <2>1, <2>2 DEF Types
<1>7. BegunInv' /\ LateInv' /\ AskInv'
  BY <1>2, <1>3, <1>5 DEF BatchInv, BegunInv, LateInv, AskInv, Poolable
<1> QED
  BY <1>3, <1>5, <1>6, <1>7 DEF BatchInv, ConcurrentInv, Resolves

(* The invariant holds when a batch begins.                                 *)
LEMMA InitHolds == Init => BatchInv
<1> SUFFICES ASSUME Init PROVE BatchInv
  OBVIOUS
<1>1. BatchTypes
  <2>1. PICK n \in 1..MaxCalls : calls \in [1..n -> Kinds]
    BY BatchAssumption DEF Init
  <2>2. Len(calls) = n
    BY <2>1
  <2> QED
    BY <2>1, <2>2, BatchAssumption DEF Init, BatchTypes
<1>2. Indices = 1..Len(calls) /\ Len(calls) \in Nat \ {0}
  BY <1>1, BatchAssumption DEF BatchTypes, Indices
<1>3. AnswerTypes /\ WaitingTypes
  BY EmptySeq DEF Init, AnswerTypes, WaitingTypes
<1>4. RunningTypes /\ FlagTypes
  <2>1. running = {} /\ barred = {} /\ approved = {}
    BY DEF Init
  <2>2. IsFiniteSet(running) /\ Cardinality(running) = 0 /\ 0 <= Workers
    BY <2>1, FS_EmptySet, BatchAssumption
  <2>3. RunningTypes
    BY <2>1, <2>2 DEF RunningTypes
  <2>4. mode \in Modes /\ skill \in BOOLEAN /\ cancel \in BOOLEAN
    BY DEF Init
  <2>5. cycles \in 0..MaxCycles /\ late \in Nat
    BY BatchAssumption DEF Init
  <2>6. FlagTypes
    BY <2>4, <2>5 DEF FlagTypes
  <2> QED
    BY <2>3, <2>6
<1>5. AloneInv /\ BegunInv
  BY <1>2 DEF Init, AloneInv, BegunInv, RunsOnly
<1>6. ConcurrentInv
  <2>1. GatheringInv
    BY <1>2 DEF Init, GatheringInv
  <2> QED
    BY <2>1 DEF Init, ConcurrentInv, Resolves
<1>7. LateInv /\ AskInv
  BY DEF Init, LateInv, AskInv
<1> QED
  BY <1>1, <1>3, <1>4, <1>5, <1>6, <1>7 DEF BatchInv, Types

(* The invariant of a batch holds in every reachable state.                 *)
LEMMA BatchHolds == Spec => []BatchInv
<1>1. BatchInv /\ [Next]_vars => BatchInv'
  <2> SUFFICES ASSUME BatchInv, [Next]_vars PROVE BatchInv'
    OBVIOUS
  <2> QED
    BY ResolutionKeeps, FlagsKeep, PoolBeginsKeeps, PoolEndsKeeps,
       PoolCollectedKeeps, SerialSkipsKeeps, SerialBeginsKeeps, RunEndsKeeps
       DEF Next, Execution
<1> QED
  BY <1>1, InitHolds, PTL DEF Spec

-----------------------------------------------------------------------------
(* No call waits in two places, no more calls run than the pool has workers,*)
(* and every answer is one the code can give, for every batch.              *)
THEOREM BatchTypeCorrect == Spec => []TypeOK
<1>1. BatchInv => TypeOK
  <2> SUFFICES ASSUME BatchInv PROVE TypeOK
    OBVIOUS
  <2>1. \A j \in 1..Len(todo), k \in 1..Len(queue) : todo[j] # queue[k]
    <3>1. CASE pc = "pool"
      <4>1. Concurrent /\ PoolInv /\ TodoInv
        BY <3>1 DEF BatchInv, AloneInv, ConcurrentInv, Resolves
      <4> QED
        BY <4>1 DEF PoolInv, TodoInv
    <3>2. CASE pc # "pool"
      <4>1. queue = <<>>
        BY <3>2 DEF BatchInv, Types, BatchTypes, AloneInv, ConcurrentInv,
           GatheringInv, AfterInv, Resolves
      <4> QED
        BY <4>1
    <3> QED
      BY <3>1, <3>2
  <2>2. ToSet(todo) \cap ToSet(queue) = {}
    BY <2>1 DEF ToSet, BatchInv, Types, WaitingTypes
  <2> QED
    BY <2>2 DEF BatchInv, Types, BatchTypes, AnswerTypes, WaitingTypes,
       RunningTypes, FlagTypes, TypeOK
<1> QED
  BY <1>1, BatchHolds, PTL

(* What a batch does to the world is safe for every batch and every pool: a *)
(* call with effects runs alone and after the reads, in call order, once,   *)
(* with its approval, and at most one begins after the cancel.              *)
THEOREM BatchIsSafe == Spec => []EffectsAreSafe
<1>1. BatchInv => AloneAndAfterTheReads
  <2> SUFFICES ASSUME BatchInv, NEW i \in running,
                      calls[i] \notin {"read", "skill"}
               PROVE  /\ running = {i}
                      /\ Concurrent => \A j \in Indices :
                           calls[j] \in {"read", "skill"} => settled[j] # None
    BY DEF AloneAndAfterTheReads
  <2>1. i \in Indices /\ ~Poolable(i)
    BY DEF BatchInv, Types, RunningTypes, Poolable
  <2>2. CASE Concurrent
    <3>1. ConcurrentInv
      BY <2>2 DEF BatchInv
    <3>2. pc \in {"serial", "run", "done"}
      BY <2>1, <3>1 DEF BatchInv, Types, BatchTypes, ConcurrentInv, Resolves,
         GatheringInv, PoolInv
    <3>3. AfterInv /\ TodoInv
      BY <3>1, <3>2 DEF ConcurrentInv, Resolves
    <3> QED
      BY <3>3 DEF AfterInv, TodoInv, RunsOnly, Poolable
  <2>3. CASE ~Concurrent
    BY <2>3 DEF BatchInv, AloneInv, RunsOnly
  <2> QED
    BY <2>2, <2>3
<1>2. BatchInv => EffectsInCallOrder
  BY DEF BatchInv, BegunInv, EffectsInCallOrder, Poolable
<1>3. BatchInv => OnlyApprovedEffects
  BY DEF BatchInv, BegunInv, Types, WaitingTypes, OnlyApprovedEffects, IsInjective
<1>4. BatchInv => CancelStopsTheBatch
  BY DEF BatchInv, LateInv, CancelStopsTheBatch
<1> QED
  BY <1>1, <1>2, <1>3, <1>4, BatchHolds, PTL DEF EffectsAreSafe

-----------------------------------------------------------------------------
(* A step that answers some of the open calls, or none.                     *)
LEMMA AnswersSome ==
  ASSUME Types, pc # "done", pc' # "done", UNCHANGED calls,
         settled' \in [Indices -> Outcomes \cup {None}],
         \A i \in Indices : settled[i] # None => settled'[i] = settled[i]
  PROVE  Contract!AnswerSome
<1>1. settled \in [Indices -> Outcomes \cup {None}]
  BY DEF Types, AnswerTypes
<1> QED
  BY <1>1 DEF Contract!AnswerSome, Contract!Open

(* One call is answered that was open.                                      *)
LEMMA AnswersOne ==
  ASSUME Types, pc # "done", pc' # "done", UNCHANGED calls,
         NEW i \in Indices, NEW o \in Outcomes, settled[i] = None,
         settled' = [settled EXCEPT ![i] = o]
  PROVE  Contract!AnswerSome
<1>1. settled \in [Indices -> Outcomes \cup {None}]
  BY DEF Types, AnswerTypes
<1>2. /\ settled' \in [Indices -> Outcomes \cup {None}]
      /\ \A j \in Indices : settled[j] # None => settled'[j] = settled[j]
  BY <1>1
<1> QED
  BY <1>2, AnswersSome

(* A step that answers nothing and does not return.                         *)
LEMMA AnswersNone ==
  ASSUME UNCHANGED settled, pc # "done", pc' # "done"
  PROVE  UNCHANGED Contract!vars
BY DEF Contract!vars

(* The batch has returned or goes on, but the call at hand is settled.      *)
LEMMA NotDone ==
  /\ \A answers : Advance(answers) => pc' # "done"
  /\ Cleared => pc' # "done" /\ UNCHANGED settled
BY DEF Advance, Launch, Cleared

(* A step that resolves calls answers one, or none.                         *)
LEMMA ResolutionPromised ==
  ASSUME BatchInv, Resolution \/ UserAnswers
  PROVE  Contract!AnswerSome \/ UNCHANGED Contract!vars
<1>1. /\ Resolves /\ pc # "done" /\ Types
  BY DEF Resolution, UserAnswers, SkipCancelled, ResolveInvalid, ResolveFree,
     GateDenies, GateApproves, GateAsks, Resolving, Resolves, BatchInv
<1>2. at \in Indices /\ settled[at] = None
  BY <1>1, SomeCallLeft
<1>3. ASSUME NEW o \in Outcomes, Answered(o), UNCHANGED calls
      PROVE  Contract!AnswerSome
  <2>1. settled' = [settled EXCEPT ![at] = o] /\ pc' # "done"
    BY <1>3, NotDone DEF Answered, Settle
  <2> QED
    BY <1>1, <1>2, <1>3, <2>1, AnswersOne
<1>4. CASE Cleared
  BY <1>1, <1>4, NotDone, AnswersNone
<1>5. CASE GateAsks
  BY <1>1, <1>5, AnswersNone DEF GateAsks
<1>6. CASE \E o \in {"cancelled", "invalid", "declined"} : Answered(o)
  <2>1. {"cancelled", "invalid", "declined"} \subseteq Outcomes
    BY DEF Outcomes
  <2>2. UNCHANGED calls
    BY DEF Resolution, UserAnswers, SkipCancelled, ResolveInvalid, ResolveFree,
       GateDenies, GateApproves, GateAsks, World
  <2> QED
    BY <1>3, <1>6, <2>1, <2>2
<1> QED
  BY <1>4, <1>5, <1>6 DEF Resolution, UserAnswers, SkipCancelled, ResolveInvalid,
     ResolveFree, GateDenies, GateApproves

(* A step that executes calls answers some, or none, or returns with all    *)
(* of them answered.                                                        *)
LEMMA ExecutionPromised ==
  ASSUME BatchInv, Execution
  PROVE  \/ Contract!AnswerSome \/ Contract!Return
         \/ UNCHANGED Contract!vars
<1>1. Types /\ Types'
  <2>1. BatchInv'
    BY PoolBeginsKeeps, PoolEndsKeeps, PoolCollectedKeeps, SerialSkipsKeeps,
       SerialBeginsKeeps, RunEndsKeeps, FlagsKeep DEF Execution
  <2> QED
    BY <2>1 DEF BatchInv
<1>2. CASE PoolBegins \/ PoolEnds \/ SerialBegins
  BY <1>2, AnswersNone DEF PoolBegins, PoolEnds, SerialBegins
<1>3. CASE PoolCollected
  <2>1. PoolInv /\ pc = "pool" /\ pc' = "serial"
    BY <1>3 DEF PoolCollected, BatchInv, AloneInv, ConcurrentInv
  <2>2. Indices' = Indices /\ calls' = calls
    BY <1>3, Fixed DEF PoolCollected, World
  <2>3. settled' \in [Indices -> Outcomes \cup {None}]
    BY <1>1, <2>2 DEF Types, AnswerTypes
  <2>4. \A i \in Indices : settled[i] # None => settled'[i] = settled[i]
    BY <1>3, <2>1 DEF PoolCollected, PoolInv
  <2> QED
    BY <1>1, <2>1, <2>2, <2>3, <2>4, AnswersSome
<1>4. CASE SerialSkips
  <2>1. /\ pc = "serial" /\ pc' = "serial" /\ todo # <<>> /\ UNCHANGED calls
        /\ settled' = [settled EXCEPT ![todo[1]] = "cancelled"]
    BY <1>4 DEF SerialSkips, World, Settle
  <2>2. TodoInv
    BY <2>1 DEF BatchInv, AloneInv, ConcurrentInv, Resolves
  <2>3. todo[1] \in Indices /\ settled[todo[1]] = None
    <3>1. todo \in Seq(Indices) /\ Len(todo) \in Nat \ {0}
      BY <1>1, <2>1, EmptySeq DEF Types, WaitingTypes
    <3> QED
      BY <2>2, <3>1 DEF TodoInv
  <2>4. "cancelled" \in Outcomes
    BY DEF Outcomes
  <2> QED
    BY <1>1, <2>1, <2>3, <2>4, AnswersOne
<1>5. CASE RunEnds
  <2>1. PICK i \in running, o \in Outcomes : settled' = [settled EXCEPT ![i] = o]
    BY <1>5 DEF RunEnds, Settle
  <2>2. pc = "run" /\ pc' # "done" /\ UNCHANGED calls
    BY <1>5, NotDone DEF RunEnds, World
  <2>3. i \in Indices /\ settled[i] = None
    <3>1. CASE Concurrent
      <4>1. AfterInv /\ TodoInv
        BY <2>2, <3>1 DEF BatchInv, ConcurrentInv, Resolves
      <4>2. i = todo[1] /\ todo # <<>>
        BY <2>1, <2>2, <4>1 DEF AfterInv, RunsOnly
      <4>3. todo \in Seq(Indices) /\ Len(todo) \in Nat \ {0}
        BY <1>1, <4>2, EmptySeq DEF Types, WaitingTypes
      <4> QED
        BY <4>1, <4>2, <4>3 DEF TodoInv
    <3>2. CASE ~Concurrent
      <4>1. i = at /\ i \in Indices
        BY <1>1, <2>1, <2>2, <3>2 DEF BatchInv, AloneInv, RunsOnly, Types, RunningTypes
      <4> QED
        BY <1>1, <3>2, <4>1, BatchFacts DEF BatchInv, AloneInv
    <3> QED
      BY <3>1, <3>2
  <2> QED
    BY <1>1, <2>1, <2>2, <2>3, AnswersOne
<1>6. CASE Return
  <2>1. pc = "serial" /\ todo = <<>> /\ pc' = "done" /\ UNCHANGED settled
    BY <1>6 DEF Return
  <2>2. \A i \in Indices : settled[i] # None
    <3>1. CASE Concurrent
      BY <2>1, <3>1 DEF BatchInv, ConcurrentInv, AfterInv
    <3>2. CASE ~Concurrent
      BY <1>1, <2>1, <3>2, BatchFacts DEF BatchInv, AloneInv
    <3> QED
      BY <3>1, <3>2
  <2>3. DOMAIN settled = Indices
    BY <1>1 DEF Types, AnswerTypes
  <2> QED
    BY <2>1, <2>2, <2>3 DEF Contract!Return, Contract!Open
<1> QED
  BY <1>2, <1>3, <1>4, <1>5, <1>6 DEF Execution

(* A batch does what BatchContract promises the loop: it answers every call *)
(* once, never takes an answer back, and returns when all of them are there.*)
(* That it does return is the part TLC checks.                              *)
THEOREM BatchKeepsContract == Spec => Contract!SafeSpec
<1>1. Init => Contract!Init
  <2> SUFFICES ASSUME Init PROVE Contract!Init
    OBVIOUS
  <2>1. PICK n \in 1..MaxCalls : calls \in [1..n -> Kinds]
    BY BatchAssumption DEF Init
  <2>2. Indices = 1..n
    BY <2>1 DEF Indices
  <2> QED
    BY <2>1, <2>2 DEF Init, Contract!Init
<1>2. BatchInv /\ [Next]_vars => [Contract!Next]_(Contract!vars)
  <2> SUFFICES ASSUME BatchInv, [Next]_vars
               PROVE  [Contract!Next]_(Contract!vars)
    OBVIOUS
  <2>1. CASE Resolution \/ UserAnswers
    BY <2>1, ResolutionPromised DEF Contract!Next
  <2>2. CASE Execution
    BY <2>2, ExecutionPromised DEF Contract!Next
  <2>3. CASE Cancel \/ CycleMode \/ UNCHANGED vars
    BY <2>3 DEF Cancel, CycleMode, Frame, vars, Contract!vars
  <2> QED
    BY <2>1, <2>2, <2>3 DEF Next
<1> QED
  BY <1>1, <1>2, BatchHolds, PTL DEF Spec, Contract!SafeSpec
=============================================================================
