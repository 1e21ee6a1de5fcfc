------------------------------ MODULE AppProofs ------------------------------
(***************************************************************************)
(* Theorems about the app.  The choice of a model is right for every set   *)
(* of providers, models and stored keys and for every number of lines; the *)
(* transcript is faithful for every set of tools and any number of turns,  *)
(* pieces of text and calls.  AppInvariant has the invariants.             *)
(***************************************************************************)
EXTENDS AppInvariant, WellFoundedInduction, SequenceTheorems, FiniteSetTheorems, TLAPS

-----------------------------------------------------------------------------

(* What is on a stack or in a queue after a step.                           *)
LEMMA Appended ==
  ASSUME NEW S, NEW s \in Seq(S), NEW e \in S
  PROVE  /\ Append(s, e) \in Seq(S) /\ Len(s) \in Nat
         /\ Len(Append(s, e)) = Len(s) + 1
         /\ Append(s, e)[Len(s) + 1] = e
         /\ \A i \in 1..Len(s) : Append(s, e)[i] = s[i] /\ s[i] \in S
OBVIOUS

(* The parts of a stack.                                                    *)
LEMMA FrontAndLast ==
  ASSUME NEW S, NEW s \in Seq(S), s # <<>>
  PROVE  /\ Front(s) \in Seq(S) /\ Len(s) \in Nat \ {0}
         /\ Len(Front(s)) = Len(s) - 1
         /\ \A i \in 1..(Len(s) - 1) : Front(s)[i] = s[i]
         /\ Last(s) = s[Len(s)] /\ Last(s) \in S
<1>1. Len(s) \in Nat /\ Len(s) # 0 /\ s \in [1..Len(s) -> S]
  BY EmptySeq, LenProperties
<1>2. s[Len(s)] \in S
  BY <1>1
<1>3. /\ SubSeq(s, 1, Len(s) - 1) \in Seq(S)
      /\ Len(SubSeq(s, 1, Len(s) - 1)) = Len(s) - 1
      /\ \A i \in 1..(Len(s) - 1) : SubSeq(s, 1, Len(s) - 1)[i] = s[i]
  BY <1>1
<1> QED BY <1>1, <1>2, <1>3 DEF Front, Last

(* The parts of a queue.                                                    *)
LEMMA HeadAndTail ==
  ASSUME NEW S, NEW s \in Seq(S), s # <<>>
  PROVE  /\ Head(s) = s[1] /\ Head(s) \in S /\ Tail(s) \in Seq(S)
         /\ Len(s) \in Nat \ {0} /\ Len(Tail(s)) = Len(s) - 1
         /\ \A i \in 1..(Len(s) - 1) : Tail(s)[i] = s[i + 1]
BY EmptySeq, LenProperties, HeadTailProperties

(* The provider that is switched to is the old one or the new one.          *)
LEMMA SetModelTypes ==
  ASSUME ModelTypes, NEW ref \in Ref, SetModel(ref)
  PROVE  provider' \in Ref /\ provider' \in {provider, ref}
BY DEF ModelTypes, SetModel, model

(* A catalog that is asked for comes from the cache or from a fetch.        *)
LEMMA RequestCatalogEffect ==
  ASSUME CatalogTypes, NEW name \in Providers, NEW purpose \in Purposes,
         RequestCatalog(name, purpose)
  PROVE  /\ CatalogTypes' /\ cache' = cache
         /\ \/ \E f : /\ fetching' = fetching \cup {f} /\ queue' = queue
                      /\ f.name = name /\ f.purpose = purpose
            \/ \E m \in Message :
                 /\ queue' = Append(queue, m) /\ fetching' = fetching
                 /\ m.name = name /\ m.purpose = purpose
<1>1. CASE cache[name] # {}
  <2> DEFINE m == [name |-> name, entries |-> cache[name], purpose |-> purpose]
  <2>1. m \in Message /\ m.entries \subseteq Listing[m.name]
    BY DEF CatalogTypes, Message
  <2>2. queue' = Append(queue, m) /\ UNCHANGED <<cache, fetching>>
    BY <1>1 DEF RequestCatalog
  <2>3. m.name = name /\ m.purpose = purpose
    OBVIOUS
  <2> HIDE DEF m
  <2>4. /\ queue' \in Seq(Message) /\ Len(queue') = Len(queue) + 1
        /\ Len(queue) \in Nat /\ queue'[Len(queue) + 1] = m
        /\ \A i \in 1..Len(queue) : queue'[i] = queue[i]
    BY <2>1, <2>2, Appended DEF CatalogTypes
  <2>5. CatalogTypes'
    <3>1. ASSUME NEW k \in 1..Len(queue')
          PROVE  queue'[k].entries \subseteq Listing[queue'[k].name]
      <4>1. CASE k = Len(queue) + 1
        BY <2>1, <2>4, <4>1
      <4>2. CASE k \in 1..Len(queue)
        BY <2>4, <4>2 DEF CatalogTypes
      <4> QED BY <2>4, <4>1, <4>2
    <3> QED BY <2>2, <2>4, <3>1 DEF CatalogTypes
  <2> QED BY <2>1, <2>2, <2>3, <2>5
<1>2. CASE cache[name] = {}
  <2> DEFINE f == [name |-> name, purpose |-> purpose, id |-> uses]
  <2>1. fetching' = fetching \cup {f} /\ UNCHANGED <<cache, queue>>
    BY <1>2 DEF RequestCatalog
  <2>2. f.name = name /\ f.purpose = purpose
    OBVIOUS
  <2> HIDE DEF f
  <2>3. CatalogTypes'
    BY <2>1, <2>2 DEF CatalogTypes
  <2> QED BY <2>1, <2>2, <2>3
<1> QED BY <1>1, <1>2

(* The adapter of a provider is a provider.                                 *)
LEMMA AdapterIsProvider ==
  ASSUME NEW name \in Providers
  PROVE  Adapter(name) \in Providers
BY ModelSwitchAssumption DEF Adapter

(* Whoever is asked for a key is asked for the key of a row.                *)
LEMMA RowIsProvider ==
  ASSUME DialogTypes, On("key")
  PROVE  chain.row \in Providers
<1>1. screens # <<>> /\ Last(screens).kind = "key" /\ screens \in Seq(Screen)
  BY DEF On, Top, DialogTypes
<1>2. Len(screens) \in Nat \ {0} /\ Last(screens) = screens[Len(screens)]
  BY <1>1, FrontAndLast
<1>3. Len(screens) \in 1..Len(screens)
  BY <1>2
<1> QED BY <1>1, <1>2, <1>3 DEF DialogTypes

(* The types hold at the start.                                             *)
LEMMA TypesInit ==
  ASSUME Init
  PROVE  SwitchTypes
BY ModelSwitchAssumption DEF Init, ModelTypes, CatalogTypes, LineTypes, DialogTypes, Key, SwitchTypes

(* The model that is used, and the one a turn began with.                   *)
LEMMA ModelTypesKept ==
  ASSUME SwitchTypes, [Next]_vars
  PROVE  ModelTypes'
<1> USE DEF SwitchTypes
<1>1. ASSUME UNCHANGED <<provider, turn>> PROVE ModelTypes'
  BY <1>1 DEF ModelTypes
<1>2. ASSUME UNCHANGED turn, NEW ref \in Ref, SetModel(ref) PROVE ModelTypes'
  BY <1>2, SetModelTypes DEF ModelTypes
<1>3. ASSUME NEW ref \in [name : Providers \cup {Bare}, model : Models],
             TypeModel(ref)
      PROVE  ModelTypes'
  <2>1. UNCHANGED turn
    BY <1>3 DEF TypeModel
  <2>2. CASE ref.name # Bare /\ SetModel(ref)
    BY <1>2, <2>1, <2>2 DEF Ref
  <2>3. CASE SetModel([ref EXCEPT !.name = Adapter(provider.name)])
    BY AdapterIsProvider, <1>2, <2>1, <2>3 DEF ModelTypes, Ref
  <2> QED BY <1>1, <1>3, <2>1, <2>2, <2>3 DEF TypeModel, model
<1>4. CASE CatalogReady
  <2> DEFINE m == Head(queue)
  <2>1. m \in Message /\ UNCHANGED turn
    BY <1>4, HeadAndTail DEF CatalogReady, CatalogTypes
  <2> HIDE DEF m
  <2>2. CASE Resolved(m)
    <3> DEFINE hits == {w \in pending : w.name = m.name /\ w.model \in m.entries}
    <3>1. CASE hits = {}
      BY <1>1, <2>1, <2>2, <3>1 DEF Resolved, model
    <3>2. CASE hits # {}
      <4>1. PICK last \in hits : SetModel([name |-> m.name, model |-> last.model])
        BY <2>2, <3>2 DEF Resolved
      <4>2. last.model \in Models /\ m.name \in Providers
        BY <2>1 DEF LineTypes, Line, Message
      <4>3. [name |-> m.name, model |-> last.model] \in Ref
        BY <4>2 DEF Ref
      <4> QED BY <1>2, <2>1, <4>1, <4>3
    <3> QED BY <3>1, <3>2
  <2>3. CASE UNCHANGED model
    BY <1>1, <2>1, <2>3 DEF model
  <2> QED BY <1>4, <2>2, <2>3 DEF CatalogReady, m
<1>5. ASSUME NEW ref \in Ref, ModelPicked(ref) PROVE ModelTypes'
  BY <1>2, <1>5 DEF ModelPicked
<1>6. ASSUME NEW ok \in BOOLEAN, TestDone(ok) PROVE ModelTypes'
  BY <1>6 DEF TestDone, ModelTypes, DialogTypes, model
<1>7. CASE StartTurn \/ EndTurn
  BY <1>7, ModelSwitchAssumption DEF StartTurn, EndTurn, ModelTypes, model
<1>8. CASE OpenPicker \/ OpenManager \/ Dismiss \/ ProbeFails
  BY <1>1, <1>8 DEF OpenPicker, OpenManager, Dismiss, ProbeFails, model
<1>9. ASSUME NEW f, FetchEnds(f) PROVE ModelTypes'
  BY <1>1, <1>9 DEF FetchEnds, model
<1>10. ASSUME NEW x, RowPicked(x) \/ KeyEntered(x) \/ CatalogPicked(x)
       PROVE  ModelTypes'
  BY <1>1, <1>10 DEF RowPicked, KeyEntered, CatalogPicked, model
<1>11. CASE UNCHANGED vars
  BY <1>1, <1>11 DEF vars
<1> QED BY <1>3, <1>4, <1>5, <1>6, <1>7, <1>8, <1>9, <1>10, <1>11 DEF Next

(* The catalogs: those there are, those that come, and those that are due.  *)
LEMMA CatalogTypesKept ==
  ASSUME SwitchTypes, [Next]_vars
  PROVE  CatalogTypes'
<1> USE DEF SwitchTypes
<1>1. ASSUME UNCHANGED catalogs PROVE CatalogTypes'
  BY <1>1 DEF CatalogTypes, catalogs
<1>2. provider.name \in Providers
  BY DEF ModelTypes, Ref
<1>3. ASSUME NEW ref, TypeModel(ref) PROVE CatalogTypes'
  BY <1>2, AdapterIsProvider, <1>1, <1>3, RequestCatalogEffect DEF Purposes, TypeModel
<1>4. CASE OpenPicker
  BY <1>1, <1>2, <1>4, RequestCatalogEffect DEF Purposes, OpenPicker
<1>5. ASSUME NEW f \in fetching, FetchEnds(f) PROVE CatalogTypes'
  <2>1. f.name \in Providers /\ f.purpose \in Purposes
    BY DEF CatalogTypes
  <2>2. PICK entries \in {Listing[f.name], {}} :
          queue' = Append(queue, [name |-> f.name, entries |-> entries,
                                  purpose |-> f.purpose])
    BY <1>5 DEF FetchEnds
  <2> DEFINE m == [name |-> f.name, entries |-> entries, purpose |-> f.purpose]
  <2>3. m \in Message /\ m.entries \subseteq Listing[m.name]
    BY <2>1, ModelSwitchAssumption DEF Message
  <2>4. queue' = Append(queue, m) /\ fetching' \subseteq fetching /\ cache' = cache
    BY <1>5, <2>2 DEF FetchEnds
  <2> HIDE DEF m
  <2>5. /\ queue' \in Seq(Message) /\ Len(queue') = Len(queue) + 1
        /\ Len(queue) \in Nat /\ queue'[Len(queue) + 1] = m
        /\ \A i \in 1..Len(queue) : queue'[i] = queue[i]
    BY <2>3, <2>4, Appended DEF CatalogTypes
  <2>6. ASSUME NEW k \in 1..Len(queue')
        PROVE  queue'[k].entries \subseteq Listing[queue'[k].name]
    <3>1. CASE k = Len(queue) + 1
      BY <2>3, <2>5, <3>1
    <3>2. CASE k \in 1..Len(queue)
      BY <2>5, <3>2 DEF CatalogTypes
    <3> QED BY <2>5, <3>1, <3>2
  <2> QED BY <2>4, <2>5, <2>6 DEF CatalogTypes
<1>6. CASE CatalogReady
  <2> DEFINE m == Head(queue)
  <2>1. /\ m \in Message /\ m = queue[1] /\ Tail(queue) \in Seq(Message)
        /\ Len(queue) \in Nat \ {0} /\ Len(Tail(queue)) = Len(queue) - 1
        /\ \A k \in 1..(Len(queue) - 1) : Tail(queue)[k] = queue[k + 1]
    BY <1>6, HeadAndTail DEF CatalogReady, CatalogTypes
  <2>2. m.entries \subseteq Listing[m.name] /\ m.name \in Providers
        /\ m.entries \subseteq Models
    BY <2>1 DEF CatalogTypes, Message
  <2>3. queue' = Tail(queue)
        /\ cache' = IF m.entries = {} THEN cache
                    ELSE [cache EXCEPT ![m.name] = m.entries]
    BY <1>6 DEF CatalogReady
  <2> HIDE DEF m
  <2>4. \A k \in 1..Len(queue') : queue'[k].entries \subseteq Listing[queue'[k].name]
    BY <2>1, <2>3 DEF CatalogTypes
  <2>5. /\ cache' \in [Providers -> SUBSET Models]
        /\ \A n \in Providers : cache'[n] \subseteq Listing[n]
    BY <2>2, <2>3 DEF CatalogTypes
  <2>6. \A f \in fetching' : f.name \in Providers /\ f.purpose \in Purposes
    <3>1. \A w \in pending : w.name \in Providers
      BY DEF LineTypes, Line
    <3>2. ASSUME NEW f \in fetching'
          PROVE  f \in fetching \/ \E w \in pending : f.name = w.name /\ f.purpose = "fallback"
      BY <1>6, <3>2 DEF CatalogReady, Stranded
    <3> QED BY <3>1, <3>2 DEF CatalogTypes, Purposes
  <2> QED BY <2>1, <2>3, <2>4, <2>5, <2>6 DEF CatalogTypes
<1>7. "manager" \in Purposes
  BY DEF Purposes
<1>8. ASSUME NEW name \in Providers, RowPicked(name) PROVE CatalogTypes'
  BY <1>1, <1>7, <1>8, RequestCatalogEffect DEF RowPicked
<1>9. ASSUME NEW right \in BOOLEAN, KeyEntered(right) PROVE CatalogTypes'
  BY <1>9, RowIsProvider, <1>7, RequestCatalogEffect DEF KeyEntered
<1>10. CASE OpenManager \/ Dismiss \/ ProbeFails \/ StartTurn \/ EndTurn
  BY <1>1, <1>10 DEF OpenManager, Dismiss, ProbeFails, StartTurn, EndTurn
<1>11. ASSUME NEW x, ModelPicked(x) \/ CatalogPicked(x) \/ TestDone(x)
       PROVE  CatalogTypes'
  BY <1>1, <1>11 DEF ModelPicked, CatalogPicked, TestDone
<1>12. CASE UNCHANGED vars
  BY <1>1, <1>12 DEF vars, catalogs
<1> QED BY <1>3, <1>4, <1>5, <1>6, <1>8, <1>9, <1>10, <1>11, <1>12 DEF Next

(* To ask for a catalog takes no fetch away.                                *)
LEMMA FetchedStays ==
  ASSUME CatalogTypes, NEW name \in Providers, NEW purpose \in Purposes,
         RequestCatalog(name, purpose)
  PROVE  /\ \A n : Fetched(n) => Fetched(n)'
         /\ purpose = "fallback" => Fetched(name)'
<1>1. CASE \E f : /\ fetching' = fetching \cup {f} /\ queue' = queue
                  /\ f.name = name /\ f.purpose = purpose
  BY <1>1 DEF Fetched
<1>2. ASSUME NEW m \in Message, queue' = Append(queue, m), fetching' = fetching,
             m.name = name, m.purpose = purpose
      PROVE  /\ \A n : Fetched(n) => Fetched(n)'
             /\ purpose = "fallback" => Fetched(name)'
  BY <1>2, Appended DEF CatalogTypes, Fetched
<1> QED BY <1>1, <1>2, RequestCatalogEffect

(* A line at the prompt.                                                    *)
LEMMA PendingTyped ==
  ASSUME SwitchTypes, PendingInv, NEW ref \in [name : Providers \cup {Bare}, model : Models],
         TypeModel(ref)
  PROVE  LineTypes' /\ PendingInv'
<1>0. /\ uses \in 0..MaxUses /\ uses < MaxUses /\ MaxUses \in Nat
      /\ provider.name \in Providers
  BY ModelSwitchAssumption DEF SwitchTypes, LineTypes, ModelTypes, Ref,
     TypeModel, Enters
<1>a. PICK line \in 1..MaxUses : line = uses + 1
  BY <1>0
<1>b. PICK active \in Providers : active = Adapter(provider.name)
  BY <1>0, AdapterIsProvider
<1>1. /\ uses \in Nat /\ MaxUses \in Nat /\ uses < MaxUses /\ uses' = line
      /\ typed' = typed \cup {line} /\ typed \subseteq 1..uses
  BY <1>0, <1>a DEF SwitchTypes, LineTypes, TypeModel, Enters
<1>2. /\ line \in 1..MaxUses /\ line \notin typed /\ uses' \in 0..MaxUses
      /\ typed' \subseteq 1..uses'
  BY <1>0, <1>1, <1>a
<1>3. ~Waiting(line) /\ answered[line] = 0
  BY <1>2 DEF PendingInv, WaitsAreFor, AnswersCounted, Answers, Waiting
<1>4. /\ answered \in [1..MaxUses -> {0, 1}] /\ pending \subseteq Line
      /\ inflight \subseteq Providers
  BY DEF SwitchTypes, LineTypes
<1>6. CASE /\ answered' = [answered EXCEPT ![line] = @ + 1]
           /\ UNCHANGED <<pending, inflight, catalogs>>
  BY <1>2, <1>3, <1>4, <1>6, <1>1 DEF PendingInv, AnswersCounted, Answers, Waiting, LinesApart,
     WaitsAreFor, MarksAreFetched, Fetched, catalogs, LineTypes
<1>7. CASE /\ pending' = pending \cup {[line |-> line, model |-> ref.model,
                                        name |-> active, under |-> provider.name]}
           /\ inflight' = inflight \cup {active}
           /\ IF active \in inflight THEN UNCHANGED catalogs
              ELSE RequestCatalog(active, "fallback")
           /\ UNCHANGED answered
  <2> DEFINE e == [line |-> line, model |-> ref.model, name |-> active,
                   under |-> provider.name]
  <2>1. e \in Line
    BY <1>0, <1>2 DEF Line
  <2>2. /\ e.line = line /\ e.name = active /\ e.under = provider.name
        /\ pending' = pending \cup {e}
    BY <1>7
  <2> HIDE DEF e
  <2>3. \A w \in pending : w.line # line
    BY <1>3 DEF Waiting
  <2>4. LinesApart'
    BY <2>2, <2>3 DEF PendingInv, LinesApart
  <2>5. WaitsAreFor'
    BY <1>1, <1>7, <1>b, <2>2 DEF PendingInv, WaitsAreFor
  <2>6. MarksAreFetched'
    <3>1. CASE active \in inflight
      BY <1>7, <3>1 DEF PendingInv, MarksAreFetched, Fetched, catalogs
    <3>2. CASE active \notin inflight
      BY <1>7, <3>2, FetchedStays DEF Purposes, SwitchTypes, PendingInv, MarksAreFetched
    <3> QED BY <3>1, <3>2
  <2>7. AnswersCounted'
    <3>1. Waiting(line)'
      BY <2>2 DEF Waiting
    <3>2. ASSUME NEW i \in 1..MaxUses, i # line
          PROVE  (Waiting(i)' <=> Waiting(i)) /\ (i \in typed' <=> i \in typed)
      BY <1>1, <2>2, <3>2 DEF Waiting
    <3>3. answered' = answered
      BY <1>7
    <3>4. ASSUME NEW i \in 1..MaxUses PROVE answered'[i] = Answers(i)'
      <4>1. CASE i = line
        BY <1>3, <3>1, <3>3, <4>1 DEF Answers
      <4>2. CASE i # line
        BY <3>2, <3>3, <4>2 DEF Answers, PendingInv, AnswersCounted
      <4> QED BY <4>1, <4>2
    <3> QED BY <3>4 DEF AnswersCounted
  <2>8. LineTypes'
    BY <1>2, <1>4, <1>7, <2>1, <2>2 DEF LineTypes
  <2> QED BY <2>4, <2>5, <2>6, <2>7, <2>8 DEF PendingInv
<1> QED BY <1>6, <1>7, <1>a, <1>b DEF TypeModel

(* A catalog that arrives for the lines that wait.                          *)
LEMMA PendingAnswered ==
  ASSUME SwitchTypes, PendingInv, CatalogReady, Head(queue).purpose = "fallback"
  PROVE  LineTypes' /\ PendingInv'
<1> DEFINE m     == Head(queue)
           again == {w.name : w \in Stranded(m)} \ StillInflight(m)
           Mine(i) == {w \in pending : w.line = i /\ w.name = m.name}
<1>1. /\ pending' = Stranded(m)
      /\ answered' = [i \in DOMAIN answered |-> answered[i] + Cardinality(Mine(i))]
      /\ inflight' = StillInflight(m) \cup again
      /\ fetching' = fetching \cup
           {[name |-> n, purpose |-> "fallback", id |-> 0] : n \in again}
      /\ queue # <<>> /\ queue' = Tail(queue) /\ UNCHANGED <<typed, uses>>
  BY DEF CatalogReady
<1>2. /\ answered \in [1..MaxUses -> {0, 1}] /\ pending \subseteq Line
      /\ inflight \subseteq Providers
  BY DEF SwitchTypes, LineTypes
<1>3. /\ m = queue[1] /\ Len(queue) \in Nat \ {0}
      /\ Len(Tail(queue)) = Len(queue) - 1
      /\ \A k \in 1..(Len(queue) - 1) : Tail(queue)[k] = queue[k + 1]
  BY <1>1, HeadAndTail DEF SwitchTypes, CatalogTypes
<1> HIDE DEF m, again
<1>4. LinesApart'
  BY <1>1 DEF PendingInv, LinesApart, Stranded
<1>5. WaitsAreFor'
  BY <1>1 DEF PendingInv, WaitsAreFor, Stranded, StillInflight
<1>6. MarksAreFetched'
  <2> SUFFICES ASSUME NEW name \in inflight' PROVE Fetched(name)'
    BY DEF MarksAreFetched
  <2>1. CASE name \in again
    <3> DEFINE f == [name |-> name, purpose |-> "fallback", id |-> 0]
    <3>1. f \in fetching' /\ f.name = name /\ f.purpose = "fallback"
      BY <1>1, <2>1
    <3> QED BY <3>1 DEF Fetched
  <2>2. CASE name \in inflight /\ name # m.name
    <3>1. CASE \E f \in fetching : f.purpose = "fallback" /\ f.name = name
      BY <1>1, <3>1 DEF Fetched
    <3>2. ASSUME NEW k \in 1..Len(queue), queue[k].purpose = "fallback",
                 queue[k].name = name
          PROVE  Fetched(name)'
      BY <1>3, <2>2, <3>2, <1>1 DEF Fetched
    <3> QED BY <2>2, <3>1, <3>2 DEF PendingInv, MarksAreFetched, Fetched
  <2> QED BY <1>1, <2>1, <2>2 DEF StillInflight
<1>7. AnswersCounted'
  <2> SUFFICES ASSUME NEW i \in 1..MaxUses PROVE answered'[i] = Answers(i)'
    BY DEF AnswersCounted
  <2>1. answered'[i] = answered[i] + Cardinality(Mine(i)) /\ answered[i] = Answers(i)
    BY <1>1, <1>2 DEF PendingInv, AnswersCounted
  <2>2. CASE Mine(i) = {}
    BY <2>2, FS_EmptySet, <1>1, <1>2, <2>1 DEF Waiting, Stranded, Answers
  <2>3. ASSUME NEW w \in Mine(i) PROVE answered'[i] = Answers(i)'
    <3>1. w \in pending /\ w.line = i /\ w.name = m.name
      OBVIOUS
    <3>2. \A v \in pending : v.line = i => v = w
      BY <3>1 DEF PendingInv, LinesApart
    <3>3. Mine(i) = {w}
      BY <3>1, <3>2
    <3>4. Cardinality(Mine(i)) = 1
      BY <3>3, FS_Singleton
    <3>5. Waiting(i) /\ ~Waiting(i)' /\ i \in typed'
      BY <1>1, <3>1, <3>2 DEF Waiting, Stranded, PendingInv, WaitsAreFor
    <3> QED BY <2>1, <3>4, <3>5 DEF Answers
  <2> QED BY <2>2, <2>3
<1>8. LineTypes'
  BY <1>7, <1>1, <1>2 DEF AnswersCounted, Answers, Line, Stranded, StillInflight, again, SwitchTypes,
     LineTypes
<1> QED BY <1>4, <1>5, <1>6, <1>7, <1>8 DEF PendingInv

(* A fetch that ends leaves its answer in the queue.                        *)
LEMMA FetchEndsFetched ==
  ASSUME CatalogTypes, NEW f \in fetching, FetchEnds(f), NEW n, Fetched(n)
  PROVE  Fetched(n)'
<1>1. PICK entries \in {Listing[f.name], {}} :
        queue' = Append(queue, [name |-> f.name, entries |-> entries,
                                purpose |-> f.purpose])
  BY DEF FetchEnds
<1> DEFINE m == [name |-> f.name, entries |-> entries, purpose |-> f.purpose]
<1>2. /\ m \in Message /\ m.name = f.name /\ m.purpose = f.purpose
  BY ModelSwitchAssumption DEF CatalogTypes, Message
<1> HIDE DEF m
<1>3. /\ queue' = Append(queue, m) /\ fetching' = fetching \ {f}
  BY <1>1 DEF FetchEnds, m
<1>4. /\ Len(queue') = Len(queue) + 1 /\ Len(queue) \in Nat
      /\ queue'[Len(queue) + 1] = m
      /\ \A i \in 1..Len(queue) : queue'[i] = queue[i]
  BY <1>2, <1>3, Appended DEF CatalogTypes
<1>5. CASE f.purpose = "fallback" /\ f.name = n
  BY <1>4, <1>2, <1>5 DEF Fetched
<1>6. CASE \E g \in fetching : g # f /\ g.purpose = "fallback" /\ g.name = n
  BY <1>3, <1>6 DEF Fetched
<1>7. CASE \E k \in 1..Len(queue) : queue[k].purpose = "fallback" /\ queue[k].name = n
  BY <1>4, <1>7 DEF Fetched
<1> QED BY <1>5, <1>6, <1>7 DEF Fetched

(* Another catalog that arrives answers no fallback.                        *)
LEMMA ArrivalFetched ==
  ASSUME CatalogTypes, queue # <<>>, Head(queue).purpose # "fallback",
         queue' = Tail(queue), UNCHANGED fetching, NEW n, Fetched(n)
  PROVE  Fetched(n)'
<1>1. /\ Head(queue) = queue[1] /\ Len(queue) \in Nat \ {0}
      /\ Len(queue') = Len(queue) - 1
      /\ \A k \in 1..(Len(queue) - 1) : queue'[k] = queue[k + 1]
  BY HeadAndTail DEF CatalogTypes
<1>2. ASSUME NEW k \in 1..Len(queue), queue[k].purpose = "fallback", queue[k].name = n
      PROVE  Fetched(n)'
  BY <1>1, <1>2 DEF Fetched
<1> QED BY <1>2 DEF Fetched

(* Every other step leaves the lines alone, and their fetches.              *)
LEMMA PendingElsewhere ==
  ASSUME LineTypes, PendingInv, UNCHANGED lines, uses' \in {uses, uses + 1},
         uses' \in 0..MaxUses, \A n : Fetched(n) => Fetched(n)'
  PROVE  LineTypes' /\ PendingInv'
BY ModelSwitchAssumption DEF lines, LineTypes, PendingInv, LinesApart, WaitsAreFor, AnswersCounted,
   Answers, Waiting, MarksAreFetched

(* Every step keeps the waiting lines, their marks and their answers.       *)
LEMMA PendingKept ==
  ASSUME SwitchTypes, PendingInv, [Next]_vars
  PROVE  LineTypes' /\ PendingInv'
<1>0. LineTypes /\ CatalogTypes /\ uses \in 0..MaxUses /\ MaxUses \in Nat
      /\ provider.name \in Providers
  BY ModelSwitchAssumption DEF SwitchTypes, LineTypes, ModelTypes, Ref
<1>1. ASSUME UNCHANGED <<lines, uses>>, \A n : Fetched(n) => Fetched(n)'
      PROVE  LineTypes' /\ PendingInv'
  BY <1>0, <1>1, PendingElsewhere
<1>2. ASSUME UNCHANGED lines, Enters, \A n : Fetched(n) => Fetched(n)'
      PROVE  LineTypes' /\ PendingInv'
  BY <1>2, <1>0, PendingElsewhere DEF Enters
<1>3. ASSUME UNCHANGED catalogs PROVE \A n : Fetched(n) => Fetched(n)'
  BY <1>3 DEF catalogs, Fetched
<1>4. CASE OpenPicker
  <2>1. UNCHANGED lines /\ Enters
    BY <1>4 DEF OpenPicker
  <2>2. CASE RequestCatalog(provider.name, "picker")
    <3>1. PICK name \in Providers : name = provider.name
      BY <1>0
    <3>2. \A n : Fetched(n) => Fetched(n)'
      BY <1>0, <2>2, <3>1, FetchedStays DEF Purposes
    <3> QED BY <1>2, <2>1, <3>2
  <2>3. CASE UNCHANGED catalogs
    BY <1>2, <1>3, <2>1, <2>3
  <2> QED BY <1>4, <2>2, <2>3 DEF OpenPicker
<1>5. CASE OpenManager \/ StartTurn
  BY <1>5, <1>2, <1>3 DEF OpenManager, StartTurn
<1>6. CASE CatalogReady
  <2>1. CASE Head(queue).purpose = "fallback"
    BY <1>6, <2>1, PendingAnswered
  <2>2. CASE Head(queue).purpose # "fallback"
    BY <1>6, <2>2, <1>0, ArrivalFetched, <1>1 DEF CatalogReady
  <2> QED BY <2>1, <2>2
<1>7. ASSUME NEW f \in fetching, FetchEnds(f) PROVE LineTypes' /\ PendingInv'
  BY <1>7, <1>0, FetchEndsFetched, <1>1 DEF FetchEnds
<1>8. ASSUME UNCHANGED <<lines, uses>>, NEW name \in Providers,
             RequestCatalog(name, "manager")
      PROVE  LineTypes' /\ PendingInv'
  BY <1>0, <1>8, FetchedStays, <1>1 DEF Purposes
<1>9. ASSUME UNCHANGED <<lines, uses, catalogs>> PROVE LineTypes' /\ PendingInv'
  BY <1>1, <1>3, <1>9
<1>10. ASSUME NEW name \in Providers, RowPicked(name) PROVE LineTypes' /\ PendingInv'
  BY <1>8, <1>9, <1>10 DEF RowPicked
<1>11. ASSUME NEW right, KeyEntered(right) PROVE LineTypes' /\ PendingInv'
  <2>1. chain.row \in Providers
    BY <1>11, RowIsProvider DEF SwitchTypes, KeyEntered
  <2>2. UNCHANGED <<lines, uses>> /\ RequestCatalog(chain.row, "manager")
    BY <1>11 DEF KeyEntered
  <2>3. PICK row \in Providers : row = chain.row
    BY <2>1
  <2> QED BY <1>8, <2>2, <2>3
<1>12. CASE Dismiss \/ ProbeFails \/ EndTurn \/ UNCHANGED vars
  BY <1>9, <1>12 DEF Dismiss, ProbeFails, EndTurn, vars, lines, catalogs
<1>13. ASSUME NEW x, ModelPicked(x) \/ CatalogPicked(x) \/ TestDone(x)
       PROVE  LineTypes' /\ PendingInv'
  BY <1>9, <1>13 DEF ModelPicked, CatalogPicked, TestDone
<1> QED BY <1>4, <1>5, <1>6, <1>7, <1>10, <1>11, <1>12, <1>13, PendingTyped DEF Next

(* The stack of modals: what a pop and a change of its top leave.           *)
LEMMA Popped ==
  ASSUME screens \in Seq(Screen), screens # <<>>, screens' = Below
  PROVE  /\ screens' \in Seq(Screen) /\ Len(screens) \in Nat \ {0}
         /\ Len(screens') = Len(screens) - 1
         /\ \A i \in 1..(Len(screens) - 1) : screens'[i] = screens[i]
         /\ Top = screens[Len(screens)] /\ Top \in Screen
BY FrontAndLast DEF Below, Top

(* A screen in the place of the top one.                                    *)
LEMMA Swapped ==
  ASSUME screens \in Seq(Screen), screens # <<>>, NEW s \in Screen,
         screens' = Append(Below, s)
  PROVE  /\ screens' \in Seq(Screen) /\ Len(screens) \in Nat \ {0}
         /\ Len(screens') = Len(screens) /\ screens'[Len(screens)] = s
         /\ \A i \in 1..(Len(screens) - 1) : screens'[i] = screens[i]
         /\ Top = screens[Len(screens)] /\ Top \in Screen
BY FrontAndLast, Appended DEF Below, Top

(* What each kind of screen says.                                           *)
LEMMA ScreenFields ==
  ASSUME NEW s \in Screen
  PROVE  /\ s.kind \in {"key", "catalog", "test"} => s.name \in Providers
         /\ s.kind = "test" =>
              /\ s.key \in Key \cup {NoKey}
              /\ [s EXCEPT !.failed = TRUE] \in Screen
              /\ [s EXCEPT !.failed = TRUE].kind = "test"
              /\ [s EXCEPT !.failed = TRUE].name = s.name
              /\ [s EXCEPT !.failed = TRUE].key = s.key
BY DEF Screen

(* The screens a step may put on top.                                       *)
LEMMA NewScreens ==
  /\ [kind |-> "rows"] \in Screen /\ [kind |-> "save"] \in Screen
  /\ \A n \in Providers : /\ [kind |-> "key", name |-> n] \in Screen
                          /\ [kind |-> "catalog", name |-> n] \in Screen
  /\ \A n \in Providers, k \in Key \cup {NoKey} :
       [kind |-> "test", name |-> n, failed |-> FALSE, key |-> k] \in Screen
  /\ \A n \in Providers, ms \in SUBSET Models : Picker(n, ms) \in Screen
BY ModelSwitchAssumption DEF Ref, Screen, Picker

(* The dialogs, one step at a time: a screen that asks for a key is above   *)
(* all others when it appears, and its row is set.                          *)
LEMMA DialogsPushed ==
  ASSUME DialogTypes, NEW s \in Screen, s.kind # "key",
         screens' = Append(screens, s), UNCHANGED <<chain, keyring>>
  PROVE  DialogTypes'
BY Appended DEF DialogTypes

(* Taking the top screen off keeps the types of the dialogs.                *)
LEMMA DialogsPopped ==
  ASSUME DialogTypes, screens # <<>>, screens' = Below,
         chain.row \in Providers => chain'.row \in Providers,
         chain' \in [row : Providers \cup {NoRow}, key : Key \cup {NoKey},
                     ref : SUBSET Ref],
         keyring' \in [Providers -> Key \cup {NoKey}]
  PROVE  DialogTypes'
<1>1. /\ screens' \in Seq(Screen) /\ Len(screens) \in Nat \ {0}
      /\ Len(screens') = Len(screens) - 1
      /\ \A i \in 1..(Len(screens) - 1) : screens'[i] = screens[i]
  BY Popped DEF DialogTypes
<1>2. ASSUME NEW i \in 1..Len(screens'), screens'[i].kind = "key"
      PROVE  chain'.row \in Providers
  BY <1>1, <1>2 DEF DialogTypes
<1> QED BY <1>1, <1>2 DEF DialogTypes

(* So does another screen in its place.                                     *)
LEMMA DialogsSwapped ==
  ASSUME DialogTypes, screens # <<>>, NEW s \in Screen, screens' = Append(Below, s),
         s.kind = "key" => chain'.row \in Providers,
         chain.row \in Providers => chain'.row \in Providers,
         chain' \in [row : Providers \cup {NoRow}, key : Key \cup {NoKey},
                     ref : SUBSET Ref],
         keyring' \in [Providers -> Key \cup {NoKey}]
  PROVE  DialogTypes'
<1>1. /\ screens' \in Seq(Screen) /\ Len(screens) \in Nat \ {0}
      /\ Len(screens') = Len(screens) /\ screens'[Len(screens)] = s
      /\ \A i \in 1..(Len(screens) - 1) : screens'[i] = screens[i]
  BY Swapped DEF DialogTypes
<1>2. ASSUME NEW i \in 1..Len(screens'), screens'[i].kind = "key"
      PROVE  chain'.row \in Providers
  <2>1. CASE i = Len(screens)
    BY <1>1, <1>2, <2>1
  <2>2. CASE i \in 1..(Len(screens) - 1)
    BY <1>1, <1>2, <2>2 DEF DialogTypes
  <2> QED BY <1>1, <2>1, <2>2
<1> QED BY <1>1, <1>2 DEF DialogTypes

(* Every step keeps the types of the dialogs.                               *)
LEMMA DialogTypesKept ==
  ASSUME SwitchTypes, [Next]_vars
  PROVE  DialogTypes'
<1>0. /\ DialogTypes /\ screens \in Seq(Screen) /\ keyring \in [Providers -> Key \cup {NoKey}]
      /\ chain \in [row : Providers \cup {NoRow}, key : Key \cup {NoKey}, ref : SUBSET Ref]
      /\ provider.name \in Providers /\ cache \in [Providers -> SUBSET Models]
  BY DEF SwitchTypes, DialogTypes, ModelTypes, CatalogTypes, Ref
<1>1. ASSUME UNCHANGED <<screens, chain, keyring>> PROVE DialogTypes'
  BY <1>0, <1>1 DEF DialogTypes
<1>2. ASSUME NEW ref, TypeModel(ref) PROVE DialogTypes'
  BY <1>1, <1>2 DEF TypeModel, dialogs
<1>3. CASE OpenPicker
  <2>1. CASE screens' = Append(screens, Picker(provider.name, cache[provider.name]))
    BY <1>0, NewScreens, <1>3, <2>1, DialogsPushed DEF Picker, OpenPicker
  <2> QED BY <1>1, <1>3, <2>1 DEF OpenPicker
<1>4. CASE OpenManager
  BY <1>4, <1>0, Appended, NewScreens DEF OpenManager, Enters, DialogTypes
<1>5. CASE CatalogReady
  <2>1. Head(queue).name \in Providers /\ Head(queue).entries \in SUBSET Models
    <3>1. Head(queue) \in Message
      BY <1>5, HeadAndTail DEF CatalogReady, SwitchTypes, CatalogTypes
    <3> QED BY <3>1 DEF Message
  <2>2. UNCHANGED <<chain, keyring>>
    BY <1>5 DEF CatalogReady
  <2>3. CASE screens' = Append(screens, Picker(provider.name, Head(queue).entries))
    BY <1>0, <2>1, NewScreens, <2>2, <2>3, DialogsPushed DEF Picker
  <2>4. CASE screens' = Append(screens, [kind |-> "catalog", name |-> Head(queue).name])
    <3> DEFINE s == [kind |-> "catalog", name |-> Head(queue).name]
    <3>1. s \in Screen /\ s.kind # "key"
      BY <2>1, NewScreens
    <3> QED BY <1>0, <2>2, <2>4, <3>1, DialogsPushed
  <2> QED BY <1>1, <1>5, <2>2, <2>3, <2>4 DEF CatalogReady
<1>6. ASSUME NEW f, FetchEnds(f) PROVE DialogTypes'
  BY <1>1, <1>6 DEF FetchEnds, dialogs
<1>7. CASE Dismiss
  BY <1>0, <1>7, DialogsPopped DEF Dismiss
<1>8. ASSUME NEW ref, ModelPicked(ref) PROVE DialogTypes'
  BY <1>0, <1>8, DialogsPopped DEF ModelPicked, On
<1>9. ASSUME NEW name \in Providers, RowPicked(name) PROVE DialogTypes'
  <2>1. /\ screens # <<>> /\ chain' = [chain EXCEPT !.row = name]
        /\ keyring' = keyring
    BY <1>9 DEF RowPicked, On
  <2>2. /\ chain' \in [row : Providers \cup {NoRow}, key : Key \cup {NoKey}, ref : SUBSET Ref]
        /\ chain'.row = name
    BY <1>0, <2>1
  <2>3. CASE screens' = Below
    BY <1>0, <2>1, <2>2, <2>3, DialogsPopped
  <2>4. CASE screens' = Append(Below, [kind |-> "key", name |-> name])
    BY NewScreens, <1>0, <2>1, <2>2, <2>4, DialogsSwapped
  <2> QED BY <1>9, <2>3, <2>4 DEF RowPicked
<1>10. ASSUME NEW right \in BOOLEAN, KeyEntered(right) PROVE DialogTypes'
  BY <1>10, <1>0, Popped, ScreenFields, DialogsPopped DEF KeyEntered, On, Key
<1>11. ASSUME NEW m \in Models, CatalogPicked(m) PROVE DialogTypes'
  <2>1. /\ screens # <<>> /\ Top.kind = "catalog" /\ keyring' = keyring
        /\ chain' = [chain EXCEPT !.ref = {[name |-> Top.name, model |-> m]}]
    BY <1>11 DEF CatalogPicked, On
  <2>2. Top.name \in Providers
    BY <1>0, <2>1, FrontAndLast, ScreenFields DEF Top
  <2>3. /\ chain' \in [row : Providers \cup {NoRow}, key : Key \cup {NoKey}, ref : SUBSET Ref]
        /\ chain'.row = chain.row
    BY <1>0, <2>1, <2>2 DEF Ref
  <2> DEFINE k == IF chain.key # NoKey THEN chain.key ELSE keyring[Top.name]
             s == [kind |-> "test", name |-> Top.name, failed |-> FALSE, key |-> k]
  <2>4. k \in Key \cup {NoKey}
    BY <1>0, <2>2
  <2>5. s \in Screen /\ s.kind # "key"
    BY <2>2, <2>4, NewScreens
  <2>6. screens' = Append(Below, s)
    BY <1>11 DEF CatalogPicked
  <2> HIDE DEF s
  <2> QED BY <1>0, <2>1, <2>3, <2>5, <2>6, DialogsSwapped
<1>12. CASE ProbeFails
  BY <1>12, <1>0, FrontAndLast, ScreenFields, DialogsSwapped DEF ProbeFails, On, Top
<1>13. ASSUME NEW ok \in BOOLEAN, TestDone(ok) PROVE DialogTypes'
  BY <1>13, <1>0, NewScreens, DialogsSwapped DEF TestDone, On
<1>14. CASE StartTurn \/ EndTurn \/ UNCHANGED vars
  BY <1>1, <1>14 DEF StartTurn, EndTurn, dialogs, vars
<1> QED BY <1>2, <1>3, <1>4, <1>5, <1>6, <1>7, <1>8, <1>9, <1>10, <1>11, <1>12,
     <1>13, <1>14 DEF Next

(* To wait for a catalog is to have a fetch or a message.                   *)
LEMMA AwaitsMeans ==
  ASSUME CatalogTypes
  PROVE  Awaits("manager") <=>
           \/ \E f \in fetching : f.purpose = "manager"
           \/ \E k \in 1..Len(queue) : queue[k].purpose = "manager"
BY DEF CatalogTypes, Awaits

(* To wait for a catalog after a step.                                      *)
LEMMA AwaitsThen ==
  ASSUME CatalogTypes'
  PROVE  Awaits("manager")' <=>
           \/ \E f \in fetching' : f.purpose = "manager"
           \/ \E k \in 1..Len(queue') : queue'[k].purpose = "manager"
BY DEF CatalogTypes, Awaits

(* A step that adds nothing to the chain and takes nothing from its parts:  *)
(* the queue may lose its first messages.                                   *)
LEMMA ChainThins ==
  ASSUME CatalogTypes, CatalogTypes', OneChain, ChainNames, UNCHANGED chain,
         NEW d \in Nat,
         \A i \in 1..Len(screens') : InChain(i)' =>
           /\ i \in 1..Len(screens) /\ InChain(i)
           /\ screens'[i].kind = screens[i].kind
           /\ screens'[i].name = screens[i].name
           /\ screens'[i].key = screens[i].key,
         \A f \in fetching' : f.purpose = "manager" => f \in fetching,
         \A k \in 1..Len(queue') : queue'[k].purpose = "manager" =>
           k + d \in 1..Len(queue) /\ queue[k + d] = queue'[k]
  PROVE  OneChain' /\ ChainNames'
<1>1. Awaits("manager")' => Awaits("manager")
  BY AwaitsMeans, AwaitsThen
<1>2. \A i, j \in 1..Len(screens') : InChain(i)' /\ InChain(j)' => i = j
  BY DEF OneChain
<1>3. \A j, k \in 1..Len(queue') :
        queue'[j].purpose = "manager" /\ queue'[k].purpose = "manager" => j = k
  <2> SUFFICES ASSUME NEW j \in 1..Len(queue'), NEW k \in 1..Len(queue'),
                      queue'[j].purpose = "manager", queue'[k].purpose = "manager"
               PROVE  j = k
    OBVIOUS
  <2>1. j + d = k + d
    BY DEF OneChain
  <2> QED BY <2>1
<1>4. OneChain'
  BY <1>1, <1>2, <1>3 DEF OneChain
<1>5. \A i \in 1..Len(screens') : ScreenIsOfChain(screens[i])'
  BY DEF ChainNames, ScreenIsOfChain, InChain
<1>6. ChainNames'
  BY <1>5 DEF ChainNames
<1> QED BY <1>4, <1>6

(* A step that leaves the chain at one screen.                              *)
LEMMA ChainShows ==
  ASSUME CatalogTypes', ~Awaits("manager")', NEW top,
         \A i \in 1..Len(screens') : InChain(i)' => i = top,
         \A i \in 1..Len(screens') : InChain(i)' => ScreenIsOfChain(screens[i])'
  PROVE  OneChain' /\ ChainNames'
BY AwaitsThen DEF OneChain, ScreenIsOfChain, InChain, ChainNames

(* A step that leaves the chain at a catalog that was asked for.            *)
LEMMA ChainAsks ==
  ASSUME CatalogTypes, ~Awaits("manager"), NEW name \in Providers,
         RequestCatalog(name, "manager"), chain'.row = name,
         \A i \in 1..Len(screens') : ~InChain(i)'
  PROVE  OneChain' /\ ChainNames'
<1>1. /\ \A f \in fetching : f.purpose # "manager"
      /\ \A k \in 1..Len(queue) : queue[k].purpose # "manager"
  BY AwaitsMeans
<1>2. \A i \in 1..Len(screens') : ScreenIsOfChain(screens[i])'
  BY DEF ScreenIsOfChain, InChain
<1>3. ASSUME NEW f, fetching' = fetching \cup {f}, queue' = queue, f.name = name
      PROVE  OneChain' /\ ChainNames'
  BY <1>1, <1>2, <1>3 DEF OneChain, ChainNames
<1>4. ASSUME NEW m \in Message, queue' = Append(queue, m), fetching' = fetching,
             m.name = name
      PROVE  OneChain' /\ ChainNames'
  BY <1>4, Appended, <1>1, <1>2 DEF CatalogTypes, OneChain, ChainNames
<1>5. "manager" \in Purposes
  BY DEF Purposes
<1> QED BY <1>3, <1>4, <1>5, RequestCatalogEffect

(* While a screen of the chain is on top, nothing else is of the chain.     *)
LEMMA ChainOnTop ==
  ASSUME SwitchTypes, OneChain, ChainNames,
         NEW kind \in {"rows", "key", "catalog", "test"}, On(kind)
  PROVE  /\ screens # <<>> /\ Top = screens[Len(screens)] /\ Top.kind = kind
         /\ Len(screens) \in Nat \ {0} /\ Top \in Screen
         /\ ~Awaits("manager") /\ ScreenIsOfChain(Top)
         /\ \A i \in 1..(Len(screens) - 1) : ~InChain(i)
<1>1. /\ screens # <<>> /\ Top.kind = kind
      /\ Len(screens) \in Nat \ {0} /\ Top = screens[Len(screens)] /\ Top \in Screen
  BY FrontAndLast DEF On, Top, SwitchTypes, DialogTypes
<1>2. Len(screens) \in 1..Len(screens) /\ InChain(Len(screens))
  BY <1>1 DEF InChain
<1>3. \A i \in 1..(Len(screens) - 1) : i \in 1..Len(screens) /\ i # Len(screens)
  BY <1>1
<1> QED BY <1>1, <1>2, <1>3 DEF OneChain, ChainNames

(* A catalog that is asked for elsewhere is not of the chain.               *)
LEMMA OtherAsks ==
  ASSUME CatalogTypes, NEW name \in Providers, NEW purpose \in {"fallback", "picker"},
         RequestCatalog(name, purpose)
  PROVE  /\ \A f \in fetching' : f.purpose = "manager" => f \in fetching
         /\ \A k \in 1..Len(queue') : queue'[k].purpose = "manager" =>
              k + 0 \in 1..Len(queue) /\ queue[k + 0] = queue'[k]
<1>1. CASE \E f : /\ fetching' = fetching \cup {f} /\ queue' = queue
                  /\ f.name = name /\ f.purpose = purpose
  BY <1>1 DEF CatalogTypes
<1>2. ASSUME NEW m \in Message, queue' = Append(queue, m), fetching' = fetching,
             m.purpose = purpose
      PROVE  \A k \in 1..Len(queue') : queue'[k].purpose = "manager" =>
               k + 0 \in 1..Len(queue) /\ queue[k + 0] = queue'[k]
  <2>1. /\ Len(queue') = Len(queue) + 1 /\ Len(queue) \in Nat
        /\ queue'[Len(queue) + 1] = m
        /\ \A i \in 1..Len(queue) : queue'[i] = queue[i]
    BY <1>2, Appended DEF CatalogTypes
  <2>2. ASSUME NEW k \in 1..Len(queue'), queue'[k].purpose = "manager"
        PROVE  k + 0 \in 1..Len(queue) /\ queue[k + 0] = queue'[k]
    BY <1>2, <2>1, <2>2
  <2> QED BY <2>2
<1>3. purpose \in Purposes
  BY DEF Purposes
<1> QED BY <1>1, <1>2, <1>3, RequestCatalogEffect

(* A step that leaves the catalogs and the chain alone, and the stack, or   *)
(* all of it but its top.                                                   *)
LEMMA ChainSame ==
  ASSUME SwitchTypes, CatalogTypes', ChainInv,
         UNCHANGED <<fetching, queue, chain, keyring, trusted, mixed>>,
         \A i \in 1..Len(screens') : InChain(i)' =>
           /\ i \in 1..Len(screens) /\ InChain(i)
           /\ screens'[i].kind = screens[i].kind
           /\ screens'[i].name = screens[i].name
           /\ screens'[i].key = screens[i].key
  PROVE  ChainInv'
<1> SUFFICES ASSUME ~mixed PROVE OneChain' /\ ChainNames' /\ KeysTested'
  BY DEF ChainInv
<1>1. KeysTested'
  BY DEF ChainInv, KeysTested, Tested
<1>2. \A k \in 1..Len(queue') : k + 0 \in 1..Len(queue) /\ queue[k + 0] = queue'[k]
  BY DEF SwitchTypes, CatalogTypes
<1>3. \A f \in fetching' : f \in fetching
  OBVIOUS
<1>4. CatalogTypes /\ OneChain /\ ChainNames /\ 0 \in Nat
  BY DEF SwitchTypes, ChainInv
<1>5. OneChain' /\ ChainNames'
  BY <1>2, <1>3, <1>4, ChainThins
<1> QED BY <1>1, <1>5

(* A screen that is dismissed ends its chain or leaves it alone.            *)
LEMMA ChainPopped ==
  ASSUME SwitchTypes, CatalogTypes', ChainInv,
         UNCHANGED <<fetching, queue, chain, keyring, trusted, mixed>>,
         screens # <<>>, screens' = Below
  PROVE  ChainInv'
BY Popped, ChainSame DEF SwitchTypes, DialogTypes, InChain

(* Lines, pickers and turns do not touch the chain.                         *)
LEMMA ChainElsewhere ==
  ASSUME SwitchTypes, CatalogTypes', ChainInv, NEW name \in Providers,
         NEW purpose \in {"fallback", "picker"}, RequestCatalog(name, purpose),
         UNCHANGED <<screens, chain, keyring, trusted, mixed>>
  PROVE  ChainInv'
<1> SUFFICES ASSUME ~mixed PROVE OneChain' /\ ChainNames' /\ KeysTested'
  BY DEF ChainInv
<1>1. KeysTested'
  BY DEF ChainInv, KeysTested, Tested
<1>2. CatalogTypes /\ OneChain /\ ChainNames /\ 0 \in Nat
  BY DEF SwitchTypes, ChainInv
<1>3. OneChain' /\ ChainNames'
  BY <1>2, OtherAsks, ChainThins DEF InChain
<1> QED BY <1>1, <1>3

(* A fetch of the chain becomes its message.                                *)
LEMMA ChainFetched ==
  ASSUME SwitchTypes, CatalogTypes', ChainInv, NEW f \in fetching, FetchEnds(f)
  PROVE  ChainInv'
<1> SUFFICES ASSUME ~mixed PROVE OneChain' /\ ChainNames' /\ KeysTested'
  BY DEF ChainInv, FetchEnds, dialogs
<1>0. CatalogTypes /\ OneChain /\ ChainNames /\ 0 \in Nat
      /\ UNCHANGED <<screens, chain, keyring, trusted>>
  BY DEF SwitchTypes, ChainInv, FetchEnds, dialogs
<1>1. KeysTested'
  BY <1>0 DEF ChainInv, KeysTested, Tested
<1>2. PICK m \in Message : /\ queue' = Append(queue, m) /\ m.name = f.name
                           /\ m.purpose = f.purpose
  <2>1. PICK entries \in {Listing[f.name], {}} :
          queue' = Append(queue, [name |-> f.name, entries |-> entries,
                                  purpose |-> f.purpose])
    BY DEF FetchEnds
  <2>2. [name |-> f.name, entries |-> entries, purpose |-> f.purpose] \in Message
    BY <1>0, ModelSwitchAssumption DEF CatalogTypes, Message
  <2> QED BY <2>1, <2>2
<1>3. fetching' = fetching \ {f}
  BY DEF FetchEnds
<1>4. /\ Len(queue') = Len(queue) + 1 /\ Len(queue) \in Nat
      /\ queue'[Len(queue) + 1] = m
      /\ \A i \in 1..Len(queue) : queue'[i] = queue[i]
  BY <1>0, <1>2, Appended DEF CatalogTypes
<1>5. CASE f.purpose = "manager"
  BY <1>0, <1>3, <1>5, AwaitsMeans, <1>4, <1>2, <1>1 DEF OneChain, InChain, ScreenIsOfChain, ChainNames
<1>6. CASE f.purpose # "manager"
  <2>1. ASSUME NEW k \in 1..Len(queue'), queue'[k].purpose = "manager"
        PROVE  k + 0 \in 1..Len(queue) /\ queue[k + 0] = queue'[k]
    BY <1>2, <1>4, <1>6, <2>1
  <2>2. \A g \in fetching' : g \in fetching
    BY <1>3
  <2>3. OneChain' /\ ChainNames'
    BY <1>0, <2>1, <2>2, ChainThins DEF InChain
  <2> QED BY <1>1, <2>3
<1> QED BY <1>5, <1>6

(* The message of the chain becomes its catalog screen; any other passes by. *)
LEMMA ChainArrives ==
  ASSUME SwitchTypes, CatalogTypes', ChainInv, CatalogReady
  PROVE  ChainInv'
<1> SUFFICES ASSUME ~mixed PROVE OneChain' /\ ChainNames' /\ KeysTested'
  BY DEF ChainInv, CatalogReady
<1>0. /\ CatalogTypes /\ OneChain /\ ChainNames /\ screens \in Seq(Screen)
      /\ UNCHANGED <<chain, keyring, trusted>> /\ provider.name \in Providers
  BY DEF SwitchTypes, DialogTypes, ChainInv, CatalogReady, ModelTypes, Ref
<1>1. KeysTested'
  BY <1>0 DEF ChainInv, KeysTested, Tested
<1>2. PICK m \in Message : m = Head(queue)
  BY <1>0, HeadAndTail DEF CatalogReady, CatalogTypes
<1>3. /\ m = queue[1] /\ Len(queue) \in Nat \ {0} /\ 1 \in 1..Len(queue)
      /\ Len(queue') = Len(queue) - 1
      /\ \A k \in 1..(Len(queue) - 1) : queue'[k] = queue[k + 1]
  BY <1>0, <1>2, HeadAndTail DEF CatalogReady, CatalogTypes
<1>4. \A k \in 1..Len(queue') :
        k + 1 \in 1..Len(queue) /\ k + 1 # 1 /\ queue[k + 1] = queue'[k]
  BY <1>3
<1>5. m.name \in Providers /\ m.entries \in SUBSET Models
  BY DEF Message
<1>6. CASE m.purpose = "manager"
  <2>1. /\ screens' = Append(screens, [kind |-> "catalog", name |-> m.name])
        /\ fetching' = fetching
    BY <1>2, <1>6 DEF CatalogReady
  <2>2. [kind |-> "catalog", name |-> m.name] \in Screen
    BY <1>5, NewScreens
  <2>3. /\ Len(screens') = Len(screens) + 1 /\ Len(screens) \in Nat
        /\ screens'[Len(screens) + 1] = [kind |-> "catalog", name |-> m.name]
        /\ \A i \in 1..Len(screens) : screens'[i] = screens[i]
    BY <1>0, <2>1, <2>2, Appended
  <2>4. /\ \A i \in 1..Len(screens) : ~InChain(i)
        /\ \A f \in fetching : f.purpose # "manager"
        /\ \A k \in 1..Len(queue') : queue'[k].purpose # "manager"
    BY <1>0, <1>3, <1>4, <1>6, AwaitsMeans DEF OneChain
  <2>5. ~Awaits("manager")'
    BY <2>1, <2>4, AwaitsThen
  <2>6. m.name = chain'.row
    BY <1>0, <1>3, <1>6 DEF ChainNames
  <2>7. \A i \in 1..Len(screens') : InChain(i)' => i = Len(screens) + 1
    BY <2>3, <2>4 DEF InChain
  <2>8. \A i \in 1..Len(screens') : InChain(i)' => ScreenIsOfChain(screens[i])'
    BY <2>3, <2>6, <2>7 DEF ScreenIsOfChain
  <2>9. PICK top \in Nat : top = Len(screens) + 1
    BY <2>3
  <2> QED BY <1>1, <2>5, <2>7, <2>8, <2>9, ChainShows
<1>7. CASE m.purpose # "manager"
  <2>1. \A k \in 1..Len(queue') : queue'[k].purpose = "manager" =>
          k + 1 \in 1..Len(queue) /\ queue[k + 1] = queue'[k]
    BY <1>4
  <2>2. \A f \in fetching' : f.purpose = "manager" => f \in fetching
    BY <1>2, <1>7 DEF CatalogReady
  <2>3. \/ screens' = screens
        \/ screens' = Append(screens, Picker(provider.name, m.entries))
    BY <1>2, <1>7 DEF CatalogReady
  <2>4. \A i \in 1..Len(screens') : InChain(i)' =>
          i \in 1..Len(screens) /\ InChain(i) /\ screens'[i] = screens[i]
    <3>1. CASE screens' = screens
      BY <3>1 DEF InChain
    <3>2. CASE screens' = Append(screens, Picker(provider.name, m.entries))
      BY <1>0, <1>5, NewScreens, <3>2, Appended DEF Picker, InChain
    <3> QED BY <2>3, <3>1, <3>2
  <2>5. OneChain' /\ ChainNames'
    BY <1>0, <2>1, <2>2, <2>4, ChainThins
  <2> QED BY <1>1, <2>5
<1> QED BY <1>6, <1>7

(* The steps of the dialogs.                                                *)
LEMMA ChainStarts ==
  ASSUME SwitchTypes, CatalogTypes', ChainInv, OpenManager
  PROVE  ChainInv'
<1> SUFFICES ASSUME ~mixed' PROVE OneChain' /\ ChainNames' /\ KeysTested'
  BY DEF ChainInv
<1>1. ~Awaits("manager") /\ ~mixed
  BY Zenon DEF OpenManager
<1>2. /\ screens = <<>> /\ screens' = Append(screens, [kind |-> "rows"])
      /\ UNCHANGED <<fetching, queue, keyring, trusted>>
  BY DEF OpenManager, Enters, catalogs
<1>3. Len(screens') = 1 /\ screens'[1].kind = "rows"
  BY <1>2, NewScreens, Appended DEF SwitchTypes, DialogTypes
<1>4. ~Awaits("manager")'
  BY <1>1, <1>2 DEF Awaits
<1>5. \A i \in 1..Len(screens') : i = 1 /\ ScreenIsOfChain(screens[i])'
  BY <1>3 DEF ScreenIsOfChain
<1>6. KeysTested'
  BY <1>1, <1>2 DEF ChainInv, KeysTested, Tested
<1> QED BY <1>4, <1>5, <1>6, ChainShows

(* A row that is picked begins what the chain is about.                     *)
LEMMA ChainRow ==
  ASSUME SwitchTypes, CatalogTypes', ChainInv, NEW name \in Providers, RowPicked(name)
  PROVE  ChainInv'
<1> SUFFICES ASSUME ~mixed PROVE OneChain' /\ ChainNames' /\ KeysTested'
  BY DEF ChainInv, RowPicked
<1>0. CatalogTypes /\ OneChain /\ ChainNames /\ screens \in Seq(Screen)
  BY DEF SwitchTypes, DialogTypes, ChainInv
<1>1. /\ On("rows") /\ chain'.row = name /\ UNCHANGED <<keyring, trusted>>
  BY DEF RowPicked, SwitchTypes, DialogTypes
<1>2. KeysTested'
  BY <1>0, <1>1 DEF ChainInv, KeysTested, Tested
<1>3. /\ screens # <<>> /\ Len(screens) \in Nat \ {0} /\ ~Awaits("manager")
      /\ \A i \in 1..(Len(screens) - 1) : ~InChain(i)
  BY <1>0, <1>1, ChainOnTop
<1>4. CASE RequestCatalog(name, "manager") /\ screens' = Below
  BY <1>0, <1>3, <1>4, Popped, <1>1, <1>2, ChainAsks DEF InChain
<1>5. CASE screens' = Append(Below, [kind |-> "key", name |-> name]) /\ UNCHANGED catalogs
  <2>1. [kind |-> "key", name |-> name] \in Screen
    BY NewScreens
  <2>2. /\ Len(screens') = Len(screens)
        /\ screens'[Len(screens)] = [kind |-> "key", name |-> name]
        /\ \A i \in 1..(Len(screens) - 1) : screens'[i] = screens[i]
    BY <1>0, <1>3, <1>5, <2>1, Swapped
  <2>3. \A i \in 1..Len(screens') : InChain(i)' => i = Len(screens)
    BY <1>3, <2>2 DEF InChain
  <2>4. \A i \in 1..Len(screens') : InChain(i)' => ScreenIsOfChain(screens[i])'
    BY <1>1, <2>2, <2>3 DEF ScreenIsOfChain
  <2>5. ~Awaits("manager")'
    BY <1>3, <1>5 DEF Awaits, catalogs
  <2>6. PICK top \in Nat : top = Len(screens)
    BY <1>3
  <2> QED BY <1>2, <2>3, <2>4, <2>5, <2>6, ChainShows
<1> QED BY <1>4, <1>5 DEF RowPicked

(* A key that is entered is for the row of the chain.                       *)
LEMMA ChainKey ==
  ASSUME SwitchTypes, CatalogTypes', ChainInv, NEW right \in BOOLEAN, KeyEntered(right)
  PROVE  ChainInv'
<1> SUFFICES ASSUME ~mixed PROVE OneChain' /\ ChainNames' /\ KeysTested'
  BY DEF ChainInv, KeyEntered
<1>0. CatalogTypes /\ OneChain /\ ChainNames /\ screens \in Seq(Screen)
  BY DEF SwitchTypes, DialogTypes, ChainInv
<1>1. /\ On("key") /\ chain'.row = chain.row /\ UNCHANGED <<keyring, trusted>>
      /\ RequestCatalog(chain.row, "manager") /\ screens' = Below
  BY DEF KeyEntered, SwitchTypes, DialogTypes
<1>2. PICK row \in Providers : row = chain.row
  BY <1>1, RowIsProvider DEF SwitchTypes
<1>3. KeysTested'
  BY <1>0, <1>1 DEF ChainInv, KeysTested, Tested
<1>4. /\ screens # <<>> /\ Len(screens) \in Nat \ {0} /\ ~Awaits("manager")
      /\ \A i \in 1..(Len(screens) - 1) : ~InChain(i)
  BY <1>0, <1>1, ChainOnTop
<1>5. /\ Len(screens') = Len(screens) - 1
      /\ \A i \in 1..(Len(screens) - 1) : screens'[i] = screens[i]
  BY <1>0, <1>1, <1>4, Popped
<1>6. \A i \in 1..Len(screens') : ~InChain(i)'
  BY <1>4, <1>5 DEF InChain
<1> QED BY <1>0, <1>1, <1>2, <1>3, <1>4, <1>6, ChainAsks

(* A model that is picked is tested with the key of the chain.              *)
LEMMA ChainCatalog ==
  ASSUME SwitchTypes, CatalogTypes', ChainInv, NEW m \in Models, CatalogPicked(m)
  PROVE  ChainInv'
<1> SUFFICES ASSUME ~mixed PROVE OneChain' /\ ChainNames' /\ KeysTested'
  BY DEF ChainInv, CatalogPicked
<1>0. /\ CatalogTypes /\ OneChain /\ ChainNames /\ screens \in Seq(Screen)
      /\ keyring \in [Providers -> Key \cup {NoKey}] /\ chain.key \in Key \cup {NoKey}
  BY DEF SwitchTypes, DialogTypes, ChainInv
<1>1. /\ On("catalog") /\ chain'.row = chain.row /\ chain'.key = chain.key
      /\ UNCHANGED <<keyring, trusted, fetching, queue>>
  BY DEF CatalogPicked, SwitchTypes, DialogTypes, catalogs
<1>2. KeysTested'
  BY <1>0, <1>1 DEF ChainInv, KeysTested, Tested
<1>3. /\ screens # <<>> /\ Len(screens) \in Nat \ {0} /\ ~Awaits("manager")
      /\ \A i \in 1..(Len(screens) - 1) : ~InChain(i)
      /\ Top \in Screen /\ Top.kind = "catalog" /\ Top.name = chain.row
  BY <1>0, <1>1, ChainOnTop DEF ScreenIsOfChain
<1>4. PICK s \in Screen : /\ screens' = Append(Below, s) /\ s.kind = "test"
                          /\ s.name = chain.row
                          /\ chain.key # NoKey => s.key = chain.key
  <2> DEFINE k == IF chain.key # NoKey THEN chain.key ELSE keyring[Top.name]
             s == [kind |-> "test", name |-> Top.name, failed |-> FALSE, key |-> k]
  <2>1. Top.name \in Providers
    BY <1>3, ScreenFields
  <2>2. k \in Key \cup {NoKey}
    BY <1>0, <2>1
  <2>3. s \in Screen
    BY <2>1, <2>2, NewScreens
  <2>4. screens' = Append(Below, s)
    BY DEF CatalogPicked
  <2>5. /\ s.kind = "test" /\ s.name = chain.row
        /\ chain.key # NoKey => s.key = chain.key
    BY <1>3
  <2> HIDE DEF s
  <2> QED BY <2>3, <2>4, <2>5
<1>5. /\ Len(screens') = Len(screens) /\ screens'[Len(screens)] = s
      /\ \A i \in 1..(Len(screens) - 1) : screens'[i] = screens[i]
  BY <1>0, <1>3, <1>4, Swapped
<1>6. \A i \in 1..Len(screens') : InChain(i)' => i = Len(screens)
  BY <1>3, <1>5 DEF InChain
<1>7. \A i \in 1..Len(screens') : InChain(i)' => ScreenIsOfChain(screens[i])'
  BY <1>1, <1>4, <1>5, <1>6 DEF ScreenIsOfChain
<1>8. ~Awaits("manager")'
  BY <1>1, <1>3 DEF Awaits
<1>9. PICK top \in Nat : top = Len(screens)
  BY <1>3
<1> QED BY <1>2, <1>6, <1>7, <1>8, <1>9, ChainShows

(* A test that fails stays the same test.                                   *)
LEMMA ChainProbe ==
  ASSUME SwitchTypes, CatalogTypes', ChainInv, ProbeFails
  PROVE  ChainInv'
<1>1. /\ screens # <<>> /\ Top.kind = "test"
      /\ screens' = Append(Below, [Top EXCEPT !.failed = TRUE])
      /\ UNCHANGED <<fetching, queue, chain, keyring, trusted, mixed>>
  BY DEF ProbeFails, On, catalogs
<1>2. Top \in Screen /\ screens \in Seq(Screen)
  BY <1>1, FrontAndLast DEF Top, SwitchTypes, DialogTypes
<1>3. PICK s \in Screen : /\ s = [Top EXCEPT !.failed = TRUE] /\ s.kind = Top.kind
                          /\ s.name = Top.name /\ s.key = Top.key
  BY <1>1, <1>2, ScreenFields
<1>4. /\ Len(screens) \in Nat \ {0} /\ Len(screens') = Len(screens)
      /\ screens'[Len(screens)] = s /\ Top = screens[Len(screens)]
      /\ \A i \in 1..(Len(screens) - 1) : screens'[i] = screens[i]
  BY <1>1, <1>2, <1>3, Swapped
<1>5. ASSUME NEW i \in 1..Len(screens')
      PROVE  /\ i \in 1..Len(screens) /\ screens'[i].kind = screens[i].kind
             /\ screens'[i].name = screens[i].name
             /\ screens'[i].key = screens[i].key
  <2>1. CASE i = Len(screens)
    BY <1>3, <1>4, <2>1
  <2>2. CASE i \in 1..(Len(screens) - 1)
    BY <1>4, <2>2
  <2> QED BY <1>4, <2>1, <2>2
<1> QED BY <1>1, <1>5, ChainSame DEF InChain

(* The key that is stored is the one that was tested, for the provider that *)
(* was tested.                                                              *)
LEMMA ChainTested ==
  ASSUME SwitchTypes, CatalogTypes', ChainInv, NEW ok \in BOOLEAN, TestDone(ok)
  PROVE  ChainInv'
<1> SUFFICES ASSUME ~mixed PROVE OneChain' /\ ChainNames' /\ KeysTested'
  BY DEF ChainInv, TestDone
<1>0. /\ OneChain /\ ChainNames /\ KeysTested /\ screens \in Seq(Screen)
      /\ keyring \in [Providers -> Key \cup {NoKey}]
  BY DEF SwitchTypes, DialogTypes, ChainInv
<1>1. /\ On("test") /\ screens' = Append(Below, [kind |-> "save"])
      /\ trusted' = trusted \cup {<<Top.name, Top.key>>}
      /\ UNCHANGED <<fetching, queue>>
  BY DEF TestDone, catalogs
<1>2. /\ screens # <<>> /\ Len(screens) \in Nat \ {0} /\ ~Awaits("manager")
      /\ \A i \in 1..(Len(screens) - 1) : ~InChain(i)
      /\ Top.name = chain.row /\ (chain.key # NoKey => Top.key = chain.key)
  BY <1>0, <1>1, ChainOnTop DEF ScreenIsOfChain
<1>3. [kind |-> "save"] \in Screen
  BY NewScreens
<1>4. /\ Len(screens') = Len(screens) /\ screens'[Len(screens)] = [kind |-> "save"]
      /\ \A i \in 1..(Len(screens) - 1) : screens'[i] = screens[i]
  BY <1>0, <1>1, <1>2, <1>3, Swapped
<1>5. \A i \in 1..Len(screens') : ~InChain(i)'
  BY <1>2, <1>4 DEF InChain
<1>6. ~Awaits("manager")'
  BY <1>1, <1>2 DEF Awaits
<1>7. KeysTested'
  <2>1. \/ keyring' = keyring
        \/ chain.key # NoKey /\ keyring' = [keyring EXCEPT ![chain.row] = chain.key]
    BY DEF TestDone
  <2>2. CASE keyring' = keyring
    BY <1>0, <1>1, <2>2 DEF KeysTested, Tested
  <2>3. CASE chain.key # NoKey /\ keyring' = [keyring EXCEPT ![chain.row] = chain.key]
    BY <1>1, <1>2, <2>3, <1>0 DEF KeysTested, Tested
  <2> QED BY <2>1, <2>2, <2>3
<1> QED BY <1>5, <1>6, <1>7, ChainShows

(* Every step keeps the chain together.                                     *)
LEMMA ChainKept ==
  ASSUME SwitchTypes, CatalogTypes', ChainInv, [Next]_vars
  PROVE  ChainInv'
<1>0. provider.name \in Providers /\ Adapter(provider.name) \in Providers
  BY AdapterIsProvider DEF SwitchTypes, ModelTypes, Ref
<1>1. ASSUME UNCHANGED <<fetching, queue, chain, keyring, trusted, mixed, screens>>
      PROVE  ChainInv'
  BY <1>1, ChainSame DEF InChain
<1>2. ASSUME NEW ref, TypeModel(ref) PROVE ChainInv'
  <2>1. UNCHANGED <<screens, chain, keyring, trusted, mixed>>
    BY <1>2 DEF TypeModel, dialogs
  <2>2. CASE UNCHANGED catalogs
    BY <1>1, <2>1, <2>2 DEF catalogs
  <2>3. CASE RequestCatalog(Adapter(provider.name), "fallback")
    <3>1. PICK name \in Providers : name = Adapter(provider.name)
      BY <1>0
    <3> QED BY <2>1, <2>3, <3>1, ChainElsewhere
  <2> QED BY <1>2, <2>2, <2>3 DEF TypeModel
<1>3. CASE OpenPicker
  <2>1. UNCHANGED <<chain, keyring, trusted, mixed>>
    BY <1>3 DEF OpenPicker
  <2>2. CASE RequestCatalog(provider.name, "picker") /\ UNCHANGED screens
    <3>1. PICK name \in Providers : name = provider.name
      BY <1>0
    <3> QED BY <2>1, <2>2, <3>1, ChainElsewhere
  <2>3. CASE /\ screens' = Append(screens, Picker(provider.name, cache[provider.name]))
             /\ UNCHANGED catalogs
    BY <1>0, NewScreens, <2>3, Appended, <2>1, ChainSame DEF Picker, SwitchTypes, CatalogTypes,
       DialogTypes, InChain, catalogs
  <2> QED BY <1>3, <2>2, <2>3 DEF OpenPicker
<1>4. CASE Dismiss
  BY <1>4, ChainPopped DEF Dismiss, catalogs
<1>5. ASSUME NEW ref, ModelPicked(ref) PROVE ChainInv'
  BY <1>5, ChainPopped DEF ModelPicked, On, catalogs
<1>6. CASE StartTurn \/ EndTurn \/ UNCHANGED vars
  BY <1>1, <1>6 DEF StartTurn, EndTurn, catalogs, dialogs, vars
<1> QED
  BY <1>2, <1>3, <1>4, <1>5, <1>6, ChainStarts, ChainRow, ChainKey, ChainCatalog,
     ChainProbe, ChainTested, ChainFetched, ChainArrives DEF Next

(* The invariant of the model switch holds at the start.                    *)
LEMMA SwitchInit == Init => SwitchInv
<1> SUFFICES ASSUME Init PROVE SwitchInv
  OBVIOUS
<1>1. /\ queue = <<>> /\ fetching = {} /\ screens = <<>> /\ inflight = {}
      /\ pending = {} /\ typed = {} /\ answered = [i \in 1..MaxUses |-> 0]
      /\ keyring = [n \in Providers |->
                      IF n \in Stored THEN [for |-> n, right |-> TRUE] ELSE NoKey]
  BY DEF Init
<1>2. PendingInv
  BY <1>1 DEF PendingInv, LinesApart, WaitsAreFor, MarksAreFetched,
     AnswersCounted, Answers, Waiting
<1>3. ChainInv
  BY <1>1 DEF Awaits, KeysTested, Tested, ChainInv, OneChain, ChainNames
<1> QED BY <1>2, <1>3, TypesInit DEF SwitchInv

(* Every step keeps the invariant of the model switch.                      *)
LEMMA SwitchKept == SwitchInv /\ [Next]_vars => SwitchInv'
<1> SUFFICES ASSUME SwitchInv, [Next]_vars PROVE SwitchInv'
  OBVIOUS
<1>1. SwitchTypes /\ PendingInv /\ ChainInv
  BY DEF SwitchInv
<1>2. ModelTypes' /\ CatalogTypes' /\ DialogTypes' /\ LineTypes' /\ PendingInv'
  BY <1>1, ModelTypesKept, CatalogTypesKept, DialogTypesKept, PendingKept
<1>3. ChainInv'
  BY <1>1, <1>2, ChainKept
<1> QED BY <1>2, <1>3 DEF SwitchInv, SwitchTypes

(* The invariant of the model switch holds in every reachable state.        *)
LEMMA SwitchAlways == Spec => []SwitchInv
BY SwitchInit, SwitchKept, PTL DEF Spec

(* A "/model" line is answered once, and never dropped: while it waits, a   *)
(* fetch for its own provider is under way.                                 *)
THEOREM LinesAnsweredOnce == Spec => []OneAnswerPerLine
<1>1. SwitchInv => OneAnswerPerLine
  <2> SUFFICES ASSUME SwitchInv PROVE OneAnswerPerLine
    OBVIOUS
  <2>1. PendingInv /\ DOMAIN queue = 1..Len(queue)
    BY DEF SwitchInv, SwitchTypes, CatalogTypes
  <2> QED
    BY <2>1 DEF OneAnswerPerLine, PendingInv, AnswersCounted, Answers,
       WaitsAreFor, MarksAreFetched, Fetched
<1> QED BY <1>1, SwitchAlways, PTL

(* A key that was typed is stored only after a test of its own provider     *)
(* with that key, or in spite of one, through every order of dialogs and    *)
(* catalogs of one manager at a time.                                       *)
THEOREM KeysAreTested == Spec => []StoredKeyWasTested
BY SwitchAlways, PTL DEF SwitchInv, ChainInv, KeysTested, StoredKeyWasTested

(* A bare reference is resolved with the provider that was active when it   *)
(* was typed, unless that one is a gateway, whichever one is active when    *)
(* the catalog comes; and always only if the catalog of the provider it is  *)
(* resolved with lists it.                                                  *)
THEOREM BareNamesResolve == Spec => ResolvesWhereTyped
<1> DEFINE Ok == (CatalogReady /\ provider' # provider) =>
                   \E w \in pending :
                     /\ w.under \notin Gateways => provider'.name = w.under
                     /\ provider'.model = w.model
                     /\ w.model \in Listing[provider'.name]
<1>1. ASSUME SwitchInv PROVE Ok
  <2> SUFFICES ASSUME CatalogReady, provider' # provider
               PROVE  \E w \in pending :
                        /\ w.under \notin Gateways => provider'.name = w.under
                        /\ provider'.model = w.model
                        /\ w.model \in Listing[provider'.name]
    OBVIOUS
  <2>1. CatalogTypes /\ PendingInv
    BY <1>1 DEF SwitchInv, SwitchTypes
  <2>2. PICK m \in Message : m = Head(queue)
    BY <2>1, HeadAndTail DEF CatalogReady, CatalogTypes
  <2>3. m = queue[1] /\ 1 \in 1..Len(queue)
    BY <2>1, <2>2, HeadAndTail DEF CatalogReady, CatalogTypes
  <2>4. m.entries \subseteq Listing[m.name]
    BY <2>1, <2>3 DEF CatalogTypes
  <2>5. Resolved(m)
    BY <2>2 DEF CatalogReady, model
  <2>6. PICK last \in pending :
          /\ last.name = m.name /\ last.model \in m.entries
          /\ SetModel([name |-> m.name, model |-> last.model])
    BY <2>5 DEF Resolved, model
  <2>7. provider' = [name |-> m.name, model |-> last.model]
    BY <2>6 DEF SetModel, model
  <2>8. last.name = Adapter(last.under)
    BY <2>1 DEF PendingInv, WaitsAreFor
  <2>9. last.under \notin Gateways => m.name = last.under
    BY <2>6, <2>8 DEF Adapter
  <2>10. provider'.name = m.name /\ provider'.model = last.model
    BY <2>7
  <2> QED BY <2>4, <2>6, <2>9, <2>10
<1>2. SwitchInv /\ [Next]_vars => [Ok]_vars
  BY <1>1
<1> QED BY <1>2, SwitchAlways, PTL DEF Spec, ResolvesWhereTyped

-----------------------------------------------------------------------------
(* Induction over the numbers, said of the set of those that have the       *)
(* property.                                                                *)
LEMMA InductionOnNat ==
  ASSUME NEW S \in SUBSET Nat, 0 \in S, \A n \in S : n + 1 \in S
  PROVE  S = Nat
<1> SUFFICES ASSUME Nat \ S # {} PROVE FALSE
  OBVIOUS
<1>1. PICK x \in Nat \ S : \A y \in Nat \ S : ~(<<y, x>> \in OpToRel(<, Nat))
  BY NatLessThanWellFounded, WFMin
<1>2. x \in Nat /\ x # 0 /\ x - 1 \in Nat /\ x - 1 < x
  OBVIOUS
<1>3. <<x - 1, x>> \in OpToRel(<, Nat)
  BY <1>2 DEF OpToRel
<1>4. x - 1 \in S
  BY <1>1, <1>2, <1>3
<1>5. (x - 1) + 1 \in S
  BY <1>4
<1>6. (x - 1) + 1 = x
  BY <1>2
<1> QED BY <1>1, <1>5, <1>6

(* Induction over sequences, said of the set of those that have the         *)
(* property.                                                                *)
LEMMA InductionOnSeq ==
  ASSUME NEW T, NEW A \in SUBSET Seq(T), <<>> \in A,
         \A s \in A, e \in T : Append(s, e) \in A
  PROVE  A = Seq(T)
<1> DEFINE S == {n \in Nat : \A s \in Seq(T) : Len(s) = n => s \in A}
<1>1. 0 \in S
  BY EmptySeq DEF S
<1>2. ASSUME NEW n \in S PROVE n + 1 \in S
  <2>1. SUFFICES ASSUME NEW s \in Seq(T), Len(s) = n + 1 PROVE s \in A
    BY DEF S
  <2>2. s # <<>> /\ n \in Nat
    BY <2>1
  <2>3. PICK r \in Seq(T), e \in T : s = Append(r, e)
    BY <2>2, SequenceEmptyOrAppend
  <2>4. Len(r) + 1 = n + 1 /\ Len(r) \in Nat
    BY <2>1, <2>3, AppendProperties, LenProperties
  <2>5. Len(r) = n
    BY <2>2, <2>4
  <2>6. r \in A
    BY <2>5 DEF S
  <2> QED BY <2>3, <2>6
<1> HIDE DEF S
<1>3. S = Nat
  BY <1>1, <1>2, InductionOnNat DEF S
<1>4. ASSUME NEW s \in Seq(T) PROVE s \in A
  BY <1>3, LenProperties DEF S
<1> QED BY <1>4

(* There is such a function.                                                *)
LEMMA JoinsExists ==
  ASSUME NEW ss, NEW n \in Nat
  PROVE  \E f : Joins(ss, n, f)
<1> DEFINE S == {m \in Nat : \E f : Joins(ss, m, f)}
<1>1. 0 \in S
  <2>1. PICK f : f = [i \in 1..0 |-> <<>>]
    OBVIOUS
  <2>2. Joins(ss, 0, f)
    BY <2>1 DEF Joins
  <2> QED BY <2>2
<1>2. ASSUME NEW m \in S PROVE m + 1 \in S
  <2>1. PICK f : Joins(ss, m, f)
    OBVIOUS
  <2>2. m \in Nat
    OBVIOUS
  <2>3. PICK g : g = [i \in 1..(m + 1) |-> IF i = 1 THEN ss[i] ELSE f[i - 1] \o ss[i]]
    OBVIOUS
  <2>4. ASSUME NEW i \in 1..m PROVE g[i] = f[i]
    <3>1. g[i] = IF i = 1 THEN ss[i] ELSE f[i - 1] \o ss[i]
      BY <2>2, <2>3
    <3>2. f[i] = IF i = 1 THEN ss[i] ELSE f[i - 1] \o ss[i]
      BY <2>1 DEF Joins
    <3> QED BY <3>1, <3>2
  <2>5. ASSUME NEW i \in 1..(m + 1), i # 1 PROVE g[i - 1] = f[i - 1]
    BY <2>2, <2>5, <2>4
  <2> HIDE DEF S
  <2>6. Joins(ss, m + 1, g)
    BY <2>3, <2>5 DEF Joins
  <2> QED BY <2>2, <2>6 DEF S
<1> HIDE DEF S
<1>3. S = Nat
  BY <1>1, <1>2, InductionOnNat DEF S
<1>4. n \in S
  BY <1>3
<1> QED BY <1>4 DEF S

(* Where two lists of sequences agree, so do the functions.                 *)
LEMMA JoinsAgree ==
  ASSUME NEW ss, NEW tt, NEW n \in Nat, NEW m \in Nat, n <= m,
         NEW f, NEW g, Joins(ss, n, f), Joins(tt, m, g),
         \A i \in 1..n : ss[i] = tt[i]
  PROVE  \A i \in 1..n : f[i] = g[i]
<1> DEFINE S == {i \in Nat : i \in 1..n => f[i] = g[i]}
<1>1. 0 \in S
  OBVIOUS
<1>2. ASSUME NEW i \in S PROVE i + 1 \in S
  <2>1. SUFFICES ASSUME i + 1 \in 1..n PROVE f[i + 1] = g[i + 1]
    OBVIOUS
  <2>2. i \in Nat /\ i + 1 \in 1..m /\ ss[i + 1] = tt[i + 1] /\ (i + 1) - 1 = i
    BY <2>1
  <2>3. CASE i = 0
    BY <2>1, <2>2, <2>3 DEF Joins
  <2>4. CASE i # 0
    <3>1. i \in 1..n /\ i + 1 # 1
      BY <2>1, <2>2, <2>4
    <3>2. f[i] = g[i]
      BY <3>1
    <3>3. f[i + 1] = f[(i + 1) - 1] \o ss[i + 1]
      BY <2>1, <3>1 DEF Joins
    <3>4. g[i + 1] = g[(i + 1) - 1] \o tt[i + 1]
      BY <2>2, <3>1 DEF Joins
    <3> QED BY <2>2, <3>2, <3>3, <3>4
  <2> QED BY <2>3, <2>4
<1> HIDE DEF S
<1>3. S = Nat
  BY <1>1, <1>2, InductionOnNat DEF S
<1>4. \A i \in 1..n : i \in S
  BY <1>3
<1> QED BY <1>4 DEF S

(* Two sequences of lists that agree up to n join to the same lines as far as*)
(* n, if the second only has one list more.                                 *)
LEMMA JoinsStep ==
  ASSUME NEW ss, NEW tt, NEW n \in Nat, NEW m \in Nat,
         NEW f, NEW g, Joins(ss, n, f), Joins(tt, m, g), OneMore(ss, n, tt, m)
  PROVE  f[n] = g[n]
BY JoinsAgree DEF OneMore

(* FlattenSeq of a list is what such a function has at the end of it.       *)
LEMMA FlattenIsJoined ==
  ASSUME NEW S, NEW ss \in Seq(S), ss # <<>>
  PROVE  \E f : Joins(ss, Len(ss), f) /\ Shows!FlattenSeq(ss) = f[Len(ss)]
<1> DEFINE flatten == CHOOSE f : Joins(ss, Len(ss), f)
<1>1. Len(ss) \in Nat /\ Len(ss) # 0
  BY EmptySeq
<1>2. Joins(ss, Len(ss), flatten)
  BY <1>1, JoinsExists
<1>3. Shows!FlattenSeq(ss) = flatten[Len(ss)]
  BY <1>1 DEF Shows!FlattenSeq, Joins
<1> QED BY <1>2, <1>3

(* FlattenSeq, sequence by sequence.                                        *)
LEMMA FlattenAppend ==
  ASSUME NEW T, NEW ss \in Seq(Seq(T)), NEW t \in Seq(T)
  PROVE  /\ Shows!FlattenSeq(<<>>) = <<>>
         /\ Shows!FlattenSeq(Append(ss, t)) =
              IF ss = <<>> THEN t ELSE Shows!FlattenSeq(ss) \o t
<1>1. Shows!FlattenSeq(<<>>) = <<>>
  BY EmptySeq DEF Shows!FlattenSeq
<1>2. PICK tt \in Seq(Seq(T)) : tt = Append(ss, t)
  BY AppendProperties
<1>3. PICK n \in Nat : n = Len(ss)
  BY LenProperties
<1>4. tt # <<>> /\ Len(tt) = n + 1 /\ tt[n + 1] = t /\ \A i \in 1..n : tt[i] = ss[i]
  BY <1>2, <1>3, AppendProperties
<1>5. PICK g : Joins(tt, n + 1, g) /\ Shows!FlattenSeq(tt) = g[n + 1]
  BY <1>4, FlattenIsJoined
<1>6. CASE ss = <<>>
  BY <1>3, <1>6, EmptySeq, <1>4, <1>5, <1>1, <1>2 DEF Joins
<1>7. CASE ss # <<>>
  <2>1. n # 0 /\ n \in 1..n /\ n + 1 # 1 /\ n + 1 \in 1..(n + 1) /\ (n + 1) - 1 = n
    BY <1>3, <1>7, EmptySeq
  <2>2. PICK f : Joins(ss, n, f) /\ Shows!FlattenSeq(ss) = f[n]
    BY <1>3, <1>7, FlattenIsJoined
  <2>3. PICK m \in Nat : m = n + 1
    OBVIOUS
  <2>4. OneMore(ss, n, tt, m)
    BY <1>4, <2>1, <2>3 DEF OneMore
  <2>5. Joins(ss, n, f) /\ Joins(tt, m, g)
    BY <1>5, <2>2, <2>3
  <2>6. f[n] = g[n]
    BY <2>4, <2>5, JoinsStep
  <2>7. g[n + 1] = g[n] \o t
    BY <1>4, <1>5, <2>1 DEF Joins
  <2> QED BY <1>1, <1>2, <1>4, <1>5, <1>7, <2>2, <2>6, <2>7
<1> QED BY <1>6, <1>7

(* What it makes of sequences over a set is a sequence over that set.       *)
LEMMA FlattenType ==
  ASSUME NEW T, NEW ss \in Seq(Seq(T))
  PROVE  Shows!FlattenSeq(ss) \in Seq(T)
<1> DEFINE A == {s \in Seq(Seq(T)) : Shows!FlattenSeq(s) \in Seq(T)}
<1>1. <<>> \in A
  <2>1. <<>> \in Seq(T) /\ <<>> \in Seq(Seq(T))
    OBVIOUS
  <2> QED BY <2>1, FlattenAppend
<1>2. ASSUME NEW s \in A, NEW t \in Seq(T) PROVE Append(s, t) \in A
  <2>1. /\ s \in Seq(Seq(T)) /\ Shows!FlattenSeq(s) \in Seq(T)
        /\ Append(s, t) \in Seq(Seq(T))
    BY AppendProperties
  <2>2. Shows!FlattenSeq(s) \o t \in Seq(T)
    BY <2>1, ConcatProperties
  <2>3. Shows!FlattenSeq(Append(s, t)) \in Seq(T)
    BY <2>1, <2>2, FlattenAppend
  <2> QED BY <2>1, <2>3
<1> HIDE DEF A
<1>3. A = Seq(Seq(T))
  BY <1>1, <1>2, InductionOnSeq DEF A
<1> QED BY <1>3 DEF A

(* It is associative, and the empty sequence adds nothing.                  *)
LEMMA CatProperties ==
  ASSUME NEW T, NEW s \in Seq(T), NEW t \in Seq(T), NEW u \in Seq(T)
  PROVE  /\ Cat(s, t) \in Seq(T)
         /\ Cat(<<>>, s) = s /\ Cat(s, <<>>) = s
         /\ Cat(Cat(s, t), u) = Cat(s, Cat(t, u))
BY ConcatProperties, ConcatEmptySeq, ConcatAssociative DEF Cat

(* What is appended to the second is appended to both.                      *)
LEMMA CatAppend ==
  ASSUME NEW T, NEW s \in Seq(T), NEW t \in Seq(T), NEW e \in T
  PROVE  Cat(s, Append(t, e)) = Append(Cat(s, t), e)
<1>0. <<e>> \in Seq(T)
  OBVIOUS
<1>1. PICK u \in Seq(T) : u = <<e>>
  BY <1>0
<1>2. Append(t, e) = Cat(t, u)
  BY <1>1, AppendIsConcat DEF Cat
<1>3. Append(Cat(s, t), e) = Cat(Cat(s, t), u)
  BY <1>1, CatProperties, AppendIsConcat DEF Cat
<1>4. Cat(Cat(s, t), u) = Cat(s, Cat(t, u))
  BY CatProperties
<1> QED BY <1>2, <1>3, <1>4

(* FlattenSeq, one sequence more.                                           *)
LEMMA FlattenStep ==
  ASSUME NEW T, NEW ss \in Seq(Seq(T)), NEW t \in Seq(T)
  PROVE  Shows!FlattenSeq(Append(ss, t)) = Cat(Shows!FlattenSeq(ss), t)
<1>1. Shows!FlattenSeq(<<>>) = <<>>
  BY FlattenAppend
<1>2. CASE ss = <<>>
  BY <1>1, <1>2, FlattenAppend, CatProperties
<1>3. CASE ss # <<>>
  BY <1>3, FlattenAppend DEF Cat
<1> QED BY <1>2, <1>3

(* The list of what the elements make.                                      *)
LEMMA MapIsSeq ==
  ASSUME NEW T, NEW R, NEW g, Makes(g, T, R), NEW s \in Seq(T)
  PROVE  /\ [i \in DOMAIN s |-> g[s[i]]] \in Seq(Seq(R))
         /\ Len([i \in DOMAIN s |-> g[s[i]]]) = Len(s)
<1> g \in [T -> Seq(R)]
  BY DEF Makes
<1>1. Len(s) \in Nat /\ DOMAIN s = 1..Len(s) /\ \A i \in 1..Len(s) : s[i] \in T
  BY LenProperties, ElementOfSeq
<1>2. \A i \in 1..Len(s) : g[s[i]] \in Seq(R)
  BY <1>1
<1>3. PICK n \in Nat : n = Len(s)
  BY <1>1
<1>4. PICK m : m = [i \in 1..n |-> g[s[i]]]
  OBVIOUS
<1>5. m \in Seq(Seq(R)) /\ Len(m) = n
  BY <1>2, <1>3, <1>4
<1> QED BY <1>1, <1>3, <1>4, <1>5

(* It is a sequence; nothing makes nothing.                                 *)
LEMMA FlatMapType ==
  ASSUME NEW T, NEW R, NEW g, Makes(g, T, R), NEW s \in Seq(T)
  PROVE  FlatMap(g, s) \in Seq(R) /\ FlatMap(g, <<>>) = <<>>
<1> g \in [T -> Seq(R)]
  BY DEF Makes
<1>1. FlatMap(g, s) \in Seq(R)
  BY MapIsSeq, FlattenType DEF FlatMap
<1>2. [i \in DOMAIN <<>> |-> g[<<>>[i]]] = <<>>
  OBVIOUS
<1>3. <<>> \in Seq(Seq(R)) /\ <<>> \in Seq(R)
  OBVIOUS
<1>4. Shows!FlattenSeq(<<>>) = <<>>
  BY <1>3, FlattenAppend
<1> QED BY <1>1, <1>2, <1>4 DEF FlatMap

(* One element more.                                                        *)
LEMMA FlatMapAppend ==
  ASSUME NEW T, NEW R, NEW g, Makes(g, T, R), NEW s \in Seq(T), NEW x \in T
  PROVE  FlatMap(g, Append(s, x)) = Cat(FlatMap(g, s), g[x])
<1> g \in [T -> Seq(R)]
  BY DEF Makes
<1>1. PICK m : m = [i \in DOMAIN s |-> g[s[i]]]
  OBVIOUS
<1>2. PICK t : t = Append(s, x)
  OBVIOUS
<1>3. PICK k : k = [i \in DOMAIN t |-> g[t[i]]]
  OBVIOUS
<1>4. PICK n \in Nat : n = Len(s)
  BY LenProperties
<1>5. t \in Seq(T) /\ Len(t) = n + 1 /\ t[n + 1] = x /\ \A i \in 1..n : t[i] = s[i]
  BY <1>2, <1>4, AppendProperties
<1>6. m \in Seq(Seq(R)) /\ Len(m) = n /\ k \in Seq(Seq(R)) /\ Len(k) = n + 1
  BY <1>1, <1>3, <1>4, <1>5, MapIsSeq
<1>7. DOMAIN s = 1..n /\ DOMAIN t = 1..(n + 1)
  BY <1>4, <1>5, LenProperties
<1>8. g[x] \in Seq(R)
  OBVIOUS
<1>9. PICK l : l = Append(m, g[x])
  OBVIOUS
<1>10. l \in Seq(Seq(R)) /\ Len(l) = n + 1 /\ l[n + 1] = g[x] /\ \A i \in 1..n : l[i] = m[i]
  BY <1>6, <1>8, <1>9, AppendProperties
<1>11. \A i \in 1..(n + 1) : k[i] = l[i]
  <2>1. TAKE i \in 1..(n + 1)
  <2>2. k[i] = g[t[i]]
    BY <1>3, <1>7
  <2>3. CASE i = n + 1
    BY <1>5, <1>10, <2>2, <2>3
  <2>4. CASE i # n + 1
    BY <2>4, <1>1, <1>7, <1>5, <1>10, <2>2
  <2> QED BY <2>3, <2>4
<1>12. k = l
  BY <1>6, <1>10, <1>11, SeqEqual
<1>13. Shows!FlattenSeq(l) = Cat(Shows!FlattenSeq(m), g[x])
  BY <1>6, <1>8, <1>9, FlattenStep
<1> QED BY <1>1, <1>2, <1>3, <1>12, <1>13 DEF FlatMap

(* Two parts.                                                               *)
LEMMA FlatMapConcat ==
  ASSUME NEW T, NEW R, NEW g, Makes(g, T, R), NEW s \in Seq(T), NEW t \in Seq(T)
  PROVE  FlatMap(g, Cat(s, t)) = Cat(FlatMap(g, s), FlatMap(g, t))
<1> g \in [T -> Seq(R)]
  BY DEF Makes
<1> DEFINE A == {u \in Seq(T) : FlatMap(g, Cat(s, u)) = Cat(FlatMap(g, s), FlatMap(g, u))}
<1>1. FlatMap(g, s) \in Seq(R) /\ FlatMap(g, <<>>) = <<>>
  BY FlatMapType
<1>2. <<>> \in A
  <2>1. <<>> \in Seq(T) /\ <<>> \in Seq(R)
    OBVIOUS
  <2>2. Cat(s, <<>>) = s /\ Cat(FlatMap(g, s), <<>>) = FlatMap(g, s)
    BY <1>1, <2>1, CatProperties
  <2> QED BY <1>1, <2>1, <2>2
<1>3. ASSUME NEW u \in A, NEW e \in T PROVE Append(u, e) \in A
  <2>1. PICK v : v = Append(u, e)
    OBVIOUS
  <2>2. v \in Seq(T) /\ u \in Seq(T)
    BY <2>1, AppendProperties
  <2>3. Cat(s, v) = Append(Cat(s, u), e) /\ Cat(s, u) \in Seq(T)
    BY <2>1, <2>2, CatAppend, CatProperties
  <2>4. FlatMap(g, Append(Cat(s, u), e)) = Cat(FlatMap(g, Cat(s, u)), g[e])
    BY <2>3, FlatMapAppend
  <2>5. FlatMap(g, v) = Cat(FlatMap(g, u), g[e])
    BY <2>1, <2>2, FlatMapAppend
  <2>6. FlatMap(g, u) \in Seq(R) /\ g[e] \in Seq(R)
    BY <2>2, FlatMapType
  <2>7. Cat(Cat(FlatMap(g, s), FlatMap(g, u)), g[e])
          = Cat(FlatMap(g, s), Cat(FlatMap(g, u), g[e]))
    BY <1>1, <2>6, CatProperties
  <2>8. FlatMap(g, Cat(s, u)) = Cat(FlatMap(g, s), FlatMap(g, u))
    OBVIOUS
  <2>9. FlatMap(g, Cat(s, v)) = Cat(FlatMap(g, s), FlatMap(g, v))
    BY <2>3, <2>4, <2>5, <2>7, <2>8
  <2> QED BY <2>1, <2>2, <2>9
<1> HIDE DEF A
<1>4. A = Seq(T)
  BY <1>2, <1>3, InductionOnSeq DEF A
<1> QED BY <1>4 DEF A

(* What is in one of two parts is in both together.                         *)
LEMMA InCat ==
  ASSUME NEW T, NEW s \in Seq(T), NEW t \in Seq(T), NEW y
  PROVE  In(y, Cat(s, t)) <=> In(y, s) \/ In(y, t)
<1>1. PICK n \in Nat, m \in Nat : n = Len(s) /\ m = Len(t) /\ DOMAIN s = 1..n /\ DOMAIN t = 1..m
  BY LenProperties
<1>2. PICK u : u = s \o t
  OBVIOUS
<1>3. /\ DOMAIN u = 1..(n + m)
      /\ \A i \in 1..(n + m) : u[i] = IF i <= n THEN s[i] ELSE t[i - n]
  BY <1>1, <1>2, ConcatProperties, LenProperties
<1>4. \A i \in 1..n : i \in 1..(n + m) /\ u[i] = s[i]
  BY <1>3
<1>5. ASSUME NEW i \in 1..m PROVE In(t[i], u)
  <2>1. PICK j \in 1..(n + m) : j = n + i
    OBVIOUS
  <2>2. ~(j <= n) /\ j - n = i
    BY <2>1
  <2>3. u[j] = t[i]
    BY <1>3, <2>2
  <2> QED BY <1>3, <2>3 DEF In
<1>6. ASSUME In(y, u) PROVE In(y, s) \/ In(y, t)
  <2>1. PICK i \in 1..(n + m) : u[i] = y
    BY <1>3, <1>6 DEF In
  <2>2. CASE i <= n
    BY <1>1, <1>3, <2>1, <2>2 DEF In
  <2>3. CASE ~(i <= n)
    <3>1. i - n \in 1..m
      BY <2>3
    <3>2. t[i - n] = y
      BY <1>3, <2>1, <2>3
    <3> QED BY <1>1, <3>1, <3>2 DEF In
  <2> QED BY <2>2, <2>3
<1>7. In(y, s) => In(y, u)
  BY <1>1, <1>3, <1>4 DEF In
<1>8. In(y, t) => In(y, u)
  BY <1>1, <1>5 DEF In
<1> QED BY <1>2, <1>6, <1>7, <1>8 DEF Cat

(* A sequence of one.                                                       *)
LEMMA InOne ==
  ASSUME NEW T, NEW x \in T, NEW y
  PROVE  <<x>> \in Seq(T) /\ (In(y, <<x>>) <=> y = x) /\ ~In(y, <<>>)
BY DEF In

(* What one element makes.                                                  *)
LEMMA FlatMapOne ==
  ASSUME NEW T, NEW R, NEW g, Makes(g, T, R), NEW x \in T
  PROVE  FlatMap(g, <<x>>) = g[x]
<1> g \in [T -> Seq(R)]
  BY DEF Makes
<1>1. <<>> \in Seq(T) /\ Append(<<>>, x) = <<x>> /\ g[x] \in Seq(R) /\ <<>> \in Seq(R)
  OBVIOUS
<1>2. FlatMap(g, <<>>) = <<>>
  BY <1>1, FlatMapType
<1>3. FlatMap(g, Append(<<>>, x)) = Cat(FlatMap(g, <<>>), g[x])
  <2>1. PICK e \in Seq(T) : e = <<>>
    BY <1>1
  <2>2. FlatMap(g, Append(e, x)) = Cat(FlatMap(g, e), g[x])
    BY FlatMapAppend
  <2> QED BY <2>1, <2>2
<1>4. Cat(<<>>, g[x]) = g[x]
  BY <1>1, CatProperties
<1> QED BY <1>1, <1>2, <1>3, <1>4

(* What is made is made by one of the elements.                             *)
LEMMA FlatMapRange ==
  ASSUME NEW T, NEW R, NEW g, Makes(g, T, R), NEW s \in Seq(T), NEW y
  PROVE  In(y, FlatMap(g, s)) <=> \E i \in DOMAIN s : In(y, g[s[i]])
<1> g \in [T -> Seq(R)]
  BY DEF Makes
<1> DEFINE A == {u \in Seq(T) : In(y, FlatMap(g, u)) <=> \E i \in DOMAIN u : In(y, g[u[i]])}
<1>1. <<>> \in A
  BY FlatMapType DEF In
<1>2. ASSUME NEW u \in A, NEW e \in T PROVE Append(u, e) \in A
  <2>1. PICK v : v = Append(u, e)
    OBVIOUS
  <2>2. PICK n \in Nat : n = Len(u) /\ DOMAIN u = 1..n
    BY LenProperties
  <2>3. /\ v \in Seq(T) /\ Len(v) = n + 1 /\ v[n + 1] = e /\ \A i \in 1..n : v[i] = u[i]
    BY <2>1, <2>2, AppendProperties
  <2>4. DOMAIN v = 1..(n + 1)
    BY <2>3, LenProperties
  <2>5. FlatMap(g, v) = Cat(FlatMap(g, u), g[e])
    BY <2>1, FlatMapAppend
  <2>6. FlatMap(g, u) \in Seq(R) /\ g[e] \in Seq(R)
    BY FlatMapType
  <2>7. In(y, FlatMap(g, v)) <=> In(y, FlatMap(g, u)) \/ In(y, g[e])
    BY <2>5, <2>6, InCat
  <2>8. In(y, FlatMap(g, u)) <=> \E i \in 1..n : In(y, g[u[i]])
    BY <2>2
  <2>9. (\E i \in 1..(n + 1) : In(y, g[v[i]])) <=> (\E i \in 1..n : In(y, g[u[i]])) \/ In(y, g[e])
    <3>1. \A i \in 1..(n + 1) : i \in 1..n \/ i = n + 1
      OBVIOUS
    <3>2. \A i \in 1..n : i \in 1..(n + 1)
      OBVIOUS
    <3>3. n + 1 \in 1..(n + 1)
      OBVIOUS
    <3> QED BY <2>3, <3>1, <3>2, <3>3
  <2>10. v \in A
    BY <2>3, <2>4, <2>7, <2>8, <2>9
  <2> QED BY <2>1, <2>10
<1> HIDE DEF A
<1>3. A = Seq(T)
  BY <1>1, <1>2, InductionOnSeq DEF A
<1> QED BY <1>3 DEF A

(* Two sequences of which each element makes what its counterpart makes.    *)
LEMMA FlatMapSame ==
  ASSUME NEW S, NEW T, NEW s \in Seq(S), NEW t \in Seq(T), NEW g, NEW h,
         Len(s) = Len(t), \A i \in 1..Len(s) : g[s[i]] = h[t[i]]
  PROVE  FlatMap(g, s) = FlatMap(h, t)
BY LenProperties DEF FlatMap

(* The parts together.                                                      *)
LEMMA SplitAt ==
  ASSUME NEW T, NEW s \in Seq(T), NEW i \in 1..Len(s)
  PROVE  /\ Before(s, i) \in Seq(T) /\ Behind(s, i) \in Seq(T) /\ <<s[i]>> \in Seq(T)
         /\ s = Cat(Cat(Before(s, i), <<s[i]>>), Behind(s, i))
         /\ Len(Before(s, i)) = i - 1 /\ Len(Behind(s, i)) = Len(s) - i
         /\ \A j \in 1..(i - 1) : Before(s, i)[j] = s[j]
         /\ \A j \in 1..(Len(s) - i) : Behind(s, i)[j] = s[i + j]
<1>1. PICK n \in Nat : n = Len(s)
  BY LenProperties
<1>2. \A j \in 1..n : s[j] \in T
  BY <1>1, ElementOfSeq
<1>3. i \in 1..n
  BY <1>1
<1>4. PICK k \in Nat : k = i - 1 /\ k <= n /\ i = k + 1
  BY <1>3
<1>5. PICK b, c : b = SubSeq(s, 1, k) /\ c = SubSeq(s, i + 1, n)
  OBVIOUS
<1>6. b \in Seq(T) /\ Len(b) = k /\ \A j \in 1..k : b[j] = s[j]
  BY <1>2, <1>4, SubSeqProperties, <1>5
<1>7. c \in Seq(T) /\ Len(c) = n - i /\ \A j \in 1..(n - i) : c[j] = s[i + j]
  <2>1. \A j \in (i + 1)..n : s[j] \in T
    BY <1>2, <1>3
  <2>2. i + 1 \in Int /\ n \in Int
    BY <1>3
  <2>3. /\ SubSeq(s, i + 1, n) \in Seq(T)
        /\ Len(SubSeq(s, i + 1, n)) = IF i + 1 <= n THEN n - (i + 1) + 1 ELSE 0
        /\ \A j \in 1..(n - (i + 1) + 1) : SubSeq(s, i + 1, n)[j] = s[(i + 1) + j - 1]
    BY <2>1, <2>2, SubSeqProperties
  <2>4. n - (i + 1) + 1 = n - i /\ (~(i + 1 <= n) => n - i = 0)
    BY <1>3
  <2>5. \A j \in 1..(n - i) : (i + 1) + j - 1 = i + j
    BY <1>3
  <2> QED BY <1>5, <2>3, <2>4, <2>5
<1>8. <<s[i]>> \in Seq(T)
  BY <1>2, <1>3
<1>9. SubSeq(s, 1, k) \o SubSeq(s, k + 1, n) = SubSeq(s, 1, n)
  BY <1>1, <1>4, ConcatAdjacentSubSeq
<1>10. SubSeq(s, 1, n) = s
  BY <1>1, SubSeqFull
<1>11. SubSeq(s, i, n) = <<s[i]>> \o c
  BY <1>1, <1>3, <1>5, SubSeqRecursiveFirst
<1>12. s = b \o (<<s[i]>> \o c)
  BY <1>4, <1>5, <1>9, <1>10, <1>11
<1>13. s = Cat(Cat(b, <<s[i]>>), c)
  <2>1. (b \o <<s[i]>>) \o c = b \o (<<s[i]>> \o c)
    <3>1. PICK o : o = <<s[i]>>
      OBVIOUS
    <3>2. b \in Seq(T) /\ o \in Seq(T) /\ c \in Seq(T)
      BY <1>6, <1>7, <1>8, <3>1
    <3>3. Cat(Cat(b, o), c) = Cat(b, Cat(o, c))
      BY <3>2, CatProperties
    <3> QED BY <3>1, <3>3 DEF Cat
  <2> QED BY <1>12, <2>1 DEF Cat
<1> QED BY <1>1, <1>4, <1>5, <1>6, <1>7, <1>8, <1>13 DEF Before, Behind

(* One element is taken out.                                                *)
LEMMA Removed ==
  ASSUME NEW T, NEW s \in Seq(T), NEW i \in 1..Len(s)
  PROVE  /\ Shows!RemoveAt(s, i) = Cat(Before(s, i), Behind(s, i))
         /\ Shows!RemoveAt(s, i) \in Seq(T) /\ Len(Shows!RemoveAt(s, i)) = Len(s) - 1
         /\ DOMAIN Shows!RemoveAt(s, i) = 1..(Len(s) - 1)
         /\ \A j \in 1..(Len(s) - 1) :
              Shows!RemoveAt(s, i)[j] = IF j < i THEN s[j] ELSE s[j + 1]
<1>1. PICK n \in Nat : n = Len(s)
  BY LenProperties
<1>2. PICK b, c, t : b = Before(s, i) /\ c = Behind(s, i) /\ t = b \o c
  OBVIOUS
<1>3. /\ b \in Seq(T) /\ c \in Seq(T) /\ Len(b) = i - 1 /\ Len(c) = n - i
      /\ \A j \in 1..(i - 1) : b[j] = s[j]
      /\ \A j \in 1..(n - i) : c[j] = s[i + j]
  BY <1>1, <1>2, SplitAt
<1>4. i \in 1..n /\ (i - 1) + (n - i) = n - 1
  BY <1>1
<1>5. /\ t \in Seq(T) /\ Len(t) = n - 1
      /\ \A j \in 1..(n - 1) : t[j] = IF j <= i - 1 THEN b[j] ELSE c[j - (i - 1)]
  <2>1. /\ b \o c \in Seq(T) /\ Len(b \o c) = Len(b) + Len(c)
        /\ \A j \in 1..(Len(b) + Len(c)) :
             (b \o c)[j] = IF j <= Len(b) THEN b[j] ELSE c[j - Len(b)]
    BY <1>3, ConcatProperties
  <2>2. Len(b) = i - 1 /\ Len(b) + Len(c) = n - 1
    BY <1>3, <1>4
  <2> QED BY <1>2, <2>1, <2>2
<1>6. ASSUME NEW j \in 1..(n - 1) PROVE t[j] = IF j < i THEN s[j] ELSE s[j + 1]
  <2>1. CASE j < i
    BY <1>4, <2>1, <1>3, <1>5
  <2>2. CASE ~(j < i)
    <3>1. PICK k \in 1..(n - i) : k = j - (i - 1)
      BY <1>4, <2>2
    <3>2. ~(j <= i - 1) /\ i + k = j + 1
      BY <1>4, <2>2, <3>1
    <3>3. t[j] = c[k] /\ c[k] = s[i + k]
      BY <1>3, <1>5, <3>1, <3>2
    <3> QED BY <2>2, <3>2, <3>3
  <2> QED BY <2>1, <2>2
<1>7. t = Shows!RemoveAt(s, i)
  BY <1>2 DEF Shows!RemoveAt, Before, Behind
<1>8. DOMAIN t = 1..(n - 1)
  BY <1>5, LenProperties
<1> QED BY <1>1, <1>2, <1>5, <1>6, <1>7, <1>8 DEF Cat

(* One that makes nothing is taken out.                                     *)
LEMMA FlatMapRemoved ==
  ASSUME NEW T, NEW R, NEW g, Makes(g, T, R), NEW s \in Seq(T), NEW i \in 1..Len(s),
         g[s[i]] = <<>>
  PROVE  FlatMap(g, Shows!RemoveAt(s, i)) = FlatMap(g, s)
<1> g \in [T -> Seq(R)]
  BY DEF Makes
<1>1. PICK b, o, c : b = Before(s, i) /\ o = <<s[i]>> /\ c = Behind(s, i)
  OBVIOUS
<1>2. b \in Seq(T) /\ o \in Seq(T) /\ c \in Seq(T) /\ s = Cat(Cat(b, o), c)
  BY <1>1, SplitAt
<1>3. Cat(b, o) \in Seq(T)
  BY <1>2, CatProperties
<1>4. FlatMap(g, s) = Cat(Cat(FlatMap(g, b), FlatMap(g, o)), FlatMap(g, c))
  BY <1>2, <1>3, FlatMapConcat
<1>5. FlatMap(g, o) = <<>>
  BY <1>1, FlatMapOne, ElementOfSeq
<1>6. FlatMap(g, b) \in Seq(R)
  BY <1>2, FlatMapType
<1>7. Cat(FlatMap(g, b), <<>>) = FlatMap(g, b)
  BY <1>6, CatProperties
<1>8. FlatMap(g, Cat(b, c)) = Cat(FlatMap(g, b), FlatMap(g, c))
  BY <1>2, FlatMapConcat
<1>9. Shows!RemoveAt(s, i) = Cat(b, c)
  BY <1>1, Removed
<1> QED BY <1>4, <1>5, <1>7, <1>8, <1>9

(* The first element and the others.                                        *)
LEMMA FlatMapHead ==
  ASSUME NEW T, NEW R, NEW g, Makes(g, T, R), NEW s \in Seq(T), s # <<>>
  PROVE  FlatMap(g, s) = Cat(g[Head(s)], FlatMap(g, Tail(s)))
<1> g \in [T -> Seq(R)]
  BY DEF Makes
<1>1. PICK n \in Nat : n = Len(s) /\ n # 0
  BY LenProperties, EmptySeq
<1>2. s = SubSeq(s, 1, n)
  BY <1>1, SubSeqFull
<1>3. 1 \in 1..Len(s) /\ n \in 1..Len(s)
  BY <1>1
<1>4. SubSeq(s, 1, n) = <<s[1]>> \o SubSeq(s, 1 + 1, n)
  BY <1>3, SubSeqRecursiveFirst
<1>5. Tail(s) = SubSeq(s, 2, n)
  BY <1>1, TailIsSubSeq
<1>6. Head(s) = s[1] /\ Head(s) \in T /\ Tail(s) \in Seq(T)
  BY <1>1, HeadTailProperties, HeadAndTail
<1>7. PICK h, r : h = <<Head(s)>> /\ r = Tail(s)
  OBVIOUS
<1>8. s = Cat(h, r)
  BY <1>2, <1>4, <1>5, <1>6, <1>7 DEF Cat
<1>9. h \in Seq(T) /\ r \in Seq(T)
  BY <1>6, <1>7
<1>10. FlatMap(g, Cat(h, r)) = Cat(FlatMap(g, h), FlatMap(g, r))
  BY <1>9, FlatMapConcat
<1>11. FlatMap(g, h) = g[Head(s)]
  BY <1>6, <1>7, FlatMapOne
<1> QED BY <1>7, <1>8, <1>10, <1>11

(* What follows one sequence is known from the whole.                       *)
LEMMA CatCancels ==
  ASSUME NEW T, NEW s \in Seq(T), NEW t \in Seq(T), NEW u \in Seq(T), Cat(s, t) = Cat(s, u)
  PROVE  t = u
BY ConcatSimplifications DEF Cat

(* Two marks.                                                               *)
LEMMA MarksAre ==
  /\ \A k \in {"entry", "call", "result"}, n \in Nat : <<k, n>> \in Marks
  /\ \A p \in Shows!Piece : <<"text", p>> \in Marks
  /\ <<>> \in Seq(Marks)
  /\ \A x \in Marks : <<x>> \in Seq(Marks)
BY DEF Marks

(* Each piece makes a line, or none.                                        *)
LEMMA LineMakes == Makes(LineOf, Shows!Piece, Marks)
BY MarksAre DEF Makes, LineOf

(* The lines of a text are those of its pieces.                             *)
LEMMA LinesAre ==
  ASSUME NEW s \in Seq(Shows!Piece)
  PROVE  /\ Shows!Lines(s) = FlatMap(LineOf, s)
         /\ Shows!Lines(s) \in Seq(Marks)
<1>1. Len(s) \in Nat /\ DOMAIN s = 1..Len(s) /\ \A i \in DOMAIN s : s[i] \in Shows!Piece
  BY LenProperties, ElementOfSeq
<1>2. [i \in DOMAIN s |-> IF s[i].sort = "blank" THEN <<>> ELSE <<<<"text", s[i]>>>>]
        = [i \in DOMAIN s |-> LineOf[s[i]]]
  BY <1>1 DEF LineOf
<1>3. Shows!Lines(s) = FlatMap(LineOf, s)
  BY <1>2 DEF Shows!Lines, FlatMap
<1> QED BY <1>3, LineMakes, FlatMapType

(* The lines of two texts.                                                  *)
LEMMA LinesCat ==
  ASSUME NEW s \in Seq(Shows!Piece), NEW t \in Seq(Shows!Piece)
  PROVE  /\ Cat(s, t) \in Seq(Shows!Piece)
         /\ Shows!Lines(Cat(s, t)) = Cat(Shows!Lines(s), Shows!Lines(t))
BY CatProperties, LineMakes, FlatMapConcat, LinesAre

(* A piece more.                                                            *)
LEMMA LinesAppend ==
  ASSUME NEW s \in Seq(Shows!Piece), NEW p \in Shows!Piece
  PROVE  /\ Shows!Lines(Append(s, p)) = Cat(Shows!Lines(s), LineOf[p])
         /\ Shows!Lines(<<p>>) = LineOf[p] /\ LineOf[p] \in Seq(Marks)
<1>1. Append(s, p) \in Seq(Shows!Piece) /\ <<p>> \in Seq(Shows!Piece)
  BY AppendProperties
<1>2. FlatMap(LineOf, Append(s, p)) = Cat(FlatMap(LineOf, s), LineOf[p])
  BY LineMakes, FlatMapAppend
<1>3. FlatMap(LineOf, <<p>>) = LineOf[p]
  BY LineMakes, FlatMapOne
<1>4. LineOf[p] \in Seq(Marks)
  BY LineMakes DEF Makes
<1> QED BY <1>1, <1>2, <1>3, <1>4, LinesAre

(* A line is that of a piece that is not blank.                             *)
LEMMA LinesHave ==
  ASSUME NEW s \in Seq(Shows!Piece), NEW y
  PROVE  In(y, Shows!Lines(s)) <=>
           \E i \in DOMAIN s : s[i].sort # "blank" /\ y = <<"text", s[i]>>
<1>1. In(y, Shows!Lines(s)) <=> \E i \in DOMAIN s : In(y, LineOf[s[i]])
  BY LinesAre, LineMakes, FlatMapRange
<1>2. ASSUME NEW i \in DOMAIN s
      PROVE  In(y, LineOf[s[i]]) <=> s[i].sort # "blank" /\ y = <<"text", s[i]>>
  <2>1. s[i] \in Shows!Piece
    BY LenProperties, ElementOfSeq
  <2>2. LineOf[s[i]] = IF s[i].sort = "blank" THEN <<>> ELSE <<<<"text", s[i]>>>>
    BY <2>1 DEF LineOf
  <2> QED BY <2>2 DEF In
<1> QED BY <1>1, <1>2

(* Nothing is in the empty sequence only.                                   *)
LEMMA NothingIn ==
  ASSUME NEW T, NEW s \in Seq(T), \A y : ~In(y, s)
  PROVE  s = <<>>
<1> SUFFICES ASSUME s # <<>> PROVE FALSE
  OBVIOUS
<1>1. 1 \in DOMAIN s
  BY LenProperties, EmptySeq
<1> QED BY <1>1 DEF In

(* A blank text has no lines.                                               *)
LEMMA BlankLines ==
  ASSUME NEW s \in Seq(Shows!Piece), Shows!Blank(s)
  PROVE  Shows!Lines(s) = <<>>
BY LinesHave, LinesAre, NothingIn DEF Shows!Blank

(* Each entry makes lines.                                                  *)
LEMMA RenderMakes ==
  ASSUME NEW us
  PROVE  Makes(RenderOf(us), Entries, Marks)
<1>1. ASSUME NEW e \in Entries PROVE Shows!Render(e) \in Seq(Marks)
  BY LinesAre, MarksAre DEF Entries, Shows!Render
<1> QED BY <1>1, MarksAre DEF Makes, RenderOf

(* The log is made entry by entry.                                          *)
LEMMA RenderIs ==
  ASSUME NEW es \in Seq(Entries), NEW us
  PROVE  /\ Shows!RenderBut(es, us) = FlatMap(RenderOf(us), es)
         /\ Shows!RenderBut(es, us) \in Seq(Marks)
<1>1. Len(es) \in Nat /\ DOMAIN es = 1..Len(es) /\ \A i \in DOMAIN es : es[i] \in Entries
  BY LenProperties, ElementOfSeq
<1>2. [i \in DOMAIN es |-> IF Shows!Contains(us, es[i].uid) THEN <<>> ELSE Shows!Render(es[i])]
        = [i \in DOMAIN es |-> RenderOf(us)[es[i]]]
  BY <1>1 DEF RenderOf
<1>3. Shows!RenderBut(es, us) = FlatMap(RenderOf(us), es)
  BY <1>2 DEF Shows!RenderBut, FlatMap
<1> QED BY <1>3, RenderMakes, FlatMapType

(* Whoever is contained is in.                                              *)
LEMMA ContainsIn ==
  ASSUME NEW T, NEW s \in Seq(T), NEW y
  PROVE  Shows!Contains(s, y) <=> In(y, s)
BY LenProperties DEF Shows!Contains, In

(* The fields of a view.                                                    *)
LEMMA ViewFields ==
  ASSUME NEW v \in Views
  PROVE  /\ v.entries \in Seq(Entries) /\ v.log \in Seq(Marks) /\ v.reply \in Nat
         /\ v.pending \in Seq(Nat) /\ v.buf \in Seq(Shows!Piece) /\ v.next \in Nat
         /\ Len(v.entries) \in Nat /\ DOMAIN v.entries = 1..Len(v.entries)
         /\ \A i \in DOMAIN v.entries : v.entries[i] \in Entries
         /\ Len(v.pending) \in Nat /\ DOMAIN v.pending = 1..Len(v.pending)
         /\ \A k \in DOMAIN v.pending : v.pending[k] \in Nat
BY LenProperties, ElementOfSeq DEF Views

(* The fields of an entry.                                                  *)
LEMMA EntryFields ==
  ASSUME NEW e \in Entries
  PROVE  /\ e.kind \in Kinds /\ e.pieces \in Seq(Shows!Piece) /\ e.id \in Nat
         /\ e.name \in ToolNames /\ e.result \in Nat /\ e.uid \in Nat
BY DEF Entries

(* Numbers that rise differ.                                                *)
LEMMA UidsDiffer ==
  ASSUME NEW es \in Seq(Entries), UidsRise(es),
         NEW i \in DOMAIN es, NEW j \in DOMAIN es, es[i].uid = es[j].uid
  PROVE  i = j
<1>1. i \in Nat /\ j \in Nat /\ es[i].uid \in Nat
  BY LenProperties, ElementOfSeq, EntryFields
<1>2. ~(i < j) /\ ~(j < i)
  BY <1>1 DEF UidsRise
<1> QED BY <1>1, <1>2

(* The place of an entry.                                                   *)
LEMMA PlaceIs ==
  ASSUME NEW v \in Views, UidsRise(v.entries), NEW u, NEW k, Has(v.entries, u, k)
  PROVE  /\ Shows!Place(v, u) \in DOMAIN v.entries
         /\ v.entries[Shows!Place(v, u)].uid = u /\ v.entries[Shows!Place(v, u)].kind = k
         /\ \A i \in DOMAIN v.entries : v.entries[i].uid = u => i = Shows!Place(v, u)
<1>1. PICK i \in DOMAIN v.entries : v.entries[i].uid = u /\ v.entries[i].kind = k
  BY DEF Has
<1>2. PICK p : p = Shows!Place(v, u)
  OBVIOUS
<1>3. p \in DOMAIN v.entries /\ v.entries[p].uid = u
  BY <1>1, <1>2 DEF Shows!Place
<1>4. \A j \in DOMAIN v.entries : v.entries[j].uid = u => j = p
  BY <1>3, ViewFields, UidsDiffer
<1>5. i = p
  BY <1>1, <1>4
<1> QED BY <1>1, <1>2, <1>3, <1>4, <1>5

(* An entry is added at the end, with the next number.                      *)
LEMMA WithEntryIs ==
  ASSUME NEW v \in Views, NEW e \in Entries, NEW w, Writes(v, e, w) \/ Reserves(v, e, w)
  PROVE  /\ w \in Views /\ w.next = v.next + 1 /\ w.reply = v.reply
         /\ w.pending = v.pending /\ w.buf = v.buf
         /\ \E x \in Entries :
              /\ SameBut(x, e, v.next) /\ w.entries = Append(v.entries, x)
              /\ w.log = Cat(v.log, Shows!Render(x)) \/ Reserves(v, e, w)
              /\ w.log = v.log \/ Writes(v, e, w)
<1>0. PICK write \in BOOLEAN : /\ w = Shows!WithEntry(v, e, write)
                               /\ IF write THEN Writes(v, e, w) ELSE Reserves(v, e, w)
  BY DEF Writes, Reserves
<1>1. PICK x : x = [e EXCEPT !.uid = v.next]
  OBVIOUS
<1>2. x \in Entries /\ SameBut(x, e, v.next)
  BY <1>1, ViewFields DEF Entries, SameBut
<1>3. PICK l : l = IF write THEN v.log \o Shows!Render(x) ELSE v.log
  OBVIOUS
<1>4. l \in Seq(Marks)
  BY <1>2, EntryFields, LinesAre, MarksAre, ViewFields, ConcatProperties, <1>3 DEF Shows!Render
<1>5. PICK s : s = Append(v.entries, x)
  OBVIOUS
<1>6. s \in Seq(Entries)
  BY <1>2, <1>5, ViewFields, AppendProperties
<1>7. w = [v EXCEPT !.entries = s, !.next = v.next + 1, !.log = l]
  BY <1>0, <1>1, <1>3, <1>5 DEF Shows!WithEntry
<1>8. /\ w.entries = s /\ w.next = v.next + 1 /\ w.log = l
      /\ w.reply = v.reply /\ w.pending = v.pending /\ w.buf = v.buf
  BY <1>7 DEF Views
<1>9. w \in Views
  <2>1. v.next + 1 \in Nat
    BY ViewFields
  <2>2. PICK n \in Nat : n = v.next + 1
    BY <2>1
  <2>3. w = [v EXCEPT !.entries = s, !.next = n, !.log = l]
    BY <1>7, <2>2
  <2> QED BY <1>4, <1>6, <2>3 DEF Views
<1>10. /\ w.log = Cat(v.log, Shows!Render(x)) \/ Reserves(v, e, w)
       /\ w.log = v.log \/ Writes(v, e, w)
  BY <1>0, <1>3, <1>8 DEF Cat
<1> QED BY <1>2, <1>5, <1>8, <1>9, <1>10

(* An appended entry, in the numbering and among the others.                *)
LEMMA AppendedEntry ==
  ASSUME NEW es \in Seq(Entries), NEW x \in Entries, NEW n \in Nat, n # 0, x.uid = n,
         \A i \in DOMAIN es : es[i].uid \in 1..(n - 1), UidsRise(es),
         NEW t, t = Append(es, x)
  PROVE  /\ \A i \in DOMAIN t : t[i].uid \in 1..((n + 1) - 1)
         /\ UidsRise(t)
         /\ \A u, k : Has(es, u, k) => Has(t, u, k)
         /\ Has(t, n, x.kind)
<1>1. PICK m \in Nat : m = Len(es) /\ DOMAIN es = 1..m
  BY LenProperties
<1>2. t \in Seq(Entries) /\ Len(t) = m + 1 /\ t[m + 1] = x /\ \A i \in 1..m : t[i] = es[i]
  BY <1>1, AppendProperties
<1>3. DOMAIN t = 1..(m + 1)
  BY <1>2, LenProperties
<1>4. \A i \in 1..(m + 1) : i \in 1..m \/ i = m + 1
  OBVIOUS
<1>5. \A i \in 1..m : i \in 1..(m + 1) /\ i < m + 1 /\ es[i].uid \in 1..(n - 1)
  BY <1>1
<1>6. \A i \in DOMAIN t : t[i].uid \in 1..((n + 1) - 1)
  BY <1>2, <1>3, <1>4, <1>5
<1>7. UidsRise(t)
  <2>1. SUFFICES ASSUME NEW i \in 1..(m + 1), NEW j \in 1..(m + 1), i < j
                 PROVE  t[i].uid < t[j].uid
    BY <1>3 DEF UidsRise
  <2>2. i \in 1..m
    BY <2>1
  <2>3. CASE j = m + 1
    BY <1>2, <1>5, <2>2, <2>3
  <2>4. CASE j # m + 1
    <3>1. j \in 1..m
      BY <2>4
    <3>2. es[i].uid < es[j].uid
      BY <1>1, <2>1, <2>2, <3>1 DEF UidsRise
    <3> QED BY <1>2, <2>2, <3>1, <3>2
  <2> QED BY <2>3, <2>4
<1>8. \A u, k : Has(es, u, k) => Has(t, u, k)
  BY <1>1, <1>2, <1>3, <1>5 DEF Has
<1>9. Has(t, n, x.kind)
  BY <1>2, <1>3 DEF Has
<1> QED BY <1>6, <1>7, <1>8, <1>9

(* An entry more leaves a view sound.                                       *)
LEMMA WithEntryOk ==
  ASSUME NEW v, ViewOk(v), NEW e \in Entries, NEW w,
         Writes(v, e, w) \/ Reserves(v, e, w)
  PROVE  ViewOk(w) /\ Has(w.entries, v.next, e.kind)
<1>1. v \in Views /\ EntriesOk(v) /\ PendingOk(v)
  BY DEF ViewOk
<1>2. /\ w \in Views /\ w.next = v.next + 1 /\ w.reply = v.reply
      /\ w.pending = v.pending /\ w.buf = v.buf
  BY <1>1, WithEntryIs
<1>3. PICK x \in Entries : SameBut(x, e, v.next) /\ w.entries = Append(v.entries, x)
  BY <1>1, WithEntryIs
<1>4. x.uid = v.next /\ x.kind = e.kind
  BY <1>3 DEF SameBut
<1>5. v.next \in Nat /\ v.next # 0 /\ v.entries \in Seq(Entries)
  BY <1>1, ViewFields DEF EntriesOk
<1>6. PICK t : t = w.entries
  OBVIOUS
<1>7. /\ \A i \in DOMAIN t : t[i].uid \in 1..((v.next + 1) - 1)
      /\ UidsRise(t)
      /\ \A u, k : Has(v.entries, u, k) => Has(t, u, k)
      /\ Has(t, v.next, x.kind)
  BY <1>1, <1>3, <1>4, <1>5, <1>6, AppendedEntry DEF EntriesOk
<1>8. EntriesOk(w)
  BY <1>1, <1>2, <1>5, <1>6, <1>7 DEF EntriesOk
<1>9. PendingOk(w)
  BY <1>1, <1>2, <1>6, <1>7 DEF PendingOk
<1> QED BY <1>2, <1>4, <1>6, <1>7, <1>8, <1>9 DEF ViewOk

(* _flush_stream: what was streamed moves to the log.                       *)
LEMMA FlushedIs ==
  ASSUME NEW v \in Views, NEW f, f = Shows!FlushedStream(v)
  PROVE  /\ f \in Views /\ f.log = FlushedLog(v) /\ f.buf = <<>>
         /\ f.entries = v.entries /\ f.reply = v.reply /\ f.pending = v.pending /\ f.next = v.next
<1>1. PICK l : l = FlushedLog(v)
  OBVIOUS
<1>2. l \in Seq(Marks) /\ l = v.log \o Shows!Lines(v.buf)
  BY ViewFields, LinesAre, <1>1, CatProperties DEF FlushedLog, Cat
<1>3. f = [v EXCEPT !.log = l, !.buf = <<>>]
  BY <1>2 DEF Shows!FlushedStream
<1>4. <<>> \in Seq(Shows!Piece)
  OBVIOUS
<1>5. f \in Views
  BY <1>2, <1>3, <1>4 DEF Views
<1> QED BY <1>1, <1>3, <1>5 DEF Views

(* What _rerender makes of a view.                                          *)
LEMMA RerenderedIs ==
  ASSUME NEW v \in Views, NEW f, f = Shows!Rerendered(v)
  PROVE  /\ f \in Views /\ f.log = Shows!RenderBut(v.entries, v.pending)
         /\ f.entries = v.entries /\ f.reply = v.reply /\ f.pending = v.pending /\ f.next = v.next
         /\ f.buf = v.buf
<1>1. PICK l : l = Shows!RenderBut(v.entries, v.pending)
  OBVIOUS
<1>2. l \in Seq(Marks)
  BY <1>1, ViewFields, RenderIs
<1>3. f = [v EXCEPT !.log = l]
  BY <1>1 DEF Shows!Rerendered
<1>4. f \in Views
  BY <1>2, <1>3 DEF Views
<1> QED BY <1>1, <1>3, <1>4 DEF Views

(* What _finish_reply makes of a view: the stream is flushed, and there is  *)
(* no reply; one that says nothing is taken out.                            *)
LEMMA FinishedIs ==
  ASSUME NEW v, ViewOk(v), NEW f, f = Shows!Finished(v)
  PROVE  /\ f \in Views /\ f.reply = 0 /\ f.buf = <<>>
         /\ f.pending = v.pending /\ f.next = v.next
         /\ \/ /\ v.reply = 0 \/ ~Shows!Blank(ReplyText(v))
               /\ f.entries = v.entries /\ f.log = FlushedLog(v)
            \/ /\ v.reply # 0 /\ ~Shows!Blank(ReplyText(v))
               /\ f.entries = v.entries /\ f.log = Shows!RenderBut(v.entries, v.pending)
            \/ /\ v.reply # 0 /\ Shows!Blank(ReplyText(v))
               /\ f.entries = Shows!RemoveAt(v.entries, Shows!Place(v, v.reply))
               /\ f.log = FlushedLog(v)
<1>1. v \in Views /\ EntriesOk(v)
  BY DEF ViewOk
<1>2. PICK g : g = Shows!FlushedStream(v)
  OBVIOUS
<1>3. /\ g \in Views /\ g.log = FlushedLog(v) /\ g.buf = <<>>
      /\ g.entries = v.entries /\ g.reply = v.reply /\ g.pending = v.pending /\ g.next = v.next
  BY <1>1, <1>2, FlushedIs
<1>4. PICK h : h = [g EXCEPT !.reply = 0]
  OBVIOUS
<1>5. /\ h \in Views /\ h.log = FlushedLog(v) /\ h.buf = <<>>
      /\ h.entries = v.entries /\ h.reply = 0 /\ h.pending = v.pending /\ h.next = v.next
  BY <1>3, <1>4 DEF Views
<1>6. CASE v.reply = 0
  BY <1>2, <1>4, <1>6, <1>5 DEF Shows!Finished
<1>7. CASE v.reply # 0 /\ Shows!Blank(ReplyText(v))
  <2>1. PICK r : r = Shows!RemoveAt(v.entries, Shows!Place(v, v.reply))
    OBVIOUS
  <2>2. f = [h EXCEPT !.entries = r]
    BY <1>2, <1>4, <1>7, <2>1 DEF Shows!Finished, ReplyText
  <2>3. Shows!Place(v, v.reply) \in 1..Len(v.entries)
    <3>1. Has(v.entries, v.reply, "reply") /\ UidsRise(v.entries)
      BY <1>1, <1>7 DEF EntriesOk
    <3> QED BY <1>1, <3>1, PlaceIs, ViewFields
  <2>4. r \in Seq(Entries)
    BY <1>1, <2>1, <2>3, ViewFields, Removed
  <2>5. f \in Views
    BY <1>5, <2>2, <2>4 DEF Views
  <2> QED BY <1>5, <1>7, <2>1, <2>2, <2>5 DEF Views
<1>8. CASE v.reply # 0 /\ ~Shows!Blank(ReplyText(v))
  <2>1. f = Shows!Rerendered(h) \/ f = h
    BY <1>2, <1>4, <1>8 DEF Shows!Finished, ReplyText
  <2>2. CASE f = Shows!Rerendered(h)
    BY <1>5, <1>8, <2>2, RerenderedIs
  <2>3. CASE f = h
    BY <1>5, <1>8, <2>3
  <2> QED BY <2>1, <2>2, <2>3
<1> QED BY <1>6, <1>7, <1>8

(* Without one of them, the entries are still numbered as they came.        *)
LEMMA RemovedEntry ==
  ASSUME NEW es \in Seq(Entries), NEW i \in 1..Len(es), NEW n, UidsRise(es),
         \A j \in DOMAIN es : es[j].uid \in 1..(n - 1),
         NEW t, t = Shows!RemoveAt(es, i)
  PROVE  /\ \A j \in DOMAIN t : t[j].uid \in 1..(n - 1)
         /\ UidsRise(t)
         /\ \A u, k : Has(es, u, k) /\ u # es[i].uid => Has(t, u, k)
<1>1. PICK m \in Nat : m = Len(es) /\ DOMAIN es = 1..m
  BY LenProperties
<1>2. DOMAIN t = 1..(m - 1) /\ \A j \in 1..(m - 1) : t[j] = IF j < i THEN es[j] ELSE es[j + 1]
  BY <1>1, Removed
<1>3. i \in 1..m
  BY <1>1
<1>4. PICK at \in [1..(m - 1) -> 1..m] : \A j \in 1..(m - 1) : at[j] = IF j < i THEN j ELSE j + 1
  <2>1. PICK at : at = [j \in 1..(m - 1) |-> IF j < i THEN j ELSE j + 1]
    OBVIOUS
  <2>2. \A j \in 1..(m - 1) : j \in 1..m /\ j + 1 \in 1..m
    OBVIOUS
  <2> QED BY <2>1, <2>2
<1>5. \A j \in 1..(m - 1) : t[j] = es[at[j]] /\ at[j] \in 1..m
  BY <1>2, <1>4
<1>6. \A j, l \in 1..(m - 1) : j < l => at[j] < at[l]
  BY <1>4
<1>7. \A j \in DOMAIN t : t[j].uid \in 1..(n - 1)
  BY <1>1, <1>2, <1>5
<1>71. \A j, l \in 1..m : j < l => es[j].uid < es[l].uid
  BY <1>1 DEF UidsRise
<1>8. UidsRise(t)
  <2>1. \A j, l \in 1..(m - 1) : j < l => t[j].uid < t[l].uid
    BY <1>5, <1>6, <1>71
  <2> QED BY <1>2, <2>1 DEF UidsRise
<1>9. ASSUME NEW u, NEW k, Has(es, u, k), u # es[i].uid PROVE Has(t, u, k)
  <2>1. PICK j \in 1..m : es[j].uid = u /\ es[j].kind = k
    BY <1>1, <1>9 DEF Has
  <2>2. j # i
    BY <1>9, <2>1
  <2>3. PICK l \in 1..(m - 1) : at[l] = j
    <3>1. CASE j < i
      BY <1>3, <3>1, <1>4
    <3>2. CASE ~(j < i)
      <4>1. PICK l \in 1..(m - 1) : l = j - 1
        BY <1>3, <2>2, <3>2
      <4>2. ~(l < i) /\ l + 1 = j
        BY <1>3, <2>2, <3>2, <4>1
      <4> QED BY <1>4, <4>2
    <3> QED BY <3>1, <3>2
  <2> QED BY <1>2, <1>5, <2>1, <2>3 DEF Has
<1> QED BY <1>7, <1>8, <1>9

(* The end of a reply leaves a view sound, and its blocks in place.         *)
LEMMA FinishedOk ==
  ASSUME NEW v, ViewOk(v), NEW f, f = Shows!Finished(v)
  PROVE  /\ ViewOk(f)
         /\ \A u : Has(v.entries, u, "block") => Has(f.entries, u, "block")
<1>1. v \in Views /\ EntriesOk(v) /\ PendingOk(v)
  BY DEF ViewOk
<1>2. /\ f \in Views /\ f.reply = 0 /\ f.buf = <<>>
      /\ f.pending = v.pending /\ f.next = v.next
  BY FinishedIs
<1>3. CASE f.entries = v.entries
  BY <1>1, <1>2, <1>3 DEF ViewOk, EntriesOk, PendingOk
<1>4. CASE v.reply # 0 /\ f.entries = Shows!RemoveAt(v.entries, Shows!Place(v, v.reply))
  <2>1. PICK i : i = Shows!Place(v, v.reply)
    OBVIOUS
  <2>2. UidsRise(v.entries) /\ Has(v.entries, v.reply, "reply")
    BY <1>1, <1>4 DEF EntriesOk
  <2>3. i \in 1..Len(v.entries) /\ v.entries[i].uid = v.reply /\ v.entries[i].kind = "reply"
    <3>1. PICK u : u = v.reply
      OBVIOUS
    <3>2. i \in DOMAIN v.entries /\ v.entries[i].uid = u /\ v.entries[i].kind = "reply"
      BY <1>1, <2>1, <2>2, <3>1, PlaceIs
    <3> QED BY <1>1, <3>1, <3>2, ViewFields, LenProperties
  <2>4. \A u : Has(v.entries, u, "block") => u # v.entries[i].uid
    <3>1. SUFFICES ASSUME NEW u, Has(v.entries, u, "block") PROVE u # v.reply
      BY <2>3
    <3>2. PICK j \in DOMAIN v.entries : v.entries[j].uid = u /\ v.entries[j].kind = "block"
      BY <3>1 DEF Has
    <3>3. u = v.reply => j = i
      BY <1>1, <2>1, <2>2, <3>2, PlaceIs
    <3> QED BY <2>3, <3>2, <3>3
  <2>5. PICK t : t = f.entries
    OBVIOUS
  <2>6. t = Shows!RemoveAt(v.entries, i)
    BY <1>4, <2>1, <2>5
  <2>7. v.entries \in Seq(Entries) /\ \A j \in DOMAIN v.entries : v.entries[j].uid \in 1..(v.next - 1)
    BY <1>1, ViewFields DEF EntriesOk
  <2>8. /\ \A j \in DOMAIN t : t[j].uid \in 1..(v.next - 1)
        /\ UidsRise(t)
        /\ \A u, k : Has(v.entries, u, k) /\ u # v.entries[i].uid => Has(t, u, k)
    BY <2>2, <2>3, <2>6, <2>7, RemovedEntry
  <2>9. \A u : Has(v.entries, u, "block") => Has(t, u, "block")
    BY <2>4, <2>8
  <2>10. EntriesOk(f)
    BY <1>1, <1>2, <2>5, <2>8 DEF EntriesOk
  <2>11. PendingOk(f)
    BY <1>1, <1>2, <2>5, <2>9 DEF PendingOk
  <2> QED BY <1>2, <2>5, <2>9, <2>10, <2>11 DEF ViewOk
<1>5. f.entries = v.entries \/
        (v.reply # 0 /\ f.entries = Shows!RemoveAt(v.entries, Shows!Place(v, v.reply)))
  BY FinishedIs
<1> QED BY <1>3, <1>4, <1>5

(* The reply that streams, or a new one.                                    *)
LEMMA ReplyEntryIs ==
  ASSUME NEW v, ViewOk(v), NEW r, r = Shows!ReplyEntry(v)
  PROVE  /\ ViewOk(r) /\ r.reply # 0 /\ r.log = v.log /\ r.pending = v.pending /\ r.buf = v.buf
         /\ IF v.reply # 0 THEN r = v
            ELSE /\ r.reply = v.next
                 /\ \E x \in Entries : /\ x.kind = "reply" /\ x.pieces = <<>> /\ x.uid = v.next
                                       /\ r.entries = Append(v.entries, x)
<1>1. CASE v.reply # 0
  BY <1>1 DEF Shows!ReplyEntry
<1>2. CASE v.reply = 0
  <2>1. PICK e : e = Shows!Entry("reply", <<>>, 0, "none", 0)
    OBVIOUS
  <2>2. e \in Entries /\ e.kind = "reply" /\ e.pieces = <<>>
    BY <2>1 DEF Shows!Entry, Entries, Kinds, ToolNames
  <2>3. PICK w : w = Shows!WithEntry(v, e, FALSE)
    OBVIOUS
  <2>4. Reserves(v, e, w)
    BY <2>3 DEF Reserves
  <2>5. v \in Views /\ EntriesOk(v) /\ v.next \in Nat /\ v.next # 0
    BY ViewFields DEF ViewOk, EntriesOk
  <2>6. /\ w \in Views /\ w.next = v.next + 1 /\ w.reply = v.reply
        /\ w.pending = v.pending /\ w.buf = v.buf
    BY <2>2, <2>4, <2>5, WithEntryIs
  <2>7. PICK x \in Entries : /\ SameBut(x, e, v.next) /\ w.entries = Append(v.entries, x)
                             /\ w.log = v.log \/ Writes(v, e, w)
    BY <2>2, <2>4, <2>5, WithEntryIs
  <2>8. ViewOk(w) /\ Has(w.entries, v.next, "reply")
    BY <2>2, <2>4, WithEntryOk
  <2>9. r = [w EXCEPT !.reply = v.next]
    BY <1>2, <2>1, <2>3 DEF Shows!ReplyEntry, Shows!NoId
  <2>10. /\ r \in Views /\ r.reply = v.next /\ r.next = w.next /\ r.entries = w.entries
         /\ r.log = w.log /\ r.pending = w.pending /\ r.buf = w.buf
    BY <2>5, <2>6, <2>9 DEF Views
  <2>11. ViewOk(r)
    BY <2>5, <2>8, <2>10 DEF ViewOk, EntriesOk, PendingOk
  <2>12. w.log = v.log
    <3>1. CASE w.log = Cat(v.log, Shows!Render(x))
      <4>1. Shows!Render(x) = Shows!Lines(<<>>)
        BY <2>2, <2>7 DEF SameBut, Shows!Render
      <4>2. Shows!Lines(<<>>) = <<>>
        <5>1. <<>> \in Seq(Shows!Piece) /\ Shows!Blank(<<>>)
          BY DEF Shows!Blank
        <5> QED BY <5>1, BlankLines
      <4>3. Cat(v.log, <<>>) = v.log
        BY <2>5, ViewFields, CatProperties
      <4> QED BY <3>1, <4>1, <4>2, <4>3
    <3>2. CASE w.log = v.log
      BY <3>2
    <3>3. w.log = v.log
      BY <2>3, <2>5 DEF Shows!WithEntry, Views
    <3> QED BY <3>3
  <2>13. x.kind = "reply" /\ x.pieces = <<>> /\ x.uid = v.next
    BY <2>2, <2>7 DEF SameBut
  <2> QED BY <1>2, <2>5, <2>6, <2>7, <2>10, <2>11, <2>12, <2>13
<1> QED BY <1>1, <1>2

(* A piece more for the reply that streams.                                 *)
LEMMA GrownIs ==
  ASSUME NEW v, ViewOk(v), NEW p \in Shows!Piece, NEW r, r = Shows!ReplyEntry(v),
         NEW g, g = Shows!Grown(v, p)
  PROVE  /\ ViewOk(g) /\ g.reply = r.reply /\ g.log = r.log /\ g.pending = r.pending
         /\ g.next = r.next /\ g.buf = Append(r.buf, p)
         /\ Len(g.entries) = Len(r.entries)
         /\ \A i \in DOMAIN r.entries :
              /\ g.entries[i].uid = r.entries[i].uid /\ g.entries[i].kind = r.entries[i].kind
              /\ g.entries[i].id = r.entries[i].id /\ g.entries[i].name = r.entries[i].name
              /\ g.entries[i].result = r.entries[i].result
              /\ g.entries[i].pieces = IF r.entries[i].uid # r.reply THEN r.entries[i].pieces
                                       ELSE Append(r.entries[i].pieces, p)
<1>1. ViewOk(r) /\ r.reply # 0
  BY ReplyEntryIs
<1>2. /\ r \in Views /\ r.entries \in Seq(Entries) /\ r.buf \in Seq(Shows!Piece)
      /\ Len(r.entries) \in Nat /\ DOMAIN r.entries = 1..Len(r.entries)
      /\ \A i \in DOMAIN r.entries : r.entries[i] \in Entries
  BY <1>1, ViewFields DEF ViewOk
<1>3. PICK b : b = Append(r.buf, p)
  OBVIOUS
<1>4. b \in Seq(Shows!Piece)
  BY <1>2, <1>3, AppendProperties
<1>5. PICK k : k = Shows!Place(r, r.reply)
  OBVIOUS
<1>6. k \in DOMAIN r.entries /\ \A i \in DOMAIN r.entries : r.entries[i].uid = r.reply <=> i = k
  <2>1. UidsRise(r.entries) /\ Has(r.entries, r.reply, "reply")
    BY <1>1 DEF ViewOk, EntriesOk
  <2> QED BY <1>2, <1>5, <2>1, PlaceIs
<1>7. PICK s : s = [r.entries EXCEPT ![k].pieces = Append(r.entries[k].pieces, p)]
  OBVIOUS
<1>8. /\ s \in Seq(Entries) /\ Len(s) = Len(r.entries) /\ DOMAIN s = DOMAIN r.entries
      /\ \A i \in DOMAIN r.entries :
           /\ s[i].uid = r.entries[i].uid /\ s[i].kind = r.entries[i].kind
           /\ s[i].id = r.entries[i].id /\ s[i].name = r.entries[i].name
           /\ s[i].result = r.entries[i].result
           /\ s[i].pieces = IF r.entries[i].uid # r.reply THEN r.entries[i].pieces
                            ELSE Append(r.entries[i].pieces, p)
  <2>1. PICK e \in Entries : e = r.entries[k]
    BY <1>2, <1>6
  <2>2. PICK q : q = Append(e.pieces, p)
    OBVIOUS
  <2>3. q \in Seq(Shows!Piece)
    BY <2>2, EntryFields, AppendProperties
  <2>4. PICK x : x = [e EXCEPT !.pieces = q]
    OBVIOUS
  <2>5. /\ x \in Entries /\ x.uid = e.uid /\ x.kind = e.kind /\ x.id = e.id /\ x.name = e.name
        /\ x.result = e.result /\ x.pieces = q
    BY <2>3, <2>4 DEF Entries
  <2>6. s = [r.entries EXCEPT ![k] = x]
    BY <1>7, <2>1, <2>2, <2>4
  <2>7. s \in Seq(Entries) /\ Len(s) = Len(r.entries)
    BY <1>2, <1>6, <2>5, <2>6, ExceptSeq
  <2>8. \A i \in DOMAIN r.entries : s[i] = IF i = k THEN x ELSE r.entries[i]
    BY <1>2, <2>6
  <2> QED BY <1>2, <1>6, <2>1, <2>2, <2>5, <2>6, <2>7, <2>8
<1>81. g = [r EXCEPT !.buf = b, !.entries = s]
  BY <1>3, <1>5, <1>7 DEF Shows!Grown
<1>9. /\ g \in Views /\ g.buf = b /\ g.entries = s /\ g.log = r.log /\ g.reply = r.reply
      /\ g.pending = r.pending /\ g.next = r.next
  BY <1>2, <1>4, <1>8, <1>81 DEF Views
<1>10. UidsRise(s) /\ \A u, sort : Has(r.entries, u, sort) => Has(s, u, sort)
  BY <1>1, <1>8 DEF UidsRise, Has, ViewOk, EntriesOk
<1>11. EntriesOk(g)
  BY <1>1, <1>8, <1>9, <1>10 DEF ViewOk, EntriesOk
<1>12. PendingOk(g)
  BY <1>1, <1>9, <1>10 DEF ViewOk, PendingOk
<1> QED BY <1>3, <1>8, <1>9, <1>11, <1>12 DEF ViewOk

(* What is drained of the buffer is in the log.                             *)
LEMMA DrainedIs ==
  ASSUME NEW v, ViewOk(v), v.reply # 0, NEW k \in 0..Len(v.buf), NEW w, w = Shows!Drained(v, k)
  PROVE  /\ ViewOk(w) /\ w.entries = v.entries /\ w.reply = v.reply /\ w.pending = v.pending
         /\ w.next = v.next /\ FlushedLog(w) = FlushedLog(v)
         /\ \A y : In(y, v.log) => In(y, w.log)
<1>1. v \in Views /\ v.buf \in Seq(Shows!Piece) /\ v.log \in Seq(Marks)
  BY ViewFields DEF ViewOk
<1>2. PICK n \in Nat : n = Len(v.buf)
  BY <1>1, LenProperties
<1>3. k \in 0..n /\ k \in Nat /\ \A j \in 1..n : v.buf[j] \in Shows!Piece
  BY <1>1, <1>2, ElementOfSeq
<1>4. PICK b, c : b = SubSeq(v.buf, 1, k) /\ c = SubSeq(v.buf, k + 1, n)
  OBVIOUS
<1>5. b \in Seq(Shows!Piece)
  BY <1>3, <1>4, SubSeqProperties
<1>6. c \in Seq(Shows!Piece)
  BY <1>3, <1>4, SubSeqProperties
<1>7. v.buf = Cat(b, c)
  <2>1. 1 \in 1..(Len(v.buf) + 1) /\ k \in (1 - 1)..Len(v.buf) /\ n \in k..Len(v.buf)
    BY <1>2, <1>3
  <2>2. SubSeq(v.buf, 1, k) \o SubSeq(v.buf, k + 1, n) = SubSeq(v.buf, 1, n)
    BY <1>1, <2>1, ConcatAdjacentSubSeq
  <2>3. SubSeq(v.buf, 1, n) = v.buf
    BY <1>1, <1>2, SubSeqFull
  <2> QED BY <1>4, <2>2, <2>3 DEF Cat
<1>8. PICK l : l = Cat(v.log, Shows!Lines(b))
  OBVIOUS
<1>9. Shows!Lines(b) \in Seq(Marks) /\ Shows!Lines(c) \in Seq(Marks)
  BY <1>5, <1>6, LinesAre
<1>10. l \in Seq(Marks)
  BY <1>1, <1>8, <1>9, CatProperties
<1>11. w = [v EXCEPT !.log = l, !.buf = c]
  BY <1>2, <1>4, <1>8 DEF Shows!Drained, Cat
<1>12. /\ w \in Views /\ w.log = l /\ w.buf = c /\ w.entries = v.entries /\ w.reply = v.reply
       /\ w.pending = v.pending /\ w.next = v.next
  BY <1>1, <1>6, <1>10, <1>11 DEF Views
<1>13. FlushedLog(w) = FlushedLog(v)
  <2>1. Shows!Lines(v.buf) = Cat(Shows!Lines(b), Shows!Lines(c))
    BY <1>5, <1>6, <1>7, LinesCat
  <2>2. Cat(Cat(v.log, Shows!Lines(b)), Shows!Lines(c)) = Cat(v.log, Cat(Shows!Lines(b), Shows!Lines(c)))
    <3>1. PICK lb \in Seq(Marks), lc \in Seq(Marks) : lb = Shows!Lines(b) /\ lc = Shows!Lines(c)
      BY <1>9
    <3>2. PICK lv \in Seq(Marks) : lv = v.log
      BY <1>1
    <3>3. Cat(Cat(lv, lb), lc) = Cat(lv, Cat(lb, lc))
      BY CatProperties
    <3> QED BY <3>1, <3>2, <3>3
  <2> QED BY <1>8, <1>12, <2>1, <2>2 DEF FlushedLog
<1>14. \A y : In(y, v.log) => In(y, w.log)
  BY <1>1, <1>8, <1>9, <1>12, InCat
<1>15. ViewOk(w)
  BY <1>12 DEF ViewOk, EntriesOk, PendingOk
<1> QED BY <1>12, <1>13, <1>14, <1>15

(* The entries that are not reply entries look the same in the log.         *)
LEMMA RenderedEntry ==
  ASSUME NEW x \in Entries, x.kind # "reply"
  PROVE  Shows!Render(x) = <<<<"entry", x.uid>>>> /\ <<"entry", x.uid>> \in Marks
BY EntryFields, MarksAre DEF Shows!Render

(* A note, and a call's block.                                              *)
LEMMA NewEntries ==
  /\ Shows!Note \in Entries /\ Shows!Note.kind = "note"
  /\ \A n \in Nat, a \in ToolNames :
       /\ Shows!Block(n, a) \in Entries /\ Shows!Block(n, a).kind = "block"
       /\ Shows!Block(n, a).id = n /\ Shows!Block(n, a).name = a /\ Shows!Block(n, a).result = 0
  /\ Shows!Entry("user", <<>>, Shows!NoId, "none", Shows!NoId) \in Entries
  /\ Shows!Entry("user", <<>>, Shows!NoId, "none", Shows!NoId).kind = "user"
BY DEF Shows!Note, Shows!Block, Shows!Entry, Shows!NoId, Entries, Kinds, ToolNames

(* What on_tool_announce makes of a view.                                   *)
LEMMA AnnouncedIs ==
  ASSUME NEW v, ViewOk(v), NEW m, m.id \in Nat, m.name \in ToolNames,
         NEW f, f = Shows!Finished(v), NEW w, w = Shows!Announced(v, m)
  PROVE  /\ ViewOk(w) /\ w.reply = 0 /\ w.buf = <<>> /\ w.log = f.log /\ w.next = f.next + 1
         /\ w.pending = Append(f.pending, f.next)
         /\ NewBlock(f, m, w)
<1>1. ViewOk(f) /\ f \in Views /\ f.reply = 0 /\ f.buf = <<>> /\ EntriesOk(f) /\ PendingOk(f)
  BY FinishedOk, FinishedIs DEF ViewOk
<1>2. PICK e \in Entries : /\ e = Shows!Block(m.id, m.name) /\ e.kind = "block"
                           /\ e.id = m.id /\ e.name = m.name /\ e.result = 0
  BY NewEntries
<1>3. PICK g : g = Shows!WithEntry(f, e, FALSE)
  OBVIOUS
<1>4. Reserves(f, e, g)
  BY <1>3 DEF Reserves
<1>5. /\ g \in Views /\ g.next = f.next + 1 /\ g.reply = f.reply
      /\ g.pending = f.pending /\ g.buf = f.buf
  BY <1>1, <1>2, <1>4, WithEntryIs
<1>6. PICK x \in Entries : SameBut(x, e, f.next) /\ g.entries = Append(f.entries, x)
  BY <1>1, <1>2, <1>4, WithEntryIs
<1>7. g.log = f.log
  BY <1>1, <1>3 DEF Shows!WithEntry, Views
<1>8. ViewOk(g) /\ Has(g.entries, f.next, "block")
  BY <1>1, <1>2, <1>4, WithEntryOk
<1>9. f.next \in Nat /\ f.next # 0 /\ f.pending \in Seq(Nat)
  BY <1>1, ViewFields DEF EntriesOk
<1>10. PICK us : us = Append(f.pending, f.next)
  OBVIOUS
<1>11. PICK n \in Nat : n = Len(f.pending) /\ DOMAIN f.pending = 1..n
  BY <1>9, LenProperties
<1>12. us \in Seq(Nat) /\ Len(us) = n + 1 /\ us[n + 1] = f.next /\ \A k \in 1..n : us[k] = f.pending[k]
  BY <1>9, <1>10, <1>11, AppendProperties
<1>13. DOMAIN us = 1..(n + 1)
  BY <1>12, LenProperties
<1>14. w = [g EXCEPT !.pending = us]
  BY <1>2, <1>3, <1>5, <1>10 DEF Shows!Announced
<1>15. /\ w \in Views /\ w.pending = us /\ w.entries = g.entries /\ w.log = g.log
       /\ w.reply = g.reply /\ w.buf = g.buf /\ w.next = g.next
  BY <1>5, <1>12, <1>14 DEF Views
<1>16. \A k \in 1..n : Has(g.entries, us[k], "block") /\ us[k] < f.next
  <2>1. TAKE k \in 1..n
  <2>2. Has(f.entries, f.pending[k], "block") /\ Has(g.entries, f.pending[k], "block")
    BY <1>5, <1>8, <1>1, <1>11 DEF PendingOk, ViewOk
  <2>3. PICK i \in DOMAIN f.entries : f.entries[i].uid = f.pending[k]
    BY <2>2 DEF Has
  <2>4. f.entries[i].uid \in 1..(f.next - 1)
    BY <1>1 DEF EntriesOk
  <2>5. f.pending[k] < f.next
    BY <1>9, <2>3, <2>4
  <2> QED BY <1>12, <2>2, <2>5
<1>17. PendingOk(w)
  <2>1. \A k \in 1..(n + 1) : k \in 1..n \/ k = n + 1
    OBVIOUS
  <2>2. \A k \in DOMAIN us : Has(g.entries, us[k], "block")
    BY <1>8, <1>12, <1>13, <1>16, <2>1
  <2>3. \A j, k \in DOMAIN us : j < k => us[j] < us[k]
    <3>1. SUFFICES ASSUME NEW j \in 1..(n + 1), NEW k \in 1..(n + 1), j < k PROVE us[j] < us[k]
      BY <1>13
    <3>2. j \in 1..n
      BY <3>1
    <3>3. CASE k = n + 1
      BY <1>12, <1>16, <3>2, <3>3
    <3>4. CASE k # n + 1
      <4>1. k \in 1..n
        BY <3>4
      <4>2. f.pending[j] < f.pending[k]
        BY <1>1, <1>11, <3>1, <3>2, <4>1 DEF PendingOk
      <4> QED BY <1>12, <3>2, <4>1, <4>2
    <3> QED BY <3>3, <3>4
  <2> QED BY <1>15, <2>2, <2>3 DEF PendingOk
<1>18. EntriesOk(w)
  BY <1>8, <1>15 DEF ViewOk, EntriesOk
<1>19. x.kind = "block" /\ x.id = m.id /\ x.name = m.name /\ x.result = 0 /\ x.uid = f.next
  BY <1>2, <1>6 DEF SameBut
<1> QED BY <1>1, <1>5, <1>6, <1>7, <1>10, <1>15, <1>17, <1>18, <1>19 DEF ViewOk, NewBlock

(* It is a part of a log.                                                   *)
LEMMA AwaitedIs ==
  ASSUME NEW us \in Seq(Nat)
  PROVE  Awaited(us) \in Seq(Marks) /\ Len(Awaited(us)) = Len(us)
<1>1. PICK n \in Nat : n = Len(us) /\ DOMAIN us = 1..n
  BY LenProperties
<1>2. \A k \in 1..n : <<"entry", us[k]>> \in Marks
  BY <1>1, ElementOfSeq, MarksAre
<1>3. PICK s : s = [k \in 1..n |-> <<"entry", us[k]>>]
  OBVIOUS
<1>4. s \in Seq(Marks) /\ Len(s) = n
  BY <1>2, <1>3
<1> QED BY <1>1, <1>3, <1>4 DEF Awaited

(* What a notice, and the end of a turn, make of a view; w is the view with *)
(* the reply finished, and the log l of it.                                 *)
LEMMA NotedIs ==
  ASSUME NEW f, ViewOk(f), NEW e \in Entries, e.kind # "reply", NEW w, Writes(f, e, w)
  PROVE  /\ ViewOk(w) /\ w.reply = f.reply /\ w.buf = f.buf /\ w.pending = f.pending
         /\ w.next = f.next + 1 /\ w.log = Append(f.log, <<"entry", f.next>>)
         /\ \E x \in Entries : SameBut(x, e, f.next) /\ w.entries = Append(f.entries, x)
<1>1. f \in Views /\ f.log \in Seq(Marks)
  BY ViewFields DEF ViewOk
<1>2. /\ w.next = f.next + 1 /\ w.reply = f.reply
      /\ w.pending = f.pending /\ w.buf = f.buf
  BY <1>1, WithEntryIs
<1>3. PICK x \in Entries : SameBut(x, e, f.next) /\ w.entries = Append(f.entries, x)
  BY <1>1, WithEntryIs
<1>4. x.uid = f.next /\ x.kind # "reply"
  BY <1>3 DEF SameBut
<1>5. Shows!Render([e EXCEPT !.uid = f.next]) = <<<<"entry", f.next>>>>
  BY DEF Shows!Render, Entries
<1>6. w.log = f.log \o <<<<"entry", f.next>>>>
  BY <1>1, <1>5 DEF Writes, Shows!WithEntry, Views
<1>7. f.log \o <<<<"entry", f.next>>>> = Append(f.log, <<"entry", f.next>>)
  <2>1. <<"entry", f.next>> \in Marks
    BY <1>1, ViewFields, MarksAre
  <2>2. PICK y \in Marks : y = <<"entry", f.next>>
    BY <2>1
  <2>3. Append(f.log, y) = f.log \o <<y>>
    BY <1>1, AppendIsConcat
  <2> QED BY <2>2, <2>3
<1>8. ViewOk(w)
  BY WithEntryOk
<1> QED BY <1>2, <1>3, <1>6, <1>7, <1>8

(* What the end of a turn makes of it.                                      *)
LEMMA EndedIs ==
  ASSUME NEW v, ViewOk(v), NEW f, f = Shows!Finished(v), NEW w, w = Shows!Ended(v)
  PROVE  /\ ViewOk(w) /\ w.reply = 0 /\ w.buf = <<>> /\ w.pending = <<>>
         /\ w.next = f.next + 1
         /\ w.log = Append(Cat(f.log, Awaited(f.pending)), <<"entry", f.next>>)
         /\ \E x \in Entries : /\ x.kind = "note" /\ x.uid = f.next
                               /\ w.entries = Append(f.entries, x)
<1>1. ViewOk(f) /\ f \in Views /\ f.reply = 0 /\ f.buf = <<>>
  BY FinishedOk, FinishedIs DEF ViewOk
<1>2. PICK l : l = Cat(f.log, Awaited(f.pending))
  OBVIOUS
<1>3. l \in Seq(Marks)
  BY <1>1, <1>2, ViewFields, AwaitedIs, CatProperties
<1>4. PICK g : g = [f EXCEPT !.log = l, !.pending = <<>>]
  OBVIOUS
<1>5. <<>> \in Seq(Nat)
  OBVIOUS
<1>6. /\ g \in Views /\ g.log = l /\ g.pending = <<>> /\ g.entries = f.entries
      /\ g.reply = f.reply /\ g.buf = f.buf /\ g.next = f.next
  BY <1>1, <1>3, <1>4, <1>5 DEF Views
<1>7. ViewOk(g)
  BY <1>1, <1>6 DEF ViewOk, EntriesOk, PendingOk
<1>8. Writes(g, Shows!Note, w)
  BY <1>2, <1>4 DEF Writes, Shows!Ended, Cat, Awaited
<1>9. PICK e \in Entries : e = Shows!Note /\ e.kind = "note"
  BY NewEntries
<1>10. /\ ViewOk(w) /\ w.reply = g.reply /\ w.buf = g.buf /\ w.pending = g.pending
       /\ w.next = g.next + 1 /\ w.log = Append(g.log, <<"entry", g.next>>)
       /\ \E x \in Entries : SameBut(x, e, g.next) /\ w.entries = Append(g.entries, x)
  BY <1>7, <1>8, <1>9, NotedIs
<1> QED BY <1>1, <1>2, <1>6, <1>9, <1>10 DEF SameBut

(* A set of numbers that is not empty has a least one.                      *)
LEMMA LeastExists ==
  ASSUME NEW S \in SUBSET Nat, S # {}
  PROVE  \E k \in S : \A j \in S : k <= j
<1>1. PICK k \in S : \A j \in S : ~(<<j, k>> \in OpToRel(<, Nat))
  BY NatLessThanWellFounded, WFMin
<1>2. \A j \in S : ~(j < k)
  BY <1>1 DEF OpToRel
<1>3. \A j \in S : j \in Nat /\ k \in Nat
  OBVIOUS
<1> QED BY <1>2, <1>3

(* What a block that is completed makes of a view.                          *)
LEMMA CompletedIs ==
  ASSUME NEW v, ViewOk(v), NEW i \in DOMAIN v.entries, NEW r \in Nat,
         NEW w, w = Shows!Completed(v, i, r)
  PROVE  /\ ViewOk(w) /\ w.reply = v.reply /\ w.buf = v.buf /\ w.pending = v.pending
         /\ w.next = v.next /\ w.log = Append(v.log, <<"entry", v.entries[i].uid>>)
         /\ Completes(v.entries, i, r, w.entries)
         /\ \A u, k : Has(v.entries, u, k) => Has(w.entries, u, k)
<1>1. v \in Views /\ EntriesOk(v) /\ PendingOk(v)
  BY DEF ViewOk
<1>2. /\ v.entries \in Seq(Entries) /\ v.log \in Seq(Marks) /\ DOMAIN v.entries = 1..Len(v.entries)
      /\ \A l \in DOMAIN v.entries : v.entries[l] \in Entries
  BY <1>1, ViewFields
<1>3. PICK e \in Entries : e = v.entries[i]
  BY <1>2
<1>4. PICK x : x = [e EXCEPT !.result = r]
  OBVIOUS
<1>5. /\ x \in Entries /\ x.kind = e.kind /\ x.pieces = e.pieces /\ x.id = e.id
      /\ x.name = e.name /\ x.uid = e.uid /\ x.result = r
  BY <1>4 DEF Entries
<1>6. PICK t : t = [v.entries EXCEPT ![i] = x]
  OBVIOUS
<1>7. t \in Seq(Entries) /\ Len(t) = Len(v.entries) /\ DOMAIN t = DOMAIN v.entries
  BY <1>2, <1>5, <1>6, ExceptSeq
<1>8. \A l \in DOMAIN v.entries : t[l] = IF l = i THEN x ELSE v.entries[l]
  BY <1>2, <1>6
<1>9. PICK y \in Marks : y = <<"entry", e.uid>>
  BY EntryFields, MarksAre
<1>10. PICK g : g = Append(v.log, y)
  OBVIOUS
<1>11. g \in Seq(Marks)
  BY <1>2, <1>10, AppendProperties
<1>12. w = [v EXCEPT !.entries = t, !.log = g]
  BY <1>1, <1>3, <1>4, <1>6, <1>9, <1>10 DEF Shows!Completed, Views
<1>13. /\ w \in Views /\ w.entries = t /\ w.log = g /\ w.reply = v.reply /\ w.buf = v.buf
       /\ w.pending = v.pending /\ w.next = v.next
  BY <1>1, <1>7, <1>11, <1>12 DEF Views
<1>14. Completes(v.entries, i, r, t)
  BY <1>3, <1>5, <1>7, <1>8 DEF Completes
<1>15. \A l \in DOMAIN v.entries : t[l].uid = v.entries[l].uid /\ t[l].kind = v.entries[l].kind
  BY <1>3, <1>5, <1>8
<1>16. UidsRise(t) /\ \A u, k : Has(v.entries, u, k) => Has(t, u, k)
  BY <1>1, <1>7, <1>15 DEF UidsRise, Has, EntriesOk
<1>17. EntriesOk(w)
  BY <1>1, <1>7, <1>13, <1>15, <1>16 DEF EntriesOk
<1>18. PendingOk(w)
  BY <1>1, <1>13, <1>16 DEF PendingOk
<1> QED BY <1>3, <1>9, <1>10, <1>13, <1>14, <1>16, <1>17, <1>18 DEF ViewOk

(* The block of a call that is not observed.                                *)
LEMMA PendingEntry ==
  ASSUME NEW v, ViewOk(v), NEW k \in DOMAIN v.pending
  PROVE  /\ Shows!Place(v, v.pending[k]) \in DOMAIN v.entries
         /\ v.entries[Shows!Place(v, v.pending[k])].uid = v.pending[k]
         /\ v.entries[Shows!Place(v, v.pending[k])].kind = "block"
         /\ \A i \in DOMAIN v.entries :
              v.entries[i].uid = v.pending[k] => i = Shows!Place(v, v.pending[k])
<1>1. v \in Views /\ UidsRise(v.entries) /\ Has(v.entries, v.pending[k], "block")
  BY DEF ViewOk, EntriesOk, PendingOk
<1>2. PICK u : u = v.pending[k]
  OBVIOUS
<1>3. Has(v.entries, u, "block")
  BY <1>1, <1>2
<1>4. PICK i : i = Shows!Place(v, u)
  OBVIOUS
<1>5. /\ i \in DOMAIN v.entries /\ v.entries[i].uid = u /\ v.entries[i].kind = "block"
      /\ \A j \in DOMAIN v.entries : v.entries[j].uid = u => j = i
  BY <1>1, <1>3, <1>4, PlaceIs
<1> QED BY <1>2, <1>4, <1>5

(* The oldest of a name.                                                    *)
LEMMA OldestIs ==
  ASSUME NEW v, ViewOk(v), NEW name, Shows!PendingOf(v, name) # {}
  PROVE  /\ Shows!OldestOf(v, name) \in Shows!PendingOf(v, name)
         /\ \A j \in Shows!PendingOf(v, name) : Shows!OldestOf(v, name) <= j
<1>1. v \in Views
  BY DEF ViewOk
<1>2. PICK S : S = Shows!PendingOf(v, name)
  OBVIOUS
<1>3. S \in SUBSET Nat /\ S # {}
  BY <1>1, <1>2, ViewFields DEF Shows!PendingOf
<1>4. \E k \in S : \A j \in S : k <= j
  BY <1>3, LeastExists
<1> QED BY <1>2, <1>4 DEF Shows!OldestOf

(* One call less that is waited for.                                        *)
LEMMA PendingRemoved ==
  ASSUME NEW v, ViewOk(v), NEW k \in DOMAIN v.pending, NEW us, us = Shows!RemoveAt(v.pending, k)
  PROVE  /\ us \in Seq(Nat) /\ Len(us) = Len(v.pending) - 1 /\ DOMAIN us = 1..Len(us)
         /\ \A j \in DOMAIN us : AtAnother(us[j], v.pending, k)
         /\ \A l \in DOMAIN v.pending : l # k => In(v.pending[l], us)
         /\ \A j, l \in DOMAIN us : j < l => us[j] < us[l]
<1>1. v \in Views /\ PendingOk(v)
  BY DEF ViewOk
<1>2. PICK ps \in Seq(Nat) : ps = v.pending
  BY <1>1, ViewFields
<1>3. PICK n \in Nat : n = Len(ps) /\ DOMAIN ps = 1..n
  BY <1>2, LenProperties
<1>4. k \in 1..n
  BY <1>2, <1>3
<1>5. /\ us \in Seq(Nat) /\ Len(us) = n - 1 /\ DOMAIN us = 1..(n - 1)
      /\ \A j \in 1..(n - 1) : us[j] = IF j < k THEN ps[j] ELSE ps[j + 1]
  BY <1>2, <1>3, <1>4, Removed
<1>6. \A j \in 1..(n - 1) : j \in 1..n /\ j + 1 \in 1..n
  BY <1>3
<1>7. \A j \in 1..(n - 1) : AtAnother(us[j], ps, k)
  <2>1. TAKE j \in 1..(n - 1)
  <2>2. CASE j < k
    <3>1. us[j] = ps[j] /\ j \in DOMAIN ps /\ j # k
      BY <1>3, <1>4, <1>5, <1>6, <2>2
    <3> QED BY <3>1 DEF AtAnother
  <2>3. CASE ~(j < k)
    <3>1. PICK l : l = j + 1
      OBVIOUS
    <3>2. l \in DOMAIN ps /\ us[j] = ps[l]
      BY <1>3, <1>5, <1>6, <2>3, <3>1
    <3>3. l # k
      BY <1>4, <2>3, <3>1
    <3> QED BY <3>2, <3>3 DEF AtAnother
  <2> QED BY <2>2, <2>3
<1>8. ASSUME NEW l \in 1..n, l # k PROVE \E j \in 1..(n - 1) : us[j] = ps[l]
  <2>1. CASE l < k
    BY <1>4, <2>1, <1>5
  <2>2. CASE ~(l < k)
    <3>1. PICK j \in 1..(n - 1) : j = l - 1
      BY <1>4, <1>8, <2>2
    <3>2. ~(j < k) /\ j + 1 = l
      BY <1>4, <1>8, <2>2, <3>1
    <3> QED BY <1>5, <3>2
  <2> QED BY <2>1, <2>2
<1>9. ASSUME NEW j \in 1..(n - 1), NEW l \in 1..(n - 1), j < l PROVE us[j] < us[l]
  <2>1. PICK a \in 1..n : us[j] = ps[a] /\ a = IF j < k THEN j ELSE j + 1
    BY <1>5, <1>6
  <2>2. PICK b \in 1..n : us[l] = ps[b] /\ b = IF l < k THEN l ELSE l + 1
    BY <1>5, <1>6
  <2>3. a < b
    BY <1>4, <1>9, <2>1, <2>2
  <2> QED BY <1>1, <1>2, <1>3, <2>1, <2>2, <2>3 DEF PendingOk
<1>10. \A l \in 1..n : l # k => In(ps[l], us)
  BY <1>5, <1>8 DEF In
<1> QED BY <1>2, <1>3, <1>5, <1>7, <1>9, <1>10

(* on_tool_outcome: the oldest pending block of the name takes the result,  *)
(* or a block is made on the spot.                                          *)
LEMMA ObservedIs ==
  ASSUME NEW v, ViewOk(v), NEW m, m.name \in ToolNames, m.result \in Nat,
         NEW w, w = Shows!Observed(v, m)
  PROVE  /\ ViewOk(w) /\ w.reply = v.reply /\ w.buf = v.buf
         /\ \/ Shows!PendingOf(v, m.name) = {} /\ MadeOnTheSpot(v, m, w)
            \/ \E k, i : TakenBy(v, m, w, k, i)
<1>1. v \in Views /\ EntriesOk(v) /\ PendingOk(v)
  BY DEF ViewOk
<1>2. CASE Shows!PendingOf(v, m.name) = {}
  <2>1. PICK e \in Entries : /\ e = Shows!Block(0, m.name) /\ e.kind = "block" /\ e.id = 0
                             /\ e.name = m.name /\ e.result = 0
    <3>1. PICK e : e = Shows!Block(0, m.name)
      OBVIOUS
    <3>2. e \in Entries /\ e.kind = "block" /\ e.id = 0 /\ e.name = m.name /\ e.result = 0
      BY <3>1 DEF Shows!Block, Shows!Entry, Shows!NoId, Entries, Kinds
    <3> QED BY <3>1, <3>2
  <2>2. PICK g : g = Shows!WithEntry(v, e, FALSE)
    OBVIOUS
  <2>3. Reserves(v, e, g)
    BY <2>2 DEF Reserves
  <2>4. ViewOk(g) /\ g.next = v.next + 1 /\ g.reply = v.reply /\ g.pending = v.pending /\ g.buf = v.buf
    BY <1>1, <2>1, <2>3, WithEntryIs, WithEntryOk
  <2>5. g.log = v.log
    BY <1>1, <2>2 DEF Shows!WithEntry, Views
  <2>6. PICK x \in Entries : SameBut(x, e, v.next) /\ g.entries = Append(v.entries, x)
    BY <1>1, <2>1, <2>3, WithEntryIs
  <2>7. PICK n \in Nat : n = Len(v.entries) /\ DOMAIN v.entries = 1..n
    BY <1>1, ViewFields
  <2>8. /\ g.entries \in Seq(Entries) /\ Len(g.entries) = n + 1 /\ g.entries[n + 1] = x
        /\ \A l \in 1..n : g.entries[l] = v.entries[l]
    BY <1>1, <2>6, <2>7, ViewFields, AppendProperties
  <2>9. PICK i : i = n + 1
    OBVIOUS
  <2>10. i \in DOMAIN g.entries /\ Len(g.entries) = i
    BY <2>8, <2>9, LenProperties
  <2>11. w = Shows!Completed(g, i, m.result)
    BY <1>2, <2>1, <2>2, <2>10 DEF Shows!Observed, Shows!NoId
  <2>12. /\ ViewOk(w) /\ w.reply = g.reply /\ w.buf = g.buf /\ w.pending = g.pending
         /\ w.next = g.next /\ w.log = Append(g.log, <<"entry", g.entries[i].uid>>)
         /\ Completes(g.entries, i, m.result, w.entries)
    BY <2>4, <2>10, <2>11, CompletedIs
  <2>13. PICK y : y = w.entries[i]
    OBVIOUS
  <2>14. /\ y \in Entries /\ y.kind = "block" /\ y.id = 0 /\ y.name = m.name
         /\ y.result = m.result /\ y.uid = v.next
    BY <2>7, <2>9, <2>10, <2>12, <2>13, ElementOfSeq, <2>1, <2>6, <2>8 DEF Completes, SameBut
  <2>15. w.entries = Append(v.entries, y)
    <3>1. PICK t \in Seq(Entries) : t = Append(v.entries, y)
      BY <1>1, <2>14, ViewFields, AppendProperties
    <3>2. Len(t) = n + 1 /\ t[n + 1] = y /\ \A l \in 1..n : t[l] = v.entries[l]
      BY <1>1, <2>7, <2>14, <3>1, ViewFields, AppendProperties
    <3>3. w.entries \in Seq(Entries) /\ Len(w.entries) = n + 1
      BY <2>8, <2>12 DEF Completes
    <3>4. \A l \in 1..(n + 1) : w.entries[l] = t[l]
      <4>1. TAKE l \in 1..(n + 1)
      <4>2. CASE l = n + 1
        BY <2>9, <2>13, <3>2, <4>2
      <4>3. CASE l # n + 1
        <5>1. l \in 1..n /\ l # i /\ l \in DOMAIN g.entries
          BY <2>8, <2>9, <4>3, LenProperties
        <5> QED BY <2>8, <2>12, <3>2, <5>1 DEF Completes
      <4> QED BY <4>2, <4>3
    <3> QED BY <3>1, <3>2, <3>3, <3>4, SeqEqual
  <2>16. g.entries[i].uid = v.next
    BY <2>6, <2>8, <2>9 DEF SameBut
  <2>17. MadeOnTheSpot(v, m, w)
    BY <2>4, <2>5, <2>12, <2>14, <2>15, <2>16 DEF MadeOnTheSpot
  <2> QED BY <1>2, <2>4, <2>12, <2>17
<1>3. CASE Shows!PendingOf(v, m.name) # {}
  <2>1. PICK k : k = Shows!OldestOf(v, m.name)
    OBVIOUS
  <2>2. k \in DOMAIN v.pending /\ Shows!NameOf(v, v.pending[k]) = m.name
    BY <1>3, <2>1, OldestIs DEF Shows!PendingOf
  <2>3. PICK i : i = Shows!Place(v, v.pending[k])
    OBVIOUS
  <2>4. /\ i \in DOMAIN v.entries /\ v.entries[i].uid = v.pending[k]
        /\ v.entries[i].kind = "block" /\ v.entries[i].name = m.name
    BY <2>2, <2>3, PendingEntry DEF Shows!NameOf
  <2>5. ASSUME NEW j \in DOMAIN v.pending, NEW l \in DOMAIN v.entries,
               v.entries[l].uid = v.pending[j], v.entries[l].name = m.name
        PROVE  k <= j
    BY <2>5, PendingEntry, <1>3, <2>1, OldestIs DEF Shows!PendingOf, Shows!NameOf
  <2>6. PICK g : g = Shows!Completed(v, i, m.result)
    OBVIOUS
  <2>7. /\ ViewOk(g) /\ g.reply = v.reply /\ g.buf = v.buf /\ g.pending = v.pending
        /\ g.next = v.next /\ g.log = Append(v.log, <<"entry", v.entries[i].uid>>)
        /\ Completes(v.entries, i, m.result, g.entries)
        /\ \A u, q : Has(v.entries, u, q) => Has(g.entries, u, q)
    <3>1. PICK r \in Nat : r = m.result
      OBVIOUS
    <3>2. g = Shows!Completed(v, i, r)
      BY <2>6, <3>1
    <3>3. /\ ViewOk(g) /\ g.reply = v.reply /\ g.buf = v.buf /\ g.pending = v.pending
          /\ g.next = v.next /\ g.log = Append(v.log, <<"entry", v.entries[i].uid>>)
          /\ Completes(v.entries, i, r, g.entries)
      BY <2>4, <3>2, CompletedIs
    <3>4. \A u, q : Has(v.entries, u, q) => Has(g.entries, u, q)
      BY <2>4, <3>2, CompletedIs
    <3> QED BY <3>1, <3>3, <3>4
  <2>8. PICK us : us = Shows!RemoveAt(v.pending, k)
    OBVIOUS
  <2>9. /\ us \in Seq(Nat)
        /\ \A j \in DOMAIN us : AtAnother(us[j], v.pending, k)
        /\ \A j, l \in DOMAIN us : j < l => us[j] < us[l]
    <3>1. PICK q \in DOMAIN v.pending : q = k
      BY <2>2
    <3>2. us = Shows!RemoveAt(v.pending, q)
      BY <2>8, <3>1
    <3> QED BY <3>1, <3>2, PendingRemoved
  <2>10. w = [g EXCEPT !.pending = us]
    BY <1>3, <2>1, <2>3, <2>6, <2>8 DEF Shows!Observed
  <2>11. /\ w \in Views /\ w.pending = us /\ w.entries = g.entries /\ w.log = g.log
         /\ w.reply = g.reply /\ w.buf = g.buf /\ w.next = g.next
    BY <2>7, <2>9, <2>10 DEF Views, ViewOk
  <2>12. EntriesOk(w)
    BY <2>7, <2>11 DEF ViewOk, EntriesOk
  <2>13. PendingOk(w)
    BY <1>1, <2>7, <2>9, <2>11 DEF PendingOk, AtAnother
  <2>14. TakenBy(v, m, w, k, i)
    BY <2>2, <2>4, <2>5, <2>7, <2>8, <2>11 DEF TakenBy
  <2> QED BY <2>7, <2>11, <2>12, <2>13, <2>14 DEF ViewOk
<1> QED BY <1>2, <1>3

(* The fields of a message.                                                 *)
LEMMA MsgFields ==
  ASSUME NEW m \in Msgs
  PROVE  /\ m.role \in {"user", "assistant", "tool"} /\ m.pieces \in Seq(Shows!Piece)
         /\ m.calls \in Seq(Shows!Call) /\ m.id \in Nat /\ m.name \in ToolNames
         /\ Len(m.calls) \in Nat /\ DOMAIN m.calls = 1..Len(m.calls)
         /\ \A i \in DOMAIN m.calls :
              /\ m.calls[i] \in Shows!Call /\ m.calls[i].id \in Nat \ {0} /\ m.calls[i].id \in 1..MaxParts
              /\ m.calls[i].name \in Names /\ m.calls[i].name \in ToolNames
<1>1. /\ m.role \in {"user", "assistant", "tool"} /\ m.pieces \in Seq(Shows!Piece)
      /\ m.calls \in Seq(Shows!Call) /\ m.id \in Nat /\ m.name \in ToolNames
  BY DEF Msgs
<1>2. /\ Len(m.calls) \in Nat /\ DOMAIN m.calls = 1..Len(m.calls)
      /\ \A i \in DOMAIN m.calls : m.calls[i] \in Shows!Call
  BY <1>1, LenProperties, ElementOfSeq
<1>3. \A c \in Shows!Call : /\ c.id \in Nat \ {0} /\ c.id \in 1..MaxParts
                            /\ c.name \in Names /\ c.name \in ToolNames
  BY ShowsAssumption DEF Shows!Call, ToolNames
<1> QED BY <1>1, <1>2, <1>3

(* A block is of its call, and has the call's result.                       *)
LEMMA BlockOfIs ==
  ASSUME NEW c \in Shows!Call
  PROVE  /\ BlockOf(c) \in Entries /\ BlockOf(c).kind = "block" /\ BlockOf(c).id = c.id
         /\ BlockOf(c).result = ResultNow(c.id)
<1>1. c.id \in Nat /\ c.name \in ToolNames
  BY ShowsAssumption DEF Shows!Call, ToolNames
<1>2. PICK r \in Nat : r = ResultNow(c.id)
  BY <1>1 DEF ResultNow
<1>3. PICK e \in Entries : e = Shows!Block(c.id, c.name) /\ e.kind = "block" /\ e.id = c.id
  BY <1>1, NewEntries
<1>4. BlockOf(c) = [e EXCEPT !.result = r]
  BY <1>2, <1>3 DEF BlockOf
<1> QED BY <1>2, <1>3, <1>4 DEF Entries

(* They are entries.                                                        *)
LEMMA BlocksOfAre ==
  ASSUME NEW cs \in Seq(Shows!Call)
  PROVE  /\ BlocksOf(cs) \in Seq(Entries) /\ Len(BlocksOf(cs)) = Len(cs)
         /\ \A i \in 1..Len(cs) : BlocksOf(cs)[i] = BlockOf(cs[i])
<1>1. PICK n \in Nat : n = Len(cs) /\ DOMAIN cs = 1..n /\ \A i \in 1..n : cs[i] \in Shows!Call
  BY LenProperties, ElementOfSeq
<1>2. \A i \in 1..n : BlockOf(cs[i]) \in Entries
  BY <1>1, BlockOfIs
<1>3. PICK s : s = [i \in 1..n |-> BlockOf(cs[i])]
  OBVIOUS
<1>4. s \in Seq(Entries) /\ Len(s) = n /\ \A i \in 1..n : s[i] = BlockOf(cs[i])
  BY <1>2, <1>3
<1> QED BY <1>1, <1>3, <1>4 DEF BlocksOf

(* A message becomes the entries of its role.                               *)
LEMMA RebuiltIs ==
  ASSUME NEW m \in Msgs
  PROVE  /\ m.role = "user" =>
              /\ Rebuilds[m] = <<Shows!Entry("user", <<>>, Shows!NoId, "none", Shows!NoId)>>
              /\ Rebuilds[m] \in Seq(Entries)
         /\ m.role = "tool" => Rebuilds[m] = <<>> /\ Rebuilds[m] \in Seq(Entries)
         /\ m.role = "assistant" =>
              \E r \in Seq(Entries) :
                /\ r = IF Shows!Blank(m.pieces) THEN <<>> ELSE <<ReplyFor(m)>>
                /\ Rebuilds[m] = Cat(r, BlocksOf(m.calls)) /\ Rebuilds[m] \in Seq(Entries)
<1>1. CASE m.role = "user"
  <2>1. Rebuilds[m] = <<Shows!Entry("user", <<>>, Shows!NoId, "none", Shows!NoId)>>
    BY <1>1 DEF Rebuilds, Shows!Rebuilt
  <2>2. PICK e \in Entries : e = Shows!Entry("user", <<>>, Shows!NoId, "none", Shows!NoId)
    BY NewEntries
  <2>3. <<e>> \in Seq(Entries)
    OBVIOUS
  <2> QED BY <1>1, <2>1, <2>2, <2>3
<1>2. CASE m.role = "tool"
  BY <1>2 DEF Rebuilds, Shows!Rebuilt
<1>3. CASE m.role = "assistant"
  <2>1. PICK r : r = IF Shows!Blank(m.pieces) THEN <<>> ELSE <<ReplyFor(m)>>
    OBVIOUS
  <2>2. r \in Seq(Entries)
    <3>1. PICK e : e = ReplyFor(m)
      OBVIOUS
    <3>2. e \in Entries
      BY <3>1, MsgFields DEF ReplyFor, Shows!Entry, Shows!NoId, Entries, Kinds, ToolNames
    <3>3. <<e>> \in Seq(Entries) /\ <<>> \in Seq(Entries)
      BY <3>2
    <3> QED BY <2>1, <3>1, <3>3
  <2>3. PICK cs \in Seq(Shows!Call) : cs = m.calls
    BY MsgFields
  <2>4. PICK b \in Seq(Entries) : b = BlocksOf(cs)
    BY BlocksOfAre
  <2>5. Rebuilds[m] = r \o b
    BY <1>3, <2>1, <2>3, <2>4 DEF Rebuilds, Shows!Rebuilt, ReplyFor, BlocksOf, BlockOf, ResultNow, Shows!NoId
  <2>6. Cat(r, b) \in Seq(Entries)
    BY <2>2, CatProperties
  <2> QED BY <1>3, <2>1, <2>2, <2>3, <2>4, <2>5, <2>6 DEF Cat
<1> QED BY <1>1, <1>2, <1>3, MsgFields

(* Each message makes entries.                                              *)
LEMMA RebuildsMakes == Makes(Rebuilds, Msgs, Entries)
BY RebuiltIs, MsgFields DEF Rebuilds, Makes

(* The entries of the conversation.                                         *)
LEMMA EntriesForIs ==
  ASSUME messages \in Seq(Msgs)
  PROVE  Shows!EntriesFor = FlatMap(Rebuilds, messages) /\ Shows!EntriesFor \in Seq(Entries)
<1>1. \A i \in DOMAIN messages : messages[i] \in Msgs
  BY LenProperties, ElementOfSeq
<1>2. [i \in DOMAIN messages |-> Shows!Rebuilt(messages[i])] = [i \in DOMAIN messages |-> Rebuilds[messages[i]]]
  BY <1>1 DEF Rebuilds
<1>3. Shows!EntriesFor = FlatMap(Rebuilds, messages)
  BY <1>2 DEF Shows!EntriesFor, FlatMap
<1> QED BY <1>3, RebuildsMakes, FlatMapType

(* A view of no conversation.                                               *)
LEMMA EmptyOk ==
  /\ ViewOk(Shows!Empty)
  /\ Shows!Empty.reply = 0 /\ Shows!Empty.pending = <<>> /\ Shows!Empty.buf = <<>>
  /\ Shows!Empty.log = <<<<"entry", 1>>>>
  /\ \E x \in Entries : x.kind = "note" /\ x.uid = 1 /\ Shows!Empty.entries = <<x>>
<1>1. PICK x : x = [Shows!Note EXCEPT !.uid = 1]
  OBVIOUS
<1>2. x \in Entries /\ x.kind = "note" /\ x.uid = 1
  BY <1>1, NewEntries DEF Entries
<1>3. PICK es \in Seq(Entries) : es = <<x>> /\ DOMAIN es = 1..1 /\ es[1] = x
  <2>1. PICK es : es = <<x>>
    OBVIOUS
  <2>2. es \in Seq(Entries) /\ Len(es) = 1 /\ es[1] = x
    BY <1>2, <2>1
  <2> QED BY <2>1, <2>2, LenProperties
<1>4. PICK l \in Seq(Marks) : l = <<<<"entry", 1>>>>
  BY MarksAre
<1>5. Shows!Empty = [entries |-> es, log |-> l, reply |-> 0, pending |-> <<>>, buf |-> <<>>, next |-> 2]
  BY <1>1, <1>3, <1>4 DEF Shows!Empty
<1>6. Shows!Empty \in Views
  BY <1>5 DEF Views
<1>7. EntriesOk(Shows!Empty)
  BY <1>2, <1>3, <1>5 DEF EntriesOk, UidsRise
<1>8. PendingOk(Shows!Empty)
  BY <1>5 DEF PendingOk
<1> QED BY <1>2, <1>3, <1>4, <1>5, <1>6, <1>7, <1>8 DEF ViewOk

(* A loaded view shows its entries, with nothing streamed and nothing       *)
(* pending.                                                                 *)
LEMMA LoadedIs ==
  ASSUME NEW all \in Seq(Entries), NEW w, w = Loaded(all)
  PROVE  /\ ViewOk(w) /\ w.reply = 0 /\ w.pending = <<>> /\ w.buf = <<>>
         /\ w.log = Shows!RenderBut(w.entries, <<>>)
         /\ Len(w.entries) = Len(all)
         /\ \A i \in 1..Len(all) : SameBut(w.entries[i], all[i], i)
<1>1. PICK n \in Nat : n = Len(all) /\ DOMAIN all = 1..n /\ \A i \in 1..n : all[i] \in Entries
  BY LenProperties, ElementOfSeq
<1>2. PICK es : es = [i \in 1..n |-> [all[i] EXCEPT !.uid = i]]
  OBVIOUS
<1>3. \A i \in 1..n : es[i] \in Entries /\ SameBut(es[i], all[i], i)
  <2>1. TAKE i \in 1..n
  <2>2. PICK e \in Entries : e = all[i]
    BY <1>1
  <2>3. PICK x : x = [e EXCEPT !.uid = i]
    OBVIOUS
  <2>4. x \in Entries /\ SameBut(x, e, i)
    <3>1. PICK u \in Nat : u = i
      OBVIOUS
    <3>2. x = [e EXCEPT !.uid = u]
      BY <2>3, <3>1
    <3>3. x \in Entries /\ SameBut(x, e, u)
      BY <3>2 DEF Entries, SameBut
    <3> QED BY <3>1, <3>3
  <2> QED BY <1>2, <2>2, <2>3, <2>4
<1>4. es \in Seq(Entries) /\ Len(es) = n /\ DOMAIN es = 1..n
  BY <1>2, <1>3
<1>5. PICK v : v = [Shows!Empty EXCEPT !.entries = es, !.next = n + 1]
  OBVIOUS
<1>6. Shows!Empty \in Views
  BY EmptyOk DEF ViewOk
<1>7. v \in Views
  <2>1. PICK k \in Nat : k = n + 1
    OBVIOUS
  <2> QED BY <1>4, <1>5, <1>6, <2>1 DEF Views
<1>8. /\ v.entries = es /\ v.next = n + 1 /\ v.reply = 0 /\ v.pending = <<>> /\ v.buf = <<>>
  BY <1>5, <1>6, EmptyOk DEF Views
<1>9. w = Shows!Rerendered(v)
  BY <1>1, <1>2, <1>4, <1>5 DEF Loaded
<1>10. /\ w \in Views /\ w.log = Shows!RenderBut(v.entries, v.pending) /\ w.entries = v.entries
       /\ w.reply = v.reply /\ w.pending = v.pending /\ w.next = v.next /\ w.buf = v.buf
  BY <1>7, <1>9, RerenderedIs
<1>11. EntriesOk(w)
  BY <1>3, <1>4, <1>8, <1>10 DEF EntriesOk, UidsRise, SameBut
<1>12. PendingOk(w)
  BY <1>8, <1>10 DEF PendingOk
<1> QED BY <1>1, <1>3, <1>4, <1>8, <1>10, <1>11, <1>12 DEF ViewOk

(* What is posted.                                                          *)
LEMMA PostIs ==
  ASSUME NEW kind \in {"delta", "announce", "outcome", "notice", "done"},
         NEW p \in Shows!Piece, NEW id \in Nat, NEW name \in ToolNames, NEW r \in Nat
  PROVE  /\ Shows!Post(kind, p, id, name, r) \in PostTypes
         /\ Shows!Post(kind, p, id, name, r).kind = kind
         /\ Shows!Post(kind, p, id, name, r).piece = p
         /\ Shows!Post(kind, p, id, name, r).id = id
         /\ Shows!Post(kind, p, id, name, r).name = name
         /\ Shows!Post(kind, p, id, name, r).result = r
BY DEF Shows!Post, PostTypes

(* The pieces that are known.                                               *)
LEMMA PiecesAre ==
  /\ Shows!NoPiece \in Shows!Piece /\ <<>> \in Seq(Shows!Piece) /\ <<>> \in Seq(Shows!Call)
  /\ "none" \in ToolNames /\ Shows!NoId \in Nat
BY ShowsAssumption DEF Shows!NoPiece, Shows!Piece, ToolNames, Shows!NoId

(* A queue with one message more.                                           *)
LEMMA OnePosted ==
  ASSUME NEW T, NEW s \in Seq(T), NEW x \in T, NEW t, t = s \o <<x>>
  PROVE  t = Append(s, x) /\ t \in Seq(T)
BY AppendIsConcat, AppendProperties

(* A batch is one call or two, numbered from the first that is free.        *)
LEMMA BatchesAre ==
  ASSUME made \in Nat, NEW cs \in Shows!Batches, made + Len(cs) <= MaxParts
  PROVE  cs \in Seq(Shows!Call) /\ Len(cs) \in {1, 2} /\ Numbered(cs, made)
<1>1. CASE \E a \in Names, x \in BOOLEAN : cs = <<[id |-> made + 1, name |-> a, arrow |-> x]>>
  <2>1. PICK a \in Names, x \in BOOLEAN : cs = <<[id |-> made + 1, name |-> a, arrow |-> x]>>
    BY <1>1
  <2>2. PICK c : c = [id |-> made + 1, name |-> a, arrow |-> x]
    OBVIOUS
  <2>3. cs = <<c>> /\ Len(cs) = 1 /\ cs[1] = c /\ DOMAIN cs = 1..1
    BY <2>1, <2>2
  <2>4. made + 1 \in 1..MaxParts
    BY <2>3, ShowsAssumption
  <2>5. c \in Shows!Call /\ c.id = made + 1
    BY <2>2, <2>4 DEF Shows!Call
  <2>6. cs \in Seq(Shows!Call)
    BY <2>3, <2>5
  <2> QED BY <2>3, <2>5, <2>6 DEF Numbered
<1>2. CASE \E a \in Names, b \in Names, x \in BOOLEAN, y \in BOOLEAN :
             cs = <<[id |-> made + 1, name |-> a, arrow |-> x], [id |-> made + 2, name |-> b, arrow |-> y]>>
  <2>1. PICK a \in Names, b \in Names, x \in BOOLEAN, y \in BOOLEAN :
          cs = <<[id |-> made + 1, name |-> a, arrow |-> x], [id |-> made + 2, name |-> b, arrow |-> y]>>
    BY <1>2
  <2>2. PICK c, d : /\ c = [id |-> made + 1, name |-> a, arrow |-> x]
                    /\ d = [id |-> made + 2, name |-> b, arrow |-> y]
    OBVIOUS
  <2>3. cs = <<c, d>> /\ Len(cs) = 2 /\ cs[1] = c /\ cs[2] = d /\ DOMAIN cs = 1..2
    BY <2>1, <2>2
  <2>4. made + 1 \in 1..MaxParts /\ made + 2 \in 1..MaxParts
    BY <2>3, ShowsAssumption
  <2>5. c \in Shows!Call /\ c.id = made + 1 /\ d \in Shows!Call /\ d.id = made + 2
    BY <2>2, <2>4 DEF Shows!Call
  <2>6. cs \in Seq(Shows!Call)
    BY <2>3, <2>5
  <2> QED BY <2>3, <2>5, <2>6 DEF Numbered
<1> QED BY <1>1, <1>2 DEF Shows!Batches

(* The line that announces a call, once the call it is matched with is      *)
(* known.                                                                   *)
LEMMA LineOfCall ==
  ASSUME NEW cs \in Seq(Shows!Call), NEW i \in DOMAIN cs, NEW c \in Shows!Call, NEW q,
         IF cs[i].arrow THEN q = Shows!Post("delta", Shows!NoPiece, Shows!NoId, "none", Shows!NoId)
         ELSE q = Shows!Post("announce", Shows!NoPiece, c.id, c.name, Shows!NoId),
         c = cs[i] \/ \E j \in DOMAIN cs : cs[j].arrow
  PROVE  Announces(cs, i, q)
<1>1. c.id \in Nat /\ c.name \in ToolNames
  BY ShowsAssumption DEF Shows!Call, ToolNames
<1>2. CASE cs[i].arrow
  BY <1>2, PostIs, PiecesAre DEF Announces
<1>3. CASE ~cs[i].arrow
  <2>1. PICK n \in Nat, a \in ToolNames : n = c.id /\ a = c.name
    BY <1>1
  <2>2. q = Shows!Post("announce", Shows!NoPiece, n, a, Shows!NoId)
    BY <1>3, <2>1
  <2>3. q \in PostTypes /\ q.kind = "announce" /\ q.id = n /\ q.name = a
    BY <2>2, PostIs, PiecesAre
  <2>4. q \in PostTypes /\ q.kind = "announce" /\ q.id = c.id /\ q.name = c.name
    BY <2>1, <2>3
  <2> QED BY <1>3, <2>4 DEF Announces
<1> QED BY <1>2, <1>3

(* So does each line of a batch.                                            *)
LEMMA AnnounceLineIs ==
  ASSUME NEW cs \in Seq(Shows!Call), Len(cs) \in {1, 2}, NEW i \in 1..Len(cs)
  PROVE  Announces(cs, i, Shows!AnnounceLine(cs, i))
<1>1. DOMAIN cs = 1..Len(cs) /\ \A j \in 1..Len(cs) : cs[j] \in Shows!Call
  BY LenProperties, ElementOfSeq
<1>2. \A c \in Shows!Call : c.id \in Nat /\ c.name \in ToolNames
  BY ShowsAssumption DEF Shows!Call, ToolNames
<1>3. i \in {1, 2} /\ 1 \in DOMAIN cs
  BY <1>1
<1>4. PICK j : j = Shows!Since(cs, i)
  OBVIOUS
<1>5. CASE i = 1
  <2>1. j = 1
    BY <1>5, <1>4 DEF Shows!Since
  <2>2. PICK c \in Shows!Call : c = cs[i]
    BY <1>1
  <2>3. PICK q : q = Shows!AnnounceLine(cs, i)
    OBVIOUS
  <2>4. IF cs[i].arrow THEN q = Shows!Post("delta", Shows!NoPiece, Shows!NoId, "none", Shows!NoId)
        ELSE q = Shows!Post("announce", Shows!NoPiece, c.id, c.name, Shows!NoId)
    BY <1>4, <1>5, <2>1, <2>2, <2>3 DEF Shows!AnnounceLine
  <2> QED BY <1>1, <2>2, <2>3, <2>4, LineOfCall
<1>6. CASE i = 2
  <2>1. 2 \in DOMAIN cs /\ i - 1 = 1
    BY <1>1, <1>6
  <2>2. CASE cs[1].arrow
    <3>1. {k \in 1..(i - 1) : cs[k].arrow} = {1}
      BY <1>6, <2>2
    <3>2. (CHOOSE k \in {1} : \A l \in {1} : l <= k) = 1
      OBVIOUS
    <3>3. j = 1
      BY <1>4, <1>6, <3>1, <3>2 DEF Shows!Since
    <3>4. PICK c : c = IF cs[1].name = cs[2].name THEN cs[1] ELSE Shows!ByName(cs, cs[2].name)
      OBVIOUS
    <3>5. c \in Shows!Call
      <4>1. CASE cs[1].name = cs[2].name
        BY <1>1, <1>3, <3>4, <4>1
      <4>2. CASE cs[1].name # cs[2].name
        <5>1. PICK n : n = cs[2].name
          OBVIOUS
        <5>2. /\ 2 \in DOMAIN cs /\ cs[2].name = n
              /\ \A l \in 1..(2 - 1) : cs[l].name # n
          BY <2>1, <4>2, <5>1
        <5>3. PICK k : k = CHOOSE first \in DOMAIN cs : cs[first].name = n /\ \A l \in 1..(first - 1) : cs[l].name # n
          OBVIOUS
        <5>4. k \in DOMAIN cs
          BY <5>2, <5>3
        <5>5. Shows!ByName(cs, n) = cs[k]
          BY <5>3 DEF Shows!ByName
        <5> QED BY <1>1, <3>4, <4>2, <5>1, <5>4, <5>5
      <4> QED BY <4>1, <4>2
    <3>6. Shows!AnnounceLine(cs, i) =
            IF cs[i].arrow THEN Shows!Post("delta", Shows!NoPiece, Shows!NoId, "none", Shows!NoId)
            ELSE Shows!Post("announce", Shows!NoPiece, c.id, c.name, Shows!NoId)
      BY <1>4, <1>6, <3>3, <3>4 DEF Shows!AnnounceLine
    <3>7. PICK q : q = Shows!AnnounceLine(cs, i)
      OBVIOUS
    <3> QED BY <1>1, <1>3, <2>2, <3>5, <3>6, <3>7, LineOfCall
  <2>3. CASE ~cs[1].arrow
    <3>1. {k \in 1..(i - 1) : cs[k].arrow} = {}
      BY <1>6, <2>3
    <3>2. j = i
      BY <1>4, <3>1 DEF Shows!Since
    <3>3. PICK c \in Shows!Call : c = cs[i]
      BY <1>1
    <3>4. PICK q : q = Shows!AnnounceLine(cs, i)
      OBVIOUS
    <3>5. IF cs[i].arrow THEN q = Shows!Post("delta", Shows!NoPiece, Shows!NoId, "none", Shows!NoId)
          ELSE q = Shows!Post("announce", Shows!NoPiece, c.id, c.name, Shows!NoId)
      BY <1>4, <3>2, <3>3, <3>4 DEF Shows!AnnounceLine
    <3> QED BY <1>1, <3>3, <3>4, <3>5, LineOfCall
  <2> QED BY <2>2, <2>3
<1> QED BY <1>3, <1>5, <1>6

(* What the steps add are such messages.                                    *)
LEMMA MsgsAre ==
  /\ UserMsg(Shows!Msg("user", <<>>, <<>>, Shows!NoId, "none"))
  /\ \A p \in Seq(Shows!Piece), cs \in Seq(Shows!Call) :
       ModelMsg(Shows!Msg("assistant", p, cs, Shows!NoId, "none"), p, cs)
  /\ \A c \in Shows!Call : ToolMsg(Shows!Msg("tool", <<>>, <<>>, c.id, c.name), c)
<1>1. UserMsg(Shows!Msg("user", <<>>, <<>>, Shows!NoId, "none"))
  <2>1. PICK m : m = Shows!Msg("user", <<>>, <<>>, Shows!NoId, "none")
    OBVIOUS
  <2>2. m \in Msgs /\ m.role = "user" /\ m.pieces = <<>> /\ m.calls = <<>> /\ m.id = 0
    BY <2>1, PiecesAre DEF Shows!Msg, Msgs, Shows!NoId
  <2> QED BY <2>1, <2>2 DEF UserMsg
<1>2. ASSUME NEW p \in Seq(Shows!Piece), NEW cs \in Seq(Shows!Call)
      PROVE  ModelMsg(Shows!Msg("assistant", p, cs, Shows!NoId, "none"), p, cs)
  <2>1. PICK m : m = Shows!Msg("assistant", p, cs, Shows!NoId, "none")
    OBVIOUS
  <2>2. m \in Msgs /\ m.role = "assistant" /\ m.pieces = p /\ m.calls = cs /\ m.id = 0
    BY <2>1, PiecesAre DEF Shows!Msg, Msgs, Shows!NoId
  <2> QED BY <2>1, <2>2 DEF ModelMsg
<1>3. ASSUME NEW c \in Shows!Call
      PROVE  ToolMsg(Shows!Msg("tool", <<>>, <<>>, c.id, c.name), c)
  <2>1. PICK m : m = Shows!Msg("tool", <<>>, <<>>, c.id, c.name)
    OBVIOUS
  <2>2. c.id \in Nat /\ c.name \in ToolNames
    BY ShowsAssumption DEF Shows!Call, ToolNames
  <2>3. /\ m \in Msgs /\ m.role = "tool" /\ m.pieces = <<>> /\ m.calls = <<>>
        /\ m.id = c.id /\ m.name = c.name
    BY <2>1, <2>2, PiecesAre DEF Shows!Msg, Msgs
  <2> QED BY <2>1, <2>3 DEF ToolMsg
<1> QED BY <1>1, <1>2, <1>3

(* The line of the user is echoed: it is in the conversation and the log.   *)
LEMMA SubmitStep ==
  ASSUME TypesInv, Shows!Submit
  PROVE  /\ stage = "idle" /\ posted = <<>> /\ stage' = "stream" /\ partial' = <<>>
         /\ \E m : UserMsg(m) /\ messages' = Append(messages, m)
         /\ ViewOk(view')
         /\ (view.buf = <<>> /\ view.reply = 0 /\ view.pending = <<>>) =>
              \E e \in Entries : e.kind = "user" /\ Writes(view, e, view')
         /\ UNCHANGED <<contStart, batch, posted, made, stirred, kept>>
         /\ TypesInv'
<1>1. /\ stage = "idle" /\ posted = <<>> /\ stage' = "stream" /\ partial' = <<>>
      /\ said + made + turns < MaxParts /\ turns' = turns + 1
      /\ UNCHANGED <<contStart, batch, said, made, posted, stirred, kept>>
  BY DEF Shows!Submit, Shows!AtPrompt
<1>2. PICK m : UserMsg(m) /\ m = Shows!Msg("user", <<>>, <<>>, Shows!NoId, "none")
  BY MsgsAre
<1>3. messages' = Append(messages, m)
  BY <1>2 DEF Shows!Submit
<1>4. messages \in Seq(Msgs) /\ m \in Msgs /\ ViewOk(view)
  BY <1>2 DEF TypesInv, UserMsg
<1>5. messages' \in Seq(Msgs) /\ Len(messages') = Len(messages) + 1
  BY <1>3, <1>4, AppendProperties
<1>6. PICK e \in Entries : e = Shows!Entry("user", <<>>, Shows!NoId, "none", Shows!NoId) /\ e.kind = "user"
  BY NewEntries
<1>7. PICK g : g = Shows!WithEntry(view, e, TRUE)
  OBVIOUS
<1>8. Writes(view, e, g) /\ ViewOk(g) /\ g \in Views /\ view \in Views
  BY <1>4, <1>6, <1>7, WithEntryOk DEF Writes, ViewOk
<1>9. view' = [g EXCEPT !.buf = <<>>, !.reply = 0, !.pending = <<>>]
  BY <1>6, <1>7 DEF Shows!Submit
<1>10. <<>> \in Seq(Nat) /\ <<>> \in Seq(Shows!Piece)
  OBVIOUS
<1>11. /\ view' \in Views /\ view'.buf = <<>> /\ view'.reply = 0 /\ view'.pending = <<>>
       /\ view'.entries = g.entries /\ view'.next = g.next
  BY <1>8, <1>9, <1>10 DEF Views
<1>12. ViewOk(view')
  BY <1>8, <1>11 DEF ViewOk, EntriesOk, PendingOk
<1>13. (view.buf = <<>> /\ view.reply = 0 /\ view.pending = <<>>) => view' = g
  <2>1. SUFFICES ASSUME view.buf = <<>> /\ view.reply = 0 /\ view.pending = <<>> PROVE view' = g
    OBVIOUS
  <2>2. g.buf = <<>> /\ g.reply = 0 /\ g.pending = <<>>
    BY <1>6, <1>8, <2>1, WithEntryIs
  <2> QED BY <1>8, <1>9, <2>2 DEF Views
<1>14. TypesInv'
  BY <1>1, <1>5, <1>10, <1>12, ShowsAssumption DEF TypesInv
<1> QED BY <1>1, <1>2, <1>3, <1>6, <1>8, <1>12, <1>13, <1>14

(* The model says a piece.                                                  *)
LEMMA SayStep ==
  ASSUME TypesInv, NEW sort \in {"blank", "plain", "marked"}, Shows!Say(sort)
  PROVE  /\ stage = "stream"
         /\ \E p, q : /\ p \in Shows!Piece /\ Posted(q, "delta") /\ q.piece = p
                      /\ partial' = Append(partial, p) /\ posted' = Append(posted, q)
         /\ UNCHANGED <<messages, stage, contStart, batch, view, made, stirred, kept>>
         /\ TypesInv'
<1>1. /\ stage = "stream" /\ said + made + turns < MaxParts /\ said' = said + 1
      /\ UNCHANGED <<messages, stage, contStart, batch, view, made, turns, stirred, kept>>
  BY DEF Shows!Say, Shows!Posts
<1>2. PICK p : p = [n |-> said + 1, sort |-> sort]
  OBVIOUS
<1>3. p \in Shows!Piece
  BY <1>1, ShowsAssumption, <1>2 DEF TypesInv, Shows!Piece
<1>4. PICK q : q = Shows!Post("delta", p, Shows!NoId, "none", Shows!NoId)
  OBVIOUS
<1>5. Posted(q, "delta") /\ q.piece = p
  BY <1>3, <1>4, PostIs, PiecesAre DEF Posted
<1>6. partial' = Append(partial, p) /\ posted' = posted \o <<q>>
  BY <1>2, <1>4 DEF Shows!Say, Shows!Posts
<1>7. posted' = Append(posted, q) /\ posted' \in Seq(PostTypes)
  BY <1>5, <1>6, OnePosted DEF TypesInv, Posted
<1>8. partial' \in Seq(Shows!Piece)
  BY <1>3, <1>6, AppendProperties DEF TypesInv
<1>9. TypesInv'
  BY <1>1, <1>7, <1>8, ShowsAssumption DEF TypesInv, ViewOk, EntriesOk, PendingOk
<1> QED BY <1>1, <1>3, <1>5, <1>6, <1>7, <1>9

(* The model is asked to continue.                                          *)
LEMMA ContinueStep ==
  ASSUME TypesInv, Shows!Continue
  PROVE  /\ stage = "stream" /\ partial # <<>> /\ partial' = <<>>
         /\ \E a, u, ms, q :
              /\ ms \in Seq(Msgs) /\ ModelMsg(a, partial, <<>>) /\ UserMsg(u) /\ Posted(q, "notice")
              /\ ms = Append(messages, a) /\ messages' = Append(ms, u)
              /\ posted' = Append(posted, q)
         /\ contStart' = IF contStart = 0 THEN Len(messages) + 1 ELSE contStart
         /\ UNCHANGED <<stage, batch, view, made, stirred, kept>>
         /\ TypesInv'
<1>1. /\ stage = "stream" /\ partial # <<>> /\ partial' = <<>>
      /\ contStart' = IF contStart = 0 THEN Len(messages) + 1 ELSE contStart
      /\ UNCHANGED <<stage, batch, view, said, made, turns, stirred, kept>>
  BY DEF Shows!Continue, Shows!Posts
<1>2. PICK u : UserMsg(u) /\ u = Shows!Msg("user", <<>>, <<>>, Shows!NoId, "none")
  BY MsgsAre
<1>3. PICK a : ModelMsg(a, partial, <<>>) /\ a = Shows!Msg("assistant", partial, <<>>, Shows!NoId, "none")
  BY MsgsAre, PiecesAre DEF TypesInv
<1>4. messages \in Seq(Msgs) /\ a \in Msgs /\ u \in Msgs /\ posted \in Seq(PostTypes)
  BY <1>2, <1>3 DEF TypesInv, UserMsg, ModelMsg
<1>5. PICK ms : ms = Append(messages, a)
  OBVIOUS
<1>6. messages' = Append(ms, u)
  BY <1>2, <1>3, <1>5 DEF Shows!Continue, Shows!Assistant
<1>7. ms \in Seq(Msgs) /\ Len(ms) = Len(messages) + 1
  BY <1>4, <1>5, AppendProperties
<1>8. messages' \in Seq(Msgs) /\ Len(messages') = Len(ms) + 1
  BY <1>4, <1>6, <1>7, AppendProperties
<1>9. PICK q : q = Shows!Post("notice", Shows!NoPiece, Shows!NoId, "none", Shows!NoId)
  OBVIOUS
<1>10. Posted(q, "notice") /\ q \in PostTypes
  BY <1>9, PostIs, PiecesAre DEF Posted
<1>11. posted' = posted \o <<q>>
  BY <1>9 DEF Shows!Continue, Shows!Posts
<1>12. posted' = Append(posted, q) /\ posted' \in Seq(PostTypes)
  BY <1>4, <1>10, <1>11, OnePosted
<1>13. contStart' \in 0..Len(messages')
  BY <1>4, <1>7, <1>8, LenProperties, <1>1 DEF TypesInv
<1>14. TypesInv'
  BY <1>1, <1>8, <1>12, <1>13, PiecesAre DEF TypesInv, ViewOk, EntriesOk, PendingOk
<1> QED BY <1>1, <1>2, <1>3, <1>5, <1>6, <1>7, <1>10, <1>12, <1>14

(* The text of a message is a sequence of pieces.                           *)
LEMMA PiecesMake == Makes(PiecesOf, Msgs, Shows!Piece)
BY MsgFields DEF PiecesOf, Makes

(* The parts of the conversation, in front of a continued answer and since. *)
LEMMA PartsAre ==
  ASSUME NEW ms \in Seq(Msgs), NEW k \in 1..Len(ms)
  PROVE  /\ SubSeq(ms, 1, k - 1) \in Seq(Msgs) /\ SubSeq(ms, k, Len(ms)) \in Seq(Msgs)
         /\ ms = Cat(SubSeq(ms, 1, k - 1), SubSeq(ms, k, Len(ms)))
         /\ Len(SubSeq(ms, 1, k - 1)) = k - 1 /\ Len(SubSeq(ms, k, Len(ms))) = Len(ms) - k + 1
         /\ \A i \in 1..(k - 1) : SubSeq(ms, 1, k - 1)[i] = ms[i]
         /\ \A i \in 1..(Len(ms) - k + 1) : SubSeq(ms, k, Len(ms))[i] = ms[k + i - 1]
<1>1. PICK n \in Nat : n = Len(ms) /\ \A i \in 1..n : ms[i] \in Msgs
  BY LenProperties, ElementOfSeq
<1>2. k \in 1..n
  BY <1>1
<1>3. PICK j \in Nat : j = k - 1 /\ j + 1 = k /\ j <= n
  BY <1>2
<1>4. PICK b, c : b = SubSeq(ms, 1, j) /\ c = SubSeq(ms, k, n)
  OBVIOUS
<1>5. b \in Seq(Msgs) /\ Len(b) = j /\ \A i \in 1..j : b[i] = ms[i]
  BY <1>1, <1>3, SubSeqProperties, <1>4
<1>6. c \in Seq(Msgs) /\ Len(c) = n - k + 1 /\ \A i \in 1..(n - k + 1) : c[i] = ms[k + i - 1]
  BY <1>1, <1>2, SubSeqProperties, <1>4
<1>7. ms = Cat(b, c)
  <2>1. 1 \in 1..(Len(ms) + 1) /\ j \in (1 - 1)..Len(ms) /\ n \in j..Len(ms)
    BY <1>1, <1>3
  <2>2. SubSeq(ms, 1, j) \o SubSeq(ms, j + 1, n) = SubSeq(ms, 1, n)
    BY <2>1, ConcatAdjacentSubSeq
  <2>3. SubSeq(ms, 1, n) = ms
    BY <1>1, SubSeqFull
  <2> QED BY <1>3, <1>4, <2>2, <2>3 DEF Cat
<1> QED BY <1>1, <1>3, <1>4, <1>5, <1>6, <1>7

(* The step that ends a turn with an answer.                                *)
LEMMA AnswerStep ==
  ASSUME TypesInv, Shows!Answer
  PROVE  /\ stage = "stream" /\ stage' = "idle" /\ contStart' = 0
         /\ \/ \E a : ModelMsg(a, partial, <<>>) /\ messages' = Append(messages, a)
            \/ \E b, c : AnswerParts(b, c)
         /\ \E q : Posted(q, "done") /\ posted' = Append(posted, q)
         /\ UNCHANGED <<partial, batch, view, made, stirred, kept>>
         /\ TypesInv'
<1>1. /\ stage = "stream" /\ stage' = "idle" /\ contStart' = 0
      /\ messages' = Shows!Stitched
      /\ UNCHANGED <<partial, batch, view, said, made, turns, stirred, kept>>
  BY DEF Shows!Answer, Shows!Posts
<1>2. messages \in Seq(Msgs) /\ partial \in Seq(Shows!Piece) /\ posted \in Seq(PostTypes)
  BY DEF TypesInv
<1>3. PICK q : q = Shows!Post("done", Shows!NoPiece, Shows!NoId, "none", Shows!NoId)
  OBVIOUS
<1>4. Posted(q, "done") /\ q \in PostTypes
  BY <1>3, PostIs, PiecesAre DEF Posted
<1>5. posted' = posted \o <<q>>
  BY <1>3 DEF Shows!Answer, Shows!Posts
<1>6. posted' = Append(posted, q) /\ posted' \in Seq(PostTypes)
  BY <1>2, <1>4, <1>5, OnePosted
<1>7. CASE contStart = 0
  <2>1. PICK a : a = Shows!Msg("assistant", partial, <<>>, Shows!NoId, "none")
    OBVIOUS
  <2>2. ModelMsg(a, partial, <<>>) /\ a \in Msgs
    BY <1>2, <2>1, MsgsAre, PiecesAre DEF ModelMsg
  <2>3. messages' = Append(messages, a)
    BY <1>1, <1>7, <2>1 DEF Shows!Stitched, Shows!Assistant
  <2>4. messages' \in Seq(Msgs) /\ Len(messages') \in Nat
    BY <1>2, <2>2, <2>3, AppendProperties, LenProperties
  <2>5. TypesInv'
    BY <1>1, <1>6, <2>4 DEF TypesInv, ViewOk, EntriesOk, PendingOk
  <2> QED BY <1>1, <1>4, <1>6, <2>2, <2>3, <2>5
<1>8. CASE contStart # 0
  <2>1. contStart \in 1..Len(messages)
    BY <1>8, LenProperties DEF TypesInv
  <2>2. PICK b, c : b = SubSeq(messages, 1, contStart - 1) /\ c = SubSeq(messages, contStart, Len(messages))
    OBVIOUS
  <2>3. /\ b \in Seq(Msgs) /\ c \in Seq(Msgs) /\ messages = Cat(b, c)
        /\ Len(b) = contStart - 1 /\ Len(c) = Len(messages) - contStart + 1
        /\ \A i \in 1..Len(c) : c[i] = messages[contStart + i - 1]
    BY <1>2, <2>1, <2>2, PartsAre
  <2>4. Shows!FlattenSeq([i \in DOMAIN c |-> c[i].pieces]) = FlatMap(PiecesOf, c)
    BY <2>3, LenProperties, ElementOfSeq DEF PiecesOf, FlatMap
  <2>5. PICK f \in Seq(Shows!Piece) : f = FlatMap(PiecesOf, c)
    BY <2>3, PiecesMake, FlatMapType
  <2>6. PICK t \in Seq(Shows!Piece) : t = f \o partial
    BY <1>2, CatProperties DEF Cat
  <2>7. PICK a : a = Shows!Msg("assistant", t, <<>>, Shows!NoId, "none")
    OBVIOUS
  <2>8. ModelMsg(a, t, <<>>) /\ a \in Msgs
    BY <2>7, MsgsAre, PiecesAre DEF ModelMsg
  <2>9. messages' = b \o <<a>>
    BY <1>1, <1>8, <2>2, <2>4, <2>5, <2>6, <2>7 DEF Shows!Stitched
  <2>10. messages' = Append(b, a) /\ messages' \in Seq(Msgs)
    BY <2>3, <2>8, <2>9, OnePosted
  <2>11. Len(messages') \in Nat
    BY <2>10, LenProperties
  <2>12. AnswerParts(b, c)
    BY <1>8, <2>3, <2>5, <2>6, <2>8, <2>10 DEF AnswerParts, Cat
  <2>13. TypesInv'
    BY <1>1, <1>6, <2>10, <2>11 DEF TypesInv, ViewOk, EntriesOk, PendingOk
  <2> QED BY <1>1, <1>4, <1>6, <2>12, <2>13
<1> QED BY <1>7, <1>8

(* A batch is begun: the lines that announce its calls are posted.          *)
LEMMA CallToolsStep ==
  ASSUME TypesInv, NEW cs \in Shows!Batches, said + made + turns + Len(cs) <= MaxParts,
         Shows!CallTools(cs)
  PROVE  /\ stage = "stream" /\ stage' = "batch" /\ batch = <<>> /\ batch' = cs /\ partial' = <<>>
         /\ contStart' = 0 /\ made' = made + Len(cs)
         /\ cs \in Seq(Shows!Call) /\ Len(cs) \in {1, 2} /\ Numbered(cs, made)
         /\ \E a : ModelMsg(a, partial, cs) /\ messages' = Append(messages, a)
         /\ \E qs : /\ qs \in Seq(PostTypes) /\ Len(qs) = Len(cs) /\ posted' = Cat(posted, qs)
                    /\ \A i \in 1..Len(cs) : Announces(cs, i, qs[i])
         /\ (kept' => kept /\ \A i \in DOMAIN cs : ~cs[i].arrow)
         /\ UNCHANGED <<view, stirred>>
         /\ TypesInv'
<1>1. /\ stage = "stream" /\ stage' = "batch" /\ batch = <<>> /\ batch' = cs /\ partial' = <<>>
      /\ contStart' = 0 /\ made' = made + Len(cs)
      /\ kept' = (kept /\ \A i \in DOMAIN cs : ~cs[i].arrow)
      /\ UNCHANGED <<view, stirred, said, turns>>
  BY DEF Shows!CallTools, Shows!Posts
<1>2. /\ messages \in Seq(Msgs) /\ partial \in Seq(Shows!Piece) /\ posted \in Seq(PostTypes)
      /\ made \in Nat /\ said \in Nat /\ turns \in Nat
  BY DEF TypesInv
<1>3. PICK n : n = Len(cs)
  OBVIOUS
<1>4. n \in Nat
  <2>1. CASE \E a \in Names, x \in BOOLEAN : cs = <<[id |-> made + 1, name |-> a, arrow |-> x]>>
    BY <1>3, <2>1
  <2>2. CASE \E a \in Names, b \in Names, x \in BOOLEAN, y \in BOOLEAN :
               cs = <<[id |-> made + 1, name |-> a, arrow |-> x], [id |-> made + 2, name |-> b, arrow |-> y]>>
    BY <1>3, <2>2
  <2> QED BY <2>1, <2>2 DEF Shows!Batches
<1>5. cs \in Seq(Shows!Call) /\ Len(cs) \in {1, 2} /\ Numbered(cs, made)
  <2>1. made + Len(cs) <= MaxParts
    BY <1>2, <1>3, <1>4, ShowsAssumption
  <2> QED BY <1>2, <2>1, BatchesAre
<1>6. PICK a : a = Shows!Msg("assistant", partial, cs, Shows!NoId, "none")
  OBVIOUS
<1>7. ModelMsg(a, partial, cs) /\ a \in Msgs
  BY <1>2, <1>5, <1>6, MsgsAre DEF ModelMsg
<1>8. messages' = Append(messages, a)
  BY <1>6 DEF Shows!CallTools, Shows!Assistant
<1>9. messages' \in Seq(Msgs) /\ Len(messages') \in Nat
  BY <1>2, <1>7, <1>8, AppendProperties, LenProperties
<1>10. PICK qs : qs = [i \in DOMAIN cs |-> Shows!AnnounceLine(cs, i)]
  OBVIOUS
<1>11. DOMAIN cs = 1..n /\ n \in {1, 2}
  BY <1>3, <1>5, LenProperties
<1>12. \A i \in 1..n : Announces(cs, i, Shows!AnnounceLine(cs, i))
  BY <1>3, <1>5, AnnounceLineIs
<1>13. /\ qs \in Seq(PostTypes) /\ Len(qs) = n
       /\ \A i \in 1..n : Announces(cs, i, qs[i])
  BY <1>10, <1>11, <1>12, <1>4 DEF Announces
<1>14. posted' = Cat(posted, qs)
  BY <1>10 DEF Shows!CallTools, Shows!Posts, Cat
<1>15. posted' \in Seq(PostTypes)
  BY <1>2, <1>13, <1>14, CatProperties
<1>16. batch' # <<>>
  BY <1>1, <1>3, <1>11
<1>17. said' + made' + turns' <= MaxParts /\ made' \in Nat
  BY <1>1, <1>2, <1>3, <1>4, ShowsAssumption
<1>18. kept' \in BOOLEAN /\ (kept' => kept /\ \A i \in DOMAIN cs : ~cs[i].arrow)
  BY <1>1
<1>19. TypesInv'
  BY <1>1, <1>5, <1>9, <1>15, <1>16, <1>17, <1>18, PiecesAre DEF TypesInv, ViewOk, EntriesOk, PendingOk
<1> QED BY <1>1, <1>3, <1>5, <1>7, <1>8, <1>13, <1>14, <1>18, <1>19

(* The content of the last message of a tool.                               *)
LEMMA LastContentIs ==
  ASSUME NEW ms \in Seq(Msgs), NEW c, NEW m, ToolMsg(m, c), NEW t, t = Append(ms, m)
  PROVE  Shows!LastContent(t, c.name) = c.id
<1>1. m \in Msgs /\ m.role = "tool" /\ m.id = c.id /\ m.name = c.name
  BY DEF ToolMsg
<1>2. PICK n \in Nat : n = Len(ms)
  BY LenProperties
<1>3. t \in Seq(Msgs) /\ Len(t) = n + 1 /\ t[n + 1] = m
  BY <1>1, <1>2, AppendProperties
<1>4. DOMAIN t = 1..(n + 1)
  BY <1>3, LenProperties
<1>5. PICK mine : mine = {i \in DOMAIN t : t[i].role = "tool" /\ t[i].name = c.name}
  OBVIOUS
<1>6. n + 1 \in mine /\ \A j \in mine : j \in Int /\ j <= n + 1
  BY <1>1, <1>3, <1>4, <1>5
<1>7. PICK k : k = CHOOSE i \in mine : \A j \in mine : j <= i
  OBVIOUS
<1>8. k \in mine /\ \A j \in mine : j <= k
  BY <1>6, <1>7
<1>9. k = n + 1
  BY <1>6, <1>8
<1>10. Shows!LastContent(t, c.name) = t[k].id
  BY <1>5, <1>7 DEF Shows!LastContent
<1> QED BY <1>1, <1>3, <1>9, <1>10

(* A call is observed.                                                      *)
LEMMA ObserveStep ==
  ASSUME TypesInv, Shows!Observe
  PROVE  /\ stage = "batch" /\ stage' \in {"stream", "batch"} /\ batch # <<>> /\ batch' = Tail(batch)
         /\ \E c, m, q : /\ c \in Shows!Call /\ c = Head(batch) /\ ToolMsg(m, c) /\ messages' = Append(messages, m)
                         /\ Posted(q, "outcome") /\ q.result = c.id /\ q.name = c.name
                         /\ posted' = Append(posted, q)
         /\ UNCHANGED <<contStart, partial, view, made, stirred, kept>>
         /\ TypesInv'
<1>1. /\ stage = "batch" /\ batch' = Tail(batch)
      /\ stage' = (IF Len(batch) = 1 THEN "stream" ELSE "batch")
      /\ UNCHANGED <<contStart, partial, said, made, turns, view, stirred, kept>>
  BY DEF Shows!Observe, Shows!Posts
<1>2. /\ messages \in Seq(Msgs) /\ posted \in Seq(PostTypes) /\ batch \in Seq(Shows!Call) /\ batch # <<>>
  BY <1>1 DEF TypesInv
<1>3. /\ Head(batch) \in Shows!Call /\ Tail(batch) \in Seq(Shows!Call)
      /\ Len(batch) \in Nat \ {0} /\ Len(Tail(batch)) = Len(batch) - 1
  BY <1>2, HeadAndTail
<1>4. PICK c \in Shows!Call : c = Head(batch)
  BY <1>3
<1>5. PICK m : m = Shows!Msg("tool", <<>>, <<>>, c.id, c.name)
  OBVIOUS
<1>6. ToolMsg(m, c) /\ m \in Msgs
  BY <1>5, MsgsAre DEF ToolMsg
<1>7. PICK ms : ms = Append(messages, m)
  OBVIOUS
<1>8. ms \in Seq(Msgs) /\ Len(ms) \in Nat
  BY <1>2, <1>6, <1>7, AppendProperties, LenProperties
<1>9. PICK q : q = Shows!Post("outcome", Shows!NoPiece, Shows!NoId, c.name, Shows!LastContent(ms, c.name))
  OBVIOUS
<1>10. Shows!LastContent(ms, c.name) = c.id
  BY <1>2, <1>6, <1>7, LastContentIs
<1>11. c.id \in Nat /\ c.name \in ToolNames
  BY ShowsAssumption DEF Shows!Call, ToolNames
<1>12. Posted(q, "outcome") /\ q.result = c.id /\ q.name = c.name /\ q \in PostTypes
  BY <1>9, <1>10, <1>11, PostIs, PiecesAre DEF Posted
<1>13. messages' = ms /\ posted' = posted \o <<q>>
  BY <1>4, <1>5, <1>7, <1>9 DEF Shows!Observe, Shows!Posts
<1>14. posted' = Append(posted, q) /\ posted' \in Seq(PostTypes)
  BY <1>2, <1>12, <1>13, OnePosted
<1>15. stage' = "batch" <=> batch' # <<>>
  <2>1. Len(Tail(batch)) = 0 <=> Tail(batch) = <<>>
    BY <1>3, EmptySeq
  <2> QED BY <1>1, <1>3, <2>1
<1>16. contStart = 0 /\ stage' \in {"stream", "batch"}
  BY <1>1 DEF TypesInv
<1>17. TypesInv'
  BY <1>1, <1>3, <1>8, <1>13, <1>14, <1>15, <1>16 DEF TypesInv, ViewOk, EntriesOk, PendingOk
<1> QED BY <1>1, <1>2, <1>4, <1>6, <1>7, <1>12, <1>13, <1>14, <1>16, <1>17

(* The turn is cut off.                                                     *)
LEMMA StopStep ==
  ASSUME TypesInv, NEW cancelled \in BOOLEAN, Shows!Stop(cancelled)
  PROVE  /\ stage \in {"stream", "batch"} /\ stage' = "idle" /\ batch' = <<>> /\ contStart' = 0
         /\ \E q : /\ Posted(q, "done")
                   /\ \/ posted' = Append(posted, q)
                      \/ /\ ~kept'
                         /\ \E d, s : /\ Posted(d, "delta") /\ s = Append(posted, d)
                                      /\ s \in Seq(PostTypes) /\ posted' = Append(s, q)
         /\ (kept' => kept /\ Shows!Blank(partial))
         /\ UNCHANGED <<messages, partial, view, made, stirred>>
         /\ TypesInv'
<1>1. /\ stage \in {"stream", "batch"} /\ stage' = "idle" /\ batch' = <<>> /\ contStart' = 0
      /\ kept' = (kept /\ ~cancelled /\ Shows!Blank(partial))
      /\ UNCHANGED <<messages, partial, view, said, made, turns, stirred>>
  BY DEF Shows!Stop, Shows!Posts
<1>2. PICK q : q = Shows!Post("done", Shows!NoPiece, Shows!NoId, "none", Shows!NoId)
  OBVIOUS
<1>3. Posted(q, "done") /\ q \in PostTypes
  BY <1>2, PostIs, PiecesAre DEF Posted
<1>4. PICK d : d = Shows!Post("delta", Shows!NoPiece, Shows!NoId, "none", Shows!NoId)
  OBVIOUS
<1>5. Posted(d, "delta") /\ d \in PostTypes
  BY <1>4, PostIs, PiecesAre DEF Posted
<1>6. posted \in Seq(PostTypes) /\ messages \in Seq(Msgs) /\ Len(messages) \in Nat
  BY LenProperties DEF TypesInv
<1>7. /\ posted' \in Seq(PostTypes)
      /\ \/ posted' = Append(posted, q)
         \/ /\ ~kept'
            /\ \E s : s = Append(posted, d) /\ s \in Seq(PostTypes) /\ posted' = Append(s, q)
  <2>1. CASE ~cancelled
    BY <1>2, <2>1, <1>3, <1>6, OnePosted DEF Shows!Stop, Shows!Posts
  <2>2. CASE cancelled
    <3>1. posted' = posted \o (<<d>> \o <<q>>)
      BY <1>2, <1>4, <2>2 DEF Shows!Stop, Shows!Posts
    <3>2. PICK od, oq : od = <<d>> /\ oq = <<q>>
      OBVIOUS
    <3>3. od \in Seq(PostTypes) /\ oq \in Seq(PostTypes)
      BY <1>3, <1>5, <3>2
    <3>4. posted \o (od \o oq) = (posted \o od) \o oq
      BY <1>6, <3>3, CatProperties DEF Cat
    <3>5. PICK s : s = posted \o od
      OBVIOUS
    <3>6. s = Append(posted, d) /\ s \in Seq(PostTypes)
      BY <1>5, <1>6, <3>2, <3>5, OnePosted
    <3>7. posted' = s \o <<q>>
      BY <3>1, <3>2, <3>4, <3>5
    <3>8. posted' = Append(s, q) /\ posted' \in Seq(PostTypes)
      BY <1>3, <3>6, <3>7, OnePosted
    <3>9. ~kept'
      BY <1>1, <2>2
    <3> QED BY <3>6, <3>8, <3>9
  <2> QED BY <2>1, <2>2
<1>8. kept' \in BOOLEAN /\ (kept' => kept /\ Shows!Blank(partial))
  BY <1>1
<1>9. TypesInv'
  BY <1>1, <1>6, <1>7, <1>8, PiecesAre DEF TypesInv, ViewOk, EntriesOk, PendingOk
<1> QED BY <1>1, <1>3, <1>5, <1>7, <1>8, <1>9

(* The app takes the first message that was posted.                         *)
LEMMA HandleStep ==
  ASSUME TypesInv, NEW kind, Shows!Handle(kind)
  PROVE  /\ posted # <<>> /\ Head(posted) \in PostTypes /\ Head(posted).kind = kind
         /\ posted' = Tail(posted) /\ posted' \in Seq(PostTypes)
         /\ Head(posted).name \in ToolNames /\ Head(posted).id \in Nat
         /\ Head(posted).result \in Nat /\ Head(posted).piece \in Shows!Piece
         /\ UNCHANGED <<messages, stage, contStart, partial, batch, said, made, turns, kept>>
         /\ (ViewOk(view') /\ stirred' \in BOOLEAN => TypesInv')
<1>1. /\ posted # <<>> /\ Head(posted).kind = kind /\ posted' = Tail(posted)
      /\ UNCHANGED <<messages, stage, contStart, partial, batch, said, made, turns, kept>>
  BY DEF Shows!Handle, Shows!worker
<1>2. posted \in Seq(PostTypes)
  BY DEF TypesInv
<1>3. Head(posted) \in PostTypes /\ Tail(posted) \in Seq(PostTypes)
  BY <1>1, <1>2, HeadAndTail
<1>4. /\ Head(posted).name \in ToolNames /\ Head(posted).id \in Nat
      /\ Head(posted).result \in Nat /\ Head(posted).piece \in Shows!Piece
  BY <1>3 DEF PostTypes
<1>5. ViewOk(view') /\ stirred' \in BOOLEAN => TypesInv'
  BY <1>1, <1>3 DEF TypesInv
<1> QED BY <1>1, <1>3, <1>4, <1>5

(* A piece of text is shown.                                                *)
LEMMA OnDeltaStep ==
  ASSUME TypesInv, Shows!OnDelta
  PROVE  /\ \E g : /\ g = Shows!Grown(view, Head(posted).piece)
                   /\ \E k \in 0..Len(g.buf) : view' = Shows!Drained(g, k)
         /\ stirred' = (stirred \/ view.pending # <<>>)
         /\ TypesInv'
<1>1. Shows!Handle("delta") /\ stirred' = (stirred \/ view.pending # <<>>)
  BY DEF Shows!OnDelta
<1>2. PICK p \in Shows!Piece : p = Head(posted).piece
  BY <1>1, HandleStep
<1>3. PICK g : g = Shows!Grown(view, p)
  OBVIOUS
<1>4. PICK k \in 0..Len(g.buf) : view' = Shows!Drained(g, k)
  BY <1>2, <1>3 DEF Shows!OnDelta
<1>5. ViewOk(view)
  BY DEF TypesInv
<1>6. PICK r : r = Shows!ReplyEntry(view)
  OBVIOUS
<1>7. r.reply # 0
  BY <1>5, <1>6, ReplyEntryIs
<1>8. ViewOk(g) /\ g.reply = r.reply
  BY <1>3, <1>5, <1>6, GrownIs
<1>9. ViewOk(view')
  BY <1>4, <1>7, <1>8, DrainedIs
<1>10. stirred' \in BOOLEAN
  BY <1>1
<1> QED BY <1>1, <1>2, <1>3, <1>4, <1>9, <1>10, HandleStep

(* A call is announced.                                                     *)
LEMMA OnAnnounceStep ==
  ASSUME TypesInv, Shows!OnAnnounce
  PROVE  view' = Shows!Announced(view, Head(posted)) /\ stirred' = stirred /\ TypesInv'
<1>1. Shows!Handle("announce") /\ view' = Shows!Announced(view, Head(posted)) /\ stirred' = stirred
  BY DEF Shows!OnAnnounce
<1>2. PICK m : m = Head(posted)
  OBVIOUS
<1>3. m.id \in Nat /\ m.name \in ToolNames
  BY <1>1, <1>2, HandleStep
<1>4. ViewOk(view) /\ stirred \in BOOLEAN
  BY DEF TypesInv
<1>5. PICK f, w : f = Shows!Finished(view) /\ w = Shows!Announced(view, m)
  OBVIOUS
<1>6. ViewOk(w)
  BY <1>3, <1>4, <1>5, AnnouncedIs
<1> QED BY <1>1, <1>2, <1>4, <1>5, <1>6, HandleStep

(* A call's outcome is shown.                                               *)
LEMMA OnOutcomeStep ==
  ASSUME TypesInv, Shows!OnOutcome
  PROVE  /\ view' = Shows!Observed(view, Head(posted))
         /\ stirred' = (stirred \/ view.reply # 0
                          \/ (view.pending # <<>> /\ Shows!NameOf(view, Head(view.pending)) # Head(posted).name))
         /\ TypesInv'
<1>1. /\ Shows!Handle("outcome") /\ view' = Shows!Observed(view, Head(posted))
      /\ stirred' = (stirred \/ view.reply # 0
                       \/ (view.pending # <<>> /\ Shows!NameOf(view, Head(view.pending)) # Head(posted).name))
  BY DEF Shows!OnOutcome
<1>2. PICK m : m = Head(posted)
  OBVIOUS
<1>3. m.result \in Nat /\ m.name \in ToolNames
  BY <1>1, <1>2, HandleStep
<1>4. ViewOk(view)
  BY DEF TypesInv
<1>5. PICK w : w = Shows!Observed(view, m)
  OBVIOUS
<1>6. ViewOk(w)
  BY <1>3, <1>4, <1>5, ObservedIs
<1>7. stirred' \in BOOLEAN
  BY <1>1
<1> QED BY <1>1, <1>2, <1>5, <1>6, <1>7, HandleStep

(* A notice is shown.                                                       *)
LEMMA OnNoticeStep ==
  ASSUME TypesInv, Shows!OnNotice
  PROVE  /\ \E f : /\ f = Shows!Finished(view) /\ ViewOk(f)
                   /\ \E e \in Entries : e.kind = "note" /\ Writes(f, e, view')
         /\ stirred' = stirred /\ TypesInv'
<1>1. Shows!Handle("notice") /\ stirred' = stirred
  BY DEF Shows!OnNotice
<1>2. ViewOk(view) /\ stirred \in BOOLEAN
  BY DEF TypesInv
<1>3. PICK f : f = Shows!Finished(view)
  OBVIOUS
<1>4. ViewOk(f)
  BY <1>2, <1>3, FinishedOk
<1>5. PICK e \in Entries : e = Shows!Note /\ e.kind = "note"
  BY NewEntries
<1>6. Writes(f, e, view')
  BY <1>3, <1>5 DEF Shows!OnNotice, Writes
<1>7. ViewOk(view')
  BY <1>4, <1>6, WithEntryOk
<1> QED BY <1>1, <1>2, <1>3, <1>4, <1>5, <1>6, <1>7, HandleStep

(* A turn ends.                                                             *)
LEMMA OnDoneStep ==
  ASSUME TypesInv, Shows!OnDone
  PROVE  view' = Shows!Ended(view) /\ stirred' = stirred /\ TypesInv'
<1>1. Shows!Handle("done") /\ view' = Shows!Ended(view) /\ stirred' = stirred
  BY DEF Shows!OnDone
<1>2. ViewOk(view) /\ stirred \in BOOLEAN
  BY DEF TypesInv
<1>3. PICK f, w : f = Shows!Finished(view) /\ w = Shows!Ended(view)
  OBVIOUS
<1>4. ViewOk(w)
  BY <1>2, <1>3, EndedIs
<1> QED BY <1>1, <1>2, <1>3, <1>4, HandleStep

(* Everything is written anew.                                              *)
LEMMA ToggleStep ==
  ASSUME TypesInv, Shows!Toggle
  PROVE  /\ view' = Shows!Rerendered(view) /\ stirred' = (stirred \/ view.reply # 0)
         /\ UNCHANGED <<messages, stage, contStart, partial, batch, said, made, turns, posted, kept>>
         /\ TypesInv'
<1>1. /\ view' = Shows!Rerendered(view) /\ stirred' = (stirred \/ view.reply # 0)
      /\ UNCHANGED <<messages, stage, contStart, partial, batch, said, made, turns, posted, kept>>
  BY DEF Shows!Toggle, Shows!worker
<1>2. ViewOk(view) /\ view \in Views
  BY DEF TypesInv, ViewOk
<1>3. PICK w : w = Shows!Rerendered(view)
  OBVIOUS
<1>4. /\ w \in Views /\ w.entries = view.entries /\ w.reply = view.reply
      /\ w.pending = view.pending /\ w.next = view.next /\ w.buf = view.buf
  BY <1>2, <1>3, RerenderedIs
<1>5. ViewOk(w)
  BY <1>2, <1>4 DEF ViewOk, EntriesOk, PendingOk
<1>6. stirred' \in BOOLEAN
  BY <1>1
<1>7. TypesInv'
  BY <1>1, <1>3, <1>5, <1>6 DEF TypesInv
<1> QED BY <1>1, <1>7

(* A conversation is loaded: what is shown of it is what is stored, between *)
(* two notes.                                                               *)
LEMMA LoadSessionStep ==
  ASSUME TypesInv, Shows!LoadSession
  PROVE  /\ stage = "idle" /\ posted = <<>> /\ stirred' = FALSE /\ kept' = TRUE
         /\ UNCHANGED <<messages, stage, contStart, partial, batch, said, made, turns, posted>>
         /\ \E s, all : /\ s \in Seq(Entries) /\ Len(s) = 1 /\ s[1].kind = "note"
                        /\ all \in Seq(Entries) /\ all = Cat(Cat(s, FlatMap(Rebuilds, messages)), s)
                        /\ view' = Loaded(all)
         /\ TypesInv'
<1>1. /\ stage = "idle" /\ posted = <<>> /\ stirred' = FALSE /\ kept' = TRUE
      /\ UNCHANGED <<messages, stage, contStart, partial, batch, said, made, turns, posted>>
  BY DEF Shows!LoadSession, Shows!AtPrompt, Shows!worker
<1>2. messages \in Seq(Msgs)
  BY DEF TypesInv
<1>3. PICK e \in Entries : e = Shows!Note /\ e.kind = "note"
  BY NewEntries
<1>4. PICK s : s = <<e>>
  OBVIOUS
<1>5. s \in Seq(Entries) /\ Len(s) = 1 /\ s[1].kind = "note"
  BY <1>3, <1>4
<1>6. PICK fs \in Seq(Entries) : fs = Shows!EntriesFor /\ fs = FlatMap(Rebuilds, messages)
  BY <1>2, EntriesForIs
<1>7. PICK all : all = s \o fs \o s
  OBVIOUS
<1>8. all = Cat(Cat(s, fs), s)
  BY <1>7 DEF Cat
<1>9. PICK b \in Seq(Entries) : b = Cat(s, fs)
  BY <1>5, CatProperties
<1>10. Cat(b, s) \in Seq(Entries)
  BY <1>5, CatProperties
<1>11. all \in Seq(Entries)
  BY <1>8, <1>9, <1>10
<1>12. view' = Loaded(all)
  BY <1>3, <1>4, <1>6, <1>7 DEF Shows!LoadSession, Loaded
<1>13. ViewOk(view')
  BY <1>11, <1>12, LoadedIs
<1>14. TypesInv'
  BY <1>1, <1>13 DEF TypesInv
<1> QED BY <1>1, <1>5, <1>6, <1>8, <1>11, <1>12, <1>14

(* The conversation is cleared.                                             *)
LEMMA ClearStep ==
  ASSUME TypesInv, Shows!Clear
  PROVE  /\ stage = "idle" /\ posted = <<>> /\ stirred' = FALSE /\ kept' = TRUE
         /\ messages' = <<>> /\ view' = Shows!Empty
         /\ UNCHANGED <<stage, contStart, partial, batch, said, made, turns, posted>>
         /\ TypesInv'
<1>1. /\ stage = "idle" /\ posted = <<>> /\ stirred' = FALSE /\ kept' = TRUE
      /\ messages' = <<>> /\ view' = Shows!Empty
      /\ UNCHANGED <<stage, contStart, partial, batch, said, made, turns, posted>>
  BY DEF Shows!Clear, Shows!AtPrompt
<1>2. <<>> \in Seq(Msgs) /\ Len(<<>>) = 0
  OBVIOUS
<1>3. contStart = 0
  BY <1>1 DEF TypesInv
<1>4. messages' \in Seq(Msgs) /\ contStart' \in 0..Len(messages')
  BY <1>1, <1>2, <1>3
<1>5. ViewOk(view')
  BY <1>1, EmptyOk
<1>6. TypesInv'
  BY <1>1, <1>4, <1>5 DEF TypesInv
<1> QED BY <1>1, <1>6

(* The transcript begins with the types right, and every step keeps them.   *)
LEMMA TranscriptInit ==
  ASSUME Shows!Init
  PROVE  TypesInv
<1>1. /\ messages = <<>> /\ stage = "idle" /\ contStart = 0 /\ partial = <<>> /\ batch = <<>>
      /\ posted = <<>> /\ view = Shows!Empty /\ said = 0 /\ made = 0 /\ turns = 0
      /\ stirred = FALSE /\ kept = TRUE
  BY DEF Shows!Init
<1>2. /\ <<>> \in Seq(Msgs) /\ Len(<<>>) = 0 /\ <<>> \in Seq(Shows!Piece) /\ <<>> \in Seq(Shows!Call)
      /\ <<>> \in Seq(PostTypes)
  OBVIOUS
<1>3. messages \in Seq(Msgs) /\ contStart \in 0..Len(messages)
  BY <1>1, <1>2
<1>4. ViewOk(view)
  BY <1>1, EmptyOk
<1>5. said + made + turns <= MaxParts /\ said \in Nat /\ made \in Nat /\ turns \in Nat
  BY <1>1, ShowsAssumption
<1> QED BY <1>1, <1>2, <1>3, <1>4, <1>5 DEF TypesInv

(* Every step of the transcript keeps the types.                            *)
LEMMA TypesStep ==
  ASSUME TypesInv, [Shows!Next]_showVars
  PROVE  TypesInv'
<1>1. CASE UNCHANGED showVars
  BY <1>1 DEF showVars, TypesInv, ViewOk, EntriesOk, PendingOk
<1>2. CASE Shows!Submit
  BY <1>2, SubmitStep
<1>3. CASE Shows!Answer
  BY <1>3, AnswerStep
<1>4. CASE Shows!Continue
  BY <1>4, ContinueStep
<1>5. CASE Shows!Observe
  BY <1>5, ObserveStep
<1>6. ASSUME NEW sort \in {"blank", "plain", "marked"}, Shows!Say(sort)
      PROVE  TypesInv'
  BY <1>6, SayStep
<1>7. ASSUME NEW calls \in Shows!Batches, said + made + turns + Len(calls) <= MaxParts,
             Shows!CallTools(calls)
      PROVE  TypesInv'
  BY <1>7, CallToolsStep
<1>8. ASSUME NEW cancelled \in BOOLEAN, Shows!Stop(cancelled)
      PROVE  TypesInv'
  BY <1>8, StopStep
<1>9. CASE Shows!OnDelta
  BY <1>9, OnDeltaStep
<1>10. CASE Shows!OnAnnounce
  BY <1>10, OnAnnounceStep
<1>11. CASE Shows!OnOutcome
  BY <1>11, OnOutcomeStep
<1>12. CASE Shows!OnNotice
  BY <1>12, OnNoticeStep
<1>13. CASE Shows!OnDone
  BY <1>13, OnDoneStep
<1>14. CASE Shows!Toggle
  BY <1>14, ToggleStep
<1>15. CASE Shows!LoadSession
  BY <1>15, LoadSessionStep
<1>16. CASE Shows!Clear
  BY <1>16, ClearStep
<1> QED
  BY <1>1, <1>2, <1>3, <1>4, <1>5, <1>6, <1>7, <1>8, <1>9, <1>10, <1>11, <1>12, <1>13, <1>14,
     <1>15, <1>16 DEF Shows!Next

(* The types of Transcript follow.                                          *)
LEMMA TypesSound ==
  ASSUME TypesInv
  PROVE  Shows!TypeOK
<1>1. /\ stage \in {"idle", "stream", "batch"} /\ partial \in Seq(Shows!Piece)
      /\ batch \in Seq(Shows!Call) /\ posted \in Seq(PostTypes) /\ view \in Views /\ EntriesOk(view)
  BY DEF TypesInv, ViewOk
<1>2. \A i \in DOMAIN posted : posted[i].kind \in {"delta", "announce", "outcome", "notice", "done"}
  <2>1. \A i \in DOMAIN posted : posted[i] \in PostTypes
    BY <1>1, LenProperties, ElementOfSeq
  <2> QED BY <2>1 DEF PostTypes
<1>3. \A i \in DOMAIN view.entries :
        /\ view.entries[i].kind \in {"user", "note", "reply", "block"}
        /\ view.entries[i].uid \in 1..(view.next - 1)
  BY <1>1, ViewFields, EntryFields DEF EntriesOk, Kinds
<1>4. view.buf \in Seq(Shows!Piece) /\ view.reply \in 0..(view.next - 1)
  <2>1. view.next \in Nat /\ view.next # 0 /\ view.buf \in Seq(Shows!Piece)
    BY <1>1, ViewFields DEF EntriesOk
  <2>2. CASE view.reply = 0
    BY <2>1, <2>2
  <2>3. CASE view.reply # 0
    <3>1. PICK i \in DOMAIN view.entries : view.entries[i].uid = view.reply
      BY <1>1, <2>3 DEF EntriesOk, Has
    <3> QED BY <1>3, <2>1, <3>1
  <2> QED BY <2>1, <2>2, <2>3
<1> QED BY <1>1, <1>2, <1>3, <1>4 DEF Shows!TypeOK

(* The mark of an entry that is not a reply.                                *)
LEMMA RendersMark ==
  ASSUME NEW e \in Entries, e.kind # "reply", NEW y
  PROVE  In(y, Shows!Render(e)) <=> y = <<"entry", e.uid>>
<1>1. PICK m \in Marks : m = <<"entry", e.uid>>
  BY RenderedEntry
<1>2. Shows!Render(e) = <<m>>
  BY <1>1, RenderedEntry
<1> QED BY <1>1, <1>2, InOne

(* Entries that look the same are rendered the same.                        *)
LEMMA RendersSame ==
  ASSUME NEW e, NEW x, x.kind = e.kind, x.pieces = e.pieces, x.uid = e.uid
  PROVE  Shows!Render(x) = Shows!Render(e)
BY DEF Shows!Render

(* A log that is written anew shows every entry but those waited for.       *)
LEMMA AnewVisible ==
  ASSUME NEW w \in Views, w.log = Shows!RenderBut(w.entries, w.pending)
  PROVE  AllVisible(w)
<1> SUFFICES ASSUME NEW i \in DOMAIN w.entries, NEW y, In(y, Shows!Render(w.entries[i])),
                    ~In(w.entries[i].uid, w.pending)
             PROVE  In(y, w.log)
  BY DEF AllVisible, Visible
<1>1. w.entries \in Seq(Entries) /\ w.entries[i] \in Entries /\ w.pending \in Seq(Nat)
  BY ViewFields
<1>2. PICK us : us = w.pending
  OBVIOUS
<1>3. PICK g : g = RenderOf(us)
  OBVIOUS
<1>4. w.log = FlatMap(g, w.entries) /\ Makes(g, Entries, Marks)
  BY <1>1, <1>2, <1>3, RenderIs, RenderMakes
<1>5. ~Shows!Contains(us, w.entries[i].uid)
  BY <1>1, <1>2, ContainsIn
<1>6. g[w.entries[i]] = Shows!Render(w.entries[i])
  BY <1>1, <1>3, <1>5 DEF RenderOf
<1> QED BY <1>1, <1>4, <1>6, FlatMapRange

(* What was streamed is in the log that takes it.                           *)
LEMMA FlushedHas ==
  ASSUME NEW v \in Views, NEW y
  PROVE  In(y, FlushedLog(v)) <=> In(y, v.log) \/ In(y, Shows!Lines(v.buf))
<1>1. PICK l \in Seq(Marks) : l = v.log
  BY ViewFields
<1>2. PICK b \in Seq(Marks) : b = Shows!Lines(v.buf)
  BY ViewFields, LinesAre
<1> QED BY <1>1, <1>2, InCat DEF FlushedLog

(* A mark that is written is in the log.                                    *)
LEMMA WrittenHas ==
  ASSUME NEW l \in Seq(Marks), NEW m \in Marks, NEW y
  PROVE  In(y, Append(l, m)) <=> In(y, l) \/ y = m
<1>1. PICK o : o = <<m>>
  OBVIOUS
<1>2. Append(l, m) = Cat(l, o) /\ o \in Seq(Marks)
  BY <1>1, AppendIsConcat, InOne DEF Cat
<1>3. In(y, Cat(l, o)) <=> In(y, l) \/ In(y, o)
  BY <1>2, InCat
<1> QED BY <1>1, <1>2, <1>3, InOne

(* _finish_reply leaves every entry visible.                                *)
LEMMA FinishedVisible ==
  ASSUME NEW v, ViewOk(v), AllVisible(v), NEW f, f = Shows!Finished(v)
  PROVE  AllVisible(f)
<1>1. v \in Views /\ EntriesOk(v)
  BY DEF ViewOk
<1>2. f \in Views /\ f.reply = 0 /\ f.pending = v.pending
  BY FinishedIs
<1>3. ASSUME f.log = FlushedLog(v), NEW e, Visible(v, e)
      PROVE  Visible(f, e)
  BY <1>1, <1>3, FlushedHas, <1>2 DEF Visible
<1>4. CASE f.entries = v.entries /\ f.log = FlushedLog(v)
  BY <1>3, <1>4 DEF AllVisible
<1>5. CASE f.entries = v.entries /\ f.log = Shows!RenderBut(v.entries, v.pending)
  BY <1>2, <1>5, AnewVisible
<1>6. CASE /\ v.reply # 0 /\ f.log = FlushedLog(v)
           /\ f.entries = Shows!RemoveAt(v.entries, Shows!Place(v, v.reply))
  <2>1. PICK u : u = v.reply
    OBVIOUS
  <2>2. PICK i : i = Shows!Place(v, u)
    OBVIOUS
  <2>3. UidsRise(v.entries) /\ Has(v.entries, u, "reply")
    BY <1>1, <1>6, <2>1 DEF EntriesOk
  <2>4. i \in DOMAIN v.entries
    BY <1>1, <2>2, <2>3, PlaceIs
  <2>5. PICK n \in Nat : n = Len(v.entries) /\ DOMAIN v.entries = 1..n /\ v.entries \in Seq(Entries)
    BY <1>1, ViewFields
  <2>6. PICK t : t = Shows!RemoveAt(v.entries, i)
    OBVIOUS
  <2>7. DOMAIN t = 1..(n - 1) /\ \A j \in 1..(n - 1) : t[j] = IF j < i THEN v.entries[j] ELSE v.entries[j + 1]
    BY <2>4, <2>5, <2>6, Removed
  <2>8. ASSUME NEW j \in 1..(n - 1) PROVE Visible(v, t[j])
    <3>1. j \in DOMAIN v.entries /\ j + 1 \in DOMAIN v.entries
      BY <2>5
    <3>2. Visible(v, v.entries[j]) /\ Visible(v, v.entries[j + 1])
      BY <3>1 DEF AllVisible
    <3> QED BY <2>7, <3>2
  <2>9. f.entries = t
    BY <1>6, <2>1, <2>2, <2>6
  <2> QED BY <1>3, <1>6, <2>7, <2>8, <2>9 DEF AllVisible
<1> QED BY <1>4, <1>5, <1>6, FinishedIs

(* An entry that is written, and one that is waited for, are visible.       *)
LEMMA NotedVisible ==
  ASSUME NEW f, ViewOk(f), AllVisible(f), NEW e \in Entries, e.kind # "reply",
         NEW w, Writes(f, e, w)
  PROVE  AllVisible(w)
<1>1. /\ f \in Views /\ f.entries \in Seq(Entries) /\ f.log \in Seq(Marks) /\ f.next \in Nat
      /\ w.reply = f.reply /\ w.buf = f.buf /\ w.pending = f.pending
      /\ w.log = Append(f.log, <<"entry", f.next>>)
  BY NotedIs, ViewFields DEF ViewOk
<1>2. PICK x \in Entries : SameBut(x, e, f.next) /\ w.entries = Append(f.entries, x)
  BY NotedIs
<1>3. PICK m \in Marks : m = <<"entry", f.next>>
  BY <1>1, MarksAre
<1>4. \A y : In(y, w.log) <=> In(y, f.log) \/ y = m
  BY <1>1, <1>3, WrittenHas, SMTT(20)
<1>5. x.kind # "reply" /\ x.uid = f.next
  BY <1>2 DEF SameBut
<1>6. Visible(w, x)
  BY <1>3, <1>4, <1>5, RendersMark DEF Visible
<1>7. \A i \in DOMAIN f.entries : Visible(w, f.entries[i])
  BY <1>1, <1>4 DEF AllVisible, Visible
<1> QED BY <1>1, <1>2, <1>6, <1>7, AppendProperties DEF AllVisible

(* An announced call is waited for.                                         *)
LEMMA AnnouncedVisible ==
  ASSUME NEW v, ViewOk(v), AllVisible(v), NEW m, m.id \in Nat, m.name \in ToolNames,
         NEW w, w = Shows!Announced(v, m)
  PROVE  AllVisible(w)
<1>1. PICK f : f = Shows!Finished(v)
  OBVIOUS
<1>2. /\ f \in Views /\ f.entries \in Seq(Entries) /\ f.pending \in Seq(Nat) /\ f.next \in Nat
      /\ f.reply = 0 /\ AllVisible(f)
  BY <1>1, FinishedOk, FinishedIs, FinishedVisible, ViewFields DEF ViewOk
<1>3. w.reply = 0 /\ w.log = f.log /\ w.pending = Append(f.pending, f.next)
  BY <1>1, AnnouncedIs
<1>4. PICK x \in Entries : /\ x.kind = "block" /\ x.id = m.id /\ x.name = m.name
                          /\ x.result = 0 /\ x.uid = f.next
                          /\ w.entries = Append(f.entries, x)
  <2>1. NewBlock(f, m, w)
    BY <1>1, AnnouncedIs
  <2> QED BY <2>1 DEF NewBlock
<1>5. PICK ps : ps = Append(f.pending, f.next)
  OBVIOUS
<1>6. In(f.next, ps) /\ \A u : In(u, f.pending) => In(u, ps)
  <2>1. /\ Len(f.pending) \in Nat /\ DOMAIN f.pending = 1..Len(f.pending)
        /\ DOMAIN ps = 1..(Len(f.pending) + 1) /\ ps[Len(f.pending) + 1] = f.next
        /\ \A j \in 1..Len(f.pending) : ps[j] = f.pending[j]
    BY <1>2, <1>5, LenProperties, AppendProperties
  <2> QED BY <2>1 DEF In
<1>7. Visible(w, x)
  BY <1>3, <1>4, <1>5, <1>6 DEF Visible
<1>8. ASSUME NEW e, Visible(f, e), e.uid # 0 PROVE Visible(w, e)
  BY <1>2, <1>3, <1>5, <1>6, <1>8 DEF Visible
<1>9. \A i \in DOMAIN f.entries : f.entries[i].uid # 0
  BY <1>1, <1>2, FinishedOk DEF ViewOk, EntriesOk
<1>10. \A i \in DOMAIN f.entries : Visible(w, f.entries[i])
  BY <1>2, <1>8, <1>9 DEF AllVisible
<1> QED BY <1>2, <1>4, <1>7, <1>10, AppendProperties DEF AllVisible

(* The block of a call that is waited for is rendered as its mark.          *)
LEMMA PendingRenders ==
  ASSUME NEW v, ViewOk(v), NEW i \in DOMAIN v.entries, In(v.entries[i].uid, v.pending), NEW y
  PROVE  In(y, Shows!Render(v.entries[i])) <=> y = <<"entry", v.entries[i].uid>>
<1>1. PICK e \in Entries : e = v.entries[i]
  BY ViewFields DEF ViewOk
<1>2. PICK k \in DOMAIN v.pending : v.pending[k] = e.uid
  BY <1>1 DEF In
<1>3. PICK j \in DOMAIN v.entries : v.entries[j].uid = e.uid /\ v.entries[j].kind = "block"
  BY <1>2 DEF ViewOk, PendingOk, Has
<1>4. j = i
  BY <1>1, <1>3, UidsDiffer, ViewFields DEF ViewOk, EntriesOk
<1>5. e.kind # "reply"
  BY <1>1, <1>3, <1>4
<1> QED BY <1>1, <1>5, RendersMark

(* What is awaited has a mark.                                              *)
LEMMA AwaitedHas ==
  ASSUME NEW us \in Seq(Nat), NEW u, In(u, us)
  PROVE  In(<<"entry", u>>, Awaited(us))
BY DEF In, Awaited

(* The end of a turn writes what is waited for.                             *)
LEMMA EndedVisible ==
  ASSUME NEW v, ViewOk(v), AllVisible(v), NEW w, w = Shows!Ended(v)
  PROVE  AllVisible(w)
<1>1. PICK f : f = Shows!Finished(v)
  OBVIOUS
<1>2. ViewOk(f) /\ f.reply = 0 /\ AllVisible(f)
  BY <1>1, FinishedOk, FinishedIs, FinishedVisible
<1>3. /\ f.entries \in Seq(Entries) /\ f.log \in Seq(Marks) /\ f.pending \in Seq(Nat) /\ f.next \in Nat
  BY <1>2, ViewFields DEF ViewOk
<1>4. w.log = Append(Cat(f.log, Awaited(f.pending)), <<"entry", f.next>>)
  BY <1>1, EndedIs
<1>5. PICK x \in Entries : x.kind = "note" /\ x.uid = f.next /\ w.entries = Append(f.entries, x)
  BY <1>1, EndedIs
<1>6. PICK a \in Seq(Marks) : a = Awaited(f.pending)
  BY <1>3, AwaitedIs
<1>7. PICK l \in Seq(Marks) : l = Cat(f.log, a)
  BY <1>3, <1>6, CatProperties
<1>8. PICK m \in Marks : m = <<"entry", f.next>>
  BY <1>3, MarksAre
<1>9. \A y : In(y, w.log) <=> In(y, l) \/ y = m
  <2>1. w.log = Append(l, m)
    BY <1>4, <1>6, <1>7, <1>8
  <2> QED BY <2>1, WrittenHas
<1>10. \A y : In(y, l) <=> In(y, f.log) \/ In(y, a)
  BY <1>3, <1>6, <1>7, InCat
<1>11. Visible(w, x)
  BY <1>5, <1>8, <1>9, RendersMark DEF Visible
<1>12. ASSUME NEW i \in DOMAIN f.entries PROVE Visible(w, f.entries[i])
  <2> SUFFICES ASSUME NEW y, In(y, Shows!Render(f.entries[i])) PROVE In(y, w.log)
    BY DEF Visible
  <2>1. CASE In(f.entries[i].uid, f.pending)
    BY <1>2, <2>1, PendingRenders, <1>3, <1>6, AwaitedHas, <1>9, <1>10
  <2>2. CASE ~In(f.entries[i].uid, f.pending)
    BY <1>2, <2>2, <1>9, <1>10 DEF ViewOk, EntriesOk, AllVisible, Visible
  <2> QED BY <2>1, <2>2
<1> QED BY <1>3, <1>5, <1>11, <1>12, AppendProperties DEF AllVisible

(* A reply that grows is streamed; what the log takes of it, it shows.      *)
LEMMA DeltaVisible ==
  ASSUME NEW v, ViewOk(v), AllVisible(v), NEW p \in Shows!Piece,
         NEW g, g = Shows!Grown(v, p), NEW k \in 0..Len(g.buf), NEW w, w = Shows!Drained(g, k)
  PROVE  AllVisible(w)
<1>1. PICK r : r = Shows!ReplyEntry(v)
  OBVIOUS
<1>2. /\ ViewOk(r) /\ r.reply # 0 /\ r.log = v.log /\ r.pending = v.pending /\ r.buf = v.buf
      /\ IF v.reply # 0 THEN r = v
         ELSE /\ r.reply = v.next
              /\ \E x \in Entries : /\ x.kind = "reply" /\ x.pieces = <<>> /\ x.uid = v.next
                                    /\ r.entries = Append(v.entries, x)
  BY <1>1, ReplyEntryIs
<1>3. AllVisible(r)
  <2>1. CASE v.reply # 0
    BY <1>2, <2>1
  <2>2. CASE v.reply = 0
    <3>1. PICK x \in Entries : /\ x.kind = "reply" /\ x.pieces = <<>> /\ x.uid = v.next
                               /\ r.entries = Append(v.entries, x)
      BY <1>2, <2>2
    <3>2. PICK s : s = <<>>
      OBVIOUS
    <3>3. \A y : ~In(y, Shows!Lines(s))
      <4>1. s \in Seq(Shows!Piece) /\ DOMAIN s = {}
        BY <3>2
      <4> QED BY <4>1, LinesHave
    <3>4. Shows!Render(x) = Shows!Lines(s)
      BY <3>1, <3>2 DEF Shows!Render
    <3>5. v.buf = s /\ v.entries \in Seq(Entries)
      BY <2>2, <3>2, ViewFields DEF ViewOk, EntriesOk
    <3>6. \A i \in DOMAIN v.entries : Visible(r, v.entries[i])
      BY <1>2, <3>3, <3>5 DEF AllVisible, Visible
    <3>7. Visible(r, x)
      BY <3>3, <3>4 DEF Visible
    <3> QED BY <3>1, <3>5, <3>6, <3>7, AppendProperties DEF AllVisible
  <2> QED BY <2>1, <2>2
<1>4. /\ ViewOk(g) /\ g.reply = r.reply /\ g.log = r.log /\ g.pending = r.pending
      /\ g.buf = Append(r.buf, p) /\ Len(g.entries) = Len(r.entries)
      /\ \A i \in DOMAIN r.entries :
              /\ g.entries[i].uid = r.entries[i].uid /\ g.entries[i].kind = r.entries[i].kind
              /\ g.entries[i].pieces = IF r.entries[i].uid # r.reply THEN r.entries[i].pieces
                                       ELSE Append(r.entries[i].pieces, p)
  BY <1>1, GrownIs
<1>5. PICK b \in Seq(Marks) : b = Shows!Lines(r.buf)
  BY <1>2, ViewFields, LinesAre DEF ViewOk
<1>6. PICK o \in Seq(Marks) : o = LineOf[p]
  BY LineMakes DEF Makes
<1>7. Shows!Lines(g.buf) = Cat(b, o)
  BY <1>2, <1>4, <1>5, <1>6, LinesAppend, ViewFields DEF ViewOk
<1>8. \A y : In(y, Shows!Lines(g.buf)) <=> In(y, b) \/ In(y, o)
  BY <1>7, InCat
<1>9. AllVisible(g)
  <2> SUFFICES ASSUME NEW i \in DOMAIN r.entries PROVE Visible(g, g.entries[i])
    BY <1>2, <1>4, ViewFields DEF AllVisible, ViewOk
  <2>0. PICK e \in Entries : e = r.entries[i]
    BY <1>2, ViewFields DEF ViewOk
  <2>1. Visible(r, e)
    BY <1>3, <2>0 DEF AllVisible
  <2>2. CASE e.uid # r.reply
    BY <1>4, <2>0, <2>2, RendersSame, <2>1 DEF Visible
  <2>3. CASE e.uid = r.reply
    <3>1. e.kind = "reply" /\ e.pieces \in Seq(Shows!Piece)
      <4>1. PICK j \in DOMAIN r.entries : r.entries[j].uid = r.reply /\ r.entries[j].kind = "reply"
        BY <1>2 DEF ViewOk, EntriesOk, Has
      <4>2. j = i
        BY <1>2, <2>0, <2>3, <4>1, UidsDiffer, ViewFields DEF ViewOk, EntriesOk
      <4> QED BY <2>0, <4>1, <4>2, EntryFields
    <3>2. PICK q \in Seq(Marks) : q = Shows!Lines(e.pieces)
      BY <3>1, LinesAre
    <3>3. Shows!Render(e) = q
      BY <3>1, <3>2 DEF Shows!Render
    <3>4. Shows!Render(g.entries[i]) = Shows!Lines(Append(e.pieces, p))
      BY <1>4, <2>0, <2>3, <3>1 DEF Shows!Render
    <3>5. Shows!Render(g.entries[i]) = Cat(q, o)
      BY <1>6, <3>1, <3>2, <3>4, LinesAppend
    <3>6. \A y : In(y, Shows!Render(g.entries[i])) <=> In(y, q) \/ In(y, o)
      BY <3>5, InCat
    <3> QED BY <1>4, <1>5, <1>8, <2>0, <2>1, <2>3, <3>3, <3>6 DEF Visible
  <2> QED BY <2>2, <2>3
<1>10. /\ ViewOk(w) /\ w.entries = g.entries /\ w.reply = g.reply /\ w.pending = g.pending
       /\ FlushedLog(w) = FlushedLog(g) /\ \A y : In(y, g.log) => In(y, w.log)
  <2>1. ViewOk(g) /\ g.reply # 0
    BY <1>2, <1>4
  <2> QED BY <2>1, DrainedIs
<1>11. \A y : In(y, Shows!Lines(g.buf)) => In(y, w.log) \/ In(y, Shows!Lines(w.buf))
  BY <1>4, <1>10, FlushedHas DEF ViewOk
<1> QED BY <1>9, <1>10, <1>11 DEF AllVisible, Visible

(* A block that is completed is in the log.                                 *)
LEMMA ObservedVisible ==
  ASSUME NEW v, ViewOk(v), AllVisible(v), NEW m, m.name \in ToolNames, m.result \in Nat,
         NEW w, w = Shows!Observed(v, m)
  PROVE  AllVisible(w)
<1>1. /\ ViewOk(w) /\ w.reply = v.reply /\ w.buf = v.buf
      /\ \/ Shows!PendingOf(v, m.name) = {} /\ MadeOnTheSpot(v, m, w)
         \/ \E k, i : TakenBy(v, m, w, k, i)
  BY ObservedIs
<1>2. /\ v.entries \in Seq(Entries) /\ v.log \in Seq(Marks) /\ v.next \in Nat
      /\ DOMAIN v.entries = 1..Len(v.entries) /\ v.pending \in Seq(Nat)
  BY ViewFields DEF ViewOk
<1>3. CASE MadeOnTheSpot(v, m, w)
  <2>1. PICK x \in Entries : x.kind = "block" /\ x.uid = v.next /\ w.entries = Append(v.entries, x)
    BY <1>3 DEF MadeOnTheSpot
  <2>2. w.pending = v.pending /\ w.log = Append(v.log, <<"entry", v.next>>)
    BY <1>3 DEF MadeOnTheSpot
  <2>3. PICK n \in Marks : n = <<"entry", v.next>>
    BY <1>2, MarksAre
  <2>4. \A y : In(y, w.log) <=> In(y, v.log) \/ y = n
    BY <1>2, <2>2, <2>3, WrittenHas
  <2>5. Visible(w, x)
    BY <2>1, <2>3, <2>4, RendersMark DEF Visible
  <2>6. \A i \in DOMAIN v.entries : Visible(w, v.entries[i])
    BY <1>1, <2>2, <2>4 DEF AllVisible, Visible
  <2> QED BY <1>2, <2>1, <2>5, <2>6, AppendProperties DEF AllVisible
<1>4. CASE \E k, i : TakenBy(v, m, w, k, i)
  <2>1. PICK k, i : TakenBy(v, m, w, k, i)
    BY <1>4
  <2>2. /\ k \in DOMAIN v.pending /\ i \in DOMAIN v.entries /\ v.entries[i].uid = v.pending[k]
        /\ w.pending = Shows!RemoveAt(v.pending, k)
        /\ w.log = Append(v.log, <<"entry", v.pending[k]>>)
        /\ Completes(v.entries, i, m.result, w.entries)
    BY <2>1 DEF TakenBy
  <2>3. PICK u \in Nat : u = v.pending[k]
    BY <1>2, <2>2, ElementOfSeq
  <2>4. PICK n \in Marks : n = <<"entry", u>>
    BY MarksAre
  <2>5. \A y : In(y, w.log) <=> In(y, v.log) \/ y = n
    <3>1. w.log = Append(v.log, n)
      BY <2>2, <2>3, <2>4
    <3> QED BY <1>2, <3>1, WrittenHas
  <2>6. \A l \in DOMAIN v.pending : l # k => In(v.pending[l], w.pending)
    BY <2>2, PendingRemoved
  <2>7. ASSUME NEW j \in DOMAIN v.entries PROVE Visible(w, w.entries[j])
    <3>1. PICK e : e = v.entries[j]
      OBVIOUS
    <3>2. PICK x : x = w.entries[j]
      OBVIOUS
    <3>3. x.kind = e.kind /\ x.pieces = e.pieces /\ x.uid = e.uid
      BY <2>2, <3>1, <3>2 DEF Completes
    <3>4. Shows!Render(x) = Shows!Render(e)
      BY <3>3, RendersSame
    <3>5. SUFFICES ASSUME NEW y, In(y, Shows!Render(e))
                   PROVE  \/ In(y, w.log) \/ In(e.uid, w.pending)
                          \/ e.uid = v.reply /\ In(y, Shows!Lines(v.buf))
      BY <1>1, <3>2, <3>3, <3>4 DEF Visible
    <3>6. Visible(v, e)
      BY <3>1 DEF AllVisible
    <3>7. CASE In(e.uid, v.pending)
      <4>1. y = <<"entry", e.uid>>
        BY <3>1, <3>5, <3>7, PendingRenders
      <4>2. PICK l \in DOMAIN v.pending : v.pending[l] = e.uid
        BY <3>7 DEF In
      <4>3. CASE l = k
        BY <2>3, <2>4, <2>5, <4>1, <4>2, <4>3
      <4>4. CASE l # k
        BY <2>6, <4>2, <4>4
      <4> QED BY <4>3, <4>4
    <3>8. CASE ~In(e.uid, v.pending)
      BY <2>5, <3>5, <3>6, <3>8 DEF Visible
    <3> QED BY <3>7, <3>8
  <2>8. DOMAIN w.entries = DOMAIN v.entries
    BY <2>2, <1>2, LenProperties DEF Completes
  <2> QED BY <2>7, <2>8 DEF AllVisible
<1> QED BY <1>1, <1>3, <1>4

(* What awaits one more.                                                    *)
LEMMA AwaitedAppend ==
  ASSUME NEW us \in Seq(Nat), NEW u \in Nat
  PROVE  Awaited(Append(us, u)) = Append(Awaited(us), <<"entry", u>>)
<1>1. PICK n \in Nat : n = Len(us) /\ DOMAIN us = 1..n
  BY LenProperties
<1>2. PICK t : t = Append(us, u)
  OBVIOUS
<1>3. /\ t \in Seq(Nat) /\ Len(t) = n + 1 /\ DOMAIN t = 1..(n + 1) /\ t[n + 1] = u
      /\ \A i \in 1..n : t[i] = us[i]
  BY <1>1, <1>2, AppendProperties, LenProperties
<1>4. PICK m \in Marks : m = <<"entry", u>>
  BY MarksAre
<1>5. PICK a \in Seq(Marks) : a = Awaited(us) /\ Len(a) = n
  BY <1>1, AwaitedIs
<1>6. PICK b : b = Append(a, m)
  OBVIOUS
<1>7. /\ b \in Seq(Marks) /\ Len(b) = n + 1 /\ b[n + 1] = m /\ \A i \in 1..n : b[i] = a[i]
  BY <1>5, <1>6, AppendProperties
<1>8. PICK c \in Seq(Marks) : c = Awaited(t) /\ Len(c) = n + 1
  BY <1>3, AwaitedIs
<1>9. \A i \in 1..(n + 1) : c[i] = b[i]
  <2>1. \A i \in 1..n : a[i] = <<"entry", us[i]>>
    BY <1>1, <1>5 DEF Awaited
  <2>2. \A i \in 1..(n + 1) : c[i] = <<"entry", t[i]>>
    BY <1>3, <1>8 DEF Awaited
  <2>3. ASSUME NEW i \in 1..(n + 1) PROVE c[i] = b[i]
    <3>1. CASE i \in 1..n
      BY <1>3, <1>7, <2>1, <2>2, <3>1
    <3>2. CASE i = n + 1
      BY <1>3, <1>4, <1>7, <2>2, <3>2
    <3> QED BY <3>1, <3>2
  <2> QED BY <2>3
<1>10. b = c
  BY <1>7, <1>8, <1>9, SeqEqual
<1> QED BY <1>2, <1>4, <1>5, <1>6, <1>8, <1>10

(* What awaits nothing.                                                     *)
LEMMA AwaitedNone == Awaited(<<>>) = <<>>
<1>1. PICK s : s = <<>>
  OBVIOUS
<1>2. s \in Seq(Nat) /\ Len(s) = 0
  BY <1>1
<1>3. Awaited(s) \in Seq(Marks) /\ Len(Awaited(s)) = 0
  BY <1>2, AwaitedIs
<1> QED BY <1>1, <1>3, EmptySeq

(* Each makes one mark.                                                     *)
LEMMA MarkMakes == Makes(MarkOf, Nat, Marks)
BY MarksAre DEF MarkOf, Makes

(* Together they are what is awaited.                                       *)
LEMMA MarksFlat ==
  ASSUME NEW us \in Seq(Nat)
  PROVE  FlatMap(MarkOf, us) = Awaited(us)
<1> DEFINE A == {s \in Seq(Nat) : FlatMap(MarkOf, s) = Awaited(s)}
<1>1. <<>> \in A
  <2>1. PICK s : s = <<>>
    OBVIOUS
  <2>2. s \in Seq(Nat) /\ FlatMap(MarkOf, s) = <<>>
    BY <2>1, MarkMakes, FlatMapType
  <2> QED BY <2>1, <2>2, AwaitedNone
<1>2. ASSUME NEW s \in A, NEW e \in Nat PROVE Append(s, e) \in A
  <2>1. FlatMap(MarkOf, Append(s, e)) = Cat(FlatMap(MarkOf, s), MarkOf[e])
    BY MarkMakes, FlatMapAppend
  <2>2. PICK m \in Marks : m = <<"entry", e>>
    BY MarksAre
  <2>3. PICK a \in Seq(Marks) : a = Awaited(s)
    BY AwaitedIs
  <2>4. Append(a, m) = Cat(a, <<m>>)
    BY AppendIsConcat DEF Cat
  <2>5. MarkOf[e] = <<m>>
    BY <2>2 DEF MarkOf
  <2>6. Awaited(Append(s, e)) = Append(a, m)
    BY <2>2, <2>3, AwaitedAppend
  <2>7. Append(s, e) \in Seq(Nat)
    BY AppendProperties
  <2> QED BY <2>1, <2>3, <2>4, <2>5, <2>6, <2>7
<1>3. A \in SUBSET Seq(Nat)
  OBVIOUS
<1> HIDE DEF A
<1>4. A = Seq(Nat)
  BY <1>1, <1>2, <1>3, InductionOnSeq
<1> QED BY <1>4 DEF A

(* It is a part of a log, and together it is what RenderAll writes.         *)
LEMMA LooksMake ==
  /\ Makes(Looks, Entries, Marks)
  /\ \A es \in Seq(Entries) : /\ Shows!RenderAll(es) = FlatMap(Looks, es)
                              /\ Shows!RenderAll(es) \in Seq(Marks)
<1>1. PICK us : us = <<>>
  OBVIOUS
<1>2. PICK g : g = RenderOf(us)
  OBVIOUS
<1>3. us \in Seq(Nat) /\ \A y : ~In(y, us)
  BY <1>1 DEF In
<1>4. ASSUME NEW e \in Entries PROVE ~Shows!Contains(us, e.uid)
  <2>1. PICK u \in Nat : u = e.uid
    BY EntryFields
  <2> QED BY <1>3, <2>1, ContainsIn
<1>5. g = Looks
  BY <1>2, <1>4 DEF RenderOf, Looks
<1>6. Makes(Looks, Entries, Marks)
  BY <1>2, <1>5, RenderMakes
<1>7. ASSUME NEW es \in Seq(Entries)
      PROVE  /\ Shows!RenderAll(es) = FlatMap(Looks, es)
             /\ Shows!RenderAll(es) \in Seq(Marks)
  BY <1>1, <1>2, <1>5, RenderIs DEF Shows!RenderAll
<1> QED BY <1>6, <1>7

(* One more entry shows itself after the others.                            *)
LEMMA ShowsOneMore ==
  ASSUME NEW es \in Seq(Entries), NEW x \in Entries, NEW t, t = Append(es, x)
  PROVE  Shows!RenderAll(t) = Cat(Shows!RenderAll(es), Shows!Render(x))
<1>1. t \in Seq(Entries)
  BY AppendProperties
<1>2. FlatMap(Looks, Append(es, x)) = Cat(FlatMap(Looks, es), Looks[x])
  BY LooksMake, FlatMapAppend
<1> QED BY <1>1, <1>2, LooksMake DEF Looks

(* Entries that look the same show the same.                                *)
LEMMA ShowsSame ==
  ASSUME NEW es \in Seq(Entries), NEW t \in Seq(Entries), Len(t) = Len(es),
         \A i \in 1..Len(es) : Shows!Render(t[i]) = Shows!Render(es[i])
  PROVE  Shows!RenderAll(t) = Shows!RenderAll(es)
<1>1. PICK n \in Nat : n = Len(es) /\ \A i \in 1..n : es[i] \in Entries /\ t[i] \in Entries
  BY LenProperties, ElementOfSeq
<1>2. \A i \in 1..Len(t) : Looks[t[i]] = Looks[es[i]]
  BY <1>1 DEF Looks
<1>3. FlatMap(Looks, t) = FlatMap(Looks, es)
  BY <1>2, FlatMapSame
<1> QED BY <1>3, LooksMake

(* Then everything is what _rerender writes, and what is waited for.        *)
LEMMA TailRendered ==
  ASSUME NEW es \in Seq(Entries), NEW us \in Seq(Nat), UidsRise(es), IsTail(us, es),
         \A k \in DOMAIN us : Has(es, us[k], "block")
  PROVE  Shows!RenderAll(es) = Cat(Shows!RenderBut(es, us), Awaited(us))
<1>1. PICK n \in Nat, m \in Nat : /\ n = Len(es) /\ DOMAIN es = 1..n /\ m = Len(us)
                                  /\ DOMAIN us = 1..m /\ m <= n
  BY LenProperties DEF IsTail
<1>2. PICK d \in Nat : d = n - m
  BY <1>1
<1>3. PICK b : b = SubSeq(es, 1, d)
  OBVIOUS
<1>4. PICK c : c = SubSeq(es, d + 1, n)
  OBVIOUS
<1>5. b \in Seq(Entries) /\ Len(b) = d /\ \A i \in 1..d : b[i] = es[i]
  BY <1>1, <1>2, <1>3, SubSeqProperties
<1>6. c \in Seq(Entries) /\ Len(c) = m /\ \A i \in 1..m : c[i] = es[d + i]
  BY <1>1, <1>2, <1>4, SubSeqProperties
<1>7. es = Cat(b, c)
  <2>1. 1 \in 1..(Len(es) + 1) /\ d \in (1 - 1)..Len(es) /\ n \in d..Len(es)
    BY <1>1, <1>2
  <2>2. SubSeq(es, 1, d) \o SubSeq(es, d + 1, n) = SubSeq(es, 1, n)
    BY <2>1, ConcatAdjacentSubSeq
  <2>3. SubSeq(es, 1, n) = es
    BY <1>1, SubSeqFull
  <2> QED BY <1>3, <1>4, <2>2, <2>3 DEF Cat
<1>8. PICK g : g = RenderOf(us)
  OBVIOUS
<1>9. /\ Makes(g, Entries, Marks) /\ Makes(Looks, Entries, Marks) /\ Makes(MarkOf, Nat, Marks)
      /\ Shows!RenderBut(es, us) = FlatMap(g, es) /\ Shows!RenderAll(es) = FlatMap(Looks, es)
  BY <1>8, RenderMakes, RenderIs, LooksMake, MarkMakes
<1>10. \A k \in 1..m : c[k].uid = us[k]
  BY <1>1, <1>2, <1>6 DEF IsTail
<1>11. \A i \in 1..n : es[i] \in Entries /\ es[i].uid \in Nat
  BY <1>1, ElementOfSeq, EntryFields
<1>12. ASSUME NEW i \in 1..d PROVE g[b[i]] = Looks[b[i]]
  <2>1. \A k \in 1..m : es[i].uid # us[k]
    <3>1. ASSUME NEW k \in 1..m PROVE es[i].uid # us[k]
      <4>1. i \in 1..n /\ d + k \in 1..n /\ i < d + k
        BY <1>1, <1>2
      <4>2. es[i].uid < es[d + k].uid
        BY <1>1, <4>1 DEF UidsRise
      <4>3. es[d + k].uid = us[k]
        BY <1>6, <1>10
      <4> QED BY <1>11, <4>1, <4>2, <4>3
    <3> QED BY <3>1
  <2>2. ~In(es[i].uid, us)
    BY <1>1, <2>1 DEF In
  <2>3. ~Shows!Contains(us, es[i].uid)
    BY <2>2, ContainsIn
  <2>4. es[i] \in Entries /\ b[i] = es[i]
    BY <1>1, <1>2, <1>5, <1>11
  <2> QED BY <1>8, <2>3, <2>4 DEF RenderOf, Looks
<1>13. FlatMap(g, b) = FlatMap(Looks, b)
  BY <1>5, LenProperties, <1>12 DEF FlatMap
<1>14. ASSUME NEW k \in 1..m PROVE g[c[k]] = <<>> /\ Looks[c[k]] = MarkOf[us[k]]
  <2>1. PICK u \in Nat : u = us[k] /\ c[k].uid = u
    BY <1>1, <1>10, ElementOfSeq
  <2>2. c[k] \in Entries
    BY <1>6, ElementOfSeq
  <2>3. Shows!Contains(us, u)
    BY <1>1, <2>1, ContainsIn DEF In
  <2>4. PICK j \in 1..n : es[j].uid = u /\ es[j].kind = "block"
    BY <1>1, <2>1 DEF Has
  <2>5. c[k] = es[d + k] /\ d + k \in 1..n
    BY <1>1, <1>2, <1>6
  <2>6. j = d + k
    BY <1>1, <2>1, <2>4, <2>5, UidsDiffer
  <2>7. Shows!Render(c[k]) = <<<<"entry", u>>>>
    BY <2>1, <2>2, <2>4, <2>5, <2>6, RenderedEntry
  <2> QED BY <1>8, <2>1, <2>2, <2>3, <2>7 DEF RenderOf, Looks, MarkOf
<1>15. FlatMap(g, c) = <<>>
  <2>1. PICK s : s = FlatMap(g, c)
    OBVIOUS
  <2>2. s \in Seq(Marks)
    BY <1>6, <1>9, <2>1, FlatMapType
  <2>3. ASSUME NEW y PROVE ~In(y, s)
    <3>1. DOMAIN c = 1..m
      BY <1>6, LenProperties
    <3>2. \A k \in DOMAIN c : ~In(y, g[c[k]])
      BY <1>14, <3>1 DEF In
    <3> QED BY <1>6, <1>9, <2>1, <3>2, FlatMapRange
  <2> QED BY <2>1, <2>2, <2>3, NothingIn
<1>16. FlatMap(Looks, c) = Awaited(us)
  <2>1. \A k \in 1..Len(c) : Looks[c[k]] = MarkOf[us[k]]
    BY <1>6, <1>14
  <2>2. FlatMap(Looks, c) = FlatMap(MarkOf, us)
    <3>1. DOMAIN c = 1..m /\ DOMAIN us = 1..m
      BY <1>1, <1>6, LenProperties
    <3>2. \A k \in 1..m : Looks[c[k]] = MarkOf[us[k]]
      BY <1>6, <2>1
    <3> QED BY <3>1, <3>2 DEF FlatMap
  <2> QED BY <2>2, MarksFlat
<1>17. FlatMap(g, es) = Cat(FlatMap(g, b), FlatMap(g, c))
  BY <1>5, <1>6, <1>7, <1>9, FlatMapConcat
<1>18. FlatMap(Looks, es) = Cat(FlatMap(Looks, b), FlatMap(Looks, c))
  BY <1>5, <1>6, <1>7, <1>9, FlatMapConcat
<1>19. FlatMap(g, es) = FlatMap(Looks, b)
  <2>1. PICK s \in Seq(Marks) : s = FlatMap(Looks, b)
    BY <1>5, <1>9, FlatMapType
  <2>2. Cat(s, <<>>) = s
    BY CatProperties
  <2> QED BY <1>13, <1>15, <1>17, <2>1, <2>2
<1> QED BY <1>9, <1>16, <1>18, <1>19

(* Nothing streamed is no lines.                                            *)
LEMMA LinesNone == Shows!Lines(<<>>) = <<>>
<1>1. PICK s : s = <<>>
  OBVIOUS
<1>2. s \in Seq(Shows!Piece) /\ DOMAIN s = {}
  BY <1>1
<1>3. Shows!Blank(s)
  BY <1>2 DEF Shows!Blank
<1> QED BY <1>1, <1>2, <1>3, BlankLines

(* With nothing streamed and nothing waited for, the log is the entries.    *)
LEMMA NothingWaits ==
  ASSUME NEW w \in Views, w.reply = 0, w.pending = <<>>
  PROVE  OrderOk(w) <=> Shows!RenderAll(w.entries) = w.log
<1>1. w.log \in Seq(Marks) /\ Len(w.entries) \in Nat
  BY ViewFields
<1>2. Cat(w.log, <<>>) = w.log
  BY <1>1, CatProperties
<1>3. Len(<<>>) = 0 /\ DOMAIN <<>> = {}
  OBVIOUS
<1>4. IsTail(w.pending, w.entries)
  BY <1>1, <1>3 DEF IsTail
<1> QED BY <1>2, <1>4, AwaitedNone DEF OrderOk

(* _finish_reply keeps the order.                                           *)
LEMMA FinishedOrder ==
  ASSUME NEW v, ViewOk(v), OrderOk(v), NEW f, f = Shows!Finished(v)
  PROVE  OrderOk(f)
<1>1. v \in Views /\ v.entries \in Seq(Entries) /\ v.log \in Seq(Marks) /\ EntriesOk(v)
  BY ViewFields DEF ViewOk
<1>2. f \in Views /\ f.reply = 0 /\ f.pending = v.pending
  BY FinishedIs
<1>3. CASE v.reply = 0
  <2>1. f.entries = v.entries /\ f.log = FlushedLog(v)
    BY <1>3, FinishedIs
  <2>2. Cat(v.log, <<>>) = v.log
    BY <1>1, CatProperties
  <2>3. FlushedLog(v) = v.log
    BY <1>1, <1>3, <2>2, LinesNone DEF EntriesOk, FlushedLog
  <2> QED BY <1>2, <1>3, <2>1, <2>3 DEF OrderOk
<1>4. CASE v.reply # 0
  <2>1. v.pending = <<>> /\ Shows!RenderAll(v.entries) = FlushedLog(v)
    BY <1>4 DEF OrderOk
  <2>2. SUFFICES Shows!RenderAll(f.entries) = f.log
    BY <1>2, <2>1, NothingWaits
  <2>3. CASE f.entries = v.entries /\ f.log = FlushedLog(v)
    BY <2>1, <2>3
  <2>4. CASE f.entries = v.entries /\ f.log = Shows!RenderBut(v.entries, v.pending)
    BY <2>1, <2>4 DEF Shows!RenderAll
  <2>5. CASE /\ Shows!Blank(ReplyText(v)) /\ f.log = FlushedLog(v)
             /\ f.entries = Shows!RemoveAt(v.entries, Shows!Place(v, v.reply))
    <3>1. PICK u : u = v.reply
      OBVIOUS
    <3>2. PICK i : i = Shows!Place(v, u)
      OBVIOUS
    <3>3. UidsRise(v.entries) /\ Has(v.entries, u, "reply")
      BY <1>1, <1>4, <3>1 DEF EntriesOk
    <3>4. i \in DOMAIN v.entries /\ v.entries[i].kind = "reply"
      BY <1>1, <3>2, <3>3, PlaceIs
    <3>5. i \in 1..Len(v.entries)
      BY <1>1, <3>4, LenProperties
    <3>6. PICK e \in Entries : e = v.entries[i]
      BY <1>1, <3>5, ElementOfSeq
    <3>7. Shows!Blank(e.pieces) /\ e.pieces \in Seq(Shows!Piece)
      BY <2>5, <3>1, <3>2, <3>6, EntryFields DEF ReplyText
    <3>8. Shows!Render(e) = <<>>
      BY <3>4, <3>6, <3>7, BlankLines DEF Shows!Render
    <3>9. Looks[v.entries[i]] = <<>>
      BY <3>6, <3>8 DEF Looks
    <3>10. /\ Shows!RemoveAt(v.entries, i) \in Seq(Entries)
           /\ FlatMap(Looks, Shows!RemoveAt(v.entries, i)) = FlatMap(Looks, v.entries)
      BY <1>1, <3>5, <3>9, LooksMake, Removed, FlatMapRemoved
    <3> QED BY <1>1, <2>1, <2>5, <3>1, <3>2, <3>10, LooksMake
  <2> QED BY <1>4, <2>3, <2>4, <2>5, FinishedIs
<1> QED BY <1>1, <1>3, <1>4, ViewFields

(* An entry that is not a reply adds its mark.                              *)
LEMMA ShowsMark ==
  ASSUME NEW es \in Seq(Entries), NEW x \in Entries, x.kind # "reply", NEW t, t = Append(es, x)
  PROVE  Shows!RenderAll(t) = Append(Shows!RenderAll(es), <<"entry", x.uid>>)
<1>1. PICK m \in Marks : m = <<"entry", x.uid>>
  BY RenderedEntry
<1>2. PICK s \in Seq(Marks) : s = Shows!RenderAll(es)
  BY LooksMake
<1>3. Shows!RenderAll(t) = Cat(s, <<m>>)
  BY <1>1, <1>2, ShowsOneMore, RenderedEntry
<1>4. Append(s, m) = Cat(s, <<m>>)
  BY AppendIsConcat DEF Cat
<1> QED BY <1>1, <1>2, <1>3, <1>4

(* An entry that is written when nothing is waited for.                     *)
LEMMA NotedOrder ==
  ASSUME NEW f, ViewOk(f), OrderOk(f), f.reply = 0, f.pending = <<>>,
         NEW e \in Entries, e.kind # "reply", NEW w, Writes(f, e, w)
  PROVE  OrderOk(w)
<1>1. /\ ViewOk(w) /\ w.reply = 0 /\ w.pending = <<>>
      /\ w.log = Append(f.log, <<"entry", f.next>>)
  BY NotedIs
<1>2. PICK x \in Entries : SameBut(x, e, f.next) /\ w.entries = Append(f.entries, x)
  BY NotedIs
<1>3. f \in Views /\ w \in Views /\ f.entries \in Seq(Entries)
  BY <1>1, ViewFields DEF ViewOk
<1>4. x.kind # "reply" /\ x.uid = f.next
  BY <1>2 DEF SameBut
<1>5. Shows!RenderAll(f.entries) = f.log
  BY <1>3, NothingWaits
<1>6. Shows!RenderAll(w.entries) = w.log
  BY <1>1, <1>2, <1>3, <1>4, <1>5, ShowsMark
<1> QED BY <1>1, <1>3, <1>6, NothingWaits

(* A call that is announced is waited for last.                             *)
LEMMA AnnouncedOrder ==
  ASSUME NEW v, ViewOk(v), OrderOk(v), NEW m, m.id \in Nat, m.name \in ToolNames,
         NEW w, w = Shows!Announced(v, m)
  PROVE  OrderOk(w)
<1>1. PICK f : f = Shows!Finished(v)
  OBVIOUS
<1>2. ViewOk(f) /\ OrderOk(f) /\ f.reply = 0
  BY <1>1, FinishedOk, FinishedIs, FinishedOrder
<1>3. /\ f.entries \in Seq(Entries) /\ f.pending \in Seq(Nat) /\ f.next \in Nat /\ f.log \in Seq(Marks)
  BY <1>2, ViewFields DEF ViewOk
<1>4. w.reply = 0 /\ w.log = f.log /\ w.pending = Append(f.pending, f.next) /\ NewBlock(f, m, w)
  BY <1>1, AnnouncedIs
<1>5. PICK x \in Entries : x.kind = "block" /\ x.uid = f.next /\ w.entries = Append(f.entries, x)
  BY <1>4 DEF NewBlock
<1>6. PICK a \in Seq(Marks) : a = Awaited(f.pending)
  BY <1>3, AwaitedIs
<1>7. PICK n \in Marks : n = <<"entry", f.next>>
  BY <1>3, MarksAre
<1>8. Shows!RenderAll(w.entries) = Append(Cat(f.log, a), n)
  BY <1>2, <1>3, <1>5, <1>6, <1>7, ShowsMark DEF OrderOk
<1>9. Awaited(w.pending) = Append(a, n)
  BY <1>3, <1>4, <1>6, <1>7, AwaitedAppend
<1>10. Shows!RenderAll(w.entries) = Cat(w.log, Awaited(w.pending))
  BY <1>3, <1>4, <1>8, <1>9, CatAppend
<1>11. IsTail(w.pending, w.entries)
  <2>1. PICK l \in Nat, k \in Nat : l = Len(f.entries) /\ k = Len(f.pending) /\ k <= l /\ DOMAIN f.pending = 1..k
    BY <1>2, <1>3, LenProperties DEF OrderOk, IsTail
  <2>2. PICK d : d = l - k
    OBVIOUS
  <2>22. d \in Nat /\ d + k = l /\ d + (k + 1) = l + 1 /\ (l + 1) - (k + 1) = d /\ k + 1 <= l + 1
    <3>1. l \in Nat /\ k \in Nat /\ k <= l
      BY <2>1
    <3>2. l - k \in Nat
      BY <3>1
    <3>3. d \in Nat /\ d = l - k
      BY <2>2, <3>2
    <3> QED BY <3>1, <3>3
  <2>3. \A j \in 1..k : f.entries[d + j].uid = f.pending[j]
    BY <1>2, <2>1, <2>2 DEF OrderOk, IsTail
  <2>4. /\ Len(w.entries) = l + 1 /\ w.entries[l + 1] = x
        /\ \A i \in 1..l : w.entries[i] = f.entries[i]
    BY <1>3, <1>5, <2>1, AppendProperties
  <2>5. /\ Len(w.pending) = k + 1 /\ DOMAIN w.pending = 1..(k + 1) /\ w.pending[k + 1] = f.next
        /\ \A i \in 1..k : w.pending[i] = f.pending[i]
    BY <1>3, <1>4, <2>1, AppendProperties, LenProperties
  <2>6. ASSUME NEW j \in 1..(k + 1) PROVE w.entries[d + j].uid = w.pending[j]
    <3>1. CASE j \in 1..k
      <4>1. d + j \in 1..l
        BY <2>22, <3>1
      <4> QED BY <2>3, <2>4, <2>5, <3>1, <4>1
    <3>2. CASE j = k + 1
      BY <2>22, <3>2, <1>5, <2>4, <2>5
    <3> QED BY <3>1, <3>2
  <2>7. Len(w.entries) - Len(w.pending) = d
    BY <2>22, <2>4, <2>5
  <2> QED BY <2>22, <2>4, <2>5, <2>6, <2>7 DEF IsTail
<1> QED BY <1>4, <1>10, <1>11 DEF OrderOk

(* All but the last of a sequence.                                          *)
LEMMA FrontIs ==
  ASSUME NEW T, NEW s \in Seq(T), NEW n \in Nat, n # 0, Len(s) = n, NEW u, u = SubSeq(s, 1, n - 1)
  PROVE  /\ u \in Seq(T) /\ Len(u) = n - 1 /\ \A i \in 1..(n - 1) : u[i] = s[i]
         /\ s = Append(u, s[n])
<1>1. DOMAIN s = 1..n /\ \A i \in 1..n : s[i] \in T
  BY LenProperties, ElementOfSeq
<1>2. PICK x \in T : x = s[n]
  BY <1>1
<1>3. PICK v : v = [i \in 1..(n - 1) |-> s[i]]
  OBVIOUS
<1>4. v \in Seq(T) /\ Len(v) = n - 1 /\ \A i \in 1..(n - 1) : v[i] = s[i]
  BY <1>1, <1>3
<1>5. u = v
  BY <1>3
<1>6. PICK t : t = Append(v, x)
  OBVIOUS
<1>7. t \in Seq(T) /\ Len(t) = n /\ t[n] = x /\ \A i \in 1..(n - 1) : t[i] = v[i]
  BY <1>4, <1>6, AppendProperties
<1>8. \A i \in 1..n : t[i] = s[i]
  BY <1>4, <1>7, <1>2
<1>9. t = s
  BY <1>7, <1>8, SeqEqual
<1> QED BY <1>2, <1>4, <1>5, <1>6, <1>9

(* The end of a turn waits for nothing any more.                            *)
LEMMA EndedOrder ==
  ASSUME NEW v, ViewOk(v), OrderOk(v), NEW w, w = Shows!Ended(v)
  PROVE  OrderOk(w)
<1>1. PICK f : f = Shows!Finished(v)
  OBVIOUS
<1>2. ViewOk(f) /\ OrderOk(f) /\ f.reply = 0
  BY <1>1, FinishedOk, FinishedIs, FinishedOrder
<1>3. f.entries \in Seq(Entries)
  BY <1>2, ViewFields DEF ViewOk
<1>4. /\ w.log = Append(Cat(f.log, Awaited(f.pending)), <<"entry", f.next>>)
      /\ w \in Views /\ w.reply = 0 /\ w.pending = <<>>
  BY <1>1, EndedIs DEF ViewOk
<1>5. PICK x \in Entries : x.kind = "note" /\ x.uid = f.next /\ w.entries = Append(f.entries, x)
  BY <1>1, EndedIs
<1>6. Shows!RenderAll(w.entries) = Append(Shows!RenderAll(f.entries), <<"entry", f.next>>)
  BY <1>3, <1>5, ShowsMark
<1>7. Shows!RenderAll(w.entries) = w.log
  BY <1>2, <1>4, <1>6 DEF OrderOk
<1> QED BY <1>4, <1>7, NothingWaits

(* A reply that grows is the last entry, and grows in the log.              *)
LEMMA DeltaOrder ==
  ASSUME NEW v, ViewOk(v), OrderOk(v), v.pending = <<>>, NEW p \in Shows!Piece,
         NEW g, g = Shows!Grown(v, p), NEW k \in 0..Len(g.buf), NEW w, w = Shows!Drained(g, k)
  PROVE  OrderOk(w)
<1>1. PICK r : r = Shows!ReplyEntry(v)
  OBVIOUS
<1>2. /\ ViewOk(r) /\ r.reply # 0 /\ r.log = v.log /\ r.pending = v.pending /\ r.buf = v.buf
      /\ IF v.reply # 0 THEN r = v
         ELSE /\ r.reply = v.next
              /\ \E x \in Entries : /\ x.kind = "reply" /\ x.pieces = <<>> /\ x.uid = v.next
                                    /\ r.entries = Append(v.entries, x)
  BY <1>1, ReplyEntryIs
<1>3. r \in Views /\ v \in Views /\ r.entries \in Seq(Entries) /\ v.entries \in Seq(Entries) /\ r.log \in Seq(Marks)
      /\ r.buf \in Seq(Shows!Piece)
  BY <1>2, ViewFields DEF ViewOk
<1>4. Shows!RenderAll(r.entries) = FlushedLog(r) /\ ReplyLast(r)
  <2>1. CASE v.reply # 0
    BY <1>2, <2>1 DEF OrderOk
  <2>2. CASE v.reply = 0
    <3>1. PICK x \in Entries : /\ x.kind = "reply" /\ x.pieces = <<>> /\ x.uid = v.next
                               /\ r.entries = Append(v.entries, x)
      BY <1>2, <2>2
    <3>2. Shows!Render(x) = <<>>
      BY <3>1, LinesNone DEF Shows!Render
    <3>3. PICK l \in Seq(Marks) : l = v.log
      BY <1>3, ViewFields
    <3>4. Cat(l, <<>>) = l
      BY CatProperties
    <3>5. Shows!RenderAll(v.entries) = l
      BY <1>3, <2>2, <3>3, NothingWaits
    <3>6. Shows!RenderAll(r.entries) = l
      BY <1>3, <3>1, <3>2, <3>4, <3>5, ShowsOneMore
    <3>7. FlushedLog(r) = l
      BY <1>2, <2>2, <3>3, <3>4, LinesNone DEF FlushedLog, ViewOk, EntriesOk
    <3>8. Len(v.entries) \in Nat /\ Len(r.entries) = Len(v.entries) + 1 /\ r.entries[Len(v.entries) + 1] = x
      BY <1>3, <3>1, AppendProperties, LenProperties
    <3> QED BY <1>2, <2>2, <3>1, <3>6, <3>7, <3>8 DEF ReplyLast
  <2> QED BY <2>1, <2>2
<1>5. /\ ViewOk(g) /\ g.reply = r.reply /\ g.log = r.log /\ g.pending = r.pending
      /\ g.buf = Append(r.buf, p) /\ Len(g.entries) = Len(r.entries)
      /\ \A i \in DOMAIN r.entries :
              /\ g.entries[i].uid = r.entries[i].uid /\ g.entries[i].kind = r.entries[i].kind
              /\ g.entries[i].pieces = IF r.entries[i].uid # r.reply THEN r.entries[i].pieces
                                       ELSE Append(r.entries[i].pieces, p)
  BY <1>1, GrownIs
<1>6. PICK n \in Nat : n = Len(r.entries) /\ DOMAIN r.entries = 1..n /\ n # 0
  <2>1. PICK j \in DOMAIN r.entries : r.entries[j].uid = r.reply
    BY <1>2 DEF ViewOk, EntriesOk, Has
  <2> QED BY <1>3, <2>1, LenProperties
<1>7. PICK e \in Entries : e = r.entries[n] /\ e.uid = r.reply
  BY <1>3, <1>4, <1>6, ElementOfSeq DEF ReplyLast
<1>8. e.kind = "reply" /\ e.pieces \in Seq(Shows!Piece)
  <2>1. PICK j \in DOMAIN r.entries : r.entries[j].uid = r.reply /\ r.entries[j].kind = "reply"
    BY <1>2 DEF ViewOk, EntriesOk, Has
  <2>2. n \in DOMAIN r.entries /\ UidsRise(r.entries)
    BY <1>2, <1>6 DEF ViewOk, EntriesOk
  <2>3. j = n
    BY <1>3, <1>7, <2>1, <2>2, UidsDiffer
  <2> QED BY <1>7, <2>1, <2>3, EntryFields
<1>9. g.entries \in Seq(Entries) /\ g.log \in Seq(Marks) /\ g \in Views
  BY <1>5, ViewFields DEF ViewOk
<1>10. PICK x \in Entries : x = g.entries[n]
  BY <1>5, <1>6, <1>9, ElementOfSeq
<1>11. x.uid = r.reply /\ x.kind = "reply" /\ x.pieces = Append(e.pieces, p)
  <2>1. n \in DOMAIN r.entries
    BY <1>6
  <2>2. /\ g.entries[n].uid = r.entries[n].uid /\ g.entries[n].kind = r.entries[n].kind
        /\ g.entries[n].pieces = IF r.entries[n].uid # r.reply THEN r.entries[n].pieces
                                 ELSE Append(r.entries[n].pieces, p)
    BY <1>5, <2>1
  <2> QED BY <1>7, <1>8, <1>10, <2>2
<1>12. ASSUME NEW i \in 1..(n - 1) PROVE Shows!Render(g.entries[i]) = Shows!Render(r.entries[i])
  <2>1. i \in 1..n /\ n \in 1..n /\ i # n
    BY <1>6
  <2>2. r.entries[i].uid # r.reply
    BY <1>2, <1>3, <1>6, <1>7, <2>1, UidsDiffer DEF ViewOk, EntriesOk
  <2> QED BY <1>5, <1>6, <2>1, <2>2, RendersSame
<1>13. PICK q \in Seq(Marks), o \in Seq(Marks), b \in Seq(Marks) :
         q = Shows!Render(e) /\ o = LineOf[p] /\ b = Shows!Lines(r.buf)
  BY <1>8, LinesAre, LineMakes, <1>3 DEF Shows!Render, Makes
<1>14. Shows!Render(x) = Cat(q, o)
  BY <1>8, <1>11, <1>13, LinesAppend DEF Shows!Render
<1>15. Shows!RenderAll(g.entries) = Cat(Shows!RenderAll(r.entries), o)
  <2>1. PICK u : u = SubSeq(r.entries, 1, n - 1)
    OBVIOUS
  <2>2. PICK t : t = SubSeq(g.entries, 1, n - 1)
    OBVIOUS
  <2>3. /\ u \in Seq(Entries) /\ Len(u) = n - 1 /\ \A i \in 1..(n - 1) : u[i] = r.entries[i]
        /\ t \in Seq(Entries) /\ Len(t) = n - 1 /\ \A i \in 1..(n - 1) : t[i] = g.entries[i]
    BY <1>3, <1>5, <1>6, <1>9, <2>1, <2>2, FrontIs, SMTT(20)
  <2>4. r.entries = Append(u, e) /\ g.entries = Append(t, x)
    <3>1. r.entries = Append(u, r.entries[n])
      BY <1>3, <1>6, <2>1, FrontIs
    <3>2. Len(g.entries) = n
      BY <1>5, <1>6
    <3>3. g.entries = Append(t, g.entries[n])
      BY <1>6, <1>9, <2>2, <3>2, FrontIs
    <3> QED BY <1>7, <1>10, <3>1, <3>3
  <2>5. \A i \in 1..Len(u) : Shows!Render(t[i]) = Shows!Render(u[i])
    BY <1>12, <2>3
  <2>6. PICK s \in Seq(Marks) : s = Shows!RenderAll(u)
    BY <2>3, LooksMake
  <2>7. Shows!RenderAll(t) = s
    BY <2>3, <2>5, <2>6, ShowsSame
  <2>8. Shows!RenderAll(r.entries) = Cat(s, q)
    BY <1>13, <2>3, <2>4, <2>6, ShowsOneMore
  <2>9. Shows!RenderAll(g.entries) = Cat(s, Cat(q, o))
    BY <1>14, <2>3, <2>4, <2>7, ShowsOneMore
  <2>10. Cat(Cat(s, q), o) = Cat(s, Cat(q, o))
    BY CatProperties
  <2> QED BY <2>8, <2>9, <2>10
<1>16. FlushedLog(g) = Cat(FlushedLog(r), o)
  <2>1. Shows!Lines(g.buf) = Cat(b, o)
    BY <1>3, <1>5, <1>13, LinesAppend
  <2>2. PICK l \in Seq(Marks) : l = r.log
    BY <1>3
  <2>3. Cat(Cat(l, b), o) = Cat(l, Cat(b, o))
    BY CatProperties
  <2> QED BY <1>5, <1>13, <2>1, <2>2, <2>3 DEF FlushedLog
<1>17. /\ w.entries = g.entries /\ w.reply = g.reply /\ w.pending = g.pending
       /\ FlushedLog(w) = FlushedLog(g)
  BY <1>2, <1>5, DrainedIs
<1>18. ReplyLast(w)
  BY <1>5, <1>6, <1>10, <1>11, <1>17 DEF ReplyLast
<1> QED BY <1>2, <1>4, <1>5, <1>15, <1>16, <1>17, <1>18 DEF OrderOk

(* A call that is observed first is the first that is waited for.           *)
LEMMA TakenOrder ==
  ASSUME NEW v, ViewOk(v), OrderOk(v), v.reply = 0, NEW m,
         NEW w, w \in Views, w.reply = 0, NEW k, NEW i, TakenBy(v, m, w, k, i), k = 1
  PROVE  OrderOk(w)
<1>1. /\ 1 \in DOMAIN v.pending /\ w.pending = Shows!RemoveAt(v.pending, 1)
      /\ w.log = Append(v.log, <<"entry", v.pending[1]>>)
      /\ Completes(v.entries, i, m.result, w.entries)
  BY DEF TakenBy
<1>2. /\ v.entries \in Seq(Entries) /\ v.log \in Seq(Marks) /\ v.pending \in Seq(Nat)
  BY ViewFields DEF ViewOk
<1>3. PICK l \in Nat, n \in Nat : /\ l = Len(v.entries) /\ n = Len(v.pending) /\ n # 0 /\ n <= l
                                  /\ DOMAIN v.pending = 1..n /\ DOMAIN v.entries = 1..l
  BY <1>1, <1>2, LenProperties DEF OrderOk, IsTail
<1>4. PICK us \in Seq(Nat) : us = w.pending
  BY <1>1, <1>2, <1>3, Removed
<1>5. /\ Len(us) = n - 1 /\ DOMAIN us = 1..(n - 1)
      /\ \A j \in 1..(n - 1) : us[j] = v.pending[j + 1]
  <2>1. PICK s \in Seq(Nat) : s = v.pending /\ Len(s) = n /\ 1 \in 1..Len(s)
    BY <1>2, <1>3
  <2>2. us = Shows!RemoveAt(s, 1)
    BY <1>1, <1>4, <2>1
  <2>3. /\ Len(us) = Len(s) - 1 /\ DOMAIN us = 1..(Len(s) - 1)
        /\ \A j \in 1..(Len(s) - 1) : us[j] = IF j < 1 THEN s[j] ELSE s[j + 1]
    BY <2>1, <2>2, Removed
  <2>4. \A j \in 1..(n - 1) : ~(j < 1)
    BY <1>3
  <2> QED BY <2>1, <2>3, <2>4
<1>6. us = Tail(v.pending)
  <2>1. v.pending # <<>>
    BY <1>3
  <2>2. PICK t \in Seq(Nat) : t = Tail(v.pending)
    BY <1>2, <2>1, HeadAndTail
  <2>3. Len(t) = n - 1 /\ \A j \in 1..(n - 1) : t[j] = v.pending[j + 1]
    BY <1>2, <1>3, <2>1, <2>2, HeadAndTail
  <2>4. us = t
    BY <1>5, <2>3, SeqEqual
  <2> QED BY <2>2, <2>4
<1>7. PICK u \in Nat : u = v.pending[1] /\ u = Head(v.pending)
  BY <1>2, <1>3, ElementOfSeq
<1>8. PICK a \in Seq(Marks) : a = Awaited(us)
  BY AwaitedIs
<1>9. PICK x \in Marks : x = <<"entry", u>>
  BY MarksAre
<1>10. PICK o \in Seq(Marks) : o = <<x>>
  BY InOne
<1>11. Awaited(v.pending) = Cat(o, a)
  <2>1. FlatMap(MarkOf, v.pending) = Cat(MarkOf[Head(v.pending)], FlatMap(MarkOf, Tail(v.pending)))
    BY <1>2, <1>3, MarkMakes, FlatMapHead
  <2>2. MarkOf[u] = o
    BY <1>9, <1>10 DEF MarkOf
  <2>3. FlatMap(MarkOf, us) = a
    BY <1>8, MarksFlat
  <2>4. FlatMap(MarkOf, v.pending) = Awaited(v.pending)
    BY <1>2, MarksFlat
  <2> QED BY <1>6, <1>7, <2>1, <2>2, <2>3, <2>4
<1>12. PICK g \in Seq(Marks) : g = v.log
  BY <1>2
<1>13. w.log = Cat(g, o)
  BY <1>1, <1>7, <1>9, <1>12, AppendIsConcat, <1>10 DEF Cat
<1>14. Shows!RenderAll(w.entries) = Shows!RenderAll(v.entries)
  <2>1. w.entries \in Seq(Entries) /\ Len(w.entries) = Len(v.entries)
    BY <1>1 DEF Completes
  <2>2. \A j \in 1..l : Shows!Render(w.entries[j]) = Shows!Render(v.entries[j])
    <3>1. ASSUME NEW j \in 1..l PROVE Shows!Render(w.entries[j]) = Shows!Render(v.entries[j])
      BY <1>1, <1>3, RendersSame DEF Completes
    <3> QED BY <3>1
  <2> QED BY <1>2, <1>3, <2>1, <2>2, ShowsSame
<1>15. Cat(g, Cat(o, a)) = Cat(Cat(g, o), a)
  BY CatProperties
<1>16. Shows!RenderAll(w.entries) = Cat(w.log, Awaited(w.pending))
  BY <1>4, <1>8, <1>11, <1>12, <1>13, <1>14, <1>15 DEF OrderOk
<1>17. IsTail(us, w.entries)
  <2>1. PICK d : d = l - n
    OBVIOUS
  <2>2. d \in Nat /\ l - (n - 1) = d + 1 /\ n - 1 <= l /\ n - 1 \in Nat
    BY <1>3, <2>1
  <2>3. \A j \in 1..n : v.entries[d + j].uid = v.pending[j]
    BY <1>3, <2>1 DEF OrderOk, IsTail
  <2>4. ASSUME NEW j \in 1..(n - 1) PROVE w.entries[(d + 1) + j].uid = us[j]
    <3>1. j + 1 \in 1..n /\ d + (j + 1) = (d + 1) + j
      BY <1>3, <2>2, SMTT(30)
    <3>2. (d + 1) + j \in 1..l
      <4>1. d + n = l
        BY <1>3, <2>1
      <4> QED BY <1>3, <2>2, <4>1
    <3>3. w.entries[(d + 1) + j].uid = v.entries[(d + 1) + j].uid
      BY <1>1, <1>3, <3>2 DEF Completes
    <3>4. v.entries[d + (j + 1)].uid = v.pending[j + 1]
      BY <2>3, <3>1
    <3> QED BY <1>5, <3>1, <3>3, <3>4
  <2>5. Len(w.entries) = l
    BY <1>1, <1>3 DEF Completes
  <2> QED BY <1>5, <2>2, <2>4, <2>5 DEF IsTail
<1> QED BY <1>4, <1>16, <1>17 DEF OrderOk

(* An outcome of the first call that is waited for keeps the order.         *)
LEMMA ObservedOrder ==
  ASSUME NEW v, ViewOk(v), OrderOk(v), v.reply = 0,
         NEW m, m.name \in ToolNames, m.result \in Nat,
         v.pending = <<>> \/ Shows!NameOf(v, Head(v.pending)) = m.name,
         NEW w, w = Shows!Observed(v, m)
  PROVE  OrderOk(w)
<1>1. /\ ViewOk(w) /\ w.reply = 0
      /\ \/ Shows!PendingOf(v, m.name) = {} /\ MadeOnTheSpot(v, m, w)
         \/ \E k, i : TakenBy(v, m, w, k, i)
  BY ObservedIs
<1>2. /\ v \in Views /\ w \in Views /\ v.entries \in Seq(Entries) /\ v.pending \in Seq(Nat)
      /\ DOMAIN v.pending = 1..Len(v.pending) /\ Len(v.pending) \in Nat
  BY <1>1, ViewFields DEF ViewOk
<1>3. ASSUME v.pending # <<>>
      PROVE  1 \in DOMAIN v.pending /\ Shows!NameOf(v, v.pending[1]) = m.name
  BY <1>2, <1>3
<1>4. CASE Shows!PendingOf(v, m.name) = {} /\ MadeOnTheSpot(v, m, w)
  <2>1. v.pending = <<>>
    BY <1>3, <1>4 DEF Shows!PendingOf
  <2>2. w.pending = <<>> /\ w.log = Append(v.log, <<"entry", v.next>>)
    BY <1>4, <2>1 DEF MadeOnTheSpot
  <2>3. PICK x \in Entries : x.kind = "block" /\ x.uid = v.next /\ w.entries = Append(v.entries, x)
    BY <1>4 DEF MadeOnTheSpot
  <2>4. Shows!RenderAll(v.entries) = v.log
    BY <1>2, <2>1, NothingWaits
  <2>5. Shows!RenderAll(w.entries) = w.log
    BY <1>2, <2>2, <2>3, <2>4, ShowsMark
  <2> QED BY <1>1, <1>2, <2>2, <2>5, NothingWaits
<1>5. CASE \E k, i : TakenBy(v, m, w, k, i)
  <2>1. PICK k, i : TakenBy(v, m, w, k, i)
    BY <1>5
  <2>2. k \in 1..Len(v.pending) /\ v.pending # <<>>
    BY <1>2, <2>1 DEF TakenBy
  <2>3. 1 \in DOMAIN v.pending /\ Shows!NameOf(v, v.pending[1]) = m.name
    BY <1>3, <2>2
  <2>4. PICK l : l = Shows!Place(v, v.pending[1])
    OBVIOUS
  <2>5. l \in DOMAIN v.entries /\ v.entries[l].uid = v.pending[1]
    BY <2>3, <2>4, PendingEntry
  <2>6. v.entries[l].name = m.name
    BY <2>3, <2>4 DEF Shows!NameOf
  <2>7. k <= 1
    BY <2>1, <2>3, <2>5, <2>6 DEF TakenBy
  <2>8. k = 1
    BY <1>2, <2>2, <2>7
  <2> QED BY <1>1, <1>2, <2>1, <2>8, TakenOrder
<1> QED BY <1>1, <1>4, <1>5

(* A log that is written anew while no reply is streamed is in order.       *)
LEMMA RerenderedOrder ==
  ASSUME NEW v, ViewOk(v), OrderOk(v), v.reply = 0, NEW w, w = Shows!Rerendered(v)
  PROVE  OrderOk(w)
BY ViewFields, RerenderedIs, TailRendered DEF ViewOk, EntriesOk, OrderOk, PendingOk

(* The log of the first view is its only entry.                             *)
LEMMA EmptyOrder == AllVisible(Shows!Empty) /\ OrderOk(Shows!Empty)
<1>1. PICK v : v = Shows!Empty
  OBVIOUS
<1>2. ViewOk(v) /\ v.reply = 0 /\ v.pending = <<>> /\ v.log = <<<<"entry", 1>>>>
  BY <1>1, EmptyOk
<1>3. PICK x \in Entries : x.kind = "note" /\ x.uid = 1 /\ v.entries = <<x>>
  BY <1>1, EmptyOk
<1>4. PICK es : es = <<>>
  OBVIOUS
<1>5. es \in Seq(Entries) /\ Append(es, x) = <<x>> /\ DOMAIN v.entries = {1}
  BY <1>3, <1>4
<1>6. v \in Views
  BY <1>2 DEF ViewOk
<1>7. Shows!RenderAll(v.entries) = v.log
  BY LooksMake, FlatMapOne, <1>3, RenderedEntry, <1>6, ViewFields, <1>2 DEF Looks
<1>8. Visible(v, x)
  <2>1. PICK n \in Marks : n = <<"entry", 1>>
    BY MarksAre
  <2>2. v.log = <<n>>
    BY <1>2, <2>1
  <2> QED BY <1>3, <2>1, <2>2, InOne, RendersMark DEF Visible
<1>9. AllVisible(v)
  BY <1>3, <1>5, <1>8 DEF AllVisible
<1> QED BY <1>1, <1>2, <1>6, <1>7, <1>9, NothingWaits

(* Where the elements of a sequence that is prolonged are.                  *)
LEMMA CatIs ==
  ASSUME NEW T, NEW s \in Seq(T), NEW t \in Seq(T), NEW v, v = Cat(s, t),
         NEW n, n = Len(s), NEW m, m = Len(t)
  PROVE  /\ v \in Seq(T) /\ Len(v) = n + m /\ DOMAIN v = 1..(n + m)
         /\ \A i \in 1..n : v[i] = s[i]
         /\ \A i \in 1..m : v[n + i] = t[i]
<1>1. n \in Nat /\ m \in Nat
  BY LenProperties
<1>2. v = s \o t
  BY DEF Cat
<1>3. /\ v \in Seq(T) /\ Len(v) = n + m
      /\ \A i \in 1..(n + m) : v[i] = IF i <= n THEN s[i] ELSE t[i - n]
  BY <1>1, <1>2, ConcatProperties
<1>4. DOMAIN v = 1..(n + m)
  BY <1>3, LenProperties
<1>5. \A i \in 1..n : v[i] = s[i]
  BY <1>1, <1>3
<1>6. ASSUME NEW i \in 1..m PROVE v[n + i] = t[i]
  BY <1>1, <1>3
<1> QED BY <1>3, <1>4, <1>5, <1>6

(* Posting keeps the order of the queue.                                    *)
LEMMA SentQueue ==
  ASSUME TypesInv, PromptInv, NoticeInv, stage # "idle", NEW qs, Sends(qs),
         UNCHANGED <<view, stirred>>, stage' = "batch" => partial' = <<>>
  PROVE  PromptInv' /\ NoticeInv'
<1>1. qs \in Seq(PostTypes) /\ posted \in Seq(PostTypes) /\ posted' = Cat(posted, qs)
  BY DEF Sends, TypesInv
<1>2. PICK n \in Nat, m \in Nat : /\ n = Len(posted) /\ m = Len(qs) /\ m # 0
                                  /\ DOMAIN posted = 1..n /\ DOMAIN qs = 1..m
  BY <1>1, LenProperties DEF Sends
<1>3. /\ Len(posted') = n + m /\ DOMAIN posted' = 1..(n + m)
      /\ \A i \in 1..n : posted'[i] = posted[i]
      /\ \A i \in 1..m : posted'[n + i] = qs[i]
  <2>1. PICK s \in Seq(PostTypes), t \in Seq(PostTypes) : s = posted /\ t = qs
    BY <1>1
  <2>2. PICK v : v = Cat(s, t)
    OBVIOUS
  <2>3. n = Len(s) /\ m = Len(t)
    BY <1>2, <2>1
  <2>4. Len(v) = n + m /\ DOMAIN v = 1..(n + m)
    BY <2>2, <2>3, CatIs
  <2>5. \A i \in 1..n : v[i] = s[i]
    BY <2>2, <2>3, CatIs
  <2>6. \A i \in 1..m : v[n + i] = t[i]
    BY <2>2, <2>3, CatIs
  <2>7. v = posted'
    BY <1>1, <2>1, <2>2
  <2> QED BY <2>1, <2>4, <2>5, <2>6, <2>7
<1>4. \A i \in 1..(n + m) : i \in 1..n \/ \E j \in 1..m : i = n + j
  <2>1. ASSUME NEW i \in 1..(n + m), i \notin 1..n PROVE \E j \in 1..m : i = n + j
    <3>1. i - n \in 1..m /\ i = n + (i - n)
      BY <1>2, <2>1
    <3> QED BY <3>1
  <2> QED BY <2>1
<1>5. posted'[Len(posted')] = qs[m] /\ m \in 1..m /\ posted' # <<>>
  BY <1>2, <1>3
<1>6. \A i \in DOMAIN posted : posted[i].kind # "done"
  BY DEF PromptInv
<1>7. \A j \in 1..m : (qs[j].kind = "done" => j = m /\ stage' = "idle")
                      /\ (qs[j].kind = "notice" => j = 1 /\ stage = "stream" /\ partial # <<>>)
  BY <1>2 DEF Sends
<1>8. ASSUME NEW i \in 1..(n + m), posted'[i].kind = "done" PROVE i = n + m /\ stage' = "idle"
  <2>1. CASE i \in 1..n
    BY <1>2, <1>3, <1>6, <1>8, <2>1
  <2>2. CASE \E j \in 1..m : i = n + j
    BY <1>3, <1>7, <1>8, <2>2
  <2> QED BY <1>4, <2>1, <2>2
<1>9. PromptInv'
  BY <1>2, <1>5, <1>3, <1>8 DEF Sends, PromptInv
<1>10. ASSUME NEW i \in 1..(n + m), posted'[i].kind = "notice"
       PROVE  IF i = 1 THEN Settled' ELSE posted'[i - 1].kind = "delta"
  <2>0. Settled' <=> Settled
    BY DEF Settled
  <2>1. CASE i \in 1..n
    BY <1>2, <1>3, <1>10, <2>1, <2>0 DEF NoticeInv
  <2>2. CASE \E j \in 1..m : i = n + j
    <3>1. PICK j \in 1..m : i = n + j
      BY <2>2
    <3>2. j = 1 /\ stage = "stream" /\ partial # <<>>
      BY <1>3, <1>7, <1>10, <3>1
    <3>3. IF posted = <<>> THEN Settled ELSE posted[Len(posted)].kind = "delta"
      BY <3>2 DEF NoticeInv
    <3>4. CASE posted = <<>>
      BY <1>2, <3>1, <3>2, <3>4, <2>0, <3>3
    <3>5. CASE posted # <<>>
      BY <1>1, <1>2, <3>5, EmptySeq, <3>1, <3>2, <1>3, <3>3
    <3> QED BY <3>4, <3>5
  <2> QED BY <1>4, <2>1, <2>2
<1>11. (stage' = "stream" /\ partial' # <<>>) => posted'[Len(posted')].kind = "delta"
  BY <1>2, <1>5 DEF Sends
<1>12. NoticeInv'
  BY <1>3, <1>5, <1>10, <1>11 DEF NoticeInv
<1> QED BY <1>9, <1>12

(* So does handling the first message.                                      *)
LEMMA HandledQueue ==
  ASSUME TypesInv, PromptInv, NoticeInv, posted # <<>>, posted' = Tail(posted),
         UNCHANGED <<stage, partial>>,
         Head(posted).kind = "done" => view'.pending = <<>> /\ view'.reply = 0,
         Head(posted).kind = "delta" => Settled'
  PROVE  PromptInv' /\ NoticeInv'
<1>1. posted \in Seq(PostTypes)
  BY DEF TypesInv
<1>2. PICK n \in Nat : n = Len(posted) /\ DOMAIN posted = 1..n /\ n # 0 /\ Head(posted) = posted[1]
  BY <1>1, HeadAndTail, LenProperties
<1>3. /\ posted' \in Seq(PostTypes) /\ Len(posted') = n - 1
      /\ \A i \in 1..(n - 1) : posted'[i] = posted[i + 1]
  BY <1>1, <1>2, HeadAndTail
<1>4. DOMAIN posted' = 1..(n - 1)
  BY <1>3, LenProperties
<1>5. CASE n = 1
  BY <1>3, <1>5, EmptySeq, <1>4, <1>2 DEF PromptInv, NoticeInv
<1>6. CASE n # 1
  <2>1. posted' # <<>> /\ n - 1 \in 1..(n - 1) /\ posted'[Len(posted')] = posted[n]
    <3>1. n - 1 \in 1..(n - 1) /\ (n - 1) + 1 = n
      BY <1>2, <1>6
    <3>2. posted'[n - 1] = posted[n]
      BY <1>3, <3>1
    <3>3. PICK p \in Seq(PostTypes) : p = posted'
      BY <1>3
    <3>4. Len(p) # 0
      BY <1>2, <1>3, <1>6, <3>3
    <3>5. p # <<>>
      BY <3>4, EmptySeq
    <3> QED BY <1>3, <3>1, <3>2, <3>3, <3>5
  <2>2. ASSUME NEW i \in 1..(n - 1), posted'[i].kind = "done" PROVE i = n - 1 /\ stage' = "idle"
    BY <1>2, <1>3, <2>2 DEF PromptInv
  <2>3. PromptInv'
    BY <1>2, <1>3, <1>4, <2>1, <2>2 DEF PromptInv
  <2>4. ASSUME NEW i \in 1..(n - 1), posted'[i].kind = "notice"
        PROVE  IF i = 1 THEN Settled' ELSE posted'[i - 1].kind = "delta"
    BY <1>2, <1>3, <2>4 DEF NoticeInv
  <2>5. NoticeInv'
    BY <1>2, <1>4, <2>1, <2>4 DEF NoticeInv
  <2> QED BY <2>3, <2>5
<1> QED BY <1>5, <1>6

(* One message that is posted.                                              *)
LEMMA SentOne ==
  ASSUME TypesInv, PromptInv, NoticeInv, stage # "idle",
         NEW q \in PostTypes, posted' = Append(posted, q), UNCHANGED <<view, stirred>>,
         stage' = "batch" => partial' = <<>>,
         q.kind = "done" <=> stage' = "idle",
         q.kind = "notice" => stage = "stream" /\ partial # <<>>,
         (stage' = "stream" /\ partial' # <<>>) => q.kind = "delta"
  PROVE  PromptInv' /\ NoticeInv'
<1>1. PICK qs : qs = <<q>>
  OBVIOUS
<1>2. qs \in Seq(PostTypes) /\ Len(qs) = 1 /\ qs[1] = q /\ DOMAIN qs = 1..1 /\ qs # <<>>
  BY <1>1
<1>3. posted \in Seq(PostTypes)
  BY DEF TypesInv
<1>4. posted' = Cat(posted, qs)
  BY <1>1, <1>3, AppendIsConcat DEF Cat
<1>5. \A i \in DOMAIN qs : i = 1
  BY <1>2
<1>6. Sends(qs)
  BY <1>2, <1>4, <1>5 DEF Sends
<1> QED BY <1>6, SentQueue

(* Text and the end of the turn that are posted together.                   *)
LEMMA SentTwo ==
  ASSUME TypesInv, PromptInv, NoticeInv, stage # "idle", stage' = "idle",
         NEW d \in PostTypes, d.kind = "delta", NEW q \in PostTypes, q.kind = "done",
         NEW s, s = Append(posted, d), posted' = Append(s, q), UNCHANGED <<view, stirred>>
  PROVE  PromptInv' /\ NoticeInv'
<1>1. PICK od, oq, qs : od = <<d>> /\ oq = <<q>> /\ qs = <<d, q>>
  OBVIOUS
<1>2. /\ qs \in Seq(PostTypes) /\ Len(qs) = 2 /\ qs[1] = d /\ qs[2] = q /\ DOMAIN qs = 1..2
      /\ qs # <<>> /\ od \in Seq(PostTypes) /\ oq \in Seq(PostTypes) /\ qs = od \o oq
  BY <1>1
<1>3. posted \in Seq(PostTypes)
  BY DEF TypesInv
<1>4. s = posted \o od /\ s \in Seq(PostTypes)
  BY <1>1, <1>3, AppendIsConcat, AppendProperties
<1>5. posted' = s \o oq
  BY <1>1, <1>4, AppendIsConcat
<1>6. posted' = Cat(posted, qs)
  BY <1>2, <1>3, <1>4, <1>5, ConcatAssociative DEF Cat
<1>7. \A i \in DOMAIN qs : i \in {1, 2}
  BY <1>2
<1>8. Sends(qs)
  BY <1>2, <1>6, <1>7 DEF Sends
<1>9. stage' = "batch" => partial' = <<>>
  OBVIOUS
<1> QED BY <1>8, <1>9, SentQueue

(* As long as the view and the log are left alone, they agree.              *)
LEMMA LogRests ==
  ASSUME LogInv, UNCHANGED <<view, stirred>>, TypesInv', PromptInv', NoticeInv'
  PROVE  LogInv'
<1>1. AllVisible(view) /\ (~stirred => OrderOk(view)) /\ view' = view /\ stirred' = stirred
  BY DEF LogInv
<1>2. PICK v, w : v = view /\ w = view'
  OBVIOUS
<1>3. AllVisible(w) /\ (~stirred' => OrderOk(w))
  BY <1>1, <1>2
<1>4. AllVisible(view') /\ (~stirred' => OrderOk(view'))
  BY <1>2, <1>3
<1> QED BY <1>4 DEF LogInv, AllVisible, OrderOk, Visible, ReplyLast

(* The worker leaves the log alone.                                         *)
LEMMA LogAndWorker ==
  ASSUME LogInv,
         \/ Shows!Answer \/ Shows!Continue \/ Shows!Observe
         \/ \E sort \in {"blank", "plain", "marked"} : Shows!Say(sort)
         \/ \E cs \in Shows!Batches : said + made + turns + Len(cs) <= MaxParts /\ Shows!CallTools(cs)
         \/ \E cancelled \in BOOLEAN : Shows!Stop(cancelled)
  PROVE  LogInv'
<1>1. TypesInv /\ PromptInv /\ NoticeInv
  BY DEF LogInv
<1>2. CASE Shows!Answer
  <2>1. stage = "stream" /\ stage' = "idle" /\ UNCHANGED <<view, stirred>> /\ TypesInv'
    BY <1>1, <1>2, AnswerStep
  <2>2. PICK q : Posted(q, "done") /\ posted' = Append(posted, q)
    BY <1>1, <1>2, AnswerStep
  <2>3. q \in PostTypes /\ q.kind = "done"
    BY <2>2 DEF Posted
  <2>4. PromptInv' /\ NoticeInv'
    BY <1>1, <2>1, <2>2, <2>3, SentOne
  <2> QED BY <2>1, <2>4, LogRests
<1>3. CASE Shows!Continue
  <2>1. /\ stage = "stream" /\ stage' = stage /\ partial # <<>> /\ partial' = <<>>
        /\ UNCHANGED <<view, stirred>> /\ TypesInv'
    BY <1>1, <1>3, ContinueStep
  <2>2. PICK q : Posted(q, "notice") /\ posted' = Append(posted, q)
    BY <1>1, <1>3, ContinueStep
  <2>3. q \in PostTypes /\ q.kind = "notice"
    BY <2>2 DEF Posted
  <2>4. PromptInv' /\ NoticeInv'
    BY <1>1, <2>1, <2>2, <2>3, SentOne
  <2> QED BY <2>1, <2>4, LogRests
<1>4. CASE Shows!Observe
  <2>1. /\ stage = "batch" /\ stage' \in {"stream", "batch"} /\ partial' = partial
        /\ UNCHANGED <<view, stirred>> /\ TypesInv'
    BY <1>1, <1>4, ObserveStep
  <2>2. PICK q : Posted(q, "outcome") /\ posted' = Append(posted, q)
    BY <1>1, <1>4, ObserveStep
  <2>3. q \in PostTypes /\ q.kind = "outcome"
    BY <2>2 DEF Posted
  <2>4. partial = <<>>
    BY <1>1, <2>1 DEF PromptInv
  <2>5. PromptInv' /\ NoticeInv'
    BY <1>1, <2>1, <2>2, <2>3, <2>4, SentOne
  <2> QED BY <2>1, <2>5, LogRests
<1>5. ASSUME NEW sort \in {"blank", "plain", "marked"}, Shows!Say(sort)
      PROVE  LogInv'
  <2>1. stage = "stream" /\ stage' = stage /\ UNCHANGED <<view, stirred>> /\ TypesInv'
    BY <1>1, <1>5, SayStep
  <2>2. PICK q : Posted(q, "delta") /\ posted' = Append(posted, q)
    BY <1>1, <1>5, SayStep
  <2>3. q \in PostTypes /\ q.kind = "delta"
    BY <2>2 DEF Posted
  <2>4. PromptInv' /\ NoticeInv'
    BY <1>1, <2>1, <2>2, <2>3, SentOne
  <2> QED BY <2>1, <2>4, LogRests
<1>6. ASSUME NEW cs \in Shows!Batches, said + made + turns + Len(cs) <= MaxParts, Shows!CallTools(cs)
      PROVE  LogInv'
  <2>1. /\ stage = "stream" /\ stage' = "batch" /\ partial' = <<>> /\ Len(cs) \in {1, 2}
        /\ UNCHANGED <<view, stirred>> /\ TypesInv'
    BY <1>1, <1>6, CallToolsStep
  <2>2. PICK qs : /\ qs \in Seq(PostTypes) /\ Len(qs) = Len(cs) /\ posted' = Cat(posted, qs)
                  /\ \A i \in 1..Len(cs) : Announces(cs, i, qs[i])
    BY <1>1, <1>6, CallToolsStep
  <2>3. \A i \in DOMAIN qs : qs[i].kind \in {"delta", "announce"}
    BY <2>2, LenProperties DEF Announces
  <2>4. qs # <<>>
    BY <2>1, <2>2
  <2>5. Sends(qs)
    BY <2>1, <2>2, <2>3, <2>4 DEF Sends
  <2>6. PromptInv' /\ NoticeInv'
    BY <1>1, <2>1, <2>5, SentQueue
  <2> QED BY <2>1, <2>6, LogRests
<1>7. ASSUME NEW cancelled \in BOOLEAN, Shows!Stop(cancelled)
      PROVE  LogInv'
  <2>1. stage \in {"stream", "batch"} /\ stage' = "idle" /\ UNCHANGED <<view, stirred>> /\ TypesInv'
    BY <1>1, <1>7, StopStep
  <2>2. PICK q : /\ Posted(q, "done")
                 /\ \/ posted' = Append(posted, q)
                    \/ \E d, s : /\ Posted(d, "delta") /\ s = Append(posted, d)
                                 /\ posted' = Append(s, q)
    BY <1>1, <1>7, StopStep
  <2>3. q \in PostTypes /\ q.kind = "done"
    BY <2>2 DEF Posted
  <2>4. CASE posted' = Append(posted, q)
    BY <1>1, <2>1, <2>3, <2>4, SentOne, LogRests
  <2>5. CASE \E d, s : Posted(d, "delta") /\ s = Append(posted, d) /\ posted' = Append(s, q)
    <3>1. PICK d, s : Posted(d, "delta") /\ s = Append(posted, d) /\ posted' = Append(s, q)
      BY <2>5
    <3>2. d \in PostTypes /\ d.kind = "delta"
      BY <3>1 DEF Posted
    <3>3. PromptInv' /\ NoticeInv'
      BY <1>1, <2>1, <2>3, <3>1, <3>2, SentTwo
    <3> QED BY <2>1, <3>3, LogRests
  <2> QED BY <2>2, <2>4, <2>5
<1> QED BY <1>2, <1>3, <1>4, <1>5, <1>6, <1>7

(* A step of the app keeps the log right if its queue and view are.         *)
LEMMA LogHandled ==
  ASSUME LogInv, NEW kind, Shows!Handle(kind), TypesInv', NEW w, w = view', AllVisible(w),
         ~stirred' => OrderOk(w), kind = "done" => w.pending = <<>> /\ w.reply = 0,
         kind = "delta" => w.pending = <<>> \/ stirred'
  PROVE  LogInv'
BY HandleStep, HandledQueue DEF LogInv, Settled, AllVisible, OrderOk, Visible, ReplyLast

(* The app keeps the log right.                                             *)
LEMMA LogAndApp ==
  ASSUME LogInv,
         Shows!OnDelta \/ Shows!OnAnnounce \/ Shows!OnOutcome \/ Shows!OnNotice \/ Shows!OnDone
  PROVE  LogInv'
<1>1. TypesInv /\ PromptInv /\ NoticeInv /\ AllVisible(view) /\ (~stirred => OrderOk(view)) /\ ViewOk(view)
  BY DEF LogInv, TypesInv
<1>2. PICK m, w : m = Head(posted) /\ w = view'
  OBVIOUS
<1>3. CASE Shows!OnDelta
  <2>1. Shows!Handle("delta")
    BY <1>3 DEF Shows!OnDelta
  <2>2. m.piece \in Shows!Piece
    BY <1>1, <1>2, <2>1, HandleStep
  <2>3. PICK p, g : p \in Shows!Piece /\ p = m.piece /\ g = Shows!Grown(view, p) /\ \E k \in 0..Len(g.buf) : view' = Shows!Drained(g, k)
    BY <1>1, <1>2, <1>3, <2>2, OnDeltaStep
  <2>4. PICK k \in 0..Len(g.buf) : w = Shows!Drained(g, k)
    BY <1>2, <2>3
  <2>5. AllVisible(w)
    BY <1>1, <2>3, <2>4, DeltaVisible
  <2>6. stirred' = (stirred \/ view.pending # <<>>) /\ TypesInv'
    BY <1>1, <1>3, OnDeltaStep
  <2>7. ~stirred' => OrderOk(w)
    BY <1>1, <2>3, <2>4, <2>6, DeltaOrder
  <2>8. w.pending = view.pending
    <3>1. PICK r : r = Shows!ReplyEntry(view)
      OBVIOUS
    <3>2. ViewOk(g) /\ g.reply = r.reply /\ g.pending = r.pending /\ r.reply # 0 /\ r.pending = view.pending
      BY <1>1, <2>3, <3>1, GrownIs, ReplyEntryIs
    <3> QED BY <2>4, <3>2, DrainedIs
  <2>9. w.pending = <<>> \/ stirred'
    BY <2>6, <2>8
  <2> QED BY <1>2, <2>1, <2>5, <2>6, <2>7, <2>9, LogHandled
<1>4. CASE Shows!OnAnnounce
  BY <1>4, <1>1, <1>2, HandleStep, OnAnnounceStep, AnnouncedVisible, AnnouncedOrder, LogHandled DEF
     Shows!OnAnnounce
<1>5. CASE Shows!OnOutcome
  <2>1. Shows!Handle("outcome")
    BY <1>5 DEF Shows!OnOutcome
  <2>2. m.result \in Nat /\ m.name \in ToolNames
    BY <1>1, <1>2, <2>1, HandleStep
  <2>3. /\ w = Shows!Observed(view, m) /\ TypesInv'
        /\ stirred' = (stirred \/ view.reply # 0
                         \/ (view.pending # <<>> /\ Shows!NameOf(view, Head(view.pending)) # m.name))
    BY <1>1, <1>2, <1>5, OnOutcomeStep
  <2>4. AllVisible(w)
    BY <1>1, <2>2, <2>3, ObservedVisible
  <2>5. ~stirred' => OrderOk(w)
    BY <1>1, <2>2, <2>3, ObservedOrder
  <2> QED BY <1>2, <2>1, <2>3, <2>4, <2>5, LogHandled
<1>6. CASE Shows!OnNotice
  <2>1. Shows!Handle("notice")
    BY <1>6 DEF Shows!OnNotice
  <2>2. stirred' = stirred /\ TypesInv'
    BY <1>1, <1>6, OnNoticeStep
  <2>3. PICK f : f = Shows!Finished(view) /\ ViewOk(f) /\ \E e \in Entries : e.kind = "note" /\ Writes(f, e, view')
    BY <1>1, <1>6, OnNoticeStep
  <2>4. PICK e \in Entries : e.kind = "note" /\ Writes(f, e, w)
    BY <1>2, <2>3
  <2>5. f.reply = 0 /\ f.pending = view.pending /\ AllVisible(f) /\ (~stirred => OrderOk(f))
    BY <1>1, <2>3, FinishedIs, FinishedVisible, FinishedOrder
  <2>6. view.pending = <<>> \/ stirred
    <3>1. posted # <<>> /\ Head(posted).kind = "notice" /\ posted \in Seq(PostTypes)
      BY <1>1, <2>1, HandleStep DEF TypesInv
    <3>2. 1 \in DOMAIN posted /\ posted[1].kind = "notice"
      BY <3>1, HeadAndTail, LenProperties
    <3> QED BY <1>1, <3>2 DEF NoticeInv, Settled
  <2>7. AllVisible(w) /\ (~stirred' => OrderOk(w))
    BY <2>2, <2>3, <2>4, <2>5, <2>6, NotedVisible, NotedOrder
  <2> QED BY <1>2, <2>1, <2>2, <2>7, LogHandled
<1>7. CASE Shows!OnDone
  BY <1>7, <1>1, <1>2, OnDoneStep, EndedVisible, EndedOrder, EndedIs, LogHandled DEF Shows!OnDone
<1> QED BY <1>3, <1>4, <1>5, <1>6, <1>7

(* The commands at the prompt, and what writes the log anew, keep it right. *)
LEMMA LogAndCommands ==
  ASSUME LogInv, Shows!Submit \/ Shows!Toggle \/ Shows!LoadSession \/ Shows!Clear
  PROVE  LogInv'
<1>1. TypesInv /\ PromptInv /\ NoticeInv /\ AllVisible(view) /\ (~stirred => OrderOk(view)) /\ ViewOk(view)
  BY DEF LogInv, TypesInv
<1>2. PICK w : w = view'
  OBVIOUS
<1>3. ASSUME TypesInv', PromptInv', NoticeInv', AllVisible(w), ~stirred' => OrderOk(w)
      PROVE  LogInv'
  BY <1>2, <1>3 DEF LogInv, AllVisible, OrderOk, Visible, ReplyLast
<1>4. DOMAIN <<>> = {}
  OBVIOUS
<1>5. CASE Shows!Submit
  <2>1. /\ stage = "idle" /\ posted = <<>> /\ stage' = "stream" /\ partial' = <<>>
        /\ posted' = posted /\ stirred' = stirred /\ TypesInv'
    BY <1>1, <1>5, SubmitStep
  <2>2. view.pending = <<>> /\ view.reply = 0
    BY <1>1, <2>1 DEF PromptInv
  <2>3. view.buf = <<>>
    BY <1>1, <2>2 DEF ViewOk, EntriesOk
  <2>4. PICK e \in Entries : e.kind = "user" /\ Writes(view, e, w)
    BY <1>1, <1>2, <1>5, <2>2, <2>3, SubmitStep
  <2>5. AllVisible(w) /\ (~stirred' => OrderOk(w))
    BY <1>1, <2>1, <2>2, <2>4, NotedVisible, NotedOrder
  <2>6. PromptInv' /\ NoticeInv'
    BY <1>4, <2>1 DEF PromptInv, NoticeInv
  <2> QED BY <1>3, <2>1, <2>5, <2>6
<1>6. CASE Shows!Toggle
  <2>1. /\ w = Shows!Rerendered(view) /\ stirred' = (stirred \/ view.reply # 0)
        /\ UNCHANGED <<stage, partial, posted>> /\ TypesInv'
    BY <1>1, <1>2, <1>6, ToggleStep
  <2>2. /\ w \in Views /\ w.log = Shows!RenderBut(view.entries, view.pending)
        /\ w.entries = view.entries /\ w.reply = view.reply /\ w.pending = view.pending
    BY <1>1, <2>1, RerenderedIs DEF ViewOk
  <2>3. AllVisible(w)
    BY <2>2, AnewVisible
  <2>4. ~stirred' => OrderOk(w)
    BY <1>1, <2>1, RerenderedOrder
  <2>5. Settled => Settled'
    BY <1>2, <2>1, <2>2 DEF Settled
  <2>6. PromptInv' /\ NoticeInv'
    BY <1>1, <1>2, <2>1, <2>2, <2>5 DEF PromptInv, NoticeInv
  <2> QED BY <1>3, <2>1, <2>3, <2>4, <2>6
<1>7. CASE Shows!LoadSession
  <2>1. /\ stage = "idle" /\ posted = <<>> /\ UNCHANGED <<stage, partial, posted>> /\ TypesInv'
    BY <1>1, <1>7, LoadSessionStep
  <2>2. PICK all \in Seq(Entries) : w = Loaded(all)
    BY <1>1, <1>2, <1>7, LoadSessionStep
  <2>3. ViewOk(w) /\ w.reply = 0 /\ w.pending = <<>> /\ w.log = Shows!RenderBut(w.entries, <<>>)
    BY <2>2, LoadedIs
  <2>4. AllVisible(w)
    BY <2>3, AnewVisible DEF ViewOk
  <2>5. OrderOk(w)
    BY <2>3, NothingWaits DEF ViewOk, Shows!RenderAll
  <2>6. PromptInv' /\ NoticeInv'
    BY <1>2, <2>1, <2>3, <1>4 DEF PromptInv, NoticeInv
  <2> QED BY <1>3, <2>1, <2>4, <2>5, <2>6
<1>8. CASE Shows!Clear
  BY <1>1, <1>2, <1>8, ClearStep, EmptyOk, <1>4, EmptyOrder, <1>3 DEF PromptInv, NoticeInv
<1> QED BY <1>5, <1>6, <1>7, <1>8

(* The log is right at the start, and every step keeps it.                  *)
LEMMA LogAtStart ==
  ASSUME Shows!Init
  PROVE  LogInv
<1>1. TypesInv /\ posted = <<>> /\ view = Shows!Empty /\ stage = "idle"
  BY TranscriptInit DEF Shows!Init
<1>2. view.pending = <<>> /\ view.reply = 0
  BY <1>1, EmptyOk
<1>3. DOMAIN <<>> = {}
  OBVIOUS
<1>4. PromptInv /\ NoticeInv
  BY <1>1, <1>2, <1>3 DEF PromptInv, NoticeInv
<1> QED BY <1>1, <1>4, EmptyOrder DEF LogInv

(* Every step keeps the log right.                                          *)
LEMMA LogStep ==
  ASSUME LogInv, [Shows!Next]_showVars
  PROVE  LogInv'
<1>1. CASE UNCHANGED showVars
  BY <1>1, TypesStep, LogRests DEF LogInv, showVars, PromptInv, NoticeInv, Settled
<1>2. CASE Shows!Next
  BY <1>2, LogAndWorker, LogAndApp, LogAndCommands DEF Shows!Next
<1> QED BY <1>1, <1>2

(* At the prompt nothing is streamed or waited for, and the log shows every *)
(* entry.                                                                   *)
LEMMA LogSound ==
  ASSUME LogInv
  PROVE  Shows!LogShowsTheEntries
<1>1. TypesInv /\ PromptInv /\ AllVisible(view) /\ (~stirred => OrderOk(view)) /\ ViewOk(view) /\ view \in Views
  BY DEF LogInv, TypesInv, ViewOk
<1> SUFFICES ASSUME Shows!AtPrompt, NEW all, all = Shows!RenderAll(view.entries)
             PROVE  Shows!ToSet(all) \subseteq Shows!ToSet(view.log) /\ (stirred \/ all = view.log)
  BY DEF Shows!LogShowsTheEntries
<1>2. view.pending = <<>> /\ view.reply = 0
  BY <1>1 DEF Shows!AtPrompt, PromptInv
<1>3. view.entries \in Seq(Entries) /\ \A i \in DOMAIN view.entries : view.entries[i] \in Entries
  BY <1>1, ViewFields
<1>4. ASSUME NEW y, In(y, all)
      PROVE  In(y, view.log)
  <2>1. PICK i \in DOMAIN view.entries : In(y, Looks[view.entries[i]])
    BY <1>3, <1>4, LooksMake, FlatMapRange
  <2>2. In(y, Shows!Render(view.entries[i]))
    BY <1>3, <2>1 DEF Looks
  <2>3. view.entries[i].uid # 0
    BY <1>1 DEF ViewOk, EntriesOk
  <2>4. ~In(view.entries[i].uid, view.pending)
    BY <1>2 DEF In
  <2> QED BY <1>1, <1>2, <2>2, <2>3, <2>4 DEF AllVisible, Visible
<1>5. Shows!ToSet(all) \subseteq Shows!ToSet(view.log)
  BY <1>4 DEF In, Shows!ToSet
<1>6. ~stirred => all = view.log
  BY <1>1, <1>2, NothingWaits
<1> QED BY <1>5, <1>6

(* It is made in two rounds, or in one.                                     *)
LEMMA FlatMapThrough ==
  ASSUME NEW S, NEW T, NEW R, NEW g, Makes(g, S, T), NEW h, Makes(h, T, R), NEW s \in Seq(S)
  PROVE  FlatMap(h, FlatMap(g, s)) = FlatMap(Through(g, h, S), s)
<1> g \in [S -> Seq(T)]
  BY DEF Makes
<1>0. PICK k : k = Through(g, h, S)
  OBVIOUS
<1>1. \A x \in S : FlatMap(h, g[x]) \in Seq(R)
  BY FlatMapType
<1>2. Makes(k, S, R)
  BY <1>0, <1>1 DEF Makes, Through
<1> DEFINE A == {u \in Seq(S) : FlatMap(h, FlatMap(g, u)) = FlatMap(k, u)}
<1>3. <<>> \in A
  <2>1. PICK e \in Seq(S) : e = <<>>
    BY EmptySeq
  <2>2. FlatMap(g, <<>>) = <<>> /\ FlatMap(k, <<>>) = <<>>
    BY <1>2, <2>1, FlatMapType
  <2>3. FlatMap(h, <<>>) = <<>>
    <3>1. PICK o \in Seq(T) : o = FlatMap(g, e)
      BY FlatMapType
    <3> QED BY <3>1, FlatMapType
  <2> QED BY <2>1, <2>2, <2>3
<1>4. ASSUME NEW u \in A, NEW x \in S PROVE Append(u, x) \in A
  <2>1. u \in Seq(S) /\ Append(u, x) \in Seq(S)
    BY AppendProperties
  <2>2. PICK a \in Seq(T), b \in Seq(T) : a = FlatMap(g, u) /\ b = g[x]
    BY <2>1, FlatMapType
  <2>3. FlatMap(g, Append(u, x)) = Cat(a, b)
    BY <2>1, <2>2, FlatMapAppend
  <2>4. FlatMap(h, Cat(a, b)) = Cat(FlatMap(h, a), FlatMap(h, b))
    BY FlatMapConcat
  <2>5. FlatMap(k, Append(u, x)) = Cat(FlatMap(k, u), k[x])
    BY <1>2, <2>1, FlatMapAppend
  <2>6. k[x] = FlatMap(h, b)
    BY <1>0, <2>2 DEF Through
  <2>7. FlatMap(h, a) = FlatMap(k, u)
    BY <2>2
  <2> QED BY <2>1, <2>3, <2>4, <2>5, <2>6, <2>7
<1> HIDE DEF A
<1>5. A = Seq(S)
  BY <1>3, <1>4, InductionOnSeq DEF A
<1>6. FlatMap(h, FlatMap(g, s)) = FlatMap(k, s)
  BY <1>5 DEF A
<1> QED BY <1>0, <1>6

(* Elements that make themselves make the sequence.                         *)
LEMMA FlatMapItself ==
  ASSUME NEW T, NEW g, Makes(g, T, T), NEW s \in Seq(T), \A i \in 1..Len(s) : g[s[i]] = <<s[i]>>
  PROVE  FlatMap(g, s) = s
<1> g \in [T -> Seq(T)]
  BY DEF Makes
<1> DEFINE A == {u \in Seq(T) : (\A i \in 1..Len(u) : g[u[i]] = <<u[i]>>) => FlatMap(g, u) = u}
<1>1. <<>> \in A
  <2>1. PICK e \in Seq(T) : e = <<>>
    BY EmptySeq
  <2>2. FlatMap(g, <<>>) = <<>>
    BY <2>1, FlatMapType
  <2> QED BY <2>1, <2>2
<1>2. ASSUME NEW u \in A, NEW x \in T PROVE Append(u, x) \in A
  <2>1. PICK v : v = Append(u, x)
    OBVIOUS
  <2>2. PICK n \in Nat : n = Len(u)
    BY LenProperties
  <2>3. u \in Seq(T) /\ v \in Seq(T) /\ Len(v) = n + 1 /\ v[n + 1] = x /\ \A i \in 1..n : v[i] = u[i]
    BY <2>1, <2>2, AppendProperties
  <2>4. ASSUME \A i \in 1..(n + 1) : g[v[i]] = <<v[i]>>
        PROVE  FlatMap(g, v) = v
    <3>1. \A i \in 1..n : g[u[i]] = <<u[i]>>
      BY <2>3, <2>4
    <3>2. FlatMap(g, u) = u
      BY <2>2, <3>1
    <3>3. g[x] = <<x>>
      BY <2>3, <2>4
    <3>4. FlatMap(g, v) = Cat(u, <<x>>)
      BY <2>1, <2>3, <3>2, <3>3, FlatMapAppend
    <3>5. u \o <<x>> = Append(u, x)
      BY <2>3, AppendIsConcat
    <3> QED BY <2>1, <3>4, <3>5 DEF Cat
  <2> QED BY <2>1, <2>3, <2>4
<1> HIDE DEF A
<1>3. A = Seq(T)
  BY <1>1, <1>2, InductionOnSeq DEF A
<1> QED BY <1>3 DEF A

(* The marks of calls.                                                      *)
LEMMA CallMarksAre ==
  ASSUME NEW cs \in Seq(Shows!Call)
  PROVE  /\ CallMarks(cs) \in Seq(Marks) /\ Len(CallMarks(cs)) = Len(cs)
         /\ \A i \in 1..Len(cs) : CallMarks(cs)[i] = <<"call", cs[i].id>>
         /\ CallMarks(<<>>) = <<>>
<1>1. PICK n \in Nat : n = Len(cs) /\ DOMAIN cs = 1..n
  BY LenProperties
<1>2. \A i \in 1..n : cs[i].id \in Nat
  <2>1. \A i \in 1..n : cs[i] \in Shows!Call
    BY <1>1, ElementOfSeq
  <2> QED BY <2>1, ShowsAssumption DEF Shows!Call
<1>3. \A i \in 1..n : <<"call", cs[i].id>> \in Marks
  BY <1>2, MarksAre
<1>4. PICK m : m = [i \in 1..n |-> <<"call", cs[i].id>>]
  OBVIOUS
<1>5. m \in Seq(Marks) /\ Len(m) = n
  BY <1>3, <1>4
<1>6. CallMarks(<<>>) = <<>>
  BY DEF CallMarks
<1> QED BY <1>1, <1>4, <1>5, <1>6 DEF CallMarks

(* Two parts are rising together if each is, and the calls of the second    *)
(* come after those of the first.                                           *)
LEMMA RisingCat ==
  ASSUME NEW s \in Seq(Marks), NEW t \in Seq(Marks)
  PROVE  /\ Rising(Cat(s, t)) => Rising(s) /\ Rising(t)
                                 /\ \A m, n \in Nat : Calls(s, m) /\ Calls(t, n) => m < n
         /\ (Rising(s) /\ Rising(t) /\ \A m, n \in Nat : Calls(s, m) /\ Calls(t, n) => m < n)
              => Rising(Cat(s, t))
         /\ \A n : Calls(Cat(s, t), n) <=> Calls(s, n) \/ Calls(t, n)
<1>1. PICK k \in Nat, l \in Nat : k = Len(s) /\ l = Len(t) /\ DOMAIN s = 1..k /\ DOMAIN t = 1..l
  BY LenProperties
<1>2. PICK v : v = Cat(s, t)
  OBVIOUS
<1>3. DOMAIN v = 1..(k + l) /\ (\A i \in 1..k : v[i] = s[i]) /\ (\A i \in 1..l : v[k + i] = t[i])
  <2>1. v = s \o t
    BY <1>2 DEF Cat
  <2> QED BY <1>1, <2>1, ConcatProperties, SMTT(20)
<1>4. \A n : Calls(v, n) <=> Calls(s, n) \/ Calls(t, n)
  BY <1>2, InCat DEF Calls
<1>5. ASSUME Rising(v) PROVE Rising(s)
  BY <1>1, <1>3, <1>5 DEF Rising
<1>6. ASSUME Rising(v) PROVE Rising(t)
  <2> SUFFICES ASSUME NEW i \in 1..l, NEW j \in 1..l, NEW m \in Nat, NEW n \in Nat,
                      i < j, t[i] = <<"call", m>>, t[j] = <<"call", n>>
               PROVE  m < n
    BY <1>1 DEF Rising
  <2>1. k + i \in 1..(k + l) /\ k + j \in 1..(k + l) /\ k + i < k + j
    OBVIOUS
  <2>2. v[k + i] = <<"call", m>> /\ v[k + j] = <<"call", n>>
    BY <1>3
  <2> QED BY <1>3, <1>6, <2>1, <2>2 DEF Rising
<1>7. ASSUME Rising(v), NEW m \in Nat, NEW n \in Nat, Calls(s, m), Calls(t, n)
      PROVE  m < n
  <2>1. PICK i \in 1..k : s[i] = <<"call", m>>
    BY <1>1, <1>7 DEF Calls, In
  <2>2. PICK j \in 1..l : t[j] = <<"call", n>>
    BY <1>1, <1>7 DEF Calls, In
  <2>3. i \in 1..(k + l) /\ k + j \in 1..(k + l) /\ i < k + j
    BY <1>1
  <2> QED BY <1>3, <1>7, <2>1, <2>2, <2>3 DEF Rising
<1>8. ASSUME NEW j \in 1..(k + l), j \notin 1..k PROVE \E b \in 1..l : j = k + b
  BY <1>8
<1>9. ASSUME Rising(s), Rising(t), \A m, n \in Nat : Calls(s, m) /\ Calls(t, n) => m < n
      PROVE  Rising(v)
  <2> SUFFICES ASSUME NEW i \in 1..(k + l), NEW j \in 1..(k + l), NEW m \in Nat, NEW n \in Nat,
                      i < j, v[i] = <<"call", m>>, v[j] = <<"call", n>>
               PROVE  m < n
    BY <1>3 DEF Rising
  <2>1. CASE i \in 1..k /\ j \in 1..k
    BY <1>1, <1>3, <1>9, <2>1 DEF Rising
  <2>2. CASE i \in 1..k /\ j \notin 1..k
    <3>1. PICK b \in 1..l : j = k + b
      BY <1>8, <2>2
    <3>2. s[i] = <<"call", m>> /\ t[b] = <<"call", n>>
      BY <1>3, <2>2, <3>1
    <3>3. Calls(s, m) /\ Calls(t, n)
      BY <1>1, <2>2, <3>1, <3>2 DEF Calls, In
    <3> QED BY <1>9, <3>3
  <2>3. CASE i \notin 1..k
    <3>1. PICK a \in 1..l : i = k + a
      BY <1>8, <2>3
    <3>2. j \notin 1..k
      BY <3>1
    <3>3. PICK b \in 1..l : j = k + b
      BY <1>8, <3>2
    <3>4. a < b
      BY <3>1, <3>3
    <3>5. t[a] = <<"call", m>> /\ t[b] = <<"call", n>>
      BY <1>3, <3>1, <3>3
    <3> QED BY <1>1, <1>9, <3>4, <3>5 DEF Rising
  <2> QED BY <2>1, <2>2, <2>3
<1> QED BY <1>2, <1>4, <1>5, <1>6, <1>7, <1>9

(* Lines of text hold no call.                                              *)
LEMMA TextCallsNothing ==
  ASSUME NEW p \in Seq(Shows!Piece)
  PROVE  (\A n : ~Calls(Shows!Lines(p), n)) /\ Rising(Shows!Lines(p))
<1>1. ASSUME NEW n PROVE ~Calls(Shows!Lines(p), n)
  <2>1. PICK y : y = <<"call", n>>
    OBVIOUS
  <2>2. \A i \in DOMAIN p : y # <<"text", p[i]>>
    BY <2>1
  <2> QED BY <2>1, <2>2, LinesHave DEF Calls
<1> QED BY <1>1 DEF Rising, Calls, In

(* The marks of a numbered batch.                                           *)
LEMMA NumberedCalls ==
  ASSUME NEW cs \in Seq(Shows!Call), NEW k \in Nat, Numbered(cs, k)
  PROVE  /\ Rising(CallMarks(cs))
         /\ \A n \in Nat : Calls(CallMarks(cs), n) => k < n /\ n <= k + Len(cs)
<1>1. PICK l, m : l \in Nat /\ l = Len(cs) /\ DOMAIN cs = 1..l /\ m = CallMarks(cs)
  BY LenProperties
<1>2. DOMAIN m = 1..l /\ \A i \in 1..l : m[i] = <<"call", k + i>>
  BY <1>1, CallMarksAre DEF Numbered, CallMarks
<1>3. Rising(m)
  BY <1>1, <1>2 DEF Rising
<1>4. \A n \in Nat : Calls(m, n) => k < n /\ n <= k + l
  BY <1>1, <1>2 DEF Calls, In
<1> QED BY <1>1, <1>3, <1>4

(* What one message adds to the gist.                                       *)
LEMMA MSkelIs ==
  ASSUME NEW m \in Msgs
  PROVE  /\ MSkel[m] = Cat(Shows!Lines(m.pieces), CallMarks(m.calls))
         /\ MSkel[m] \in Seq(Marks)
         /\ m.calls = <<>> => MSkel[m] = Shows!Lines(m.pieces)
         /\ m.calls = <<>> /\ m.pieces = <<>> => MSkel[m] = <<>>
<1>1. PICK p, cs : p = m.pieces /\ cs = m.calls
  OBVIOUS
<1>2. p \in Seq(Shows!Piece) /\ cs \in Seq(Shows!Call)
  BY <1>1, MsgFields
<1>3. PICK l \in Seq(Marks), c \in Seq(Marks) : l = Shows!Lines(p) /\ c = CallMarks(cs)
  BY <1>2, LinesAre, CallMarksAre
<1>4. Cat(l, c) \in Seq(Marks) /\ Cat(l, <<>>) = l
  BY <1>3, CatProperties
<1>5. MSkel[m] = Cat(l, c)
  BY <1>1, <1>3 DEF MSkel
<1>6. cs = <<>> => c = <<>>
  BY <1>2, <1>3, CallMarksAre
<1>7. p = <<>> => l = <<>>
  BY <1>3, LinesNone
<1> QED BY <1>1, <1>3, <1>4, <1>5, <1>6, <1>7

(* The messages make marks.                                                 *)
LEMMA MSkelMakes == Makes(MSkel, Msgs, Marks)
BY MSkelIs DEF MSkel, Makes

(* The gist is a sequence of marks.                                         *)
LEMMA GistIs ==
  ASSUME NEW ms \in Seq(Msgs)
  PROVE  Gist(ms) \in Seq(Marks) /\ Gist(<<>>) = <<>>
BY MSkelMakes, FlatMapType DEF Gist

(* What the messages the steps add say and call.                            *)
LEMMA SkelOfSteps ==
  /\ \A m : UserMsg(m) => m \in Msgs /\ MSkel[m] = <<>>
  /\ \A m, c : ToolMsg(m, c) => m \in Msgs /\ MSkel[m] = <<>>
  /\ \A m, p, cs : ModelMsg(m, p, cs) =>
       m \in Msgs /\ MSkel[m] = Cat(Shows!Lines(p), CallMarks(cs))
  /\ \A m, p : ModelMsg(m, p, <<>>) => MSkel[m] = Shows!Lines(p)
BY MSkelIs DEF UserMsg, ToolMsg, ModelMsg

(* One message more.                                                        *)
LEMMA MsgAdded ==
  ASSUME NEW ms \in Seq(Msgs), NEW m \in Msgs, NEW k \in Nat, NEW l \in Nat, k <= l, MsgsOk(ms, k),
         NEW t, t = Append(ms, m),
         m.role # "assistant" => m.pieces = <<>> /\ m.calls = <<>>,
         m.role = "tool" => m.id <= l,
         Rising(MSkel[m]), \A n \in Nat : Calls(MSkel[m], n) => k < n /\ n <= l
  PROVE  MsgsOk(t, l)
<1>1. PICK n \in Nat : n = Len(ms) /\ DOMAIN ms = 1..n
  BY LenProperties
<1>2. t \in Seq(Msgs) /\ Len(t) = n + 1 /\ t[n + 1] = m /\ \A i \in 1..n : t[i] = ms[i]
  BY <1>1, AppendProperties
<1>3. DOMAIN t = 1..(n + 1)
  BY <1>2, LenProperties
<1>4. ASSUME NEW i \in 1..(n + 1)
      PROVE  /\ t[i].role # "assistant" => t[i].pieces = <<>> /\ t[i].calls = <<>>
             /\ t[i].role = "tool" => t[i].id <= l
  <2>1. CASE i = n + 1
    BY <1>2, <2>1
  <2>2. CASE i # n + 1
    BY <2>2, <1>1, <1>2, ElementOfSeq, MsgFields DEF MsgsOk
  <2> QED BY <2>1, <2>2
<1>5. PICK a \in Seq(Marks), b \in Seq(Marks) : a = Gist(ms) /\ b = MSkel[m]
  BY GistIs, MSkelIs
<1>6. Gist(t) = Cat(a, b)
  BY <1>5, MSkelMakes, FlatMapAppend DEF Gist
<1>7. Rising(a) /\ \A j \in Nat : Calls(a, j) => j <= k
  BY <1>5 DEF MsgsOk
<1>8. Rising(b) /\ \A j \in Nat : Calls(b, j) => k < j /\ j <= l
  BY <1>5
<1>9. Rising(Cat(a, b)) /\ \A j \in Nat : Calls(Cat(a, b), j) => j <= l
  <2>1. \A i, j \in Nat : Calls(a, i) /\ Calls(b, j) => i < j
    BY <1>7, <1>8
  <2>2. Rising(Cat(a, b))
    BY <1>7, <1>8, <2>1, RisingCat
  <2>3. \A j : Calls(Cat(a, b), j) <=> Calls(a, j) \/ Calls(b, j)
    BY RisingCat
  <2>4. \A j \in Nat : Calls(a, j) => j <= l
    BY <1>7
  <2> QED BY <1>8, <2>2, <2>3, <2>4
<1> QED BY <1>3, <1>4, <1>6, <1>9 DEF MsgsOk

(* The results a message adds.                                              *)
LEMMA ResultAdded ==
  ASSUME NEW ms \in Seq(Msgs), NEW m \in Msgs, NEW t, t = Append(ms, m)
  PROVE  \A n : ResultIn(t, n) <=> ResultIn(ms, n) \/ (m.role = "tool" /\ m.id = n)
<1>1. PICK l \in Nat : l = Len(ms) /\ DOMAIN ms = 1..l
  BY LenProperties
<1>2. t \in Seq(Msgs) /\ Len(t) = l + 1 /\ t[l + 1] = m /\ \A i \in 1..l : t[i] = ms[i]
  BY <1>1, AppendProperties
<1>3. DOMAIN t = 1..(l + 1)
  BY <1>2, LenProperties
<1>4. \A i \in 1..(l + 1) : i \in 1..l \/ i = l + 1
  OBVIOUS
<1>5. (\A i \in 1..l : i \in 1..(l + 1)) /\ l + 1 \in 1..(l + 1)
  OBVIOUS
<1> QED BY <1>1, <1>2, <1>3, <1>4, <1>5 DEF ResultIn

(* The front of a conversation is right, too.                               *)
LEMMA FrontOk ==
  ASSUME NEW b \in Seq(Msgs), NEW c \in Seq(Msgs), NEW k, NEW ms, ms = Cat(b, c), MsgsOk(ms, k)
  PROVE  /\ MsgsOk(b, k) /\ Gist(ms) = Cat(Gist(b), Gist(c))
         /\ \A n : ResultIn(ms, n) <=> ResultIn(b, n) \/ ResultIn(c, n)
<1>1. PICK l \in Nat, r \in Nat : l = Len(b) /\ r = Len(c) /\ DOMAIN b = 1..l /\ DOMAIN c = 1..r
  BY LenProperties
<1>2. DOMAIN ms = 1..(l + r) /\ (\A i \in 1..l : ms[i] = b[i]) /\ (\A i \in 1..r : ms[l + i] = c[i])
  <2>1. DOMAIN ms = 1..(l + r)
    BY <1>1, CatIs
  <2>2. \A i \in 1..l : ms[i] = b[i]
    BY <1>1, CatIs
  <2>3. \A i \in 1..r : ms[l + i] = c[i]
    BY <1>1, CatIs
  <2> QED BY <2>1, <2>2, <2>3
<1>3. \A i \in 1..l : i \in 1..(l + r)
  OBVIOUS
<1>4. PICK x \in Seq(Marks), y \in Seq(Marks) : x = Gist(b) /\ y = Gist(c)
  BY GistIs
<1>5. Gist(ms) = Cat(x, y)
  BY <1>4, MSkelMakes, FlatMapConcat DEF Gist
<1>6. Rising(x) /\ \A n \in Nat : Calls(x, n) => n <= k
  BY <1>5, RisingCat DEF MsgsOk
<1>7. MsgsOk(b, k)
  BY <1>1, <1>2, <1>3, <1>4, <1>6 DEF MsgsOk
<1>8. ASSUME NEW n PROVE ResultIn(ms, n) <=> ResultIn(b, n) \/ ResultIn(c, n)
  <2>1. ASSUME ResultIn(ms, n) PROVE ResultIn(b, n) \/ ResultIn(c, n)
    <3>1. PICK i \in 1..(l + r) : ms[i].role = "tool" /\ ms[i].id = n
      BY <1>2, <2>1 DEF ResultIn
    <3>2. CASE i \in 1..l
      BY <1>1, <1>2, <3>1, <3>2 DEF ResultIn
    <3>3. CASE i \notin 1..l
      <4>1. i - l \in 1..r /\ i = l + (i - l)
        BY <3>3
      <4> QED BY <1>1, <1>2, <3>1, <4>1 DEF ResultIn
    <3> QED BY <3>2, <3>3
  <2>2. ResultIn(b, n) => ResultIn(ms, n)
    BY <1>1, <1>2, <1>3 DEF ResultIn
  <2>3. ResultIn(c, n) => ResultIn(ms, n)
    BY <1>1, <1>2 DEF ResultIn
  <2> QED BY <2>1, <2>2, <2>3
<1> QED BY <1>4, <1>5, <1>7, <1>8

(* The parts of an answer together say what they said apart.                *)
LEMMA PartsSay ==
  ASSUME NEW c \in Seq(Msgs), \A i \in DOMAIN c : c[i].calls = <<>>
  PROVE  /\ FlatMap(PiecesOf, c) \in Seq(Shows!Piece)
         /\ Shows!Lines(FlatMap(PiecesOf, c)) = Gist(c)
<1>1. PICK f \in Seq(Shows!Piece) : f = FlatMap(PiecesOf, c)
  BY PiecesMake, FlatMapType
<1>2. PICK h : h = Through(PiecesOf, LineOf, Msgs)
  OBVIOUS
<1>3. FlatMap(LineOf, FlatMap(PiecesOf, c)) = FlatMap(Through(PiecesOf, LineOf, Msgs), c)
  BY PiecesMake, LineMakes, FlatMapThrough
<1>4. Shows!Lines(f) = FlatMap(LineOf, f)
  BY LinesAre
<1>5. \A i \in 1..Len(c) : h[c[i]] = MSkel[c[i]]
  <2>1. TAKE i \in 1..Len(c)
  <2>2. c[i] \in Msgs /\ c[i].calls = <<>>
    BY LenProperties, ElementOfSeq
  <2>3. PICK p \in Seq(Shows!Piece) : p = c[i].pieces
    BY <2>2, MsgFields
  <2>4. h[c[i]] = FlatMap(LineOf, p)
    BY <1>2, <2>2, <2>3 DEF Through, PiecesOf
  <2>5. MSkel[c[i]] = Shows!Lines(p)
    BY <2>2, <2>3, MSkelIs
  <2>6. Shows!Lines(p) = FlatMap(LineOf, p)
    BY LinesAre
  <2> QED BY <2>4, <2>5, <2>6
<1>6. FlatMap(h, c) = FlatMap(MSkel, c)
  BY <1>5, FlatMapSame
<1> QED BY <1>1, <1>2, <1>3, <1>4, <1>6 DEF Gist

(* A plain message leaves plain what was.                                   *)
LEMMA PlainAdded ==
  ASSUME NEW ms \in Seq(Msgs), NEW m \in Msgs, NEW t, t = Append(ms, m), NEW k \in Nat,
         m.role # "tool", m.calls = <<>>, PlainFrom(ms, k) \/ k = Len(ms) + 1
  PROVE  PlainFrom(t, k)
<1>1. PICK n \in Nat : n = Len(ms) /\ DOMAIN ms = 1..n
  BY LenProperties
<1>2. t \in Seq(Msgs) /\ Len(t) = n + 1 /\ t[n + 1] = m /\ \A i \in 1..n : t[i] = ms[i]
  BY <1>1, AppendProperties
<1>3. DOMAIN t = 1..(n + 1)
  BY <1>2, LenProperties
<1> SUFFICES ASSUME NEW i \in 1..(n + 1), k <= i PROVE t[i].role # "tool" /\ t[i].calls = <<>>
  BY <1>3 DEF PlainFrom
<1>4. CASE i = n + 1
  BY <1>2, <1>4
<1>5. CASE i # n + 1
  BY <1>5, <1>1, <1>2 DEF PlainFrom
<1> QED BY <1>4, <1>5

(* It adds its text to the gist.                                            *)
LEMMA SaidMore ==
  ASSUME NEW ms \in Seq(Msgs), NEW m, NEW k \in Nat, MsgsOk(ms, k),
         NEW t, t = Append(ms, m), NEW p, Says(m, p)
  PROVE  /\ MsgsOk(t, k) /\ Gist(t) = Cat(Gist(ms), Shows!Lines(p))
         /\ \A n : ResultIn(t, n) <=> ResultIn(ms, n)
<1>0. m \in Msgs /\ p \in Seq(Shows!Piece) /\ m.role # "tool"
  BY DEF Says
<1>1. MSkel[m] = Shows!Lines(p)
  BY SkelOfSteps, LinesNone DEF Says
<1>2. PICK x \in Seq(Marks) : x = MSkel[m]
  BY <1>0, MSkelIs
<1>3. Rising(x) /\ \A n : ~Calls(x, n)
  BY <1>0, <1>1, <1>2, TextCallsNothing
<1>4. m.role # "assistant" => m.pieces = <<>> /\ m.calls = <<>>
  BY DEF UserMsg, ModelMsg, Says
<1>5. k <= k
  OBVIOUS
<1>6. MsgsOk(t, k)
  BY <1>0, <1>2, <1>3, <1>4, <1>5, MsgAdded
<1>7. Gist(t) = Cat(Gist(ms), MSkel[m])
  BY <1>0, MSkelMakes, FlatMapAppend DEF Gist
<1>8. \A n : ResultIn(t, n) <=> ResultIn(ms, n)
  BY <1>0, ResultAdded
<1> QED BY <1>1, <1>6, <1>7, <1>8

(* A line of the user.                                                      *)
LEMMA SubmitConv ==
  ASSUME TypesInv, ConvInv, Shows!Submit
  PROVE  /\ ConvInv' /\ Gist(messages') = Gist(messages)
         /\ \A n : ResultIn(messages', n) <=> ResultIn(messages, n)
<1>1. /\ stage = "idle" /\ UNCHANGED <<contStart, batch, made>>
  BY SubmitStep
<1>2. PICK m : UserMsg(m) /\ messages' = Append(messages, m)
  BY SubmitStep
<1>3. PICK ms, t, k, p : ms = messages /\ t = messages' /\ k = made /\ p = <<>>
  OBVIOUS
<1>4. ms \in Seq(Msgs) /\ k \in Nat /\ p \in Seq(Shows!Piece) /\ t = Append(ms, m) /\ MsgsOk(ms, k) /\ Says(m, p)
  BY <1>2, <1>3, PiecesAre DEF UserMsg, ConvInv, TypesInv, Says
<1>5. MsgsOk(t, k) /\ Gist(t) = Cat(Gist(ms), Shows!Lines(p)) /\ \A n : ResultIn(t, n) <=> ResultIn(ms, n)
  BY <1>4, SaidMore
<1>6. Cat(Gist(ms), Shows!Lines(p)) = Gist(ms)
  BY <1>3, <1>4, LinesNone, GistIs, CatProperties
<1>7. contStart = 0
  BY <1>1 DEF TypesInv
<1>8. ConvInv'
  BY <1>1, <1>3, <1>5, <1>7 DEF ConvInv
<1> QED BY <1>3, <1>5, <1>6, <1>8

(* A part of an answer, and the request to go on.                           *)
LEMMA ContinueConv ==
  ASSUME TypesInv, ConvInv, Shows!Continue
  PROVE  /\ ConvInv' /\ Gist(messages') = Cat(Gist(messages), Shows!Lines(partial))
         /\ \A n : ResultIn(messages', n) <=> ResultIn(messages, n)
<1>1. /\ contStart' = IF contStart = 0 THEN Len(messages) + 1 ELSE contStart
      /\ UNCHANGED <<batch, made>>
  BY ContinueStep
<1>2. PICK a, u, s : /\ s \in Seq(Msgs) /\ ModelMsg(a, partial, <<>>) /\ UserMsg(u)
                     /\ s = Append(messages, a) /\ messages' = Append(s, u)
  BY ContinueStep
<1>3. PICK ms, t, k, p, e : ms = messages /\ t = messages' /\ k = made /\ p = partial /\ e = <<>>
  OBVIOUS
<1>4. /\ ms \in Seq(Msgs) /\ k \in Nat /\ p \in Seq(Shows!Piece) /\ e \in Seq(Shows!Piece)
      /\ a \in Msgs /\ a.role # "tool" /\ a.calls = <<>> /\ s = Append(ms, a) /\ MsgsOk(ms, k)
      /\ u \in Msgs /\ u.role # "tool" /\ u.calls = <<>> /\ t = Append(s, u)
  BY <1>2, <1>3, PiecesAre DEF UserMsg, ModelMsg, ConvInv, TypesInv
<1>11. Says(a, p) /\ Says(u, e)
  BY <1>2, <1>3, <1>4 DEF Says
<1>5. MsgsOk(s, k) /\ Gist(s) = Cat(Gist(ms), Shows!Lines(p)) /\ \A n : ResultIn(s, n) <=> ResultIn(ms, n)
  BY <1>4, <1>11, SaidMore
<1>6. MsgsOk(t, k) /\ Gist(t) = Cat(Gist(s), Shows!Lines(e)) /\ \A n : ResultIn(t, n) <=> ResultIn(s, n)
  BY <1>2, <1>4, <1>5, <1>11, SaidMore, ZenonT(30)
<1>7. Cat(Gist(s), Shows!Lines(e)) = Gist(s)
  BY <1>2, <1>3, LinesNone, GistIs, CatProperties
<1>8. PICK c \in Nat : c = contStart'
  BY <1>1, <1>3, LenProperties DEF TypesInv
<1>9. PlainFrom(t, c)
  BY <1>1, <1>3, <1>8, <1>4, PlainAdded, <1>2 DEF ConvInv
<1>10. ConvInv'
  BY <1>1, <1>3, <1>6, <1>8, <1>9 DEF ConvInv
<1> QED BY <1>3, <1>5, <1>6, <1>7, <1>10

(* An answer, in one or in parts.                                           *)
LEMMA AnswerConv ==
  ASSUME TypesInv, ConvInv, Shows!Answer
  PROVE  /\ ConvInv' /\ Gist(messages') = Cat(Gist(messages), Shows!Lines(partial))
         /\ \A n : ResultIn(messages', n) <=> ResultIn(messages, n)
<1>1. contStart' = 0 /\ UNCHANGED <<batch, made>>
  BY AnswerStep
<1>6. PICK ms, t, k, p : ms = messages /\ t = messages' /\ k = made /\ p = partial
  OBVIOUS
<1>2. /\ ms \in Seq(Msgs) /\ k \in Nat /\ p \in Seq(Shows!Piece) /\ MsgsOk(ms, k)
      /\ ms = messages /\ t = messages' /\ k = made /\ p = partial
  BY <1>6 DEF TypesInv, ConvInv
<1>3. MsgsOk(t, k) => ConvInv'
  BY <1>1, <1>2 DEF ConvInv
<1>4. CASE \E a : ModelMsg(a, partial, <<>>) /\ messages' = Append(messages, a)
  <2>1. PICK a : ModelMsg(a, p, <<>>) /\ t = Append(ms, a)
    BY <1>2, <1>4
  <2>2. Says(a, p)
    BY <1>2, <2>1 DEF ModelMsg, Says
  <2>3. MsgsOk(t, k) /\ Gist(t) = Cat(Gist(ms), Shows!Lines(p)) /\ \A n : ResultIn(t, n) <=> ResultIn(ms, n)
    BY <1>2, <2>1, <2>2, SaidMore
  <2> QED BY <1>2, <1>3, <2>3
<1>5. CASE \E b, c : AnswerParts(b, c)
  <2>1. PICK b, c : AnswerParts(b, c)
    BY <1>5
  <2>2. /\ b \in Seq(Msgs) /\ c \in Seq(Msgs) /\ ms = Cat(b, c)
        /\ Len(c) = Len(messages) - contStart + 1 /\ contStart # 0
        /\ \A i \in 1..Len(c) : c[i] = messages[contStart + i - 1]
    BY <1>2, <2>1 DEF AnswerParts
  <2>3. PICK a : ModelMsg(a, Cat(FlatMap(PiecesOf, c), p), <<>>) /\ t = Append(b, a)
    BY <1>2, <2>1 DEF AnswerParts
  <2>4. ASSUME NEW i \in DOMAIN c PROVE c[i].role # "tool" /\ c[i].calls = <<>>
    <3>1. PICK l \in Nat, s \in Nat : l = Len(messages) /\ s = contStart /\ DOMAIN messages = 1..l
      BY <1>2, LenProperties DEF TypesInv
    <3>2. i \in 1..Len(c) /\ i \in Nat /\ i # 0 /\ i <= (l - s) + 1
      BY <2>2, <3>1, LenProperties
    <3>3. PICK j : j = s + i - 1
      OBVIOUS
    <3>4. s <= j /\ j \in 1..l
      BY <2>2, <3>1, <3>2, <3>3
    <3>5. c[i] = messages[j]
      BY <2>2, <3>1, <3>2, <3>3
    <3> QED BY <2>2, <3>1, <3>4, <3>5 DEF ConvInv, PlainFrom
  <2>5. PICK f \in Seq(Shows!Piece) : f = FlatMap(PiecesOf, c) /\ Shows!Lines(f) = Gist(c)
    BY <2>2, <2>4, PartsSay
  <2>6. PICK q : q = Cat(f, p)
    OBVIOUS
  <2>12. p \in Seq(Shows!Piece)
    BY <1>2
  <2>13. q \in Seq(Shows!Piece) /\ Shows!Lines(q) = Cat(Shows!Lines(f), Shows!Lines(p))
    BY <2>6, <2>12, LinesCat
  <2>7. MsgsOk(b, k) /\ Gist(ms) = Cat(Gist(b), Gist(c)) /\ \A n : ResultIn(ms, n) <=> ResultIn(b, n) \/ ResultIn(c, n)
    BY <1>2, <2>2, FrontOk
  <2>8. Says(a, q)
    BY <2>3, <2>5, <2>6, <2>13 DEF ModelMsg, Says
  <2>9. MsgsOk(t, k) /\ Gist(t) = Cat(Gist(b), Shows!Lines(q)) /\ \A n : ResultIn(t, n) <=> ResultIn(b, n)
    <3>1. b \in Seq(Msgs) /\ k \in Nat /\ MsgsOk(b, k)
      BY <1>2, <2>2, <2>7
    <3>2. t = Append(b, a)
      BY <2>3
    <3> QED BY <2>8, <3>1, <3>2, SaidMore
  <2>10. \A n : ~ResultIn(c, n)
    BY <2>4 DEF ResultIn
  <2>11. Cat(Gist(b), Cat(Gist(c), Shows!Lines(p))) = Cat(Cat(Gist(b), Gist(c)), Shows!Lines(p))
    <3>1. PICK x \in Seq(Marks), y \in Seq(Marks), z \in Seq(Marks) :
            x = Gist(b) /\ y = Gist(c) /\ z = Shows!Lines(p)
      BY <2>2, <2>12, GistIs, LinesAre
    <3> QED BY <3>1, CatProperties
  <2> QED BY <1>2, <1>3, <2>5, <2>6, <2>7, <2>9, <2>10, <2>11, <2>13
<1> QED BY <1>4, <1>5, AnswerStep

(* A message that calls tools.                                              *)
LEMMA CallToolsConv ==
  ASSUME TypesInv, ConvInv, NEW cs \in Shows!Batches, said + made + turns + Len(cs) <= MaxParts,
         Shows!CallTools(cs)
  PROVE  /\ ConvInv'
         /\ Gist(messages') = Cat(Gist(messages), Cat(Shows!Lines(partial), CallMarks(cs)))
         /\ \A n : ResultIn(messages', n) <=> ResultIn(messages, n)
<1>1. /\ batch' = cs /\ contStart' = 0 /\ made' = made + Len(cs) /\ cs \in Seq(Shows!Call)
      /\ Numbered(cs, made) /\ Len(cs) \in Nat
  BY CallToolsStep
<1>2. PICK a : ModelMsg(a, partial, cs) /\ messages' = Append(messages, a)
  BY CallToolsStep
<1>3. PICK ms, t, k, l, p, d : /\ ms = messages /\ t = messages' /\ k = made /\ l = made' /\ p = partial
                               /\ d = Len(cs)
  OBVIOUS
<1>4. /\ ms \in Seq(Msgs) /\ k \in Nat /\ l \in Nat /\ l = k + d /\ d \in Nat /\ k <= l
      /\ p \in Seq(Shows!Piece)
      /\ MsgsOk(ms, k) /\ t = Append(ms, a) /\ ModelMsg(a, p, cs) /\ Numbered(cs, k)
  BY <1>1, <1>2, <1>3 DEF TypesInv, ConvInv
<1>5. a \in Msgs /\ a.role = "assistant" /\ MSkel[a] = Cat(Shows!Lines(p), CallMarks(cs))
  BY <1>4, SkelOfSteps DEF ModelMsg
<1>6. PICK x \in Seq(Marks), y \in Seq(Marks) : x = Shows!Lines(p) /\ y = CallMarks(cs)
  BY <1>1, <1>4, LinesAre, CallMarksAre
<1>7. (\A n : ~Calls(x, n)) /\ Rising(x)
  BY <1>4, <1>6, TextCallsNothing
<1>8. Rising(y) /\ \A n \in Nat : Calls(y, n) => k < n /\ n <= l
  BY <1>1, <1>3, <1>4, <1>6, NumberedCalls
<1>9. PICK g : g = MSkel[a]
  OBVIOUS
<1>10. Rising(g) /\ \A n \in Nat : Calls(g, n) => k < n /\ n <= l
  BY <1>5, <1>6, <1>9, <1>7, <1>8, RisingCat
<1>11. MsgsOk(t, l)
  BY <1>4, <1>5, <1>9, <1>10, MsgAdded
<1>12. Gist(t) = Cat(Gist(ms), MSkel[a])
  BY <1>4, <1>5, MSkelMakes, FlatMapAppend DEF Gist
<1>13. \A n : ResultIn(t, n) <=> ResultIn(ms, n)
  BY <1>4, <1>5, ResultAdded
<1>14. \A b \in DOMAIN cs : cs[b].id <= l
  BY <1>1, <1>3, LenProperties, <1>4 DEF Numbered
<1>15. ConvInv'
  BY <1>1, <1>3, <1>11, <1>14 DEF ConvInv
<1> QED BY <1>3, <1>5, <1>12, <1>13, <1>15

(* A call that is observed.                                                 *)
LEMMA ObserveConv ==
  ASSUME TypesInv, ConvInv, Shows!Observe
  PROVE  /\ ConvInv' /\ Gist(messages') = Gist(messages)
         /\ \A n : ResultIn(messages', n) <=> ResultIn(messages, n) \/ n = Head(batch).id
<1>1. /\ stage = "batch" /\ batch # <<>> /\ batch' = Tail(batch) /\ UNCHANGED <<contStart, made>>
  BY ObserveStep
<1>2. PICK c, m : /\ c = Head(batch) /\ ToolMsg(m, c) /\ messages' = Append(messages, m)
  BY ObserveStep
<1>3. PICK ms, t, k, bs, ts : ms = messages /\ t = messages' /\ k = made /\ bs = batch /\ ts = batch'
  OBVIOUS
<1>4. /\ ms \in Seq(Msgs) /\ k \in Nat /\ bs \in Seq(Shows!Call) /\ MsgsOk(ms, k) /\ t = Append(ms, m)
      /\ m \in Msgs /\ m.role = "tool" /\ m.pieces = <<>> /\ m.calls = <<>> /\ m.id = c.id
      /\ c = Head(bs) /\ ts = Tail(bs) /\ bs # <<>>
  BY <1>1, <1>2, <1>3 DEF TypesInv, ConvInv, ToolMsg
<1>5. PICK n \in Nat : n = Len(bs) /\ n # 0 /\ DOMAIN bs = 1..n
  BY <1>4, HeadAndTail, LenProperties
<1>6. /\ c = bs[1] /\ ts \in Seq(Shows!Call) /\ DOMAIN ts = 1..(n - 1)
      /\ \A i \in 1..(n - 1) : ts[i] = bs[i + 1]
  BY <1>4, <1>5, HeadAndTail, LenProperties
<1>7. \A b \in 1..n : bs[b].id <= k
  BY <1>3, <1>5 DEF ConvInv
<1>8. m.id <= k
  BY <1>4, <1>5, <1>6, <1>7
<1>9. PICK g : g = MSkel[m]
  OBVIOUS
<1>10. g = <<>> /\ Rising(g) /\ \A j \in Nat : Calls(g, j) => k < j /\ j <= k
  BY <1>4, <1>9, MSkelIs DEF Rising, Calls, In
<1>11. k <= k
  BY <1>4
<1>12. MsgsOk(t, k)
  BY <1>4, <1>9, <1>10, <1>8, <1>11, MsgAdded
<1>13. Gist(t) = Cat(Gist(ms), MSkel[m])
  BY <1>4, MSkelMakes, FlatMapAppend DEF Gist
<1>14. Cat(Gist(ms), <<>>) = Gist(ms)
  BY <1>4, GistIs, CatProperties
<1>15. \A j : ResultIn(t, j) <=> ResultIn(ms, j) \/ j = c.id
  BY <1>4, ResultAdded
<1>16. contStart' = 0
  BY <1>1 DEF TypesInv
<1>17. \A b \in DOMAIN ts : ts[b].id <= k
  BY <1>5, <1>6, <1>7
<1>18. ConvInv'
  BY <1>1, <1>3, <1>12, <1>16, <1>17 DEF ConvInv
<1> QED BY <1>2, <1>3, <1>9, <1>10, <1>13, <1>14, <1>15, <1>18

(* Steps that leave the conversation alone.                                 *)
LEMMA ConvRests ==
  ASSUME ConvInv, UNCHANGED <<messages, made>>,
         contStart' = contStart \/ contStart' = 0, batch' = batch \/ batch' = <<>>
  PROVE  /\ ConvInv' /\ Gist(messages') = Gist(messages)
         /\ \A n : ResultIn(messages', n) <=> ResultIn(messages, n)
BY DEF ConvInv

(* A conversation begins with nothing.                                      *)
LEMMA NothingSaid == \A k \in Nat : MsgsOk(<<>>, k) /\ \A n : ~ResultIn(<<>>, n)
<1>1. PICK e \in Seq(Msgs) : e = <<>>
  BY EmptySeq
<1>2. Gist(<<>>) = <<>> /\ DOMAIN <<>> = {}
  <2>1. Gist(<<>>) = <<>>
    BY <1>1, GistIs
  <2>2. DOMAIN <<>> = {}
    OBVIOUS
  <2> QED BY <2>1, <2>2
<1>3. Rising(<<>>) /\ \A n : ~Calls(<<>>, n)
  BY DEF Rising, Calls, In
<1> QED BY <1>1, <1>2, <1>3 DEF MsgsOk, ResultIn

(* What one entry adds to the gist.                                         *)
LEMMA ESkelIs ==
  ASSUME NEW e \in Entries
  PROVE  /\ e.kind = "reply" => ESkel[e] = Shows!Lines(e.pieces)
         /\ e.kind = "block" => ESkel[e] = <<<<"call", e.id>>>>
         /\ e.kind \in {"note", "user"} => ESkel[e] = <<>>
         /\ ESkel[e] \in Seq(Marks)
<1>1. e.kind \in {"user", "note", "reply", "block"} /\ e.id \in Nat
  BY EntryFields DEF Kinds
<1>2. PICK p \in Seq(Shows!Piece) : p = e.pieces
  BY EntryFields
<1>3. Shows!Lines(p) \in Seq(Marks)
  BY LinesAre
<1>4. PICK m \in Marks : m = <<"call", e.id>>
  BY <1>1, MarksAre
<1>5. <<m>> \in Seq(Marks) /\ <<>> \in Seq(Marks)
  BY MarksAre
<1> QED BY <1>1, <1>2, <1>3, <1>4, <1>5 DEF ESkel

(* The entries make marks.                                                  *)
LEMMA ESkelMakes == Makes(ESkel, Entries, Marks)
<1>1. PICK g : g = ESkel
  OBVIOUS
<1>2. \A e \in Entries : g[e] \in Seq(Marks)
  BY <1>1, ESkelIs
<1>3. DOMAIN g = Entries /\ g = [e \in Entries |-> g[e]]
  BY <1>1 DEF ESkel
<1> QED BY <1>1, <1>2, <1>3 DEF Makes

(* The gist of the entries is a sequence of marks.                          *)
LEMMA SketchIs ==
  ASSUME NEW es \in Seq(Entries)
  PROVE  Sketch(es) \in Seq(Marks)
BY ESkelMakes, FlatMapType DEF Sketch

(* The blocks there are with one entry more.                                *)
LEMMA BlockAdded ==
  ASSUME NEW es \in Seq(Entries), NEW x \in Entries, NEW t, t = Append(es, x)
  PROVE  \A n, a, r, u : HasBlock(t, n, a, r, u) <=>
           \/ HasBlock(es, n, a, r, u)
           \/ x.kind = "block" /\ x.id = n /\ x.name = a /\ x.result = r /\ x.uid = u
<1>1. PICK l \in Nat : l = Len(es) /\ DOMAIN es = 1..l
  BY LenProperties
<1>2. t \in Seq(Entries) /\ Len(t) = l + 1 /\ t[l + 1] = x /\ \A i \in 1..l : t[i] = es[i]
  BY <1>1, AppendProperties
<1>3. DOMAIN t = 1..(l + 1)
  BY <1>2, LenProperties
<1>4. \A i \in 1..(l + 1) : i \in 1..l \/ i = l + 1
  OBVIOUS
<1>5. (\A i \in 1..l : i \in 1..(l + 1)) /\ l + 1 \in 1..(l + 1)
  OBVIOUS
<1> QED BY <1>1, <1>2, <1>3, <1>4, <1>5 DEF HasBlock

(* An entry that says and calls nothing.                                    *)
LEMMA NoteSketch ==
  ASSUME NEW es \in Seq(Entries), NEW x \in Entries, x.kind \in {"note", "user"},
         NEW t, t = Append(es, x)
  PROVE  Sketch(t) = Sketch(es) /\ SameBlocks(es, t)
<1>1. Sketch(t) = Cat(Sketch(es), ESkel[x])
  BY ESkelMakes, FlatMapAppend DEF Sketch
<1>2. PICK s \in Seq(Marks) : s = Sketch(es)
  BY SketchIs
<1>3. Cat(s, <<>>) = s
  BY CatProperties
<1>4. ESkel[x] = <<>>
  BY ESkelIs
<1>5. x.kind # "block"
  OBVIOUS
<1>6. SameBlocks(es, t)
  BY <1>5, BlockAdded DEF SameBlocks
<1> QED BY <1>1, <1>2, <1>3, <1>4, <1>6

(* A reply that is finished says what it said; one that says nothing may be *)
(* dropped.                                                                 *)
LEMMA FinishedSketch ==
  ASSUME NEW v, ViewOk(v), NEW f, f = Shows!Finished(v)
  PROVE  Sketch(f.entries) = Sketch(v.entries) /\ SameBlocks(v.entries, f.entries)
<1>1. \/ f.entries = v.entries
      \/ /\ v.reply # 0 /\ Shows!Blank(ReplyText(v))
         /\ f.entries = Shows!RemoveAt(v.entries, Shows!Place(v, v.reply))
  BY FinishedIs
<1>2. CASE f.entries = v.entries
  BY <1>2 DEF SameBlocks
<1>3. CASE /\ v.reply # 0 /\ Shows!Blank(ReplyText(v))
           /\ f.entries = Shows!RemoveAt(v.entries, Shows!Place(v, v.reply))
  <2>1. v \in Views /\ UidsRise(v.entries) /\ Has(v.entries, v.reply, "reply")
    BY <1>3 DEF ViewOk, EntriesOk
  <2>2. PICK j, es, t : j = Shows!Place(v, v.reply) /\ es = v.entries /\ t = f.entries
    OBVIOUS
  <2>3. j \in DOMAIN v.entries /\ v.entries[j].kind = "reply"
    BY <2>1, <2>2, PlaceIs
  <2>4. PICK n \in Nat : n = Len(es) /\ DOMAIN es = 1..n
    BY <2>1, <2>2, ViewFields
  <2>5. es \in Seq(Entries) /\ j \in 1..n /\ es[j] \in Entries /\ es[j].kind = "reply" /\ t = Shows!RemoveAt(es, j)
    BY <1>3, <2>1, <2>2, <2>3, <2>4, ViewFields
  <2>6. PICK p \in Seq(Shows!Piece) : p = es[j].pieces /\ Shows!Blank(p)
    BY <1>3, <2>2, <2>5, EntryFields DEF ReplyText
  <2>7. ESkel[es[j]] = <<>>
    BY <2>5, <2>6, ESkelIs, BlankLines
  <2>8. Sketch(t) = Sketch(es)
    BY <2>4, <2>5, <2>7, ESkelMakes, FlatMapRemoved DEF Sketch
  <2>9. DOMAIN t = 1..(n - 1) /\ \A i \in 1..(n - 1) : t[i] = IF i < j THEN es[i] ELSE es[i + 1]
    BY <2>4, <2>5, Removed
  <2>10. ASSUME NEW m, NEW a, NEW r, NEW u, HasBlock(t, m, a, r, u) PROVE HasBlock(es, m, a, r, u)
    <3>1. PICK i \in 1..(n - 1) : /\ t[i].kind = "block" /\ t[i].id = m /\ t[i].name = a
                                  /\ t[i].result = r /\ t[i].uid = u
      BY <2>9, <2>10 DEF HasBlock
    <3>2. i \in 1..n /\ i + 1 \in 1..n
      BY <3>1
    <3> QED BY <2>4, <2>9, <3>1, <3>2 DEF HasBlock
  <2>11. ASSUME NEW m, NEW a, NEW r, NEW u, HasBlock(es, m, a, r, u) PROVE HasBlock(t, m, a, r, u)
    <3>1. PICK i \in 1..n : /\ es[i].kind = "block" /\ es[i].id = m /\ es[i].name = a
                            /\ es[i].result = r /\ es[i].uid = u
      BY <2>4, <2>11 DEF HasBlock
    <3>2. i # j
      BY <2>5, <3>1
    <3>3. CASE i < j
      BY <2>5, <2>9, <3>1, <3>3 DEF HasBlock
    <3>4. CASE j < i
      <4>1. i - 1 \in 1..(n - 1) /\ ~(i - 1 < j) /\ (i - 1) + 1 = i
        BY <2>5, <3>1, <3>4
      <4>2. t[i - 1] = es[i]
        BY <2>9, <4>1
      <4> QED BY <2>9, <3>1, <4>1, <4>2 DEF HasBlock
    <3> QED BY <2>5, <3>1, <3>2, <3>3, <3>4
  <2> QED BY <2>2, <2>8, <2>10, <2>11 DEF SameBlocks
<1> QED BY <1>1, <1>2, <1>3

(* Notes and lines of the user.                                             *)
LEMMA NotedSketch ==
  ASSUME NEW f, ViewOk(f), NEW e \in Entries, e.kind \in {"note", "user"}, NEW w, Writes(f, e, w)
  PROVE  Sketch(w.entries) = Sketch(f.entries) /\ SameBlocks(f.entries, w.entries)
<1>1. e.kind # "reply"
  OBVIOUS
<1>2. PICK x \in Entries : SameBut(x, e, f.next) /\ w.entries = Append(f.entries, x)
  BY <1>1, NotedIs
<1>3. PICK es, t : es = f.entries /\ t = w.entries
  OBVIOUS
<1>4. es \in Seq(Entries) /\ x.kind \in {"note", "user"} /\ t = Append(es, x)
  BY <1>2, <1>3, ViewFields DEF ViewOk, SameBut
<1> QED BY <1>3, <1>4, NoteSketch

(* The end of a turn.                                                       *)
LEMMA EndedSketch ==
  ASSUME NEW v, ViewOk(v), NEW w, w = Shows!Ended(v)
  PROVE  Sketch(w.entries) = Sketch(v.entries) /\ SameBlocks(v.entries, w.entries)
<1>1. PICK f : f = Shows!Finished(v)
  OBVIOUS
<1>2. ViewOk(f)
  BY <1>1, FinishedOk
<1>3. PICK x \in Entries : x.kind = "note" /\ w.entries = Append(f.entries, x)
  BY <1>1, EndedIs
<1>4. PICK es, t : es = f.entries /\ t = w.entries
  OBVIOUS
<1>5. es \in Seq(Entries) /\ x.kind \in {"note", "user"} /\ t = Append(es, x)
  BY <1>2, <1>3, <1>4, ViewFields DEF ViewOk
<1>6. Sketch(t) = Sketch(es) /\ SameBlocks(es, t)
  BY <1>5, NoteSketch
<1>7. Sketch(f.entries) = Sketch(v.entries) /\ SameBlocks(v.entries, f.entries)
  BY <1>1, FinishedSketch
<1> QED BY <1>4, <1>6, <1>7 DEF SameBlocks

(* A call that is announced.                                                *)
LEMMA AnnouncedSketch ==
  ASSUME NEW v, ViewOk(v), NEW m, m.id \in Nat, m.name \in ToolNames,
         NEW w, w = Shows!Announced(v, m)
  PROVE  /\ Sketch(w.entries) = Cat(Sketch(v.entries), <<<<"call", m.id>>>>)
         /\ w.pending = Append(v.pending, v.next)
         /\ \A n, a, r, u : HasBlock(w.entries, n, a, r, u) <=>
              \/ HasBlock(v.entries, n, a, r, u)
              \/ n = m.id /\ a = m.name /\ r = 0 /\ u = v.next
<1>1. PICK f : f = Shows!Finished(v)
  OBVIOUS
<1>2. ViewOk(f) /\ f.pending = v.pending /\ f.next = v.next
  BY <1>1, FinishedOk, FinishedIs
<1>3. w.pending = Append(f.pending, f.next) /\ NewBlock(f, m, w)
  BY <1>1, AnnouncedIs
<1>4. PICK x \in Entries : /\ x.kind = "block" /\ x.id = m.id /\ x.name = m.name
                           /\ x.result = 0 /\ x.uid = f.next /\ w.entries = Append(f.entries, x)
  BY <1>3 DEF NewBlock
<1>5. PICK es, t : es = f.entries /\ t = w.entries
  OBVIOUS
<1>6. es \in Seq(Entries) /\ t = Append(es, x)
  BY <1>2, <1>4, <1>5, ViewFields DEF ViewOk
<1>7. Sketch(t) = Cat(Sketch(es), ESkel[x])
  BY <1>6, ESkelMakes, FlatMapAppend DEF Sketch
<1>8. ESkel[x] = <<<<"call", m.id>>>>
  BY <1>4, ESkelIs
<1>9. ASSUME NEW n, NEW a, NEW r, NEW u
      PROVE  HasBlock(t, n, a, r, u) <=> HasBlock(es, n, a, r, u) \/ (n = m.id /\ a = m.name /\ r = 0 /\ u = v.next)
  <2>1. HasBlock(t, n, a, r, u) <=>
          \/ HasBlock(es, n, a, r, u)
          \/ x.kind = "block" /\ x.id = n /\ x.name = a /\ x.result = r /\ x.uid = u
    BY <1>6, BlockAdded, ZenonT(30)
  <2>2. (x.kind = "block" /\ x.id = n /\ x.name = a /\ x.result = r /\ x.uid = u)
          <=> (n = m.id /\ a = m.name /\ r = 0 /\ u = v.next)
    BY <1>2, <1>4
  <2> QED BY <2>1, <2>2
<1>10. Sketch(f.entries) = Sketch(v.entries) /\ SameBlocks(v.entries, f.entries)
  BY <1>1, FinishedSketch
<1>11. \A n, a, r, u : HasBlock(es, n, a, r, u) <=> HasBlock(v.entries, n, a, r, u)
  BY <1>5, <1>10 DEF SameBlocks
<1>12. Sketch(w.entries) = Cat(Sketch(v.entries), <<<<"call", m.id>>>>)
  BY <1>5, <1>7, <1>8, <1>10
<1>13. w.pending = Append(v.pending, v.next)
  BY <1>2, <1>3
<1>14. \A n, a, r, u : HasBlock(w.entries, n, a, r, u) <=>
         HasBlock(v.entries, n, a, r, u) \/ (n = m.id /\ a = m.name /\ r = 0 /\ u = v.next)
  BY <1>5, <1>9, <1>11
<1> QED BY <1>12, <1>13, <1>14

(* A call that is completed.                                                *)
LEMMA TakenSketch ==
  ASSUME NEW es \in Seq(Entries), UidsRise(es), NEW i \in DOMAIN es, es[i].kind = "block",
         NEW k, NEW t, Completes(es, i, k, t)
  PROVE  /\ Sketch(t) = Sketch(es)
         /\ \A n, a, r, u : HasBlock(t, n, a, r, u) <=>
              \/ HasBlock(es, n, a, r, u) /\ u # es[i].uid
              \/ n = es[i].id /\ a = es[i].name /\ r = k /\ u = es[i].uid
<1>1. PICK l \in Nat : l = Len(es) /\ DOMAIN es = 1..l
  BY LenProperties
<1>2. t \in Seq(Entries) /\ Len(t) = l /\ DOMAIN t = 1..l
  BY <1>1, LenProperties DEF Completes
<1>3. /\ \A j \in 1..l : j # i => t[j] = es[j]
      /\ t[i].kind = "block" /\ t[i].id = es[i].id /\ t[i].name = es[i].name
      /\ t[i].uid = es[i].uid /\ t[i].result = k
  BY <1>1 DEF Completes
<1>4. \A j \in 1..l : es[j] \in Entries /\ t[j] \in Entries
  BY <1>1, <1>2, ElementOfSeq
<1>5. \A j \in 1..Len(t) : ESkel[t[j]] = ESkel[es[j]]
  <2>1. TAKE j \in 1..Len(t)
  <2>2. CASE j # i
    BY <1>2, <1>3, <2>2
  <2>3. CASE j = i
    <3>1. PICK e \in Entries, x \in Entries : e = es[i] /\ x = t[i]
      BY <1>1, <1>4
    <3>2. ESkel[x] = <<<<"call", x.id>>>> /\ ESkel[e] = <<<<"call", e.id>>>>
      BY <1>3, <3>1, ESkelIs
    <3> QED BY <1>3, <2>3, <3>1, <3>2
  <2> QED BY <2>2, <2>3
<1>6. Sketch(t) = Sketch(es)
  BY <1>1, <1>2, <1>5 DEF FlatMap, Sketch
<1>7. \A j \in 1..l : es[j].uid = es[i].uid => j = i
  BY <1>1, UidsDiffer
<1>8. ASSUME NEW n, NEW a, NEW r, NEW u, HasBlock(t, n, a, r, u)
      PROVE  \/ HasBlock(es, n, a, r, u) /\ u # es[i].uid
             \/ n = es[i].id /\ a = es[i].name /\ r = k /\ u = es[i].uid
  <2>1. PICK j \in 1..l : t[j].kind = "block" /\ t[j].id = n /\ t[j].name = a /\ t[j].result = r /\ t[j].uid = u
    BY <1>2, <1>8 DEF HasBlock
  <2>2. CASE j = i
    BY <1>3, <2>1, <2>2
  <2>3. CASE j # i
    BY <1>1, <1>3, <1>7, <2>1, <2>3 DEF HasBlock
  <2> QED BY <2>2, <2>3
<1>9. ASSUME NEW n, NEW a, NEW r, NEW u, HasBlock(es, n, a, r, u), u # es[i].uid
      PROVE  HasBlock(t, n, a, r, u)
  <2>1. PICK j \in 1..l : es[j].kind = "block" /\ es[j].id = n /\ es[j].name = a /\ es[j].result = r /\ es[j].uid = u
    BY <1>1, <1>9 DEF HasBlock
  <2>2. t[j] = es[j]
    BY <1>3, <1>9, <2>1
  <2> QED BY <1>2, <2>1, <2>2 DEF HasBlock
<1>10. HasBlock(t, es[i].id, es[i].name, k, es[i].uid)
  BY <1>1, <1>2, <1>3 DEF HasBlock
<1> QED BY <1>6, <1>8, <1>9, <1>10

(* Text that streams.                                                       *)
LEMMA DeltaSketch ==
  ASSUME NEW v, ViewOk(v), v.reply # 0 => ReplyLast(v), NEW p \in Shows!Piece,
         NEW g, g = Shows!Grown(v, p), NEW k \in 0..Len(g.buf), NEW w, w = Shows!Drained(g, k)
  PROVE  /\ Sketch(w.entries) = Cat(Sketch(v.entries), LineOf[p])
         /\ ReplyLast(w) /\ SameBlocks(v.entries, w.entries)
<1>1. PICK r : r = Shows!ReplyEntry(v)
  OBVIOUS
<1>2. /\ ViewOk(r) /\ r.reply # 0
      /\ IF v.reply # 0 THEN r = v
         ELSE /\ r.reply = v.next
              /\ \E x \in Entries : /\ x.kind = "reply" /\ x.pieces = <<>> /\ x.uid = v.next
                                    /\ r.entries = Append(v.entries, x)
  BY <1>1, ReplyEntryIs
<1>3. r \in Views /\ v \in Views /\ r.entries \in Seq(Entries) /\ v.entries \in Seq(Entries)
  BY <1>2, ViewFields DEF ViewOk
<1>4. Sketch(r.entries) = Sketch(v.entries) /\ ReplyLast(r) /\ SameBlocks(v.entries, r.entries)
  <2>1. CASE v.reply # 0
    BY <1>2, <2>1 DEF SameBlocks
  <2>2. CASE v.reply = 0
    <3>1. PICK x \in Entries : /\ x.kind = "reply" /\ x.pieces = <<>> /\ x.uid = v.next
                               /\ r.entries = Append(v.entries, x)
      BY <1>2, <2>2
    <3>2. PICK es, t : es = v.entries /\ t = r.entries
      OBVIOUS
    <3>3. es \in Seq(Entries) /\ t = Append(es, x)
      BY <1>3, <3>1, <3>2
    <3>4. ESkel[x] = <<>>
      BY <3>1, ESkelIs, LinesNone
    <3>5. Sketch(t) = Cat(Sketch(es), ESkel[x])
      BY <3>3, ESkelMakes, FlatMapAppend DEF Sketch
    <3>6. PICK s \in Seq(Marks) : s = Sketch(es)
      BY <3>3, SketchIs
    <3>7. Cat(s, <<>>) = s
      BY CatProperties
    <3>8. SameBlocks(es, t)
      BY <3>1, <3>3, BlockAdded DEF SameBlocks
    <3>9. Len(es) \in Nat /\ Len(t) = Len(es) + 1 /\ t[Len(es) + 1] = x
      BY <3>3, AppendProperties, LenProperties
    <3> QED BY <1>2, <2>2, <3>1, <3>2, <3>4, <3>5, <3>6, <3>7, <3>8, <3>9 DEF ReplyLast
  <2> QED BY <2>1, <2>2
<1>5. /\ ViewOk(g) /\ g.reply = r.reply
      /\ Len(g.entries) = Len(r.entries)
      /\ \A i \in DOMAIN r.entries :
              /\ g.entries[i].uid = r.entries[i].uid /\ g.entries[i].kind = r.entries[i].kind
              /\ g.entries[i].id = r.entries[i].id /\ g.entries[i].name = r.entries[i].name
              /\ g.entries[i].result = r.entries[i].result
              /\ g.entries[i].pieces = IF r.entries[i].uid # r.reply THEN r.entries[i].pieces
                                       ELSE Append(r.entries[i].pieces, p)
  BY <1>1, GrownIs
<1>6. PICK n \in Nat : n = Len(r.entries) /\ DOMAIN r.entries = 1..n /\ n # 0
  <2>1. PICK j \in DOMAIN r.entries : r.entries[j].uid = r.reply
    BY <1>2 DEF ViewOk, EntriesOk, Has
  <2> QED BY <1>3, <2>1, LenProperties
<1>7. PICK e \in Entries : e = r.entries[n] /\ e.uid = r.reply
  BY <1>3, <1>4, <1>6, ElementOfSeq DEF ReplyLast
<1>8. e.kind = "reply" /\ e.pieces \in Seq(Shows!Piece)
  <2>1. PICK j \in DOMAIN r.entries : r.entries[j].uid = r.reply /\ r.entries[j].kind = "reply"
    BY <1>2 DEF ViewOk, EntriesOk, Has
  <2>2. n \in DOMAIN r.entries /\ UidsRise(r.entries)
    BY <1>2, <1>6 DEF ViewOk, EntriesOk
  <2>3. j = n
    BY <1>3, <1>7, <2>1, <2>2, UidsDiffer
  <2> QED BY <1>7, <2>1, <2>3, EntryFields
<1>9. g.entries \in Seq(Entries) /\ g \in Views /\ DOMAIN g.entries = 1..n
  BY <1>5, <1>6, ViewFields DEF ViewOk
<1>10. PICK x \in Entries : x = g.entries[n]
  BY <1>5, <1>6, <1>9, ElementOfSeq
<1>11. x.uid = r.reply /\ x.kind = "reply" /\ x.pieces = Append(e.pieces, p)
  <2>1. n \in DOMAIN r.entries
    BY <1>6
  <2>2. /\ g.entries[n].uid = r.entries[n].uid /\ g.entries[n].kind = r.entries[n].kind
        /\ g.entries[n].pieces = IF r.entries[n].uid # r.reply THEN r.entries[n].pieces
                                 ELSE Append(r.entries[n].pieces, p)
    BY <1>5, <2>1
  <2> QED BY <1>7, <1>8, <1>10, <2>2
<1>12. ASSUME NEW i \in 1..(n - 1) PROVE ESkel[g.entries[i]] = ESkel[r.entries[i]]
  <2>1. i \in 1..n /\ n \in 1..n /\ i # n
    BY <1>6
  <2>2. r.entries[i].uid # r.reply
    BY <1>2, <1>3, <1>6, <1>7, <2>1, UidsDiffer DEF ViewOk, EntriesOk
  <2>3. PICK y \in Entries, z \in Entries : y = r.entries[i] /\ z = g.entries[i]
    BY <1>3, <1>6, <1>9, <2>1, ElementOfSeq
  <2>4. z.kind = y.kind /\ z.pieces = y.pieces /\ z.id = y.id
    BY <1>5, <1>6, <2>1, <2>2, <2>3
  <2> QED BY <2>3, <2>4 DEF ESkel
<1>13. PICK q \in Seq(Marks), o \in Seq(Marks) : q = ESkel[e] /\ o = LineOf[p]
  BY ESkelIs, LineMakes DEF Makes
<1>14. ESkel[x] = Cat(q, o)
  <2>1. PICK b \in Seq(Shows!Piece) : b = e.pieces
    BY <1>8
  <2>2. Shows!Lines(Append(b, p)) = Cat(Shows!Lines(b), LineOf[p])
    BY LinesAppend
  <2>3. ESkel[x] = Shows!Lines(x.pieces) /\ ESkel[e] = Shows!Lines(e.pieces)
    BY <1>8, <1>11, ESkelIs
  <2> QED BY <1>11, <1>13, <2>1, <2>2, <2>3
<1>15. Sketch(g.entries) = Cat(Sketch(r.entries), o)
  <2>1. PICK u : u = SubSeq(r.entries, 1, n - 1)
    OBVIOUS
  <2>2. PICK t : t = SubSeq(g.entries, 1, n - 1)
    OBVIOUS
  <2>3. /\ u \in Seq(Entries) /\ Len(u) = n - 1 /\ \A i \in 1..(n - 1) : u[i] = r.entries[i]
        /\ t \in Seq(Entries) /\ Len(t) = n - 1 /\ \A i \in 1..(n - 1) : t[i] = g.entries[i]
    BY <1>3, <1>5, <1>6, <1>9, <2>1, <2>2, FrontIs
  <2>4. r.entries = Append(u, e) /\ g.entries = Append(t, x)
    BY <1>3, <1>6, <2>1, FrontIs, <1>5, <1>9, <2>2, <1>7, <1>10, SMTT(30)
  <2>5. \A i \in 1..Len(u) : ESkel[t[i]] = ESkel[u[i]]
    BY <1>12, <2>3
  <2>6. PICK s \in Seq(Marks) : s = FlatMap(ESkel, u)
    BY <2>3, SketchIs DEF Sketch
  <2>7. FlatMap(ESkel, t) = s
    BY <2>3, <2>5, <2>6, FlatMapSame
  <2>8. FlatMap(ESkel, Append(u, e)) = Cat(s, q)
    BY <1>13, <2>3, <2>6, ESkelMakes, FlatMapAppend
  <2>9. FlatMap(ESkel, Append(t, x)) = Cat(s, Cat(q, o))
    BY <1>14, <2>3, <2>7, ESkelMakes, FlatMapAppend
  <2>10. Cat(Cat(s, q), o) = Cat(s, Cat(q, o))
    BY CatProperties
  <2> QED BY <2>4, <2>8, <2>9, <2>10 DEF Sketch
<1>16. SameBlocks(r.entries, g.entries)
  <2>1. PICK es, t : es = r.entries /\ t = g.entries
    OBVIOUS
  <2>2. /\ DOMAIN es = 1..n /\ DOMAIN t = 1..n
        /\ \A i \in 1..n : /\ t[i].uid = es[i].uid /\ t[i].kind = es[i].kind /\ t[i].id = es[i].id
                           /\ t[i].name = es[i].name /\ t[i].result = es[i].result
    BY <1>5, <1>6, <1>9, <2>1
  <2>3. SameBlocks(es, t)
    BY <2>2 DEF SameBlocks, HasBlock
  <2> QED BY <2>1, <2>3
<1>17. w.entries = g.entries /\ w.reply = g.reply
  BY <1>2, <1>5, DrainedIs
<1>18. ReplyLast(w)
  BY <1>5, <1>6, <1>10, <1>11, <1>17 DEF ReplyLast
<1> QED BY <1>4, <1>13, <1>15, <1>16, <1>17, <1>18 DEF SameBlocks

(* The blocks of a message that is loaded call what it calls.               *)
LEMMA BlocksSketch ==
  ASSUME NEW cs \in Seq(Shows!Call)
  PROVE  Sketch(BlocksOf(cs)) = CallMarks(cs)
<1>1. PICK n \in Nat : n = Len(cs) /\ DOMAIN cs = 1..n
  BY LenProperties
<1>2. PICK b, m : b = BlocksOf(cs) /\ m = CallMarks(cs)
  OBVIOUS
<1>3. b \in Seq(Entries) /\ Len(b) = n /\ \A i \in 1..n : b[i] = BlockOf(cs[i])
  BY <1>1, <1>2, BlocksOfAre
<1>4. m \in Seq(Marks) /\ Len(m) = n /\ \A i \in 1..n : m[i] = <<"call", cs[i].id>>
  BY <1>1, <1>2, CallMarksAre
<1>5. PICK g : g = One
  OBVIOUS
<1>6. Makes(g, Marks, Marks) /\ \A x \in Marks : g[x] = <<x>>
  BY MarksAre, <1>5 DEF One, Makes
<1>7. \A i \in 1..n : m[i] \in Marks
  BY <1>4, ElementOfSeq
<1>8. FlatMap(g, m) = m
  BY <1>4, <1>6, <1>7, FlatMapItself
<1>9. \A i \in 1..n : ESkel[b[i]] = g[m[i]]
  <2>1. TAKE i \in 1..n
  <2>2. cs[i] \in Shows!Call
    BY <1>1, ElementOfSeq
  <2>3. b[i] \in Entries /\ b[i].kind = "block" /\ b[i].id = cs[i].id
    BY <1>3, <2>2, BlockOfIs
  <2>4. ESkel[b[i]] = <<<<"call", cs[i].id>>>>
    BY <2>3, ESkelIs
  <2> QED BY <1>4, <1>6, <1>7, <2>4
<1>10. FlatMap(ESkel, b) = FlatMap(g, m)
  <2>1. DOMAIN b = 1..n /\ DOMAIN m = 1..n
    BY <1>3, <1>4, LenProperties
  <2>2. [i \in DOMAIN b |-> ESkel[b[i]]] = [i \in DOMAIN m |-> g[m[i]]]
    BY <1>9, <2>1
  <2> QED BY <2>2 DEF FlatMap
<1> QED BY <1>2, <1>8, <1>10 DEF Sketch

(* The entries of a message say and call what it does.                      *)
LEMMA RebuiltSketch ==
  ASSUME NEW m \in Msgs, m.role # "assistant" => m.pieces = <<>> /\ m.calls = <<>>
  PROVE  FlatMap(ESkel, Rebuilds[m]) = MSkel[m]
<1>1. m.role \in {"user", "assistant", "tool"}
  BY MsgFields
<1>2. CASE m.role = "user"
  <2>1. PICK x \in Entries : x = Shows!Entry("user", <<>>, Shows!NoId, "none", Shows!NoId) /\ x.kind = "user"
    BY NewEntries
  <2>2. Rebuilds[m] = <<x>>
    BY <1>2, <2>1, RebuiltIs
  <2>3. FlatMap(ESkel, <<x>>) = ESkel[x]
    BY ESkelMakes, FlatMapOne
  <2>4. ESkel[x] = <<>>
    BY <2>1, ESkelIs
  <2>5. MSkel[m] = <<>>
    BY <1>2, MSkelIs
  <2> QED BY <2>2, <2>3, <2>4, <2>5
<1>3. CASE m.role = "tool"
  <2>1. Rebuilds[m] = <<>> /\ Rebuilds[m] \in Seq(Entries)
    BY <1>3, RebuiltIs
  <2>2. PICK e \in Seq(Entries) : e = <<>>
    BY <2>1
  <2>3. FlatMap(ESkel, <<>>) = <<>>
    BY <2>2, ESkelMakes, FlatMapType
  <2>4. MSkel[m] = <<>>
    BY <1>3, MSkelIs
  <2> QED BY <2>1, <2>3, <2>4
<1>4. CASE m.role = "assistant"
  <2>1. PICK r \in Seq(Entries) :
          /\ r = IF Shows!Blank(m.pieces) THEN <<>> ELSE <<ReplyFor(m)>>
          /\ Rebuilds[m] = Cat(r, BlocksOf(m.calls)) /\ Rebuilds[m] \in Seq(Entries)
    BY <1>4, RebuiltIs
  <2>2. PICK p \in Seq(Shows!Piece), cs \in Seq(Shows!Call) : p = m.pieces /\ cs = m.calls
    BY MsgFields
  <2>3. PICK b \in Seq(Entries) : b = BlocksOf(cs)
    BY BlocksOfAre
  <2>4. FlatMap(ESkel, b) = CallMarks(cs)
    BY <2>3, BlocksSketch DEF Sketch
  <2>5. FlatMap(ESkel, r) = Shows!Lines(p)
    <3>1. CASE Shows!Blank(p)
      BY <2>1, <2>2, <3>1, ESkelMakes, FlatMapType, BlankLines
    <3>2. CASE ~Shows!Blank(p)
      <4>1. r = <<ReplyFor(m)>> /\ Len(r) = 1
        BY <2>1, <2>2, <3>2
      <4>2. PICK x \in Entries : x = ReplyFor(m)
        BY <2>1, <4>1, ElementOfSeq
      <4>3. x.kind = "reply" /\ x.pieces = p
        BY <2>2, <4>2 DEF ReplyFor, Shows!Entry
      <4>4. FlatMap(ESkel, <<x>>) = ESkel[x]
        BY ESkelMakes, FlatMapOne
      <4>5. ESkel[x] = Shows!Lines(p)
        BY <4>3, ESkelIs
      <4> QED BY <4>1, <4>2, <4>4, <4>5
    <3> QED BY <3>1, <3>2
  <2>6. FlatMap(ESkel, Cat(r, b)) = Cat(FlatMap(ESkel, r), FlatMap(ESkel, b))
    BY ESkelMakes, FlatMapConcat
  <2>7. MSkel[m] = Cat(Shows!Lines(p), CallMarks(cs))
    BY <2>2, MSkelIs
  <2> QED BY <2>1, <2>2, <2>3, <2>4, <2>5, <2>6, <2>7
<1> QED BY <1>1, <1>2, <1>3, <1>4

(* The entries of a conversation say and call what it does.                 *)
LEMMA ConversationSketch ==
  ASSUME NEW ms \in Seq(Msgs), NEW k, MsgsOk(ms, k)
  PROVE  FlatMap(Rebuilds, ms) \in Seq(Entries) /\ Sketch(FlatMap(Rebuilds, ms)) = Gist(ms)
<1>1. FlatMap(Rebuilds, ms) \in Seq(Entries)
  BY RebuildsMakes, FlatMapType
<1>2. PICK n \in Nat : n = Len(ms) /\ DOMAIN ms = 1..n
  BY LenProperties
<1>3. PICK h : h = Through(Rebuilds, ESkel, Msgs)
  OBVIOUS
<1>4. FlatMap(ESkel, FlatMap(Rebuilds, ms)) = FlatMap(Through(Rebuilds, ESkel, Msgs), ms)
  BY RebuildsMakes, ESkelMakes, FlatMapThrough
<1>5. \A i \in 1..n : h[ms[i]] = MSkel[ms[i]]
  <2>1. TAKE i \in 1..n
  <2>2. ms[i] \in Msgs
    BY <1>2, ElementOfSeq
  <2>3. ms[i].role # "assistant" => ms[i].pieces = <<>> /\ ms[i].calls = <<>>
    BY <1>2 DEF MsgsOk
  <2>4. FlatMap(ESkel, Rebuilds[ms[i]]) = MSkel[ms[i]]
    BY <2>2, <2>3, RebuiltSketch
  <2> QED BY <1>3, <2>2, <2>4 DEF Through
<1>6. [i \in DOMAIN ms |-> h[ms[i]]] = [i \in DOMAIN ms |-> MSkel[ms[i]]]
  BY <1>2, <1>5
<1>7. FlatMap(h, ms) = FlatMap(MSkel, ms)
  BY <1>6 DEF FlatMap
<1> QED BY <1>1, <1>3, <1>4, <1>7 DEF Sketch, Gist

(* The entries of a conversation do.                                        *)
LEMMA RebuiltTells ==
  ASSUME NEW ms \in Seq(Msgs), NEW y, In(y, FlatMap(Rebuilds, ms))
  PROVE  TellsNow(y)
<1>1. PICK i \in DOMAIN ms : In(y, Rebuilds[ms[i]])
  BY RebuildsMakes, FlatMapRange
<1>2. PICK m \in Msgs : m = ms[i]
  BY LenProperties, ElementOfSeq
<1>3. m.role \in {"user", "assistant", "tool"} /\ In(y, Rebuilds[m])
  BY <1>1, <1>2, MsgFields
<1>4. CASE m.role = "user"
  <2>1. PICK x \in Entries : x = Shows!Entry("user", <<>>, Shows!NoId, "none", Shows!NoId) /\ x.kind = "user"
    BY NewEntries
  <2>2. Rebuilds[m] = <<x>>
    BY <1>4, <2>1, RebuiltIs
  <2>3. y = x
    BY <1>3, <2>2, InOne
  <2> QED BY <2>1, <2>3 DEF TellsNow
<1>5. CASE m.role = "tool"
  BY <1>3, <1>5, RebuiltIs DEF In
<1>6. CASE m.role = "assistant"
  <2>1. PICK r \in Seq(Entries) :
          /\ r = IF Shows!Blank(m.pieces) THEN <<>> ELSE <<ReplyFor(m)>>
          /\ Rebuilds[m] = Cat(r, BlocksOf(m.calls))
    BY <1>6, RebuiltIs
  <2>2. PICK cs \in Seq(Shows!Call) : cs = m.calls
    BY MsgFields
  <2>3. PICK b \in Seq(Entries) : b = BlocksOf(cs) /\ Len(b) = Len(cs) /\ \A j \in 1..Len(cs) : b[j] = BlockOf(cs[j])
    BY BlocksOfAre
  <2>4. In(y, r) \/ In(y, b)
    <3>1. In(y, Cat(r, b))
      BY <1>3, <2>1, <2>2, <2>3
    <3>2. In(y, Cat(r, b)) <=> In(y, r) \/ In(y, b)
      BY InCat
    <3> QED BY <3>1, <3>2
  <2>5. ASSUME In(y, r) PROVE TellsNow(y)
    BY <2>5, <2>1 DEF In, ReplyFor, Shows!Entry, TellsNow
  <2>6. ASSUME In(y, b) PROVE TellsNow(y)
    <3>1. PICK j \in DOMAIN b : b[j] = y
      BY <2>6 DEF In
    <3>2. j \in 1..Len(cs)
      BY <2>3, <3>1, LenProperties
    <3>3. PICK c \in Shows!Call : c = cs[j]
      BY <3>2, LenProperties, ElementOfSeq
    <3>4. y = BlockOf(c)
      BY <2>3, <3>1, <3>2, <3>3
    <3>5. c.id # 0
      BY ShowsAssumption DEF Shows!Call
    <3> QED BY <3>4, <3>5, BlockOfIs DEF TellsNow
  <2> QED BY <2>4, <2>5, <2>6
<1> QED BY <1>3, <1>4, <1>5, <1>6

(* A conversation that is loaded says and calls what is stored, and its     *)
(* blocks tell what there is to tell.                                       *)
LEMMA LoadedSketch ==
  ASSUME NEW ms \in Seq(Msgs), NEW k, MsgsOk(ms, k),
         NEW s \in Seq(Entries), Len(s) = 1, s[1].kind = "note",
         NEW all \in Seq(Entries), all = Cat(Cat(s, FlatMap(Rebuilds, ms)), s),
         NEW w, w = Loaded(all)
  PROVE  /\ Sketch(w.entries) = Gist(ms)
         /\ \A i \in DOMAIN w.entries : TellsNow(w.entries[i])
<1>1. PICK b \in Seq(Entries) : b = FlatMap(Rebuilds, ms) /\ FlatMap(ESkel, b) = Gist(ms)
  BY ConversationSketch DEF Sketch
<1>2. PICK x \in Entries : x = s[1] /\ x.kind = "note" /\ s = <<x>>
  <2>1. s[1] \in Entries
    <3>1. 1 \in 1..Len(s)
      OBVIOUS
    <3> QED BY <3>1, ElementOfSeq
  <2>2. s = <<s[1]>>
    OBVIOUS
  <2> QED BY <2>1, <2>2
<1>3. FlatMap(ESkel, s) = <<>>
  BY ESkelMakes, FlatMapOne, <1>2, ESkelIs
<1>4. FlatMap(ESkel, all) = Gist(ms)
  <2>1. PICK sb \in Seq(Entries) : sb = Cat(s, b)
    BY CatProperties
  <2>2. FlatMap(ESkel, Cat(s, b)) = Cat(FlatMap(ESkel, s), FlatMap(ESkel, b))
    BY ESkelMakes, FlatMapConcat
  <2>3. FlatMap(ESkel, Cat(sb, s)) = Cat(FlatMap(ESkel, sb), FlatMap(ESkel, s))
    BY ESkelMakes, FlatMapConcat
  <2>4. PICK g \in Seq(Marks) : g = Gist(ms)
    BY GistIs
  <2>5. Cat(<<>>, g) = g /\ Cat(g, <<>>) = g
    BY CatProperties
  <2> QED BY <1>1, <1>3, <2>1, <2>2, <2>3, <2>4, <2>5
<1>5. /\ ViewOk(w) /\ Len(w.entries) = Len(all)
      /\ \A i \in 1..Len(all) : SameBut(w.entries[i], all[i], i)
  BY LoadedIs
<1>6. PICK n, t : /\ n \in Nat /\ n = Len(all) /\ DOMAIN all = 1..n /\ t = w.entries /\ DOMAIN t = 1..n
                   /\ t \in Seq(Entries)
  BY <1>5, ViewFields, LenProperties DEF ViewOk
<1>7. \A i \in 1..n : /\ t[i].kind = all[i].kind /\ t[i].pieces = all[i].pieces /\ t[i].id = all[i].id
                      /\ t[i].result = all[i].result
  BY <1>5, <1>6 DEF SameBut
<1>8. \A i \in 1..n : t[i] \in Entries /\ all[i] \in Entries
  BY <1>6, ElementOfSeq
<1>9. \A i \in 1..n : ESkel[t[i]] = ESkel[all[i]]
  BY <1>7, <1>8 DEF ESkel
<1>10. FlatMap(ESkel, t) = FlatMap(ESkel, all)
  BY <1>6, <1>9 DEF FlatMap
<1>11. ASSUME NEW i \in 1..n PROVE TellsNow(t[i])
  <2>1. PICK y \in Entries : y = all[i]
    BY <1>8
  <2>2. In(y, all)
    BY <1>6, <2>1 DEF In
  <2>3. PICK sb \in Seq(Entries) : sb = Cat(s, b)
    BY CatProperties
  <2>4. In(y, Cat(sb, s)) <=> In(y, sb) \/ In(y, s)
    BY InCat
  <2>5. In(y, Cat(s, b)) <=> In(y, s) \/ In(y, b)
    BY InCat
  <2>6. In(y, s) => y = x
    BY <1>2, InOne
  <2>7. TellsNow(y)
    <3>1. CASE y = x
      BY <1>2, <3>1 DEF TellsNow
    <3>2. CASE In(y, b)
      BY <1>1, <3>2, RebuiltTells
    <3> QED BY <1>1, <2>2, <2>3, <2>4, <2>5, <2>6, <3>1, <3>2
  <2> QED BY <1>7, <2>1, <2>7 DEF TellsNow
<1> QED BY <1>4, <1>6, <1>10, <1>11 DEF Sketch

(* The marks that are shown are marks.                                      *)
LEMMA MarkTellsIs ==
  /\ Makes(MarkTells, Marks, Marks)
  /\ \A n \in Nat : MarkTells[<<"call", n>>] = <<<<"result", ResultNow(n)>>>>
  /\ \A p \in Shows!Piece : MarkTells[<<"text", p>>] = <<<<"text", p>>>>
<1>1. \A n \in Nat : <<"call", n>> \in Marks
  BY MarksAre
<1>2. \A p \in Shows!Piece : <<"text", p>> \in Marks
  BY MarksAre
<1>3. PICK g : g = MarkTells
  OBVIOUS
<1>4. ASSUME NEW x \in Marks PROVE g[x] \in Seq(Marks)
  <2>1. x[1] = "call" => x[2] \in Nat
    BY DEF Marks
  <2>2. CASE x[1] = "call"
    <3>1. PICK r \in Nat : r = ResultNow(x[2])
      BY <2>1, <2>2 DEF ResultNow
    <3>2. PICK m \in Marks : m = <<"result", r>>
      BY MarksAre
    <3>3. <<m>> \in Seq(Marks)
      BY MarksAre
    <3> QED BY <1>3, <2>2, <3>1, <3>2, <3>3 DEF MarkTells
  <2>3. CASE x[1] # "call"
    BY MarksAre, <1>3, <2>3 DEF MarkTells
  <2> QED BY <2>2, <2>3
<1>5. Makes(g, Marks, Marks)
  BY <1>3, <1>4 DEF MarkTells, Makes
<1>6. \A n \in Nat : MarkTells[<<"call", n>>] = <<<<"result", ResultNow(n)>>>>
  BY <1>1 DEF MarkTells
<1>7. \A p \in Shows!Piece : MarkTells[<<"text", p>>] = <<<<"text", p>>>>
  BY <1>2 DEF MarkTells
<1> QED BY <1>3, <1>5, <1>6, <1>7

(* What entries that tell what there is to tell show.                       *)
LEMMA ShownIs ==
  ASSUME NEW es \in Seq(Entries), \A i \in DOMAIN es : TellsNow(es[i])
  PROVE  Shows!Shown(es) = FlatMap(MarkTells, Sketch(es))
<1>1. PICK n \in Nat : n = Len(es) /\ DOMAIN es = 1..n /\ \A i \in 1..n : es[i] \in Entries
  BY LenProperties, ElementOfSeq
<1>2. PICK h : h = Through(ESkel, MarkTells, Entries)
  OBVIOUS
<1>3. FlatMap(MarkTells, FlatMap(ESkel, es)) = FlatMap(Through(ESkel, MarkTells, Entries), es)
  BY ESkelMakes, MarkTellsIs, FlatMapThrough
<1>4. PICK o : o = [i \in DOMAIN es |->
        CASE es[i].kind = "reply" -> Shows!Lines(es[i].pieces)
          [] es[i].kind = "block" -> <<<<"result", es[i].result>>>>
          [] OTHER -> <<>>]
  OBVIOUS
<1>5. ASSUME NEW i \in 1..n PROVE o[i] = h[es[i]]
  <2>1. PICK e \in Entries : e = es[i]
    BY <1>1
  <2>2. h[e] = FlatMap(MarkTells, ESkel[e])
    BY <1>2 DEF Through
  <2>3. o[i] = CASE e.kind = "reply" -> Shows!Lines(e.pieces)
                 [] e.kind = "block" -> <<<<"result", e.result>>>>
                 [] OTHER -> <<>>
    BY <1>1, <1>4, <2>1
  <2>4. CASE e.kind = "reply"
    <3>1. PICK p \in Seq(Shows!Piece) : p = e.pieces
      BY EntryFields
    <3>2. PICK l \in Seq(Marks) : l = Shows!Lines(p)
      BY LinesAre
    <3>3. ASSUME NEW j \in 1..Len(l) PROVE MarkTells[l[j]] = <<l[j]>>
      <4>1. In(l[j], l)
        BY LenProperties DEF In
      <4>2. PICK m : m = l[j]
        OBVIOUS
      <4>3. In(m, Shows!Lines(p))
        BY <3>2, <4>1, <4>2
      <4>4. PICK c \in DOMAIN p : m = <<"text", p[c]>>
        BY <4>3, LinesHave
      <4>5. p[c] \in Shows!Piece
        BY LenProperties, ElementOfSeq
      <4> QED BY <4>2, <4>4, <4>5, MarkTellsIs
    <3>4. FlatMap(MarkTells, l) = l
      BY <3>3, MarkTellsIs, FlatMapItself
    <3>5. ESkel[e] = l
      BY <2>4, <3>1, <3>2, ESkelIs
    <3> QED BY <2>1, <2>2, <2>3, <2>4, <3>1, <3>2, <3>4, <3>5
  <2>5. CASE e.kind = "block"
    <3>1. PICK k \in Nat : k = e.id
      BY EntryFields
    <3>2. PICK m \in Marks : m = <<"call", k>>
      BY MarksAre
    <3>3. FlatMap(MarkTells, <<m>>) = MarkTells[m]
      BY MarkTellsIs, FlatMapOne
    <3>4. MarkTells[m] = <<<<"result", ResultNow(k)>>>>
      BY <3>2, MarkTellsIs
    <3>5. ESkel[e] = <<m>>
      BY <2>5, <3>1, <3>2, ESkelIs
    <3>6. e.result = ResultNow(k)
      BY <1>1, <2>1, <2>5, <3>1 DEF TellsNow
    <3> QED BY <2>1, <2>2, <2>3, <2>5, <3>3, <3>4, <3>5, <3>6
  <2>6. CASE e.kind \in {"note", "user"}
    <3>1. ESkel[e] = <<>>
      BY <2>6, ESkelIs
    <3>2. PICK x \in Seq(Marks) : x = <<>>
      BY EmptySeq
    <3>3. FlatMap(MarkTells, <<>>) = <<>>
      BY <3>2, MarkTellsIs, FlatMapType
    <3> QED BY <2>1, <2>2, <2>3, <2>6, <3>1, <3>3
  <2> QED BY <2>4, <2>5, <2>6, EntryFields DEF Kinds
<1>6. o = [i \in DOMAIN es |-> h[es[i]]]
  BY <1>1, <1>4, <1>5
<1>7. Shows!Shown(es) = FlatMap(h, es)
  BY <1>4, <1>6 DEF Shows!Shown, FlatMap
<1> QED BY <1>2, <1>3, <1>7 DEF Sketch

(* The calls among the entries.                                             *)
LEMMA SketchCalls ==
  ASSUME NEW es \in Seq(Entries)
  PROVE  \A n : Calls(Sketch(es), n) <=> \E i \in DOMAIN es : es[i].kind = "block" /\ es[i].id = n
<1> SUFFICES ASSUME NEW n
             PROVE  Calls(Sketch(es), n) <=> \E i \in DOMAIN es : es[i].kind = "block" /\ es[i].id = n
  OBVIOUS
<1>1. PICK y : y = <<"call", n>>
  OBVIOUS
<1>2. In(y, FlatMap(ESkel, es)) <=> \E i \in DOMAIN es : In(y, ESkel[es[i]])
  BY ESkelMakes, FlatMapRange
<1>3. ASSUME NEW i \in DOMAIN es PROVE In(y, ESkel[es[i]]) <=> es[i].kind = "block" /\ es[i].id = n
  <2>1. PICK e \in Entries : e = es[i]
    BY LenProperties, ElementOfSeq
  <2>2. CASE e.kind = "reply"
    <3>1. PICK p \in Seq(Shows!Piece) : p = e.pieces
      BY EntryFields
    <3>2. ~In(y, Shows!Lines(p))
      BY <1>1, TextCallsNothing DEF Calls
    <3> QED BY <2>1, <2>2, <3>1, <3>2, ESkelIs
  <2>3. CASE e.kind = "block"
    <3>1. ESkel[e] = <<<<"call", e.id>>>>
      BY <2>3, ESkelIs
    <3>2. PICK m \in Marks : m = <<"call", e.id>>
      BY EntryFields, MarksAre
    <3>3. In(y, <<m>>) <=> y = m
      BY InOne
    <3> QED BY <1>1, <2>1, <2>3, <3>1, <3>2, <3>3
  <2>4. CASE e.kind \in {"note", "user"}
    BY <2>4, ESkelIs, <2>1 DEF In
  <2> QED BY <2>2, <2>3, <2>4, EntryFields DEF Kinds
<1> QED BY <1>1, <1>2, <1>3 DEF Calls, Sketch

(* As the calls rise, no two entries are of the same one.                   *)
LEMMA BlocksDiffer ==
  ASSUME NEW es \in Seq(Entries), Rising(Sketch(es)), NEW n \in Nat,
         NEW a, NEW r, NEW u, HasBlock(es, n, a, r, u),
         NEW b, NEW q, NEW v, HasBlock(es, n, b, q, v)
  PROVE  a = b /\ r = q /\ u = v
<1>1. PICK l \in Nat : l = Len(es) /\ DOMAIN es = 1..l
  BY LenProperties
<1>2. ASSUME NEW i \in 1..l, NEW j \in 1..l, i < j, es[i].kind = "block", es[j].kind = "block"
      PROVE  es[i].id # es[j].id
  <2>1. PICK x, y : x = Before(es, j) /\ y = Behind(es, j)
    OBVIOUS
  <2>2. PICK e \in Entries : e = es[j] /\ <<e>> \in Seq(Entries)
    BY <1>1, ElementOfSeq, SplitAt
  <2>3. /\ x \in Seq(Entries) /\ y \in Seq(Entries) /\ Len(x) = j - 1 /\ \A c \in 1..(j - 1) : x[c] = es[c]
        /\ es = Cat(Cat(x, <<e>>), y)
    <3>1. j \in 1..Len(es)
      BY <1>1
    <3>2. x \in Seq(Entries) /\ y \in Seq(Entries)
      BY <2>1, <3>1, SplitAt
    <3>3. Len(x) = j - 1
      BY <2>1, <3>1, SplitAt
    <3>4. \A c \in 1..(j - 1) : x[c] = es[c]
      BY <2>1, <3>1, SplitAt
    <3>5. es = Cat(Cat(x, <<e>>), y)
      BY <2>1, <2>2, <3>1, SplitAt
    <3> QED BY <3>2, <3>3, <3>4, <3>5
  <2>4. PICK o \in Seq(Entries), xo \in Seq(Entries) : o = <<e>> /\ xo = Cat(x, o)
    BY <2>2, <2>3, CatProperties
  <2>5. Sketch(xo) = Cat(Sketch(x), Sketch(o))
    <3>1. x \in Seq(Entries) /\ o \in Seq(Entries)
      BY <2>3, <2>4
    <3>2. FlatMap(ESkel, Cat(x, o)) = Cat(FlatMap(ESkel, x), FlatMap(ESkel, o))
      BY <3>1, ESkelMakes, FlatMapConcat
    <3> QED BY <2>4, <3>2 DEF Sketch
  <2>6. Sketch(es) = Cat(Sketch(xo), Sketch(y))
    BY <2>3, <2>4, ESkelMakes, FlatMapConcat DEF Sketch
  <2>7. PICK sx \in Seq(Marks), so \in Seq(Marks), sy \in Seq(Marks), sxo \in Seq(Marks) :
          sx = Sketch(x) /\ so = Sketch(o) /\ sy = Sketch(y) /\ sxo = Sketch(xo)
    BY <2>3, <2>4, SketchIs
  <2>8. Rising(sxo)
    BY <2>6, <2>7, RisingCat
  <2>9. \A c, d \in Nat : Calls(sx, c) /\ Calls(so, d) => c < d
    BY <2>5, <2>7, <2>8, RisingCat
  <2>10. Calls(sx, es[i].id)
    <3>1. i \in 1..(j - 1)
      BY <1>2
    <3>2. i \in DOMAIN x /\ x[i] = es[i]
      BY <2>3, <3>1, LenProperties
    <3>3. Calls(Sketch(x), x[i].id)
      BY <1>2, <2>3, <3>2, SketchCalls
    <3> QED BY <2>7, <3>2, <3>3
  <2>11. Calls(so, es[j].id)
    <3>1. 1 \in DOMAIN o /\ o[1] = e
      BY <2>4
    <3>2. Calls(Sketch(o), o[1].id)
      BY <1>2, <2>2, <2>4, <3>1, SketchCalls
    <3> QED BY <2>2, <2>7, <3>1, <3>2
  <2>12. es[i].id \in Nat /\ es[j].id \in Nat
    BY <1>1, ElementOfSeq, EntryFields
  <2> QED BY <2>9, <2>10, <2>11, <2>12
<1>3. PICK i \in 1..l : es[i].kind = "block" /\ es[i].id = n /\ es[i].name = a /\ es[i].result = r /\ es[i].uid = u
  BY <1>1 DEF HasBlock
<1>4. PICK j \in 1..l : es[j].kind = "block" /\ es[j].id = n /\ es[j].name = b /\ es[j].result = q /\ es[j].uid = v
  BY <1>1 DEF HasBlock
<1>5. i = j
  BY <1>2, <1>3, <1>4
<1> QED BY <1>3, <1>4, <1>5

(* Tags.                                                                    *)
LEMMA TagsAre ==
  /\ \A n \in Nat, a \in ToolNames :
       /\ TagOf(n, a) \in Tags /\ TagOf(n, a).id = n /\ TagOf(n, a).name = a
       /\ <<TagOf(n, a)>> \in Seq(Tags)
  /\ \A t \in Tags : t.id \in Nat /\ t.name \in ToolNames
  /\ <<>> \in Seq(Tags)
BY DEF TagOf, Tags

(* What is posted and what is called have tags.                             *)
LEMMA TagsMake ==
  /\ Makes(AnnTag, PostTypes, Tags)
  /\ Makes(OutTag, PostTypes, Tags)
  /\ Makes(CallTag, Shows!Call, Tags)
BY ShowsAssumption, TagsAre DEF PostTypes, Shows!Call, ToolNames, AnnTag, Makes, OutTag, CallTag

(* The tags of a queue and of a batch.                                      *)
LEMMA TagSeqs ==
  ASSUME NEW qs \in Seq(PostTypes), NEW bs \in Seq(Shows!Call)
  PROVE  /\ FlatMap(AnnTag, qs) \in Seq(Tags) /\ FlatMap(OutTag, qs) \in Seq(Tags)
         /\ FlatMap(CallTag, bs) \in Seq(Tags)
         /\ FlatMap(AnnTag, <<>>) = <<>> /\ FlatMap(OutTag, <<>>) = <<>> /\ FlatMap(CallTag, <<>>) = <<>>
BY TagsMake, FlatMapType

(* What comes before, in a sequence that is prolonged.                      *)
LEMMA BeforeSame ==
  ASSUME NEW T, NEW s \in Seq(T), NEW t \in Seq(T), NEW n \in Nat, n = Len(s), n <= Len(t),
         \A j \in 1..n : t[j] = s[j], NEW i \in 1..(n + 1)
  PROVE  Before(t, i) = IF i = n + 1 THEN s ELSE Before(s, i)
<1>1. PICK m \in Nat : m = Len(t) /\ n <= m
  BY LenProperties
<1>2. PICK k \in Nat : k = i - 1 /\ k <= n
  OBVIOUS
<1>3. /\ DOMAIN SubSeq(t, 1, k) = 1..k /\ \A j \in 1..k : SubSeq(t, 1, k)[j] = t[j]
      /\ SubSeq(t, 1, k) \in Seq(T)
  BY <1>1, <1>2, SubSeqProperties
<1>4. /\ DOMAIN SubSeq(s, 1, k) = 1..k /\ \A j \in 1..k : SubSeq(s, 1, k)[j] = s[j]
      /\ SubSeq(s, 1, k) \in Seq(T)
  BY <1>2, SubSeqProperties
<1>5. SubSeq(t, 1, k) = SubSeq(s, 1, k)
  BY <1>2, <1>3, <1>4
<1>6. CASE i = n + 1
  <2>0. k = n
    BY <1>2, <1>6
  <2>1. DOMAIN s = 1..n /\ s = [j \in 1..n |-> s[j]]
    BY LenProperties
  <2>3. PICK a \in Seq(T) : a = SubSeq(t, 1, k) /\ DOMAIN a = 1..n /\ \A j \in 1..n : a[j] = s[j]
    BY <1>3, <2>0
  <2>4. a = [j \in 1..n |-> a[j]]
    BY <2>3
  <2>2. SubSeq(t, 1, k) = s
    BY <2>1, <2>3, <2>4
  <2> QED BY <1>2, <1>6, <2>2 DEF Before
<1>7. CASE i # n + 1
  BY <1>2, <1>5, <1>7 DEF Before
<1> QED BY <1>6, <1>7

(* What comes before, in a sequence that loses its head.                    *)
LEMMA BeforeTail ==
  ASSUME NEW s \in Seq(PostTypes), NEW h, NEW t, Loses(s, h, t), NEW n \in Nat, n = Len(t)
  PROVE  \A i \in 1..n : CutAt(s, h, t, i)
<1> SUFFICES ASSUME NEW i \in 1..n, NEW j, j = i + 1, NEW o, o = <<h>>
             PROVE  /\ o \in Seq(PostTypes) /\ Before(t, i) \in Seq(PostTypes)
                    /\ Before(s, j) = Cat(o, Before(t, i))
                    /\ j \in DOMAIN s /\ s[j] = t[i] /\ i \in DOMAIN t
  BY DEF CutAt
<1> s # <<>> /\ h = Head(s) /\ t = Tail(s)
  BY DEF Loses
<1>1. /\ h = s[1] /\ h \in PostTypes /\ t \in Seq(PostTypes) /\ Len(s) = n + 1
      /\ \A c \in 1..n : t[c] = s[c + 1]
  BY HeadAndTail
<1>2. PICK k \in Nat : k = i - 1 /\ k + 1 = i /\ k <= n
  OBVIOUS
<1>3. /\ SubSeq(t, 1, k) \in Seq(PostTypes) /\ Len(SubSeq(t, 1, k)) = k
      /\ \A c \in 1..k : SubSeq(t, 1, k)[c] = t[c]
  BY <1>1, <1>2, SubSeqProperties
<1>4. /\ SubSeq(s, 1, i) \in Seq(PostTypes) /\ Len(SubSeq(s, 1, i)) = i
      /\ \A c \in 1..i : SubSeq(s, 1, i)[c] = s[c]
  BY <1>1, <1>2, SubSeqProperties
<1>5. PICK b \in Seq(PostTypes), a \in Seq(PostTypes) : b = SubSeq(t, 1, k) /\ a = SubSeq(s, 1, i)
  BY <1>3, <1>4
<1>6. o \in Seq(PostTypes) /\ Len(o) = 1 /\ o[1] = h
  BY <1>1
<1>7. SubSeq(s, 1, i) = <<s[1]>> \o SubSeq(s, 1 + 1, i)
  BY <1>1, SubSeqRecursiveFirst
<1>8. SubSeq(s, 1 + 1, i) = b
  <2>1. /\ SubSeq(s, 2, i) \in Seq(PostTypes) /\ Len(SubSeq(s, 2, i)) = k
        /\ \A c \in 1..k : SubSeq(s, 2, i)[c] = s[2 + c - 1]
    BY <1>1, <1>2, SubSeqProperties
  <2>2. PICK e \in Seq(PostTypes) : e = SubSeq(s, 2, i) /\ DOMAIN e = 1..k /\ \A c \in 1..k : e[c] = s[2 + c - 1]
    BY <2>1, LenProperties
  <2>3. DOMAIN b = 1..k /\ \A c \in 1..k : b[c] = s[c + 1]
    BY <1>2, <1>1, <1>3, <1>5, LenProperties
  <2>4. \A c \in 1..k : 2 + c - 1 = c + 1
    OBVIOUS
  <2>5. e = [c \in 1..k |-> e[c]] /\ b = [c \in 1..k |-> b[c]]
    BY <2>2, <2>3
  <2>6. \A c \in 1..k : e[c] = b[c]
    BY <2>2, <2>3, <2>4
  <2>7. e = b
    BY <2>5, <2>6
  <2>8. 1 + 1 = 2
    OBVIOUS
  <2> QED BY <2>2, <2>7, <2>8
<1>9. a = Cat(o, b)
  BY <1>1, <1>5, <1>7, <1>8 DEF Cat
<1>10. Before(s, j) = a /\ Before(t, i) = b
  BY <1>2, <1>5 DEF Before
<1>11. j \in DOMAIN s /\ s[j] = t[i] /\ i \in DOMAIN t
  BY <1>1, LenProperties
<1> QED BY <1>5, <1>6, <1>9, <1>10, <1>11

(* The length of a sequence that is prolonged.                              *)
LEMMA CatLen ==
  ASSUME NEW T, NEW s \in Seq(T), NEW t \in Seq(T)
  PROVE  Cat(s, t) \in Seq(T) /\ Len(Cat(s, t)) = Len(s) + Len(t) /\ Len(s) \in Nat /\ Len(t) \in Nat
BY ConcatProperties, LenProperties DEF Cat

(* What is posted later does not come before.                               *)
LEMMA AheadGrows ==
  ASSUME NEW qs \in Seq(PostTypes), NEW t \in Seq(PostTypes), NEW n \in Nat, n = Len(qs),
         NEW ps, Ahead(qs, ps), Prolongs(qs, t, n, ps)
  PROVE  Ahead(t, ps)
<1> /\ n <= Len(t) /\ \A j \in 1..n : t[j] = qs[j]
    /\ \A i \in DOMAIN t : n < i /\ t[i].kind = "outcome" =>
         i = n + 1 /\ Len(FlatMap(OutTag, qs)) < Len(ps) + Len(FlatMap(AnnTag, qs))
  BY DEF Prolongs
<1>1. PICK m \in Nat : m = Len(t) /\ DOMAIN t = 1..m /\ DOMAIN qs = 1..n
  BY LenProperties
<1> SUFFICES ASSUME NEW i \in 1..m, t[i].kind = "outcome"
             PROVE  Len(FlatMap(OutTag, Before(t, i))) < Len(ps) + Len(FlatMap(AnnTag, Before(t, i)))
  BY <1>1 DEF Ahead
<1>2. CASE n < i
  BY <1>1, <1>2, BeforeSame, SMTT(30)
<1>3. CASE ~(n < i)
  <2>1. i \in 1..n /\ i \in 1..(n + 1) /\ i # n + 1
    BY <1>3
  <2>2. Before(t, i) = Before(qs, i)
    BY <2>1, BeforeSame
  <2>3. qs[i].kind = "outcome"
    BY <2>1
  <2> QED BY <1>1, <2>1, <2>2, <2>3 DEF Ahead
<1> QED BY <1>2, <1>3

(* What is handled no longer does.                                          *)
LEMMA AheadTail ==
  ASSUME NEW qs \in Seq(PostTypes), NEW h, NEW t, Loses(qs, h, t),
         NEW ps, Ahead(qs, ps), Len(ps) \in Nat, NEW p2, Len(p2) \in Nat,
         Len(OutTag[h]) + Len(p2) = Len(ps) + Len(AnnTag[h])
  PROVE  Ahead(t, p2)
<1>1. h \in PostTypes /\ t \in Seq(PostTypes)
  BY HeadAndTail DEF Loses
<1>2. PICK n \in Nat : n = Len(t) /\ DOMAIN t = 1..n
  BY <1>1, LenProperties
<1> SUFFICES ASSUME NEW i \in 1..n, t[i].kind = "outcome"
             PROVE  Len(FlatMap(OutTag, Before(t, i))) < Len(p2) + Len(FlatMap(AnnTag, Before(t, i)))
  BY <1>2 DEF Ahead
<1>3. PICK o, j, b, c : o = <<h>> /\ j = i + 1 /\ b = Before(t, i) /\ c = Before(qs, j)
  OBVIOUS
<1>4. /\ o \in Seq(PostTypes) /\ b \in Seq(PostTypes) /\ c = Cat(o, b)
      /\ j \in DOMAIN qs /\ qs[j] = t[i]
  BY <1>2, BeforeTail, <1>3 DEF CutAt
<1>5. Len(FlatMap(OutTag, c)) < Len(ps) + Len(FlatMap(AnnTag, c))
  BY <1>3, <1>4 DEF Ahead
<1>6. PICK x \in Seq(Tags), y \in Seq(Tags), a \in Seq(Tags), d \in Seq(Tags) :
        x = OutTag[h] /\ y = FlatMap(OutTag, b) /\ a = AnnTag[h] /\ d = FlatMap(AnnTag, b)
  BY <1>1, TagsMake, <1>4, TagSeqs, EmptySeq DEF Makes
<1>7. FlatMap(OutTag, c) = Cat(x, y)
  <2>1. FlatMap(OutTag, <<h>>) = OutTag[h]
    BY <1>1, TagsMake, FlatMapOne
  <2>2. FlatMap(OutTag, Cat(o, b)) = Cat(FlatMap(OutTag, o), FlatMap(OutTag, b))
    BY <1>4, TagsMake, FlatMapConcat
  <2> QED BY <1>3, <1>4, <1>6, <2>1, <2>2
<1>8. FlatMap(AnnTag, c) = Cat(a, d)
  <2>1. FlatMap(AnnTag, <<h>>) = AnnTag[h]
    BY <1>1, TagsMake, FlatMapOne
  <2>2. FlatMap(AnnTag, Cat(o, b)) = Cat(FlatMap(AnnTag, o), FlatMap(AnnTag, b))
    BY <1>4, TagsMake, FlatMapConcat
  <2> QED BY <1>3, <1>4, <1>6, <2>1, <2>2
<1>9. Len(Cat(x, y)) = Len(x) + Len(y) /\ Len(x) \in Nat /\ Len(y) \in Nat
  BY CatLen
<1>10. Len(Cat(a, d)) = Len(a) + Len(d) /\ Len(a) \in Nat /\ Len(d) \in Nat
  BY CatLen
<1>11. Len(y) < Len(p2) + Len(d)
  BY <1>5, <1>7, <1>8, <1>9, <1>10, <1>6
<1> QED BY <1>3, <1>6, <1>11

(* What a message is a tag of.                                              *)
LEMMA TagsOfPost ==
  ASSUME NEW q \in PostTypes
  PROVE  /\ q.kind = "announce" => AnnTag[q] = <<TagOf(q.id, q.name)>> /\ OutTag[q] = <<>>
         /\ q.kind = "outcome" => OutTag[q] = <<TagOf(q.result, q.name)>> /\ AnnTag[q] = <<>>
         /\ q.kind \notin {"announce", "outcome"} => AnnTag[q] = <<>> /\ OutTag[q] = <<>>
BY DEF AnnTag, OutTag

(* A message that neither announces nor observes.                           *)
LEMMA AwaitsPosted ==
  ASSUME NEW v, NEW qs \in Seq(PostTypes), NEW bs \in Seq(Shows!Call), NEW ps, NEW rest, NEW st,
         Due(v, qs, bs, ps, rest, st), NEW q \in PostTypes, q.kind \notin {"announce", "outcome"},
         NEW t, t = Append(qs, q), NEW st2, st2 # "idle" => st # "idle"
  PROVE  Due(v, t, bs, ps, rest, st2)
<1>1. PICK n \in Nat : n = Len(qs)
  BY LenProperties
<1>2. t \in Seq(PostTypes) /\ Len(t) = n + 1 /\ t[n + 1] = q /\ \A i \in 1..n : t[i] = qs[i]
  BY <1>1, AppendProperties
<1>3. FlatMap(AnnTag, t) = FlatMap(AnnTag, qs)
  <2>1. FlatMap(AnnTag, t) = Cat(FlatMap(AnnTag, qs), AnnTag[q])
    BY TagsMake, FlatMapAppend
  <2>2. PICK s \in Seq(Tags) : s = FlatMap(AnnTag, qs)
    BY TagsMake, FlatMapType
  <2>3. Cat(s, <<>>) = s
    BY CatProperties
  <2> QED BY <2>1, <2>2, <2>3, TagsOfPost
<1>4. FlatMap(OutTag, t) = FlatMap(OutTag, qs)
  <2>1. FlatMap(OutTag, t) = Cat(FlatMap(OutTag, qs), OutTag[q])
    BY TagsMake, FlatMapAppend
  <2>2. PICK s \in Seq(Tags) : s = FlatMap(OutTag, qs)
    BY TagsMake, FlatMapType
  <2>3. Cat(s, <<>>) = s
    BY CatProperties
  <2> QED BY <2>1, <2>2, <2>3, TagsOfPost
<1>5. Ahead(t, ps)
  <2>1. \A i \in DOMAIN t : n < i => t[i].kind # "outcome"
    BY <1>2, LenProperties
  <2>2. n <= Len(t) /\ Ahead(qs, ps)
    BY <1>2 DEF Due
  <2>3. \A i \in DOMAIN t : n < i /\ t[i].kind = "outcome" =>
          i = n + 1 /\ Len(FlatMap(OutTag, qs)) < Len(ps) + Len(FlatMap(AnnTag, qs))
    BY <2>1
  <2>4. t \in Seq(PostTypes) /\ \A j \in 1..n : t[j] = qs[j]
    BY <1>2
  <2>5. Prolongs(qs, t, n, ps)
    BY <2>2, <2>3, <2>4 DEF Prolongs
  <2> QED BY <1>1, <2>2, <2>4, <2>5, AheadGrows
<1> QED BY <1>3, <1>4, <1>5 DEF Due

(* A batch that is given up.                                                *)
LEMMA AwaitsDropped ==
  ASSUME NEW v, NEW qs \in Seq(PostTypes), NEW bs \in Seq(Shows!Call), NEW ps, NEW rest, NEW st,
         Due(v, qs, bs, ps, rest, st)
  PROVE  \E r : Due(v, qs, <<>>, ps, r, "idle")
<1>1. PICK a \in Seq(Tags), o \in Seq(Tags), c \in Seq(Tags) :
        a = FlatMap(AnnTag, qs) /\ o = FlatMap(OutTag, qs) /\ c = FlatMap(CallTag, bs)
  BY TagSeqs
<1>2. rest \in Seq(Tags) /\ Cat(ps, a) = Cat(Cat(o, c), rest)
  BY <1>1 DEF Due
<1>3. PICK r \in Seq(Tags) : r = Cat(c, rest)
  BY <1>2, CatProperties
<1>4. Cat(Cat(o, c), rest) = Cat(o, Cat(c, rest)) /\ Cat(o, <<>>) = o
  BY <1>2, CatProperties
<1>5. FlatMap(CallTag, <<>>) = <<>>
  BY TagSeqs
<1>6. Cat(ps, a) = Cat(Cat(o, FlatMap(CallTag, <<>>)), r)
  BY <1>2, <1>3, <1>4, <1>5
<1>7. Due(v, qs, <<>>, ps, r, "idle")
  BY <1>1, <1>6 DEF Due
<1> QED BY <1>7

(* A queue with more in it: what is posted of the batch leaves it.          *)
LEMMA AwaitsMore ==
  ASSUME NEW v, NEW qs \in Seq(PostTypes), NEW bs \in Seq(Shows!Call), NEW ps, NEW rest, NEW st,
         Due(v, qs, bs, ps, rest, st), st # "idle",
         NEW t \in Seq(PostTypes), NEW bt \in Seq(Shows!Call),
         NEW x \in Seq(Tags), FlatMap(AnnTag, t) = Cat(FlatMap(AnnTag, qs), x),
         NEW y \in Seq(Tags), FlatMap(OutTag, t) = Cat(FlatMap(OutTag, qs), y),
         Cat(FlatMap(CallTag, bs), x) = Cat(y, FlatMap(CallTag, bt)), Ahead(t, ps)
  PROVE  \A st2 : Due(v, t, bt, ps, <<>>, st2)
<1>1. PICK a \in Seq(Tags), o \in Seq(Tags), c \in Seq(Tags), d \in Seq(Tags) :
        a = FlatMap(AnnTag, qs) /\ o = FlatMap(OutTag, qs) /\ c = FlatMap(CallTag, bs)
        /\ d = FlatMap(CallTag, bt)
  BY TagSeqs
<1>2. ps \in Seq(Tags) /\ Pends(v, ps) /\ Cat(ps, a) = Cat(Cat(o, c), <<>>)
  BY <1>1 DEF Due, Pends
<1>3. PICK z \in Seq(Tags), u \in Seq(Tags) : z = Cat(o, c) /\ u = Cat(Cat(o, y), d)
  BY CatProperties
<1>4. Cat(ps, a) = z
  BY <1>2, <1>3, CatProperties
<1>5. Cat(ps, Cat(a, x)) = Cat(z, x)
  BY <1>2, <1>4, CatProperties
<1>6. Cat(z, x) = Cat(o, Cat(c, x))
  BY <1>3, CatProperties
<1>7. Cat(o, Cat(y, d)) = u
  BY <1>3, CatProperties
<1>8. Cat(ps, FlatMap(AnnTag, t)) = Cat(Cat(FlatMap(OutTag, t), FlatMap(CallTag, bt)), <<>>)
  BY CatProperties, <1>1, <1>3, <1>5, <1>6, <1>7
<1>9. <<>> \in Seq(Tags)
  BY TagsAre
<1> QED BY <1>2, <1>8, <1>9 DEF Due

(* Elements that make nothing.                                              *)
LEMMA FlatMapNone ==
  ASSUME NEW T, NEW R, NEW g, Makes(g, T, R), NEW s \in Seq(T), \A i \in DOMAIN s : g[s[i]] = <<>>
  PROVE  FlatMap(g, s) = <<>>
<1>1. PICK t \in Seq(R) : t = FlatMap(g, s)
  BY FlatMapType
<1>2. \A y : ~In(y, t)
  BY <1>1, FlatMapRange DEF In
<1>3. 1 \notin DOMAIN t
  BY <1>2 DEF In
<1>4. Len(t) \in Nat /\ DOMAIN t = 1..Len(t)
  BY LenProperties
<1>5. Len(t) = 0
  BY <1>3, <1>4
<1> QED BY <1>1, <1>5, EmptySeq

(* The calls of a message are announced.                                    *)
LEMMA AwaitsAnnounced ==
  ASSUME NEW v, NEW qs \in Seq(PostTypes), NEW ps, NEW rest, NEW st,
         Due(v, qs, <<>>, ps, rest, st), st # "idle",
         NEW xs \in Seq(PostTypes), NEW cs \in Seq(Shows!Call), NEW m \in Nat, m = Len(cs), m = Len(xs),
         \A i \in 1..m : xs[i].kind = "announce" /\ xs[i].id = cs[i].id /\ xs[i].name = cs[i].name,
         NEW t, t = Cat(qs, xs)
  PROVE  \A st2 : Due(v, t, cs, ps, <<>>, st2)
<1>1. DOMAIN xs = 1..m /\ DOMAIN cs = 1..m /\ \A i \in 1..m : xs[i] \in PostTypes /\ cs[i] \in Shows!Call
  BY LenProperties, ElementOfSeq
<1>2. \A i \in 1..m : /\ AnnTag[xs[i]] = CallTag[cs[i]] /\ OutTag[xs[i]] = <<>>
  BY <1>1 DEF AnnTag, OutTag, CallTag
<1>3. PICK x \in Seq(Tags) : x = FlatMap(CallTag, cs)
  BY TagSeqs, EmptySeq
<1>4. FlatMap(AnnTag, xs) = x
  BY <1>1, <1>2, <1>3 DEF FlatMap
<1>5. FlatMap(OutTag, xs) = <<>>
  BY <1>1, <1>2, TagsMake, FlatMapNone
<1>6. FlatMap(AnnTag, t) = Cat(FlatMap(AnnTag, qs), x)
  BY <1>4, TagsMake, FlatMapConcat
<1>7. FlatMap(OutTag, t) = Cat(FlatMap(OutTag, qs), <<>>)
  BY <1>5, TagsMake, FlatMapConcat
<1>8. Cat(<<>>, x) = x
  BY CatProperties
<1>9. FlatMap(CallTag, <<>>) = <<>>
  BY TagSeqs
<1>10. PICK n \in Nat : n = Len(qs)
  BY LenProperties
<1>11. /\ t \in Seq(PostTypes) /\ Len(t) = n + m /\ DOMAIN t = 1..(n + m)
       /\ \A i \in 1..n : t[i] = qs[i]
       /\ \A i \in 1..m : t[n + i] = xs[i]
  <2>1. t = qs \o xs
    BY DEF Cat
  <2>2. t \in Seq(PostTypes) /\ Len(t) = n + m
    BY <1>10, <2>1, ConcatProperties
  <2>3. DOMAIN t = 1..(n + m)
    BY <2>2, LenProperties
  <2>4. \A i \in 1..n : t[i] = qs[i]
    BY <1>10, <2>1, ConcatProperties
  <2>5. ASSUME NEW i \in 1..m
        PROVE  t[n + i] = xs[i]
    BY <1>10, <2>1, ConcatProperties
  <2> QED BY <2>2, <2>3, <2>4, <2>5
<1>12. Ahead(t, ps)
  <2>1. ASSUME NEW i \in DOMAIN t, n < i
        PROVE  t[i].kind # "outcome"
    <3>1. PICK j \in 1..m : j = i - n
      BY <1>11, <2>1
    <3>2. i = n + j
      BY <1>11, <2>1, <3>1
    <3> QED BY <1>11, <3>1, <3>2
  <2>2. n <= Len(t) /\ Ahead(qs, ps)
    BY <1>11 DEF Due
  <2>3. \A i \in DOMAIN t : n < i /\ t[i].kind = "outcome" =>
          i = n + 1 /\ Len(FlatMap(OutTag, qs)) < Len(ps) + Len(FlatMap(AnnTag, qs))
    BY <2>1
  <2>4. t \in Seq(PostTypes) /\ \A j \in 1..n : t[j] = qs[j]
    BY <1>11
  <2>5. Prolongs(qs, t, n, ps)
    BY <2>2, <2>3, <2>4 DEF Prolongs
  <2> QED BY <1>10, <2>2, <2>4, <2>5, AheadGrows
<1>13. <<>> \in Seq(Tags) /\ <<>> \in Seq(Shows!Call) /\ t \in Seq(PostTypes)
  BY <1>11, EmptySeq
<1>14. Cat(FlatMap(CallTag, <<>>), x) = Cat(<<>>, FlatMap(CallTag, cs))
  BY <1>3, <1>9
<1> QED BY <1>6, <1>7, <1>12, <1>13, <1>14, AwaitsMore

(* A call of the batch is observed.                                         *)
LEMMA AwaitsObserved ==
  ASSUME NEW v, NEW qs \in Seq(PostTypes), NEW bs \in Seq(Shows!Call), NEW ps, NEW rest, NEW st,
         Due(v, qs, bs, ps, rest, st), st # "idle", bs # <<>>,
         NEW q \in PostTypes, q.kind = "outcome", q.result = Head(bs).id, q.name = Head(bs).name,
         NEW t, t = Append(qs, q), NEW bt, bt = Tail(bs)
  PROVE  \A st2 : Due(v, t, bt, ps, <<>>, st2)
<1>1. PICK n \in Nat : n = Len(qs)
  BY LenProperties
<1>2. t \in Seq(PostTypes) /\ Len(t) = n + 1 /\ t[n + 1] = q /\ \A i \in 1..n : t[i] = qs[i]
  BY <1>1, AppendProperties
<1>3. bt \in Seq(Shows!Call) /\ Head(bs) \in Shows!Call
  BY HeadAndTail
<1>4. PICK y \in Seq(Tags) : y = OutTag[q] /\ y = CallTag[Head(bs)] /\ Len(y) = 1
  <2>1. OutTag[q] = <<TagOf(q.result, q.name)>> /\ CallTag[Head(bs)] = <<TagOf(q.result, q.name)>>
    BY <1>3, TagsOfPost DEF CallTag
  <2>2. OutTag[q] \in Seq(Tags)
    BY TagsMake DEF Makes
  <2>3. Len(<<TagOf(q.result, q.name)>>) = 1
    OBVIOUS
  <2> QED BY <2>1, <2>2, <2>3
<1>5. FlatMap(CallTag, bs) = Cat(y, FlatMap(CallTag, bt))
  BY <1>4, TagsMake, FlatMapHead
<1>6. FlatMap(OutTag, t) = Cat(FlatMap(OutTag, qs), y)
  <2>1. FlatMap(OutTag, Append(qs, q)) = Cat(FlatMap(OutTag, qs), OutTag[q])
    BY TagsMake, FlatMapAppend
  <2> QED BY <1>4, <2>1
<1>7. FlatMap(AnnTag, t) = Cat(FlatMap(AnnTag, qs), <<>>)
  <2>1. AnnTag[q] = <<>>
    BY TagsOfPost
  <2> QED BY <2>1, TagsMake, FlatMapAppend
<1>8. PICK a \in Seq(Tags), o \in Seq(Tags), c \in Seq(Tags), d \in Seq(Tags) :
        a = FlatMap(AnnTag, qs) /\ o = FlatMap(OutTag, qs) /\ c = FlatMap(CallTag, bs)
        /\ d = FlatMap(CallTag, bt)
  BY <1>3, TagSeqs
<1>9. Len(o) < Len(ps) + Len(a)
  <2>1. ps \in Seq(Tags) /\ Cat(ps, a) = Cat(Cat(o, c), <<>>)
    BY <1>8 DEF Due, Pends
  <2>2. Cat(Cat(o, c), <<>>) = Cat(o, c) /\ c = Cat(y, d)
    BY CatProperties, <1>5, <1>8
  <2>3. Len(Cat(ps, a)) = Len(ps) + Len(a) /\ Len(ps) \in Nat /\ Len(a) \in Nat
    BY <2>1, CatLen
  <2>4. Len(Cat(o, c)) = Len(o) + Len(c) /\ Len(o) \in Nat /\ Len(c) \in Nat
    BY CatLen
  <2>5. Len(Cat(y, d)) = Len(y) + Len(d) /\ Len(d) \in Nat
    BY CatLen
  <2> QED BY <1>4, <2>1, <2>2, <2>3, <2>4, <2>5
<1>10. Ahead(t, ps)
  <2>0. Len(t) = n + 1 /\ DOMAIN t = 1..Len(t)
    BY <1>2, LenProperties
  <2>1. \A i \in DOMAIN t : n < i => i = n + 1
    BY <2>0
  <2>2. n <= Len(t) /\ Ahead(qs, ps)
    BY <1>2 DEF Due
  <2>3. \A i \in DOMAIN t : n < i /\ t[i].kind = "outcome" =>
          i = n + 1 /\ Len(FlatMap(OutTag, qs)) < Len(ps) + Len(FlatMap(AnnTag, qs))
    BY <1>8, <1>9, <2>1
  <2>4. t \in Seq(PostTypes) /\ \A j \in 1..n : t[j] = qs[j]
    BY <1>2
  <2>5. Prolongs(qs, t, n, ps)
    BY <2>2, <2>3, <2>4 DEF Prolongs
  <2> QED BY <1>1, <2>2, <2>4, <2>5, AheadGrows
<1>11. Cat(FlatMap(CallTag, bs), <<>>) = Cat(y, FlatMap(CallTag, bt))
  BY <1>5, <1>8, CatProperties
<1>12. <<>> \in Seq(Tags)
  BY TagsAre
<1> QED BY <1>2, <1>3, <1>6, <1>7, <1>10, <1>11, <1>12, AwaitsMore

(* The first message is handled: what it announces waits, what it observes  *)
(* no longer does.                                                          *)
LEMMA AwaitsHandled ==
  ASSUME NEW v, NEW qs \in Seq(PostTypes), NEW bs \in Seq(Shows!Call), NEW ps, NEW rest, NEW st,
         Due(v, qs, bs, ps, rest, st), NEW h, NEW t, Loses(qs, h, t), NEW w,
         NEW p2, Pends(w, p2), Cat(ps, AnnTag[h]) = Cat(OutTag[h], p2)
  PROVE  Due(w, t, bs, p2, rest, st)
<1>1. h \in PostTypes /\ t \in Seq(PostTypes) /\ qs # <<>> /\ h = Head(qs) /\ t = Tail(qs)
  BY HeadAndTail DEF Loses
<1>2. PICK x \in Seq(Tags), y \in Seq(Tags) : x = AnnTag[h] /\ y = OutTag[h]
  BY <1>1, TagsMake DEF Makes
<1>3. PICK a \in Seq(Tags), o \in Seq(Tags), c \in Seq(Tags) :
        a = FlatMap(AnnTag, t) /\ o = FlatMap(OutTag, t) /\ c = FlatMap(CallTag, bs)
  BY <1>1, TagSeqs
<1>4. FlatMap(AnnTag, qs) = Cat(x, a)
  BY <1>1, <1>2, <1>3, TagsMake, FlatMapHead
<1>5. FlatMap(OutTag, qs) = Cat(y, o)
  BY <1>1, <1>2, <1>3, TagsMake, FlatMapHead
<1>6. /\ ps \in Seq(Tags) /\ p2 \in Seq(Tags) /\ rest \in Seq(Tags) /\ Ahead(qs, ps)
      /\ Cat(ps, Cat(x, a)) = Cat(Cat(Cat(y, o), c), rest)
  BY <1>3, <1>4, <1>5 DEF Due, Pends
<1>7. PICK z \in Seq(Tags), u \in Seq(Tags) : z = Cat(p2, a) /\ u = Cat(Cat(o, c), rest)
  BY <1>6, CatProperties
<1>8. Cat(y, z) = Cat(ps, Cat(x, a))
  <2>1. Cat(Cat(y, p2), a) = Cat(y, z)
    BY <1>6, <1>7, CatProperties
  <2>2. Cat(Cat(ps, x), a) = Cat(ps, Cat(x, a))
    BY <1>6, CatProperties
  <2> QED BY <1>2, <2>1, <2>2
<1>9. Cat(Cat(Cat(y, o), c), rest) = Cat(y, u)
  <2>1. Cat(Cat(y, o), c) = Cat(y, Cat(o, c))
    BY CatProperties
  <2>2. PICK d \in Seq(Tags) : d = Cat(o, c)
    BY CatProperties
  <2>3. Cat(Cat(y, d), rest) = Cat(y, Cat(d, rest))
    BY <1>6, CatProperties
  <2> QED BY <1>7, <2>1, <2>2, <2>3
<1>10. z = u
  BY <1>6, <1>8, <1>9, CatCancels
<1>11. Ahead(t, p2)
  <2>1. Len(Cat(ps, x)) = Len(ps) + Len(x) /\ Len(ps) \in Nat
    BY <1>6, CatLen
  <2>2. Len(Cat(y, p2)) = Len(y) + Len(p2) /\ Len(p2) \in Nat
    BY <1>6, CatLen
  <2>3. Len(OutTag[h]) + Len(p2) = Len(ps) + Len(AnnTag[h])
    BY <1>2, <2>1, <2>2
  <2> QED BY <1>6, <2>1, <2>2, <2>3, AheadTail
<1> QED BY <1>3, <1>6, <1>7, <1>10, <1>11 DEF Due

(* An outcome is that of the first call that waits.                         *)
LEMMA OutcomeIsFirst ==
  ASSUME NEW v, NEW qs \in Seq(PostTypes), NEW bs \in Seq(Shows!Call), NEW ps, NEW rest, NEW st,
         Due(v, qs, bs, ps, rest, st), NEW h, NEW t, Loses(qs, h, t), h.kind = "outcome"
  PROVE  \E p2 \in Seq(Tags) : LeadsWith(ps, p2, h)
<1>1. h \in PostTypes /\ t \in Seq(PostTypes) /\ qs # <<>> /\ h = Head(qs) /\ t = Tail(qs)
  BY HeadAndTail DEF Loses
<1>2. PICK y \in Seq(Tags), o \in Seq(Tags), c \in Seq(Tags) :
        y = OutTag[h] /\ o = FlatMap(OutTag, t) /\ c = FlatMap(CallTag, bs)
  BY <1>1, TagsMake, TagSeqs DEF Makes
<1>3. y = <<TagOf(h.result, h.name)>> /\ Len(y) = 1 /\ y[1] = TagOf(h.result, h.name) /\ AnnTag[h] = <<>>
  <2>1. y = <<TagOf(h.result, h.name)>> /\ AnnTag[h] = <<>>
    BY <1>1, <1>2, TagsOfPost
  <2>2. \A x : Len(<<x>>) = 1 /\ <<x>>[1] = x
    OBVIOUS
  <2> QED BY <2>1, <2>2
<1>4. ps \in Seq(Tags) /\ rest \in Seq(Tags) /\ Ahead(qs, ps)
  BY DEF Due, Pends
<1>5. ps # <<>>
  <2>1. 1 \in DOMAIN qs /\ qs[1] = h
    BY <1>1, HeadAndTail, LenProperties
  <2>2. Before(qs, 1) = <<>>
    BY SubSeqEmpty DEF Before
  <2>3. Len(FlatMap(OutTag, <<>>)) < Len(ps) + Len(FlatMap(AnnTag, <<>>))
    BY <1>4, <2>1, <2>2 DEF Ahead
  <2>4. FlatMap(OutTag, <<>>) = <<>> /\ FlatMap(AnnTag, <<>>) = <<>> /\ Len(<<>>) = 0
    BY TagSeqs
  <2>5. 0 < Len(ps) + 0
    BY <2>3, <2>4
  <2> QED BY <2>4, <2>5
<1>6. PICK b, p2, l : b = <<ps[1]>> /\ p2 = Tail(ps) /\ l = Len(Tail(ps))
  OBVIOUS
<1>61. /\ b \in Seq(Tags) /\ p2 \in Seq(Tags) /\ l = Len(p2) /\ l \in Nat /\ Len(ps) = l + 1
       /\ ps = Cat(b, p2) /\ \A k \in 1..l : p2[k] = ps[k + 1]
  BY <1>4, <1>5, HeadAndTail, <1>6, LenProperties, EmptySeq DEF Cat
<1>7. ps[1] = y[1]
  <2>1. FlatMap(OutTag, qs) = Cat(y, o)
    BY <1>1, <1>2, TagsMake, FlatMapHead
  <2>2. PICK a \in Seq(Tags) : a = FlatMap(AnnTag, qs)
    BY TagSeqs
  <2>3. Cat(ps, a) = Cat(Cat(Cat(y, o), c), rest)
    BY <1>2, <2>1, <2>2 DEF Due
  <2>4. PICK d \in Seq(Tags), e \in Seq(Tags) : d = Cat(o, c) /\ e = Cat(d, rest)
    <3>1. PICK d \in Seq(Tags) : d = Cat(o, c)
      BY CatProperties
    <3>2. Cat(d, rest) \in Seq(Tags)
      BY <1>4, CatProperties
    <3> QED BY <3>1, <3>2
  <2>5. Cat(Cat(Cat(y, o), c), rest) = Cat(y, e)
    BY <2>4, CatProperties, <1>4
  <2>6. Cat(ps, a) = ps \o a /\ Cat(y, e) = y \o e
    BY DEF Cat
  <2>7. (ps \o a)[1] = ps[1]
    BY <1>4, <1>61, ConcatProperties
  <2>8. (y \o e)[1] = y[1]
    BY <1>3, ConcatProperties
  <2> QED BY <2>3, <2>5, <2>6, <2>7, <2>8
<1>8. b = y
  BY <1>3, <1>6, <1>7
<1>9. Cat(ps, <<>>) = ps
  BY <1>4, CatProperties
<1> QED BY <1>2, <1>3, <1>61, <1>7, <1>8, <1>9 DEF LeadsWith

(* What the messages of a queue add is a sequence of marks.                 *)
LEMMA QSkelMakes ==
  /\ Makes(QSkel, PostTypes, Marks)
  /\ \A q \in PostTypes : QSkel[q] \in Seq(Marks)
BY LineMakes, MarksAre DEF PostTypes, Makes, QSkel

(* A message that is appended.                                              *)
LEMMA AppendedOne ==
  ASSUME NEW qs \in Seq(PostTypes), NEW q \in PostTypes, NEW t, t = Append(qs, q)
  PROVE  \E xs \in Seq(PostTypes) : t = Cat(qs, xs) /\ Alone(xs, q)
<1>1. <<q>> \in Seq(PostTypes)
  OBVIOUS
<1>2. t = Cat(qs, <<q>>)
  BY AppendIsConcat DEF Cat
<1>3. FlatMap(QSkel, <<q>>) = QSkel[q]
  BY QSkelMakes, FlatMapOne
<1>4. PICK xs \in Seq(PostTypes) : xs = <<q>>
  BY <1>1
<1>5. DOMAIN xs = {1} /\ xs[1] = q
  BY <1>4
<1>6. \A n : Reported(xs, n) <=> q.kind = "outcome" /\ q.result = n
  BY <1>5 DEF Reported
<1> QED BY <1>2, <1>3, <1>4, <1>5, <1>6 DEF Alone

(* More is said and posted.                                                 *)
LEMMA TellsMore ==
  ASSUME NEW es \in Seq(Entries), NEW qs \in Seq(PostTypes), NEW xs \in Seq(PostTypes),
         NEW ms \in Seq(Msgs), NEW m2 \in Seq(Msgs), NEW x \in Seq(Marks), NEW x2,
         Tells(es, qs, ms, x), Cat(Cat(Gist(ms), x), FlatMap(QSkel, xs)) = Cat(Gist(m2), x2),
         NEW t, t = Cat(qs, xs)
  PROVE  Tells(es, t, m2, x2)
<1>1. PICK s \in Seq(Marks), f \in Seq(Marks), g \in Seq(Marks) :
        s = Sketch(es) /\ f = FlatMap(QSkel, qs) /\ g = FlatMap(QSkel, xs)
  BY SketchIs, QSkelMakes, FlatMapType
<1>2. FlatMap(QSkel, t) = Cat(f, g)
  BY QSkelMakes, FlatMapConcat, <1>1
<1>3. Cat(s, Cat(f, g)) = Cat(Cat(s, f), g)
  BY CatProperties
<1> QED BY <1>1, <1>2, <1>3 DEF Tells

(* The first message is handled.                                            *)
LEMMA TellsHandled ==
  ASSUME NEW es \in Seq(Entries), NEW qs \in Seq(PostTypes), NEW ms, NEW x,
         Tells(es, qs, ms, x), NEW h, NEW t, Loses(qs, h, t), NEW e2,
         Sketch(e2) = Cat(Sketch(es), QSkel[h])
  PROVE  Tells(e2, t, ms, x)
<1>1. h \in PostTypes /\ t \in Seq(PostTypes) /\ FlatMap(QSkel, qs) = Cat(QSkel[h], FlatMap(QSkel, t))
  BY QSkelMakes, FlatMapHead, HeadAndTail DEF Loses
<1>2. PICK s \in Seq(Marks), y \in Seq(Marks), f \in Seq(Marks) :
        s = Sketch(es) /\ y = QSkel[h] /\ f = FlatMap(QSkel, t)
  BY <1>1, SketchIs, QSkelMakes, FlatMapType
<1>3. Cat(s, Cat(y, f)) = Cat(Cat(s, y), f)
  BY CatProperties
<1> QED BY <1>1, <1>2, <1>3 DEF Tells

(* What is posted was posted before or is posted now.                       *)
LEMMA PostedTogether ==
  ASSUME NEW qs \in Seq(PostTypes), NEW xs \in Seq(PostTypes), NEW t, t = Cat(qs, xs), NEW i \in DOMAIN t
  PROVE  (\E j \in DOMAIN qs : t[i] = qs[j]) \/ (\E j \in DOMAIN xs : t[i] = xs[j])
<1>1. PICK y : y = t[i]
  OBVIOUS
<1>2. In(y, t)
  BY <1>1 DEF In
<1>3. In(y, qs) \/ In(y, xs)
  BY <1>2, InCat
<1>4. (\E j \in DOMAIN qs : qs[j] = y) \/ (\E j \in DOMAIN xs : xs[j] = y)
  BY <1>3 DEF In
<1> QED BY <1>1, <1>4

(* What is reported when more is posted.                                    *)
LEMMA ReportedMore ==
  ASSUME NEW qs \in Seq(PostTypes), NEW xs \in Seq(PostTypes), NEW t, t = Cat(qs, xs)
  PROVE  \A n : Reported(t, n) <=> Reported(qs, n) \/ Reported(xs, n)
<1>1. \A y : In(y, t) <=> In(y, qs) \/ In(y, xs)
  BY InCat
<1>2. \A n, s : Reported(s, n) <=> \E y : In(y, s) /\ y.kind = "outcome" /\ y.result = n
  BY DEF Reported, In
<1> QED BY <1>1, <1>2

(* A result is posted together with the message that holds it.              *)
LEMMA ResultsPosted ==
  ASSUME NEW es, NEW qs \in Seq(PostTypes), NEW xs \in Seq(PostTypes), NEW ms, NEW m2,
         ResultsOk(es, qs, ms), NEW t, t = Cat(qs, xs),
         \A n : ResultIn(m2, n) <=> ResultIn(ms, n) \/ Reported(xs, n),
         \A j \in DOMAIN xs : xs[j].kind = "announce" => xs[j].id # 0 /\ ~ResultIn(m2, xs[j].id)
  PROVE  ResultsOk(es, t, m2)
<1>1. \A n : Reported(t, n) <=> Reported(qs, n) \/ Reported(xs, n)
  BY ReportedMore
<1>2. \A i \in DOMAIN t : (\E j \in DOMAIN qs : t[i] = qs[j]) \/ (\E j \in DOMAIN xs : t[i] = xs[j])
  BY PostedTogether
<1>3. ASSUME NEW n, NEW a, NEW r, NEW u, HasBlock(es, n, a, r, u)
      PROVE  /\ n # 0 /\ r \in {0, n}
             /\ r # 0 => ResultIn(m2, n)
             /\ (r = 0 /\ ResultIn(m2, n)) => Reported(t, n)
  BY <1>1, <1>3 DEF ResultsOk
<1>4. ASSUME NEW i \in DOMAIN t, t[i].kind = "announce"
      PROVE  t[i].id # 0 /\ (ResultIn(m2, t[i].id) => Reported(t, t[i].id))
  <2>1. CASE \E j \in DOMAIN qs : t[i] = qs[j]
    BY <1>1, <1>4, <2>1 DEF ResultsOk
  <2>2. CASE \E j \in DOMAIN xs : t[i] = xs[j]
    BY <1>4, <2>2
  <2> QED BY <1>2, <2>1, <2>2
<1>5. ASSUME NEW i \in DOMAIN t, t[i].kind = "outcome"
      PROVE  ResultIn(m2, t[i].result)
  <2>1. CASE \E j \in DOMAIN qs : t[i] = qs[j]
    BY <1>5, <2>1 DEF ResultsOk
  <2>2. CASE \E j \in DOMAIN xs : t[i] = xs[j]
    BY <1>5, <2>2 DEF Reported
  <2> QED BY <1>2, <2>1, <2>2
<1> QED BY <1>3, <1>4, <1>5 DEF ResultsOk

(* What is being said is a sequence of marks.                               *)
LEMMA BeingIs ==
  ASSUME NEW p \in Seq(Shows!Piece), NEW st
  PROVE  Being(st, p) \in Seq(Marks) /\ (st # "stream" => Being(st, p) = <<>>)
         /\ (st = "stream" => Being(st, p) = Shows!Lines(p))
BY LinesAre, EmptySeq DEF Being

(* Then the transcript stays what it should be.                             *)
LEMMA KeptPosted ==
  ASSUME TypesInv, KeptInv, TypesInv', UNCHANGED view, NEW xs \in Seq(PostTypes), posted' = Cat(posted, xs),
         SaidIn(xs), PostsResults(xs), Waits(view, posted', batch', stage')
  PROVE  KeptInv'
<1>1. PICK es, qs, ms, m2, x, x2, t :
        /\ es = view.entries /\ qs = posted /\ t = posted' /\ ms = messages /\ m2 = messages'
        /\ x = Being(stage, partial) /\ x2 = Being(stage', partial')
  OBVIOUS
<1>2. /\ es \in Seq(Entries) /\ qs \in Seq(PostTypes) /\ ms \in Seq(Msgs) /\ m2 \in Seq(Msgs)
      /\ x \in Seq(Marks) /\ t = Cat(qs, xs)
  BY <1>1, ViewFields, BeingIs DEF TypesInv, ViewOk
<1>3. Tells(es, t, m2, x2)
  BY <1>1, <1>2, TellsMore DEF KeptInv, SaidIn
<1>4. ResultsOk(es, t, m2)
  BY <1>1, <1>2, ResultsPosted DEF KeptInv, PostsResults
<1>5. view.reply # 0 => ReplyLast(view)
  BY DEF KeptInv
<1> QED BY <1>1, <1>3, <1>4, <1>5 DEF KeptInv

(* Text, a notice and the end of the turn announce and report nothing.      *)
LEMMA KeptPlain ==
  ASSUME TypesInv, KeptInv, TypesInv', UNCHANGED view,
         NEW q \in PostTypes, q.kind \notin {"announce", "outcome"}, posted' = Append(posted, q),
         Cat(Cat(Gist(messages), Being(stage, partial)), QSkel[q]) = Cat(Gist(messages'), Being(stage', partial')),
         \A n : ResultIn(messages', n) <=> ResultIn(messages, n),
         batch' = batch \/ (batch' = <<>> /\ stage' = "idle"), stage' # "idle" => stage # "idle"
  PROVE  KeptInv'
<1>1. posted \in Seq(PostTypes) /\ batch \in Seq(Shows!Call)
  BY DEF TypesInv
<1>2. PICK xs \in Seq(PostTypes) : posted' = Cat(posted, xs) /\ Alone(xs, q)
  <2>1. PICK qs, t : qs = posted /\ t = posted'
    OBVIOUS
  <2>2. PICK xs \in Seq(PostTypes) : t = Cat(qs, xs) /\ Alone(xs, q)
    BY <1>1, <2>1, AppendedOne
  <2> QED BY <2>1, <2>2
<1>3. SaidIn(xs)
  BY <1>2 DEF SaidIn, Alone
<1>4. PostsResults(xs)
  BY <1>2 DEF PostsResults, Alone
<1>5. Waits(view, posted', batch', stage')
  <2>1. PICK ps, rest : Due(view, posted, batch, ps, rest, stage)
    BY DEF KeptInv, Waits
  <2>2. PICK v, qs, bs, st, t, st2 :
          v = view /\ qs = posted /\ bs = batch /\ st = stage /\ t = posted' /\ st2 = stage'
    OBVIOUS
  <2>3. Due(v, t, bs, ps, rest, st2)
    BY <1>1, <2>1, <2>2, AwaitsPosted
  <2>4. t \in Seq(PostTypes)
    BY <2>2 DEF TypesInv
  <2>5. PICK r : Due(v, t, <<>>, ps, r, "idle")
    BY <1>1, <2>2, <2>3, <2>4, AwaitsDropped
  <2> QED BY <2>2, <2>3, <2>5 DEF Waits
<1> QED BY <1>1, <1>2, <1>3, <1>4, <1>5, KeptPosted

(* The worker says more, asks to go on, ends the turn or gives it up.       *)
LEMMA KeptSpeaks ==
  ASSUME TypesInv, ConvInv, KeptInv,
         \/ Shows!Answer \/ Shows!Continue
         \/ \E sort \in {"blank", "plain", "marked"} : Shows!Say(sort)
  PROVE  KeptInv'
<1>1. PICK g \in Seq(Marks), l \in Seq(Marks) : g = Gist(messages) /\ l = Shows!Lines(partial)
  BY GistIs, LinesAre DEF TypesInv
<1>2. Cat(g, l) \in Seq(Marks) /\ Cat(Cat(g, l), <<>>) = Cat(g, l)
  BY CatProperties
<1>3. \A q \in PostTypes : q.kind \in {"notice", "done"} => QSkel[q] = <<>>
  BY DEF QSkel
<1>4. CASE Shows!Answer
  <2>1. /\ stage = "stream" /\ stage' = "idle" /\ UNCHANGED <<view, batch>> /\ TypesInv'
        /\ \E q : Posted(q, "done") /\ posted' = Append(posted, q)
    BY <1>4, AnswerStep
  <2>2. Gist(messages') = Cat(g, l) /\ \A n : ResultIn(messages', n) <=> ResultIn(messages, n)
    BY <1>1, <1>4, AnswerConv
  <2>3. PICK q \in PostTypes : q.kind = "done" /\ posted' = Append(posted, q)
    BY <2>1 DEF Posted
  <2>4. Being(stage, partial) = l /\ Being(stage', partial') = <<>> /\ QSkel[q] = <<>>
    BY <1>1, <1>3, <2>1, <2>3 DEF Being
  <2>5. Cat(Cat(Gist(messages), Being(stage, partial)), QSkel[q]) = Cat(Gist(messages'), Being(stage', partial'))
    BY <1>1, <1>2, <2>2, <2>4
  <2> QED BY <2>1, <2>2, <2>3, <2>5, KeptPlain
<1>5. CASE Shows!Continue
  <2>1. /\ stage = "stream" /\ partial' = <<>> /\ UNCHANGED <<stage, view, batch>> /\ TypesInv'
        /\ \E q : Posted(q, "notice") /\ posted' = Append(posted, q)
    BY <1>5, ContinueStep
  <2>2. Gist(messages') = Cat(g, l) /\ \A n : ResultIn(messages', n) <=> ResultIn(messages, n)
    BY <1>1, <1>5, ContinueConv
  <2>3. PICK q \in PostTypes : q.kind = "notice" /\ posted' = Append(posted, q)
    BY <2>1 DEF Posted
  <2>4. Being(stage, partial) = l /\ Being(stage', partial') = <<>> /\ QSkel[q] = <<>>
    BY <1>1, <1>3, <2>1, <2>3, LinesNone DEF Being
  <2>5. Cat(Cat(Gist(messages), Being(stage, partial)), QSkel[q]) = Cat(Gist(messages'), Being(stage', partial'))
    BY <1>1, <1>2, <2>2, <2>4
  <2> QED BY <2>1, <2>2, <2>3, <2>5, KeptPlain
<1>6. CASE \E sort \in {"blank", "plain", "marked"} : Shows!Say(sort)
  <2>1. PICK sort \in {"blank", "plain", "marked"} : Shows!Say(sort)
    BY <1>6
  <2>2. /\ stage = "stream" /\ UNCHANGED <<messages, stage, view, batch>> /\ TypesInv'
        /\ \E p, q : /\ p \in Shows!Piece /\ Posted(q, "delta") /\ q.piece = p
                     /\ partial' = Append(partial, p) /\ posted' = Append(posted, q)
    BY <2>1, SayStep
  <2>3. PICK p, q : /\ p \in Shows!Piece /\ q \in PostTypes /\ q.kind = "delta" /\ q.piece = p
                    /\ partial' = Append(partial, p) /\ posted' = Append(posted, q)
    BY <2>2 DEF Posted
  <2>4. PICK x \in Seq(Marks) : x = LineOf[p]
    BY <2>3, LineMakes DEF Makes
  <2>5. QSkel[q] = x
    BY <2>3, <2>4 DEF QSkel
  <2>6. Being(stage, partial) = l /\ Being(stage', partial') = Cat(l, x)
    BY <1>1, <2>3, <2>4, LinesAppend, <2>2 DEF TypesInv, Being
  <2>7. Cat(Cat(g, l), x) = Cat(g, Cat(l, x))
    BY CatProperties
  <2>8. Cat(Cat(Gist(messages), Being(stage, partial)), QSkel[q]) = Cat(Gist(messages'), Being(stage', partial'))
    BY <1>1, <2>2, <2>5, <2>6, <2>7
  <2>9. \A n : ResultIn(messages', n) <=> ResultIn(messages, n)
    BY <2>2
  <2> QED BY <2>2, <2>3, <2>8, <2>9, KeptPlain
<1> QED BY <1>4, <1>5, <1>6

(* The worker gives a turn up, having said nothing that is not told.        *)
LEMMA KeptStop ==
  ASSUME TypesInv, ConvInv, PromptInv, KeptInv, kept', NEW cancelled \in BOOLEAN, Shows!Stop(cancelled)
  PROVE  KeptInv'
<1>1. /\ stage \in {"stream", "batch"} /\ stage' = "idle" /\ batch' = <<>>
      /\ UNCHANGED <<messages, partial, view>> /\ Shows!Blank(partial) /\ TypesInv'
      /\ \E q : Posted(q, "done") /\ posted' = Append(posted, q)
  BY StopStep
<1>2. PICK q \in PostTypes : q.kind = "done" /\ posted' = Append(posted, q)
  BY <1>1 DEF Posted
<1>3. Being(stage, partial) = <<>> /\ Being(stage', partial') = <<>> /\ QSkel[q] = <<>>
  BY <1>1, <1>2, BlankLines DEF Being, QSkel, TypesInv
<1>4. PICK g \in Seq(Marks) : g = Gist(messages)
  BY GistIs DEF TypesInv
<1>5. Cat(Cat(g, <<>>), <<>>) = Cat(g, <<>>)
  BY CatProperties
<1>6. Cat(Cat(Gist(messages), Being(stage, partial)), QSkel[q]) = Cat(Gist(messages'), Being(stage', partial'))
  BY <1>1, <1>3, <1>4, <1>5
<1>7. \A n : ResultIn(messages', n) <=> ResultIn(messages, n)
  BY <1>1
<1> QED BY <1>1, <1>2, <1>6, <1>7, KeptPlain

(* The calls of a message are announced, as long as each is recognised.     *)
LEMMA KeptCalls ==
  ASSUME TypesInv, ConvInv, KeptInv, kept', NEW cs \in Shows!Batches,
         said + made + turns + Len(cs) <= MaxParts, Shows!CallTools(cs)
  PROVE  KeptInv'
<1>1. /\ stage = "stream" /\ stage' = "batch" /\ batch = <<>> /\ batch' = cs /\ partial' = <<>>
      /\ cs \in Seq(Shows!Call) /\ Len(cs) \in {1, 2} /\ Numbered(cs, made) /\ UNCHANGED view /\ TypesInv'
      /\ \A i \in DOMAIN cs : ~cs[i].arrow
  BY CallToolsStep
<1>2. PICK xs \in Seq(PostTypes) : /\ Len(xs) = Len(cs) /\ posted' = Cat(posted, xs)
                                   /\ \A i \in 1..Len(cs) : Announces(cs, i, xs[i])
  BY CallToolsStep
<1>3. /\ Gist(messages') = Cat(Gist(messages), Cat(Shows!Lines(partial), CallMarks(cs)))
      /\ \A n : ResultIn(messages', n) <=> ResultIn(messages, n)
  BY CallToolsConv
<1>4. PICK m \in Nat : m = Len(cs) /\ m = Len(xs) /\ DOMAIN cs = 1..m /\ DOMAIN xs = 1..m
  BY <1>1, <1>2, LenProperties
<1>5. \A i \in 1..m : xs[i].kind = "announce" /\ xs[i].id = cs[i].id /\ xs[i].name = cs[i].name
  BY <1>1, <1>2, <1>4 DEF Announces
<1>6. FlatMap(QSkel, xs) = CallMarks(cs)
  <2>1. \A i \in 1..m : xs[i] \in PostTypes /\ cs[i].id \in Nat
    BY <1>2, <1>4, <1>5 DEF Announces, PostTypes
  <2>2. \A i \in 1..m : QSkel[xs[i]] = <<<<"call", cs[i].id>>>>
    BY <1>5, <2>1 DEF QSkel
  <2>3. PICK c \in Seq(Marks) : /\ c = CallMarks(cs) /\ Len(c) = m /\ DOMAIN c = 1..m
                                /\ \A i \in 1..m : c[i] = <<"call", cs[i].id>>
    BY <1>1, <1>4, CallMarksAre, LenProperties
  <2>4. \A i \in 1..m : c[i] \in Marks /\ One[c[i]] = <<c[i]>>
    BY <2>3, ElementOfSeq DEF One
  <2>5. FlatMap(One, c) = c
    <3>1. Makes(One, Marks, Marks)
      BY DEF One, Makes
    <3> QED BY <2>3, <2>4, <3>1, FlatMapItself
  <2>6. [i \in DOMAIN xs |-> QSkel[xs[i]]] = [i \in DOMAIN c |-> One[c[i]]]
    BY <1>4, <2>2, <2>3, <2>4, ZenonT(30)
  <2> QED BY <2>3, <2>5, <2>6 DEF FlatMap
<1>7. SaidIn(xs)
  <2>1. PICK g \in Seq(Marks), l \in Seq(Marks), c \in Seq(Marks) :
          g = Gist(messages) /\ l = Shows!Lines(partial) /\ c = CallMarks(cs)
    BY <1>1, GistIs, LinesAre, CallMarksAre DEF TypesInv
  <2>2. PICK d \in Seq(Marks) : d = Cat(g, Cat(l, c))
    BY CatProperties
  <2>3. Cat(Cat(g, l), c) = d /\ Cat(d, <<>>) = d
    BY <2>2, CatProperties
  <2>4. Being(stage, partial) = l /\ Being(stage', partial') = <<>>
    BY <1>1, <2>1 DEF Being
  <2> QED BY <1>3, <1>6, <2>1, <2>2, <2>3, <2>4 DEF SaidIn
<1>8. PostsResults(xs)
  <2>1. \A n : ~Reported(xs, n)
    BY <1>4, <1>5 DEF Reported
  <2>2. \A i \in 1..m : cs[i].id = made + i
    BY <1>1, <1>4 DEF Numbered
  <2>3. \A n : ResultIn(messages, n) => n <= made
    BY DEF ResultIn, ConvInv, MsgsOk
  <2>4. \A i \in 1..m : xs[i].id # 0 /\ ~ResultIn(messages', xs[i].id)
    BY <1>3, <1>5, <2>2, <2>3 DEF TypesInv
  <2> QED BY <1>3, <1>4, <2>1, <2>4 DEF PostsResults
<1>9. Waits(view, posted', batch', stage')
  <2>1. PICK ps, rest : Due(view, posted, batch, ps, rest, stage)
    BY DEF KeptInv, Waits
  <2>2. PICK v, qs, st, t : v = view /\ qs = posted /\ st = stage /\ t = posted'
    OBVIOUS
  <2>3. /\ qs \in Seq(PostTypes) /\ st # "idle" /\ t = Cat(qs, xs) /\ Due(v, qs, <<>>, ps, rest, st)
    BY <1>1, <1>2, <2>1, <2>2 DEF TypesInv
  <2>4. Due(v, t, cs, ps, <<>>, "batch")
    BY <1>1, <1>4, <1>5, <2>3, AwaitsAnnounced
  <2> QED BY <1>1, <2>2, <2>4 DEF Waits
<1> QED BY <1>1, <1>2, <1>7, <1>8, <1>9, KeptPosted

(* A call is observed.                                                      *)
LEMMA KeptObserve ==
  ASSUME TypesInv, ConvInv, PromptInv, KeptInv, Shows!Observe
  PROVE  KeptInv'
<1>1. /\ stage = "batch" /\ stage' \in {"stream", "batch"} /\ batch # <<>> /\ batch' = Tail(batch)
      /\ UNCHANGED <<partial, view>> /\ TypesInv'
  BY ObserveStep
<1>2. PICK c, q : /\ c = Head(batch) /\ Posted(q, "outcome") /\ q.result = c.id /\ q.name = c.name
                  /\ posted' = Append(posted, q)
  BY ObserveStep
<1>3. /\ Gist(messages') = Gist(messages)
      /\ \A n : ResultIn(messages', n) <=> ResultIn(messages, n) \/ n = c.id
  BY <1>2, ObserveConv
<1>4. PICK v, qs, bs, t, bt, st, st2 : /\ v = view /\ qs = posted /\ bs = batch /\ t = posted' /\ bt = batch'
                                       /\ st = stage /\ st2 = stage'
  OBVIOUS
<1>5. /\ qs \in Seq(PostTypes) /\ bs \in Seq(Shows!Call) /\ q \in PostTypes /\ q.kind = "outcome"
      /\ t = Append(qs, q) /\ bt = Tail(bs) /\ bs # <<>> /\ c = Head(bs)
  BY <1>1, <1>2, <1>4 DEF TypesInv, Posted
<1>6. PICK xs \in Seq(PostTypes) : t = Cat(qs, xs) /\ Alone(xs, q)
  BY <1>5, AppendedOne
<1>7. SaidIn(xs)
  <2>1. partial = <<>>
    BY <1>1 DEF PromptInv
  <2>2. Being(stage, partial) = <<>> /\ Being(stage', partial') = <<>> /\ QSkel[q] = <<>>
    BY <1>1, <1>5, <2>1, LinesNone DEF Being, QSkel
  <2>3. PICK g \in Seq(Marks) : g = Gist(messages)
    BY GistIs DEF TypesInv
  <2>4. Cat(Cat(g, <<>>), <<>>) = Cat(g, <<>>)
    BY CatProperties
  <2> QED BY <1>3, <1>6, <2>2, <2>3, <2>4 DEF SaidIn, Alone
<1>8. PostsResults(xs)
  BY <1>2, <1>3, <1>5, <1>6 DEF PostsResults, Alone
<1>9. Waits(view, posted', batch', stage')
  <2>1. PICK ps, rest : Due(v, qs, bs, ps, rest, st)
    BY <1>4 DEF KeptInv, Waits
  <2>2. st # "idle" /\ q.result = Head(bs).id /\ q.name = Head(bs).name
    BY <1>1, <1>2, <1>4, <1>5
  <2>3. Due(v, t, bt, ps, <<>>, st2)
    BY <1>5, <2>1, <2>2, AwaitsObserved
  <2> QED BY <1>4, <2>3 DEF Waits
<1> QED BY <1>1, <1>4, <1>6, <1>7, <1>8, <1>9, KeptPosted

(* What is in a queue that loses its head.                                  *)
LEMMA LosesIs ==
  ASSUME NEW qs \in Seq(PostTypes), NEW h, NEW t, Loses(qs, h, t)
  PROVE  /\ h \in PostTypes /\ t \in Seq(PostTypes) /\ \E j \in DOMAIN qs : qs[j] = h
         /\ \A i \in DOMAIN t : \E j \in DOMAIN qs : qs[j] = t[i]
         /\ \A j \in DOMAIN qs : qs[j] = h \/ \E i \in DOMAIN t : qs[j] = t[i]
<1>1. PICK n : n = Len(t)
  OBVIOUS
<1>2. /\ h = qs[1] /\ h \in PostTypes /\ t \in Seq(PostTypes) /\ n \in Nat /\ Len(qs) = n + 1
      /\ \A c \in 1..n : t[c] = qs[c + 1]
  BY HeadAndTail, <1>1, LenProperties DEF Loses
<1>3. DOMAIN qs = 1..(n + 1) /\ DOMAIN t = 1..n
  BY <1>1, <1>2, LenProperties
<1>4. \A i \in 1..n : i + 1 \in 1..(n + 1)
  BY <1>2
<1>5. \A j \in 1..(n + 1) : j = 1 \/ (j - 1 \in 1..n /\ (j - 1) + 1 = j)
  BY <1>2
<1>6. ASSUME NEW j \in DOMAIN qs
      PROVE  qs[j] = h \/ \E i \in DOMAIN t : qs[j] = t[i]
  <2>1. CASE j = 1
    BY <1>2, <2>1
  <2>2. CASE j # 1
    <3>1. PICK i \in 1..n : i + 1 = j
      BY <1>3, <1>5, <2>2
    <3> QED BY <1>2, <1>3, <3>1
  <2> QED BY <2>1, <2>2
<1>7. 1 \in 1..(n + 1)
  BY <1>2
<1> QED BY <1>2, <1>3, <1>4, <1>6, <1>7

(* What is reported by it.                                                  *)
LEMMA ReportedTail ==
  ASSUME NEW qs \in Seq(PostTypes), NEW h, NEW t, Loses(qs, h, t)
  PROVE  \A n : Reported(qs, n) <=> (h.kind = "outcome" /\ h.result = n) \/ Reported(t, n)
BY LosesIs DEF Reported

(* A message that reports nothing is handled, and at most a block without a *)
(* result is new.                                                           *)
LEMMA ResultsTail ==
  ASSUME NEW es, NEW qs \in Seq(PostTypes), NEW ms, ResultsOk(es, qs, ms),
         NEW h, NEW t, Loses(qs, h, t), h.kind # "outcome", NEW e2,
         \A n, a, r, u : HasBlock(e2, n, a, r, u) =>
           HasBlock(es, n, a, r, u) \/ (h.kind = "announce" /\ n = h.id /\ r = 0)
  PROVE  ResultsOk(e2, t, ms)
<1>1. \A n : Reported(qs, n) <=> Reported(t, n)
  BY ReportedTail
<1>2. ASSUME NEW n, NEW a, NEW r, NEW u, HasBlock(e2, n, a, r, u)
      PROVE  /\ n # 0 /\ r \in {0, n}
             /\ r # 0 => ResultIn(ms, n)
             /\ (r = 0 /\ ResultIn(ms, n)) => Reported(t, n)
  <2>1. CASE HasBlock(es, n, a, r, u)
    BY <1>1, <2>1 DEF ResultsOk
  <2>2. CASE h.kind = "announce" /\ n = h.id /\ r = 0
    <3>1. PICK j \in DOMAIN qs : qs[j] = h
      BY LosesIs
    <3> QED BY <1>1, <2>2, <3>1 DEF ResultsOk
  <2> QED BY <1>2, <2>1, <2>2
<1>3. \A i \in DOMAIN t : \E j \in DOMAIN qs : qs[j] = t[i]
  BY LosesIs
<1>4. \A i \in DOMAIN t : /\ t[i].kind = "announce" =>
                               t[i].id # 0 /\ (ResultIn(ms, t[i].id) => Reported(t, t[i].id))
                          /\ t[i].kind = "outcome" => ResultIn(ms, t[i].result)
  BY <1>1, <1>3 DEF ResultsOk
<1> QED BY <1>2, <1>4 DEF ResultsOk

(* Nothing waits when no block does and nothing is posted or to run.        *)
LEMMA NoneWaits ==
  ASSUME NEW v, v.pending = <<>>, NEW st
  PROVE  Waits(v, <<>>, <<>>, st)
<1>1. /\ FlatMap(AnnTag, <<>>) = <<>> /\ FlatMap(OutTag, <<>>) = <<>> /\ FlatMap(CallTag, <<>>) = <<>>
  <2>1. <<>> \in Seq(PostTypes) /\ <<>> \in Seq(Shows!Call)
    OBVIOUS
  <2> QED BY <2>1, TagSeqs
<1>2. <<>> \in Seq(Tags) /\ DOMAIN <<>> = {} /\ Len(<<>>) = 0
  OBVIOUS
<1>3. Cat(<<>>, <<>>) = <<>>
  BY <1>2, CatProperties
<1>4. Pends(v, <<>>) /\ Ahead(<<>>, <<>>)
  BY <1>2 DEF Pends, Ahead
<1>5. Due(v, <<>>, <<>>, <<>>, <<>>, st)
  BY <1>1, <1>2, <1>3, <1>4 DEF Due
<1> QED BY <1>5 DEF Waits

(* The calls of the blocks that wait, as long as these stay.                *)
LEMMA PendsSame ==
  ASSUME NEW v, NEW w, w.pending = v.pending, SameBlocks(v.entries, w.entries), NEW ps, Pends(v, ps)
  PROVE  Pends(w, ps)
BY DEF Pends, SameBlocks

(* The app handles a message.                                               *)
LEMMA KeptHandled ==
  ASSUME TypesInv, KeptInv, NEW kind, Shows!Handle(kind), TypesInv', NEW w, w = view',
         NEW h, h = Head(posted), Sketch(w.entries) = Cat(Sketch(view.entries), QSkel[h]),
         w.reply # 0 => ReplyLast(w), ResultsOk(w.entries, posted', messages),
         Waits(w, posted', batch, stage)
  PROVE  KeptInv'
<1>1. /\ posted # <<>> /\ posted' = Tail(posted)
      /\ UNCHANGED <<messages, stage, partial, batch>>
  BY HandleStep
<1>2. PICK es, qs, t, ms, x : /\ es = view.entries /\ qs = posted /\ t = posted' /\ ms = messages
                              /\ x = Being(stage, partial)
  OBVIOUS
<1>3. es \in Seq(Entries) /\ qs \in Seq(PostTypes) /\ Loses(qs, h, t)
  BY <1>1, <1>2, ViewFields DEF TypesInv, ViewOk, Loses
<1>4. Tells(es, qs, ms, x)
  BY <1>2 DEF KeptInv
<1>5. PICK e2 : e2 = w.entries /\ Sketch(e2) = Cat(Sketch(es), QSkel[h])
  BY <1>2
<1>6. Tells(e2, t, ms, x)
  BY <1>3, <1>4, <1>5, TellsHandled
<1> QED BY <1>1, <1>2, <1>5, <1>6 DEF KeptInv

(* What waits, past a message that neither announces nor observes.          *)
LEMMA WaitsPlain ==
  ASSUME NEW v, NEW qs \in Seq(PostTypes), NEW bs \in Seq(Shows!Call), NEW st, Waits(v, qs, bs, st),
         NEW h, NEW t, Loses(qs, h, t), h.kind \notin {"announce", "outcome"},
         NEW w, w.pending = v.pending, SameBlocks(v.entries, w.entries)
  PROVE  Waits(w, t, bs, st)
<1>1. PICK ps, rest : Due(v, qs, bs, ps, rest, st)
  BY DEF Waits
<1>2. ps \in Seq(Tags) /\ Pends(v, ps)
  BY <1>1 DEF Due, Pends
<1>3. Pends(w, ps)
  BY <1>2, PendsSame
<1>4. AnnTag[h] = <<>> /\ OutTag[h] = <<>>
  BY LosesIs, TagsOfPost
<1>5. Cat(ps, AnnTag[h]) = Cat(OutTag[h], ps)
  BY <1>2, <1>4, CatProperties
<1>6. Due(w, t, bs, ps, rest, st)
  BY <1>1, <1>3, <1>5, AwaitsHandled
<1> QED BY <1>6 DEF Waits

(* What waits, past an announcement.                                        *)
LEMMA WaitsNewBlock ==
  ASSUME NEW v, ViewOk(v), NEW qs \in Seq(PostTypes), NEW bs \in Seq(Shows!Call), NEW st, Waits(v, qs, bs, st),
         NEW h, NEW t, Loses(qs, h, t), h.kind = "announce",
         NEW w, w.pending = Append(v.pending, v.next),
         \A n, a, r, u : HasBlock(w.entries, n, a, r, u) <=>
           HasBlock(v.entries, n, a, r, u) \/ (n = h.id /\ a = h.name /\ r = 0 /\ u = v.next)
  PROVE  Waits(w, t, bs, st)
<1>1. PICK ps, rest : Due(v, qs, bs, ps, rest, st)
  BY DEF Waits
<1>2. ps \in Seq(Tags) /\ Pends(v, ps) /\ h \in PostTypes
  BY <1>1, LosesIs DEF Due, Pends
<1>3. PICK x \in Tags : x = TagOf(h.id, h.name) /\ x.id = h.id /\ x.name = h.name
  BY <1>2, TagsAre DEF PostTypes
<1>4. PICK p2 \in Seq(Tags) : p2 = Append(ps, x)
  BY <1>2, AppendProperties
<1>5. Pends(w, p2)
  <2>1. PICK n \in Nat : n = Len(ps) /\ n = Len(v.pending) /\ DOMAIN ps = 1..n
    BY <1>2, LenProperties DEF Pends
  <2>2. Len(p2) = n + 1 /\ p2[n + 1] = x /\ \A k \in 1..n : p2[k] = ps[k]
    BY <1>2, <1>4, <2>1, AppendProperties
  <2>3. v.pending \in Seq(Nat) /\ v.next \in Nat
    BY ViewFields DEF ViewOk
  <2>4. Len(w.pending) = n + 1 /\ w.pending[n + 1] = v.next /\ \A k \in 1..n : w.pending[k] = v.pending[k]
    BY <2>1, <2>3, AppendProperties
  <2>5. DOMAIN p2 = 1..(n + 1)
    BY <1>4, <2>2, LenProperties
  <2>6. ASSUME NEW k \in 1..(n + 1)
        PROVE  HasBlock(w.entries, p2[k].id, p2[k].name, 0, w.pending[k])
    <3>1. CASE k = n + 1
      <4>1. PICK y, u : y = p2[k] /\ u = w.pending[k]
        OBVIOUS
      <4>2. y.id = h.id /\ y.name = h.name /\ u = v.next
        BY <1>3, <2>2, <2>4, <3>1, <4>1
      <4>3. HasBlock(w.entries, y.id, y.name, 0, u)
        BY <4>2
      <4> QED BY <4>1, <4>3
    <3>2. CASE k \in 1..n
      <4>1. PICK y, u : y = p2[k] /\ u = w.pending[k]
        OBVIOUS
      <4>2. y = ps[k] /\ u = v.pending[k]
        BY <2>2, <2>4, <3>2, <4>1
      <4>3. HasBlock(v.entries, ps[k].id, ps[k].name, 0, v.pending[k])
        BY <1>2, <2>1, <3>2 DEF Pends
      <4>4. HasBlock(w.entries, y.id, y.name, 0, u)
        BY <4>2, <4>3
      <4> QED BY <4>1, <4>4
    <3>3. k = n + 1 \/ k \in 1..n
      OBVIOUS
    <3> QED BY <3>1, <3>2, <3>3
  <2> QED BY <2>2, <2>4, <2>5, <2>6 DEF Pends
<1>6. Cat(ps, AnnTag[h]) = Cat(OutTag[h], p2)
  <2>1. AnnTag[h] = <<x>> /\ OutTag[h] = <<>>
    BY <1>2, <1>3, TagsOfPost
  <2>2. p2 = ps \o <<x>>
    BY <1>2, <1>4, AppendIsConcat
  <2>3. Cat(<<>>, p2) = p2
    BY CatProperties
  <2> QED BY <2>1, <2>2, <2>3 DEF Cat
<1>7. Due(w, t, bs, p2, rest, st)
  BY <1>1, <1>5, <1>6, AwaitsHandled
<1> QED BY <1>7 DEF Waits

(* Text is shown, a call announced, a notice or the end of the turn written.*)
LEMMA KeptShown ==
  ASSUME TypesInv, PromptInv, KeptInv, Shows!OnDelta \/ Shows!OnAnnounce \/ Shows!OnNotice \/ Shows!OnDone
  PROVE  KeptInv'
<1>1. PICK v, w, qs, t, h, ms, bs, st : /\ v = view /\ w = view' /\ qs = posted /\ t = posted' /\ h = Head(posted)
                                        /\ ms = messages /\ bs = batch /\ st = stage
  OBVIOUS
<1>2. /\ ViewOk(v) /\ v \in Views /\ qs \in Seq(PostTypes) /\ bs \in Seq(Shows!Call)
      /\ v.entries \in Seq(Entries)
  BY <1>1, ViewFields DEF TypesInv, ViewOk
<1>3. /\ v.reply # 0 => ReplyLast(v)
      /\ ResultsOk(v.entries, qs, ms) /\ Waits(v, qs, bs, st)
  BY <1>1 DEF KeptInv
<1>4. ASSUME NEW kind, Shows!Handle(kind)
      PROVE  /\ Loses(qs, h, t) /\ h \in PostTypes /\ h.kind = kind
             /\ h.id \in Nat /\ h.name \in ToolNames /\ h.piece \in Shows!Piece
  BY <1>1, <1>4, HandleStep DEF Loses
<1>5. ASSUME NEW kind, Shows!Handle(kind), kind \in {"delta", "notice"}, TypesInv',
             Sketch(w.entries) = Cat(Sketch(v.entries), QSkel[h]), w.reply # 0 => ReplyLast(w),
             w.pending = v.pending, SameBlocks(v.entries, w.entries)
      PROVE  KeptInv'
  BY <1>4, <1>5, <1>2, <1>3, ResultsTail, WaitsPlain, <1>1, KeptHandled DEF SameBlocks
<1>6. PICK s \in Seq(Marks) : s = Sketch(v.entries)
  BY <1>2, SketchIs
<1>7. Cat(s, <<>>) = s
  BY CatProperties
<1>8. CASE Shows!OnDelta
  <2>1. Shows!Handle("delta")
    BY <1>8 DEF Shows!OnDelta
  <2>2. h \in PostTypes /\ h.kind = "delta" /\ h.piece \in Shows!Piece
    BY <1>4, <2>1
  <2>3. PICK p, g : p = h.piece /\ g = Shows!Grown(v, p) /\ \E k \in 0..Len(g.buf) : w = Shows!Drained(g, k)
    BY <1>1, <1>8, OnDeltaStep
  <2>4. PICK k \in 0..Len(g.buf) : w = Shows!Drained(g, k)
    BY <2>3
  <2>5. Sketch(w.entries) = Cat(Sketch(v.entries), LineOf[p]) /\ ReplyLast(w) /\ SameBlocks(v.entries, w.entries)
    BY <1>2, <1>3, <2>2, <2>3, <2>4, DeltaSketch
  <2>6. QSkel[h] = LineOf[p]
    BY <2>2, <2>3 DEF QSkel
  <2>7. w.pending = v.pending
    <3>1. PICK r : r = Shows!ReplyEntry(v)
      OBVIOUS
    <3>2. ViewOk(g) /\ g.reply = r.reply /\ g.pending = r.pending /\ r.reply # 0 /\ r.pending = v.pending
      BY <1>2, <2>2, <2>3, <3>1, GrownIs, ReplyEntryIs, SMTT(20)
    <3> QED BY <2>4, <3>2, DrainedIs
  <2>8. TypesInv'
    BY <1>8, OnDeltaStep
  <2> QED BY <1>5, <2>1, <2>5, <2>6, <2>7, <2>8
<1>9. CASE Shows!OnAnnounce
  <2>1. Shows!Handle("announce")
    BY <1>9 DEF Shows!OnAnnounce
  <2>2. h \in PostTypes /\ h.kind = "announce" /\ h.id \in Nat /\ h.name \in ToolNames /\ Loses(qs, h, t)
    BY <1>4, <2>1
  <2>3. w = Shows!Announced(v, h) /\ TypesInv'
    BY <1>1, <1>9, OnAnnounceStep
  <2>4. /\ Sketch(w.entries) = Cat(Sketch(v.entries), <<<<"call", h.id>>>>)
        /\ w.pending = Append(v.pending, v.next)
    BY <1>2, <2>2, <2>3, AnnouncedSketch
  <2>5. \A n, a, r, u : HasBlock(w.entries, n, a, r, u) <=>
          HasBlock(v.entries, n, a, r, u) \/ (n = h.id /\ a = h.name /\ r = 0 /\ u = v.next)
    BY <1>2, <2>2, <2>3, AnnouncedSketch
  <2>6. w.reply = 0
    BY <1>2, <2>2, <2>3, AnnouncedIs
  <2>7. QSkel[h] = <<<<"call", h.id>>>>
    BY <2>2 DEF QSkel
  <2>8. ResultsOk(w.entries, t, ms)
    BY <2>2, <2>5, <1>2, <1>3, ResultsTail
  <2>9. Waits(w, t, bs, st)
    BY <1>2, <1>3, <2>2, <2>4, <2>5, WaitsNewBlock
  <2> QED BY <1>1, <2>1, <2>3, <2>4, <2>6, <2>7, <2>8, <2>9, KeptHandled
<1>10. CASE Shows!OnNotice
  <2>1. Shows!Handle("notice")
    BY <1>10 DEF Shows!OnNotice
  <2>2. QSkel[h] = <<>>
    BY <1>4, <2>1 DEF QSkel
  <2>3. PICK f : f = Shows!Finished(v) /\ ViewOk(f) /\ \E e \in Entries : e.kind = "note" /\ Writes(f, e, w)
    BY <1>1, <1>10, OnNoticeStep
  <2>4. PICK e \in Entries : e.kind = "note" /\ Writes(f, e, w)
    BY <2>3
  <2>5. Sketch(w.entries) = Sketch(v.entries) /\ SameBlocks(v.entries, w.entries)
    BY <1>2, <2>3, FinishedSketch, <2>4, NotedSketch DEF SameBlocks
  <2>6. w.reply = 0 /\ w.pending = v.pending
    BY <1>2, <2>3, FinishedIs, <2>4, WithEntryIs DEF ViewOk
  <2>7. TypesInv'
    BY <1>10, OnNoticeStep
  <2> QED BY <1>5, <1>6, <1>7, <2>1, <2>2, <2>5, <2>6, <2>7
<1>11. CASE Shows!OnDone
  <2>1. Shows!Handle("done")
    BY <1>11 DEF Shows!OnDone
  <2>2. Loses(qs, h, t) /\ h.kind = "done" /\ QSkel[h] = <<>>
    BY <1>4, <2>1 DEF QSkel
  <2>3. w = Shows!Ended(v) /\ TypesInv'
    BY <1>1, <1>11, OnDoneStep
  <2>4. Sketch(w.entries) = Sketch(v.entries) /\ SameBlocks(v.entries, w.entries)
    BY <1>2, <2>3, EndedSketch
  <2>5. w.reply = 0 /\ w.pending = <<>>
    BY <1>2, <2>3, EndedIs
  <2>6. ResultsOk(w.entries, t, ms)
    BY <1>2, <1>3, <2>2, <2>4, ResultsTail DEF SameBlocks
  <2>7. t = <<>> /\ bs = <<>>
    BY <2>2, <1>2, HeadAndTail, LenProperties, <1>1, EmptySeq, SMTT(30) DEF Loses, PromptInv, TypesInv
  <2>8. Waits(w, t, bs, st)
    BY <2>5, <2>7, NoneWaits
  <2> QED BY <1>1, <1>6, <1>7, <2>1, <2>2, <2>3, <2>4, <2>5, <2>6, <2>8, KeptHandled
<1> QED BY <1>8, <1>9, <1>10, <1>11

(* on_tool_outcome completes the block of the call that has ended: it is    *)
(* the first that waits, whatever the names are.                            *)
LEMMA OutcomeTakes ==
  ASSUME NEW v, ViewOk(v), NEW qs \in Seq(PostTypes), NEW bs \in Seq(Shows!Call), NEW st, Waits(v, qs, bs, st),
         NEW h, NEW t, Loses(qs, h, t), h.kind = "outcome", NEW w, w = Shows!Observed(v, h)
  PROVE  /\ Waits(w, t, bs, st) /\ Sketch(w.entries) = Sketch(v.entries)
         /\ \E u : Takes(v, w, h.result, h.name, u)
         /\ w.reply = v.reply /\ (ReplyLast(v) => ReplyLast(w))
<1>1. /\ v \in Views /\ EntriesOk(v) /\ PendingOk(v) /\ UidsRise(v.entries)
      /\ h \in PostTypes /\ h.name \in ToolNames /\ h.result \in Nat
  BY LosesIs DEF ViewOk, EntriesOk, PostTypes
<1>2. PICK ps, rest : Due(v, qs, bs, ps, rest, st)
  BY DEF Waits
<1>3. PICK p2 \in Seq(Tags) :
        /\ ps[1] = TagOf(h.result, h.name) /\ Cat(ps, AnnTag[h]) = Cat(OutTag[h], p2)
        /\ Len(ps) = Len(p2) + 1 /\ \A k \in 1..Len(p2) : p2[k] = ps[k + 1]
  <2>1. PICK p2 \in Seq(Tags) : LeadsWith(ps, p2, h)
    BY <1>2, OutcomeIsFirst
  <2> QED BY <2>1 DEF LeadsWith
<1>4. PICK l \in Nat : l = Len(p2) /\ DOMAIN p2 = 1..l
  BY <1>3, LenProperties
<1>5. /\ ps \in Seq(Tags) /\ Len(v.pending) = l + 1 /\ DOMAIN v.pending = 1..(l + 1) /\ DOMAIN ps = 1..(l + 1)
      /\ \A k \in 1..(l + 1) : HasBlock(v.entries, ps[k].id, ps[k].name, 0, v.pending[k])
  BY <1>2, <1>3, <1>4, LenProperties, <1>1, ViewFields DEF Due, Pends
<1>6. PICK u : u = v.pending[1] /\ HasBlock(v.entries, h.result, h.name, 0, u)
  <2>1. PICK y, u : y = ps[1] /\ u = v.pending[1]
    OBVIOUS
  <2>2. 1 \in 1..(l + 1)
    BY <1>4
  <2>3. HasBlock(v.entries, y.id, y.name, 0, u)
    BY <1>5, <2>1, <2>2
  <2>4. y.id = h.result /\ y.name = h.name
    BY <1>1, <1>3, <2>1, TagsAre
  <2> QED BY <2>1, <2>3, <2>4
<1>7. PICK j \in DOMAIN v.entries : /\ v.entries[j].kind = "block" /\ v.entries[j].id = h.result
                                    /\ v.entries[j].name = h.name /\ v.entries[j].uid = u
  BY <1>6 DEF HasBlock
<1>8. Shows!PendingOf(v, h.name) # {}
  <2>1. Has(v.entries, u, "block")
    BY <1>7 DEF Has
  <2>2. Shows!Place(v, u) = j
    BY <1>1, <1>7, <2>1, PlaceIs
  <2>3. Shows!NameOf(v, v.pending[1]) = h.name
    BY <1>6, <1>7, <2>2 DEF Shows!NameOf
  <2>4. 1 \in DOMAIN v.pending
    BY <1>4, <1>5
  <2> QED BY <2>3, <2>4 DEF Shows!PendingOf
<1>9. w.reply = v.reply /\ \E k, i : TakenBy(v, h, w, k, i)
  BY <1>1, <1>8, ObservedIs
<1>10. PICK k, i : TakenBy(v, h, w, k, i)
  BY <1>9
<1>11. k = 1
  <2>1. 1 \in DOMAIN v.pending /\ k \in 1..(l + 1)
    BY <1>4, <1>5, <1>10 DEF TakenBy
  <2>2. k <= 1
    BY <1>6, <1>7, <1>10, <2>1 DEF TakenBy
  <2> QED BY <1>4, <2>1, <2>2
<1>12. /\ i = j /\ w.pending = Shows!RemoveAt(v.pending, 1) /\ Completes(v.entries, i, h.result, w.entries)
  <2>1. i \in DOMAIN v.entries /\ v.entries[i].uid = u
    BY <1>6, <1>10, <1>11 DEF TakenBy
  <2>2. v.entries \in Seq(Entries)
    BY <1>1, ViewFields
  <2> QED BY <1>1, <1>7, <1>10, <1>11, <2>1, <2>2, UidsDiffer DEF TakenBy
<1>13. PICK es, e2, n0, a0 : es = v.entries /\ e2 = w.entries /\ n0 = h.result /\ a0 = h.name
  OBVIOUS
<1>14. /\ es \in Seq(Entries) /\ UidsRise(es) /\ j \in DOMAIN es /\ es[j].kind = "block" /\ es[j].id = n0
       /\ es[j].name = a0 /\ es[j].uid = u /\ Completes(es, j, n0, e2)
  BY <1>1, <1>7, <1>12, <1>13, ViewFields
<1>15. /\ Sketch(e2) = Sketch(es)
       /\ \A n, a, r, x : HasBlock(e2, n, a, r, x) <=>
            \/ HasBlock(es, n, a, r, x) /\ x # u
            \/ n = n0 /\ a = a0 /\ r = n0 /\ x = u
  BY <1>14, TakenSketch
<1>16. Takes(v, w, h.result, h.name, u)
  BY <1>6, <1>13, <1>15 DEF Takes
<1>17. Pends(w, p2)
  <2>1. PICK us, u2 : us = v.pending /\ u2 = w.pending
    OBVIOUS
  <2>2. us \in Seq(Nat) /\ Len(us) = l + 1 /\ u2 = Shows!RemoveAt(us, 1) /\ 1 \in 1..Len(us)
    BY <1>1, <1>4, <1>5, <1>12, <2>1, ViewFields
  <2>3. Len(u2) = l /\ \A c \in 1..l : u2[c] = us[c + 1]
    <3>1. (l + 1) - 1 = l /\ \A c \in 1..l : ~(c < 1)
      BY <1>4
    <3>2. /\ Len(Shows!RemoveAt(us, 1)) = Len(us) - 1
          /\ \A c \in 1..(Len(us) - 1) : Shows!RemoveAt(us, 1)[c] = IF c < 1 THEN us[c] ELSE us[c + 1]
      BY <2>2, Removed
    <3> QED BY <2>2, <3>1, <3>2
  <2>4. ASSUME NEW c \in 1..l
        PROVE  HasBlock(w.entries, p2[c].id, p2[c].name, 0, w.pending[c])
    <3>1. PICK y, x : y = p2[c] /\ x = w.pending[c]
      OBVIOUS
    <3>2. 1 \in 1..(l + 1) /\ c + 1 \in 1..(l + 1) /\ 1 < c + 1
      BY <1>4
    <3>3. y = ps[c + 1] /\ x = us[c + 1]
      BY <1>3, <1>4, <2>1, <2>3, <3>1
    <3>4. HasBlock(es, y.id, y.name, 0, x)
      BY <1>5, <1>13, <2>1, <3>2, <3>3
    <3>5. us[1] < us[c + 1] /\ us[1] \in Nat
      BY <1>1, <1>5, <2>1, <2>2, <3>2, ElementOfSeq DEF PendingOk
    <3>6. x # u
      BY <1>6, <2>1, <3>3, <3>5
    <3>7. HasBlock(w.entries, y.id, y.name, 0, x)
      BY <1>13, <1>15, <3>4, <3>6
    <3> QED BY <3>1, <3>7
  <2> QED BY <1>3, <1>4, <2>1, <2>3, <2>4 DEF Pends
<1>18. Waits(w, t, bs, st)
  <2>1. Due(w, t, bs, p2, rest, st)
    BY <1>2, <1>3, <1>17, AwaitsHandled
  <2> QED BY <2>1 DEF Waits
<1>19. ReplyLast(v) => ReplyLast(w)
  <2>1. PICK m \in Nat : m = Len(es) /\ DOMAIN es = 1..m /\ m # 0
    BY <1>14, LenProperties
  <2>2. m \in DOMAIN es /\ Len(e2) = m
    BY <1>14, <2>1 DEF Completes
  <2>3. e2[m].uid = es[m].uid
    BY <1>14, <2>2 DEF Completes
  <2> QED BY <1>9, <1>13, <2>1, <2>2, <2>3 DEF ReplyLast
<1> QED BY <1>9, <1>13, <1>15, <1>16, <1>18, <1>19

(* As calls rise, that is the block of no other call.                       *)
LEMMA ResultsTaken ==
  ASSUME NEW v, NEW es \in Seq(Entries), es = v.entries, NEW qs \in Seq(PostTypes), NEW ms, ResultsOk(es, qs, ms),
         Rising(Cat(Sketch(es), FlatMap(QSkel, qs))),
         NEW h, NEW t, Loses(qs, h, t), h.kind = "outcome", NEW w, NEW u, Takes(v, w, h.result, h.name, u),
         NEW e2, e2 = w.entries
  PROVE  ResultsOk(e2, t, ms)
<1>1. PICK n0, a0 : n0 = h.result /\ a0 = h.name
  OBVIOUS
<1>2. /\ HasBlock(es, n0, a0, 0, u)
      /\ \A n, a, r, x : HasBlock(e2, n, a, r, x) <=>
           \/ HasBlock(es, n, a, r, x) /\ x # u
           \/ n = n0 /\ a = a0 /\ r = n0 /\ x = u
  BY <1>1 DEF Takes
<1>3. \A n : Reported(qs, n) <=> n = n0 \/ Reported(t, n)
  BY <1>1, ReportedTail
<1>4. ResultIn(ms, n0) /\ n0 # 0 /\ \A i \in DOMAIN t : \E j \in DOMAIN qs : qs[j] = t[i]
  <2>1. PICK j \in DOMAIN qs : qs[j] = h
    BY LosesIs
  <2> QED BY <1>1, <1>2, <2>1, LosesIs DEF ResultsOk
<1>5. PICK s \in Seq(Marks), q \in Seq(Marks) : s = Sketch(es) /\ q = FlatMap(QSkel, qs)
  BY QSkelMakes, FlatMapType, SketchIs
<1>6. Rising(s) /\ \A m, n \in Nat : Calls(s, m) /\ Calls(q, n) => m < n
  BY <1>5, RisingCat
<1>7. \A n, a, r, x : HasBlock(es, n, a, r, x) => n \in Nat /\ Calls(s, n)
  <2>1. ASSUME NEW n, NEW a, NEW r, NEW x, HasBlock(es, n, a, r, x)
        PROVE  n \in Nat /\ Calls(s, n)
    <3>1. PICK i \in DOMAIN es : es[i].kind = "block" /\ es[i].id = n
      BY <2>1 DEF HasBlock
    <3>2. n \in Nat
      BY <3>1, LenProperties, ElementOfSeq, EntryFields
    <3> QED BY <1>5, <3>1, <3>2, SketchCalls
  <2> QED BY <2>1
<1>8. ASSUME NEW n, NEW a, NEW r, NEW x, HasBlock(e2, n, a, r, x)
      PROVE  /\ n # 0 /\ r \in {0, n}
             /\ r # 0 => ResultIn(ms, n)
             /\ (r = 0 /\ ResultIn(ms, n)) => Reported(t, n)
  <2>1. CASE HasBlock(es, n, a, r, x) /\ x # u
    BY <1>2, <1>5, <1>6, <1>7, <2>1, BlocksDiffer, <1>3 DEF ResultsOk
  <2>2. CASE n = n0 /\ a = a0 /\ r = n0 /\ x = u
    BY <1>4, <2>2
  <2> QED BY <1>2, <1>8, <2>1, <2>2
<1>9. ASSUME NEW i \in DOMAIN t, t[i].kind = "announce"
      PROVE  t[i].id # 0 /\ (ResultIn(ms, t[i].id) => Reported(t, t[i].id))
  <2>1. PICK p, j : j \in DOMAIN qs /\ qs[j] = t[i] /\ p = qs[j]
    BY <1>4, <1>9
  <2>2. p \in PostTypes /\ p.id \in Nat /\ p.kind = "announce"
    <3>1. \A c \in DOMAIN qs : qs[c] \in PostTypes
      BY LenProperties, ElementOfSeq
    <3> QED BY <1>9, <2>1, <3>1 DEF PostTypes
  <2>3. QSkel[p] = <<<<"call", p.id>>>>
    BY <2>2 DEF QSkel
  <2>4. In(<<"call", p.id>>, QSkel[qs[j]])
    BY <2>1, <2>3, InOne
  <2>5. Calls(q, p.id)
    <3>1. PICK y : y = <<"call", p.id>> /\ In(y, QSkel[qs[j]])
      BY <2>4
    <3>2. In(y, FlatMap(QSkel, qs))
      BY <2>1, <3>1, QSkelMakes, FlatMapRange
    <3> QED BY <1>5, <3>1, <3>2 DEF Calls
  <2>6. p.id # n0
    BY <1>2, <1>6, <1>7, <2>2, <2>5
  <2> QED BY <1>3, <2>1, <2>2, <2>6 DEF ResultsOk
<1>10. \A i \in DOMAIN t : t[i].kind = "outcome" => ResultIn(ms, t[i].result)
  BY <1>4 DEF ResultsOk
<1> QED BY <1>8, <1>9, <1>10 DEF ResultsOk

(* A call's outcome is shown.                                               *)
LEMMA KeptOutcome ==
  ASSUME TypesInv, ConvInv, KeptInv, Shows!OnOutcome
  PROVE  KeptInv'
<1>1. PICK v, w, es, e2, qs, t, h, ms, bs, st, x :
        /\ v = view /\ w = view' /\ qs = posted /\ t = posted' /\ h = Head(posted) /\ es = v.entries
        /\ ms = messages /\ bs = batch /\ st = stage /\ e2 = w.entries /\ x = Being(stage, partial)
  OBVIOUS
<1>2. /\ ViewOk(v) /\ v \in Views /\ qs \in Seq(PostTypes) /\ bs \in Seq(Shows!Call)
      /\ es \in Seq(Entries) /\ ms \in Seq(Msgs) /\ x \in Seq(Marks)
  BY <1>1, ViewFields, BeingIs DEF TypesInv, ViewOk
<1>3. /\ v.reply # 0 => ReplyLast(v)
      /\ ResultsOk(es, qs, ms) /\ Waits(v, qs, bs, st) /\ Tells(es, qs, ms, x)
  BY <1>1 DEF KeptInv
<1>4. Shows!Handle("outcome") /\ w = Shows!Observed(v, h) /\ TypesInv'
  BY <1>1, OnOutcomeStep DEF Shows!OnOutcome
<1>5. Loses(qs, h, t) /\ h \in PostTypes /\ h.kind = "outcome"
  BY <1>1, <1>4, HandleStep DEF Loses
<1>6. /\ Waits(w, t, bs, st) /\ Sketch(w.entries) = Sketch(v.entries)
      /\ w.reply = v.reply /\ (ReplyLast(v) => ReplyLast(w))
      /\ \E u : Takes(v, w, h.result, h.name, u)
  BY <1>2, <1>3, <1>4, <1>5, OutcomeTakes
<1>7. PICK u : Takes(v, w, h.result, h.name, u)
  BY <1>6
<1>8. Rising(Cat(Sketch(es), FlatMap(QSkel, qs)))
  <2>1. PICK g \in Seq(Marks) : g = Gist(ms)
    BY <1>2, GistIs
  <2>2. Rising(g)
    BY <1>1, <2>1 DEF ConvInv, MsgsOk
  <2>3. Rising(x) /\ \A n : ~Calls(x, n)
    <3>1. CASE st = "stream"
      BY <1>1, <3>1, BeingIs, TextCallsNothing DEF TypesInv
    <3>2. CASE st # "stream"
      BY <1>1, <3>2 DEF Being, Rising, Calls, In
    <3> QED BY <3>1, <3>2
  <2>4. Rising(Cat(g, x))
    BY <1>2, <2>2, <2>3, RisingCat
  <2> QED BY <1>3, <2>1, <2>4 DEF Tells
<1>9. ResultsOk(e2, t, ms)
  BY <1>1, <1>2, <1>3, <1>5, <1>7, <1>8, ResultsTaken
<1>10. Sketch(w.entries) = Cat(Sketch(view.entries), QSkel[h])
  <2>1. QSkel[h] = <<>>
    BY <1>5 DEF QSkel
  <2>2. PICK s \in Seq(Marks) : s = Sketch(es)
    BY <1>2, SketchIs
  <2>3. Cat(s, <<>>) = s
    BY CatProperties
  <2> QED BY <1>1, <1>6, <2>1, <2>2, <2>3
<1>11. /\ w = view' /\ h = Head(posted) /\ ResultsOk(w.entries, posted', messages)
       /\ w.reply # 0 => ReplyLast(w)
       /\ Waits(w, posted', batch, stage)
  BY <1>1, <1>3, <1>6, <1>9
<1> QED BY <1>4, <1>10, <1>11, KeptHandled

(* While nothing is posted or said, the entries tell the messages.          *)
LEMMA NothingPosted ==
  ASSUME NEW es \in Seq(Entries), NEW ms \in Seq(Msgs)
  PROVE  Tells(es, <<>>, ms, <<>>) <=> Sketch(es) = Gist(ms)
<1>1. PICK s \in Seq(Marks), g \in Seq(Marks) : s = Sketch(es) /\ g = Gist(ms)
  BY SketchIs, GistIs
<1>2. FlatMap(QSkel, <<>>) = <<>>
  <2>1. <<>> \in Seq(PostTypes) /\ DOMAIN <<>> = {}
    OBVIOUS
  <2> QED BY <2>1, QSkelMakes, FlatMapNone
<1>3. Cat(s, <<>>) = s /\ Cat(g, <<>>) = g
  BY CatProperties
<1> QED BY <1>1, <1>2, <1>3 DEF Tells

(* Then a block shows what there is to show.                                *)
LEMMA ResultsNow ==
  ASSUME NEW es
  PROVE  ResultsOk(es, <<>>, messages) <=> \A i \in DOMAIN es : TellsNow(es[i])
<1>1. DOMAIN <<>> = {} /\ \A n : ~Reported(<<>>, n)
  BY DEF Reported
<1>2. \A n : ResultNow(n) = IF ResultIn(messages, n) THEN n ELSE 0
  BY DEF ResultNow, ResultIn, Shows!Answered
<1>3. ASSUME ResultsOk(es, <<>>, messages), NEW i \in DOMAIN es, es[i].kind = "block"
      PROVE  es[i].id # 0 /\ es[i].result = ResultNow(es[i].id)
  <2>1. PICK n, r : n = es[i].id /\ r = es[i].result
    OBVIOUS
  <2>2. HasBlock(es, n, es[i].name, r, es[i].uid)
    BY <1>3, <2>1 DEF HasBlock
  <2>3. n # 0 /\ r \in {0, n} /\ (r # 0 => ResultIn(messages, n)) /\ ~(r = 0 /\ ResultIn(messages, n))
    BY <1>1, <1>3, <2>2 DEF ResultsOk
  <2> QED BY <1>2, <2>1, <2>3
<1>4. ASSUME \A i \in DOMAIN es : TellsNow(es[i]), NEW n, NEW a, NEW r, NEW u, HasBlock(es, n, a, r, u)
      PROVE  n # 0 /\ r \in {0, n} /\ (r # 0 => ResultIn(messages, n)) /\ ~(r = 0 /\ ResultIn(messages, n))
  BY <1>4, <1>2 DEF HasBlock, TellsNow
<1>5. (\A i \in DOMAIN es : TellsNow(es[i])) => ResultsOk(es, <<>>, messages)
  BY <1>1, <1>4 DEF ResultsOk
<1>6. ResultsOk(es, <<>>, messages) => \A i \in DOMAIN es : TellsNow(es[i])
  BY <1>3 DEF TellsNow
<1> QED BY <1>5, <1>6

(* An empty transcript tells an empty conversation.                         *)
LEMMA EmptyTells ==
  /\ Shows!Empty.entries \in Seq(Entries) /\ Sketch(Shows!Empty.entries) = Gist(<<>>)
  /\ ResultsOk(Shows!Empty.entries, <<>>, <<>>)
<1>1. PICK x, es : x \in Entries /\ x.kind = "note" /\ es = Shows!Empty.entries /\ es = <<x>>
  BY EmptyOk
<1>2. es \in Seq(Entries) /\ DOMAIN es = {1} /\ es[1] = x
  BY <1>1
<1>3. Sketch(es) = ESkel[x]
  BY <1>1, ESkelMakes, FlatMapOne DEF Sketch
<1>4. ESkel[x] = <<>>
  BY <1>1, ESkelIs
<1>5. Gist(<<>>) = <<>>
  BY EmptySeq, GistIs
<1>6. \A n, a, r, u : ~HasBlock(es, n, a, r, u)
  BY <1>1, <1>2 DEF HasBlock
<1>7. DOMAIN <<>> = {}
  OBVIOUS
<1> QED BY <1>1, <1>2, <1>3, <1>4, <1>5, <1>6, <1>7 DEF ResultsOk

(* A line is submitted, the transcript written anew, loaded or cleared.     *)
LEMMA KeptSubmit ==
  ASSUME TypesInv, PromptInv, ConvInv, KeptInv, Shows!Submit
  PROVE  KeptInv'
<1>1. /\ stage = "idle" /\ posted = <<>> /\ stage' = "stream" /\ partial' = <<>> /\ posted' = <<>>
      /\ batch' = batch /\ TypesInv'
  BY SubmitStep
<1>2. /\ view.pending = <<>> /\ view.reply = 0 /\ batch = <<>> /\ ViewOk(view) /\ view.buf = <<>>
  BY <1>1 DEF PromptInv, TypesInv, ViewOk, EntriesOk
<1>3. PICK v, w, es, e2, ms, m2 : /\ v = view /\ w = view' /\ es = v.entries /\ e2 = w.entries
                                  /\ ms = messages /\ m2 = messages'
  OBVIOUS
<1>4. PICK e \in Entries : e.kind = "user" /\ Writes(v, e, w)
  BY <1>2, <1>3, SubmitStep
<1>5. Sketch(e2) = Sketch(es) /\ SameBlocks(es, e2)
  BY <1>2, <1>3, <1>4, NotedSketch
<1>6. w.pending = <<>> /\ w.reply = 0
  BY <1>2, <1>3, <1>4, WithEntryIs DEF ViewOk
<1>7. Gist(m2) = Gist(ms) /\ \A n : ResultIn(m2, n) <=> ResultIn(ms, n)
  BY <1>3, SubmitConv
<1>8. es \in Seq(Entries) /\ e2 \in Seq(Entries) /\ ms \in Seq(Msgs) /\ m2 \in Seq(Msgs)
  BY <1>1, <1>2, <1>3, ViewFields DEF TypesInv, ViewOk
<1>9. Being(stage, partial) = <<>> /\ Being(stage', partial') = <<>>
  BY <1>1, LinesNone DEF Being
<1>10. Tells(es, <<>>, ms, <<>>) /\ ResultsOk(es, <<>>, ms)
  BY <1>1, <1>3, <1>9 DEF KeptInv
<1>11. Tells(e2, <<>>, m2, <<>>)
  BY <1>5, <1>7, <1>8, <1>10, NothingPosted
<1>12. ResultsOk(e2, <<>>, m2)
  BY <1>5, <1>7, <1>10 DEF ResultsOk, SameBlocks
<1>13. Waits(w, <<>>, <<>>, stage')
  BY <1>6, NoneWaits
<1> QED BY <1>1, <1>2, <1>3, <1>6, <1>9, <1>11, <1>12, <1>13 DEF KeptInv

(* The details are shown or hidden.                                         *)
LEMMA KeptToggle ==
  ASSUME TypesInv, KeptInv, Shows!Toggle
  PROVE  KeptInv'
<1>1. PICK v, w, qs, bs, st : v = view /\ w = view' /\ qs = posted /\ bs = batch /\ st = stage
  OBVIOUS
<1>2. UNCHANGED <<messages, stage, partial, batch, posted>> /\ w = Shows!Rerendered(v)
  BY <1>1, ToggleStep
<1>3. w.entries = v.entries /\ w.reply = v.reply /\ w.pending = v.pending
  BY <1>1, <1>2, RerenderedIs DEF TypesInv, ViewOk
<1>4. Waits(v, qs, bs, st)
  BY <1>1 DEF KeptInv
<1>5. Waits(w, qs, bs, st)
  BY <1>3, <1>4 DEF Waits, Due, Pends
<1> QED BY <1>1, <1>2, <1>3, <1>5 DEF KeptInv, ReplyLast

(* A saved conversation is loaded.                                          *)
LEMMA KeptLoad ==
  ASSUME TypesInv, ConvInv, Shows!LoadSession
  PROVE  KeptInv'
<1>1. /\ stage = "idle" /\ posted = <<>> /\ UNCHANGED <<messages, stage, partial, batch, posted>> /\ TypesInv'
  BY LoadSessionStep
<1>2. PICK s, all : /\ s \in Seq(Entries) /\ Len(s) = 1 /\ s[1].kind = "note"
                    /\ all \in Seq(Entries) /\ all = Cat(Cat(s, FlatMap(Rebuilds, messages)), s)
                    /\ view' = Loaded(all)
  BY LoadSessionStep
<1>3. PICK w, es, ms, k : w = view' /\ es = w.entries /\ ms = messages /\ k = made
  OBVIOUS
<1>4. ms \in Seq(Msgs) /\ MsgsOk(ms, k) /\ w = Loaded(all) /\ all = Cat(Cat(s, FlatMap(Rebuilds, ms)), s)
  BY <1>2, <1>3 DEF TypesInv, ConvInv
<1>5. Sketch(es) = Gist(ms) /\ \A i \in DOMAIN es : TellsNow(es[i])
  BY <1>2, <1>3, <1>4, LoadedSketch
<1>6. w.pending = <<>> /\ w.reply = 0 /\ es \in Seq(Entries)
  BY <1>2, <1>4, LoadedIs, <1>3, ViewFields DEF ViewOk
<1>7. Tells(es, <<>>, ms, <<>>) /\ ResultsOk(es, <<>>, messages)
  BY <1>4, <1>5, <1>6, NothingPosted, ResultsNow
<1>8. batch = <<>> /\ Being(stage, partial) = <<>>
  BY <1>1 DEF TypesInv, Being
<1>9. Waits(w, <<>>, <<>>, stage)
  BY <1>6, NoneWaits
<1> QED BY <1>1, <1>3, <1>6, <1>7, <1>8, <1>9 DEF KeptInv

(* The conversation is cleared.                                             *)
LEMMA KeptClear ==
  ASSUME TypesInv, Shows!Clear
  PROVE  KeptInv'
<1>1. /\ stage = "idle" /\ posted = <<>> /\ UNCHANGED <<stage, partial, batch, posted>>
      /\ messages' = <<>> /\ view' = Shows!Empty
  BY ClearStep
<1>2. PICK w, es : w = Shows!Empty /\ es = w.entries
  OBVIOUS
<1>3. w.pending = <<>> /\ w.reply = 0
  BY <1>2, EmptyOk
<1>4. es \in Seq(Entries) /\ Sketch(es) = Gist(<<>>) /\ ResultsOk(es, <<>>, <<>>)
  BY <1>2, EmptyTells
<1>5. Tells(es, <<>>, <<>>, <<>>)
  <2>1. <<>> \in Seq(Msgs)
    OBVIOUS
  <2> QED BY <1>4, <2>1, NothingPosted
<1>6. batch = <<>> /\ Being(stage, partial) = <<>>
  BY <1>1 DEF TypesInv, Being
<1>7. Waits(w, <<>>, <<>>, stage)
  BY <1>3, NoneWaits
<1> QED BY <1>1, <1>2, <1>3, <1>4, <1>5, <1>6, <1>7 DEF KeptInv

(* The transcript is faithful at the start, and every step keeps it so.     *)
LEMMA FaithAtStart ==
  ASSUME Shows!Init
  PROVE  FaithInv
<1>1. /\ messages = <<>> /\ stage = "idle" /\ contStart = 0 /\ batch = <<>> /\ posted = <<>>
      /\ view = Shows!Empty /\ made = 0
  BY DEF Shows!Init
<1>2. PICK w, es : w = Shows!Empty /\ es = w.entries
  OBVIOUS
<1>3. w.pending = <<>> /\ w.reply = 0
  BY <1>2, EmptyOk
<1>4. es \in Seq(Entries) /\ Sketch(es) = Gist(<<>>) /\ ResultsOk(es, <<>>, <<>>)
  BY <1>2, EmptyTells
<1>5. Tells(es, <<>>, <<>>, <<>>)
  <2>1. <<>> \in Seq(Msgs)
    OBVIOUS
  <2> QED BY <1>4, <2>1, NothingPosted
<1>6. Being(stage, partial) = <<>> /\ Waits(w, <<>>, <<>>, stage)
  BY <1>1, <1>3, NoneWaits DEF Being
<1>7. KeptInv
  BY <1>1, <1>2, <1>3, <1>4, <1>5, <1>6 DEF KeptInv
<1>8. DOMAIN <<>> = {} /\ 0 \in Nat
  OBVIOUS
<1>9. ConvInv
  BY <1>1, <1>8, NothingSaid DEF ConvInv
<1> QED BY <1>7, <1>9, LogAtStart DEF FaithInv

(* Every step numbers the calls as they are made.                           *)
LEMMA ConvStep ==
  ASSUME TypesInv, ConvInv, Shows!Next
  PROVE  ConvInv'
<1>1. CASE Shows!Submit \/ Shows!Answer \/ Shows!Continue \/ Shows!Observe
  BY <1>1, SubmitConv, AnswerConv, ContinueConv, ObserveConv
<1>2. ASSUME NEW sort \in {"blank", "plain", "marked"}, Shows!Say(sort)
      PROVE  ConvInv'
  BY <1>2, SayStep, ConvRests
<1>3. ASSUME NEW cs \in Shows!Batches, said + made + turns + Len(cs) <= MaxParts, Shows!CallTools(cs)
      PROVE  ConvInv'
  BY <1>3, CallToolsConv
<1>4. ASSUME NEW cancelled \in BOOLEAN, Shows!Stop(cancelled)
      PROVE  ConvInv'
  BY <1>4, StopStep, ConvRests
<1>5. CASE Shows!OnDelta \/ Shows!OnAnnounce \/ Shows!OnOutcome \/ Shows!OnNotice \/ Shows!OnDone
  <2>1. PICK kind : Shows!Handle(kind)
    BY <1>5 DEF Shows!OnDelta, Shows!OnAnnounce, Shows!OnOutcome, Shows!OnNotice, Shows!OnDone
  <2> QED BY <2>1, HandleStep, ConvRests
<1>6. CASE Shows!Toggle \/ Shows!LoadSession
  BY <1>6, ToggleStep, LoadSessionStep, ConvRests
<1>7. CASE Shows!Clear
  BY <1>7, ClearStep, NothingSaid DEF TypesInv, ConvInv
<1> QED BY <1>1, <1>2, <1>3, <1>4, <1>5, <1>6, <1>7 DEF Shows!Next

(* Every step keeps what the entries tell.                                  *)
LEMMA KeptStep ==
  ASSUME TypesInv, PromptInv, ConvInv, kept => KeptInv, Shows!Next, kept'
  PROVE  KeptInv'
<1>1. CASE Shows!Submit
  BY <1>1, SubmitStep, KeptSubmit
<1>2. CASE Shows!Answer \/ Shows!Continue
  BY <1>2, AnswerStep, ContinueStep, KeptSpeaks
<1>3. CASE Shows!Observe
  BY <1>3, ObserveStep, KeptObserve
<1>4. ASSUME NEW sort \in {"blank", "plain", "marked"}, Shows!Say(sort)
      PROVE  KeptInv'
  BY <1>4, SayStep, KeptSpeaks
<1>5. ASSUME NEW cs \in Shows!Batches, said + made + turns + Len(cs) <= MaxParts, Shows!CallTools(cs)
      PROVE  KeptInv'
  BY <1>5, CallToolsStep, KeptCalls
<1>6. ASSUME NEW cancelled \in BOOLEAN, Shows!Stop(cancelled)
      PROVE  KeptInv'
  BY <1>6, StopStep, KeptStop
<1>7. CASE Shows!OnDelta \/ Shows!OnAnnounce \/ Shows!OnOutcome \/ Shows!OnNotice \/ Shows!OnDone
  <2>1. PICK kind : Shows!Handle(kind)
    BY <1>7 DEF Shows!OnDelta, Shows!OnAnnounce, Shows!OnOutcome, Shows!OnNotice, Shows!OnDone
  <2>2. kept
    BY <2>1, HandleStep
  <2> QED BY <1>7, <2>2, KeptShown, KeptOutcome
<1>8. CASE Shows!Toggle
  BY <1>8, ToggleStep, KeptToggle
<1>9. CASE Shows!LoadSession \/ Shows!Clear
  BY <1>9, KeptLoad, KeptClear
<1> QED BY <1>1, <1>2, <1>3, <1>4, <1>5, <1>6, <1>7, <1>8, <1>9 DEF Shows!Next

(* Every step keeps the transcript faithful.                                *)
LEMMA FaithStep ==
  ASSUME FaithInv, [Shows!Next]_showVars
  PROVE  FaithInv'
<1>1. LogInv' /\ TypesInv /\ PromptInv /\ ConvInv
  BY LogStep DEF FaithInv, LogInv
<1>2. CASE UNCHANGED showVars
  BY <1>1, <1>2 DEF ConvInv, showVars, FaithInv, KeptInv
<1>3. CASE Shows!Next
  BY <1>1, <1>3, ConvStep, KeptStep DEF FaithInv
<1> QED BY <1>2, <1>3

(* The blocks, the log and a resumed conversation then are what they should *)
(* be.                                                                      *)
LEMMA FaithSound ==
  ASSUME FaithInv
  PROVE  TranscriptIsFaithful
<1>1. TypesInv /\ PromptInv /\ ConvInv /\ LogInv
  BY DEF FaithInv, LogInv
<1>2. PICK es, ms, k : es = view.entries /\ ms = messages /\ k = made
  OBVIOUS
<1>3. es \in Seq(Entries) /\ ms \in Seq(Msgs) /\ MsgsOk(ms, k)
  BY <1>1, <1>2, ViewFields DEF TypesInv, ViewOk, ConvInv
<1>4. Shows!BlocksTellTheirOwnResult
  <2> SUFFICES ASSUME kept, NEW i \in DOMAIN es, es[i].kind = "block", es[i].result # 0
               PROVE  es[i].result = es[i].id
    BY <1>2 DEF Shows!BlocksTellTheirOwnResult, Shows!NoId
  <2>1. HasBlock(es, es[i].id, es[i].name, es[i].result, es[i].uid)
    BY DEF HasBlock
  <2>2. ResultsOk(es, posted, ms)
    BY <1>2 DEF FaithInv, KeptInv
  <2>3. es[i].result \in {0, es[i].id}
    BY <2>1, <2>2 DEF ResultsOk
  <2> QED BY <2>3
<1>5. Shows!ResumeShowsTheSame
  <2> SUFFICES ASSUME Shows!AtPrompt, kept
               PROVE  Shows!Shown(view.entries) = Shows!Shown(Shows!EntriesFor)
    BY DEF Shows!ResumeShowsTheSame
  <2>1. posted = <<>> /\ stage = "idle" /\ KeptInv
    BY DEF Shows!AtPrompt, FaithInv
  <2>2. Tells(es, <<>>, ms, <<>>) /\ ResultsOk(es, <<>>, messages)
    BY <1>2, <2>1 DEF KeptInv, Being
  <2>3. PICK s \in Seq(Marks) : s = Gist(ms)
    BY <1>3, GistIs
  <2>4. Sketch(es) = s /\ \A i \in DOMAIN es : TellsNow(es[i])
    BY <1>3, <2>2, <2>3, NothingPosted, ResultsNow
  <2>5. PICK fs \in Seq(Entries) : fs = FlatMap(Rebuilds, ms) /\ Sketch(fs) = s
    BY <1>3, <2>3, ConversationSketch
  <2>6. fs = Shows!EntriesFor
    BY <1>2, <1>3, <2>5, EntriesForIs
  <2>7. ASSUME NEW i \in DOMAIN fs PROVE TellsNow(fs[i])
    <3>1. PICK y : y = fs[i]
      OBVIOUS
    <3>2. In(y, FlatMap(Rebuilds, ms))
      BY <2>5, <3>1 DEF In
    <3> QED BY <1>3, <3>1, <3>2, RebuiltTells
  <2>8. Shows!Shown(es) = FlatMap(MarkTells, s) /\ Shows!Shown(fs) = FlatMap(MarkTells, s)
    BY <1>3, <2>4, <2>5, <2>7, ShownIs
  <2> QED BY <1>2, <2>6, <2>8
<1> QED BY <1>1, <1>4, <1>5, LogSound DEF TranscriptIsFaithful

-----------------------------------------------------------------------------
(* A behaviour of the app is, to the model switch, one of its own.          *)
THEOREM ModelIsComposed == AppSpec => Spec
<1>1. AppInit => Init
  BY DEF AppInit
<1>2. [ModelSteps \/ TranscriptSteps]_<<focus, vars, showVars>> => [Next]_vars
  BY DEF ModelSteps, TranscriptSteps
<1> QED BY <1>1, <1>2, PTL DEF AppSpec, Spec

(* While the app is in focus, the transcript has its types; while the       *)
(* choice of a model is, it rests.                                          *)
LEMMA TypesAlways == AppSpec => []TypesInv
<1>1. AppInit => TypesInv
  BY TranscriptInit DEF AppInit
<1>2. TypesInv /\ [ModelSteps \/ TranscriptSteps]_<<focus, vars, showVars>> => TypesInv'
  <2>1. [ModelSteps \/ TranscriptSteps]_<<focus, vars, showVars>> => [Shows!Next]_showVars
    BY DEF ModelSteps, TranscriptSteps
  <2> QED BY <2>1, TypesStep
<1> QED BY <1>1, <1>2, PTL DEF AppSpec

(* Every variable of the choice of a model and of the transcript has its    *)
(* type, in every state the app can be in.                                  *)
THEOREM AppTypeCorrect == AppSpec => []AppTypeOK
<1>1. TypesInv => Shows!TypeOK
  BY TypesSound
<1>2. AppSpec => []Shows!TypeOK
  BY <1>1, TypesAlways, PTL
<1>3. SwitchInv => TypeOK
  BY LenProperties DEF SwitchInv, SwitchTypes, ModelTypes, CatalogTypes, LineTypes, DialogTypes, TypeOK
<1>4. AppSpec => []TypeOK
  BY <1>3, ModelIsComposed, SwitchAlways, PTL
<1> QED BY <1>2, <1>4, PTL DEF AppTypeOK

(* While the app is in focus, the transcript says what happened.            *)
LEMMA FaithAlways == AppSpec => []FaithInv
<1>1. AppInit => FaithInv
  BY FaithAtStart DEF AppInit
<1>2. FaithInv /\ [ModelSteps \/ TranscriptSteps]_<<focus, vars, showVars>> => FaithInv'
  <2>1. [ModelSteps \/ TranscriptSteps]_<<focus, vars, showVars>> => [Shows!Next]_showVars
    BY DEF ModelSteps, TranscriptSteps
  <2> QED BY <2>1, FaithStep
<1> QED BY <1>1, <1>2, PTL DEF AppSpec

(* A block shows the result of the call it names and of no other, the log   *)
(* shows the entries, and a conversation that is resumed shows what it      *)
(* showed while it was had (app.py, turn_bridge.py).                        *)
THEOREM TranscriptStaysFaithful == AppSpec => []TranscriptIsFaithful
<1>1. FaithInv => TranscriptIsFaithful
  BY FaithSound
<1> QED BY <1>1, FaithAlways, PTL
=============================================================================
