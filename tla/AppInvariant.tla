----------------------------- MODULE AppInvariant -----------------------------
(***************************************************************************)
(* The inductive invariants behind the theorems of AppProofs, and what     *)
(* they are said with.  SwitchInv is about the choice of a model; FaithInv *)
(* is about the transcript, and is made of                                 *)
(*   LogInv    the log is in order and shows every entry it should,        *)
(*   ConvInv   the calls of the conversation are numbered as they are made,*)
(*   KeptInv   the entries, then what is posted, tell what the messages    *)
(*             and the reply that is being said tell; a block shows the    *)
(*             result of its own call; and the calls that wait for one are *)
(*             answered in the order they were announced in.               *)
(***************************************************************************)
EXTENDS MCApp

Purposes == {"fallback", "picker", "manager"}
Message  == [name : Providers, entries : SUBSET Models, purpose : Purposes]

Line     == [line : 1..MaxUses, model : Models, name : Providers,
             under : Providers]

Screen   == [kind : {"rows", "save"}]
            \cup [kind : {"key", "catalog"}, name : Providers]
            \cup [kind : {"models"}, name : Providers, choices : SUBSET Ref]
            \cup [kind : {"test"}, name : Providers, failed : BOOLEAN,
                  key : Key \cup {NoKey}]

ModelTypes == provider \in Ref /\ turn \subseteq Ref

(* A catalog holds what its own provider lists.                             *)
CatalogTypes ==
  /\ cache \in [Providers -> SUBSET Models]
  /\ \A n \in Providers : cache[n] \subseteq Listing[n]
  /\ \A f \in fetching : f.name \in Providers /\ f.purpose \in Purposes
  /\ queue \in Seq(Message)
  /\ \A k \in 1..Len(queue) : queue[k].entries \subseteq Listing[queue[k].name]

LineTypes ==
  /\ uses \in 0..MaxUses /\ typed \subseteq 1..uses
  /\ answered \in [1..MaxUses -> {0, 1}]
  /\ inflight \subseteq Providers /\ pending \subseteq Line

(* A key is asked for only after a row was picked.                          *)
DialogTypes ==
  /\ chain \in [row : Providers \cup {NoRow}, key : Key \cup {NoKey},
                ref : SUBSET Ref]
  /\ keyring \in [Providers -> Key \cup {NoKey}]
  /\ screens \in Seq(Screen)
  /\ \A i \in 1..Len(screens) :
       screens[i].kind = "key" => chain.row \in Providers

SwitchTypes == ModelTypes /\ CatalogTypes /\ LineTypes /\ DialogTypes

(* A "/model" line waits under a number of its own, for a fetch that is     *)
(* under way, and has no answer; every other line has one.                  *)
Fetched(name) ==
  \/ \E f \in fetching : f.purpose = "fallback" /\ f.name = name
  \/ \E k \in 1..Len(queue) : queue[k].purpose = "fallback" /\ queue[k].name = name

Answers(line) == IF Waiting(line) \/ line \notin typed THEN 0 ELSE 1
LinesApart == \A v, w \in pending : v.line = w.line => v = w

WaitsAreFor ==
  \A w \in pending : /\ w.line \in typed /\ w.name \in inflight
                     /\ w.name = Adapter(w.under)

MarksAreFetched == \A name \in inflight : Fetched(name)
AnswersCounted == \A line \in 1..MaxUses : answered[line] = Answers(line)
PendingInv == LinesApart /\ WaitsAreFor /\ MarksAreFetched /\ AnswersCounted

(* A manager is one chain: a screen, or a fetch, or its answer, and all of  *)
(* them are about the row that was picked.  A second manager begins a chain *)
(* of its own, and is alone if nothing is left of the first.                *)
InChain(i) == screens[i].kind \in {"rows", "key", "catalog", "test"}

OneChain ==
  /\ \A i, j \in 1..Len(screens) : InChain(i) /\ InChain(j) => i = j
  /\ \A f, g \in fetching : f.purpose = "manager" /\ g.purpose = "manager" => f = g
  /\ \A j, k \in 1..Len(queue) :
       queue[j].purpose = "manager" /\ queue[k].purpose = "manager" => j = k
  /\ \A f \in fetching, k \in 1..Len(queue) :
       ~(f.purpose = "manager" /\ queue[k].purpose = "manager")
  /\ Awaits("manager") => \A i \in 1..Len(screens) : ~InChain(i)

(* A test takes the key of the chain.                                       *)
ScreenIsOfChain(s) ==
  /\ s.kind \in {"key", "catalog", "test"} => s.name = chain.row
  /\ s.kind = "test" /\ chain.key # NoKey => s.key = chain.key

ChainNames ==
  /\ \A i \in 1..Len(screens) : ScreenIsOfChain(screens[i])
  /\ \A f \in fetching : f.purpose = "manager" => f.name = chain.row
  /\ \A k \in 1..Len(queue) :
       queue[k].purpose = "manager" => queue[k].name = chain.row

KeysTested == \A n \in Providers \ Stored : Tested(n)
ChainInv == ~mixed => OneChain /\ ChainNames /\ KeysTested
SwitchInv == SwitchTypes /\ PendingInv /\ ChainInv

(* FlattenSeq.  Joins(ss, n, f) says that f[i] is what the first i of the   *)
(* sequences make, one after the other.                                     *)
Joins(ss, n, f) ==
  f = [i \in 1..n |-> IF i = 1 THEN ss[i] ELSE f[i - 1] \o ss[i]]

(* The function for one sequence more.                                      *)
OneMore(ss, n, tt, m) == n # 0 /\ m = n + 1 /\ \A i \in 1..n : ss[i] = tt[i]

(* Cat is concatenation, by a name the provers do not take apart.           *)
Cat(s, t) == s \o t

(* What a sequence makes when each of its elements makes a sequence.        *)
FlatMap(g, s) == Shows!FlattenSeq([i \in DOMAIN s |-> g[s[i]]])

(* Every element of T makes a sequence over R.                              *)
Makes(g, T, R) == g \in [T -> Seq(R)]

(* Parts of sequences, and what they make.                                  *)
In(y, s) == \E i \in DOMAIN s : s[i] = y

(* An element and what is on either side of it.                             *)
Before(s, i) == SubSeq(s, 1, i - 1)
Behind(s, i) == SubSeq(s, i + 1, Len(s))

(* What the transcript is made of.                                          *)
ToolNames == Names \cup {"none"}
Kinds     == {"user", "note", "reply", "block"}

Entries   == [kind : Kinds, pieces : Seq(Shows!Piece), id : Nat, name : ToolNames,
              result : Nat, uid : Nat]

(* What a log, or a summary of it, has lines of.                            *)
Marks == {<<k, n>> : k \in {"entry", "call", "result"}, n \in Nat}
         \cup {<<"text", p>> : p \in Shows!Piece}

Views == [entries : Seq(Entries), log : Seq(Marks), reply : Nat, pending : Seq(Nat),
          buf : Seq(Shows!Piece), next : Nat]

(* The lines of a text.                                                     *)
LineOf == [p \in Shows!Piece |-> IF p.sort = "blank" THEN <<>> ELSE <<<<"text", p>>>>]

(* The log that all entries make, but for those that are waited for.        *)
RenderOf(us) == [e \in Entries |-> IF Shows!Contains(us, e.uid) THEN <<>> ELSE Shows!Render(e)]

(* What holds of a view.  The entries are numbered as they come; the reply  *)
(* that streams is one of them, and so are the calls that are not observed, *)
(* in the order they were announced in.                                     *)
UidsRise(es)  == \A i, j \in DOMAIN es : i < j => es[i].uid < es[j].uid
Has(es, u, k) == \E i \in DOMAIN es : es[i].uid = u /\ es[i].kind = k

EntriesOk(v) ==
  /\ v.next # 0
  /\ \A i \in DOMAIN v.entries : v.entries[i].uid \in 1..(v.next - 1)
  /\ UidsRise(v.entries)
  /\ v.reply # 0 => Has(v.entries, v.reply, "reply")
  /\ v.reply = 0 => v.buf = <<>>

PendingOk(v) ==
  /\ \A k \in DOMAIN v.pending : Has(v.entries, v.pending[k], "block")
  /\ \A j, k \in DOMAIN v.pending : j < k => v.pending[j] < v.pending[k]

ViewOk(v) == v \in Views /\ EntriesOk(v) /\ PendingOk(v)

(* An entry as it is placed.                                                *)
SameBut(x, e, u) ==
  /\ x.kind = e.kind /\ x.pieces = e.pieces /\ x.id = e.id /\ x.name = e.name
  /\ x.result = e.result /\ x.uid = u

(* What _append_entry makes of a view, whether it writes the entry or only  *)
(* reserves its place.                                                      *)
Writes(v, e, w)   == w = Shows!WithEntry(v, e, TRUE)
Reserves(v, e, w) == w = Shows!WithEntry(v, e, FALSE)

(* What _flush_stream makes of a view.                                      *)
FlushedLog(v) == Cat(v.log, Shows!Lines(v.buf))

(* The text of the reply that streams.                                      *)
ReplyText(v) == v.entries[Shows!Place(v, v.reply)].pieces

(* The block of a call that is announced.                                   *)
NewBlock(f, m, w) ==
  \E x \in Entries : /\ x.kind = "block" /\ x.id = m.id /\ x.name = m.name
                     /\ x.result = 0 /\ x.uid = f.next /\ w.entries = Append(f.entries, x)

(* What stands for entries that are waited for.                             *)
Awaited(us) == [k \in DOMAIN us |-> <<"entry", us[k]>>]

(* The entries t are es, with a result at i.                                *)
Completes(es, i, r, t) ==
  /\ t \in Seq(Entries) /\ Len(t) = Len(es)
  /\ \A l \in DOMAIN es : l # i => t[l] = es[l]
  /\ t[i].kind = es[i].kind /\ t[i].pieces = es[i].pieces /\ t[i].id = es[i].id
  /\ t[i].name = es[i].name /\ t[i].uid = es[i].uid /\ t[i].result = r

(* A number that is at another place than k.                                *)
AtAnother(u, ps, k) == \E l \in DOMAIN ps : ps[l] = u /\ l # k

(* What on_tool_outcome makes of a view: without a block to complete, and   *)
(* with one.                                                                *)
MadeOnTheSpot(v, m, w) ==
  /\ w.pending = v.pending /\ w.next = v.next + 1
  /\ w.log = Append(v.log, <<"entry", v.next>>)
  /\ \E x \in Entries : /\ x.kind = "block" /\ x.id = 0 /\ x.name = m.name
                        /\ x.result = m.result /\ x.uid = v.next
                        /\ w.entries = Append(v.entries, x)

TakenBy(v, m, w, k, i) ==
  /\ k \in DOMAIN v.pending /\ i \in DOMAIN v.entries
  /\ v.entries[i].uid = v.pending[k] /\ v.entries[i].kind = "block" /\ v.entries[i].name = m.name
  /\ \A j \in DOMAIN v.pending, l \in DOMAIN v.entries :
       v.entries[l].uid = v.pending[j] /\ v.entries[l].name = m.name => k <= j
  /\ w.pending = Shows!RemoveAt(v.pending, k)
  /\ w.log = Append(v.log, <<"entry", v.pending[k]>>)
  /\ Completes(v.entries, i, m.result, w.entries)

(* The messages of a conversation, and what the worker posts.               *)
Msgs == [role : {"user", "assistant", "tool"}, pieces : Seq(Shows!Piece),
         calls : Seq(Shows!Call), id : Nat, name : ToolNames]

PostTypes == [kind : {"delta", "announce", "outcome", "notice", "done"}, piece : Shows!Piece,
              id : Nat, name : ToolNames, result : Nat]

(* The blocks of the calls of a message.                                    *)
ResultNow(id) == IF Shows!Answered(id) THEN id ELSE 0
BlockOf(c) == [Shows!Block(c.id, c.name) EXCEPT !.result = ResultNow(c.id)]
BlocksOf(cs) == [i \in DOMAIN cs |-> BlockOf(cs[i])]

(* The entries of a message.                                                *)
Rebuilds == [m \in Msgs |-> Shows!Rebuilt(m)]
ReplyFor(m) == Shows!Entry("reply", m.pieces, Shows!NoId, "none", Shows!NoId)

(* The view of a conversation that is loaded.                               *)
Loaded(all) ==
  LET es == [i \in DOMAIN all |-> [all[i] EXCEPT !.uid = i]]
  IN Shows!Rerendered([Shows!Empty EXCEPT !.entries = es, !.next = Len(es) + 1])

(* The types, with where a continued answer begins and when a batch is.     *)
TypesInv ==
  /\ messages \in Seq(Msgs) /\ stage \in {"idle", "stream", "batch"}
  /\ contStart \in 0..Len(messages) /\ (stage # "stream" => contStart = 0)
  /\ partial \in Seq(Shows!Piece) /\ batch \in Seq(Shows!Call)
  /\ (stage = "batch" <=> batch # <<>>)
  /\ posted \in Seq(PostTypes) /\ ViewOk(view)
  /\ said \in Nat /\ made \in Nat /\ turns \in Nat /\ said + made + turns <= MaxParts
  /\ stirred \in BOOLEAN /\ kept \in BOOLEAN

(* The calls of a batch are numbered from what was made.                    *)
Numbered(cs, n) == \A i \in DOMAIN cs : cs[i].id = n + i

(* What announces a call is a line of text, or names a call of the batch;   *)
(* where no arguments have an arrow in them, it names the call itself.      *)
Announces(cs, i, q) ==
  /\ q \in PostTypes /\ q.kind \in {"delta", "announce"}
  /\ (\A j \in DOMAIN cs : ~cs[j].arrow) =>
       q.kind = "announce" /\ q.id = cs[i].id /\ q.name = cs[i].name

(* The steps, one by one.  A message of the user has no text of the model,  *)
(* one of the model has no result.                                          *)
UserMsg(m) == m \in Msgs /\ m.role = "user" /\ m.pieces = <<>> /\ m.calls = <<>> /\ m.id = 0

ModelMsg(m, pieces, cs) ==
  m \in Msgs /\ m.role = "assistant" /\ m.pieces = pieces /\ m.calls = cs /\ m.id = 0

ToolMsg(m, c) ==
  m \in Msgs /\ m.role = "tool" /\ m.pieces = <<>> /\ m.calls = <<>> /\ m.id = c.id /\ m.name = c.name

Posted(q, kind) == q \in PostTypes /\ q.kind = kind

(* The text of the messages an answer was given in.                         *)
PiecesOf == [m \in Msgs |-> m.pieces]

(* The answer is added, or takes the place of its parts.                    *)
AnswerParts(b, c) ==
  /\ contStart # 0 /\ b \in Seq(Msgs) /\ c \in Seq(Msgs) /\ messages = Cat(b, c)
  /\ Len(b) = contStart - 1 /\ Len(c) = Len(messages) - contStart + 1
  /\ \A i \in 1..Len(c) : c[i] = messages[contStart + i - 1]
  /\ \E a : /\ ModelMsg(a, Cat(FlatMap(PiecesOf, c), partial), <<>>)
            /\ messages' = Append(b, a)

(* What an entry shows is in the log, or it is streamed and not yet         *)
(* written, or the entry is a call that is waited for.                      *)
Visible(v, e) ==
  \A y : In(y, Shows!Render(e)) =>
    \/ In(y, v.log)
    \/ e.uid = v.reply /\ In(y, Shows!Lines(v.buf))
    \/ In(e.uid, v.pending)

AllVisible(v) == \A i \in DOMAIN v.entries : Visible(v, v.entries[i])

(* The marks of entries, one by one.                                        *)
MarkOf == [u \in Nat |-> <<<<"entry", u>>>>]

(* What each entry shows.                                                   *)
Looks == [e \in Entries |-> Shows!Render(e)]

(* The calls that are waited for are the last entries.                      *)
IsTail(us, es) ==
  /\ Len(us) <= Len(es)
  /\ \A k \in DOMAIN us : es[(Len(es) - Len(us)) + k].uid = us[k]

(* The log shows every entry once and in order: the calls that are waited   *)
(* for come last, and so does a reply that is streamed, while nothing is    *)
(* waited for.                                                              *)
ReplyLast(v) == v.entries[Len(v.entries)].uid = v.reply

OrderOk(v) ==
  IF v.reply = 0
  THEN /\ Shows!RenderAll(v.entries) = Cat(v.log, Awaited(v.pending))
       /\ IsTail(v.pending, v.entries)
  ELSE /\ Shows!RenderAll(v.entries) = FlushedLog(v)
       /\ v.pending = <<>> /\ ReplyLast(v)

(* A turn that is over ends the queue with its last message, which waits    *)
(* for nothing any more.                                                    *)
PromptInv ==
  /\ \A i \in DOMAIN posted : posted[i].kind = "done" => i = Len(posted) /\ stage = "idle"
  /\ stage = "idle" => IF posted = <<>> THEN view.pending = <<>> /\ view.reply = 0
                       ELSE posted[Len(posted)].kind = "done"
  /\ stage = "batch" => partial = <<>>

(* A notice, which is written at once, comes after text: nothing is waited  *)
(* for when it is handled, or the text was written past it.                 *)
Settled == view.pending = <<>> \/ stirred

NoticeInv ==
  /\ \A i \in DOMAIN posted : posted[i].kind = "notice" =>
       IF i = 1 THEN Settled ELSE posted[i - 1].kind = "delta"
  /\ (stage = "stream" /\ partial # <<>>) =>
       IF posted = <<>> THEN Settled ELSE posted[Len(posted)].kind = "delta"

(* What a step of the worker posts: its last message alone may be the end   *)
(* of the turn, its first alone may be a notice, after text.                *)
Sends(qs) ==
  /\ qs \in Seq(PostTypes) /\ qs # <<>> /\ posted' = Cat(posted, qs)
  /\ \A i \in DOMAIN qs : /\ qs[i].kind = "done" => i = Len(qs) /\ stage' = "idle"
                          /\ qs[i].kind = "notice" => i = 1 /\ stage = "stream" /\ partial # <<>>
  /\ stage' = "idle" => qs[Len(qs)].kind = "done"
  /\ (stage' = "stream" /\ partial' # <<>>) => qs[Len(qs)].kind = "delta"

(* The log: the queue ends with what it waits for, everything is visible,   *)
(* and, where nothing was written past an unfinished entry, it is in order. *)
LogInv ==
  /\ TypesInv /\ PromptInv /\ NoticeInv
  /\ AllVisible(view)
  /\ ~stirred => OrderOk(view)

(* What the elements of what the elements of s make make.                   *)
Through(g, h, S) == [x \in S |-> FlatMap(h, g[x])]

(* The gist of a conversation: the text that is said and the calls that are *)
(* made, in order.  The calls are numbered in the order they are made.      *)
CallMarks(cs) == [i \in DOMAIN cs |-> <<"call", cs[i].id>>]

Rising(sk) ==
  \A i, j \in DOMAIN sk, m, n \in Nat :
    i < j /\ sk[i] = <<"call", m>> /\ sk[j] = <<"call", n>> => m < n

Calls(sk, n) == In(<<"call", n>>, sk)

(* The gist of the messages.                                                *)
MSkel == [m \in Msgs |-> Cat(Shows!Lines(m.pieces), CallMarks(m.calls))]
Gist(ms) == FlatMap(MSkel, ms)
ResultIn(ms, n) == \E i \in DOMAIN ms : ms[i].role = "tool" /\ ms[i].id = n

(* Messages whose calls rise to k: only the model speaks and calls.         *)
MsgsOk(ms, k) ==
  /\ \A i \in DOMAIN ms : /\ ms[i].role # "assistant" => ms[i].pieces = <<>> /\ ms[i].calls = <<>>
                          /\ ms[i].role = "tool" => ms[i].id <= k
  /\ Rising(Gist(ms))
  /\ \A n \in Nat : Calls(Gist(ms), n) => n <= k

(* The conversation: only the model speaks and calls, its calls are         *)
(* numbered as they are made, and no tool answers within a message that is  *)
(* being continued.                                                         *)
PlainFrom(ms, k) == \A i \in DOMAIN ms : k <= i => ms[i].role # "tool" /\ ms[i].calls = <<>>

ConvInv ==
  /\ MsgsOk(messages, made)
  /\ contStart # 0 => PlainFrom(messages, contStart)
  /\ \A b \in DOMAIN batch : batch[b].id <= made

(* A message that calls nothing, and what it says.                          *)
Says(m, p) ==
  /\ m \in Msgs /\ m.role # "tool" /\ p \in Seq(Shows!Piece)
  /\ (UserMsg(m) /\ p = <<>>) \/ ModelMsg(m, p, <<>>)

(* The gist of the entries: the text of the replies and the calls.          *)
ESkel == [e \in Entries |-> IF e.kind = "reply" THEN Shows!Lines(e.pieces)
                            ELSE IF e.kind = "block" THEN <<<<"call", e.id>>>> ELSE <<>>]

Sketch(es) == FlatMap(ESkel, es)

(* There is a block of a call with this name, result and number.            *)
HasBlock(es, n, a, r, u) ==
  \E i \in DOMAIN es : /\ es[i].kind = "block" /\ es[i].id = n /\ es[i].name = a
                       /\ es[i].result = r /\ es[i].uid = u

SameBlocks(es, t) == \A n, a, r, u : HasBlock(t, n, a, r, u) <=> HasBlock(es, n, a, r, u)

(* The sequence of one mark.                                                *)
One == [x \in Marks |-> <<x>>]

(* A block tells what there is to tell of its call now.                     *)
TellsNow(e) == e.kind = "block" => e.id # 0 /\ e.result = ResultNow(e.id)

(* What is shown of a mark: a call shows its result.                        *)
MarkTells ==
  [x \in Marks |-> IF x[1] = "call" THEN <<<<"result", ResultNow(x[2])>>>> ELSE <<x>>]

(* The calls that are announced, that are observed and that are still to    *)
(* run, each with the name of its tool.                                     *)
Tags == [id : Nat, name : ToolNames]
TagOf(n, a) == [id |-> n, name |-> a]
AnnTag  == [q \in PostTypes |-> IF q.kind = "announce" THEN <<TagOf(q.id, q.name)>> ELSE <<>>]
OutTag  == [q \in PostTypes |-> IF q.kind = "outcome" THEN <<TagOf(q.result, q.name)>> ELSE <<>>]
CallTag == [c \in Shows!Call |-> <<TagOf(c.id, c.name)>>]

(* The calls of the blocks that are not observed.                           *)
Pends(v, ps) ==
  /\ ps \in Seq(Tags) /\ Len(ps) = Len(v.pending)
  /\ \A k \in DOMAIN ps : HasBlock(v.entries, ps[k].id, ps[k].name, 0, v.pending[k])

(* A call is announced before it is observed.                               *)
Ahead(qs, ps) ==
  \A i \in DOMAIN qs : qs[i].kind = "outcome" =>
    Len(FlatMap(OutTag, Before(qs, i))) < Len(ps) + Len(FlatMap(AnnTag, Before(qs, i)))

(* The calls are observed in the order they are announced in, and, while a  *)
(* turn goes on, every call that is announced is.                           *)
Due(v, qs, bs, ps, rest, st) ==
  /\ Pends(v, ps) /\ rest \in Seq(Tags) /\ (st # "idle" => rest = <<>>)
  /\ Cat(ps, FlatMap(AnnTag, qs)) = Cat(Cat(FlatMap(OutTag, qs), FlatMap(CallTag, bs)), rest)
  /\ Ahead(qs, ps)

(* A sequence loses its head.                                               *)
Loses(s, h, t) == s # <<>> /\ h = Head(s) /\ t = Tail(s)

(* What comes before a place, in a sequence that loses its head.            *)
CutAt(s, h, t, i) ==
  /\ <<h>> \in Seq(PostTypes) /\ Before(t, i) \in Seq(PostTypes)
  /\ Before(s, i + 1) = Cat(<<h>>, Before(t, i))
  /\ i + 1 \in DOMAIN s /\ s[i + 1] = t[i] /\ i \in DOMAIN t

(* t is qs and more; of the outcomes it has more, each is the next message  *)
(* and is announced.                                                        *)
Prolongs(qs, t, n, ps) ==
  /\ n <= Len(t) /\ \A j \in 1..n : t[j] = qs[j]
  /\ \A i \in DOMAIN t : n < i /\ t[i].kind = "outcome" =>
       i = n + 1 /\ Len(FlatMap(OutTag, qs)) < Len(ps) + Len(FlatMap(AnnTag, qs))

(* The outcome h is that of the first call of ps; p2 is the rest.           *)
LeadsWith(ps, p2, h) ==
  /\ ps[1] = TagOf(h.result, h.name) /\ Cat(ps, AnnTag[h]) = Cat(OutTag[h], p2)
  /\ Len(ps) = Len(p2) + 1 /\ \A k \in 1..Len(p2) : p2[k] = ps[k + 1]

(* What the messages of a queue will add to the transcript.                 *)
QSkel == [q \in PostTypes |-> IF q.kind = "delta" THEN LineOf[q.piece]
                              ELSE IF q.kind = "announce" THEN <<<<"call", q.id>>>> ELSE <<>>]

Reported(qs, n) == \E i \in DOMAIN qs : qs[i].kind = "outcome" /\ qs[i].result = n

(* A block shows the result of its call or none, and a result there is      *)
(* that no block shows is about to be reported.                             *)
ResultsOk(es, qs, ms) ==
  /\ \A n, a, r, u : HasBlock(es, n, a, r, u) =>
       /\ n # 0 /\ r \in {0, n}
       /\ r # 0 => ResultIn(ms, n)
       /\ (r = 0 /\ ResultIn(ms, n)) => Reported(qs, n)
  /\ \A i \in DOMAIN qs : qs[i].kind = "announce" =>
       qs[i].id # 0 /\ (ResultIn(ms, qs[i].id) => Reported(qs, qs[i].id))
  /\ \A i \in DOMAIN qs : qs[i].kind = "outcome" => ResultIn(ms, qs[i].result)

(* The entries and what is posted tell what the messages and what is being  *)
(* said tell.                                                               *)
Tells(es, qs, ms, ls) == Cat(Sketch(es), FlatMap(QSkel, qs)) = Cat(Gist(ms), ls)
Being(st, p) == IF st = "stream" THEN Shows!Lines(p) ELSE <<>>
Waits(v, qs, bs, st) == \E ps, rest : Due(v, qs, bs, ps, rest, st)

KeptInv ==
  /\ Tells(view.entries, posted, messages, Being(stage, partial))
  /\ view.reply # 0 => ReplyLast(view)
  /\ ResultsOk(view.entries, posted, messages)
  /\ Waits(view, posted, batch, stage)

FaithInv == LogInv /\ ConvInv /\ (kept => KeptInv)

(* A message that is posted alone.                                          *)
Alone(xs, q) ==
  /\ FlatMap(QSkel, xs) = QSkel[q] /\ \A j \in DOMAIN xs : xs[j] = q
  /\ \A n : Reported(xs, n) <=> q.kind = "outcome" /\ q.result = n

(* A step of the worker says and calls what it posts.                       *)
SaidIn(xs) == Cat(Cat(Gist(messages), Being(stage, partial)), FlatMap(QSkel, xs))
                = Cat(Gist(messages'), Being(stage', partial'))

PostsResults(xs) ==
  /\ \A n : ResultIn(messages', n) <=> ResultIn(messages, n) \/ Reported(xs, n)
  /\ \A j \in DOMAIN xs : xs[j].kind = "announce" => xs[j].id # 0 /\ ~ResultIn(messages', xs[j].id)

(* A view in which the block u0 of v shows its result.                      *)
Takes(v, w, n0, a0, u0) ==
  /\ HasBlock(v.entries, n0, a0, 0, u0)
  /\ \A n, a, r, u : HasBlock(w.entries, n, a, r, u) <=>
       \/ HasBlock(v.entries, n, a, r, u) /\ u # u0
       \/ n = n0 /\ a = a0 /\ r = n0 /\ u = u0
===============================================================================
