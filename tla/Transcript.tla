------------------------------ MODULE Transcript ------------------------------
(***************************************************************************)
(* What the app shows of a turn (tui/app.py, tui/turn_bridge.py): the      *)
(* worker reads the deltas of Harness.run_turn, tells text from tool lines *)
(* and notices, and posts messages; the app keeps a list of entries and,   *)
(* beside it, the log that is on screen, which it only appends to, until   *)
(* an entry changes how it looks and everything is written anew.           *)
(*                                                                         *)
(* A piece of streamed text is a number and a sort: line breaks only,      *)
(* plain, or with Markdown in it.                                          *)
(***************************************************************************)
EXTENDS Integers, Sequences, SequencesExt

CONSTANTS
  Names,       (* of tools                                                  *)
  MaxParts     (* bound: turns, pieces of text said and calls made, in all  *)

VARIABLES
  messages,    (* state.messages                                            *)
  stage,       (* the worker: "idle", "stream" or "batch"                   *)
  contStart,   (* where the parts of an answer being continued begin, or 0    *)
  partial,     (* what the model has said of its current message            *)
  batch,       (* calls of the batch that are not observed                  *)
  queue,       (* messages posted to the app                                *)
  view,        (* the app's entries, log and stream state                   *)
  said, made, turns,
  stirred,     (* history: the log was written to past an unfinished entry  *)
  kept         (* history: every call was recognised and no turn cut short    *)

worker == <<messages, stage, contStart, partial, batch, said, made, turns>>
vars == <<worker, queue, view, stirred, kept>>

Piece == [n : 0..MaxParts, sort : {"blank", "plain", "marked", "line"}]
(* A call.  In the line that announces it, arguments with an arrow in them  *)
(* look like an outcome.                                                    *)
Call == [id : 1..MaxParts, name : Names, arrow : BOOLEAN]
NoId == 0

Blank(pieces) == \A i \in DOMAIN pieces : pieces[i].sort = "blank"
Msg(role, pieces, calls, id, name) ==
  [role |-> role, pieces |-> pieces, calls |-> calls, id |-> id, name |-> name]
Post(kind, piece, id, name, result) ==
  [kind |-> kind, piece |-> piece, id |-> id, name |-> name, result |-> result]
NoPiece == [n |-> 0, sort |-> "line"]

-----------------------------------------------------------------------------
(* Entries and the log.                                                     *)

Entry(kind, pieces, id, name, result) ==
  [kind |-> kind, pieces |-> pieces, id |-> id, name |-> name, result |-> result, uid |-> 0]
Note  == Entry("note", <<>>, NoId, "none", NoId)
Block(id, name) == Entry("block", <<>>, id, name, NoId)

Empty == [entries |-> <<[Note EXCEPT !.uid = 1]>>, log |-> <<<<"entry", 1>>>>, reply |-> 0,
          pending |-> <<>>, buf |-> <<>>, next |-> 2]

Lines(pieces) ==
  FlattenSeq([i \in DOMAIN pieces |->
    IF pieces[i].sort = "blank" THEN <<>> ELSE <<<<"text", pieces[i]>>>>])
Render(e) == IF e.kind = "reply" THEN Lines(e.pieces) ELSE <<<<"entry", e.uid>>>>
(* Every entry, but for calls that are not observed.                        *)
RenderBut(entries, pending) ==
  FlattenSeq([i \in DOMAIN entries |->
    IF Contains(pending, entries[i].uid) THEN <<>> ELSE Render(entries[i])])
RenderAll(entries) == RenderBut(entries, <<>>)

(* Where the entry with this uid is.                                        *)
Place(v, uid) == CHOOSE i \in DOMAIN v.entries : v.entries[i].uid = uid
NameOf(v, uid) == v.entries[Place(v, uid)].name

(* _append_entry, which may only reserve the entry's place.                 *)
WithEntry(v, e, write) ==
  LET placed == [e EXCEPT !.uid = v.next]
  IN [v EXCEPT !.entries = Append(@, placed), !.next = @ + 1,
               !.log = IF write THEN @ \o Render(placed) ELSE @]

(* _rerender.                                                               *)
Rerendered(v) == [v EXCEPT !.log = RenderBut(v.entries, v.pending)]

(* _flush_stream.                                                           *)
FlushedStream(v) == [v EXCEPT !.log = @ \o Lines(v.buf), !.buf = <<>>]

(* _finish_reply: a reply that says nothing is dropped, one with Markdown   *)
(* is rendered as such, which writes the log anew.                          *)
Finished(v) ==
  LET f    == [FlushedStream(v) EXCEPT !.reply = 0]
      text == v.entries[Place(v, v.reply)].pieces
  IN IF v.reply = 0 THEN f
     ELSE IF Blank(text) THEN [f EXCEPT !.entries = RemoveAt(v.entries, Place(v, v.reply))]
     ELSE IF \E i \in DOMAIN text : text[i].sort = "marked" THEN Rerendered(f) ELSE f

(* on_turn_delta: the reply grows, and as much of the buffer as ends a      *)
(* paragraph moves to the log.                                              *)
ReplyEntry(v) ==
  IF v.reply # 0 THEN v
  ELSE [WithEntry(v, Entry("reply", <<>>, NoId, "none", NoId), FALSE) EXCEPT !.reply = v.next]
Grown(v, p) ==
  LET r == ReplyEntry(v)
  IN [r EXCEPT !.buf = Append(@, p), !.entries[Place(r, r.reply)].pieces = Append(@, p)]
Drained(v, k) ==
  [v EXCEPT !.log = @ \o Lines(SubSeq(v.buf, 1, k)), !.buf = SubSeq(@, k + 1, Len(@))]

(* on_tool_announce.                                                        *)
Announced(v, m) ==
  LET f == Finished(v)
  IN [WithEntry(f, Block(m.id, m.name), FALSE) EXCEPT !.pending = Append(@, f.next)]

(* The pending blocks of that name, and the one that takes the outcome: the *)
(* oldest, or, in the mutant, the one announced last.                       *)
PendingOf(v, name) == {k \in DOMAIN v.pending : NameOf(v, v.pending[k]) = name}
NewestOf(v, name) == CHOOSE k \in PendingOf(v, name) : \A j \in PendingOf(v, name) : j <= k
OldestOf(v, name) == CHOOSE k \in PendingOf(v, name) : \A j \in PendingOf(v, name) : k <= j

(* on_tool_outcome: completes that block, or one made on the spot.          *)
Completed(v, i, result) ==
  [v EXCEPT !.entries[i].result = result, !.log = Append(@, <<"entry", v.entries[i].uid>>)]
Observed(v, m) ==
  LET w == WithEntry(v, Block(NoId, m.name), FALSE)
      k == OldestOf(v, m.name)
  IN IF PendingOf(v, m.name) = {} THEN Completed(w, Len(w.entries), m.result)
     ELSE [Completed(v, Place(v, v.pending[k]), m.result) EXCEPT
             !.pending = RemoveAt(v.pending, k)]

(* on_turn_done and on_turn_error, with the summary or error at the end.    *)
Ended(v) ==
  LET f == Finished(v)
  IN WithEntry([f EXCEPT !.log = @ \o [i \in DOMAIN f.pending |-> <<"entry", f.pending[i]>>],
                         !.pending = <<>>], Note, TRUE)

(* _entries_for: the entries of a conversation that is loaded.              *)
Answered(id) == \E i \in DOMAIN messages : messages[i].role = "tool" /\ messages[i].id = id
Rebuilt(m) ==
  CASE m.role = "user" -> <<Entry("user", <<>>, NoId, "none", NoId)>>
    [] m.role = "tool" -> <<>>
    [] m.role = "assistant" ->
         (IF Blank(m.pieces) THEN <<>>
          ELSE <<Entry("reply", m.pieces, NoId, "none", NoId)>>)
         \o [i \in DOMAIN m.calls |->
               [Block(m.calls[i].id, m.calls[i].name) EXCEPT
                  !.result = IF Answered(m.calls[i].id) THEN m.calls[i].id ELSE NoId]]
EntriesFor == FlattenSeq([i \in DOMAIN messages |-> Rebuilt(messages[i])])

-----------------------------------------------------------------------------
Init ==
  /\ messages = <<>> /\ stage = "idle" /\ contStart = 0 /\ partial = <<>> /\ batch = <<>> /\ queue = <<>>
  /\ view = Empty /\ said = 0 /\ made = 0 /\ turns = 0 /\ stirred = FALSE /\ kept = TRUE

AtPrompt == stage = "idle" /\ queue = <<>>
Posts(ms) == queue' = queue \o ms /\ UNCHANGED <<view, stirred>>

(* A line is submitted: it is echoed, and the turn begins.                  *)
Submit ==
  /\ AtPrompt /\ said + made + turns < MaxParts
  /\ turns' = turns + 1 /\ stage' = "stream" /\ partial' = <<>>
  /\ messages' = Append(messages, Msg("user", <<>>, <<>>, NoId, "none"))
  /\ view' = [WithEntry(view, Entry("user", <<>>, NoId, "none", NoId), TRUE)
                EXCEPT !.buf = <<>>, !.reply = 0, !.pending = <<>>]
  /\ UNCHANGED <<contStart, batch, said, made, queue, stirred, kept>>

(* The worker.                                                              *)
Say(sort) ==
  /\ stage = "stream" /\ said + made + turns < MaxParts
  /\ said' = said + 1
  /\ LET p == [n |-> said + 1, sort |-> sort]
     IN partial' = Append(partial, p) /\ Posts(<<Post("delta", p, NoId, "none", NoId)>>)
  /\ UNCHANGED <<messages, stage, contStart, batch, made, turns, kept>>

Assistant(calls) == Append(messages, Msg("assistant", partial, calls, NoId, "none"))

(* The output limit is reached: the model is asked to continue.  Bound:     *)
(* only when it has said something.                                         *)
Continue ==
  /\ stage = "stream" /\ partial # <<>>
  /\ messages' = Append(Assistant(<<>>), Msg("user", <<>>, <<>>, NoId, "none"))
  /\ contStart' = (IF contStart = 0 THEN Len(messages) + 1 ELSE contStart)
  /\ partial' = <<>>
  /\ Posts(<<Post("notice", NoPiece, NoId, "none", NoId)>>)
  /\ UNCHANGED <<stage, batch, said, made, turns, kept>>

(* The answer; the parts it was given in and the requests between them      *)
(* become one message.                                                      *)
Stitched ==
  LET parts == SubSeq(messages, contStart, Len(messages))
  IN IF contStart = 0 THEN Assistant(<<>>)
     ELSE SubSeq(messages, 1, contStart - 1) \o
          <<Msg("assistant", FlattenSeq([i \in DOMAIN parts |-> parts[i].pieces]) \o partial,
                <<>>, NoId, "none")>>

Answer ==
  /\ stage = "stream"
  /\ messages' = Stitched /\ stage' = "idle" /\ contStart' = 0
  /\ Posts(<<Post("done", NoPiece, NoId, "none", NoId)>>)
  /\ UNCHANGED <<partial, batch, said, made, turns, kept>>

(* _announce and the classification before it: the nth line announced in a  *)
(* row is the nth call, or the first of its name; a line with an arrow is   *)
(* taken for text, and the counting starts again.                           *)
ByName(calls, name) ==
  calls[CHOOSE i \in DOMAIN calls : /\ calls[i].name = name
                                    /\ \A j \in 1..(i - 1) : calls[j].name # name]
Since(calls, i) ==
  LET arrows == {j \in 1..(i - 1) : calls[j].arrow}
  IN IF arrows = {} THEN i ELSE i - (CHOOSE j \in arrows : \A k \in arrows : k <= j)
AnnounceLine(calls, i) ==
  LET nth == calls[Since(calls, i)]
      c   == IF nth.name = calls[i].name THEN nth ELSE ByName(calls, calls[i].name)
  IN IF calls[i].arrow THEN Post("delta", NoPiece, NoId, "none", NoId)
     ELSE Post("announce", NoPiece, c.id, c.name, NoId)

CallTools(calls) ==
  /\ stage = "stream" /\ batch = <<>>
  /\ made' = made + Len(calls)
  /\ messages' = Assistant(calls)
  /\ stage' = "batch" /\ batch' = calls /\ partial' = <<>> /\ contStart' = 0
  /\ Posts([i \in DOMAIN calls |-> AnnounceLine(calls, i)])
  /\ kept' = (kept /\ \A i \in DOMAIN calls : ~calls[i].arrow)
  /\ UNCHANGED <<said, turns>>

(* _last_tool_content, read while the loop waits to go on.                  *)
LastContent(ms, name) ==
  LET mine == {i \in DOMAIN ms : ms[i].role = "tool" /\ ms[i].name = name}
  IN ms[CHOOSE i \in mine : \A j \in mine : j <= i].id

Observe ==
  /\ stage = "batch"
  /\ LET c  == Head(batch)
         ms == Append(messages, Msg("tool", <<>>, <<>>, c.id, c.name))
     IN /\ messages' = ms
        /\ Posts(<<Post("outcome", NoPiece, NoId, c.name, LastContent(ms, c.name))>>)
  /\ batch' = Tail(batch)
  /\ stage' = (IF Len(batch) = 1 THEN "stream" ELSE "batch")
  /\ UNCHANGED <<contStart, partial, said, made, turns, kept>>

(* The turn is cancelled, which is said as text, or it raises, within a     *)
(* message or, when the breaker trips, within a batch.                      *)
Stop(cancelled) ==
  /\ stage \in {"stream", "batch"} /\ (cancelled => stage = "stream")
  /\ stage' = "idle" /\ batch' = <<>> /\ contStart' = 0
  /\ Posts((IF cancelled THEN <<Post("delta", NoPiece, NoId, "none", NoId)>> ELSE <<>>)
           \o <<Post("done", NoPiece, NoId, "none", NoId)>>)
  /\ kept' = (kept /\ ~cancelled /\ Blank(partial))
  /\ UNCHANGED <<messages, partial, said, made, turns>>

-----------------------------------------------------------------------------
(* The app.                                                                 *)

Handle(kind) == queue # <<>> /\ Head(queue).kind = kind /\ queue' = Tail(queue)
                /\ UNCHANGED <<worker, kept>>

OnDelta ==
  /\ Handle("delta") /\ stirred' = (stirred \/ view.pending # <<>>)
  /\ LET v == Grown(view, Head(queue).piece)
     IN \E k \in 0..Len(v.buf) : view' = Drained(v, k)
OnAnnounce == Handle("announce") /\ view' = Announced(view, Head(queue)) /\ UNCHANGED stirred
OnOutcome ==
  /\ Handle("outcome") /\ view' = Observed(view, Head(queue))
  /\ stirred' = (stirred \/ view.reply # 0
                   \/ (view.pending # <<>> /\ NameOf(view, Head(view.pending)) # Head(queue).name))
OnNotice == Handle("notice") /\ view' = WithEntry(Finished(view), Note, TRUE) /\ UNCHANGED stirred
OnDone   == Handle("done") /\ view' = Ended(view) /\ UNCHANGED stirred

Blocks == \E i \in DOMAIN view.entries : view.entries[i].kind = "block"

(* A tool block is expanded or collapsed; the theme changes.                *)
Toggle ==
  /\ Blocks /\ view' = Rerendered(view)
  /\ stirred' = (stirred \/ view.reply # 0)
  /\ UNCHANGED <<worker, queue, kept>>

(* "/resume": the conversation is shown as it is stored.                    *)
LoadSession ==
  /\ AtPrompt
  /\ LET all == <<Note>> \o EntriesFor \o <<Note>>
         es  == [i \in DOMAIN all |-> [all[i] EXCEPT !.uid = i]]
     IN view' = Rerendered([Empty EXCEPT !.entries = es, !.next = Len(es) + 1])
  /\ stirred' = FALSE /\ kept' = TRUE
  /\ UNCHANGED <<worker, queue>>

(* "/clear".                                                                *)
Clear ==
  /\ AtPrompt
  /\ messages' = <<>> /\ view' = Empty /\ stirred' = FALSE /\ kept' = TRUE
  /\ UNCHANGED <<stage, contStart, partial, batch, said, made, turns, queue>>

Batches ==
  {<<[id |-> made + 1, name |-> a, arrow |-> x]>> : a \in Names, x \in BOOLEAN}
  \cup {<<[id |-> made + 1, name |-> a, arrow |-> x], [id |-> made + 2, name |-> b, arrow |-> y]>> :
          a \in Names, b \in Names, x \in BOOLEAN, y \in BOOLEAN}

Next ==
  \/ Submit \/ Answer \/ Continue \/ Observe
  \/ \E sort \in {"blank", "plain", "marked"} : Say(sort)
  \/ \E calls \in Batches : said + made + turns + Len(calls) <= MaxParts /\ CallTools(calls)
  \/ \E cancelled \in BOOLEAN : Stop(cancelled)
  \/ OnDelta \/ OnAnnounce \/ OnOutcome \/ OnNotice \/ OnDone
  \/ Toggle \/ LoadSession \/ Clear

Spec == Init /\ [][Next]_vars

-----------------------------------------------------------------------------
TypeOK ==
  /\ stage \in {"idle", "stream", "batch"} /\ partial \in Seq(Piece) /\ batch \in Seq(Call)
  /\ \A i \in DOMAIN queue :
       queue[i].kind \in {"delta", "announce", "outcome", "notice", "done"}
  /\ \A i \in DOMAIN view.entries :
       view.entries[i].kind \in {"user", "note", "reply", "block"}
       /\ view.entries[i].uid \in 1..(view.next - 1)
  /\ view.buf \in Seq(Piece) /\ view.reply \in 0..(view.next - 1)

(* "its place in the transcript is reserved here so ordering can't drift"   *)
(* (app.py, on_tool_announce): outcomes carry a name and no id, yet however *)
(* many calls of one name a batch has, a block that says which call it is   *)
(* shows the result of that call and of no other, as long as every call     *)
(* was recognised.                                                          *)
BlocksTellTheirOwnResult ==
  kept => \A i \in DOMAIN view.entries : LET e == view.entries[i] IN
    (e.kind = "block" /\ e.id # NoId /\ e.result # NoId) => e.result = e.id

(* The entries are "the MODEL of the scrollback" (app.py): at the prompt    *)
(* the log shows each of them, and, where nothing was written past a reply  *)
(* that was still streaming, it shows each once and in order.               *)
LogShowsTheEntries ==
  AtPrompt =>
    LET all == RenderAll(view.entries)
    IN ToSet(all) \subseteq ToSet(view.log) /\ (stirred \/ all = view.log)

(* "User prompts are echoed plain, assistant messages go through the        *)
(* Markdown path, and every tool call becomes a collapsed block with its    *)
(* arguments and result attached" (app.py, load_session): a conversation    *)
(* that is resumed shows the replies and the results it showed before, in   *)
(* the same order, unless a turn was cut off in what it said or a call was  *)
(* not recognised.                                                          *)
Shown(entries) ==
  FlattenSeq([i \in DOMAIN entries |->
    CASE entries[i].kind = "reply" -> Lines(entries[i].pieces)
      [] entries[i].kind = "block" -> <<<<"result", entries[i].result>>>>
      [] OTHER -> <<>>])
ResumeShowsTheSame == (AtPrompt /\ kept) => Shown(view.entries) = Shown(EntriesFor)
===============================================================================
