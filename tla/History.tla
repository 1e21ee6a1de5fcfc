-------------------------------- MODULE History --------------------------------
(***************************************************************************)
(* The prompt history (ui/history.py): one file that every interactive     *)
(* session appends to, and the composer of the TUI that walks it           *)
(* (tui/widgets/prompt_input.py).  The plain loop only appends.            *)
(***************************************************************************)
EXTENDS Integers, Sequences, SequencesExt

CONSTANTS
  Tuis, Plains,  (* sessions with the composer, and with the plain loop     *)
  Prompts,       (* what a user may send                                    *)
  Private,       (* those typed with a space in front                       *)
  MultiLine,     (* those of more than one line                             *)
  MaxEntries,    (* [ui] history_size; 0 for no cap                         *)
  MaxAccepted    (* bound: prompts recorded in a behaviour                  *)

Sessions == Tuis \cup Plains

VARIABLES
  file,      (* the history file, a prompt a line                           *)
  entries,   (* PromptHistory._entries of each session, Closed before it    *)
             (* starts                                                      *)
  box,       (* the composer: text, row of the cursor, _hist_index (0 for   *)
             (* None) and _draft                                            *)
  accepted,  (* history: every prompt that was kept, in that order          *)
  disturbed, (* history: a session went over the cap, or a write failed     *)
  typed      (* history: what the user typed into the box before walking    *)

histVars == <<file, entries, box, accepted, disturbed, typed>>

Closed == <<"closed">>
Live(s) == entries[s] # Closed
EmptyBox == [text |-> "", row |-> 0, index |-> 0, draft |-> ""]
LastRow(text) == IF text \in MultiLine THEN 1 ELSE 0

Init ==
  /\ file = <<>> /\ entries = [s \in Sessions |-> Closed]
  /\ box = [s \in Tuis |-> EmptyBox]
  /\ accepted = <<>> /\ disturbed = FALSE /\ typed = [s \in Tuis |-> ""]

-----------------------------------------------------------------------------
(* _capped: the newest entries.                                             *)
Over(s)   == MaxEntries # 0 /\ Len(s) > MaxEntries
Capped(s) == IF Over(s)
             THEN SubSeq(s, Len(s) - MaxEntries + 1, Len(s)) ELSE s

(* load: repeats of the line before are one entry.                          *)
Loaded(lines) ==
  Capped(FlattenSeq([i \in DOMAIN lines |->
    IF i # 1 /\ lines[i] = lines[i - 1] THEN <<>> ELSE <<lines[i]>>]))

Begin(s) ==
  /\ ~Live(s) /\ entries' = [entries EXCEPT ![s] = Loaded(file)]
  /\ UNCHANGED <<file, box, accepted, disturbed, typed>>

(* Replacing the file at every entry.                                        *)
RecordRewrites(s, prompt, private) ==
  IF private \/ (entries[s] # <<>> /\ Last(entries[s]) = prompt)
  THEN UNCHANGED <<file, entries, accepted, disturbed>>
  ELSE LET all == Append(entries[s], prompt)
       IN /\ Len(accepted) < MaxAccepted
          /\ entries' = [entries EXCEPT ![s] = Capped(all)]
          /\ file' = Capped(all) /\ accepted' = Append(accepted, prompt)
          /\ UNCHANGED disturbed

(* storable and append: a private prompt and a repeat of the last entry are *)
(* refused; over the cap the file is replaced by the memory, else the line  *)
(* is appended.  A write that fails leaves the file as it was.              *)
Record(s, prompt, private) ==
  IF private \/ (entries[s] # <<>> /\ Last(entries[s]) = prompt)
  THEN UNCHANGED <<file, entries, accepted, disturbed>>
  ELSE LET all == Append(entries[s], prompt)
       IN /\ Len(accepted) < MaxAccepted
          /\ entries' = [entries EXCEPT ![s] = Capped(all)]
          /\ accepted' = Append(accepted, prompt)
          /\ \/ /\ file' = IF Over(all) THEN Capped(all) ELSE Append(file, prompt)
                /\ disturbed' = (disturbed \/ Over(all))
             \/ file' = file /\ disturbed' = TRUE

(* The plain loop records the line without what ends it.                    *)
PlainSubmits(s, prompt) ==
  /\ s \in Plains /\ Live(s)
  /\ Record(s, prompt, prompt \in Private)
  /\ UNCHANGED <<box, typed>>

(* The composer strips the text and records that; then it is cleared.       *)
TuiSubmits(s) ==
  /\ s \in Tuis /\ Live(s) /\ box[s].text # ""
  /\ Record(s, box[s].text, FALSE)
  /\ box' = [box EXCEPT ![s] = EmptyBox] /\ typed' = [typed EXCEPT ![s] = ""]

(* Escape.                                                                  *)
Clear(s) ==
  /\ s \in Tuis /\ Live(s) /\ box[s] # EmptyBox
  /\ box' = [box EXCEPT ![s] = EmptyBox] /\ typed' = [typed EXCEPT ![s] = ""]
  /\ UNCHANGED <<file, entries, accepted, disturbed>>

(* A printable key, backspace or delete ends the walk.                      *)
Type(s, text) ==
  /\ s \in Tuis /\ Live(s)
  /\ box' = [box EXCEPT ![s] = [@ EXCEPT !.text = text, !.row = LastRow(text),
                                         !.index = 0]]
  /\ typed' = [typed EXCEPT ![s] = text]
  /\ UNCHANGED <<file, entries, accepted, disturbed>>

(* Ctrl+J, Shift+Enter, a paste and the other editing keys do not.          *)
Insert(s, text) ==
  /\ s \in Tuis /\ Live(s)
  /\ box' = [box EXCEPT ![s] = [@ EXCEPT !.text = text, !.row = LastRow(text)]]
  /\ typed' = [typed EXCEPT ![s] = IF box[s].index = 0 THEN text ELSE @]
  /\ UNCHANGED <<file, entries, accepted, disturbed>>

MoveTo(s, row) == box' = [box EXCEPT ![s].row = row]
Show(s, b, text) ==
  box' = [box EXCEPT ![s] = [b EXCEPT !.text = text, !.row = LastRow(text)]]

(* action_history_prev: the cursor moves up as long as it can; then an      *)
(* older entry is shown, and the text that was there first is kept.         *)
Up(s) ==
  LET b == box[s]
      n == IF b.index = 0 THEN Len(entries[s]) ELSE b.index - 1
  IN /\ s \in Tuis /\ Live(s)
     /\ IF b.row > 0 \/ entries[s] = <<>> THEN MoveTo(s, 0)
        ELSE IF n = 0 THEN UNCHANGED box
        ELSE Show(s, [b EXCEPT !.index = n,
                               !.draft = IF b.index = 0 THEN b.text ELSE b.draft],
                  entries[s][n])
     /\ UNCHANGED <<file, entries, accepted, disturbed, typed>>

(* action_history_next: down as far as the cursor can, then newer entries,  *)
(* and past the newest one the draft.                                       *)
Down(s) ==
  LET b == box[s]
  IN /\ s \in Tuis /\ Live(s)
     /\ IF b.row < LastRow(b.text) \/ b.index = 0 THEN MoveTo(s, LastRow(b.text))
        ELSE IF b.index < Len(entries[s])
        THEN Show(s, [b EXCEPT !.index = @ + 1], entries[s][b.index + 1])
        ELSE Show(s, [b EXCEPT !.index = 0, !.draft = ""], b.draft)
     /\ UNCHANGED <<file, entries, accepted, disturbed, typed>>

End(s) ==
  /\ Live(s) /\ entries' = [entries EXCEPT ![s] = Closed]
  /\ box' = IF s \in Tuis THEN [box EXCEPT ![s] = EmptyBox] ELSE box
  /\ typed' = IF s \in Tuis THEN [typed EXCEPT ![s] = ""] ELSE typed
  /\ UNCHANGED <<file, accepted, disturbed>>

Next ==
  \/ \E s \in Sessions : Begin(s) \/ End(s)
  \/ \E s \in Plains, prompt \in Prompts : PlainSubmits(s, prompt)
  \/ \E s \in Tuis : TuiSubmits(s) \/ Clear(s) \/ Up(s) \/ Down(s)
  \/ \E s \in Tuis, prompt \in Prompts : Type(s, prompt) \/ Insert(s, prompt)

Spec == Init /\ [][Next]_histVars

-----------------------------------------------------------------------------
TypeOK ==
  /\ file \in Seq(Prompts) /\ accepted \in Seq(Prompts)
  /\ \A s \in Sessions : Live(s) =>
       entries[s] \in Seq(Prompts) /\ ~Over(entries[s])
  /\ \A s \in Tuis :
       /\ box[s].text \in Prompts \cup {""} /\ box[s].row \in 0..LastRow(box[s].text)
       /\ Live(s) => box[s].index \in 0..Len(entries[s])

(* What s holds is in t, in the same order.                                 *)
InOrder(s, t) ==
  \E at \in [DOMAIN s -> DOMAIN t] :
    /\ \A i \in DOMAIN s : s[i] = t[at[i]]
    /\ \A i, j \in DOMAIN s : i < j => at[i] < at[j]

(* Whatever sessions share the file, it holds prompts in the order they     *)
(* were sent; all of them until one session reaches the cap, which may then *)
(* drop what the other has sent since.                                      *)
FileKeepsOrder ==
  /\ file = accepted \/ InOrder(file, accepted)
  /\ ~disturbed => file = accepted

(* Walking the history never costs what was typed before: it is on screen,  *)
(* or Down brings it back past the newest entry.                            *)
DraftComesBack ==
  \A s \in Tuis : typed[s] = IF box[s].index = 0 THEN box[s].text ELSE box[s].draft

=============================================================================
