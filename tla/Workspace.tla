------------------------------- MODULE Workspace -------------------------------
(***************************************************************************)
(* What an approved tool call does to the workspace: write_file and        *)
(* edit_file (tools/builtin/files.py), and the processes and containers of *)
(* run_command and python_exec (tools/sandbox).                            *)
(*                                                                         *)
(* There is one file.  A line is its text, abstracted to a token, and its  *)
(* ending.  Between any two steps the user's editor, or a process some     *)
(* command left behind, may write the file: Meddle.                        *)
(***************************************************************************)
EXTENDS Integers, Sequences, FiniteSets, SequencesExt

CONSTANTS
  Absent,     (* no such file; also: no call yet                            *)
  Tokens,     (* texts of lines                                             *)
  Newline,    (* os.linesep, which write_text makes of a line break         *)
  Files,      (* bound: what the file is at first                           *)
  Others,     (* bound: what others write, once while a call is handled     *)
  Changes,    (* bound: the calls the model makes                           *)
  MaxCalls    (* bound: how many of them                                    *)

Empty  == "empty string"
Line   == [text : Tokens, end : {"lf", "crlf"}]
File   == [lines : Seq(Line), bom : BOOLEAN, utf8 : BOOLEAN]
(* What the tools are called with.  An edit's new text is never without a   *)
(* line, though the line may be empty.                                      *)
Call ==
  [tool : {"edit_file"}, inside : BOOLEAN, old : Tokens \cup {Empty},
   new : Seq(Tokens) \ {<<>>}, every : BOOLEAN]
  \cup [tool : {"write_file"}, inside : BOOLEAN, content : Seq(Tokens)]
  \cup [tool : {"run_command"}, docker : BOOLEAN]

VARIABLES
  disk,       (* the file                                                   *)
  pc,         (* "idle", "asked", "cleared", "read", "talking", "draining"  *)
  call,       (* the call being handled                                     *)
  shown,      (* the preview the user approved                              *)
  seen,       (* the file as the tool read it                               *)
  report,     (* the ToolResult of the call, at its end                         *)
  touched,    (* somebody else wrote the file since the preview             *)
  child,      (* the direct child process is running                        *)
  kids,       (* the processes it spawned that are running                  *)
  missed,     (* the kill of the group was refused                          *)
  container,  (* the container of the command is running                    *)
  calls

fileVars == <<disk, seen, touched>>
procVars == <<child, kids, missed, container>>
vars == <<fileVars, procVars, pc, call, shown, report, calls>>

(* A spawned process: whether it stayed in the child's group, and whether   *)
(* it holds the child's output pipes.                                       *)
Kid == [group : BOOLEAN, pipe : BOOLEAN]

NoDiff      == [kind |-> "none", from |-> <<>>, to |-> <<>>]
Refused     == [kind |-> "refused", from |-> <<>>, to |-> <<>>]
NewFile(to) == [kind |-> "new", from |-> <<>>, to |-> to]
(* unified_diff_for: line endings and byte order marks are not compared.    *)
Diff(from, to) == [kind |-> "diff", from |-> from, to |-> to]

Result(ok, diff)   == [ok |-> ok, diff |-> diff, timed |-> FALSE, note |-> FALSE]
NoReport           == Result(FALSE, NoDiff)
TimedOut(note)     == [ok |-> FALSE, diff |-> NoDiff, timed |-> TRUE, note |-> note]

Init ==
  /\ disk \in Files \cup {Absent}
  /\ pc = "idle" /\ call = Absent /\ shown = NoDiff /\ seen = Absent
  /\ report = NoReport /\ touched = FALSE
  /\ child = FALSE /\ kids = {} /\ missed = FALSE /\ container = FALSE /\ calls = 0

-----------------------------------------------------------------------------
(* Texts.                                                                   *)

Texts(lines) == [i \in DOMAIN lines |-> lines[i].text]
Ended(tokens, end) == [i \in DOMAIN tokens |-> [text |-> tokens[i], end |-> end]]
Readable(f) == f # Absent /\ f.utf8

(* read_file_text: a consistently CRLF file is normalised, a mixed one is   *)
(* taken verbatim.                                                          *)
Consistent(f) == f.lines # <<>> /\ \A i \in DOMAIN f.lines : f.lines[i].end = "crlf"
Decoded(f) == IF Consistent(f) THEN Ended(Texts(f.lines), "lf") ELSE f.lines

(* A file that is written with plain line breaks.                           *)
EncodedPlain(f, lines) == [lines |-> lines, bom |-> f.bom, utf8 |-> TRUE]
(* FileText.encode: the file's own line breaks and byte order mark.         *)
Encoded(f, lines) ==
  [lines |-> IF Consistent(f) THEN Ended(Texts(lines), "crlf") ELSE lines,
   bom |-> f.bom, utf8 |-> TRUE]

Found(lines, old) == {i \in DOMAIN lines : lines[i].text = old}
Count(lines, old) == IF old = Empty THEN Len(lines) + 1 ELSE Cardinality(Found(lines, old))

(* str.replace.  The empty string is found before and after everything.     *)
Replaced(lines, old, new, every) ==
  LET hits == Found(lines, old)
      hit(i) == i \in hits /\ (every \/ \A j \in hits : i <= j)
      inPlace(i) == Append(Ended(Front(new), "lf"),
                           [text |-> Last(new), end |-> lines[i].end])
  IN IF old = Empty
     THEN Ended(new, "lf") \o FlattenSeq(
            [i \in DOMAIN lines |-> <<lines[i]>> \o Ended(new, "lf")])
     ELSE FlattenSeq([i \in DOMAIN lines |-> IF hit(i) THEN inPlace(i) ELSE <<lines[i]>>])

Ambiguous(lines, c) == Count(lines, c.old) > 1 /\ ~c.every
Updated(lines, c) == Replaced(lines, c.old, c.new, c.every)

EditPreview(c) ==
  IF ~c.inside \/ ~Readable(disk) THEN Refused
  ELSE LET now == Decoded(disk)
       IN IF Count(now, c.old) = 0 \/ Ambiguous(now, c) THEN Refused
          ELSE Diff(Texts(now), Texts(Updated(now, c)))

(* A file that cannot be decoded is announced as a new one.                 *)
WritePreview(c) ==
  IF c.inside /\ Readable(disk) THEN Diff(Texts(disk.lines), c.content) ELSE NewFile(c.content)

-----------------------------------------------------------------------------
(* The gate: the preview is made when the user is asked, the call runs      *)
(* when the user has answered.  What an earlier command left running goes   *)
(* on, and may write.                                                       *)

Preview(c) ==
  CASE c.tool = "edit_file"   -> EditPreview(c)
    [] c.tool = "write_file"  -> WritePreview(c)
    [] c.tool = "run_command" -> NoDiff

Receive(c, asks) ==
  /\ pc = "idle" /\ calls < MaxCalls
  /\ calls' = calls + 1 /\ call' = c /\ touched' = FALSE
  /\ pc' = (IF asks THEN "asked" ELSE "cleared")
  /\ shown' = (IF asks THEN Preview(c) ELSE NoDiff)
  /\ seen' = Absent /\ report' = NoReport
  /\ child' = FALSE /\ kids' = {} /\ missed' = FALSE /\ container' = FALSE
  /\ UNCHANGED disk

Answered(yes) ==
  /\ pc = "asked"
  /\ pc' = (IF yes THEN "cleared" ELSE "idle")
  /\ report' = (IF yes THEN NoReport ELSE Result(FALSE, NoDiff))
  /\ UNCHANGED <<fileVars, procVars, call, shown, calls>>

Return(result) == pc' = "idle" /\ report' = result
CallStays == UNCHANGED <<procVars, call, shown, calls>>

-----------------------------------------------------------------------------
(* edit_file and write_file: the file is read and then written.             *)

Editable ==
  /\ Readable(disk) /\ call.old # Empty
  /\ Count(Decoded(disk), call.old) # 0 /\ ~Ambiguous(Decoded(disk), call)
  /\ call.new # <<call.old>>
(* resolve_within the jail, and what edit_file asks.                        *)
Accepted == call.inside /\ (call.tool = "edit_file" => Editable)

(* A refusal, or a PolicyError, becomes the answer and nothing is done.     *)
Refuse ==
  /\ pc = "cleared" /\ call.tool # "run_command"
  /\ ~Accepted
  /\ Return(Result(FALSE, NoDiff))
  /\ UNCHANGED fileVars /\ CallStays

ReadOld ==
  /\ pc = "cleared" /\ call.tool # "run_command"
  /\ Accepted
  /\ pc' = "read" /\ seen' = disk
  /\ UNCHANGED <<disk, report, touched>> /\ CallStays

EditFile ==
  /\ pc = "read" /\ call.tool = "edit_file"
  /\ LET old == Decoded(seen)
         new == Updated(old, call)
     IN /\ disk' = Encoded(seen, new)
        /\ Return(Result(TRUE, Diff(Texts(old), Texts(new))))
  /\ UNCHANGED <<seen, touched>> /\ CallStays

WriteFile ==
  /\ pc = "read" /\ call.tool = "write_file"
  /\ disk' = [lines |-> Ended(call.content, Newline), bom |-> FALSE, utf8 |-> TRUE]
  /\ Return(Result(TRUE, IF Readable(seen) THEN Diff(Texts(seen.lines), call.content)
                         ELSE NewFile(call.content)))
  /\ UNCHANGED <<seen, touched>> /\ CallStays

(* The file cannot be opened, or it was emptied and then not written.       *)
WriteFails ==
  /\ pc = "read"
  /\ disk' \in {disk, [lines |-> <<>>, bom |-> FALSE, utf8 |-> TRUE]}
  /\ Return(Result(FALSE, NoDiff))
  /\ UNCHANGED <<seen, touched>> /\ CallStays

Meddle ==
  /\ pc # "idle" /\ ~touched
  /\ disk' \in Others
  /\ touched' = TRUE
  /\ UNCHANGED <<seen, pc, report>> /\ CallStays

-----------------------------------------------------------------------------
(* run_command: a process at the head of a group of its own, or a client of *)
(* docker and its container.                                                *)

CommandStays == UNCHANGED <<fileVars, call, shown, calls>>

Launch ==
  /\ pc = "cleared" /\ call.tool = "run_command"
  /\ pc' = "talking"
  /\ child' = TRUE
  /\ UNCHANGED <<kids, missed, container, report>> /\ CommandStays

(* No docker, or a working directory that is gone.                          *)
LaunchFails ==
  /\ pc = "cleared" /\ call.tool = "run_command"
  /\ Return(Result(FALSE, NoDiff))
  /\ UNCHANGED procVars /\ CommandStays

Spawn(k) ==
  /\ child /\ ~call.docker /\ k \notin kids
  /\ kids' = kids \cup {k}
  /\ UNCHANGED <<child, missed, container, pc, report>> /\ CommandStays

ContainerStarts ==
  /\ child /\ call.docker /\ ~container
  /\ container' = TRUE
  /\ UNCHANGED <<child, kids, missed, pc, report>> /\ CommandStays

ChildExits ==
  /\ child
  /\ child' = FALSE /\ container' = FALSE
  /\ UNCHANGED <<kids, missed, pc, report>> /\ CommandStays

KidExits(k) ==
  /\ kids' = kids \ {k}
  /\ UNCHANGED <<child, missed, container, pc, report>> /\ CommandStays

PipesClosed == ~child /\ \A k \in kids : ~k.pipe

(* communicate: the output ends when nobody holds the pipes any more.       *)
Completes ==
  /\ pc = "talking" /\ PipesClosed
  /\ \E ok \in BOOLEAN : Return(Result(ok, NoDiff))
  /\ UNCHANGED procVars /\ CommandStays

(* kill_process_tree: nothing, once the direct child has ended; the group   *)
(* and the child, or only the child where the group cannot be killed.       *)
KillProcessTree ==
  IF ~child THEN UNCHANGED <<child, kids, missed>>
  ELSE /\ child' = FALSE
       /\ missed' \in BOOLEAN
       /\ kids' = IF missed' THEN kids ELSE {k \in kids : ~k.group}

TimesOut ==
  /\ pc = "talking" /\ ~call.docker /\ ~PipesClosed
  /\ KillProcessTree
  /\ pc' = "draining"
  /\ UNCHANGED <<container, report>> /\ CommandStays

(* Only when nobody holds the pipes.                                        *)
DrainedFully == PipesClosed
(* _drain: the pipes are closed, or its few seconds are over.               *)
Drained == TRUE

DrainEnds ==
  /\ pc = "draining" /\ Drained
  /\ Return(TimedOut(FALSE))
  /\ UNCHANGED procVars /\ CommandStays

(* The client is killed, and then the container by its name, which fails    *)
(* where there is none or the daemon does not answer: the result says so.   *)
ContainerTimesOut ==
  /\ pc = "talking" /\ call.docker /\ child
  /\ child' = FALSE
  /\ \E killed \in {FALSE, container} :
        /\ container' = (container /\ ~killed)
        /\ Return(TimedOut(~killed))
  /\ UNCHANGED <<kids, missed>> /\ CommandStays

-----------------------------------------------------------------------------
Clock == Completes \/ TimesOut \/ DrainEnds \/ ContainerTimesOut

Next ==
  \/ \E c \in Changes, asks \in BOOLEAN : Receive(c, asks)
  \/ \E yes \in BOOLEAN : Answered(yes)
  \/ Refuse \/ ReadOld \/ EditFile \/ WriteFile \/ WriteFails \/ Meddle
  \/ Launch \/ LaunchFails \/ ContainerStarts \/ ChildExits
  \/ \E k \in Kid : Spawn(k)
  \/ \E k \in kids : KidExits(k)
  \/ Clock

Spec == Init /\ [][Next]_vars /\ WF_vars(Clock)

-----------------------------------------------------------------------------
DiffType == [kind : {"none", "refused", "new", "diff"}, from : Seq(Tokens), to : Seq(Tokens)]

TypeOK ==
  /\ {disk, seen} \subseteq File \cup {Absent}
  /\ pc \in {"idle", "asked", "cleared", "read", "talking", "draining"}
  /\ call \in Changes \cup {Absent} /\ shown \in DiffType
  /\ report \in [ok : BOOLEAN, diff : DiffType, timed : BOOLEAN, note : BOOLEAN]
  /\ {touched, child, missed, container} \subseteq BOOLEAN
  /\ kids \subseteq Kid /\ calls \in 0..MaxCalls

(* "The diff is what the approval gate shows the user before the write      *)
(* happens and what the model reads back afterwards, so both sides judge    *)
(* the same artifact" (files.py): a write that succeeded after the user saw *)
(* its preview made that change and reported it, unless somebody else wrote *)
(* the file meanwhile.                                                      *)
DiffShownIsDiffMade ==
  (pc = "idle" /\ report.ok /\ report.diff # NoDiff /\ shown # NoDiff /\ ~touched)
  => /\ report.diff = shown
     /\ Texts(disk.lines) = shown.to

OneEnding(f, end) == \A i \in DOMAIN f.lines : f.lines[i].end = end
Edited(c) == {c.old} \cup ToSet(c.new)
Rest(f, c) ==
  FlattenSeq([i \in DOMAIN f.lines |->
    IF f.lines[i].text \in Edited(c) THEN <<>> ELSE <<f.lines[i]>>])

(* "edit_file is byte-preserving by design" (files.py): an edit leaves the  *)
(* byte order mark alone, a file with one kind of line ending keeps that    *)
(* kind, the lines it inserts included, and every other line stays as it    *)
(* was, its ending included.                                                *)
EditKeepsTheRest ==
  [][pc = "read" /\ call.tool = "edit_file" /\ report'.ok /\ pc' = "idle"
     => /\ disk'.bom = seen.bom
        /\ \A end \in {"lf", "crlf"} : OneEnding(seen, end) => OneEnding(disk', end)
        /\ Rest(disk', call) = Rest(seen, call)]_vars

(* "No unbounded runtime" (subprocess_exec.py): whatever a command spawned  *)
(* and whoever still holds its output, its call returns.                    *)
CommandsReturn == (pc \in {"talking", "draining"}) ~> (pc = "idle")

(* "The timeout kills the whole process tree, not just the direct child"    *)
(* (subprocess_exec.py): when a command that timed out returns, no process  *)
(* of its group is running, unless the kill itself was refused.             *)
TimeoutKillsTheTree ==
  (pc = "idle" /\ report.timed /\ ~missed) => \A k \in kids : ~k.group
===============================================================================
