------------------------------- MODULE Recorder --------------------------------
(***************************************************************************)
(* The flight recorder (observability/recorder.py): an append-only trace   *)
(* that is rotated when it crosses a cap, by every process that has it     *)
(* open.  Generation 0 is the live file, 1 the newest rotated one, Keep    *)
(* the oldest.  An open file stays open under whatever name a rotation of  *)
(* another process gives it, so names and files are kept apart.            *)
(***************************************************************************)
EXTENDS Integers, Sequences, SequencesExt, FiniteSets

CONSTANTS
  Processes,   (* sessions that share the trace directory                  *)
  Keep,        (* [observability] keep_traces                              *)
  MaxBytes,    (* max_trace_bytes, in events: every event has size 1       *)
  MaxEvents,   (* bound: events of a behaviour                             *)
  MaxFiles,    (* bound: files created in a behaviour                      *)
  MaxHeld      (* bound: times another program opens one of the files      *)

Generations == 0..Keep
NoFile      == 0

VARIABLES
  name,      (* the directory: the file of each generation, or NoFile      *)
  content,   (* the events of each file                                    *)
  files,     (* how many files there have been                             *)
  at,        (* each process: down, open, or at a step of a rotation       *)
  fh,        (* Recorder._fh                                               *)
  size,      (* Recorder._size                                             *)
  held,      (* generations another program has open: Windows refuses to   *)
             (* rename or to remove such a file                            *)
  holds,     (* how often that has happened                                *)
  written,   (* history: every event, in the order of writing              *)
  raced      (* history: two rotations overlapped, or one found a file held *)

recVars == <<name, content, files, at, fh, size, held, holds, written, raced>>

Down  == [step |-> "down", gen |-> 0]
Open  == [step |-> "open", gen |-> 0]
Shift(k) == [step |-> "rotate", gen |-> k]

Init ==
  /\ name = [k \in Generations |-> NoFile]
  /\ content = [i \in 1..MaxFiles |-> <<>>] /\ files = 0
  /\ at = [p \in Processes |-> Down]
  /\ fh = [p \in Processes |-> NoFile] /\ size = [p \in Processes |-> 0]
  /\ held = {} /\ holds = 0 /\ written = <<>> /\ raced = FALSE

Rotating(p) == at[p].step = "rotate"
FileSize(k) == IF name[k] = NoFile THEN 0 ELSE Len(content[name[k]])

-----------------------------------------------------------------------------
(* _open: the live file is opened for appending, and made if it is not there. *)
OpenLive(p) ==
  /\ at' = [at EXCEPT ![p] = Open]
  /\ IF name[0] = NoFile
     THEN /\ files < MaxFiles /\ files' = files + 1
          /\ name' = [name EXCEPT ![0] = files + 1]
     ELSE UNCHANGED <<files, name>>
  /\ fh' = [fh EXCEPT ![p] = name'[0]]
  /\ size' = [size EXCEPT ![p] = FileSize(0)]

(* A rotation that leaves the file open under its old name.                 *)
BeginRotationOpen(p) ==
  /\ at' = [at EXCEPT ![p] = Shift(Keep)] /\ UNCHANGED fh
  /\ raced' = (raced \/ \E q \in Processes \ {p} : Rotating(q))

(* A rotation begins: at the oldest generation, with the file closed.       *)
BeginRotation(p) ==
  /\ at' = [at EXCEPT ![p] = Shift(Keep)]
  /\ fh' = [fh EXCEPT ![p] = NoFile]
  /\ raced' = (raced \/ \E q \in Processes \ {p} : Rotating(q))

(* Recorder(path): a file that is over the cap is rotated before it is opened. *)
Start(p) ==
  /\ at[p] = Down
  /\ \/ /\ FileSize(0) >= MaxBytes /\ BeginRotation(p)
        /\ UNCHANGED <<name, files, size>>
     \/ /\ FileSize(0) < MaxBytes /\ OpenLive(p)
        /\ UNCHANGED raced
  /\ UNCHANGED <<content, held, holds, written>>

(* event: the line is written and flushed, and only then the cap is looked at. *)
Event(p) ==
  LET e == [session |-> p, number |-> Len(written) + 1]
  IN /\ at[p] = Open /\ Len(written) < MaxEvents
     /\ content' = [content EXCEPT ![fh[p]] = Append(@, e)]
     /\ written' = Append(written, e)
     /\ size' = [size EXCEPT ![p] = @ + 1]
     /\ IF size[p] + 1 >= MaxBytes THEN BeginRotation(p)
        ELSE UNCHANGED <<at, fh, raced>>
     /\ UNCHANGED <<name, files, held, holds>>

(* The oldest generation is removed; with Keep = 0 that is the live file.   *)
Removed(k) == IF k \in held THEN name ELSE [name EXCEPT ![k] = NoFile]

(* _replace: generation k becomes k+1, over whatever has that name.  Nothing *)
(* is renamed if there is no such file or one of the two is held.           *)
Renamed(k) ==
  IF name[k] = NoFile \/ {k, k + 1} \cap held # {} THEN name
  ELSE [name EXCEPT ![k] = NoFile, ![k + 1] = name[k]]

(* One step of _rotate_files.                                               *)
RotateStep(p) ==
  LET k == at[p].gen
  IN /\ Rotating(p) /\ k >= 0
     /\ name' = IF k = Keep THEN Removed(k) ELSE Renamed(k)
     /\ at' = [at EXCEPT ![p] = Shift(k - 1)]
     /\ raced' = (raced \/ {k, k + 1} \cap held # {})
     /\ UNCHANGED <<content, files, fh, size, held, holds, written>>

Reopen(p) ==
  /\ Rotating(p) /\ at[p].gen < 0
  /\ OpenLive(p)
  /\ UNCHANGED <<content, held, holds, written, raced>>

(* close, or the process dies: between two events or in a rotation.         *)
Stop(p) ==
  /\ at[p] # Down
  /\ at' = [at EXCEPT ![p] = Down] /\ fh' = [fh EXCEPT ![p] = NoFile]
  /\ UNCHANGED <<name, content, files, size, held, holds, written, raced>>

(* Another program (a tail, an editor, a scanner) opens a file, or lets go.  *)
Hold(k) ==
  /\ holds < MaxHeld /\ name[k] # NoFile /\ k \notin held
  /\ held' = held \cup {k} /\ holds' = holds + 1
  /\ UNCHANGED <<name, content, files, at, fh, size, written, raced>>

Release(k) ==
  /\ k \in held /\ held' = held \ {k}
  /\ UNCHANGED <<name, content, files, at, fh, size, holds, written, raced>>

Next ==
  \/ \E p \in Processes :
       Start(p) \/ Event(p) \/ RotateStep(p) \/ Reopen(p) \/ Stop(p)
  \/ \E k \in Generations : Hold(k) \/ Release(k)

Spec == Init /\ [][Next]_recVars

-----------------------------------------------------------------------------
(* Reading back.  The events of some sessions, and those of a generation.   *)
Of(s, sessions) ==
  FlattenSeq([i \in DOMAIN s |-> IF s[i].session \in sessions THEN <<s[i]>>
                                 ELSE <<>>])
Matching(k, sessions) ==
  IF name[k] = NoFile THEN <<>> ELSE Of(content[name[k]], sessions)

Newest(s, n) == SubSeq(s, IF Len(s) > n THEN Len(s) - n + 1 ELSE 1, Len(s))

(* The limit counted anew in every generation.                              *)
ReadEventsPerFile(sessions, limit) ==
  LET walk[k \in -1..Keep] ==
        IF k = -1 THEN <<>>
        ELSE Newest(Matching(k, sessions), limit) \o walk[k - 1]
  IN walk[Keep]

(* read_events: the generations newest first, each for what the ones before *)
(* it left of the limit.                                                    *)
ReadEvents(sessions, limit) ==
  LET walk[k \in -1..Keep] ==
        IF k = -1 THEN <<>>
        ELSE LET newer == walk[k - 1]
             IN Newest(Matching(k, sessions), limit - Len(newer)) \o newer
  IN walk[Keep]

-----------------------------------------------------------------------------
TraceEvent == [session : Processes, number : 1..MaxEvents]

TypeOK ==
  /\ name \in [Generations -> 0..files] /\ files \in 0..MaxFiles
  /\ \A i \in 1..MaxFiles : content[i] \in Seq(TraceEvent)
  /\ at \in [Processes -> {Down, Open} \cup {Shift(k) : k \in -1..Keep}]
  /\ fh \in [Processes -> 0..files] /\ \A p \in Processes : size[p] \in Nat
  /\ \A p \in Processes : at[p] = Open <=> fh[p] # NoFile
  /\ held \subseteq Generations /\ written \in Seq(TraceEvent)

(* "trace show" of a session shows its last events, as many as asked for and *)
(* none left out between two of them, in the order they were written,       *)
(* however its files were rotated under it and wherever a process died in a *)
(* rotation: what is lost is the beginning.  Two rotations at a time, or a  *)
(* file that cannot be renamed, cost the rest of this promise but the order. *)
SessionReadsItsTail ==
  \A p \in Processes : \A n \in 0..MaxEvents :
    LET all  == ReadEvents({p}, MaxEvents)
        read == ReadEvents({p}, n)
    IN /\ read = Newest(all, n)
       /\ \A i, j \in DOMAIN all : i < j => all[i].number < all[j].number
       /\ ~raced => IsSuffix(all, Of(written, {p})) \/ all = <<>>

(* The cap holds for every file although each process counts only what it   *)
(* writes itself, and a process that died over the cap does not go on.      *)
FilesAreCapped ==
  ~raced => \A i \in 1..files :
    Len(content[i]) <= Cardinality(Processes) * MaxBytes

=============================================================================
