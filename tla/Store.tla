--------------------------------- MODULE Store ---------------------------------
(***************************************************************************)
(* The memory database (memory/store.py) and the sessions kept in it: what *)
(* several processes of agent86 and the command line do to its two log     *)
(* tables.  A statement and its commit are one step, which succeeds or is  *)
(* refused because the database is locked.                                 *)
(***************************************************************************)
EXTENDS Integers, Sequences, FiniteSets

CONSTANTS
  Processes,
  MaxSessions,   (* bound: sessions of a behaviour                          *)
  MaxAsks,       (* bound: prompts sent in a behaviour                      *)
  CapEpisodes,   (* [memory] retention_max_episodes, 0 for no cap           *)
  CapSessions,   (* [memory] retention_max_sessions, 0 for no cap           *)
  ByAge,         (* [memory] retention_max_age_days is set                  *)
  ListLimit,     (* sessions "/resume" looks an id up in                    *)
  MaxFaults      (* bound: refused statements, crashes and prunes           *)

Ids      == 1..MaxSessions
Summary  == 0                 (* the message a compaction leaves            *)
NoRow    == [updated |-> 0]
Untitled == -1

VARIABLES
  db,       (* the tables: sessions, by id, and episodes                    *)
  proc,     (* each process: where it is, and its AgentState                *)
  now,      (* the clock: rows written so far                               *)
  ids, asks, faults,
  shared,   (* history: sessions that two processes have had open           *)
  finished, (* history: asks that were answered                             *)
  excused   (* history: asks whose episode was refused or pruned            *)

storeVars == <<db, proc, now, ids, asks, faults, shared, finished, excused>>

Away == [at |-> "down", id |-> 0, state |-> <<>>, title |-> Untitled]

Init ==
  /\ db = [sessions |-> [i \in Ids |-> NoRow], episodes |-> {}]
  /\ proc = [p \in Processes |-> Away]
  /\ now = 1 /\ ids = 0 /\ asks = 0 /\ faults = 0
  /\ shared = {} /\ finished = {} /\ excused = {}

Goes(p, q) == proc' = [proc EXCEPT ![p] = q]

(* conn.execute and conn.commit; or the statement raises OperationalError.  *)
Commits(tables) == db' = tables /\ now' = now + 1 /\ UNCHANGED faults
Deletes(tables) == db' = tables /\ UNCHANGED <<now, faults>>
Raises == faults < MaxFaults /\ faults' = faults + 1 /\ UNCHANGED <<db, now>>

-----------------------------------------------------------------------------
(* _prune_table: the rows before the cutoff go, and of the others all but   *)
(* the newest.                                                              *)
Pruned(stamps, cutoff, keep) ==
  LET young == {t \in stamps : t >= cutoff}
  IN IF keep = 0 THEN young
     ELSE {t \in young : Cardinality({u \in young : u > t}) < keep}

PruneEpisodes(tables, cutoff, keep) ==
  LET kept == Pruned({e.ts : e \in tables.episodes}, cutoff, keep)
  IN [tables EXCEPT !.episodes = {e \in @ : e.ts \in kept}]

PruneSessions(tables, cutoff, keep) ==
  LET kept == Pruned({tables.sessions[i].updated : i \in Ids} \ {0}, cutoff, keep)
  IN [tables EXCEPT !.sessions =
        [i \in Ids |-> IF @[i].updated \in kept THEN @[i] ELSE NoRow]]

Cutoffs == IF ByAge THEN 0..now ELSE {0}
Gone(old, new) == UNION {e.body : e \in old.episodes \ new.episodes}

-----------------------------------------------------------------------------
(* Harness.__init__: retention first, a commit for each table.  Nothing     *)
(* catches an error here, so the process does not start.                    *)
Launch(p) ==
  /\ proc[p].at = "down" /\ Goes(p, [Away EXCEPT !.at = "retainEpisodes"])
  /\ UNCHANGED <<db, now, ids, asks, faults, shared, finished, excused>>

RetainEpisodes(p) ==
  /\ proc[p].at = "retainEpisodes"
  /\ UNCHANGED <<ids, asks, shared, finished>>
  /\ \E cutoff \in Cutoffs :
       LET new == PruneEpisodes(db, cutoff, CapEpisodes)
       IN \/ /\ Deletes(new) /\ Goes(p, [Away EXCEPT !.at = "retainSessions"])
             /\ excused' = excused \cup Gone(db, new)
          \/ /\ Raises /\ Goes(p, Away)
             /\ UNCHANGED excused

RetainSessions(p) ==
  /\ proc[p].at = "retainSessions"
  /\ UNCHANGED <<ids, asks, shared, finished, excused>>
  /\ \E cutoff \in Cutoffs :
       LET new == PruneSessions(db, cutoff, CapSessions)
       IN \/ Deletes(new) /\ Goes(p, [Away EXCEPT !.at = "opening"])
          \/ Raises /\ Goes(p, Away)

(* new_session, at the start or for "/clear": the empty state is saved.      *)
NewSession(p) ==
  /\ proc[p].at \in {"opening", "idle"} /\ ids < MaxSessions /\ ids' = ids + 1
  /\ Goes(p, [at |-> "readTitle", id |-> ids + 1, state |-> <<>>, title |-> Untitled])
  /\ UNCHANGED <<db, now, asks, faults, shared, finished, excused>>

Takes(p, id) ==
  /\ Goes(p, [Away EXCEPT !.at = "idle", !.id = id,
                          !.state = db.sessions[id].state])
  /\ shared' = IF \E q \in Processes \ {p} : proc[q].at # "down" /\ proc[q].id = id
               THEN shared \cup {id} ELSE shared
  /\ UNCHANGED <<db, now, ids, asks, faults, finished, excused>>

HasRow(tables, id) == tables.sessions[id] # NoRow

(* "--resume" with an id; one that is not there means a new session.        *)
ResumeAtStart(p, id) ==
  /\ proc[p].at = "opening" /\ HasRow(db, id) /\ Takes(p, id)

(* recent_sessions: the newest rows.                                        *)
Listed(tables) ==
  {i \in Ids : HasRow(tables, i) /\
     Cardinality({j \in Ids : tables.sessions[j].updated
                                > tables.sessions[i].updated}) < ListLimit}

(* "/resume" with an id, or a row of the picker: one that is not listed any *)
(* more leaves the session as it is.                                        *)
Resume(p, id) ==
  /\ proc[p].at = "idle" /\ id \in Listed(db) /\ Takes(p, id)

-----------------------------------------------------------------------------
(* run_turn: the prompt is added to the state in memory.                    *)
Ask(p) ==
  /\ proc[p].at = "idle" /\ asks < MaxAsks /\ asks' = asks + 1
  /\ Goes(p, [proc[p] EXCEPT !.at = "turn", !.state = Append(@, asks + 1)])
  /\ UNCHANGED <<db, now, ids, faults, shared, finished, excused>>

Episode(p, task, body) ==
  [db EXCEPT !.episodes = @ \cup
     {[ask |-> task, body |-> body, ts |-> now]}]

(* Nothing is archived.                                                     *)
CompactDiscards(p) ==
  LET state == proc[p].state
  IN /\ proc[p].at = "turn" /\ Len(state) > 1
     /\ Goes(p, [proc[p] EXCEPT !.at = "readTitleTurn",
                                !.state = <<Summary, state[Len(state)]>>])
     /\ UNCHANGED <<db, now, ids, asks, faults, shared, finished, excused>>

(* maybe_compact: all but the ask of the running turn is archived, which    *)
(* must not fail the turn, replaced by a summary, and the state saved.      *)
Compact(p) ==
  LET state == proc[p].state
      old   == SubSeq(state, 1, Len(state) - 1)
      said  == {old[i] : i \in DOMAIN old} \ {Summary}
      new   == Episode(p, Summary, said)
  IN /\ proc[p].at = "turn" /\ said # {}
     /\ Goes(p, [proc[p] EXCEPT !.at = "readTitleTurn",
                                !.state = <<Summary, state[Len(state)]>>])
     /\ \/ Commits(new) /\ UNCHANGED excused
        \/ Raises /\ excused' = excused \cup said
     /\ UNCHANGED <<ids, asks, shared, finished>>

(* The turn is done, and its episode comes before its state.                *)
Answer(p) ==
  LET n   == proc[p].state[Len(proc[p].state)]
      new == Episode(p, n, {n})
  IN /\ proc[p].at = "turn"
     /\ \/ /\ Commits(new) /\ Goes(p, [proc[p] EXCEPT !.at = "readTitle"])
           /\ UNCHANGED excused
        \/ /\ Raises /\ Goes(p, [proc[p] EXCEPT !.at = "idle"])
           /\ excused' = excused \cup {n}
     /\ finished' = finished \cup {n}
     /\ UNCHANGED <<ids, asks, shared>>

(* Cancelled, refused, tripped or failed: saved without an episode.         *)
TurnStops(p) ==
  /\ proc[p].at = "turn" /\ Goes(p, [proc[p] EXCEPT !.at = "readTitle"])
  /\ UNCHANGED <<db, now, ids, asks, faults, shared, finished, excused>>

(* session_title: the first message of a user, who the summary speaks for.  *)
TitleOf(state) == IF state = <<>> THEN Untitled ELSE Head(state)

(* _persist asks for the stored title, and makes one only if there is none. *)
ReadTitle(p) ==
  LET row == db.sessions[proc[p].id]
  IN /\ proc[p].at \in {"readTitle", "readTitleTurn"}
     /\ Goes(p, [proc[p] EXCEPT
          !.at = IF @ = "readTitle" THEN "save" ELSE "saveTurn",
          !.title = IF row # NoRow /\ row.title # Untitled THEN Untitled
                    ELSE TitleOf(proc[p].state)])
     /\ UNCHANGED <<db, now, ids, asks, faults, shared, finished, excused>>

(* save_session: an upsert, whose title counts only when there is one.  An  *)
(* error ends the turn; the state in memory stays.  At the start of a       *)
(* session it ends the process.                                             *)
Save(p) ==
  LET q   == proc[p]
      row == db.sessions[q.id]
      new == [db EXCEPT !.sessions[q.id] =
                [updated |-> now, state |-> q.state,
                 title |-> IF q.title = Untitled /\ row # NoRow THEN row.title
                           ELSE q.title]]
  IN /\ q.at \in {"save", "saveTurn"}
     /\ \/ /\ Commits(new)
           /\ Goes(p, [q EXCEPT !.at = IF @ = "save" THEN "idle" ELSE "turn"])
        \/ /\ q.state # <<>> /\ Raises /\ Goes(p, [q EXCEPT !.at = "idle"])
        \/ /\ q.state = <<>> /\ Raises /\ Goes(p, Away)
     /\ UNCHANGED <<ids, asks, shared, finished, excused>>

(* The process ends, or dies.                                               *)
Exit(p) ==
  /\ proc[p].at # "down" /\ Goes(p, Away)
  /\ proc[p].at = "idle" \/ faults < MaxFaults
  /\ faults' = IF proc[p].at = "idle" THEN faults ELSE faults + 1
  /\ UNCHANGED <<db, now, ids, asks, shared, finished, excused>>

(* "memory prune": each table in a commit of its own, by another process.   *)
CliPrunes(cutoff, keep) ==
  /\ faults < MaxFaults /\ faults' = faults + 1
  /\ \/ db' = PruneEpisodes(db, cutoff, keep)
     \/ db' = PruneSessions(db, cutoff, keep)
  /\ excused' = excused \cup Gone(db, db')
  /\ UNCHANGED <<proc, now, ids, asks, shared, finished>>

Next ==
  \/ \E p \in Processes :
       \/ Launch(p) \/ RetainEpisodes(p) \/ RetainSessions(p) \/ NewSession(p)
       \/ Ask(p) \/ Compact(p) \/ Answer(p) \/ TurnStops(p)
       \/ ReadTitle(p) \/ Save(p) \/ Exit(p)
       \/ \E id \in Ids : ResumeAtStart(p, id) \/ Resume(p, id)
  \/ \E cutoff \in 0..now, keep \in 0..1 : CliPrunes(cutoff, keep)

Spec == Init /\ [][Next]_storeVars

-----------------------------------------------------------------------------
Row == [updated : 1..now, title : Untitled..MaxAsks, state : Seq(0..MaxAsks)]

TypeOK ==
  /\ \A i \in Ids : db.sessions[i] \in Row \cup {NoRow}
  /\ \A p \in Processes : proc[p].at # "down" => proc[p].state \in Seq(0..MaxAsks)
  /\ shared \subseteq Ids /\ finished \cup excused \subseteq 1..MaxAsks

Said(row) == {row.state[i] : i \in DOMAIN row.state} \ {Summary}

(* Every answered ask of a saved session has its episode, unless that was   *)
(* pruned or its recording was refused: the episode is committed before the *)
(* state, so a crash between the two leaves an episode without a state and  *)
(* never a state without its episode.                                       *)
EpisodesCoverSessions ==
  \A i \in Ids : HasRow(db, i) =>
    \A n \in (Said(db.sessions[i]) \cap finished) \ excused :
      \E e \in db.episodes : e.ask = n

(* _persist: a session "is only ever named once", by the first thing the    *)
(* user asked, although compaction drops that message later and the name is *)
(* looked up and written in two steps; two processes in one session may     *)
(* name it twice.                                                           *)
KeepsTitles ==
  \A i \in Ids \ shared :
    (HasRow(db, i) /\ HasRow(db', i) /\ db.sessions[i].title # Untitled) =>
      db'.sessions[i].title = db.sessions[i].title
NamedOnce == [][KeepsTitles]_storeVars

(* What was once saved of a session stays saved: in its state, or in the    *)
(* episode a compaction archived it in.  Pruning the episodes, a second     *)
(* process in the session and a refused archive cost this promise.          *)
KeepsSaid ==
  \A i \in Ids \ shared :
    (HasRow(db, i) /\ HasRow(db', i)) =>
      \A n \in Said(db.sessions[i]) \ (Said(db'.sessions[i]) \cup excused') :
        \E e \in db'.episodes : n \in e.body
SavedIsKept == [][KeepsSaid]_storeVars

(* Retention and "memory prune" drop the oldest rows of a table, whichever  *)
(* limit drops them: no row outlives one that is newer.                     *)
DropsTheOldest ==
  /\ \A d \in db.episodes \ db'.episodes, e \in db.episodes \cap db'.episodes :
       d.ts < e.ts
  /\ \A i, j \in Ids :
       (HasRow(db, i) /\ ~HasRow(db', i) /\ HasRow(db, j) /\ HasRow(db', j)) =>
         db.sessions[i].updated < db.sessions[j].updated
RetentionKeepsTheNewest == [][DropsTheOldest]_storeVars

=============================================================================
