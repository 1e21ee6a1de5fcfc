-------------------------------- MODULE MCHome ---------------------------------
(***************************************************************************)
(* The four things that processes of agent86 share in the home directory:  *)
(* the trace, the prompt history, the configuration and the database.      *)
(* They have no state in common, so a behaviour is that of one of them,    *)
(* the focus, and the others rest.                                         *)
(***************************************************************************)
EXTENDS Integers, Sequences, FiniteSets

CONSTANTS
  Processes,                                               (* of all but History *)
  Keep, MaxBytes, MaxEvents, MaxFiles, MaxHeld,            (* Recorder       *)
  Tuis, Plains, Prompts, Private, MultiLine, MaxEntries, MaxAccepted, (* History *)
  Settings, Values, MaxSaves,                              (* ConfigFile     *)
  MaxSessions, MaxAsks, CapEpisodes, CapSessions, ByAge, ListLimit, MaxFaults

ASSUME HomeAssumption ==
  /\ Keep \in Nat /\ MaxBytes \in Nat \ {0}
  /\ MaxEvents \in Nat /\ MaxFiles \in Nat /\ MaxHeld \in Nat
  /\ MaxEntries \in Nat /\ MaxAccepted \in Nat /\ MaxSaves \in Nat
  /\ MaxSessions \in Nat /\ MaxAsks \in Nat /\ MaxFaults \in Nat
  /\ CapEpisodes \in Nat /\ CapSessions \in Nat /\ ByAge \in BOOLEAN
  /\ IsFiniteSet(Processes) /\ Private \cup MultiLine \subseteq Prompts
  /\ {"", "closed"} \cap Prompts = {}   (* what stands for no prompt *)

VARIABLES
  focus,
  name, content, files, at, fh, size, held, holds, written, raced,
  hfile, entries, box, accepted, disturbed, typed,
  cfile, app, saves, moved,
  db, proc, now, ids, asks, faults, shared, finished, excused

Trace  == INSTANCE Recorder
Log    == INSTANCE History WITH file <- hfile
Config == INSTANCE ConfigFile WITH Apps <- Processes, file <- cfile
Memory == INSTANCE Store

Fixed == "rests"
TraceRests ==
  /\ name = Fixed /\ content = Fixed /\ files = Fixed /\ at = Fixed /\ fh = Fixed
  /\ size = Fixed /\ held = Fixed /\ holds = Fixed /\ written = Fixed /\ raced = Fixed
HistoryRests ==
  /\ hfile = Fixed /\ entries = Fixed /\ box = Fixed /\ accepted = Fixed
  /\ disturbed = Fixed /\ typed = Fixed
ConfigRests == cfile = Fixed /\ app = Fixed /\ saves = Fixed /\ moved = Fixed
StoreRests ==
  /\ db = Fixed /\ proc = Fixed /\ now = Fixed /\ ids = Fixed /\ asks = Fixed
  /\ faults = Fixed /\ shared = Fixed /\ finished = Fixed /\ excused = Fixed

Init ==
  \/ /\ focus = "trace" /\ Trace!Init /\ HistoryRests /\ ConfigRests /\ StoreRests
  \/ /\ focus = "history" /\ Log!Init /\ TraceRests /\ ConfigRests /\ StoreRests
  \/ /\ focus = "config" /\ Config!Init /\ TraceRests /\ HistoryRests /\ StoreRests
  \/ /\ focus = "store" /\ Memory!Init /\ TraceRests /\ HistoryRests /\ ConfigRests

recVars == <<name, content, files, at, fh, size, held, holds, written, raced>>
histVars == <<hfile, entries, box, accepted, disturbed, typed>>
cfgVars == <<cfile, app, saves, moved>>
storeVars == <<db, proc, now, ids, asks, faults, shared, finished, excused>>

TraceSteps ==
  focus = "trace" /\ Trace!Next /\ UNCHANGED <<focus, histVars, cfgVars, storeVars>>
HistorySteps ==
  focus = "history" /\ Log!Next /\ UNCHANGED <<focus, recVars, cfgVars, storeVars>>
ConfigSteps ==
  focus = "config" /\ Config!Next /\ UNCHANGED <<focus, recVars, histVars, storeVars>>
StoreSteps ==
  focus = "store" /\ Memory!Next /\ UNCHANGED <<focus, recVars, histVars, cfgVars>>

Next == TraceSteps \/ HistorySteps \/ ConfigSteps \/ StoreSteps

Spec == Init /\ [][Next]_<<focus, recVars, histVars, cfgVars, storeVars>>

(* Each of the four in its types.                                           *)
TypeOK ==
  CASE focus = "trace"   -> Trace!TypeOK
    [] focus = "history" -> Log!TypeOK
    [] focus = "config"  -> Config!TypeOK
    [] focus = "store"   -> Memory!TypeOK

(* What several processes trace through rotations, crashes and files they   *)
(* cannot rename is read back as the end of it, in order, and no file grows *)
(* past its cap for each of them (recorder.py).                             *)
TraceReadsBack ==
  focus = "trace" => Trace!SessionReadsItsTail /\ Trace!FilesAreCapped

(* Sessions that share the history file keep the order of the prompts, and  *)
(* a walk through them keeps the draft (history.py, prompt_input.py).       *)
PromptsAreKept ==
  focus = "history" => Log!FileKeepsOrder /\ Log!DraftComesBack

(* A confirmed save changes the settings its diff showed, in the file whose *)
(* diff it was, and no crash or refused write on the way breaks the file    *)
(* (config_writer.py, save_diff.py).                                        *)
ConfigurationIsKept ==
  /\ [](focus = "config" => Config!SaveTouchesOnlyItsSettings)
  /\ [][focus = "config" => Config!BreaksByHand]_cfgVars

(* Through compactions, crashes, refused writes, retention and a second     *)
(* process, what a session saved stays in its row or in an episode, its     *)
(* name stays, and pruning takes the oldest first (store.py, loop.py).      *)
SessionsAreKept ==
  /\ [](focus = "store" => Memory!EpisodesCoverSessions)
  /\ [][focus = "store" => /\ Memory!KeepsTitles
                          /\ Memory!KeepsSaid
                          /\ Memory!DropsTheOldest]_storeVars
=============================================================================
