--------------------------------- MODULE MCApp ---------------------------------
(***************************************************************************)
(* Two parts of the app that meet the answers of other threads: the choice *)
(* of a model, and the transcript of a turn.  They share no state; a       *)
(* behaviour is that of one of them, the focus, and the other rests.       *)
(*                                                                         *)
(* Three providers: one with a key, a gateway without one whose adapter    *)
(* calls itself by the name of the first, and a local one that needs no    *)
(* key and lists no models.                                                *)
(***************************************************************************)
EXTENDS ModelSwitch

CONSTANTS Names, MaxParts

ASSUME ShowsAssumption == MaxParts \in Nat

VARIABLES focus, messages, stage, contStart, partial, batch, posted, view,
          said, made, turns, stirred, kept

Shows == INSTANCE Transcript WITH queue <- posted
showVars == <<messages, stage, contStart, partial, batch, posted, view,
              said, made, turns, stirred, kept>>

MCListing == [n \in Providers |-> IF n \in Keyless THEN {} ELSE Models]
MCRoutes  == {[name |-> n, model |-> "m"] : n \in Stored \cup Keyless}

AppInit ==
  /\ focus \in {"model", "transcript"} /\ Init /\ Shows!Init
  /\ focus = "transcript" => provider = CHOOSE r \in Routes : TRUE

ModelSteps      == focus = "model" /\ Next /\ UNCHANGED <<focus, showVars>>
TranscriptSteps == focus = "transcript" /\ Shows!Next /\ UNCHANGED <<focus, vars>>

AppSpec == AppInit /\ [][ModelSteps \/ TranscriptSteps]_<<focus, vars, showVars>> /\ Fairness

(* Every variable of the two parts has its type.                            *)
AppTypeOK == TypeOK /\ Shows!TypeOK

(* The transcript says what happened: a block shows the result of the call  *)
(* it names, the log shows the entries, and a resumed conversation shows    *)
(* what it showed before (app.py, turn_bridge.py).                          *)
TranscriptIsFaithful ==
  /\ Shows!BlocksTellTheirOwnResult
  /\ Shows!LogShowsTheEntries
  /\ Shows!ResumeShowsTheSame
=============================================================================
