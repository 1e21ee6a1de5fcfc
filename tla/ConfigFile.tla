------------------------------ MODULE ConfigFile -------------------------------
(***************************************************************************)
(* The two configuration files and the writer the app edits them with      *)
(* (config_writer.py, tui/screens/save_diff.py): the new text of a file is *)
(* computed when its diff is shown and written when the user confirms it.  *)
(* A file is the settings it holds, or Broken when it does not parse; the  *)
(* configuration is resolved from both of them (config.py).                *)
(***************************************************************************)
EXTENDS Integers, FiniteSets

CONSTANTS
  Apps,       (* processes of agent86 on one home and project directory    *)
  Settings,   (* key paths                                                 *)
  Values,
  MaxSaves    (* bound: edits by hand and dialogs of a behaviour           *)

Scopes == {"user", "project"}
Unset  == "unset"
Broken == [s \in {"broken"} |-> Unset]
Texts  == [Settings -> Values \cup {Unset}]
Leave  == "keep"
(* One edit: the settings it leaves alone, removes (Unset) or sets.         *)
Changes == [Settings -> Values \cup {Unset, Leave}] \ {[k \in Settings |-> Leave]}

VARIABLES
  file,    (* what each file holds                                          *)
  app,     (* each process: its configuration and its dialog                *)
  saves,   (* edits so far                                                  *)
  moved    (* history: each file has been written since the diff of the     *)
           (* dialog was computed                                           *)

cfgVars == <<file, app, saves, moved>>

Away == [at |-> "down", cfg |-> Broken, changes |-> Broken,
         scope |-> "user", before |-> Broken, after |-> Broken]

-----------------------------------------------------------------------------
(* load_config: a project setting comes before a user setting, and a file   *)
(* that does not parse is an error.                                         *)
Resolvable == \A s \in Scopes : file[s] # Broken
Merged(user, project) ==
  [k \in Settings |-> IF project[k] # Unset THEN project[k] ELSE user[k]]
Resolved == Merged(file["user"], file["project"])

(* plan_edit, once the text has been parsed.                                *)
Planned(before, changes) ==
  [k \in Settings |-> IF changes[k] = Leave THEN before[k] ELSE changes[k]]

Init ==
  /\ file \in [Scopes -> {[k \in Settings |-> Unset], Broken}]
  /\ app = [p \in Apps |-> Away] /\ saves = 0
  /\ moved = [p \in Apps |-> FALSE]

(* A file is written, by a process or by hand.                              *)
Write(s, text, others) ==
  /\ file' = [file EXCEPT ![s] = text]
  /\ moved' = [p \in Apps |-> moved[p] \/ (p \in others /\ app[p].scope = s)]

(* A process that cannot resolve its configuration does not start.          *)
Start(p) ==
  /\ app[p].at = "down" /\ Resolvable
  /\ app' = [app EXCEPT ![p] = [Away EXCEPT !.at = "running", !.cfg = Resolved]]
  /\ UNCHANGED <<file, saves, moved>>

(* The dialog with the diff against the file of its scope; no edit can be   *)
(* made of a file that does not parse.                                      *)
Shown(p, d, scope) ==
  /\ app' = [app EXCEPT ![p] =
       [d EXCEPT !.at = "dialog", !.scope = scope, !.before = file[scope],
                 !.after = IF file[scope] = Broken THEN Broken
                           ELSE Planned(file[scope], d.changes)]]
  /\ moved' = [moved EXCEPT ![p] = FALSE]

Open(p, changes) ==
  /\ app[p].at = "running" /\ saves < MaxSaves /\ saves' = saves + 1
  /\ Shown(p, [app[p] EXCEPT !.changes = changes], "user")
  /\ UNCHANGED file

(* A scope that leaves the last good edit behind when it cannot be planned. *)
ScopeChosenKeeps(p, scope) ==
  /\ app[p].at = "dialog" /\ scope # app[p].scope
  /\ IF file[scope] = Broken
     THEN app' = [app EXCEPT ![p].scope = scope] /\ UNCHANGED moved
     ELSE Shown(p, app[p], scope)
  /\ UNCHANGED <<file, saves>>

ScopeChosen(p, scope) ==
  /\ app[p].at = "dialog" /\ scope # app[p].scope
  /\ Shown(p, app[p], scope)
  /\ UNCHANGED <<file, saves>>

Cancel(p) ==
  /\ app[p].at = "dialog"
  /\ app' = [app EXCEPT ![p] = [Away EXCEPT !.at = "running", !.cfg = app[p].cfg]]
  /\ UNCHANGED <<file, saves, moved>>

(* apply_edit begins: a temporary file beside the target takes the text.    *)
(* Save is inert without an edit.                                           *)
Confirm(p) ==
  /\ app[p].at = "dialog" /\ app[p].after # Broken
  /\ app' = [app EXCEPT ![p].at = "writing"]
  /\ UNCHANGED <<file, saves, moved>>

(* The rename puts the text in place, and the configuration is read again.  *)
(* If that fails, by the other file, the error leaves the app.              *)
Replace(p) ==
  LET other == CHOOSE s \in Scopes : s # app[p].scope
  IN /\ app[p].at = "writing"
     /\ Write(app[p].scope, app[p].after, Apps \ {p})
     /\ app' = [app EXCEPT ![p] =
          IF file[other] = Broken THEN Away
          ELSE [Away EXCEPT !.at = "running",
                  !.cfg = IF app[p].scope = "user"
                          THEN Merged(app[p].after, file["project"])
                          ELSE Merged(file["user"], app[p].after)]]
     /\ UNCHANGED saves

(* No temporary file can be made: the app says so and goes on.              *)
WriteRefused(p) ==
  /\ app[p].at = "writing"
  /\ app' = [app EXCEPT ![p] = [Away EXCEPT !.at = "running", !.cfg = app[p].cfg]]
  /\ UNCHANGED <<file, saves, moved>>

(* The process dies, or the write or the rename fails, which nothing in the *)
(* app catches.                                                             *)
Dies(p) ==
  /\ app[p].at # "down" /\ app' = [app EXCEPT ![p] = Away]
  /\ UNCHANGED <<file, saves, moved>>

(* Somebody edits a file with an editor, and may break it.                  *)
EditedByHand(s, text) ==
  /\ saves < MaxSaves /\ saves' = saves + 1
  /\ Write(s, text, Apps)
  /\ UNCHANGED app

Next ==
  \/ \E p \in Apps :
       \/ Start(p) \/ Cancel(p) \/ Confirm(p) \/ Replace(p)
       \/ WriteRefused(p) \/ Dies(p)
       \/ \E changes \in Changes : Open(p, changes)
       \/ \E scope \in Scopes : ScopeChosen(p, scope)
  \/ \E s \in Scopes, text \in Texts \cup {Broken} : EditedByHand(s, text)

Spec == Init /\ [][Next]_cfgVars

-----------------------------------------------------------------------------
TypeOK ==
  /\ file \in [Scopes -> Texts \cup {Broken}] /\ saves \in 0..MaxSaves
  /\ \A p \in Apps :
       /\ app[p].at \in {"down", "running", "dialog", "writing"}
       /\ app[p].at # "down" => app[p].cfg \in Texts
       /\ app[p].at = "writing" => app[p].after \in Texts

(* Only an editor breaks a file: no crash and no failing write in the       *)
(* middle of a save leaves one that keeps the program from starting.        *)
BreaksByHand ==
  \A s \in Scopes :
    (file'[s] = Broken /\ file[s] # Broken) => EditedByHand(s, Broken)
OnlyHandsBreakFiles == [][BreaksByHand]_cfgVars

(* What a confirmed save would put into the file of the dialog is that file *)
(* with the settings of the edit changed, and no other, as long as nobody   *)
(* has written the file since the diff was shown; a switch of the scope     *)
(* carries nothing of one file into the other.                              *)
SaveTouchesOnlyItsSettings ==
  \A p \in Apps :
    (app[p].at \in {"dialog", "writing"} /\ app[p].after # Broken /\ ~moved[p]) =>
      /\ file[app[p].scope] = app[p].before
      /\ \A k \in Settings :
           app[p].after[k] # file[app[p].scope][k] => app[p].changes[k] # Leave

=============================================================================
